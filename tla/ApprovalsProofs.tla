--------------------------- MODULE ApprovalsProofs ---------------------------
(***************************************************************************)
(* Theorems about the approval engine, for every definition, every set of  *)
(* users and any number of approvals and of requests under way.            *)
(***************************************************************************)
EXTENDS Approvals, Integers, WellFoundedInduction, TLAPS

-----------------------------------------------------------------------------
(* Facts about the operators *)

LEMMA LeastOfOrder ==
    ASSUME NEW R, IsWellFoundedOn(R, Nat),
           \A x, y \in Nat : y < x => <<y, x>> \in R,
           NEW T \in SUBSET Nat, T # {}
    PROVE  \E x \in T : \A y \in T : x <= y
<1>1. PICK x \in T : \A y \in T : ~(<<y, x>> \in R)
    BY WFMin
<1>2. ASSUME NEW y \in T
      PROVE  x <= y
    <2>1. x \in Nat /\ y \in Nat
        OBVIOUS
    <2>2. ~(y < x)
        BY <1>1, <2>1
    <2> QED
        BY <2>1, <2>2
<1> QED
    BY <1>2

LEMMA LessIsARelation == \A x, y \in Nat : y < x => <<y, x>> \in OpToRel(<, Nat)
    BY DEF OpToRel

LEMMA MinIsLeast ==
    ASSUME NEW T \in SUBSET Nat, T # {}
    PROVE  Min(T) \in T /\ \A y \in T : Min(T) <= y
<1>1. \E x \in T : \A y \in T : x <= y
    BY NatLessThanWellFounded, LeastOfOrder, LessIsARelation, Zenon
<1> QED
    BY <1>1 DEF Min

LEMMA MaxIsLargest ==
    ASSUME NEW n \in Nat, NEW T \in SUBSET (0 .. n), T # {}
    PROVE  Max(T) \in T /\ \A y \in T : y <= Max(T)
<1> DEFINE Gap == {n - x : x \in T}
<1>1. \A x \in T : x \in Nat /\ n - x \in Nat /\ n - x \in Gap
    OBVIOUS
<1>2. Gap \in SUBSET Nat /\ Gap # {}
    BY <1>1
<1>3. \A g \in Gap : \E x \in T : g = n - x
    OBVIOUS
<1> HIDE DEF Gap
<1>4. PICK g \in Gap : \A h \in Gap : g <= h
    BY <1>2, NatLessThanWellFounded, LeastOfOrder, LessIsARelation, Zenon
<1>5. PICK x \in T : g = n - x
    BY <1>3
<1>6. ASSUME NEW y \in T
      PROVE  x >= y
    BY <1>1, <1>4, <1>5
<1>7. Max(T) \in T /\ \A y \in T : Max(T) >= y
    BY <1>6 DEF Max
<1> QED
    BY <1>1, <1>7

\* Two bounds of one set that belong to it are the same.
LEMMA MaxIs ==
    ASSUME NEW n \in Nat, NEW T \in SUBSET (0 .. n),
           NEW x \in T, \A y \in T : y <= x
    PROVE  Max(T) = x
<1>1. T # {}
    OBVIOUS
<1>2. Max(T) \in T /\ \A y \in T : y <= Max(T)
    BY <1>1, MaxIsLargest
<1>3. Max(T) <= x /\ x <= Max(T)
    BY <1>2
<1>4. x \in 0 .. n /\ Max(T) \in 0 .. n
    BY <1>2
<1> QED
    BY <1>3, <1>4

LEMMA StepsAreTyped ==
    ASSUME definition \in [active : BOOLEAN, steps : StepLists]
    PROVE  /\ Last \in Nat \ {0}
           /\ \A s \in 1 .. Last : StepOf(s) \in Step /\ StepOf(s).target \in 0 .. Last
<1>1. definition.steps \in StepLists
    OBVIOUS
<1>2. definition.steps \in Seq(Step) /\ definition.steps # <<>>
    BY <1>1, ApprovalAssumption
<1>3. \A s \in 1 .. Len(definition.steps) :
            definition.steps[s].target \in 0 .. Len(definition.steps)
    BY <1>1, ApprovalAssumption
<1> QED
    BY <1>2, <1>3 DEF Last, StepOf

Iterations(held) == \A k \in DOMAIN held : k.iter \in 1 .. MaxIteration

LEMMA LatestIsLargest ==
    ASSUME NEW held, NEW s, Iterations(held)
    PROVE  /\ LatestIteration(held, s) \in 0 .. MaxIteration
           /\ \A k \in DOMAIN held : k.step = s => k.iter <= LatestIteration(held, s)
<1> DEFINE T == {0} \cup {k.iter : k \in {j \in DOMAIN held : j.step = s}}
<1>1. T \in SUBSET (0 .. MaxIteration) /\ T # {} /\ MaxIteration \in Nat
    BY ApprovalAssumption DEF Iterations
<1>2. Max(T) \in T /\ \A y \in T : y <= Max(T)
    BY <1>1, MaxIsLargest
<1>3. \A k \in DOMAIN held : k.step = s => k.iter \in T
    OBVIOUS
<1> HIDE DEF T
<1>4. LatestIteration(held, s) = Max(T)
    BY DEF LatestIteration, T
<1> QED
    BY <1>1, <1>2, <1>3, <1>4

\* The next round of a step is the one after the latest.
LEMMA LatestOfNewRound ==
    ASSUME NEW held, NEW more, NEW s, Iterations(held), Iterations(more),
           NEW k \in DOMAIN more, k.step = s,
           \A j \in DOMAIN more : j.step = s => j.iter <= k.iter
    PROVE  LatestIteration(more, s) = k.iter
<1> DEFINE T == {0} \cup {j.iter : j \in {l \in DOMAIN more : l.step = s}}
<1>1. T \in SUBSET (0 .. MaxIteration) /\ MaxIteration \in Nat
    BY ApprovalAssumption DEF Iterations
<1>2. k.iter \in T /\ k.iter \in 1 .. MaxIteration
    BY DEF Iterations
<1>3. \A y \in T : y <= k.iter
    BY <1>2
<1> HIDE DEF T
<1>4. LatestIteration(more, s) = Max(T)
    BY DEF LatestIteration, T
<1> QED
    BY <1>1, <1>2, <1>3, <1>4, MaxIs

LEMMA LatestOfOldRound ==
    ASSUME NEW held, NEW more, NEW s,
           \A k : k.step = s => (k \in DOMAIN held <=> k \in DOMAIN more)
    PROVE  LatestIteration(more, s) = LatestIteration(held, s)
<1>1. {j \in DOMAIN more : j.step = s} = {j \in DOMAIN held : j.step = s}
    OBVIOUS
<1> QED
    BY <1>1 DEF LatestIteration

\* Where the instance stops: the first step from s on that somebody has to decide.
LEMMA StopIsNext ==
    ASSUME definition \in [active : BOOLEAN, steps : StepLists], NEW s \in 1 .. Last
    PROVE  /\ Stop(s) \in s .. Last + 1
           /\ Stop(s) <= Last => StepOf(Stop(s)).type # "notify"
           /\ \A j \in s .. Stop(s) - 1 : StepOf(j).type = "notify"
           /\ Min({Stop(s), Last}) \in s .. Last
           /\ Stop(s) <= Last => Min({Stop(s), Last}) = Stop(s)
           /\ Stop(s) > Last => Min({Stop(s), Last}) = Last
<1> DEFINE T == {j \in s .. Last : StepOf(j).type # "notify"} \cup {Last + 1}
<1>1. Last \in Nat \ {0}
    BY StepsAreTyped
<1>2. T \in SUBSET Nat /\ T # {} /\ T \subseteq s .. Last + 1
    BY <1>1
<1>3. Stop(s) = Min(T)
    BY DEF Stop
<1> HIDE DEF T
<1>4. Stop(s) \in T /\ \A y \in T : Stop(s) <= y
    BY <1>2, <1>3, MinIsLeast
<1>5. Stop(s) \in s .. Last + 1
    BY <1>2, <1>4
<1>6. Stop(s) <= Last => StepOf(Stop(s)).type # "notify"
    BY <1>1, <1>4, <1>5 DEF T
<1>7. ASSUME NEW j \in s .. Stop(s) - 1
      PROVE  StepOf(j).type = "notify"
    <2>1. j \in s .. Last /\ ~(Stop(s) <= j)
        BY <1>1, <1>5
    <2> QED
        BY <1>4, <2>1 DEF T
<1>8. {Stop(s), Last} \in SUBSET Nat /\ {Stop(s), Last} # {}
    BY <1>1, <1>5
<1>9. /\ Min({Stop(s), Last}) \in {Stop(s), Last}
      /\ \A y \in {Stop(s), Last} : Min({Stop(s), Last}) <= y
    BY <1>8, MinIsLeast
<1> QED
    BY <1>1, <1>5, <1>6, <1>7, <1>9

LEMMA BatchIsNewRound ==
    ASSUME definition \in [active : BOOLEAN, steps : StepLists],
           NEW held, Iterations(held), NEW s \in 1 .. Last, WithinBounds(held, s),
           NEW by \in Requests \cup {Starting}, NEW new \in Batches(held, s, by)
    PROVE  /\ \A k \in new :
                /\ k \in Key /\ k.step \in s .. Last /\ k.step <= Stop(s)
                /\ k.iter \in 1 .. MaxIteration
                /\ k.iter = LatestIteration(held, k.step) + 1
                /\ k \notin DOMAIN held
           /\ \A e \in s .. Min({Stop(s), Last}) : \E k \in new : k.step = e
           /\ \A k, j \in new :
                k.step = j.step /\ StepOf(k.step).type # "notify" /\ StepOf(k.step).mode = "single"
                => k = j
<1> DEFINE entered == s .. Min({Stop(s), Last})
           round(who) == {k \in [step : entered, iter : 1 .. MaxIteration, who : Users, by : {by}] :
                            k.iter = LatestIteration(held, k.step) + 1 /\ k.who \in who[k.step]}
<1>1. PICK who \in [entered -> SUBSET Users] :
            (\A e \in entered : who[e] \in Assignees(e)) /\ new = round(who)
    BY DEF Batches
<1>2. /\ Last \in Nat \ {0}
      /\ entered \subseteq s .. Last
      /\ \A e \in entered : e <= Stop(s)
    BY StepsAreTyped, StopIsNext
<1>3. \A e \in entered : LatestIteration(held, e) \in 0 .. MaxIteration
                         /\ LatestIteration(held, e) < MaxIteration
    BY LatestIsLargest DEF WithinBounds
<1>4. MaxIteration \in Nat
    BY ApprovalAssumption
<1> HIDE DEF entered
<1>5. ASSUME NEW k \in new
      PROVE  /\ k \in [step : entered, iter : 1 .. MaxIteration, who : Users, by : {by}]
             /\ k.iter = LatestIteration(held, k.step) + 1 /\ k.who \in who[k.step]
    BY <1>1
<1>6. ASSUME NEW k \in new
      PROVE  /\ k \in Key /\ k.step \in s .. Last /\ k.step <= Stop(s)
             /\ k.iter \in 1 .. MaxIteration
    <2>1. k \in [step : entered, iter : 1 .. MaxIteration, who : Users, by : {by}]
        BY <1>5
    <2>2. /\ k.step \in entered /\ k.iter \in 1 .. MaxIteration
          /\ entered \subseteq Nat /\ 1 .. MaxIteration \subseteq Nat
        BY <1>2, <1>4, <2>1
    <2>3. k \in Key
        BY <2>1, <2>2 DEF Key
    <2> QED
        BY <1>2, <2>2, <2>3
<1>7. ASSUME NEW k \in new
      PROVE  k \notin DOMAIN held
    <2>1. k.step \in entered /\ k.iter = LatestIteration(held, k.step) + 1
        BY <1>5
    <2>2. k \in DOMAIN held => k.iter <= LatestIteration(held, k.step)
        BY LatestIsLargest
    <2> QED
        BY <1>3, <2>1, <2>2
<1>8. ASSUME NEW e \in entered
      PROVE  \E k \in new : k.step = e
    <2>1. PICK u \in Users : u \in who[e]
        <3>1. who[e] \in Assignees(e)
            BY <1>1
        <3>2. who[e] # {}
            BY <3>1 DEF Assignees
        <3>3. who[e] \subseteq Users
            BY <1>1
        <3> QED
            BY <3>2, <3>3
    <2> DEFINE k == [step |-> e, iter |-> LatestIteration(held, e) + 1, who |-> u, by |-> by]
    <2>2. LatestIteration(held, e) + 1 \in 1 .. MaxIteration
        BY <1>3, <1>4
    <2>3. k \in [step : entered, iter : 1 .. MaxIteration, who : Users, by : {by}]
        BY <2>2
    <2>4. k.step = e /\ k.iter = LatestIteration(held, k.step) + 1 /\ k.who \in who[k.step]
        BY <2>1
    <2>5. k \in new
        BY <1>1, <2>3, <2>4
    <2> QED
        BY <2>4, <2>5
<1>9. ASSUME NEW k \in new, NEW j \in new, k.step = j.step,
             StepOf(k.step).type # "notify", StepOf(k.step).mode = "single"
      PROVE  k = j
    <2>1. /\ k \in [step : entered, iter : 1 .. MaxIteration, who : Users, by : {by}]
          /\ j \in [step : entered, iter : 1 .. MaxIteration, who : Users, by : {by}]
          /\ k.iter = j.iter /\ k.who \in who[k.step] /\ j.who \in who[k.step]
          /\ k.step \in entered
        BY <1>5, <1>9
    <2>2. PICK u \in Users : who[k.step] = {u}
        BY <1>1, <1>9, <2>1 DEF Assignees
    <2>3. k.who = j.who /\ k.by = j.by
        BY <2>1, <2>2
    <2> QED
        BY <1>9, <2>1, <2>3
<1> QED
    BY <1>5, <1>6, <1>7, <1>8, <1>9 DEF entered

LEMMA ResultIsTyped ==
    ASSUME definition \in [active : BOOLEAN, steps : StepLists],
           NEW q, q.run.step \in 1 .. Last, q.action \in Actions,
           q.inst \in Instance, q.inst.current \in 0 .. Last, q.inst.status # "absent",
           q.action = "return" => EntersStep(q) # 0
    PROVE  /\ EntersStep(q) \in 0 .. Last
           /\ Result(q) \in Instance /\ Result(q).current \in 0 .. Last
           /\ Result(q).status # "absent"
<1> DEFINE c == q.run.step
<1>1. /\ Last \in Nat \ {0} /\ c \in 1 .. Last
      /\ StepOf(c).target \in 0 .. Last
    BY StepsAreTyped
<1>2. ReturnTarget(c) \in 0 .. Last
    BY <1>1 DEF ReturnTarget
<1>3. ASSUME NEW s \in 1 .. Last
      PROVE  Completed(s) \in Instance /\ Completed(s).current = 0 /\ Completed(s).status # "absent"
    BY DEF Completed, Instance, Decided
<1>4. ASSUME NEW s \in 1 .. Last, NEW status \in Open
      PROVE  /\ Entered(s, status) \in Instance /\ Entered(s, status).current \in 0 .. Last
             /\ Entered(s, status).status # "absent"
    <2>1. Stop(s) \in s .. Last + 1
        BY StopIsNext
    <2>2. CASE Stop(s) > Last
        <3>1. Entered(s, status) = Completed(Last) /\ Last \in 1 .. Last
            BY <1>1, <2>2 DEF Entered
        <3> QED
            BY <1>1, <1>3, <3>1
    <2>3. CASE Stop(s) <= Last
        <3>1. Stop(s) \in 0 .. Last /\ Stop(s) \in Nat /\ ~(Stop(s) > Last)
            BY <1>1, <2>1, <2>3
        <3> QED
            BY <3>1 DEF Entered, Instance, Open
    <2> QED
        BY <1>1, <2>1, <2>2, <2>3
<1> HIDE DEF c
<1>5. CASE q.action = "reject"
    BY <1>1, <1>5 DEF EntersStep, Result, Instance, Decided
<1>6. CASE q.action = "return"
    <2>1. EntersStep(q) = ReturnTarget(c) /\ Result(q) = Entered(ReturnTarget(c), "returned")
        BY <1>6 DEF EntersStep, Result, c
    <2>2. ReturnTarget(c) \in 1 .. Last /\ "returned" \in Open
        BY <1>1, <1>2, <1>6, <2>1 DEF Open
    <2> QED
        BY <1>1, <1>4, <2>1, <2>2
<1>7. CASE q.action = "approve" /\ ~Agreed(q)
    <2>1. EntersStep(q) = 0 /\ Result(q) = q.inst
        BY <1>7 DEF EntersStep, Result
    <2> QED
        BY <1>1, <2>1
<1>8. CASE q.action = "approve" /\ Agreed(q) /\ c < Last
    <2>1. EntersStep(q) = c + 1 /\ Result(q) = Entered(c + 1, "in_progress")
        BY <1>8 DEF EntersStep, Result, c
    <2>2. c + 1 \in 1 .. Last /\ "in_progress" \in Open
        BY <1>1, <1>8 DEF Open
    <2> QED
        BY <1>1, <1>4, <2>1, <2>2
<1>9. CASE q.action = "approve" /\ Agreed(q) /\ ~(c < Last)
    <2>1. EntersStep(q) = 0 /\ Result(q) = Completed(c)
        BY <1>9 DEF EntersStep, Result, c
    <2> QED
        BY <1>1, <1>3, <2>1
<1> QED
    BY <1>5, <1>6, <1>7, <1>8, <1>9 DEF Actions

-----------------------------------------------------------------------------
(* The inductive invariant *)

\* The latest round of step s.
Round(held, s) == {k \in DOMAIN held : k.step = s /\ k.iter = LatestIteration(held, s)}

RunsAreTyped(i) ==
    /\ rows[i] \in [DOMAIN rows[i] -> RunStatus]
    /\ \A k \in DOMAIN rows[i] : k \in Key /\ k.step \in 1 .. Last /\ k.iter \in 1 .. MaxIteration

\* An instance that was not started has no run, and a started one always has: this is what
\* keeps the steps of its definition from being replaced.
RunsMeanStarted(i) ==
    /\ inst[i].status = "absent" <=> DOMAIN rows[i] = {}
    /\ inst[i].status = "absent" =>
            inst[i].current = 0 /\ node[i].state = "none" /\ node[i].synced = NoSync

\* What a request has loaded were rows of the instance, the run it decides on pending.
RequestIsTyped(q) ==
    /\ q.of \in Approval /\ q.action \in Actions
    /\ q.inst \in Instance /\ q.inst.current \in 0 .. Last /\ q.inst.status # "absent"
    /\ q.rows \in [DOMAIN q.rows -> RunStatus]
    /\ DOMAIN q.rows \subseteq DOMAIN rows[q.of]
    /\ q.run \in DOMAIN q.rows /\ q.rows[q.run] = "pending"

TypeInv ==
    /\ definition \in [active : BOOLEAN, steps : StepLists]
    /\ inst \in [Approval -> Instance]
    /\ \A i \in Approval : inst[i].current \in 0 .. Last
    /\ DOMAIN rows = Approval
    /\ \A i \in Approval : RunsAreTyped(i) /\ RunsMeanStarted(i)
    /\ DOMAIN node = Approval
    /\ \A i \in Approval : DOMAIN node[i] = {"state", "synced"} /\ node[i].state \in NodeState
    /\ DOMAIN req = Requests
    /\ \A r \in Requests : req[r] = Idle \/ RequestIsTyped(req[r])
    /\ raced \subseteq Approval

\* Pending runs belong to the current step and its latest round.
Asked(held, row) ==
    \A k \in DOMAIN held : held[k] = "pending" =>
        /\ row.status \in Open
        /\ k.step = row.current
        /\ k.iter = LatestIteration(held, k.step)

\* An open instance has stopped at a step somebody decides, and no vote of its round was
\* enough to end it: each is pending, or an approval among others that are needed too.
Answerable(held, row) ==
    row.status \in Open =>
        /\ row.current \in 1 .. Last
        /\ StepOf(row.current).type # "notify"
        /\ \E k \in DOMAIN held : held[k] = "pending"
        /\ \A k \in Round(held, row.current) :
              \/ held[k] = "pending"
              \/ (StepOf(row.current).mode = "all" /\ held[k] = "approved")
        /\ StepOf(row.current).mode = "single" =>
              \A k, j \in Round(held, row.current) : k = j

\* As long as no two decisions have overlapped, what a request has loaded is what is stored,
\* or a run it holds for pending has been decided and will stay so.
FreshOrOvertaken(q) ==
    \/ q.rows = rows[q.of] /\ q.inst = inst[q.of]
    \/ \E k \in DOMAIN q.rows : q.rows[k] = "pending" /\ rows[q.of][k] # "pending"

RoundInv ==
    /\ \A i \in Approval \ raced : Asked(rows[i], inst[i]) /\ Answerable(rows[i], inst[i])
    /\ \A r \in Requests :
            req[r] # Idle /\ req[r].of \notin raced => FreshOrOvertaken(req[r])

\* What the node consumed last is the status of the instance.
NodeInv ==
    \A i \in Approval \ raced :
        /\ node[i].state = "none" => node[i].synced = NoSync
        /\ node[i].state = "completed" => inst[i].status \in Decided
        /\ node[i].synced # NoSync => node[i].synced[3] = inst[i].status

\* The latest round of step s has passed.
Agreement(held, s) ==
    \/ StepOf(s).type = "notify"
    \/ (StepOf(s).mode = "all" /\ \A k \in Round(held, s) : held[k] = "approved")
    \/ (StepOf(s).mode # "all" /\ \E k \in Round(held, s) :
            held[k] = "approved" /\ \A j \in Round(held, s) \ {k} : held[j] = "skipped")

\* Every step before the current one has passed, and every step of a granted approval.
AgreedSoFar(held, row) ==
    /\ row.status \in Open => \A s \in 1 .. row.current - 1 : Agreement(held, s)
    /\ row.status \in {"approved", "completed"} => \A s \in 1 .. Last : Agreement(held, s)

AgreedInv == \A i \in Approval \ raced : AgreedSoFar(rows[i], inst[i])

\* No step returns to a later one: the code does not ask it of a definition.
ReturnsGoBack == \A l \in StepLists : \A s \in 1 .. Len(l) : l[s].target <= s

-----------------------------------------------------------------------------
(* Rounds *)

\* What entering step s does to the rounds: a new one for every step up to where the
\* instance stops, and those of earlier steps as they were.
LEMMA RoundsAfterEntering ==
    ASSUME definition \in [active : BOOLEAN, steps : StepLists],
           NEW held, Iterations(held), NEW s \in 1 .. Last, WithinBounds(held, s),
           NEW by \in Requests \cup {Starting}, NEW new \in Batches(held, s, by),
           NEW more, DOMAIN more = DOMAIN held \cup new
    PROVE  /\ Iterations(more)
           /\ \A e \in s .. Min({Stop(s), Last}) :
                Round(more, e) = {k \in new : k.step = e} /\ Round(more, e) # {}
<1> DEFINE entered == s .. Min({Stop(s), Last})
<1>1. /\ \A k \in new : /\ k.step \in s .. Last /\ k.iter \in 1 .. MaxIteration
                        /\ k.iter = LatestIteration(held, k.step) + 1
                        /\ k \notin DOMAIN held
      /\ \A e \in entered : \E k \in new : k.step = e
    BY BatchIsNewRound
<1>2. Last \in Nat \ {0} /\ entered \subseteq s .. Last
    BY StepsAreTyped, StopIsNext
<1>3. Iterations(more)
    BY <1>1 DEF Iterations
<1> HIDE DEF entered
<1>4. ASSUME NEW e \in entered
      PROVE  Round(more, e) = {k \in new : k.step = e} /\ Round(more, e) # {}
    <2>1. PICK k \in new : k.step = e
        BY <1>1
    <2>2. /\ LatestIteration(held, e) \in 0 .. MaxIteration
          /\ \A j \in DOMAIN held : j.step = e => j.iter <= LatestIteration(held, e)
        BY LatestIsLargest
    <2>3. \A j \in DOMAIN held : j.step = e => j.iter < k.iter /\ j.iter \in Nat
        BY <1>1, <2>1, <2>2 DEF Iterations
    <2>4. \A j \in new : j.step = e => j.iter = k.iter
        BY <1>1, <2>1
    <2>5. k.iter \in Nat
        BY <1>1
    <2>6. \A j \in DOMAIN more : j.step = e => j.iter <= k.iter
        BY <2>3, <2>4, <2>5
    <2>7. LatestIteration(more, e) = k.iter
        BY <1>3, <2>1, <2>6, LatestOfNewRound
    <2>8. k \in Round(more, e)
        BY <2>1, <2>7 DEF Round
    <2>9. Round(more, e) \subseteq {j \in new : j.step = e}
        BY <2>3, <2>5, <2>7 DEF Round
    <2>10. {j \in new : j.step = e} \subseteq Round(more, e)
        BY <2>4, <2>7 DEF Round
    <2> QED
        BY <2>8, <2>9, <2>10
<1> QED
    BY <1>3, <1>4 DEF entered

\* An instance that enters a step with nobody left to ask is asked about the step it stops
\* at, in a new round, or has come to its end.
LEMMA EnteringAsks ==
    ASSUME definition \in [active : BOOLEAN, steps : StepLists],
           NEW held, Iterations(held), NEW s \in 1 .. Last, WithinBounds(held, s),
           NEW by \in Requests \cup {Starting}, NEW new \in Batches(held, s, by),
           NEW more, DOMAIN more = DOMAIN held \cup new,
           \A k \in DOMAIN held : more[k] # "pending",
           \A k \in new : more[k] = NewStatus(k),
           NEW status \in Open
    PROVE  /\ Asked(more, Entered(s, status)) /\ Answerable(more, Entered(s, status))
           /\ Entered(s, status).status \in Open =>
                Entered(s, status).current = Stop(s) /\ Stop(s) \in s .. Last
           /\ Entered(s, status).status \notin Open => Stop(s) > Last
<1>1. /\ \A k \in new : /\ k.step \in s .. Last /\ k.step <= Stop(s)
      /\ \A k, j \in new :
           k.step = j.step /\ StepOf(k.step).type # "notify" /\ StepOf(k.step).mode = "single"
           => k = j
    BY BatchIsNewRound
<1>2. \A e \in s .. Min({Stop(s), Last}) :
            Round(more, e) = {k \in new : k.step = e} /\ Round(more, e) # {}
    BY RoundsAfterEntering
<1>3. /\ Last \in Nat \ {0} /\ Stop(s) \in s .. Last + 1
      /\ Stop(s) <= Last => StepOf(Stop(s)).type # "notify" /\ Min({Stop(s), Last}) = Stop(s)
      /\ \A j \in s .. Stop(s) - 1 : StepOf(j).type = "notify"
    BY StepsAreTyped, StopIsNext
<1>4. \A k \in new : k.step # Stop(s) => more[k] = "skipped"
    <2> SUFFICES ASSUME NEW k \in new, k.step # Stop(s)
                 PROVE  more[k] = "skipped"
        OBVIOUS
    <2>1. k.step \in s .. Stop(s) - 1
        BY <1>1, <1>3
    <2> QED
        BY <1>3, <2>1 DEF NewStatus
<1>5. CASE Stop(s) > Last
    <2>1. Entered(s, status) = Completed(Last) /\ Completed(Last).status \notin Open
        BY <1>5 DEF Entered, Completed, Open
    <2>2. \A k \in new : more[k] # "pending"
        BY <1>1, <1>3, <1>4, <1>5
    <2>3. \A k \in DOMAIN more : more[k] # "pending"
        BY <2>2
    <2> QED
        BY <1>5, <2>1, <2>3 DEF Asked, Answerable
<1>6. CASE ~(Stop(s) > Last)
    <2>1. Stop(s) \in s .. Last /\ Stop(s) \in 1 .. Last
        BY <1>3, <1>6
    <2>2. Entered(s, status).status \in Open /\ Entered(s, status).current = Stop(s)
        BY <1>6 DEF Entered, Open
    <2>3. Stop(s) \in s .. Min({Stop(s), Last})
        BY <1>3, <2>1
    <2>4. Round(more, Stop(s)) = {k \in new : k.step = Stop(s)} /\ Round(more, Stop(s)) # {}
        BY <1>2, <2>3
    <2>5. \A k \in Round(more, Stop(s)) : more[k] = "pending"
        BY <1>3, <2>1, <2>4 DEF NewStatus
    <2>6. \A k \in DOMAIN more : more[k] = "pending" => k \in Round(more, Stop(s))
        BY <1>4, <2>4
    <2>7. Asked(more, Entered(s, status))
        BY <2>2, <2>6 DEF Asked, Round
    <2>8. \E k \in DOMAIN more : more[k] = "pending"
        BY <2>4, <2>5
    <2>9. StepOf(Stop(s)).mode = "single" => \A k, j \in Round(more, Stop(s)) : k = j
        BY <1>1, <1>3, <2>1, <2>4
    <2>10. Answerable(more, Entered(s, status))
        BY <1>3, <2>1, <2>2, <2>5, <2>8, <2>9 DEF Answerable
    <2> QED
        BY <1>6, <2>1, <2>2, <2>7, <2>10
<1> QED
    BY <1>5, <1>6

-----------------------------------------------------------------------------
(* Types *)

LEMMA LatestOfNone ==
    ASSUME NEW held, NEW s, DOMAIN held = {}
    PROVE  LatestIteration(held, s) = 0
<1>1. {0} \cup {k.iter : k \in {j \in DOMAIN held : j.step = s}} = {0}
    OBVIOUS
<1>2. Max({0}) = 0
    BY MaxIs
<1> QED
    BY <1>1, <1>2 DEF LatestIteration

\* A started instance has a new run for its first step.
LEMMA StartRuns ==
    ASSUME TypeInv, NEW i \in Approval, NEW forNode, Start(i, forNode)
    PROVE  \E new \in Batches(rows[i], 1, Starting) :
                /\ new # {} /\ rows' = [rows EXCEPT ![i] = [k \in new |-> NewStatus(k)]]
                /\ DOMAIN rows[i] = {} /\ Iterations(rows[i]) /\ WithinBounds(rows[i], 1)
                /\ definition \in [active : BOOLEAN, steps : StepLists] /\ 1 \in 1 .. Last
<1>1. /\ definition \in [active : BOOLEAN, steps : StepLists]
      /\ DOMAIN rows[i] = {}
    BY DEF Start, TypeInv, RunsMeanStarted
<1>2. Iterations(rows[i]) /\ 1 \in 1 .. Last
    BY <1>1, StepsAreTyped DEF Iterations
<1>3. WithinBounds(rows[i], 1)
    <2>1. MaxIteration \in Nat \ {0}
        BY ApprovalAssumption
    <2>2. \A e : LatestIteration(rows[i], e) = 0
        BY <1>1, LatestOfNone
    <2> QED
        BY <2>1, <2>2 DEF WithinBounds
<1>4. PICK new \in Batches(rows[i], 1, Starting) :
            rows' = [rows EXCEPT ![i] = [k \in new |-> NewStatus(k)]]
    BY DEF Start
<1>5. new # {}
    <2>1. Last \in Nat /\ Min({Stop(1), Last}) \in 1 .. Last
        BY <1>1, <1>2, StepsAreTyped, StopIsNext
    <2>2. \A e \in 1 .. Min({Stop(1), Last}) : \E k \in new : k.step = e
        BY <1>1, <1>2, <1>3, BatchIsNewRound
    <2>3. 1 \in 1 .. Min({Stop(1), Last})
        BY <2>1
    <2> QED
        BY <2>2, <2>3
<1> QED
    BY <1>1, <1>2, <1>3, <1>4, <1>5

LEMMA UpdateKeepsTypes ==
    ASSUME TypeInv, NEW active \in BOOLEAN, NEW steps \in StepLists, UpdateDefinition(active, steps)
    PROVE  TypeInv'
<1>1. /\ definition' \in [active : BOOLEAN, steps : StepLists]
      /\ UNCHANGED <<inst, rows, node, req, raced>>
    BY DEF UpdateDefinition
<1>2. CASE definition'.steps = definition.steps
    <2>1. Last' = Last
        BY <1>2 DEF Last
    <2> QED
        BY <1>1, <2>1 DEF TypeInv, RunsAreTyped, RunsMeanStarted, RequestIsTyped
<1>3. CASE definition'.steps # definition.steps
    <2>1. \A i \in Approval : rows[i] = <<>>
        BY <1>3 DEF UpdateDefinition
    <2>2. \A i \in Approval : DOMAIN rows[i] = {}
        BY <2>1
    <2>3. \A i \in Approval : inst[i].status = "absent" /\ inst[i].current = 0
        BY <2>2 DEF TypeInv, RunsMeanStarted
    <2>4. \A r \in Requests : req[r] = Idle
        BY <2>2 DEF TypeInv, RequestIsTyped
    <2>5. Last' \in Nat
        BY <1>1, ApprovalAssumption DEF Last
    <2>6. \A i \in Approval : RunsAreTyped(i)' /\ RunsMeanStarted(i)'
        BY <1>1, <2>2 DEF TypeInv, RunsAreTyped, RunsMeanStarted
    <2> QED
        BY <1>1, <2>3, <2>4, <2>5, <2>6 DEF TypeInv
<1> QED
    BY <1>2, <1>3

LEMMA StartKeepsTypes ==
    ASSUME TypeInv, NEW i \in Approval, NEW forNode \in BOOLEAN, Start(i, forNode)
    PROVE  TypeInv'
<1>1. PICK new \in Batches(rows[i], 1, Starting) :
            /\ new # {} /\ rows' = [rows EXCEPT ![i] = [k \in new |-> NewStatus(k)]]
            /\ DOMAIN rows[i] = {} /\ Iterations(rows[i]) /\ WithinBounds(rows[i], 1)
            /\ definition \in [active : BOOLEAN, steps : StepLists] /\ 1 \in 1 .. Last
    BY StartRuns
<1>2. \A k \in new : k \in Key /\ k.step \in 1 .. Last /\ k.iter \in 1 .. MaxIteration
    <2> DEFINE held == rows[i]
    <2>1. /\ definition \in [active : BOOLEAN, steps : StepLists]
          /\ Iterations(held) /\ WithinBounds(held, 1) /\ 1 \in 1 .. Last
          /\ new \in Batches(held, 1, Starting) /\ Starting \in Requests \cup {Starting}
        BY <1>1
    <2> HIDE DEF held
    <2>2. \A k \in new :
                /\ k \in Key /\ k.step \in 1 .. Last /\ k.step <= Stop(1)
                /\ k.iter \in 1 .. MaxIteration
                /\ k.iter = LatestIteration(held, k.step) + 1
                /\ k \notin DOMAIN held
        BY <2>1, BatchIsNewRound, Zenon
    <2> QED
        BY <2>2
<1>3. /\ UNCHANGED <<definition, req, raced>> /\ Last' = Last
      /\ inst' = [inst EXCEPT ![i] = Entered(1, "in_progress")]
      /\ node' = [node EXCEPT ![i].state = IF forNode THEN "activated" ELSE "none"]
    BY DEF Start, Last
<1>4. /\ Entered(1, "in_progress") \in Instance
      /\ Entered(1, "in_progress").current \in 0 .. Last
      /\ Entered(1, "in_progress").status # "absent"
    <2>1. Last \in Nat \ {0} /\ Stop(1) \in 1 .. Last + 1
        BY <1>1, StepsAreTyped, StopIsNext
    <2>2. CASE Stop(1) > Last
        BY <2>1, <2>2 DEF Entered, Completed, Instance, Decided
    <2>3. CASE ~(Stop(1) > Last)
        <3>1. Stop(1) \in 0 .. Last /\ Stop(1) \in Nat
            BY <2>1, <2>3
        <3> QED
            BY <2>3, <3>1 DEF Entered, Instance, Open
    <2> QED
        BY <2>2, <2>3
<1>5. inst' \in [Approval -> Instance] /\ \A j \in Approval : inst'[j].current \in 0 .. Last'
    BY <1>3, <1>4 DEF TypeInv
<1>6. \A j \in Approval : DOMAIN node'[j] = {"state", "synced"} /\ node'[j].state \in NodeState
    BY <1>3 DEF TypeInv, NodeState
<1>7. DOMAIN rows' = Approval /\ DOMAIN node' = Approval
    BY <1>1, <1>3 DEF TypeInv
<1>8. \A j \in Approval \ {i} : RunsAreTyped(j)' /\ RunsMeanStarted(j)'
    BY <1>1, <1>3 DEF TypeInv, RunsAreTyped, RunsMeanStarted
<1>9. rows'[i] = [k \in new |-> NewStatus(k)] /\ inst'[i] = Entered(1, "in_progress")
    BY <1>1, <1>3 DEF TypeInv
<1>10. RunsAreTyped(i)' /\ RunsMeanStarted(i)'
    <2>1. \A k \in new : NewStatus(k) \in RunStatus
        BY DEF NewStatus, RunStatus
    <2> QED
        BY <1>1, <1>2, <1>3, <1>4, <1>9, <2>1 DEF RunsAreTyped, RunsMeanStarted
<1>11. \A r \in Requests : req'[r] = Idle \/ RequestIsTyped(req[r])'
    <2> SUFFICES ASSUME NEW r \in Requests, req[r] # Idle
                 PROVE  RequestIsTyped(req[r])'
        BY <1>3
    <2>1. RequestIsTyped(req[r])
        BY DEF TypeInv
    <2>2. DOMAIN req[r].rows \subseteq DOMAIN rows'[req[r].of]
        BY <1>1, <2>1 DEF RequestIsTyped, TypeInv
    <2> QED
        BY <1>3, <2>1, <2>2 DEF RequestIsTyped
<1> QED
    BY <1>3, <1>5, <1>6, <1>7, <1>8, <1>10, <1>11 DEF TypeInv

LEMMA LoadKeepsTypes ==
    ASSUME TypeInv, NEW r \in Requests, NEW i \in Approval, NEW action \in Actions,
           NEW k \in DOMAIN rows[i], Load(r, i, k, action)
    PROVE  TypeInv'
<1> DEFINE q == [run |-> k, of |-> i, action |-> action, inst |-> inst[i], rows |-> rows[i]]
<1>1. /\ UNCHANGED <<definition, inst, rows, node, raced>> /\ Last' = Last
      /\ req' = [req EXCEPT ![r] = q] /\ rows[i][k] = "pending"
    BY DEF Load, Last
<1>2. RequestIsTyped(q)
    BY <1>1 DEF TypeInv, RequestIsTyped, RunsAreTyped, RunsMeanStarted
<1>3. ASSUME NEW p \in Requests
      PROVE  req'[p] = Idle \/ RequestIsTyped(req[p])'
    <2>1. CASE p = r
        <3>1. req'[p] = q
            BY <1>1, <2>1 DEF TypeInv
        <3> HIDE DEF q
        <3> QED
            BY <1>1, <1>2, <3>1 DEF RequestIsTyped
    <2>2. CASE p # r
        BY <1>1, <2>2 DEF TypeInv, RequestIsTyped
    <2> QED
        BY <2>1, <2>2
<1>4. DOMAIN req' = Requests
    BY <1>1 DEF TypeInv
<1> QED
    BY <1>1, <1>3, <1>4 DEF TypeInv, RunsAreTyped, RunsMeanStarted

LEMMA MergedIsARow ==
    ASSUME NEW stored \in Instance, NEW loaded \in Instance, NEW new \in Instance
    PROVE  /\ Merged(stored, loaded, new) \in Instance
           /\ Merged(stored, loaded, new).status =
                IF new.status = loaded.status THEN stored.status ELSE new.status
           /\ Merged(stored, loaded, new).current =
                IF new.current = loaded.current THEN stored.current ELSE new.current
           /\ stored = loaded => Merged(stored, loaded, new) = new
<1> DEFINE m == [status |-> IF new.status = loaded.status THEN stored.status ELSE new.status,
                 current |-> IF new.current = loaded.current THEN stored.current ELSE new.current]
<1>1. Merged(stored, loaded, new) = m
    BY DEF Merged
<1>2. m \in Instance
    BY DEF Instance
<1>3. stored = loaded => m = new
    BY DEF Instance
<1> QED
    BY <1>1, <1>2, <1>3

\* The parts of a decision, whatever it was loaded from.
LEMMA DecisionParts ==
    ASSUME TypeInv, NEW r \in Requests, Decide(r)
    PROVE  LET q == req[r]
               i == q.of
               s == EntersStep(q)
           IN
           /\ q # Idle /\ RequestIsTyped(q) /\ i \in Approval
           /\ q.run \in DOMAIN rows[i] /\ q.run.step \in 1 .. Last /\ Iterations(q.rows)
           /\ inst[i].status # "absent" /\ s \in 0 .. Last
           /\ Result(q) \in Instance /\ Result(q).current \in 0 .. Last
           /\ Result(q).status # "absent"
           /\ \E new : /\ \/ s = 0 /\ new = {}
                          \/ /\ s \in 1 .. Last /\ WithinBounds(q.rows, s)
                             /\ new \in Batches(q.rows, s, r)
                       /\ rows' = [rows EXCEPT ![i] = [k \in DOMAIN rows[i] \cup new |->
                            IF k \in new THEN NewStatus(k)
                            ELSE IF k = q.run THEN Verdict(q.action)
                            ELSE IF k \in Skipped(q) THEN "skipped" ELSE rows[i][k]]]
           /\ inst' = [inst EXCEPT ![i] = Merged(inst[i], q.inst, Result(q))]
           /\ Consume(i, <<q.run, q.action, Result(q).status>>, Result(q).status \in Decided)
           /\ raced' = IF q.rows = rows[i] THEN raced ELSE raced \cup {i}
           /\ req' = [req EXCEPT ![r] = Idle] /\ UNCHANGED definition
<1> DEFINE q == req[r]
           i == q.of
           s == EntersStep(q)
<1>1. /\ q # Idle
      /\ q.action = "return" => s # 0
      /\ s # 0 => WithinBounds(q.rows, s)
      /\ \E new \in IF s = 0 THEN {{}} ELSE Batches(q.rows, s, r) :
            rows' = [rows EXCEPT ![i] = [k \in DOMAIN rows[i] \cup new |->
                IF k \in new THEN NewStatus(k)
                ELSE IF k = q.run THEN Verdict(q.action)
                ELSE IF k \in Skipped(q) THEN "skipped" ELSE rows[i][k]]]
      /\ inst' = [inst EXCEPT ![i] = Merged(inst[i], q.inst, Result(q))]
      /\ Consume(i, <<q.run, q.action, Result(q).status>>, Result(q).status \in Decided)
      /\ raced' = IF q.rows = rows[i] THEN raced ELSE raced \cup {i}
      /\ req' = [req EXCEPT ![r] = Idle] /\ UNCHANGED definition
    BY DEF Decide
<1> HIDE DEF s
<1>2. RequestIsTyped(q) /\ i \in Approval
    BY <1>1 DEF TypeInv, RequestIsTyped
<1>3. /\ RunsAreTyped(i) /\ RunsMeanStarted(i)
      /\ definition \in [active : BOOLEAN, steps : StepLists]
    BY <1>2 DEF TypeInv
<1>4. q.run \in DOMAIN rows[i] /\ DOMAIN q.rows \subseteq DOMAIN rows[i]
    BY <1>2 DEF RequestIsTyped
<1>5. /\ q.run.step \in 1 .. Last /\ Iterations(q.rows) /\ inst[i].status # "absent"
    BY <1>3, <1>4 DEF RunsAreTyped, RunsMeanStarted, Iterations
<1>6. /\ s \in 0 .. Last
      /\ Result(q) \in Instance /\ Result(q).current \in 0 .. Last /\ Result(q).status # "absent"
    <2>1. /\ q.action \in Actions /\ q.inst \in Instance
          /\ q.inst.current \in 0 .. Last /\ q.inst.status # "absent"
          /\ q.action = "return" => EntersStep(q) # 0
        BY <1>1, <1>2 DEF RequestIsTyped, s
    <2> QED
        BY <1>3, <1>5, <2>1, ResultIsTyped DEF s
<1>7. \E new : /\ \/ s = 0 /\ new = {}
                  \/ /\ s \in 1 .. Last /\ WithinBounds(q.rows, s)
                     /\ new \in Batches(q.rows, s, r)
               /\ rows' = [rows EXCEPT ![i] = [k \in DOMAIN rows[i] \cup new |->
                    IF k \in new THEN NewStatus(k)
                    ELSE IF k = q.run THEN Verdict(q.action)
                    ELSE IF k \in Skipped(q) THEN "skipped" ELSE rows[i][k]]]
    <2>1. PICK new \in IF s = 0 THEN {{}} ELSE Batches(q.rows, s, r) :
            rows' = [rows EXCEPT ![i] = [k \in DOMAIN rows[i] \cup new |->
                IF k \in new THEN NewStatus(k)
                ELSE IF k = q.run THEN Verdict(q.action)
                ELSE IF k \in Skipped(q) THEN "skipped" ELSE rows[i][k]]]
        BY <1>1
    <2>2. \/ s = 0 /\ new = {}
          \/ s \in 1 .. Last /\ WithinBounds(q.rows, s) /\ new \in Batches(q.rows, s, r)
        <3>1. CASE s = 0
            BY <2>1, <3>1
        <3>2. CASE s # 0
            <4>1. Last \in Nat \ {0}
                BY <1>3, StepsAreTyped
            <4> QED
                BY <1>1, <1>6, <2>1, <3>2, <4>1
        <3> QED
            BY <3>1, <3>2
    <2> QED
        BY <2>1, <2>2
<1> QED
    BY <1>1, <1>2, <1>4, <1>5, <1>6, <1>7 DEF s

LEMMA DecisionKeepsTypes ==
    ASSUME TypeInv, NEW r \in Requests, Decide(r)
    PROVE  TypeInv'
<1> DEFINE q == req[r]
           s == EntersStep(q)
<1>0. PICK i \in Approval : i = q.of
    BY DecisionParts
<1>1. /\ q # Idle /\ RequestIsTyped(q) /\ i \in Approval
      /\ q.run.step \in 1 .. Last /\ Iterations(q.rows) /\ q.run \in DOMAIN rows[i]
      /\ inst[i].status # "absent"
      /\ Result(q) \in Instance /\ Result(q).current \in 0 .. Last /\ Result(q).status # "absent"
      /\ inst' = [inst EXCEPT ![i] = Merged(inst[i], q.inst, Result(q))]
      /\ Consume(i, <<q.run, q.action, Result(q).status>>, Result(q).status \in Decided)
      /\ raced' = IF q.rows = rows[i] THEN raced ELSE raced \cup {i}
      /\ req' = [req EXCEPT ![r] = Idle] /\ UNCHANGED definition
    BY <1>0, DecisionParts
<1>2. PICK new : /\ \/ s = 0 /\ new = {}
                    \/ /\ s \in 1 .. Last /\ WithinBounds(q.rows, s)
                       /\ new \in Batches(q.rows, s, r)
                 /\ rows' = [rows EXCEPT ![q.of] = [k \in DOMAIN rows[q.of] \cup new |->
                        IF k \in new THEN NewStatus(k)
                        ELSE IF k = q.run THEN Verdict(q.action)
                        ELSE IF k \in Skipped(q) THEN "skipped" ELSE rows[q.of][k]]]
    BY DecisionParts
<1>3. definition \in [active : BOOLEAN, steps : StepLists]
    BY DEF TypeInv
<1>4. Last' = Last /\ Last \in Nat \ {0}
    BY <1>1, <1>3, StepsAreTyped DEF Last
<1> HIDE DEF s, q
<1>5. \A k \in new : k \in Key /\ k.step \in 1 .. Last /\ k.iter \in 1 .. MaxIteration
    <2>1. CASE new = {}
        BY <2>1
    <2>2. CASE s \in 1 .. Last /\ WithinBounds(q.rows, s) /\ new \in Batches(q.rows, s, r)
        <3>1. r \in Requests \cup {Starting}
            OBVIOUS
        <3>2. \A k \in new :
                    /\ k \in Key /\ k.step \in s .. Last /\ k.step <= Stop(s)
                    /\ k.iter \in 1 .. MaxIteration
                    /\ k.iter = LatestIteration(q.rows, k.step) + 1
                    /\ k \notin DOMAIN q.rows
            BY <1>1, <1>3, <2>2, <3>1, BatchIsNewRound, Zenon
        <3> QED
            BY <1>4, <2>2, <3>2
    <2> QED
        BY <1>2, <2>1, <2>2
<1>6. inst' \in [Approval -> Instance] /\ \A j \in Approval : inst'[j].current \in 0 .. Last'
    <2>1. /\ inst[i] \in Instance /\ q.inst \in Instance
          /\ inst[i].current \in 0 .. Last
        BY <1>1 DEF TypeInv, RequestIsTyped
    <2>2. /\ Merged(inst[i], q.inst, Result(q)) \in Instance
          /\ Merged(inst[i], q.inst, Result(q)).current \in 0 .. Last
        BY <1>1, <2>1, MergedIsARow
    <2> QED
        BY <1>1, <1>4, <2>2 DEF TypeInv
<1>7. /\ DOMAIN node' = Approval
      /\ \A j \in Approval : DOMAIN node'[j] = {"state", "synced"} /\ node'[j].state \in NodeState
    <2>1. CASE UNCHANGED node
        BY <2>1 DEF TypeInv
    <2>2. CASE node' = [node EXCEPT ![i] =
                [state |-> IF Result(q).status \in Decided THEN "completed" ELSE "acknowledged",
                 synced |-> <<q.run, q.action, Result(q).status>>]]
        BY <2>2 DEF TypeInv, NodeState
    <2> QED
        BY <1>1, <2>1, <2>2 DEF Consume
<1>8. DOMAIN rows' = Approval /\ \A j \in Approval \ {i} : rows'[j] = rows[j]
    BY <1>0, <1>2 DEF TypeInv
<1>9. rows'[i] = [k \in DOMAIN rows[i] \cup new |->
                        IF k \in new THEN NewStatus(k)
                        ELSE IF k = q.run THEN Verdict(q.action)
                        ELSE IF k \in Skipped(q) THEN "skipped" ELSE rows[i][k]]
    <2>1. rows'[q.of] = [k \in DOMAIN rows[q.of] \cup new |->
                        IF k \in new THEN NewStatus(k)
                        ELSE IF k = q.run THEN Verdict(q.action)
                        ELSE IF k \in Skipped(q) THEN "skipped" ELSE rows[q.of][k]]
        BY <1>0, <1>2 DEF TypeInv
    <2> QED
        BY <1>0, <2>1
<1>10. RunsAreTyped(i)'
    <2>1. RunsAreTyped(i) /\ q.action \in Actions
        BY <1>1 DEF TypeInv, RequestIsTyped
    <2>2. \A k \in DOMAIN rows'[i] : rows'[i][k] \in RunStatus
        <3>1. \A k \in new : NewStatus(k) \in RunStatus
            BY DEF NewStatus, RunStatus
        <3>2. Verdict(q.action) \in RunStatus /\ "skipped" \in RunStatus
            BY <2>1 DEF Verdict, RunStatus, Actions
        <3>3. \A k \in DOMAIN rows[i] : rows[i][k] \in RunStatus
            BY <2>1 DEF RunsAreTyped
        <3> QED
            BY <1>9, <3>1, <3>2, <3>3
    <2>3. rows'[i] \in [DOMAIN rows'[i] -> RunStatus]
        BY <1>9, <2>2
    <2>4. DOMAIN rows'[i] = DOMAIN rows[i] \cup new
        BY <1>9
    <2>5. \A k \in DOMAIN rows'[i] :
                k \in Key /\ k.step \in 1 .. Last' /\ k.iter \in 1 .. MaxIteration
        BY <1>4, <1>5, <2>1, <2>4 DEF RunsAreTyped
    <2> QED
        BY <2>3, <2>5 DEF RunsAreTyped
<1>11. RunsMeanStarted(i)'
    <2>1. inst'[i].status # "absent"
        <3>1. inst[i] \in Instance /\ q.inst \in Instance
            BY <1>1 DEF TypeInv, RequestIsTyped
        <3>2. inst'[i] = Merged(inst[i], q.inst, Result(q))
            BY <1>1 DEF TypeInv
        <3> QED
            BY <1>1, <3>1, <3>2, MergedIsARow
    <2>2. DOMAIN rows'[i] # {}
        BY <1>1, <1>9
    <2> QED
        BY <2>1, <2>2 DEF RunsMeanStarted
<1>12. ASSUME NEW j \in Approval \ {i}
       PROVE  RunsAreTyped(j)' /\ RunsMeanStarted(j)'
    <2>1. rows'[j] = rows[j] /\ inst'[j] = inst[j] /\ node'[j] = node[j]
        BY <1>1, <1>8 DEF TypeInv, Consume
    <2> QED
        BY <1>4, <2>1 DEF TypeInv, RunsAreTyped, RunsMeanStarted
<1>13. DOMAIN req' = Requests
       /\ \A p \in Requests : req'[p] = Idle \/ RequestIsTyped(req[p])'
    <2>1. \A j \in Approval : DOMAIN rows[j] \subseteq DOMAIN rows'[j]
        BY <1>8, <1>9
    <2>2. ASSUME NEW p \in Requests, p # r, req[p] # Idle
          PROVE  RequestIsTyped(req[p])'
        <3>1. RequestIsTyped(req[p]) /\ req'[p] = req[p]
            BY <1>1, <2>2 DEF TypeInv
        <3> QED
            BY <1>4, <2>1, <3>1 DEF RequestIsTyped
    <2> QED
        BY <1>1, <2>2 DEF TypeInv
<1>14. raced' \subseteq Approval
    BY <1>1 DEF TypeInv
<1> QED
    BY <1>1, <1>3, <1>6, <1>7, <1>8, <1>10, <1>11, <1>12, <1>13, <1>14 DEF TypeInv

LEMMA OthersKeepTypes ==
    ASSUME TypeInv,
           (\E r \in Requests : Refused(r) \/ GiveUp(r)) \/ (\E i \in Approval : Revoke(i))
    PROVE  TypeInv'
<1>1. UNCHANGED <<definition, inst, rows, raced>> /\ Last' = Last
    BY DEF Refused, GiveUp, Revoke, Last
<1>2. DOMAIN req' = Requests /\ \A p \in Requests : req'[p] = Idle \/ req'[p] = req[p]
    BY DEF TypeInv, Refused, GiveUp, Revoke
<1>3. /\ DOMAIN node' = Approval
      /\ \A j \in Approval :
            /\ DOMAIN node'[j] = {"state", "synced"} /\ node'[j].state \in NodeState
            /\ node'[j].synced = node[j].synced
            /\ node[j].state = "none" => node'[j].state = "none"
    <2>1. CASE \E r \in Requests : Refused(r)
        BY <2>1 DEF TypeInv, Refused, NodeState
    <2>2. CASE \E r \in Requests : GiveUp(r)
        BY <2>2 DEF TypeInv, GiveUp
    <2>3. CASE \E i \in Approval : Revoke(i)
        BY <2>3 DEF TypeInv, Revoke, NodeState
    <2> QED
        BY <2>1, <2>2, <2>3
<1>4. \A p \in Requests : req'[p] = Idle \/ RequestIsTyped(req[p])'
    BY <1>1, <1>2 DEF TypeInv, RequestIsTyped
<1> QED
    BY <1>1, <1>2, <1>3, <1>4 DEF TypeInv, RunsAreTyped, RunsMeanStarted

LEMMA TypesHoldInitially == Init => TypeInv
<1> SUFFICES ASSUME Init PROVE TypeInv
    OBVIOUS
<1>1. \A i \in Approval : DOMAIN rows[i] = {} /\ rows[i] = <<>>
    BY DEF Init
<1>2. Last \in Nat
    BY StepsAreTyped DEF Init
<1>3. \A i \in Approval : RunsAreTyped(i) /\ RunsMeanStarted(i)
    BY <1>1 DEF Init, RunsAreTyped, RunsMeanStarted
<1>4. inst \in [Approval -> Instance] /\ \A i \in Approval : inst[i].current \in 0 .. Last
    BY <1>2 DEF Init, Instance
<1>5. \A i \in Approval : DOMAIN node[i] = {"state", "synced"} /\ node[i].state \in NodeState
    BY DEF Init, NodeState
<1> QED
    BY <1>3, <1>4, <1>5 DEF Init, TypeInv

LEMMA TypesStay == TypeInv /\ [Next]_vars => TypeInv'
<1> SUFFICES ASSUME TypeInv, [Next]_vars PROVE TypeInv'
    OBVIOUS
<1>1. CASE \E active \in BOOLEAN, steps \in StepLists : UpdateDefinition(active, steps)
    BY <1>1, UpdateKeepsTypes
<1>2. CASE \E i \in Approval, forNode \in BOOLEAN : Start(i, forNode)
    BY <1>2, StartKeepsTypes
<1>3. CASE \E r \in Requests, i \in Approval, action \in Actions :
                \E k \in DOMAIN rows[i] : Load(r, i, k, action)
    BY <1>3, LoadKeepsTypes
<1>4. CASE \E r \in Requests : Decide(r)
    BY <1>4, DecisionKeepsTypes
<1>5. CASE (\E r \in Requests : Refused(r) \/ GiveUp(r)) \/ (\E i \in Approval : Revoke(i))
    BY <1>5, OthersKeepTypes
<1>6. CASE UNCHANGED vars
    BY <1>6 DEF vars, TypeInv, RunsAreTyped, RunsMeanStarted, RequestIsTyped, Last
<1> QED
    BY <1>1, <1>2, <1>3, <1>4, <1>5, <1>6 DEF Next

\* Every row keeps its shape, and the definition keeps the steps that runs and instances refer
\* to: update_definition cannot replace the steps of a definition in use.
THEOREM TypeCorrect == Spec => []TypeOK
<1>1. TypeInv => TypeOK
    BY DEF TypeInv, TypeOK, RunsAreTyped
<1> QED
    BY <1>1, TypesHoldInitially, TypesStay, PTL DEF Spec

-----------------------------------------------------------------------------
(* Decisions *)

\* A decision that leaves its instance out of raced was taken on what is stored.
LEMMA DecisionIsFresh ==
    ASSUME TypeInv, RoundInv, NEW r \in Requests, Decide(r),
           NEW i \in Approval, i = req[r].of, i \notin raced'
    PROVE  /\ i \notin raced /\ req[r] # Idle /\ RequestIsTyped(req[r])
           /\ req[r].rows = rows[i] /\ req[r].inst = inst[i] /\ inst'[i] = Result(req[r])
           /\ req[r].run \in DOMAIN rows[i] /\ rows[i][req[r].run] = "pending"
           /\ inst[i].status \in Open /\ req[r].run.step = inst[i].current
           /\ req[r].run \in Round(rows[i], inst[i].current)
           /\ Batch(rows[i], req[r].run) = Round(rows[i], inst[i].current)
           /\ Iterations(rows[i])
<1> DEFINE q == req[r]
<1>1. /\ q # Idle /\ RequestIsTyped(q) /\ Iterations(q.rows)
      /\ Result(q) \in Instance
      /\ inst' = [inst EXCEPT ![i] = Merged(inst[i], q.inst, Result(q))]
      /\ raced' = IF q.rows = rows[i] THEN raced ELSE raced \cup {i}
    BY DecisionParts
<1> HIDE DEF q
<1>2. q.rows = rows[i] /\ i \notin raced
    BY <1>1
<1>3. q.run \in DOMAIN rows[i] /\ rows[i][q.run] = "pending"
    BY <1>1, <1>2 DEF RequestIsTyped
<1>4. q.inst = inst[i]
    <2>1. FreshOrOvertaken(q)
        BY <1>1, <1>2 DEF RoundInv, q
    <2> QED
        BY <1>2, <2>1 DEF FreshOrOvertaken, q
<1>5. inst'[i] = Result(q)
    <2>1. inst[i] \in Instance /\ q.inst \in Instance
        BY <1>1 DEF TypeInv, RequestIsTyped
    <2>2. inst'[i] = Merged(inst[i], q.inst, Result(q))
        BY <1>1 DEF TypeInv
    <2> QED
        BY <1>1, <1>4, <2>1, <2>2, MergedIsARow
<1>6. Asked(rows[i], inst[i])
    BY <1>2 DEF RoundInv
<1>7. /\ inst[i].status \in Open /\ q.run.step = inst[i].current
      /\ q.run.iter = LatestIteration(rows[i], q.run.step)
    BY <1>3, <1>6 DEF Asked
<1>8. /\ q.run \in Round(rows[i], inst[i].current)
      /\ Batch(rows[i], q.run) = Round(rows[i], inst[i].current)
    BY <1>3, <1>7 DEF Round, Batch
<1> QED
    BY <1>1, <1>2, <1>3, <1>4, <1>5, <1>7, <1>8 DEF q

\* What a decision taken on what is stored does to the runs there were.
LEMMA DecisionVotes ==
    ASSUME TypeInv, RoundInv, NEW r \in Requests, Decide(r),
           NEW i \in Approval, i = req[r].of, i \notin raced'
    PROVE  LET q == req[r]
               c == inst[i].current
               ends == q.action # "approve" \/ Agreed(q)
           IN
           /\ DOMAIN rows[i] \subseteq DOMAIN rows'[i]
           /\ EntersStep(q) = 0 => DOMAIN rows'[i] = DOMAIN rows[i]
           /\ EntersStep(q) # 0 =>
                /\ EntersStep(q) \in 1 .. Last /\ WithinBounds(rows[i], EntersStep(q))
                /\ \E new \in Batches(rows[i], EntersStep(q), r) :
                      /\ DOMAIN rows'[i] = DOMAIN rows[i] \cup new
                      /\ \A k \in new : rows'[i][k] = NewStatus(k)
           /\ \A k \in DOMAIN rows[i] : rows[i][k] # "pending" => rows'[i][k] = rows[i][k]
           /\ rows'[i][q.run] # "pending"
           /\ ends => \A k \in DOMAIN rows[i] : rows'[i][k] # "pending"
           /\ q.action = "approve" /\ Agreed(q) =>
                \/ StepOf(c).mode = "all" /\ \A k \in Round(rows[i], c) : rows'[i][k] = "approved"
                \/ /\ StepOf(c).mode # "all" /\ rows'[i][q.run] = "approved"
                   /\ \A k \in Round(rows[i], c) \ {q.run} : rows'[i][k] = "skipped"
           /\ ~ends =>
                /\ EntersStep(q) = 0 /\ Result(q) = inst[i] /\ StepOf(c).mode = "all"
                /\ \E k \in Round(rows[i], c) : rows'[i][k] = "pending"
                /\ \A k \in Round(rows[i], c) :
                      rows'[i][k] = "pending" \/ rows'[i][k] = "approved"
                /\ \A k \in DOMAIN rows[i] : rows'[i][k] = "pending" => rows[i][k] = "pending"
<1> DEFINE q == req[r]
           c == inst[i].current
           s == EntersStep(q)
           B == Round(rows[i], c)
<1>1. /\ RequestIsTyped(q) /\ q.rows = rows[i] /\ q.inst = inst[i]
      /\ q.run \in DOMAIN rows[i] /\ rows[i][q.run] = "pending"
      /\ inst[i].status \in Open /\ q.run.step = c /\ q.run \in B
      /\ Batch(rows[i], q.run) = B /\ Iterations(rows[i]) /\ i \notin raced
    BY DecisionIsFresh
<1>2. PICK new : /\ \/ s = 0 /\ new = {}
                    \/ /\ s \in 1 .. Last /\ WithinBounds(q.rows, s)
                       /\ new \in Batches(q.rows, s, r)
                 /\ rows' = [rows EXCEPT ![q.of] = [k \in DOMAIN rows[q.of] \cup new |->
                        IF k \in new THEN NewStatus(k)
                        ELSE IF k = q.run THEN Verdict(q.action)
                        ELSE IF k \in Skipped(q) THEN "skipped" ELSE rows[q.of][k]]]
    BY DecisionParts
<1>3. rows'[i] = [k \in DOMAIN rows[i] \cup new |->
                        IF k \in new THEN NewStatus(k)
                        ELSE IF k = q.run THEN Verdict(q.action)
                        ELSE IF k \in Skipped(q) THEN "skipped" ELSE rows[i][k]]
    <2>1. rows'[q.of] = [k \in DOMAIN rows[q.of] \cup new |->
                        IF k \in new THEN NewStatus(k)
                        ELSE IF k = q.run THEN Verdict(q.action)
                        ELSE IF k \in Skipped(q) THEN "skipped" ELSE rows[q.of][k]]
        BY <1>2 DEF TypeInv
    <2> QED
        BY <2>1
<1>4. /\ definition \in [active : BOOLEAN, steps : StepLists]
      /\ c \in 1 .. Last /\ StepOf(c).type # "notify" /\ StepOf(c) \in Step
      /\ \A k \in B : \/ rows[i][k] = "pending"
                      \/ (StepOf(c).mode = "all" /\ rows[i][k] = "approved")
      /\ StepOf(c).mode = "single" => \A k, j \in B : k = j
      /\ \A k \in DOMAIN rows[i] : rows[i][k] = "pending" => k \in B
    <2>1. /\ definition \in [active : BOOLEAN, steps : StepLists]
          /\ Asked(rows[i], inst[i]) /\ Answerable(rows[i], inst[i])
        BY <1>1 DEF RoundInv, TypeInv
    <2>2. c \in 1 .. Last
        BY <1>1, <2>1 DEF Answerable
    <2>3. StepOf(c) \in Step
        BY <2>1, <2>2, StepsAreTyped
    <2>4. \A k \in DOMAIN rows[i] : rows[i][k] = "pending" => k \in B
        BY <2>1 DEF Asked, Round
    <2> HIDE DEF B
    <2>5. /\ StepOf(c).type # "notify"
          /\ \A k \in B : \/ rows[i][k] = "pending"
                          \/ (StepOf(c).mode = "all" /\ rows[i][k] = "approved")
          /\ StepOf(c).mode = "single" => \A k, j \in B : k = j
        BY <1>1, <2>1 DEF Answerable, B
    <2> QED
        BY <2>1, <2>2, <2>3, <2>4, <2>5
<1>5. q.action \in Actions
    BY <1>1 DEF RequestIsTyped
<1> HIDE DEF q, c, s, B
<1>6. \A k \in new : k \notin DOMAIN rows[i]
    <2>1. CASE new = {}
        BY <2>1
    <2>2. CASE s \in 1 .. Last /\ WithinBounds(q.rows, s) /\ new \in Batches(q.rows, s, r)
        <3>1. r \in Requests \cup {Starting} /\ Iterations(q.rows)
            BY <1>1
        <3>2. \A k \in new :
                    /\ k \in Key /\ k.step \in s .. Last /\ k.step <= Stop(s)
                    /\ k.iter \in 1 .. MaxIteration
                    /\ k.iter = LatestIteration(q.rows, k.step) + 1
                    /\ k \notin DOMAIN q.rows
            BY <1>4, <2>2, <3>1, BatchIsNewRound, Zenon
        <3> QED
            BY <1>1, <3>2
    <2> QED
        BY <1>2, <2>1, <2>2
<1>7. /\ DOMAIN rows'[i] = DOMAIN rows[i] \cup new
      /\ \A k \in new : rows'[i][k] = NewStatus(k)
      /\ rows'[i][q.run] = Verdict(q.action)
      /\ \A k \in DOMAIN rows[i] : k # q.run =>
            rows'[i][k] = IF k \in Skipped(q) THEN "skipped" ELSE rows[i][k]
    BY <1>1, <1>3, <1>6
<1>8. \A k : k \in Skipped(q) <=>
            /\ k \in B /\ k # q.run /\ rows[i][k] = "pending"
            /\ q.action = "approve" => StepOf(c).mode = "any"
    BY <1>1 DEF Skipped
<1>9. Agreed(q) <=>
            (StepOf(c).mode = "all" => \A j \in B \ {q.run} : rows[i][j] = "approved")
    BY <1>1 DEF Agreed
<1>10. Verdict(q.action) # "pending" /\ (q.action = "approve" => Verdict(q.action) = "approved")
    BY <1>5 DEF Verdict, Actions
<1>11. \A k \in DOMAIN rows[i] : rows[i][k] # "pending" => rows'[i][k] = rows[i][k]
    BY <1>1, <1>7, <1>8
<1>12. StepOf(c).mode \in {"single", "all", "any"}
    BY <1>4 DEF Step
<1>13. ASSUME q.action # "approve" \/ Agreed(q), NEW k \in DOMAIN rows[i]
       PROVE  rows'[i][k] # "pending"
    <2>1. CASE k = q.run
        BY <1>7, <1>10, <2>1
    <2>2. CASE k # q.run /\ rows[i][k] # "pending"
        BY <1>11, <2>2
    <2>3. CASE k # q.run /\ rows[i][k] = "pending" /\ k \in Skipped(q)
        BY <1>7, <2>3
    <2>4. CASE k # q.run /\ rows[i][k] = "pending" /\ k \notin Skipped(q)
        <3>1. k \in B
            BY <1>4, <2>4
        <3>2. q.action = "approve" /\ StepOf(c).mode # "any"
            BY <1>8, <2>4, <3>1
        <3>3. Agreed(q)
            BY <1>13, <3>2
        <3>4. StepOf(c).mode = "single"
            BY <1>9, <1>12, <2>4, <3>1, <3>2, <3>3
        <3> QED
            BY <1>1, <1>4, <2>4, <3>1, <3>4
    <2> QED
        BY <2>1, <2>2, <2>3, <2>4
<1>14. ASSUME q.action = "approve", Agreed(q)
       PROVE  \/ StepOf(c).mode = "all" /\ \A k \in B : rows'[i][k] = "approved"
              \/ /\ StepOf(c).mode # "all" /\ rows'[i][q.run] = "approved"
                 /\ \A k \in B \ {q.run} : rows'[i][k] = "skipped"
    <2>1. rows'[i][q.run] = "approved" /\ B \subseteq DOMAIN rows[i]
        BY <1>7, <1>10, <1>14 DEF B, Round
    <2>2. CASE StepOf(c).mode = "all"
        <3>1. \A k \in B \ {q.run} : rows[i][k] = "approved"
            BY <1>9, <1>14, <2>2
        <3>2. \A k \in B \ {q.run} : rows'[i][k] = "approved"
            BY <1>11, <2>1, <3>1
        <3> QED
            BY <2>1, <2>2, <3>2
    <2>3. CASE StepOf(c).mode = "any"
        <3>1. \A k \in B \ {q.run} : k \in Skipped(q)
            BY <1>4, <1>8, <2>3
        <3>2. \A k \in B \ {q.run} : rows'[i][k] = "skipped"
            BY <1>7, <2>1, <3>1
        <3> QED
            BY <2>1, <2>3, <3>2
    <2>4. CASE StepOf(c).mode = "single"
        <3>1. B \ {q.run} = {}
            BY <1>1, <1>4, <2>4
        <3> QED
            BY <2>1, <2>4, <3>1
    <2> QED
        BY <1>12, <2>2, <2>3, <2>4
<1>15. ASSUME q.action = "approve", ~Agreed(q)
       PROVE  /\ s = 0 /\ Result(q) = inst[i] /\ StepOf(c).mode = "all"
              /\ \E k \in B : rows'[i][k] = "pending"
              /\ \A k \in B : rows'[i][k] = "pending" \/ rows'[i][k] = "approved"
              /\ \A k \in DOMAIN rows[i] : rows'[i][k] = "pending" => rows[i][k] = "pending"
    <2>1. s = 0 /\ Result(q) = inst[i]
        BY <1>1, <1>15 DEF EntersStep, Result, s
    <2>2. /\ StepOf(c).mode = "all" /\ \E j \in B \ {q.run} : rows[i][j] # "approved"
        BY <1>9, <1>15
    <2>3. PICK j \in B \ {q.run} : rows[i][j] # "approved"
        BY <2>2
    <2>4. B \subseteq DOMAIN rows[i]
        BY DEF B, Round
    <2>5. \A k \in DOMAIN rows[i] : k # q.run => rows'[i][k] = rows[i][k]
        BY <1>7, <1>8, <1>15, <2>2
    <2>6. rows'[i][q.run] = "approved"
        BY <1>7, <1>10, <1>15
    <2>7. rows'[i][j] = "pending"
        BY <1>4, <2>3, <2>4, <2>5
    <2>8. \A k \in B : rows'[i][k] = "pending" \/ rows'[i][k] = "approved"
        BY <1>4, <2>4, <2>5, <2>6
    <2>9. \A k \in DOMAIN rows[i] : rows'[i][k] = "pending" => rows[i][k] = "pending"
        BY <2>5, <2>6
    <2> QED
        BY <2>1, <2>2, <2>7, <2>8, <2>9
<1>16. /\ s = 0 => DOMAIN rows'[i] = DOMAIN rows[i]
       /\ s # 0 => /\ s \in 1 .. Last /\ WithinBounds(rows[i], s)
                   /\ \E more \in Batches(rows[i], s, r) :
                        /\ DOMAIN rows'[i] = DOMAIN rows[i] \cup more
                        /\ \A k \in more : rows'[i][k] = NewStatus(k)
    <2>1. CASE s = 0
        <3>1. Last \in Nat
            BY <1>4, StepsAreTyped
        <3>2. new = {}
            BY <1>2, <2>1, <3>1
        <3> QED
            BY <1>7, <2>1, <3>2
    <2>2. CASE s # 0
        BY <1>1, <1>2, <1>7, <2>2
    <2> QED
        BY <2>1, <2>2
<1>17. DOMAIN rows[i] \subseteq DOMAIN rows'[i] /\ rows'[i][q.run] # "pending"
    BY <1>7, <1>10
<1> QED
    BY <1>11, <1>13, <1>14, <1>15, <1>16, <1>17 DEF q, c, s, B

\* The parts of EntersStep and Result.
LEMMA DecisionKinds ==
    ASSUME NEW q, q.action \in Actions
    PROVE  \/ q.action = "reject" /\ EntersStep(q) = 0 /\ Result(q).status = "rejected"
           \/ /\ q.action = "return" /\ EntersStep(q) = ReturnTarget(q.run.step)
              /\ Result(q) = Entered(EntersStep(q), "returned")
           \/ /\ q.action = "approve" /\ ~Agreed(q)
              /\ EntersStep(q) = 0 /\ Result(q) = q.inst
           \/ /\ q.action = "approve" /\ Agreed(q) /\ q.run.step < Last
              /\ EntersStep(q) = q.run.step + 1
              /\ Result(q) = Entered(EntersStep(q), "in_progress")
           \/ /\ q.action = "approve" /\ Agreed(q) /\ ~(q.run.step < Last)
              /\ EntersStep(q) = 0 /\ Result(q) = Completed(q.run.step)
<1>1. CASE q.action = "reject"
    BY <1>1 DEF EntersStep, Result
<1>2. CASE q.action = "return"
    BY <1>2 DEF EntersStep, Result
<1>3. CASE q.action = "approve" /\ ~Agreed(q)
    BY <1>3 DEF EntersStep, Result
<1>4. CASE q.action = "approve" /\ Agreed(q) /\ q.run.step < Last
    BY <1>4 DEF EntersStep, Result
<1>5. CASE q.action = "approve" /\ Agreed(q) /\ ~(q.run.step < Last)
    BY <1>5 DEF EntersStep, Result
<1> QED
    BY <1>1, <1>2, <1>3, <1>4, <1>5 DEF Actions

\* A decision on what is stored leaves the instance with somebody to ask, or at its end.
LEMMA DecisionAsks ==
    ASSUME TypeInv, RoundInv, NEW r \in Requests, Decide(r),
           NEW i \in Approval, i = req[r].of, i \notin raced'
    PROVE  Asked(rows'[i], inst'[i]) /\ Answerable(rows'[i], inst'[i])
<1> DEFINE q == req[r]
           c == inst[i].current
           s == EntersStep(q)
           ends == q.action # "approve" \/ Agreed(q)
           held == rows[i]
           more == rows'[i]
<1>1. /\ RequestIsTyped(q) /\ q.inst = inst[i] /\ inst'[i] = Result(q) /\ i \notin raced
      /\ inst[i].status \in Open /\ q.run.step = c /\ Iterations(held)
    BY DecisionIsFresh
<1>2. /\ s = 0 => DOMAIN more = DOMAIN held
      /\ s # 0 =>
            /\ s \in 1 .. Last /\ WithinBounds(held, s)
            /\ \E new \in Batches(held, s, r) :
                  /\ DOMAIN more = DOMAIN held \cup new
                  /\ \A k \in new : more[k] = NewStatus(k)
      /\ ends => \A k \in DOMAIN held : more[k] # "pending"
      /\ ~ends =>
            /\ s = 0 /\ Result(q) = inst[i] /\ StepOf(c).mode = "all"
            /\ \E k \in Round(held, c) : more[k] = "pending"
            /\ \A k \in Round(held, c) : more[k] = "pending" \/ more[k] = "approved"
            /\ \A k \in DOMAIN held : more[k] = "pending" => held[k] = "pending"
    BY DecisionVotes
<1>3. /\ definition \in [active : BOOLEAN, steps : StepLists]
      /\ Asked(held, inst[i]) /\ Answerable(held, inst[i])
    BY <1>1 DEF TypeInv, RoundInv
<1>4. q.action \in Actions /\ (q.action = "return" => s # 0)
    BY <1>1 DEF RequestIsTyped, Decide
<1> HIDE DEF q, c, s, held, more
<1>5. CASE ends /\ s = 0
    <2>1. Result(q).status \notin Open
        <3>1. q.run.step \in 1 .. Last /\ Last \in Nat
            BY <1>1, <1>3, StepsAreTyped DEF Answerable, c
        <3>2. q.run.step + 1 # 0 /\ Completed(q.run.step).status \notin Open
            BY <3>1 DEF Completed, Open
        <3>3. "rejected" \notin Open
            BY DEF Open
        <3> QED
            BY <1>4, <1>5, <3>2, <3>3, DecisionKinds DEF s
    <2>2. \A k \in DOMAIN more : more[k] # "pending"
        BY <1>2, <1>5
    <2>3. inst'[i].status \notin Open
        BY <1>1, <2>1
    <2> QED
        BY <2>2, <2>3 DEF Asked, Answerable, more
<1>6. CASE ends /\ s # 0
    <2>1. PICK status \in Open : Result(q) = Entered(s, status)
        BY <1>4, <1>6, DecisionKinds DEF Open, s
    <2>2. PICK new \in Batches(held, s, r) :
                /\ DOMAIN more = DOMAIN held \cup new
                /\ \A k \in new : more[k] = NewStatus(k)
        BY <1>2, <1>6
    <2>3. /\ s \in 1 .. Last /\ WithinBounds(held, s) /\ r \in Requests \cup {Starting}
          /\ \A k \in DOMAIN held : more[k] # "pending"
        BY <1>2, <1>6
    <2>4. Asked(more, Entered(s, status)) /\ Answerable(more, Entered(s, status))
        BY <1>1, <1>3, <2>2, <2>3, EnteringAsks
    <2>5. inst'[i] = Entered(s, status)
        BY <1>1, <2>1
    <2> QED
        BY <2>4, <2>5 DEF more
<1>7. CASE ~ends
    <2>1. DOMAIN more = DOMAIN held /\ inst'[i] = inst[i]
        BY <1>1, <1>2, <1>7
    <2>2. \A e : LatestIteration(more, e) = LatestIteration(held, e)
        BY <2>1, LatestOfOldRound
    <2>3. \A e : Round(more, e) = Round(held, e)
        BY <2>1, <2>2 DEF Round
    <2>4. Asked(more, inst[i])
        BY <1>2, <1>3, <1>7, <2>1, <2>2 DEF Asked
    <2>5. Answerable(more, inst[i])
        <3>1. \E k \in DOMAIN more : more[k] = "pending"
            BY <1>2, <1>7, <2>1 DEF Round
        <3>2. \A k \in Round(more, c) :
                  more[k] = "pending" \/ (StepOf(c).mode = "all" /\ more[k] = "approved")
            BY <1>2, <1>7, <2>3
        <3>3. StepOf(c).mode = "single" => \A k, j \in Round(more, c) : k = j
            BY <1>2, <1>7
        <3> QED
            BY <1>3, <3>1, <3>2, <3>3 DEF Answerable, c
    <2> QED
        BY <2>1, <2>4, <2>5 DEF more
<1> QED
    BY <1>5, <1>6, <1>7

LEMMA SameStepsSameAnswer ==
    ASSUME definition'.steps = definition.steps, NEW i
    PROVE  /\ Asked(rows[i], inst[i])' <=> Asked(rows'[i], inst'[i])
           /\ Answerable(rows[i], inst[i])' <=> Answerable(rows'[i], inst'[i])
    BY DEF Asked, Answerable, StepOf, Last, Round

LEMMA UpdateKeepsRounds ==
    ASSUME TypeInv, RoundInv, NEW active \in BOOLEAN, NEW steps \in StepLists,
           UpdateDefinition(active, steps)
    PROVE  RoundInv'
<1>1. UNCHANGED <<inst, rows, node, req, raced>>
    BY DEF UpdateDefinition
<1>2. \A r \in Requests :
            (req[r] # Idle /\ req[r].of \notin raced => FreshOrOvertaken(req[r]))'
    BY <1>1 DEF RoundInv, FreshOrOvertaken
<1>3. CASE definition'.steps = definition.steps
    <2>1. \A i \in Approval \ raced' : Asked(rows[i], inst[i])' /\ Answerable(rows[i], inst[i])'
        BY <1>1, <1>3, SameStepsSameAnswer DEF RoundInv
    <2> QED
        BY <1>2, <2>1 DEF RoundInv
<1>4. CASE definition'.steps # definition.steps
    <2>1. \A i \in Approval : rows[i] = <<>>
        BY <1>4 DEF UpdateDefinition
    <2>2. \A i \in Approval : DOMAIN rows[i] = {}
        BY <2>1
    <2>3. \A i \in Approval : inst[i].status = "absent"
        BY <2>2 DEF TypeInv, RunsMeanStarted
    <2>4. \A i \in Approval : Asked(rows[i], inst[i])' /\ Answerable(rows[i], inst[i])'
        BY <1>1, <2>2, <2>3 DEF Asked, Answerable, Open
    <2> QED
        BY <1>2, <2>4 DEF RoundInv
<1> QED
    BY <1>3, <1>4

LEMMA StartKeepsRounds ==
    ASSUME TypeInv, RoundInv, NEW i \in Approval, NEW forNode \in BOOLEAN, Start(i, forNode)
    PROVE  RoundInv'
<1>1. PICK new \in Batches(rows[i], 1, Starting) :
            /\ new # {} /\ rows' = [rows EXCEPT ![i] = [k \in new |-> NewStatus(k)]]
            /\ DOMAIN rows[i] = {} /\ Iterations(rows[i]) /\ WithinBounds(rows[i], 1)
            /\ definition \in [active : BOOLEAN, steps : StepLists] /\ 1 \in 1 .. Last
    BY StartRuns
<1>2. /\ UNCHANGED <<definition, req, raced>>
      /\ inst' = [inst EXCEPT ![i] = Entered(1, "in_progress")]
    BY DEF Start
<1>3. rows'[i] = [k \in new |-> NewStatus(k)] /\ inst'[i] = Entered(1, "in_progress")
    BY <1>1, <1>2 DEF TypeInv
<1>4. Asked(rows'[i], inst'[i]) /\ Answerable(rows'[i], inst'[i])
    <2> DEFINE held == rows[i]
               more == rows'[i]
    <2>1. /\ definition \in [active : BOOLEAN, steps : StepLists]
          /\ Iterations(held) /\ 1 \in 1 .. Last /\ WithinBounds(held, 1)
          /\ Starting \in Requests \cup {Starting} /\ new \in Batches(held, 1, Starting)
          /\ DOMAIN more = DOMAIN held \cup new
          /\ \A k \in DOMAIN held : more[k] # "pending"
          /\ \A k \in new : more[k] = NewStatus(k)
          /\ "in_progress" \in Open
        BY <1>1, <1>3 DEF Open
    <2> HIDE DEF held, more
    <2>2. Asked(more, Entered(1, "in_progress")) /\ Answerable(more, Entered(1, "in_progress"))
        BY <2>1, EnteringAsks, Zenon
    <2> QED
        BY <1>3, <2>2 DEF more
<1>5. \A j \in Approval \ {i} : rows'[j] = rows[j] /\ inst'[j] = inst[j]
    BY <1>1, <1>2 DEF TypeInv
<1>6. \A j \in Approval \ raced' : Asked(rows'[j], inst'[j]) /\ Answerable(rows'[j], inst'[j])
    BY <1>2, <1>4, <1>5 DEF RoundInv
<1>7. \A j \in Approval \ raced' : Asked(rows[j], inst[j])' /\ Answerable(rows[j], inst[j])'
    BY <1>2, <1>6, SameStepsSameAnswer
<1>8. ASSUME NEW r \in Requests, req[r] # Idle, req[r].of \notin raced
      PROVE  FreshOrOvertaken(req[r])'
    <2>1. RequestIsTyped(req[r])
        BY <1>8 DEF TypeInv
    <2>2. req[r].of \in Approval /\ req[r].of # i
        BY <1>1, <2>1 DEF RequestIsTyped
    <2>3. rows'[req[r].of] = rows[req[r].of] /\ inst'[req[r].of] = inst[req[r].of]
        BY <1>5, <2>2
    <2> QED
        BY <1>2, <1>8, <2>3 DEF RoundInv, FreshOrOvertaken
<1> QED
    BY <1>2, <1>7, <1>8 DEF RoundInv

LEMMA LoadKeepsRounds ==
    ASSUME TypeInv, RoundInv, NEW r \in Requests, NEW i \in Approval, NEW action \in Actions,
           NEW k \in DOMAIN rows[i], Load(r, i, k, action)
    PROVE  RoundInv'
<1> DEFINE q == [run |-> k, of |-> i, action |-> action, inst |-> inst[i], rows |-> rows[i]]
<1>1. UNCHANGED <<definition, inst, rows, node, raced>> /\ req' = [req EXCEPT ![r] = q]
    BY DEF Load
<1>2. \A j \in Approval \ raced' : Asked(rows[j], inst[j])' /\ Answerable(rows[j], inst[j])'
    BY <1>1, SameStepsSameAnswer DEF RoundInv
<1>3. ASSUME NEW p \in Requests, req'[p] # Idle, req'[p].of \notin raced
      PROVE  FreshOrOvertaken(req[p])'
    <2>1. CASE p = r
        BY <1>1, <2>1 DEF TypeInv, FreshOrOvertaken
    <2>2. CASE p # r
        <3>1. req'[p] = req[p]
            BY <1>1, <2>2 DEF TypeInv
        <3> QED
            BY <1>1, <1>3, <3>1 DEF RoundInv, FreshOrOvertaken
    <2> QED
        BY <2>1, <2>2
<1> QED
    BY <1>1, <1>2, <1>3 DEF RoundInv

LEMMA DecisionKeepsRounds ==
    ASSUME TypeInv, RoundInv, NEW r \in Requests, Decide(r)
    PROVE  RoundInv'
<1>1. PICK i \in Approval : i = req[r].of
    BY DecisionParts
<1>2. /\ UNCHANGED definition /\ req' = [req EXCEPT ![r] = Idle] /\ raced \subseteq raced'
      /\ inst' = [inst EXCEPT ![i] = Merged(inst[i], req[r].inst, Result(req[r]))]
    BY <1>1, DecisionParts
<1>3. \A j \in Approval \ {i} : rows'[j] = rows[j] /\ inst'[j] = inst[j]
    BY <1>1, <1>2 DEF TypeInv, Decide
<1>4. i \notin raced' => Asked(rows'[i], inst'[i]) /\ Answerable(rows'[i], inst'[i])
    BY <1>1, DecisionAsks
<1>5. \A j \in Approval \ raced' : Asked(rows'[j], inst'[j]) /\ Answerable(rows'[j], inst'[j])
    BY <1>2, <1>3, <1>4 DEF RoundInv
<1>6. \A j \in Approval \ raced' : Asked(rows[j], inst[j])' /\ Answerable(rows[j], inst[j])'
    BY <1>2, <1>5, SameStepsSameAnswer
<1>7. ASSUME NEW p \in Requests, req'[p] # Idle, req'[p].of \notin raced'
      PROVE  FreshOrOvertaken(req[p])'
    <2>1. p # r /\ req'[p] = req[p] /\ req[p] # Idle
        BY <1>2, <1>7 DEF TypeInv
    <2>2. RequestIsTyped(req[p]) /\ FreshOrOvertaken(req[p]) /\ req[p].of \in Approval
        BY <1>2, <1>7, <2>1 DEF TypeInv, RoundInv, RequestIsTyped
    <2>3. CASE req[p].of # i
        BY <1>3, <2>1, <2>2, <2>3 DEF FreshOrOvertaken
    <2>4. CASE req[p].of = i
        <3>1. /\ req[r].run \in DOMAIN rows[i] /\ rows[i][req[r].run] = "pending"
              /\ rows'[i][req[r].run] # "pending"
              /\ \A k \in DOMAIN rows[i] : rows[i][k] # "pending" => rows'[i][k] = rows[i][k]
            <4>1. i \notin raced'
                BY <1>7, <2>1, <2>4
            <4> QED
                BY <1>1, <4>1, DecisionIsFresh, DecisionVotes
        <3>2. PICK k \in DOMAIN req[p].rows :
                    req[p].rows[k] = "pending" /\ rows'[i][k] # "pending"
            <4>1. CASE req[p].rows = rows[i]
                BY <3>1, <4>1
            <4>2. CASE \E k \in DOMAIN req[p].rows :
                            req[p].rows[k] = "pending" /\ rows[i][k] # "pending"
                BY <2>2, <2>4, <3>1, <4>2 DEF RequestIsTyped
            <4> QED
                BY <2>2, <2>4, <4>1, <4>2 DEF FreshOrOvertaken
        <3> QED
            BY <2>1, <2>4, <3>2 DEF FreshOrOvertaken
    <2> QED
        BY <2>3, <2>4
<1> QED
    BY <1>6, <1>7 DEF RoundInv

LEMMA RoundsStay == TypeInv /\ RoundInv /\ [Next]_vars => RoundInv'
<1> SUFFICES ASSUME TypeInv, RoundInv, [Next]_vars PROVE RoundInv'
    OBVIOUS
<1>1. CASE \E active \in BOOLEAN, steps \in StepLists : UpdateDefinition(active, steps)
    BY <1>1, UpdateKeepsRounds
<1>2. CASE \E i \in Approval, forNode \in BOOLEAN : Start(i, forNode)
    BY <1>2, StartKeepsRounds
<1>3. CASE \E r \in Requests, i \in Approval, action \in Actions :
                \E k \in DOMAIN rows[i] : Load(r, i, k, action)
    BY <1>3, LoadKeepsRounds
<1>4. CASE \E r \in Requests : Decide(r)
    BY <1>4, DecisionKeepsRounds
<1>5. CASE UNCHANGED <<definition, inst, rows, raced>>
           /\ \A p \in Requests : req'[p] = Idle \/ req'[p] = req[p]
    <2>1. \A j \in Approval \ raced' : Asked(rows[j], inst[j])' /\ Answerable(rows[j], inst[j])'
        BY <1>5, SameStepsSameAnswer DEF RoundInv
    <2> QED
        BY <1>5, <2>1 DEF RoundInv, FreshOrOvertaken
<1>6. (\E r \in Requests : Refused(r) \/ GiveUp(r)) \/ (\E i \in Approval : Revoke(i))
            \/ UNCHANGED vars
      => /\ UNCHANGED <<definition, inst, rows, raced>>
         /\ \A p \in Requests : req'[p] = Idle \/ req'[p] = req[p]
    BY DEF Refused, GiveUp, Revoke, vars, TypeInv
<1> QED
    BY <1>1, <1>2, <1>3, <1>4, <1>5, <1>6 DEF Next

LEMMA RoundsHoldInitially == Init => RoundInv
    BY DEF Init, RoundInv, Asked, Answerable, Open

\* An open approval can always be decided, unless decisions on it overlapped: every vote that
\* ends a round enters another step or closes the instance, whatever the steps, the modes,
\* the users and the decisions under way.
THEOREM OpenCanBeDecided == Spec => []OpenHasPending
<1>1. RoundInv => OpenHasPending
    BY DEF RoundInv, Answerable, OpenHasPending
<1> QED
    BY <1>1, TypesHoldInitially, TypesStay, RoundsHoldInitially, RoundsStay, PTL DEF Spec

\* Only the latest round of the current step of an open approval is ever asked, unless
\* decisions on it overlapped: no vote, return or reject leaves an older run pending.
THEOREM OnlyTheRoundIsAsked == Spec => []PendingIsCurrent
<1>1. RoundInv => PendingIsCurrent
    BY DEF RoundInv, Asked, PendingIsCurrent
<1> QED
    BY <1>1, TypesHoldInitially, TypesStay, RoundsHoldInitially, RoundsStay, PTL DEF Spec

-----------------------------------------------------------------------------
(* The graph node *)

LEMMA NodeHoldsInitially == Init => NodeInv
    BY DEF Init, NodeInv

LEMMA DecisionKeepsNode ==
    ASSUME TypeInv, RoundInv, NodeInv, NEW r \in Requests, Decide(r)
    PROVE  NodeInv'
<1> DEFINE q == req[r]
           sync == <<q.run, q.action, Result(q).status>>
<1>1. PICK i \in Approval : i = q.of
    BY DecisionParts
<1>2. /\ Consume(i, sync, Result(q).status \in Decided) /\ raced \subseteq raced'
      /\ inst' = [inst EXCEPT ![i] = Merged(inst[i], q.inst, Result(q))]
    BY <1>1, DecisionParts
<1>3. i \notin raced' => i \notin raced /\ inst'[i] = Result(q) /\ inst[i].status \in Open
    BY <1>1, DecisionIsFresh
<1> HIDE DEF q
<1>4. sync # NoSync /\ sync[3] = Result(q).status
    BY DEF NoSync
<1> HIDE DEF sync
<1>5. CASE UNCHANGED node /\ (node[i].state = "none" \/ node[i].synced = sync)
    <2>1. ASSUME NEW j \in Approval \ raced', j # i
          PROVE  inst'[j] = inst[j]
        BY <1>2, <2>1 DEF TypeInv
    <2>2. i \notin raced' => node[i].state # "completed"
        BY <1>3 DEF NodeInv, Open, Decided
    <2>3. ASSUME i \notin raced', node[i].synced # NoSync
          PROVE  node[i].synced[3] = inst'[i].status
        <3>1. node[i].synced = sync
            BY <1>3, <1>5, <2>3 DEF NodeInv
        <3> QED
            BY <1>3, <1>4, <2>3, <3>1
    <2>4. ASSUME NEW j \in Approval \ raced'
          PROVE  /\ node'[j].state = "none" => node'[j].synced = NoSync
                 /\ node'[j].state = "completed" => inst'[j].status \in Decided
                 /\ node'[j].synced # NoSync => node'[j].synced[3] = inst'[j].status
        <3>1. node'[j] = node[j] /\ j \notin raced
            BY <1>2, <1>5
        <3>2. CASE j = i
            BY <2>2, <2>3, <3>1, <3>2 DEF NodeInv
        <3>3. CASE j # i
            BY <2>1, <3>1, <3>3 DEF NodeInv
        <3> QED
            BY <3>2, <3>3
    <2> QED
        BY <2>4 DEF NodeInv
<1>6. CASE node' = [node EXCEPT ![i] =
                [state |-> IF Result(q).status \in Decided THEN "completed" ELSE "acknowledged",
                 synced |-> sync]]
    <2>1. \A j \in Approval \ {i} : node'[j] = node[j] /\ inst'[j] = inst[j]
        BY <1>2, <1>6 DEF TypeInv
    <2>2. /\ node'[i].state = IF Result(q).status \in Decided THEN "completed" ELSE "acknowledged"
          /\ node'[i].synced = sync
        BY <1>6 DEF TypeInv
    <2> QED
        BY <1>2, <1>3, <1>4, <2>1, <2>2 DEF NodeInv
<1> QED
    BY <1>2, <1>5, <1>6 DEF Consume

LEMMA NodeStays == TypeInv /\ RoundInv /\ NodeInv /\ [Next]_vars => NodeInv'
<1> SUFFICES ASSUME TypeInv, RoundInv, NodeInv, [Next]_vars PROVE NodeInv'
    OBVIOUS
<1>1. CASE UNCHANGED <<inst, node, raced>>
    BY <1>1 DEF NodeInv
<1>2. ASSUME NEW i \in Approval, NEW forNode \in BOOLEAN, Start(i, forNode)
      PROVE  NodeInv'
    <2>1. /\ node[i].synced = NoSync /\ UNCHANGED raced
          /\ node' = [node EXCEPT ![i].state = IF forNode THEN "activated" ELSE "none"]
          /\ \A j \in Approval \ {i} : inst'[j] = inst[j]
        BY <1>2 DEF Start, TypeInv, RunsMeanStarted
    <2>2. \A j \in Approval \ {i} : node'[j] = node[j]
        BY <2>1 DEF TypeInv
    <2>3. node'[i].synced = NoSync /\ node'[i].state # "completed"
        BY <2>1 DEF TypeInv
    <2> QED
        BY <2>1, <2>2, <2>3 DEF NodeInv
<1>3. CASE \E r \in Requests : Decide(r)
    BY <1>3, DecisionKeepsNode
<1>4. ASSUME NEW i \in Approval, NEW state \in {"suspended", "terminated"},
             node' = [node EXCEPT ![i].state = state], node[i].state # "none",
             UNCHANGED <<inst, raced>>
      PROVE  NodeInv'
    <2>1. \A j \in Approval \ {i} : node'[j] = node[j]
        BY <1>4 DEF TypeInv
    <2>2. node'[i].state = state /\ node'[i].synced = node[i].synced
        BY <1>4 DEF TypeInv
    <2> QED
        BY <1>4, <2>1, <2>2 DEF NodeInv
<1>5. CASE \E r \in Requests : Refused(r)
    <2>1. PICK r \in Requests : Refused(r)
        BY <1>5
    <2>2. req[r].of \in Approval
        BY <2>1 DEF Refused, TypeInv, RequestIsTyped
    <2> QED
        BY <1>4, <2>1, <2>2 DEF Refused
<1>6. CASE \E i \in Approval : Revoke(i)
    BY <1>4, <1>6 DEF Revoke
<1>7. (\/ \E active \in BOOLEAN, steps \in StepLists : UpdateDefinition(active, steps)
       \/ \E r \in Requests, i \in Approval, action \in Actions :
                \E k \in DOMAIN rows[i] : Load(r, i, k, action)
       \/ \E r \in Requests : GiveUp(r)
       \/ UNCHANGED vars)
      => UNCHANGED <<inst, node, raced>>
    BY DEF UpdateDefinition, Load, GiveUp, vars
<1> QED
    BY <1>1, <1>2, <1>3, <1>5, <1>6, <1>7 DEF Next

\* A node is completed only by a decided approval: consume_approval_result passes on what
\* the decision came to, and no later decision takes the outcome back.
THEOREM DoneNodesAreDecided == Spec => []NodeDoneMeansDecided
<1>1. NodeInv => NodeDoneMeansDecided
    BY DEF NodeInv, NodeDoneMeansDecided
<1> QED
    BY <1>1, TypesHoldInitially, TypesStay, RoundsHoldInitially, RoundsStay,
       NodeHoldsInitially, NodeStays, PTL DEF Spec

LEMMA ClosedNodeFreezes ==
    ASSUME TypeInv, NodeInv, [Next]_vars,
           NEW i \in Approval \ raced, node[i].state \in Closed
    PROVE  inst'[i].status = inst[i].status
<1>1. CASE inst'[i] = inst[i]
    BY <1>1
<1>2. ASSUME NEW j \in Approval, NEW forNode \in BOOLEAN, Start(j, forNode)
      PROVE  inst'[i] = inst[i]
    <2>1. inst[j].status = "absent" /\ \A l \in Approval \ {j} : inst'[l] = inst[l]
        BY <1>2 DEF Start, TypeInv
    <2>2. inst[i].status # "absent"
        BY DEF TypeInv, RunsMeanStarted, Closed
    <2> QED
        BY <2>1, <2>2
<1>3. ASSUME NEW r \in Requests, Decide(r)
      PROVE  inst'[i].status = inst[i].status
    <2> DEFINE q == req[r]
               sync == <<q.run, q.action, Result(q).status>>
    <2>1. PICK j \in Approval : j = q.of
        BY <1>3, DecisionParts
    <2>2. /\ Consume(j, sync, Result(q).status \in Decided)
          /\ inst' = [inst EXCEPT ![j] = Merged(inst[j], q.inst, Result(q))]
          /\ Result(q) \in Instance /\ RequestIsTyped(q)
        BY <1>3, <2>1, DecisionParts
    <2>3. CASE j # i
        BY <2>2, <2>3 DEF TypeInv
    <2>4. CASE j = i
        <3> HIDE DEF q
        <3>1. sync # NoSync /\ sync[3] = Result(q).status
            BY DEF NoSync
        <3> HIDE DEF sync
        <3>2. node[i].synced = sync
            BY <2>2, <2>4 DEF Consume, Closed
        <3>3. Result(q).status = inst[i].status
            BY <3>1, <3>2 DEF NodeInv
        <3>4. inst[i] \in Instance /\ q.inst \in Instance
            BY <2>2 DEF TypeInv, RequestIsTyped
        <3>5. inst'[i] = Merged(inst[i], q.inst, Result(q))
            BY <2>2, <2>4 DEF TypeInv
        <3>6. Merged(inst[i], q.inst, Result(q)).status =
                IF Result(q).status = q.inst.status THEN inst[i].status ELSE Result(q).status
            BY <2>2, <3>4, MergedIsARow
        <3> QED
            BY <3>3, <3>5, <3>6
    <2> QED
        BY <2>3, <2>4
<1>4. (\/ \E active \in BOOLEAN, steps \in StepLists : UpdateDefinition(active, steps)
       \/ \E r \in Requests, j \in Approval, action \in Actions :
                \E k \in DOMAIN rows[j] : Load(r, j, k, action)
       \/ \E r \in Requests : Refused(r) \/ GiveUp(r)
       \/ \E j \in Approval : Revoke(j)
       \/ UNCHANGED vars)
      => inst'[i] = inst[i]
    BY DEF UpdateDefinition, Load, Refused, GiveUp, Revoke, vars
<1> QED
    BY <1>1, <1>2, <1>3, <1>4 DEF Next

\* Once the node of an approval is completed or revoked, the first decision that comes too
\* late leaves the outcome of the approval as it was: either consume_approval_result raises
\* and everything is rolled back, or the decision is the one the node has consumed last.
THEOREM ClosedNodesFreeze == Spec => ClosedNodeFrozen
<1>1. TypeInv /\ NodeInv /\ [Next]_vars =>
        [\A i \in Approval \ raced : node[i].state \in Closed =>
            inst'[i].status = inst[i].status]_vars
    BY ClosedNodeFreezes
<1> QED
    BY <1>1, TypesHoldInitially, TypesStay, RoundsHoldInitially, RoundsStay,
       NodeHoldsInitially, NodeStays, PTL DEF Spec, ClosedNodeFrozen

-----------------------------------------------------------------------------
(* What an approval stands for *)

LEMMA AgreementKept ==
    ASSUME NEW held, NEW more, NEW e, Round(more, e) = Round(held, e),
           \A k \in Round(held, e) : more[k] = held[k], Agreement(held, e)
    PROVE  Agreement(more, e)
    BY DEF Agreement

\* From s on nobody has to decide before the step where the instance stops.
LEMMA AgreedUpToTheStop ==
    ASSUME definition \in [active : BOOLEAN, steps : StepLists],
           NEW s \in 1 .. Last, NEW more, NEW status \in Open,
           Entered(s, status).status \in Open =>
                Entered(s, status).current = Stop(s) /\ Stop(s) \in s .. Last,
           Entered(s, status).status \notin Open => Stop(s) > Last,
           \A e \in 1 .. s - 1 : Agreement(more, e)
    PROVE  AgreedSoFar(more, Entered(s, status))
<1>1. /\ Last \in Nat \ {0} /\ Stop(s) \in s .. Last + 1
      /\ \A j \in s .. Stop(s) - 1 : StepOf(j).type = "notify"
    BY StepsAreTyped, StopIsNext
<1>2. \A e \in 1 .. Stop(s) - 1 : Agreement(more, e)
    <2> SUFFICES ASSUME NEW e \in 1 .. Stop(s) - 1
                 PROVE  Agreement(more, e)
        OBVIOUS
    <2>1. CASE e \in 1 .. s - 1
        BY <2>1
    <2>2. CASE e \in s .. Stop(s) - 1
        BY <1>1, <2>2 DEF Agreement
    <2> QED
        BY <1>1, <2>1, <2>2
<1>3. CASE Entered(s, status).status \in Open
    BY <1>2, <1>3 DEF AgreedSoFar, Open
<1>4. CASE Entered(s, status).status \notin Open
    <2>1. Stop(s) = Last + 1
        BY <1>1, <1>4
    <2>2. \A e \in 1 .. Last : Agreement(more, e)
        BY <1>1, <1>2, <2>1
    <2> QED
        BY <1>4, <2>2 DEF AgreedSoFar
<1> QED
    BY <1>3, <1>4

LEMMA DecisionAgrees ==
    ASSUME ReturnsGoBack, TypeInv, RoundInv, AgreedInv, NEW r \in Requests, Decide(r),
           NEW i \in Approval, i = req[r].of, i \notin raced'
    PROVE  AgreedSoFar(rows'[i], inst'[i])
<1> DEFINE q == req[r]
           c == inst[i].current
           s == EntersStep(q)
           ends == q.action # "approve" \/ Agreed(q)
           held == rows[i]
           more == rows'[i]
<1>1. /\ RequestIsTyped(q) /\ q.inst = inst[i] /\ inst'[i] = Result(q) /\ i \notin raced
      /\ inst[i].status \in Open /\ q.run.step = c /\ Iterations(held)
      /\ q.run \in Round(held, c)
    BY DecisionIsFresh
<1>2. /\ s = 0 => DOMAIN more = DOMAIN held
      /\ s # 0 =>
            /\ s \in 1 .. Last /\ WithinBounds(held, s)
            /\ \E new \in Batches(held, s, r) :
                  /\ DOMAIN more = DOMAIN held \cup new
                  /\ \A k \in new : more[k] = NewStatus(k)
      /\ \A k \in DOMAIN held : held[k] # "pending" => more[k] = held[k]
      /\ ends => \A k \in DOMAIN held : more[k] # "pending"
      /\ q.action = "approve" /\ Agreed(q) =>
            \/ StepOf(c).mode = "all" /\ \A k \in Round(held, c) : more[k] = "approved"
            \/ /\ StepOf(c).mode # "all" /\ more[q.run] = "approved"
               /\ \A k \in Round(held, c) \ {q.run} : more[k] = "skipped"
    BY DecisionVotes
<1>3. /\ definition \in [active : BOOLEAN, steps : StepLists]
      /\ Asked(held, inst[i]) /\ Answerable(held, inst[i]) /\ AgreedSoFar(held, inst[i])
    BY <1>1 DEF TypeInv, RoundInv, AgreedInv
<1>4. q.action \in Actions /\ (q.action = "return" => s # 0)
    BY <1>1 DEF RequestIsTyped, Decide
<1>5. Last \in Nat \ {0} /\ c \in 1 .. Last /\ StepOf(c).type # "notify"
    BY <1>1, <1>3, StepsAreTyped DEF Answerable
<1> HIDE DEF q, c, s, held, more
<1>6. \A e \in 1 .. c - 1 : Agreement(held, e) /\ \A k \in Round(held, e) : more[k] = held[k]
    <2>1. \A e \in 1 .. c - 1 : Agreement(held, e)
        BY <1>1, <1>3 DEF AgreedSoFar, c
    <2>2. ASSUME NEW e \in 1 .. c - 1, NEW k \in Round(held, e)
          PROVE  more[k] = held[k]
        <3>1. k \in DOMAIN held /\ k.step # c
            BY <1>5 DEF Round
        <3>2. held[k] # "pending"
            BY <1>3, <3>1 DEF Asked, c
        <3> QED
            BY <1>2, <3>1, <3>2
    <2> QED
        BY <2>1, <2>2
<1>7. ASSUME s = 0
      PROVE  /\ \A e : Round(more, e) = Round(held, e)
             /\ \A e \in 1 .. c - 1 : Agreement(more, e)
    <2>1. \A e : LatestIteration(more, e) = LatestIteration(held, e)
        BY <1>2, <1>7, LatestOfOldRound
    <2>2. \A e : Round(more, e) = Round(held, e)
        BY <1>2, <1>7, <2>1 DEF Round
    <2> QED
        BY <1>6, <2>2, AgreementKept
<1>8. ASSUME q.action = "approve", Agreed(q), Round(more, c) = Round(held, c)
      PROVE  Agreement(more, c)
    <2>1. CASE StepOf(c).mode = "all" /\ \A k \in Round(held, c) : more[k] = "approved"
        BY <1>8, <2>1 DEF Agreement
    <2>2. CASE /\ StepOf(c).mode # "all" /\ more[q.run] = "approved"
               /\ \A k \in Round(held, c) \ {q.run} : more[k] = "skipped"
        BY <1>1, <1>8, <2>2 DEF Agreement
    <2> QED
        BY <1>2, <1>8, <2>1, <2>2
<1>9. ASSUME ends, s # 0, NEW status \in Open,
             \A e \in 1 .. s - 1 : Round(more, e) = Round(held, e) => Agreement(more, e)
      PROVE  AgreedSoFar(more, Entered(s, status))
    <2>1. PICK new \in Batches(held, s, r) :
                /\ DOMAIN more = DOMAIN held \cup new
                /\ \A k \in new : more[k] = NewStatus(k)
        BY <1>2, <1>9
    <2>2. /\ s \in 1 .. Last /\ WithinBounds(held, s) /\ r \in Requests \cup {Starting}
          /\ \A k \in DOMAIN held : more[k] # "pending"
        BY <1>2, <1>9
    <2>3. /\ Entered(s, status).status \in Open =>
                Entered(s, status).current = Stop(s) /\ Stop(s) \in s .. Last
          /\ Entered(s, status).status \notin Open => Stop(s) > Last
        BY <1>1, <1>3, <2>1, <2>2, EnteringAsks
    <2>4. \A e \in 1 .. s - 1 : Round(more, e) = Round(held, e)
        <3>1. \A k \in new :
                    /\ k \in Key /\ k.step \in s .. Last /\ k.step <= Stop(s)
                    /\ k.iter \in 1 .. MaxIteration
                    /\ k.iter = LatestIteration(held, k.step) + 1
                    /\ k \notin DOMAIN held
            BY <1>1, <1>3, <2>1, <2>2, BatchIsNewRound, Zenon
        <3>2. \A e \in 1 .. s - 1 : \A k \in new : k.step # e
            BY <1>5, <2>2, <3>1
        <3>3. DOMAIN more = DOMAIN held \cup new
            BY <2>1
        <3>4. ASSUME NEW e \in 1 .. s - 1
              PROVE  Round(more, e) = Round(held, e)
            <4>1. \A k \in new : k.step # e
                BY <3>2
            <4>2. \A k : k.step = e => (k \in DOMAIN held <=> k \in DOMAIN more)
                BY <3>3, <4>1
            <4>3. LatestIteration(more, e) = LatestIteration(held, e)
                BY <4>2, LatestOfOldRound
            <4> QED
                BY <4>2, <4>3 DEF Round
        <3> QED
            BY <3>4
    <2>5. \A e \in 1 .. s - 1 : Agreement(more, e)
        BY <1>9, <2>4
    <2> QED
        BY <1>3, <2>2, <2>3, <2>5, AgreedUpToTheStop
<1>10. CASE q.action = "reject"
    <2>1. inst'[i].status = "rejected"
        BY <1>1, <1>4, <1>10, DecisionKinds
    <2> QED
        BY <2>1 DEF AgreedSoFar, Open
<1>11. CASE q.action = "return"
    <2>1. s = ReturnTarget(c) /\ Result(q) = Entered(s, "returned")
        BY <1>1, <1>4, <1>11, DecisionKinds DEF s
    <2>2. s <= c
        <3>1. StepOf(c).target <= c
            BY <1>3, <1>5 DEF ReturnsGoBack, StepOf, Last
        <3> QED
            BY <1>5, <2>1, <3>1 DEF ReturnTarget
    <2>3. s \in 1 .. Last
        BY <1>2, <1>4, <1>11
    <2>4. ASSUME NEW e \in 1 .. s - 1, Round(more, e) = Round(held, e)
          PROVE  Agreement(more, e)
        <3>1. e \in 1 .. c - 1
            BY <1>5, <2>2, <2>3
        <3> QED
            BY <1>6, <2>4, <3>1, AgreementKept
    <2>5. ends /\ s # 0 /\ "returned" \in Open
        BY <1>4, <1>11 DEF Open
    <2>6. AgreedSoFar(more, Entered(s, "returned"))
        BY <1>9, <2>4, <2>5
    <2> QED
        BY <1>1, <2>1, <2>6 DEF more
<1>12. CASE ~ends
    <2>1. s = 0 /\ Result(q) = inst[i]
        BY <1>1, <1>4, <1>12, DecisionKinds DEF s
    <2>2. \A e \in 1 .. c - 1 : Agreement(more, e)
        BY <1>7, <2>1
    <2> QED
        BY <1>1, <2>1, <2>2 DEF AgreedSoFar, Open, c, more
<1>13. CASE q.action = "approve" /\ Agreed(q) /\ c < Last
    <2>1. s = c + 1 /\ Result(q) = Entered(s, "in_progress")
        BY <1>1, <1>4, <1>13, DecisionKinds DEF s
    <2>2. ASSUME NEW e \in 1 .. s - 1, Round(more, e) = Round(held, e)
          PROVE  Agreement(more, e)
        <3>1. CASE e \in 1 .. c - 1
            BY <1>6, <2>2, <3>1, AgreementKept
        <3>2. CASE e = c
            BY <1>8, <1>13, <2>2, <3>2
        <3> QED
            BY <1>5, <2>1, <3>1, <3>2
    <2>3. ends /\ s # 0 /\ "in_progress" \in Open
        BY <1>5, <1>13, <2>1 DEF Open
    <2>4. AgreedSoFar(more, Entered(s, "in_progress"))
        BY <1>9, <2>2, <2>3
    <2> QED
        BY <1>1, <2>1, <2>4 DEF more
<1>14. CASE q.action = "approve" /\ Agreed(q) /\ ~(c < Last)
    <2>1. s = 0 /\ Result(q) = Completed(c) /\ c = Last
        BY <1>1, <1>4, <1>5, <1>14, DecisionKinds DEF s
    <2>2. \A e \in 1 .. Last : Agreement(more, e)
        BY <1>5, <1>7, <1>8, <1>14, <2>1
    <2>3. inst'[i].status \notin Open
        BY <1>1, <2>1 DEF Completed, Open
    <2> QED
        BY <2>2, <2>3 DEF AgreedSoFar, more
<1> QED
    BY <1>4, <1>10, <1>11, <1>12, <1>13, <1>14 DEF Actions

LEMMA SameStepsSameAgreement ==
    ASSUME definition'.steps = definition.steps, NEW i
    PROVE  AgreedSoFar(rows[i], inst[i])' <=> AgreedSoFar(rows'[i], inst'[i])
    BY DEF AgreedSoFar, Agreement, StepOf, Last, Round

LEMMA AgreedStays == ReturnsGoBack /\ TypeInv /\ RoundInv /\ AgreedInv /\ [Next]_vars => AgreedInv'
<1> SUFFICES ASSUME ReturnsGoBack, TypeInv, RoundInv, AgreedInv, [Next]_vars PROVE AgreedInv'
    OBVIOUS
<1>1. CASE UNCHANGED <<inst, rows, raced>> /\ definition'.steps = definition.steps
    BY <1>1, SameStepsSameAgreement DEF AgreedInv
<1>2. ASSUME NEW active \in BOOLEAN, NEW steps \in StepLists, UpdateDefinition(active, steps)
      PROVE  AgreedInv'
    <2>1. UNCHANGED <<inst, rows, raced>>
        BY <1>2 DEF UpdateDefinition
    <2>2. CASE definition'.steps # definition.steps
        <3>1. \A i \in Approval : rows[i] = <<>>
            BY <1>2, <2>2 DEF UpdateDefinition
        <3>2. \A i \in Approval : DOMAIN rows[i] = {}
            BY <3>1
        <3>3. \A i \in Approval : inst[i].status = "absent"
            BY <3>2 DEF TypeInv, RunsMeanStarted
        <3> QED
            BY <2>1, <3>3 DEF AgreedInv, AgreedSoFar, Open
    <2> QED
        BY <1>1, <2>1, <2>2
<1>3. ASSUME NEW i \in Approval, NEW forNode \in BOOLEAN, Start(i, forNode)
      PROVE  AgreedInv'
    <2>1. PICK new \in Batches(rows[i], 1, Starting) :
                /\ new # {} /\ rows' = [rows EXCEPT ![i] = [k \in new |-> NewStatus(k)]]
                /\ DOMAIN rows[i] = {} /\ Iterations(rows[i]) /\ WithinBounds(rows[i], 1)
                /\ definition \in [active : BOOLEAN, steps : StepLists] /\ 1 \in 1 .. Last
        BY <1>3, StartRuns
    <2>2. /\ UNCHANGED <<definition, raced>>
          /\ inst' = [inst EXCEPT ![i] = Entered(1, "in_progress")]
        BY <1>3 DEF Start
    <2>3. inst'[i] = Entered(1, "in_progress") /\ rows'[i] = [k \in new |-> NewStatus(k)]
        BY <2>1, <2>2 DEF TypeInv
    <2>4. AgreedSoFar(rows'[i], inst'[i])
        <3> DEFINE held == rows[i]
                   more == rows'[i]
        <3>1. /\ definition \in [active : BOOLEAN, steps : StepLists]
              /\ Iterations(held) /\ 1 \in 1 .. Last /\ WithinBounds(held, 1)
              /\ Starting \in Requests \cup {Starting} /\ new \in Batches(held, 1, Starting)
              /\ DOMAIN more = DOMAIN held \cup new
              /\ \A k \in DOMAIN held : more[k] # "pending"
              /\ \A k \in new : more[k] = NewStatus(k)
              /\ "in_progress" \in Open
            BY <2>1, <2>3 DEF Open
        <3> HIDE DEF held, more
        <3>2. /\ Entered(1, "in_progress").status \in Open =>
                    Entered(1, "in_progress").current = Stop(1) /\ Stop(1) \in 1 .. Last
              /\ Entered(1, "in_progress").status \notin Open => Stop(1) > Last
            <4>1. PICK first \in 1 .. Last : first = 1
                BY <3>1
            <4>2. WithinBounds(held, first) /\ new \in Batches(held, first, Starting)
                BY <3>1, <4>1
            <4>3. /\ Entered(first, "in_progress").status \in Open =>
                        /\ Entered(first, "in_progress").current = Stop(first)
                        /\ Stop(first) \in first .. Last
                  /\ Entered(first, "in_progress").status \notin Open => Stop(first) > Last
                BY <3>1, <4>2, EnteringAsks
            <4> QED
                BY <4>1, <4>3
        <3>3. \A e \in 1 .. 1 - 1 : Agreement(more, e)
            OBVIOUS
        <3>4. AgreedSoFar(more, Entered(1, "in_progress"))
            BY <3>1, <3>2, <3>3, AgreedUpToTheStop, Zenon
        <3> QED
            BY <2>3, <3>4 DEF more
    <2>5. \A j \in Approval \ {i} : rows'[j] = rows[j] /\ inst'[j] = inst[j]
        BY <2>1, <2>2 DEF TypeInv
    <2>6. \A j \in Approval \ raced' : AgreedSoFar(rows'[j], inst'[j])
        BY <2>2, <2>4, <2>5 DEF AgreedInv
    <2> QED
        BY <2>2, <2>6, SameStepsSameAgreement DEF AgreedInv
<1>4. ASSUME NEW r \in Requests, Decide(r)
      PROVE  AgreedInv'
    <2>1. PICK i \in Approval : i = req[r].of
        BY <1>4, DecisionParts
    <2>2. UNCHANGED definition /\ raced \subseteq raced'
        BY <1>4, <2>1, DecisionParts
    <2>3. \A j \in Approval \ {i} : rows'[j] = rows[j] /\ inst'[j] = inst[j]
        BY <1>4, <2>1 DEF TypeInv, Decide
    <2>4. i \notin raced' => AgreedSoFar(rows'[i], inst'[i])
        BY <1>4, <2>1, DecisionAgrees
    <2>5. \A j \in Approval \ raced' : AgreedSoFar(rows'[j], inst'[j])
        BY <2>2, <2>3, <2>4 DEF AgreedInv
    <2> QED
        BY <2>2, <2>5, SameStepsSameAgreement DEF AgreedInv
<1>5. (\/ \E r \in Requests, i \in Approval, action \in Actions :
                \E k \in DOMAIN rows[i] : Load(r, i, k, action)
       \/ \E r \in Requests : Refused(r) \/ GiveUp(r)
       \/ \E i \in Approval : Revoke(i)
       \/ UNCHANGED vars)
      => UNCHANGED <<inst, rows, raced>> /\ definition'.steps = definition.steps
    BY DEF Load, Refused, GiveUp, Revoke, vars
<1> QED
    BY <1>1, <1>2, <1>3, <1>4, <1>5 DEF Next

LEMMA AgreedHoldsInitially == Init => AgreedInv
    BY DEF Init, AgreedInv, AgreedSoFar, Open

\* Where no step returns to a later one, an approval is granted only after the latest round
\* of each of its steps has passed, whatever rounds there were before.  A step that returns
\* forward skips the steps in between, which need not have been decided: the hypothesis is
\* needed, and update_definition does not check it.
THEOREM ApprovalsAreAgreed ==
    ASSUME ReturnsGoBack
    PROVE  Spec => []ApprovedMeansAgreed
<1>1. AgreedInv => ApprovedMeansAgreed
    <2> SUFFICES ASSUME AgreedInv, NEW i \in Approval \ raced,
                        inst[i].status \in {"approved", "completed"},
                        NEW s \in 1 .. Last, StepOf(s).type # "notify"
                 PROVE  Passed(i, s)
        BY DEF ApprovedMeansAgreed
    <2>1. Agreement(rows[i], s)
        BY DEF AgreedInv, AgreedSoFar
    <2>2. CASE StepOf(s).mode = "all" /\ \A k \in Round(rows[i], s) : rows[i][k] = "approved"
        BY <2>2 DEF Passed, Round
    <2>3. CASE /\ StepOf(s).mode # "all"
               /\ \E k \in Round(rows[i], s) :
                    /\ rows[i][k] = "approved"
                    /\ \A j \in Round(rows[i], s) \ {k} : rows[i][j] = "skipped"
        BY <2>3 DEF Passed, Round
    <2> QED
        BY <2>1, <2>2, <2>3 DEF Agreement
<1>2. TypeInv /\ RoundInv /\ AgreedInv /\ [Next]_vars => AgreedInv'
    BY AgreedStays
<1> QED
    BY <1>1, <1>2, TypesHoldInitially, TypesStay, RoundsHoldInitially, RoundsStay,
       AgreedHoldsInitially, PTL DEF Spec
=============================================================================
