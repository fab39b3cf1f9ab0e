---------------------------- MODULE OutboxProofs ----------------------------
(***************************************************************************)
(* Proofs about Outbox for any number of overlapping jobs and any batch    *)
(* size, attempt limit, number of replays and number of crashes: types, a  *)
(* dispatched event has its message and is final, and without a crash no   *)
(* queued message is forgotten.                                            *)
(*                                                                         *)
(* The argument is about the row lock.  A lock belongs to the job that has *)
(* the event in hand, and a locked event is open: so every commit that is  *)
(* made under the lock replaces an open status, and the only other one     *)
(* writes "dispatched".                                                    *)
(***************************************************************************)
EXTENDS Outbox, TLAPS

\* A job with a step to take has an event in hand.
JobHasEvent == \A w \in Worker : ~At(w, "idle") => job[w].event \in Event

\* A lock is held by the job that has the event in hand, and while it is held
\* the event is open.
LockIsHeld ==
    \A e \in Event : lock[e] # None =>
        /\ job[lock[e]].event = e
        /\ job[lock[e]].step \in {"send", "requeue", "publish", "finish"}
        /\ status[e] \in Open

\* Nothing was committed before send or before a failed message was taken up
\* again, so the lock is still held.
SenderHoldsLock ==
    \A w \in Worker : job[w].step \in {"send", "requeue"} => lock[job[w].event] = w

\* After send the message exists, unless the type of the event is unknown.
SentHasMessage ==
    \A w \in Worker :
        /\ job[w].step \in {"requeue", "reload", "publish"} => message[job[w].event] # "none"
        /\ At(w, "finish") => message[job[w].event] # "none" \/ job[w].event \in Unknown

IInv ==
    /\ TypeOK
    /\ JobHasEvent
    /\ LockIsHeld
    /\ SenderHoldsLock
    /\ SentHasMessage
    /\ DispatchedHasMessage
    /\ QueuedIsUnderway

LEMMA InvIsInitial == Init => IInv
    BY OutboxAssumption DEF Init, IInv, TypeOK, JobStep, DeliveryStatus, Idle, At, JobHasEvent,
        LockIsHeld, SenderHoldsLock, SentHasMessage, DispatchedHasMessage, QueuedIsUnderway

\* What a commit does to the row of the event, point by point.
LEMMA CommitEffect ==
    ASSUME TypeOK, NEW w \in Worker, NEW e \in Event,
           NEW s \in {"retrying", "dispatched", "failed"},
           Commit(w, e, s)
    PROVE  /\ status' \in [Event -> {"pending", "retrying", "dispatched", "failed"}]
           /\ attempts' \in [Event -> Nat]
           /\ due' \in [Event -> BOOLEAN]
           /\ lock' \in [Event -> Worker \cup {None}]
           /\ status'[e] = s
           /\ lock'[e] = IF lock[e] = w THEN None ELSE lock[e]
           /\ \A f \in Event \ {e} : status'[f] = status[f] /\ lock'[f] = lock[f]
<1>1. attempts' \in [Event -> Nat]
    BY DEF TypeOK, Commit
<1>2. /\ lock' \in [Event -> Worker \cup {None}]
      /\ lock'[e] = IF lock[e] = w THEN None ELSE lock[e]
      /\ \A f \in Event \ {e} : lock'[f] = lock[f]
    BY DEF TypeOK, Commit
<1>3. /\ status' \in [Event -> {"pending", "retrying", "dispatched", "failed"}]
      /\ due' \in [Event -> BOOLEAN]
      /\ status'[e] = s
      /\ \A f \in Event \ {e} : status'[f] = status[f]
    BY DEF TypeOK, Commit
<1> QED
    BY <1>1, <1>2, <1>3

\* What a job turns to next, point by point.
LEMMA GotoEffect ==
    ASSUME TypeOK, NEW w \in Worker, NEW s \in JobStep, NEW e \in Event \cup {0},
           NEW d \in DeliveryStatus,
           job' = [job EXCEPT ![w] = [step |-> s, event |-> e, seen |-> d]]
    PROVE  /\ job' \in [Worker -> [step : JobStep, event : Event \cup {0}, seen : DeliveryStatus]]
           /\ job'[w].step = s /\ job'[w].event = e /\ job'[w].seen = d
           /\ \A v \in Worker \ {w} : job'[v] = job[v]
<1>1. [step |-> s, event |-> e, seen |-> d]
        \in [step : JobStep, event : Event \cup {0}, seen : DeliveryStatus]
    OBVIOUS
<1> QED
    BY <1>1 DEF TypeOK

\* A step of the job w about its event e: it goes on to a step that fits what
\* has become of the lock and of the message, or ends.
LEMMA StepKeepsInv ==
    ASSUME IInv, TypeOK', NEW w \in Worker, NEW e \in Event,
           job[w].event = e, ~At(w, "idle"),
           \A v \in Worker \ {w} : job'[v] = job[v],
           \/ job'[w] = Idle
           \/ job'[w].event = e /\ job'[w].step \in {"requeue", "reload", "publish", "finish"},
           job'[w].step = "requeue" => lock'[e] = w,
           \A f \in Event \ {e} :
               /\ status'[f] = status[f] /\ lock'[f] = lock[f]
               /\ message'[f] = message[f] /\ queue'[f] = queue[f],
           lock'[e] \in {lock[e], None},
           lock'[e] = w => job'[w].step \in {"requeue", "publish", "finish"} /\ status'[e] = status[e],
           lock'[e] \notin {w, None} => status'[e] = status[e],
           lock[e] \notin {w, None} => lock'[e] = lock[e],
           status[e] = "dispatched" => status'[e] = "dispatched",
           status'[e] = "dispatched" => message'[e] # "none" \/ e \in Unknown,
           job'[w].step # "idle" =>
               message'[e] # "none" \/ (job'[w].step = "finish" /\ e \in Unknown),
           message[e] # "none" => message'[e] # "none",
           queue'[e] >= queue[e],
           message'[e] = "queued" /\ crashes = 0 =>
               \/ queue'[e] > 0
               \/ job'[w].step \in {"reload", "publish"}
               \/ message[e] = "queued" /\ job[w].step \notin {"reload", "publish"},
           crashes' = crashes
    PROVE  IInv'
<1> USE DEF At, Idle
<1>t. TypeOK
    BY DEF IInv
<1>1. JobHasEvent'
    BY DEF IInv, JobHasEvent
<1>2. LockIsHeld'
    <2> SUFFICES ASSUME NEW f \in Event, lock'[f] # None
                 PROVE  /\ job'[lock'[f]].event = f
                        /\ job'[lock'[f]].step \in {"send", "requeue", "publish", "finish"}
                        /\ status'[f] \in Open
        BY DEF LockIsHeld
    <2>1. lock'[f] = lock[f] /\ lock[f] \in Worker /\ status'[f] = status[f]
        BY <1>t DEF TypeOK
    <2>2. /\ job[lock[f]].event = f
          /\ job[lock[f]].step \in {"send", "requeue", "publish", "finish"}
          /\ status[f] \in Open
        BY <2>1 DEF IInv, LockIsHeld
    <2>3. CASE lock[f] = w
        BY <2>1, <2>2, <2>3
    <2>4. CASE lock[f] # w
        BY <2>1, <2>2, <2>4
    <2> QED
        BY <2>3, <2>4
<1>3. SenderHoldsLock'
    <2> SUFFICES ASSUME NEW v \in Worker, job'[v].step \in {"send", "requeue"}
                 PROVE  lock'[job'[v].event] = v
        BY DEF SenderHoldsLock
    <2>1. CASE v = w
        BY <2>1
    <2>2. CASE v # w
        <3>1. job'[v] = job[v]
            BY <2>2
        <3>2. job[v].event \in Event /\ lock[job[v].event] = v
            BY <3>1 DEF IInv, SenderHoldsLock, JobHasEvent
        <3>3. v \notin {w, None}
            BY <2>2, OutboxAssumption
        <3>4. lock'[job[v].event] = v
            BY <3>2, <3>3
        <3> QED
            BY <3>1, <3>4
    <2> QED
        BY <2>1, <2>2
<1>4. SentHasMessage'
    <2> SUFFICES ASSUME NEW v \in Worker
                 PROVE  /\ job'[v].step \in {"requeue", "reload", "publish"} =>
                               message'[job'[v].event] # "none"
                        /\ job'[v].step = "finish" =>
                               message'[job'[v].event] # "none" \/ job'[v].event \in Unknown
        BY DEF SentHasMessage
    <2>1. CASE v = w
        BY <2>1
    <2>2. CASE v # w
        <3>1. job'[v] = job[v]
            BY <2>2
        <3>2. job[v].event = e \/ message'[job[v].event] = message[job[v].event]
                \/ job[v].step = "idle"
            BY <2>2 DEF IInv, JobHasEvent
        <3> QED
            BY <3>1, <3>2 DEF IInv, SentHasMessage
    <2> QED
        BY <2>1, <2>2
<1>5. DispatchedHasMessage'
    BY DEF IInv, DispatchedHasMessage
<1>6. QueuedIsUnderway'
    <2> SUFFICES ASSUME crashes = 0, NEW f \in Event, message'[f] = "queued"
                 PROVE  \/ queue'[f] > 0
                        \/ \E v \in Worker : job'[v].event = f /\ job'[v].step \in {"reload", "publish"}
        BY DEF QueuedIsUnderway, Queued
    <2>1. CASE f # e
        BY <2>1 DEF IInv, QueuedIsUnderway, Queued
    <2>2. CASE f = e /\ job'[w].step \in {"reload", "publish"}
        BY <2>2
    <2>3. CASE f = e /\ message[e] = "queued" /\ job[w].step \notin {"reload", "publish"}
        <3>1. CASE queue[f] > 0
            BY <2>3, <3>1, <1>t DEF IInv, TypeOK
        <3>2. CASE ~(queue[f] > 0)
            <4>1. PICK v \in Worker : job[v].event = f /\ job[v].step \in {"reload", "publish"}
                BY <2>3, <3>2 DEF IInv, QueuedIsUnderway, Queued
            <4>2. v # w
                BY <2>3, <4>1
            <4> QED
                BY <4>1, <4>2
        <3> QED
            BY <3>1, <3>2
    <2> QED
        BY <2>1, <2>2, <2>3
<1> QED
    BY <1>1, <1>2, <1>3, <1>4, <1>5, <1>6 DEF IInv

\* A step that leaves the event row, the message and every job that is past
\* send alone, and takes no message that is shown as queued off the queue.
LEMMA OutsideKeepsInv ==
    ASSUME IInv, TypeOK', UNCHANGED <<status, lock, job>>,
           \A e \in Event : message[e] # "none" => message'[e] # "none",
           \A e \in Event : message'[e] = "queued" => message[e] = "queued" /\ queue'[e] = queue[e],
           crashes' = 0 => crashes = 0
    PROVE  IInv'
    BY DEF IInv, JobHasEvent, LockIsHeld, SenderHoldsLock, SentHasMessage, DispatchedHasMessage,
        QueuedIsUnderway, Queued, At

\* A publication writes the event only when its session still holds the lock.
LEMMA PublicationCommits ==
    ASSUME NEW w \in Worker, Publish(w) \/ PublishFails(w)
    PROVE  UNCHANGED event \/ (lock[job[w].event] = w /\ Commit(w, job[w].event, "retrying"))
<1>1. CASE Publish(w)
    BY <1>1 DEF Publish, CommitIfLocked, event
<1>2. CASE PublishFails(w)
    BY <1>2 DEF PublishFails, CommitIfLocked
<1> QED
    BY <1>1, <1>2

LEMMA InvIsInductive ==
    ASSUME IInv, [Next]_vars
    PROVE  IInv'
<1> USE DEF event, notification
<1>t. TypeOK
    BY DEF IInv
<1>e. ASSUME NEW w \in Worker, ~At(w, "idle")
      PROVE  /\ job[w].event \in Event
             /\ job[w].step \in JobStep /\ job[w].seen \in DeliveryStatus
             /\ w # None
             /\ lock[job[w].event] = w => status[job[w].event] \in Open
             /\ job[w].step \in {"send", "requeue"} => lock[job[w].event] = w
             /\ job[w].step \in {"requeue", "reload", "publish"} => message[job[w].event] # "none"
             /\ At(w, "finish") => message[job[w].event] # "none" \/ job[w].event \in Unknown
             /\ lock[job[w].event] = w => ~At(w, "reload")
    <2>1. w # None /\ job[w].event \in Event
        BY <1>e, OutboxAssumption DEF IInv, JobHasEvent
    <2>2. job[w].step \in JobStep /\ job[w].seen \in DeliveryStatus
        BY <1>t DEF TypeOK
    <2>3. lock[job[w].event] = w =>
            status[job[w].event] \in Open /\ job[w].step \in {"send", "requeue", "publish", "finish"}
        BY <2>1 DEF IInv, LockIsHeld
    <2>4. job[w].step \in {"send", "requeue"} => lock[job[w].event] = w
        BY DEF IInv, SenderHoldsLock
    <2>5. /\ job[w].step \in {"requeue", "reload", "publish"} => message[job[w].event] # "none"
          /\ At(w, "finish") => message[job[w].event] # "none" \/ job[w].event \in Unknown
        BY DEF IInv, SentHasMessage
    <2> QED
        BY <2>1, <2>2, <2>3, <2>4, <2>5 DEF At
<1>1. ASSUME NEW w \in Worker, Scan(w)
      PROVE  IInv'
    <2>1. TypeOK'
        BY <1>1, <1>t DEF Scan, TypeOK, Oldest
    <2> QED
        BY <1>1, <2>1, OutsideKeepsInv DEF Scan
<1>2. ASSUME NEW w \in Worker, Pick(w)
      PROVE  IInv'
    <2>1. PICK e \in Event :
            /\ batch' = [batch EXCEPT ![w] = @ \ {e}]
            /\ IF lock[e] # None \/ ~Eligible(e) THEN UNCHANGED <<lock, job>>
               ELSE lock' = [lock EXCEPT ![e] = w] /\ Goto(w, "send", e, "none")
        BY <1>2, <1>t DEF Pick, TypeOK
    <2>2. CASE UNCHANGED <<lock, job>>
        <3>1. TypeOK'
            BY <1>2, <1>t, <2>1, <2>2 DEF Pick, TypeOK
        <3> QED
            BY <1>2, <2>2, <3>1, OutsideKeepsInv DEF Pick
    <2>3. CASE /\ lock[e] = None /\ status[e] \in Open
               /\ lock' = [lock EXCEPT ![e] = w] /\ Goto(w, "send", e, "none")
        <3>1. /\ job' \in [Worker -> [step : JobStep, event : Event \cup {0}, seen : DeliveryStatus]]
              /\ job'[w].step = "send" /\ job'[w].event = e
              /\ \A v \in Worker \ {w} : job'[v] = job[v]
            BY <1>t, <2>3, GotoEffect DEF Goto, JobStep, DeliveryStatus
        <3>2. /\ lock' \in [Event -> Worker \cup {None}]
              /\ lock'[e] = w
              /\ \A f \in Event \ {e} : lock'[f] = lock[f]
            BY <1>t, <2>3 DEF TypeOK
        <3>3. TypeOK'
            BY <1>2, <1>t, <2>1, <3>1, <3>2 DEF Pick, TypeOK
        <3>i. job[w].step = "idle" /\ UNCHANGED <<status, message, queue, crashes>>
            BY <1>2 DEF Pick, At
        <3>4. JobHasEvent'
            BY <3>1 DEF IInv, JobHasEvent, At
        <3>5. LockIsHeld'
            BY <1>t, <2>3, <3>1, <3>2, <3>i DEF IInv, LockIsHeld, TypeOK
        <3>6. SenderHoldsLock'
            BY <2>3, <3>1, <3>2, OutboxAssumption DEF IInv, SenderHoldsLock, JobHasEvent, At
        <3>7. SentHasMessage'
            BY <3>1, <3>i DEF IInv, SentHasMessage, At
        <3>8. DispatchedHasMessage'
            BY <3>i DEF IInv, DispatchedHasMessage
        <3>9. QueuedIsUnderway'
            BY <3>1, <3>i DEF IInv, QueuedIsUnderway, Queued
        <3> QED
            BY <3>3, <3>4, <3>5, <3>6, <3>7, <3>8, <3>9 DEF IInv
    <2> QED
        BY <2>1, <2>2, <2>3 DEF Eligible

<1>3. ASSUME NEW w \in Worker, Refuse(w)
      PROVE  IInv'
    <2> DEFINE e == job[w].event
    <2>1. e \in Event /\ lock[e] = w /\ status[e] \in Open /\ job[w].step = "send"
        BY <1>3, <1>e DEF Refuse, At
    <2>2. AfterFailure(e) \in {"retrying", "dispatched", "failed"} /\ AfterFailure(e) # "dispatched"
        BY DEF AfterFailure
    <2>3. Commit(w, e, AfterFailure(e)) /\ UNCHANGED <<message, queue, crashes>>
        BY <1>3 DEF Refuse
    <2>4. /\ status' \in [Event -> {"pending", "retrying", "dispatched", "failed"}]
          /\ attempts' \in [Event -> Nat] /\ due' \in [Event -> BOOLEAN]
          /\ lock' \in [Event -> Worker \cup {None}]
          /\ status'[e] # "dispatched" /\ lock'[e] = None
          /\ \A f \in Event \ {e} : status'[f] = status[f] /\ lock'[f] = lock[f]
        BY <1>t, <2>1, <2>2, <2>3, CommitEffect
    <2>5. /\ job' \in [Worker -> [step : JobStep, event : Event \cup {0}, seen : DeliveryStatus]]
          /\ job'[w] = Idle /\ \A v \in Worker \ {w} : job'[v] = job[v]
        BY <1>3, <1>t DEF Refuse, Idle, TypeOK, JobStep, DeliveryStatus
    <2>6. TypeOK'
        BY <1>3, <1>t, <2>4, <2>5 DEF Refuse, TypeOK
    <2>7. /\ ~At(w, "idle") /\ job'[w].step = "idle"
          /\ queue'[e] >= queue[e] /\ message'[e] = message[e]
        BY <1>t, <2>1, <2>3, <2>5 DEF At, Idle, TypeOK
    <2>8. w # None
        BY OutboxAssumption
    <2> QED
        BY <2>1, <2>3, <2>4, <2>5, <2>6, <2>7, <2>8, StepKeepsInv DEF Open
<1>4. ASSUME NEW w \in Worker, Persist(w)
      PROVE  IInv'
    <2> DEFINE e == job[w].event
    <2>1. e \in Event /\ lock[e] = w /\ status[e] \in Open /\ job[w].step = "send"
        BY <1>4, <1>e DEF Persist, At
    <2>2. /\ Commit(w, e, "retrying") /\ UNCHANGED <<queue, crashes>>
          /\ message' = [message EXCEPT ![e] = "queued"]
          /\ delivery' = [delivery EXCEPT ![e] = "pending"]
          /\ job' = [job EXCEPT ![w] = [step |-> "publish", event |-> e, seen |-> "pending"]]
        BY <1>4 DEF Persist, Goto
    <2>3. /\ status' \in [Event -> {"pending", "retrying", "dispatched", "failed"}]
          /\ attempts' \in [Event -> Nat] /\ due' \in [Event -> BOOLEAN]
          /\ lock' \in [Event -> Worker \cup {None}]
          /\ status'[e] = "retrying" /\ lock'[e] = None
          /\ \A f \in Event \ {e} : status'[f] = status[f] /\ lock'[f] = lock[f]
        BY <1>t, <2>1, <2>2, CommitEffect
    <2>4. /\ job' \in [Worker -> [step : JobStep, event : Event \cup {0}, seen : DeliveryStatus]]
          /\ job'[w].step = "publish" /\ job'[w].event = e
          /\ \A v \in Worker \ {w} : job'[v] = job[v]
        BY <1>t, <2>1, <2>2, GotoEffect DEF JobStep, DeliveryStatus
    <2>5. /\ message' \in [Event -> {"none", "queued", "completed", "failed"}]
          /\ message'[e] = "queued" /\ \A f \in Event \ {e} : message'[f] = message[f]
        BY <1>t, <2>1, <2>2 DEF TypeOK
    <2>6. delivery' \in [Event -> DeliveryStatus]
        BY <1>t, <2>1, <2>2 DEF TypeOK, DeliveryStatus
    <2>7. TypeOK'
        BY <1>4, <1>t, <2>3, <2>4, <2>5, <2>6 DEF Persist, TypeOK
    <2>8. ~At(w, "idle") /\ queue'[e] >= queue[e]
        BY <1>t, <2>1, <2>2 DEF At, TypeOK
    <2>9. w # None
        BY OutboxAssumption
    <2> QED
        BY <2>1, <2>2, <2>3, <2>4, <2>5, <2>7, <2>8, <2>9, StepKeepsInv DEF Open
<1>5. ASSUME NEW w \in Worker, Reuse(w) \/ Reload(w)
      PROVE  IInv'
    <2> DEFINE e == job[w].event
    <2>1. /\ e \in Event /\ job[w].step \in {"send", "reload"} /\ message[e] # "none"
          /\ lock[e] = w => job[w].step = "send"
        BY <1>5, <1>e DEF Reuse, Reload, At
    <2>2. /\ UNCHANGED <<status, attempts, due, lock, message, delivery, queue, crashes>>
          /\ job' = [job EXCEPT ![w] = [step |-> "publish", event |-> e, seen |-> delivery[e]]]
        BY <1>5 DEF Reuse, Reload, Goto
    <2>3. delivery[e] \in DeliveryStatus
        BY <1>t, <2>1 DEF TypeOK
    <2>4. /\ job' \in [Worker -> [step : JobStep, event : Event \cup {0}, seen : DeliveryStatus]]
          /\ job'[w].step = "publish" /\ job'[w].event = e
          /\ \A v \in Worker \ {w} : job'[v] = job[v]
        BY <1>t, <2>1, <2>2, <2>3, GotoEffect DEF JobStep
    <2>5. TypeOK'
        BY <1>5, <1>t, <2>2, <2>4 DEF Reuse, Reload, TypeOK
    <2>6. status[e] = "dispatched" => message[e] # "none"
        BY <2>1
    <2> QED
        BY <1>t, <1>e, <2>1, <2>2, <2>4, <2>5, <2>6, StepKeepsInv DEF At, Open, TypeOK
<1>6. ASSUME NEW w \in Worker, Requeue(w)
      PROVE  IInv'
    <2> DEFINE e == job[w].event
    <2>1. e \in Event /\ lock[e] = w /\ status[e] \in Open /\ job[w].step = "requeue"
        BY <1>6, <1>e DEF Requeue, At
    <2>2. /\ Commit(w, e, "retrying") /\ UNCHANGED <<queue, crashes>>
          /\ message' = [message EXCEPT ![e] = "queued"]
          /\ delivery' = [delivery EXCEPT ![e] = "retrying"]
          /\ job' = [job EXCEPT ![w] = [step |-> "reload", event |-> e, seen |-> "none"]]
        BY <1>6 DEF Requeue, Goto
    <2>3. /\ status' \in [Event -> {"pending", "retrying", "dispatched", "failed"}]
          /\ attempts' \in [Event -> Nat] /\ due' \in [Event -> BOOLEAN]
          /\ lock' \in [Event -> Worker \cup {None}]
          /\ status'[e] = "retrying" /\ lock'[e] = None
          /\ \A f \in Event \ {e} : status'[f] = status[f] /\ lock'[f] = lock[f]
        BY <1>t, <2>1, <2>2, CommitEffect
    <2>4. /\ job' \in [Worker -> [step : JobStep, event : Event \cup {0}, seen : DeliveryStatus]]
          /\ job'[w].step = "reload" /\ job'[w].event = e
          /\ \A v \in Worker \ {w} : job'[v] = job[v]
        BY <1>t, <2>1, <2>2, GotoEffect DEF JobStep, DeliveryStatus
    <2>5. /\ message' \in [Event -> {"none", "queued", "completed", "failed"}]
          /\ message'[e] = "queued" /\ \A f \in Event \ {e} : message'[f] = message[f]
        BY <1>t, <2>1, <2>2 DEF TypeOK
    <2>6. delivery' \in [Event -> DeliveryStatus] /\ undone' \in [Event -> Nat]
        BY <1>6, <1>t, <2>1, <2>2 DEF Requeue, TypeOK, DeliveryStatus
    <2>7. TypeOK'
        BY <1>6, <1>t, <2>3, <2>4, <2>5, <2>6 DEF Requeue, TypeOK
    <2>8. ~At(w, "idle") /\ queue'[e] >= queue[e]
        BY <1>t, <2>1, <2>2 DEF At, TypeOK
    <2>9. w # None
        BY OutboxAssumption
    <2> QED
        BY <2>1, <2>2, <2>3, <2>4, <2>5, <2>7, <2>8, <2>9, StepKeepsInv DEF Open
<1>15. ASSUME NEW w \in Worker, Ignore(w) \/ LoadFailed(w)
       PROVE  IInv'
    <2> DEFINE e == job[w].event
    <2>1. e \in Event /\ lock[e] = w /\ status[e] \in Open /\ job[w].step = "send"
        BY <1>15, <1>e DEF Ignore, LoadFailed, At
    <2>2. PICK s \in {"requeue", "finish"}, d \in DeliveryStatus :
            /\ job' = [job EXCEPT ![w] = [step |-> s, event |-> e, seen |-> d]]
            /\ s = "requeue" => message[e] # "none"
            /\ s = "finish" => e \in Unknown
        <3>1. delivery[e] \in DeliveryStatus /\ "none" \in DeliveryStatus
            BY <1>t, <2>1 DEF TypeOK, DeliveryStatus
        <3> QED
            BY <1>15, <3>1 DEF Ignore, LoadFailed, Goto
    <2>3. UNCHANGED <<status, attempts, due, lock, message, delivery, queue, told, undone,
                      batch, replays, crashes>>
        BY <1>15 DEF Ignore, LoadFailed
    <2>4. /\ job' \in [Worker -> [step : JobStep, event : Event \cup {0}, seen : DeliveryStatus]]
          /\ job'[w].step = s /\ job'[w].event = e
          /\ \A v \in Worker \ {w} : job'[v] = job[v]
        BY <1>t, <2>1, <2>2, GotoEffect DEF JobStep
    <2>5. TypeOK'
        BY <1>t, <2>3, <2>4 DEF TypeOK
    <2>6. /\ ~At(w, "idle") /\ queue'[e] >= queue[e]
          /\ status'[e] # "dispatched" /\ status[e] # "dispatched"
        BY <1>t, <2>1, <2>3 DEF At, Open, TypeOK
    <2> QED
        BY <2>1, <2>2, <2>3, <2>4, <2>5, <2>6, StepKeepsInv
<1>7. ASSUME NEW w \in Worker, Publish(w) \/ PublishFails(w)
      PROVE  IInv'
    <2> DEFINE e == job[w].event
    <2>1. /\ e \in Event /\ job[w].step = "publish" /\ message[e] # "none"
          /\ lock[e] = w => status[e] \in Open
          /\ job[w].seen \in DeliveryStatus
        BY <1>7, <1>e DEF Publish, PublishFails, At
    <2>2. /\ crashes' = crashes
          /\ job' = [job EXCEPT ![w] = [step |-> "finish", event |-> e, seen |-> job[w].seen]]
          /\ UNCHANGED event \/ (lock[e] = w /\ Commit(w, e, "retrying"))
        <3>1. /\ crashes' = crashes
              /\ job' = [job EXCEPT ![w] = [step |-> "finish", event |-> e, seen |-> job[w].seen]]
            BY <1>7 DEF Publish, PublishFails, Goto
        <3> QED
            BY <1>7, <3>1, PublicationCommits
    <2>3. /\ job' \in [Worker -> [step : JobStep, event : Event \cup {0}, seen : DeliveryStatus]]
          /\ job'[w].step = "finish" /\ job'[w].event = e
          /\ \A v \in Worker \ {w} : job'[v] = job[v]
        BY <1>t, <2>1, <2>2, GotoEffect DEF JobStep
    <2>4. /\ status' \in [Event -> {"pending", "retrying", "dispatched", "failed"}]
          /\ attempts' \in [Event -> Nat] /\ due' \in [Event -> BOOLEAN]
          /\ lock' \in [Event -> Worker \cup {None}]
          /\ \/ status'[e] = status[e] /\ lock'[e] = lock[e]
             \/ status[e] \in Open /\ status'[e] = "retrying" /\ lock[e] = w /\ lock'[e] = None
          /\ \A f \in Event \ {e} : status'[f] = status[f] /\ lock'[f] = lock[f]
        <3>1. CASE UNCHANGED event
            BY <1>t, <3>1 DEF TypeOK
        <3>2. CASE lock[e] = w /\ Commit(w, e, "retrying")
            BY <1>t, <2>1, <3>2, CommitEffect
        <3> QED
            BY <2>2, <3>1, <3>2
    <2>5. /\ queue' \in [Event -> Nat] /\ queue'[e] >= queue[e]
          /\ \A f \in Event \ {e} : message'[f] = message[f] /\ queue'[f] = queue[f]
          /\ message' \in [Event -> {"none", "queued", "completed", "failed"}]
          /\ message'[e] # "none"
          /\ message'[e] = "queued" => queue'[e] > 0
        <3>1. CASE Publish(w)
            BY <1>t, <2>1, <3>1 DEF Publish, TypeOK
        <3>2. CASE PublishFails(w)
            BY <1>t, <2>1, <3>2 DEF PublishFails, TypeOK
        <3> QED
            BY <1>7, <3>1, <3>2
    <2>8. undone' \in [Event -> Nat]
        <3>1. CASE Publish(w)
            BY <1>t, <3>1 DEF Publish, TypeOK
        <3>2. CASE PublishFails(w)
            BY <1>t, <2>1, <3>2 DEF PublishFails, TypeOK
        <3> QED
            BY <1>7, <3>1, <3>2
    <2>6. TypeOK'
        <3>1. CASE Publish(w)
            BY <1>t, <2>3, <2>4, <2>5, <2>8, <3>1 DEF Publish, TypeOK
        <3>2. CASE PublishFails(w)
            BY <1>t, <2>3, <2>4, <2>5, <2>8, <3>2 DEF PublishFails, TypeOK, DeliveryStatus
        <3> QED
            BY <1>7, <3>1, <3>2
    <2>7. ~At(w, "idle") /\ job[w].event = e /\ w # None
        BY <2>1, OutboxAssumption DEF At
    <2> QED
        BY <2>1, <2>2, <2>3, <2>4, <2>5, <2>6, <2>7, StepKeepsInv DEF Open
<1>8. ASSUME NEW w \in Worker, Finish(w)
      PROVE  IInv'
    <2> DEFINE e == job[w].event
    <2>1. /\ e \in Event /\ job[w].step = "finish" /\ (message[e] # "none" \/ e \in Unknown)
          /\ lock[e] \in {None, w} /\ w # None
        BY <1>8, <1>e DEF Finish, At
    <2>2. Commit(w, e, "dispatched") /\ UNCHANGED <<message, queue, crashes>>
        BY <1>8 DEF Finish
    <2>3. /\ status' \in [Event -> {"pending", "retrying", "dispatched", "failed"}]
          /\ attempts' \in [Event -> Nat] /\ due' \in [Event -> BOOLEAN]
          /\ lock' \in [Event -> Worker \cup {None}]
          /\ status'[e] = "dispatched" /\ lock'[e] = None
          /\ \A f \in Event \ {e} : status'[f] = status[f] /\ lock'[f] = lock[f]
        BY <1>t, <2>1, <2>2, CommitEffect
    <2>4. /\ job' \in [Worker -> [step : JobStep, event : Event \cup {0}, seen : DeliveryStatus]]
          /\ job'[w] = Idle /\ \A v \in Worker \ {w} : job'[v] = job[v]
        BY <1>8, <1>t DEF Finish, Idle, TypeOK, JobStep, DeliveryStatus
    <2>5. TypeOK'
        BY <1>8, <1>t, <2>3, <2>4 DEF Finish, TypeOK
    <2>6. /\ ~At(w, "idle") /\ job'[w].step = "idle"
          /\ queue'[e] >= queue[e] /\ message'[e] = message[e]
        BY <1>t, <2>1, <2>2, <2>4 DEF At, Idle, TypeOK
    <2> QED
        BY <2>1, <2>2, <2>3, <2>4, <2>5, <2>6, StepKeepsInv
<1>9. ASSUME NEW w \in Worker, Crash(w)
      PROVE  IInv'
    <2>1. /\ crashes' = crashes + 1 /\ UNCHANGED <<status, message>>
          /\ lock' = [e \in Event |-> IF lock[e] = w THEN None ELSE lock[e]]
          /\ job' = [job EXCEPT ![w] = Idle]
        BY <1>9 DEF Crash
    <2>2. /\ job' \in [Worker -> [step : JobStep, event : Event \cup {0}, seen : DeliveryStatus]]
          /\ job'[w].step = "idle" /\ \A v \in Worker \ {w} : job'[v] = job[v]
        BY <2>1, <1>t DEF Idle, TypeOK, JobStep, DeliveryStatus
    <2>3. TypeOK'
        BY <1>9, <1>t, <2>1, <2>2 DEF Crash, TypeOK
    <2>4. JobHasEvent'
        BY <2>2 DEF IInv, JobHasEvent, At
    <2>5. LockIsHeld'
        BY <1>t, <2>1, <2>2 DEF IInv, LockIsHeld, TypeOK
    <2>6. SenderHoldsLock'
        BY <2>1, <2>2 DEF IInv, SenderHoldsLock, JobHasEvent, At
    <2>7. SentHasMessage' /\ DispatchedHasMessage'
        BY <2>1, <2>2 DEF IInv, SentHasMessage, DispatchedHasMessage, At
    <2>8. QueuedIsUnderway'
        BY <1>t, <2>1 DEF QueuedIsUnderway, TypeOK
    <2> QED
        BY <2>3, <2>4, <2>5, <2>6, <2>7, <2>8 DEF IInv
<1>10. ASSUME NEW e \in Event, Deliver(e)
       PROVE  IInv'
    <2>1. /\ message' \in [Event -> {"none", "queued", "completed", "failed"}]
          /\ message'[e] \in {"completed", "failed"}
          /\ \A f \in Event \ {e} : message'[f] = message[f] /\ queue'[f] = queue[f]
        BY <1>10, <1>t DEF Deliver, TypeOK
    <2>2. /\ queue' \in [Event -> Nat] /\ delivery' \in [Event -> DeliveryStatus]
          /\ told' \in [Event -> Nat]
        BY <1>10, <1>t DEF Deliver, Queued, TypeOK, DeliveryStatus
    <2>3. TypeOK'
        BY <1>10, <1>t, <2>1, <2>2 DEF Deliver, TypeOK
    <2> QED
        BY <1>10, <2>1, <2>3, OutsideKeepsInv DEF Deliver
<1>11. ASSUME NEW e \in Event, DeliverCrash(e)
       PROVE  IInv'
    <2>1. TypeOK'
        BY <1>11, <1>t DEF DeliverCrash, TypeOK
    <2>2. crashes' # 0
        BY <1>11, <1>t DEF DeliverCrash, TypeOK
    <2> QED
        BY <1>11, <2>1, <2>2, OutsideKeepsInv DEF DeliverCrash
<1>12. ASSUME NEW e \in Event, BecomesDue(e)
       PROVE  IInv'
    <2>1. TypeOK'
        BY <1>12, <1>t DEF BecomesDue, TypeOK
    <2> QED
        BY <1>12, <2>1, OutsideKeepsInv DEF BecomesDue
<1>13. ASSUME NEW e \in Event, Replay(e)
       PROVE  IInv'
    <2>1. TypeOK'
        BY <1>13, <1>t DEF Replay, TypeOK
    <2>2. /\ UNCHANGED <<lock, message, queue, job, crashes>>
          /\ status'[e] = "retrying" /\ \A f \in Event \ {e} : status'[f] = status[f]
        BY <1>13, <1>t DEF Replay, TypeOK
    <2> QED
        BY <1>t, <2>1, <2>2 DEF IInv, JobHasEvent, LockIsHeld, SenderHoldsLock, SentHasMessage,
            DispatchedHasMessage, QueuedIsUnderway, Queued, At, Open, TypeOK
<1>14. CASE UNCHANGED vars
    BY <1>14 DEF vars, IInv, TypeOK, JobHasEvent, LockIsHeld, SenderHoldsLock, SentHasMessage,
        DispatchedHasMessage, QueuedIsUnderway, Queued, At
<1> QED
    BY <1>1, <1>2, <1>3, <1>4, <1>5, <1>6, <1>7, <1>8, <1>9, <1>10, <1>11, <1>12, <1>13, <1>14,
       <1>15 DEF Next, Step

LEMMA InvHolds == Spec => []IInv
    BY InvIsInitial, InvIsInductive, PTL DEF Spec

\* The state of events, messages and jobs has the shape of the tables.
THEOREM OutboxTypeCorrect == Spec => []TypeOK
    BY InvHolds, PTL DEF IInv

\* Whoever dies between the commits of the message and of the event, an event
\* is dispatched only when its message exists.
THEOREM DispatchedHaveMessages == Spec => []DispatchedHasMessage
    BY InvHolds, PTL DEF IInv

\* While no process dies, however many jobs overlap and whatever publications
\* fail, a message that is shown as queued will still be worked on.
THEOREM QueuedAreUnderway == Spec => []QueuedIsUnderway
    BY InvHolds, PTL DEF IInv

-----------------------------------------------------------------------------
(* A dispatched event is final *)

\* A dispatched event is not locked, so no attempt, failure or replay of it is
\* under way that could write another status.
LEMMA StepKeepsDispatched ==
    ASSUME IInv, [Next]_vars, NEW e \in Event, status[e] = "dispatched"
    PROVE  status'[e] = "dispatched"
<1> USE DEF event, notification
<1>t. TypeOK
    BY DEF IInv
<1>l. \A w \in Worker : lock[e] # w
    BY OutboxAssumption DEF IInv, LockIsHeld, Open
<1>1. ASSUME NEW w \in Worker, Step(w)
      PROVE  status'[e] = "dispatched"
    <2> DEFINE f == job[w].event
    <2>1. CASE Scan(w) \/ Pick(w) \/ Ignore(w) \/ Reuse(w) \/ LoadFailed(w) \/ Reload(w)
        BY <2>1 DEF Scan, Pick, Ignore, Reuse, LoadFailed, Reload
    <2>2. CASE Refuse(w) \/ Persist(w) \/ Requeue(w)
        <3>1. f # e
            BY <2>2, <1>l DEF Refuse, Persist, Requeue, IInv, SenderHoldsLock, At
        <3> QED
            BY <1>t, <2>2, <3>1 DEF Refuse, Persist, Requeue, Commit, TypeOK
    <2>3. CASE Publish(w) \/ PublishFails(w)
        <3>1. UNCHANGED event \/ (lock[f] = w /\ Commit(w, f, "retrying"))
            BY <2>3, PublicationCommits
        <3> QED
            BY <1>t, <3>1, <1>l DEF Commit, TypeOK
    <2>4. CASE Finish(w)
        BY <2>4, <1>t DEF Finish, Commit, TypeOK
    <2> QED
        BY <1>1, <2>1, <2>2, <2>3, <2>4 DEF Step
<1>2. ASSUME NEW w \in Worker, Crash(w)
      PROVE  status'[e] = "dispatched"
    BY <1>2 DEF Crash
<1>3. ASSUME NEW f \in Event, Deliver(f) \/ DeliverCrash(f) \/ BecomesDue(f) \/ Replay(f)
      PROVE  status'[e] = "dispatched"
    BY <1>3, <1>t DEF Deliver, DeliverCrash, BecomesDue, Replay, TypeOK
<1>4. CASE UNCHANGED vars
    BY <1>4 DEF vars
<1> QED
    BY <1>1, <1>2, <1>3, <1>4 DEF Next

\* No overlapping job, late failure or administrator puts a dispatched event
\* back among the open ones.
THEOREM DispatchedEventsStay == Spec => DispatchedIsFinal
<1>1. IInv /\ [Next]_vars
        => [\A e \in Event : status[e] = "dispatched" => status'[e] = "dispatched"]_vars
    BY StepKeepsDispatched
<1> QED
    BY <1>1, InvHolds, PTL DEF Spec, DispatchedIsFinal

-----------------------------------------------------------------------------
(* How often the recipient is told *)

\* What was told is on record in the delivery, or was told by a process that died, or the record
\* of it was written over.  A message that does not exist has no delivery.
Accounted(e) ==
    /\ told[e] <= crashes + undone[e] + (IF delivery[e] = "sent" THEN 1 ELSE 0)
    /\ message[e] = "none" => delivery[e] # "sent"

ToldInv == \A e \in Event : Accounted(e)

\* A step that is about one event.
LEMMA OneEventKeepsToldInv ==
    ASSUME TypeOK, ToldInv, NEW e \in Event, Accounted(e)', crashes' \in Nat, crashes' >= crashes,
           \A f \in Event \ {e} : /\ told'[f] = told[f] /\ undone'[f] = undone[f]
                                  /\ delivery'[f] = delivery[f] /\ message'[f] = message[f]
    PROVE  ToldInv'
<1> SUFFICES ASSUME NEW f \in Event, f # e PROVE Accounted(f)'
    BY DEF ToldInv
<1>1. /\ told[f] \in Nat /\ undone[f] \in Nat /\ crashes \in Nat
      /\ told'[f] = told[f] /\ undone'[f] = undone[f]
      /\ delivery'[f] = delivery[f] /\ message'[f] = message[f]
    BY DEF TypeOK
<1> QED
    BY <1>1 DEF ToldInv, Accounted

LEMMA SameTellingKeepsToldInv ==
    ASSUME TypeOK, ToldInv, UNCHANGED <<told, undone, delivery, message>>,
           crashes' \in Nat, crashes' >= crashes
    PROVE  ToldInv'
<1> SUFFICES ASSUME NEW f \in Event PROVE Accounted(f)'
    BY DEF ToldInv
<1>1. told[f] \in Nat /\ undone[f] \in Nat /\ crashes \in Nat
    BY DEF TypeOK
<1> QED
    BY <1>1 DEF ToldInv, Accounted

LEMMA StepKeepsToldInv ==
    ASSUME IInv, ToldInv, NEW w \in Worker, Step(w)
    PROVE  ToldInv'
<1>e. PICK e : e = job[w].event
    OBVIOUS
<1>t. TypeOK /\ crashes \in Nat /\ crashes >= crashes
    BY DEF IInv, TypeOK
<1>1. ASSUME ~At(w, "idle")
      PROVE  /\ e \in Event /\ Accounted(e) /\ told[e] \in Nat /\ undone[e] \in Nat
             /\ At(w, "publish") => message[e] # "none"
    BY <1>e, <1>1 DEF At, IInv, TypeOK, JobHasEvent, SentHasMessage, ToldInv
<1>2. CASE \/ Scan(w) \/ Pick(w) \/ Refuse(w) \/ Ignore(w) \/ Reuse(w) \/ LoadFailed(w)
           \/ Reload(w) \/ Finish(w)
    BY <1>t, <1>2, SameTellingKeepsToldInv
       DEF Scan, Pick, Refuse, Ignore, Reuse, LoadFailed, Reload, Finish, notification
<1>3. CASE Persist(w)
  <2>1. /\ UNCHANGED <<told, undone, crashes>> /\ message[e] = "none" /\ job[w].step = "send"
        /\ message' = [message EXCEPT ![e] = "queued"]
        /\ delivery' = [delivery EXCEPT ![e] = "pending"]
    BY <1>e, <1>3 DEF Persist, At
  <2>2. e \in Event /\ Accounted(e) /\ told[e] \in Nat /\ undone[e] \in Nat
    BY <1>1, <2>1 DEF At
  <2>3. delivery'[e] = "pending" /\ message'[e] = "queued"
    BY <1>t, <2>1, <2>2 DEF TypeOK
  <2>4. Accounted(e)'
    BY <2>1, <2>2, <2>3 DEF Accounted
  <2>5. \A f \in Event \ {e} : delivery'[f] = delivery[f] /\ message'[f] = message[f]
    BY <1>t, <2>1 DEF TypeOK
  <2> QED
    BY <1>t, <2>1, <2>2, <2>4, <2>5, OneEventKeepsToldInv
\* A delivery that was sent is written over, and counted.
<1>4. CASE Requeue(w)
  <2>1. /\ UNCHANGED <<told, crashes>> /\ job[w].step = "requeue"
        /\ message' = [message EXCEPT ![e] = "queued"]
        /\ delivery' = [delivery EXCEPT ![e] = "retrying"]
        /\ undone' = IF Overwritten(e) THEN [undone EXCEPT ![e] = @ + 1] ELSE undone
    BY <1>e, <1>4 DEF Requeue, At
  <2>2. e \in Event /\ Accounted(e) /\ told[e] \in Nat /\ undone[e] \in Nat
    BY <1>1, <2>1 DEF At
  <2>3. /\ delivery'[e] = "retrying" /\ message'[e] = "queued"
        /\ undone'[e] = IF delivery[e] = "sent" THEN undone[e] + 1 ELSE undone[e]
    BY <1>t, <2>1, <2>2 DEF TypeOK, Overwritten
  <2>4. Accounted(e)'
    BY <1>t, <2>1, <2>2, <2>3 DEF Accounted
  <2>5. \A f \in Event \ {e} : /\ delivery'[f] = delivery[f] /\ message'[f] = message[f]
                               /\ undone'[f] = undone[f]
    BY <1>t, <2>1 DEF TypeOK
  <2> QED
    BY <1>t, <2>1, <2>2, <2>4, <2>5, OneEventKeepsToldInv
<1>5. CASE Publish(w)
  <2>1. /\ UNCHANGED <<told, undone, crashes, delivery>> /\ job[w].step = "publish"
        /\ (message' = [message EXCEPT ![e] = "completed"] \/ message' = message)
    BY <1>e, <1>5 DEF Publish, At
  <2>2. /\ e \in Event /\ Accounted(e) /\ told[e] \in Nat /\ undone[e] \in Nat
        /\ message[e] # "none"
    BY <1>1, <2>1 DEF At
  <2>3. message'[e] # "none" /\ \A f \in Event \ {e} : message'[f] = message[f]
    BY <1>t, <2>1, <2>2 DEF TypeOK
  <2>4. Accounted(e)'
    BY <2>1, <2>2, <2>3 DEF Accounted
  <2> QED
    BY <1>t, <2>1, <2>2, <2>3, <2>4, OneEventKeepsToldInv
\* A delivery that was sent is written over, and counted.
<1>6. CASE PublishFails(w)
  <2>1. /\ UNCHANGED <<told, crashes>> /\ job[w].step = "publish"
        /\ message' = [message EXCEPT ![e] = "failed"]
        /\ (delivery' = delivery \/ delivery' = [delivery EXCEPT ![e] = "failed"])
        /\ undone' = IF Overwritten(e) THEN [undone EXCEPT ![e] = @ + 1] ELSE undone
    BY <1>e, <1>6 DEF PublishFails, At
  <2>2. e \in Event /\ Accounted(e) /\ told[e] \in Nat /\ undone[e] \in Nat
    BY <1>1, <2>1 DEF At
  <2>3. /\ message'[e] = "failed"
        /\ (delivery'[e] = delivery[e] \/ delivery'[e] = "failed")
        /\ undone'[e] = IF Overwritten(e) THEN undone[e] + 1 ELSE undone[e]
    BY <1>t, <2>1, <2>2 DEF TypeOK
  <2>4. Accounted(e)'
    BY <1>t, <2>1, <2>2, <2>3 DEF Accounted, Overwritten
  <2>5. \A f \in Event \ {e} : /\ delivery'[f] = delivery[f] /\ message'[f] = message[f]
                               /\ undone'[f] = undone[f]
    BY <1>t, <2>1 DEF TypeOK
  <2> QED
    BY <1>t, <2>1, <2>2, <2>4, <2>5, OneEventKeepsToldInv
<1> QED
    BY <1>2, <1>3, <1>4, <1>5, <1>6 DEF Step

\* The consumer tells, and writes it down or dies.
LEMMA DeliveryKeepsToldInv ==
    ASSUME IInv, ToldInv, NEW e \in Event, Deliver(e) \/ DeliverCrash(e)
    PROVE  ToldInv'
<1>1. TypeOK /\ crashes \in Nat /\ told[e] \in Nat /\ undone[e] \in Nat /\ Accounted(e)
    BY DEF IInv, TypeOK, ToldInv
<1>2. CASE Deliver(e)
  <2>1. UNCHANGED <<undone, crashes>>
    BY <1>2 DEF Deliver
  <2>2. CASE /\ Skipped(e) /\ message' = [message EXCEPT ![e] = "completed"]
             /\ UNCHANGED <<delivery, told>>
    <3>1. message'[e] = "completed" /\ \A f \in Event \ {e} : message'[f] = message[f]
      BY <1>1, <2>2 DEF TypeOK
    <3>2. Accounted(e)'
      BY <1>1, <2>1, <2>2, <3>1 DEF Accounted
    <3> QED
      BY <1>1, <2>1, <2>2, <3>1, <3>2, OneEventKeepsToldInv
  <2>3. CASE /\ ~Skipped(e) /\ message' = [message EXCEPT ![e] = "completed"]
             /\ delivery' = [delivery EXCEPT ![e] = "sent"]
             /\ told' = [told EXCEPT ![e] = @ + 1]
    <3>1. message'[e] = "completed" /\ delivery'[e] = "sent" /\ told'[e] = told[e] + 1
      BY <1>1, <2>3 DEF TypeOK
    <3>2. \A f \in Event \ {e} : /\ message'[f] = message[f] /\ delivery'[f] = delivery[f]
                                 /\ told'[f] = told[f]
      BY <1>1, <2>3 DEF TypeOK
    <3>3. Accounted(e)'
      BY <1>1, <2>1, <2>3, <3>1 DEF Accounted, Skipped
    <3> QED
      BY <1>1, <2>1, <3>2, <3>3, OneEventKeepsToldInv
  <2>4. CASE /\ ~Skipped(e) /\ message' = [message EXCEPT ![e] = "failed"]
             /\ delivery' = [delivery EXCEPT ![e] = "failed"] /\ UNCHANGED told
    <3>1. message'[e] = "failed" /\ delivery'[e] = "failed"
      BY <1>1, <2>4 DEF TypeOK
    <3>2. \A f \in Event \ {e} : message'[f] = message[f] /\ delivery'[f] = delivery[f]
      BY <1>1, <2>4 DEF TypeOK
    <3>3. Accounted(e)'
      BY <1>1, <2>1, <2>4, <3>1 DEF Accounted, Skipped
    <3> QED
      BY <1>1, <2>1, <2>4, <3>2, <3>3, OneEventKeepsToldInv
  <2> QED
    BY <1>2, <2>2, <2>3, <2>4 DEF Deliver
<1>3. CASE DeliverCrash(e)
  <2>1. /\ UNCHANGED <<undone, message, delivery>> /\ crashes' = crashes + 1
        /\ told' = [told EXCEPT ![e] = @ + 1]
    BY <1>3 DEF DeliverCrash, notification
  <2>2. told'[e] = told[e] + 1 /\ \A f \in Event \ {e} : told'[f] = told[f]
    BY <1>1, <2>1 DEF TypeOK
  <2>3. Accounted(e)'
    BY <1>1, <2>1, <2>2 DEF Accounted
  <2> QED
    BY <1>1, <2>1, <2>2, <2>3, OneEventKeepsToldInv
<1> QED
    BY <1>2, <1>3

\* The recipient is told again only because a process died between telling it and its commit or
\* because a job has written over what was sent since it read the delivery: a publication that
\* failed, or a failed message that is taken up again (process_notification_message_payload,
\* _publish).
THEOREM RepeatsHaveCauses == Spec => []EveryRepeatHasACause
<1>1. Init => ToldInv
    BY DEF Init, ToldInv, Accounted
<1>2. IInv /\ ToldInv /\ [Next]_vars => ToldInv'
  <2> SUFFICES ASSUME IInv, ToldInv, [Next]_vars PROVE ToldInv'
    OBVIOUS
  <2>1. TypeOK /\ crashes \in Nat /\ crashes + 1 \in Nat /\ crashes + 1 >= crashes
        /\ crashes >= crashes
    BY DEF IInv, TypeOK
  <2>2. ASSUME NEW w \in Worker, Crash(w) PROVE ToldInv'
    BY <2>1, <2>2, SameTellingKeepsToldInv DEF Crash, notification
  <2>3. ASSUME NEW e \in Event, BecomesDue(e) \/ Replay(e) PROVE ToldInv'
    BY <2>1, <2>3, SameTellingKeepsToldInv DEF BecomesDue, Replay, notification
  <2>4. CASE UNCHANGED vars
    BY <2>1, <2>4, SameTellingKeepsToldInv DEF vars, notification
  <2> QED
    BY <2>2, <2>3, <2>4, StepKeepsToldInv, DeliveryKeepsToldInv DEF Next
<1>3. IInv /\ ToldInv => EveryRepeatHasACause
  <2> SUFFICES ASSUME IInv, ToldInv, NEW e \in Event PROVE told[e] <= 1 + crashes + undone[e]
    BY DEF EveryRepeatHasACause
  <2>1. told[e] \in Nat /\ undone[e] \in Nat /\ crashes \in Nat /\ Accounted(e)
    BY DEF IInv, TypeOK, ToldInv
  <2> QED
    BY <2>1 DEF Accounted
<1> QED
    BY <1>1, <1>2, <1>3, InvHolds, PTL DEF Spec
=============================================================================
