------------------------------- MODULE Outbox -------------------------------
(***************************************************************************)
(* The delivery of workflow_outbox_events: the scan of                     *)
(* backend/app/workers/workflow_outbox_worker.py, the message it persists  *)
(* and publishes through NotificationService, the consumer of the queue    *)
(* and the manual replay of a failed event.                                *)
(*                                                                         *)
(* The worker is a cron job that starts every 30 seconds and may overlap   *)
(* with the one before; a Worker is one such job.  It handles each event   *)
(* in a session of its own, under a row lock (lock) until the first commit *)
(* of that session.  The message it creates is committed BEFORE it is      *)
(* published, so from there on only the lease (due = FALSE) keeps the next *)
(* scan away from the event.  One delivery stands for the channels of a    *)
(* message.                                                                *)
(***************************************************************************)
EXTENDS Naturals, FiniteSets

CONSTANTS
    Event,          \* numbered in the order of created_at
    Incomplete,     \* events whose payload names no recipient
    Unknown,        \* events of a type the worker does not know
    Worker,
    None,           \* no worker
    BatchSize,      \* BATCH_SIZE (50)
    MaxAttempts,    \* MAX_ATTEMPTS (5)
    MaxReplays,     \* bound on manual replays
    MaxCrashes      \* bound on the processes that die

ASSUME OutboxAssumption ==
    /\ Event \subseteq Nat \ {0}
    /\ Incomplete \subseteq Event
    /\ Unknown \subseteq Event \ Incomplete
    /\ None \notin Worker
    /\ BatchSize \in Nat \ {0}
    /\ MaxAttempts \in Nat \ {0}
    /\ MaxReplays \in Nat
    /\ MaxCrashes \in Nat

VARIABLES
    status,     \* status[e] of the event
    attempts,   \* attempts[e]: attempt_count
    due,        \* due[e]: available_at has passed
    lock,       \* lock[e]: the session that holds the row FOR UPDATE, or None
    message,    \* message[e]: status of the notification message, or "none"
    delivery,   \* delivery[e]: status of its delivery, or "none"
    queue,      \* queue[e]: jobs in Redis that will deliver the message
    told,       \* told[e]: how often the recipient got the notification
    batch,      \* batch[w]: scanned events the job still has to handle
    job,        \* job[w]: the event in hand, the step and the delivery it read
    undone,     \* history: undone[e]: deliveries that were sent and then written over by a job that
                \* had read them before
    replays,    \* manual replays so far
    crashes     \* processes that died so far

event == <<status, attempts, due, lock>>
notification == <<message, delivery>>
vars == <<event, notification, queue, told, undone, batch, job, replays, crashes>>

Open == {"pending", "retrying"}

At(w, step) == job[w].step = step
Idle == [step |-> "idle", event |-> 0, seen |-> "none"]
Goto(w, step, e, seen) ==
    job' = [job EXCEPT ![w] = [step |-> step, event |-> e, seen |-> seen]]

Init ==
    /\ status = [e \in Event |-> "pending"]
    /\ attempts = [e \in Event |-> 0]
    /\ due = [e \in Event |-> TRUE]
    /\ lock = [e \in Event |-> None]
    /\ message = [e \in Event |-> "none"]
    /\ delivery = [e \in Event |-> "none"]
    /\ queue = [e \in Event |-> 0]
    /\ told = [e \in Event |-> 0]
    /\ undone = [e \in Event |-> 0]
    /\ batch = [w \in Worker |-> {}]
    /\ job = [w \in Worker |-> Idle]
    /\ replays = 0
    /\ crashes = 0

-----------------------------------------------------------------------------
(* The job: scan, then one session per event *)

\* The oldest BatchSize members of S.
Oldest(S) == {e \in S : Cardinality({f \in S : f < e}) < BatchSize}

\* Faulty variant: only events nobody has tried yet.
Scannable_Mutant(e) == status[e] = "pending" /\ due[e]

Scannable(e) == status[e] \in Open /\ due[e]

\* Read-only transaction: the ids of the due events.
Scan(w) ==
    /\ At(w, "idle")
    /\ batch[w] = {}
    /\ batch' = [batch EXCEPT ![w] = Oldest({e \in Event : Scannable(e)})]
    /\ batch'[w] # {}
    /\ UNCHANGED <<event, notification, queue, told, undone, job, replays, crashes>>

\* What is looked at again under the lock: the status, not available_at.
Eligible(e) == status[e] \in Open

\* FOR UPDATE SKIP LOCKED, then the row is looked at.
Pick(w) ==
    /\ At(w, "idle")
    /\ \E e \in batch[w] :
        /\ \A f \in batch[w] : e <= f
        /\ batch' = [batch EXCEPT ![w] = @ \ {e}]
        /\ IF lock[e] # None \/ ~Eligible(e) THEN UNCHANGED <<lock, job>>
           ELSE /\ lock' = [lock EXCEPT ![e] = w]
                /\ Goto(w, "send", e, "none")
    /\ UNCHANGED <<status, attempts, due, notification, queue, told, undone, replays, crashes>>

\* Every commit of a session that still holds the lock writes the event: the
\* attempt it counted, its status and its lease.
Commit(w, e, newStatus) ==
    /\ status' = [status EXCEPT ![e] = newStatus]
    /\ attempts' = IF lock[e] = w THEN [attempts EXCEPT ![e] = @ + 1] ELSE attempts
    /\ due' = [due EXCEPT ![e] = FALSE]
    /\ lock' = IF lock[e] = w THEN [lock EXCEPT ![e] = None] ELSE lock

\* A commit of a later step writes the event only while nothing else has.
CommitIfLocked(w, e) ==
    \/ lock[e] = w /\ Commit(w, e, "retrying")
    \/ lock[e] # w /\ UNCHANGED event

\* A failed message without a failed delivery cannot be retried.
Refused(e) ==
    \/ e \in Incomplete
    \/ e \notin Unknown /\ message[e] = "failed" /\ delivery[e] # "failed"

\* Faulty variant: the exception is swallowed.
AfterFailure_Mutant(e) == "dispatched"

AfterFailure(e) == IF attempts[e] + 1 >= MaxAttempts THEN "failed" ELSE "retrying"

\* _dispatch_event raises before anything was committed.
Refuse(w) ==
    LET e == job[w].event IN
    /\ At(w, "send")
    /\ Refused(e)
    /\ Commit(w, e, AfterFailure(e))
    /\ job' = [job EXCEPT ![w] = Idle]
    /\ UNCHANGED <<notification, queue, told, undone, batch, replays, crashes>>

\* An event of an unknown type is logged, and goes on to be dispatched.
Ignore(w) ==
    LET e == job[w].event IN
    /\ At(w, "send")
    /\ e \in Unknown
    /\ Goto(w, "finish", e, "none")
    /\ UNCHANGED <<event, notification, queue, told, undone, batch, replays, crashes>>

\* The event is of a type that is sent.
Sendable(e) == e \notin Unknown /\ ~Refused(e)

\* send: a new message is committed together with the lease.
Persist(w) ==
    LET e == job[w].event IN
    /\ At(w, "send")
    /\ Sendable(e)
    /\ message[e] = "none"
    /\ message' = [message EXCEPT ![e] = "queued"]
    /\ delivery' = [delivery EXCEPT ![e] = "pending"]
    /\ Commit(w, e, "retrying")
    /\ Goto(w, "publish", e, "pending")
    /\ UNCHANGED <<queue, told, undone, batch, replays, crashes>>

\* send: the message of an earlier attempt is taken again, nothing committed.
Reuse(w) ==
    LET e == job[w].event IN
    /\ At(w, "send")
    /\ Sendable(e)
    /\ message[e] \in {"queued", "completed"}
    /\ Goto(w, "publish", e, delivery[e])
    /\ UNCHANGED <<event, notification, queue, told, undone, batch, replays, crashes>>

\* send: the message of an earlier attempt has failed.  It is read without a
\* lock, with its failed delivery.
LoadFailed(w) ==
    LET e == job[w].event IN
    /\ At(w, "send")
    /\ Sendable(e)
    /\ message[e] = "failed"
    /\ Goto(w, "requeue", e, delivery[e])
    /\ UNCHANGED <<event, notification, queue, told, undone, batch, replays, crashes>>

\* A delivery that was sent and is overwritten is no longer on record.
Overwritten(e) == delivery[e] = "sent" /\ delivery'[e] # "sent"

\* _publish: what was read as failed is made retryable, which commits the
\* lease.  Nobody looks whether it has been sent since it was read.
Requeue(w) ==
    LET e == job[w].event IN
    /\ At(w, "requeue")
    /\ message' = [message EXCEPT ![e] = "queued"]
    /\ delivery' = [delivery EXCEPT ![e] = "retrying"]
    /\ undone' = IF Overwritten(e) THEN [undone EXCEPT ![e] = @ + 1] ELSE undone
    /\ Commit(w, e, "retrying")
    /\ Goto(w, "reload", e, "none")
    /\ UNCHANGED <<queue, told, batch, replays, crashes>>

Reload(w) ==
    LET e == job[w].event IN
    /\ At(w, "reload")
    /\ Goto(w, "publish", e, delivery[e])
    /\ UNCHANGED <<event, notification, queue, told, undone, batch, replays, crashes>>

\* The job is in the queue.  A message that was already delivered is completed
\* again, which commits.
Publish(w) ==
    LET e == job[w].event
        delivered == job[w].seen = "sent"
    IN
    /\ At(w, "publish")
    /\ queue' = [queue EXCEPT ![e] = @ + 1]
    /\ \/ /\ delivered
          /\ message' = [message EXCEPT ![e] = "completed"]
          /\ CommitIfLocked(w, e)
       \/ ~delivered /\ UNCHANGED <<message, event>>
    /\ Goto(w, "finish", e, job[w].seen)
    /\ UNCHANGED <<delivery, told, undone, batch, replays, crashes>>

\* Faulty variant: nobody notes that the queue was down.
PublishFails_Mutant(w) ==
    LET e == job[w].event IN
    /\ At(w, "publish")
    /\ CommitIfLocked(w, e)
    /\ Goto(w, "finish", e, job[w].seen)
    /\ UNCHANGED <<notification, queue, told, undone, batch, replays, crashes>>

\* The queue is down: the message and the deliveries that were not sent when
\* they were read are marked as failed; the exception goes no further.
PublishFails(w) ==
    LET e == job[w].event IN
    /\ At(w, "publish")
    /\ message' = [message EXCEPT ![e] = "failed"]
    /\ delivery' = IF job[w].seen = "sent" THEN delivery
                   ELSE [delivery EXCEPT ![e] = "failed"]
    /\ undone' = IF Overwritten(e) THEN [undone EXCEPT ![e] = @ + 1] ELSE undone
    /\ CommitIfLocked(w, e)
    /\ Goto(w, "finish", e, job[w].seen)
    /\ UNCHANGED <<queue, told, batch, replays, crashes>>

\* The event is marked as dispatched; its row may have to be waited for.
Finish(w) ==
    LET e == job[w].event IN
    /\ At(w, "finish")
    /\ lock[e] \in {None, w}
    /\ Commit(w, e, "dispatched")
    /\ job' = [job EXCEPT ![w] = Idle]
    /\ UNCHANGED <<notification, queue, told, undone, batch, replays, crashes>>

\* The process dies, the job is cancelled by its timeout, or the database
\* fails: open sessions roll back and the rest of the batch is dropped.
Crash(w) ==
    /\ crashes < MaxCrashes
    /\ job[w] # Idle \/ batch[w] # {}
    /\ crashes' = crashes + 1
    /\ lock' = [e \in Event |-> IF lock[e] = w THEN None ELSE lock[e]]
    /\ batch' = [batch EXCEPT ![w] = {}]
    /\ job' = [job EXCEPT ![w] = Idle]
    /\ UNCHANGED <<status, attempts, due, notification, queue, told, undone, replays>>

-----------------------------------------------------------------------------
(* The queue consumer, time and the administrator *)

\* Faulty variant: sent deliveries are sent again.
Skipped_Mutant(e) == FALSE

\* What the consumer does not send again.
Skipped(e) == delivery[e] = "sent"

Queued(e) == queue[e] > 0

\* process_notification_message_payload, under the lock of the message row.
Deliver(e) ==
    /\ Queued(e)
    /\ queue' = [queue EXCEPT ![e] = @ - 1]
    /\ \/ /\ Skipped(e)
          /\ message' = [message EXCEPT ![e] = "completed"]
          /\ UNCHANGED <<delivery, told>>
       \/ /\ ~Skipped(e)
          /\ message' = [message EXCEPT ![e] = "completed"]
          /\ delivery' = [delivery EXCEPT ![e] = "sent"]
          /\ told' = [told EXCEPT ![e] = @ + 1]
       \/ /\ ~Skipped(e)
          /\ message' = [message EXCEPT ![e] = "failed"]
          /\ delivery' = [delivery EXCEPT ![e] = "failed"]
          /\ UNCHANGED told
    /\ UNCHANGED <<event, undone, batch, job, replays, crashes>>

\* The consumer dies between the adapter and its commit; the queue runs the
\* job again.
DeliverCrash(e) ==
    /\ crashes < MaxCrashes
    /\ Queued(e)
    /\ ~Skipped(e)
    /\ crashes' = crashes + 1
    /\ told' = [told EXCEPT ![e] = @ + 1]
    /\ UNCHANGED <<event, undone, notification, queue, batch, job, replays>>

\* A backoff or the lease of a dead job runs out.  The lease of a living one
\* does not: a job is cancelled after five minutes, the length of a lease.
BecomesDue(e) ==
    /\ status[e] \in Open
    /\ ~due[e]
    /\ \A w \in Worker : job[w].event # e \/ job[w] = Idle
    /\ due' = [due EXCEPT ![e] = TRUE]
    /\ UNCHANGED <<status, attempts, lock, notification, queue, told, undone, batch, job>>
    /\ UNCHANGED <<replays, crashes>>

\* WorkflowOperationsService.replay_outbox
Replay(e) ==
    /\ replays < MaxReplays
    /\ status[e] = "failed"
    /\ lock[e] = None
    /\ replays' = replays + 1
    /\ status' = [status EXCEPT ![e] = "retrying"]
    /\ attempts' = [attempts EXCEPT ![e] = 0]
    /\ due' = [due EXCEPT ![e] = TRUE]
    /\ UNCHANGED <<lock, notification, queue, told, undone, batch, job, crashes>>

-----------------------------------------------------------------------------
Step(w) ==
    \/ Scan(w) \/ Pick(w) \/ Refuse(w) \/ Ignore(w) \/ Persist(w) \/ Reuse(w) \/ LoadFailed(w)
    \/ Requeue(w) \/ Reload(w) \/ Publish(w) \/ PublishFails(w) \/ Finish(w)

Next ==
    \/ \E w \in Worker : Step(w) \/ Crash(w)
    \/ \E e \in Event : Deliver(e) \/ DeliverCrash(e) \/ BecomesDue(e) \/ Replay(e)

Spec == Init /\ [][Next]_vars

\* The cron goes on starting jobs, a job goes on until it ends or dies, and
\* time passes.  Nothing is assumed of the consumer and the administrator.
FairSpec ==
    /\ Spec
    /\ \A w \in Worker : WF_vars(Step(w))
    /\ \A e \in Event : WF_vars(BecomesDue(e))

-----------------------------------------------------------------------------
(* Properties *)

JobStep == {"idle", "send", "requeue", "reload", "publish", "finish"}
DeliveryStatus == {"none", "pending", "retrying", "sent", "failed"}

TypeOK ==
    /\ status \in [Event -> {"pending", "retrying", "dispatched", "failed"}]
    /\ attempts \in [Event -> Nat]
    /\ due \in [Event -> BOOLEAN]
    /\ lock \in [Event -> Worker \cup {None}]
    /\ message \in [Event -> {"none", "queued", "completed", "failed"}]
    /\ delivery \in [Event -> DeliveryStatus]
    /\ queue \in [Event -> Nat]
    /\ told \in [Event -> Nat]
    /\ undone \in [Event -> Nat]
    /\ batch \in [Worker -> SUBSET Event]
    /\ job \in [Worker -> [step : JobStep, event : Event \cup {0}, seen : DeliveryStatus]]
    /\ replays \in Nat
    /\ crashes \in Nat

\* A dispatched event of a type the worker knows has its message, whoever died
\* between the commits.
DispatchedHasMessage ==
    \A e \in Event \ Unknown : status[e] = "dispatched" => message[e] # "none"

\* A dispatched event stays dispatched: no overlapping job, no late failure and
\* no administrator puts it back.
DispatchedIsFinal ==
    [][\A e \in Event : status[e] = "dispatched" => status'[e] = "dispatched"]_vars

\* The recipient is told again only when a process has died between telling it and its commit,
\* or when a job has written over what was sent since it read the delivery: a publication that
\* failed, or a message that is taken up again.  Each cause accounts for one repeat.
EveryRepeatHasACause == \A e \in Event : told[e] <= 1 + crashes + undone[e]

\* While no process dies, a message that is shown as queued is in the queue or
\* a living job is about to put it there, whichever jobs overlapped.
QueuedIsUnderway ==
    crashes = 0 =>
        \A e \in Event : message[e] = "queued" =>
            \/ Queued(e)
            \/ \E w \in Worker : job[w].event = e /\ job[w].step \in {"reload", "publish"}

\* Every event ends as dispatched or as failed, however often it is replayed.
EventSettles ==
    \A e \in Event : status[e] \in Open ~> status[e] \in {"dispatched", "failed"}
=============================================================================
