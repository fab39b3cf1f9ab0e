----------------------------- MODULE Projection -----------------------------
(***************************************************************************)
(* The read models of the workflow: the consumer of                        *)
(* backend/app/services/workflow_projection_service.py and its cron job    *)
(* backend/app/workers/workflow_projection_worker.py, and the rebuild of   *)
(* workflow_projection_rebuild_service.py and its script.                  *)
(*                                                                         *)
(* Run events, task logs and comments are read as three streams, each      *)
(* behind a cursor on (time, id).  An event gets its time when it is       *)
(* written and is seen when its transaction commits, so events do not      *)
(* appear in the order of the cursor.  A job locks the checkpoint of a     *)
(* stream, reads a batch, derives the rows of the tasks and runs it is     *)
(* about from their state, and commits rows and cursor together.  It reads *)
(* that state by many statements, each of which sees what is committed     *)
(* then, and what it holds already it does not read again.                 *)
(* The rows themselves are compared and written without a lock: jobs on    *)
(* different streams and the script may overlap on the same row.           *)
(***************************************************************************)
EXTENDS Naturals, FiniteSetsExt

CONSTANTS
    Streams,
    Subjects,      \* tasks and runs that have a row in a read model
    Operators,     \* executions of the rebuild script
    Events,        \* rows of the source tables, by their time and id
    StreamOf,      \* the table a row is of
    SubjectOf,     \* the task or run it is about
    BatchSize

ASSUME ProjectionAssumption ==
    /\ Streams \cap Operators = {}
    /\ BatchSize \in Nat \ {0}
    /\ Events \subseteq Nat \ {0} /\ IsFiniteSet(Events)
    /\ StreamOf \in [Events -> Streams]
    /\ SubjectOf \in [Events -> Subjects]

VARIABLES
    committed,    \* the source rows that other transactions can see
    cursor,       \* checkpoint of a stream: the row it is at, 0 for none
    timeline,     \* source rows that have a NodeTimelineEntry
    item,         \* the TaskCenterItem or ProcessRunSummary of a subject: the source rows it
                  \* reflects, and its source_revision, the latest time in what was read
    session,      \* what the job on a stream, or an operator, has read and not yet committed
    late,         \* history: rows that were committed behind what a session had read
    raced         \* history: subjects whose row changed between the comparison and the writing
                  \* of a session, whose state changed while a session read it and was read in
                  \* part, or that have a source row that was committed after a later one

vars    == <<committed, cursor, timeline, item, session, late, raced>>
sources == <<committed, late>>
models  == <<cursor, timeline, item>>

\* The lock of its checkpoint leaves a stream one session at a time.
Sessions == Streams \cup Operators

Idle   == [op |-> "none"]
Unread == [step |-> "unread"]
Skip   == [step |-> "skip"]
NoItem == [content |-> {}, revision |-> 0]

Rows    == [content : SUBSET Events, revision : Events \cup {0}]
Images  == {Unread, Skip}
            \cup [step : {"loaded"}, row : Rows]
            \cup [step : {"compared"}, row : Rows, base : Rows]
Work    == [op : {"consume", "refresh"}, entries : SUBSET Events, known : SUBSET Events,
            from : SUBSET Events, image : [Subjects -> Images]]
Rebuild == [op : {"capture", "rebuild"}, marks : [Streams -> Events \cup {0}],
            subjects : SUBSET Subjects, content : SUBSET Events]

Init ==
    /\ committed = {}
    /\ cursor = [st \in Streams |-> 0]
    /\ timeline = {}
    /\ item = [s \in Subjects |-> NoItem]
    /\ session = [w \in Sessions |-> Idle]
    /\ late = {}
    /\ raced = {}

OfStream(S, st) == {e \in S : StreamOf[e] = st}
About(S, s)     == {e \in S : SubjectOf[e] = s}

\* The tasks and runs that there are: each is created with its first row.
Present == {s \in Subjects : About(committed, s) # {}}

Consumes(w) == session[w].op = "consume"
Working(w)  == session[w].op \in {"consume", "refresh"}
Rebuilds(w) == session[w].op = "rebuild"

\* A rebuild has listed what it is going to derive, and the subject did not exist.
Misses(w, s) == session[w].op = "capture" /\ s \notin session[w].subjects

Set(w, to) == session' = [session EXCEPT ![w] = to]

-----------------------------------------------------------------------------
(* Business transactions *)

\* The stream has been read past it, also by a session that has not committed yet.
Behind(e) ==
    LET st == StreamOf[e]
    IN  \/ e <= cursor[st]
        \/ Consumes(st) /\ \E f \in session[st].entries : e <= f
        \/ \E w \in Operators : /\ Rebuilds(w) \/ Misses(w, SubjectOf[e])
                               /\ e <= session[w].marks[st]

\* The transaction that wrote the row commits; one that rolls back never does.
Commit(e) ==
    /\ e \notin committed
    /\ committed' = committed \cup {e}
    /\ late' = IF Behind(e) THEN late \cup {e} ELSE late
    /\ raced' = IF \E f \in About(committed, SubjectOf[e]) : f > e
                THEN raced \cup {SubjectOf[e]} ELSE raced
    /\ UNCHANGED <<models, session>>

-----------------------------------------------------------------------------
(* Jobs and refreshes *)

\* Mutant: a batch takes the newest rows.
First_Mutant(S) == {e \in S : Cardinality({f \in S : f > e}) < BatchSize}

\* The oldest rows, as many as a batch takes.
First(S) == {e \in S : Cardinality({f \in S : f < e}) < BatchSize}

IsLast(e, S) == e \in S /\ \A f \in S : f <= e

\* A rebuild has deleted everything and not committed: the others wait or fail.
Exclusive == \E w \in Operators : Rebuilds(w)

\* What a session is going to write: entries of the timeline and the rows of their subjects.
Start(w, op, entries) ==
    Set(w, [op |-> op, entries |-> entries, known |-> entries \cap timeline,
            from |-> {e \in committed : About(entries, SubjectOf[e]) # {}},
            image |-> [s \in Subjects |-> IF About(entries, s) = {} THEN Skip ELSE Unread]])

\* consume_stream: the lock of the checkpoint and the batch.
Open(st) ==
    /\ session[st] = Idle /\ ~Exclusive
    /\ LET unread == {e \in OfStream(committed, st) : e > cursor[st]}
       IN  unread # {} /\ Start(st, "consume", First(unread))
    /\ UNCHANGED <<sources, models, raced>>

\* rebuild_task, rebuild_run
Refresh(w, s) ==
    /\ session[w] = Idle /\ ~Exclusive
    /\ s \in Present
    /\ Start(w, "refresh", About(committed, s))
    /\ UNCHANGED <<sources, models, raced>>

\* What statements that are executed between two moments may make of a subject: what was there
\* before is seen by all of them, what comes meanwhile by some or by none, and source_updated_at
\* is the latest time that any of them has seen.
Readings(before, after) ==
    {row \in [content : SUBSET after, revision : after \cup {0}] :
        before \subseteq row.content /\ \A e \in row.content : e <= row.revision}

\* The revision is of a later moment than the content.
Torn(row, s) == \E e \in About(committed, s) \ row.content : e <= row.revision

\* project_task, project_run: the state of the subject, from what the session has read since it
\* began ...
Load(w, s) ==
    /\ Working(w) /\ session[w].image[s] = Unread
    /\ \E row \in Readings(About(session[w].from, s), About(committed, s)) :
            /\ session' = [session EXCEPT ![w].image[s] = [step |-> "loaded", row |-> row]]
            /\ raced' = IF Torn(row, s) THEN raced \cup {s} ELSE raced
    /\ UNCHANGED <<sources, models>>

\* Mutant: a row is written whatever it was derived from.
Newer_Mutant(row, other) == FALSE

\* The row was derived from a later state of its subject.
Newer(row, other) == row.revision > other.revision

\* ... and the row it has, which stays if it is newer, unless the script forces it.
Compare(w, s) ==
    /\ Working(w) /\ session[w].image[s].step = "loaded"
    /\ LET row == session[w].image[s].row
       IN  session' = [session EXCEPT ![w].image[s] =
                IF Consumes(w) /\ Newer(item[s], row)
                THEN Skip
                ELSE [step |-> "compared", row |-> row, base |-> item[s]]]
    /\ UNCHANGED <<sources, models, raced>>

Written(w) == {s \in Subjects : session[w].image[s].step = "compared"}
Ready(w)   == Working(w) /\ \A s \in Subjects \ Written(w) : session[w].image[s] = Skip

\* The unique keys of the read models: what a session inserts is not there yet.
NoConflict(w) ==
    /\ session[w].entries \cap timeline = session[w].known
    /\ \A s \in Written(w) : session[w].image[s].base = NoItem => item[s] = NoItem

\* The writes and the cursor are committed together.
Finish(w) ==
    /\ Ready(w) /\ NoConflict(w)
    /\ timeline' = timeline \cup session[w].entries
    /\ item' = [s \in Subjects |->
                    IF s \in Written(w) THEN session[w].image[s].row ELSE item[s]]
    /\ IF Consumes(w)
       THEN \E e \in session[w].entries : /\ IsLast(e, session[w].entries)
                                          /\ cursor' = [cursor EXCEPT ![w] = e]
       ELSE cursor' = cursor
    /\ raced' = raced \cup {s \in Written(w) :
                    \/ item[s] # session[w].image[s].base
                    \/ ~Consumes(w) /\ Newer(item[s], session[w].image[s].row)}
    /\ Set(w, Idle)
    /\ UNCHANGED sources

\* A session raises, meets a conflict or dies, and is rolled back: to the others it is
\* as if that happened at its end.
Fail(w) ==
    /\ Ready(w) \/ Rebuilds(w)
    /\ Set(w, Idle)
    /\ UNCHANGED <<sources, models, raced>>

-----------------------------------------------------------------------------
(* The full rebuild *)

\* rebuild_all: the ends of the streams, then the tasks and runs that there are ...
Capture(w) ==
    /\ session[w] = Idle
    /\ \E ends \in [Streams -> committed \cup {0}] :
            /\ \A st \in Streams : IsLast(ends[st], OfStream(committed, st) \cup {0})
            /\ Set(w, [op |-> "capture", marks |-> ends, content |-> {},
                       subjects |-> Present])
    /\ UNCHANGED <<sources, models, raced>>

\* ... then everything is deleted, which waits for the other sessions and keeps them out.  Of
\* the subjects that appeared meanwhile those are derived that a run of the list leads to.
DeleteAll(w) ==
    /\ session[w].op = "capture"
    /\ \A v \in Sessions \ {w} : session[v].op \in {"none", "capture"}
    /\ \E listed \in SUBSET Present :
            /\ session[w].subjects \subseteq listed
            /\ Set(w, [session[w] EXCEPT !.op = "rebuild", !.subjects = listed,
                            !.content = {e \in committed : SubjectOf[e] \in listed}])
    /\ UNCHANGED <<sources, models, raced>>

\* Mutant: the ends of the streams are taken when the rebuild is done.
Marks_Mutant(w) == [st \in Streams |-> Max(OfStream(committed, st) \cup {0})]

Marks(w) == session[w].marks

\* ... and derived anew, one subject after the other: rows that are committed meanwhile are
\* seen for some and not for others.  The cursors are put where the streams ended.
FinishAll(w) ==
    /\ Rebuilds(w)
    /\ LET before == session[w].content
           after  == {e \in committed : SubjectOf[e] \in session[w].subjects}
       IN  /\ \E seen \in SUBSET (after \ before) : timeline' = before \cup seen
           /\ \E rows \in [Subjects -> Rows] :
                /\ \A s \in Subjects : rows[s] \in Readings(About(before, s), About(after, s))
                /\ item' = rows
    /\ cursor' = Marks(w)
    /\ Set(w, Idle)
    /\ UNCHANGED <<sources, raced>>

-----------------------------------------------------------------------------

Step(w) ==
    \/ \E s \in Subjects : Load(w, s) \/ Compare(w, s)
    \/ Finish(w)
    \/ FinishAll(w)
    \/ Fail(w)

Next ==
    \/ \E e \in Events : Commit(e)
    \/ \E st \in Streams : Open(st)
    \/ \E w \in Operators : Capture(w) \/ DeleteAll(w) \/ \E s \in Subjects : Refresh(w, s)
    \/ \E w \in Sessions : Step(w)

\* The cron job runs every 30 seconds, what has begun ends or is rolled back, and not every
\* pass over a stream is rolled back.
Fairness ==
    /\ \A st \in Streams : SF_vars(Open(st)) /\ SF_vars(Finish(st))
    /\ \A w \in Sessions : WF_vars(Step(w))

Spec == Init /\ [][Next]_vars
FairSpec == Spec /\ Fairness

-----------------------------------------------------------------------------

TypeOK ==
    /\ committed \subseteq Events
    /\ cursor \in [Streams -> Events \cup {0}]
    /\ timeline \subseteq committed
    /\ item \in [Subjects -> Rows]
    /\ session \in [Sessions -> {Idle} \cup Work \cup Rebuild]
    /\ late \subseteq committed
    /\ raced \subseteq Subjects

\* A row behind the cursor of its stream is in the timeline, whatever jobs, refreshes and
\* rebuilds overlapped and failed: only one that was committed behind a reader is missing
\* (consume_stream, rebuild_all).
NothingPassedOver ==
    \A e \in committed \ late : e <= cursor[StreamOf[e]] => e \in timeline

\* When the streams have passed everything a subject did, its row reflects all of it, unless
\* sessions raced on the row, a session read the subject while it changed and took the new
\* time with the old state, or a row of the subject was committed late (project_task,
\* project_run: the comparison of revisions).
ItemIsCurrent ==
    \A s \in Subjects \ raced :
        LET events == About(committed, s)
        IN  events \cap late = {} /\ (\A e \in events : e <= cursor[StreamOf[e]])
                => item[s].content = events

\* The timeline catches up with the sources again and again, through failing passes and
\* rebuilds that put the cursors back (process_workflow_projection_events).
TimelineCatchesUp == []<>(committed \ late \subseteq timeline)
=============================================================================
