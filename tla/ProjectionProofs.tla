-------------------------- MODULE ProjectionProofs --------------------------
(***************************************************************************)
(* Proofs about Projection for any streams, subjects, executions of the    *)
(* rebuild script, source rows and batches.                                *)
(*                                                                         *)
(* What is behind a cursor and was not committed behind a reader has an    *)
(* entry in the timeline.  The invariant says what an open session has     *)
(* read: a batch leaves no gap after the cursor, and a rebuild lists the   *)
(* subject of every row up to its marks, then knows that row and is alone. *)
(*                                                                         *)
(* The row of a subject on which no sessions raced reflects everything the *)
(* cursors have passed, and nothing that is not committed.  The invariant  *)
(* says what a session has loaded of the subject: every committed row up   *)
(* to its revision, though the statements that read it are of different    *)
(* moments, which is why two of them are compared by revisions alone.      *)
(***************************************************************************)
EXTENDS Projection, FiniteSetTheorems, TLAPS

Seen == committed \ late

Session == {Idle} \cup Work \cup Rebuild

\* Streams consume, operators refresh and rebuild.
Owned ==
    /\ \A st \in Streams : session[st].op \in {"none", "consume"}
    /\ \A w \in Operators : session[w].op \in {"none", "refresh", "capture", "rebuild"}

ReadIsCommitted ==
    \A w \in Sessions : /\ Working(w) => session[w].entries \subseteq committed
                        /\ Rebuilds(w) => session[w].content \subseteq committed

\* Between the cursor and any row of a batch nothing was left out.
BatchHasNoGap ==
    \A st \in Streams : Consumes(st) =>
        \A e \in Seen, f \in session[st].entries :
            StreamOf[e] = st /\ e <= f => e \in session[st].entries \/ e <= cursor[st]

RebuildIsAlone ==
    \A w \in Sessions : Rebuilds(w) =>
        \A v \in Sessions \ {w} : session[v].op \in {"none", "capture"}

RebuildIsComplete ==
    \A w \in Sessions : Rebuilds(w) =>
        \A e \in Seen : e <= session[w].marks[StreamOf[e]] => e \in session[w].content

ListIsComplete ==
    \A w \in Sessions : session[w].op = "capture" =>
        \A e \in Seen : e <= session[w].marks[StreamOf[e]] => SubjectOf[e] \in session[w].subjects

IInv ==
    /\ TypeOK
    /\ Owned
    /\ ReadIsCommitted
    /\ BatchHasNoGap
    /\ RebuildIsAlone
    /\ ListIsComplete
    /\ RebuildIsComplete
    /\ NothingPassedOver

-----------------------------------------------------------------------------

LEMMA InvIsInitial == Init => IInv
<1> SUFFICES ASSUME Init PROVE IInv
    OBVIOUS
<1>1. \A w \in Sessions : session[w].op = "none"
    BY DEF Init, Idle
<1>2. TypeOK
    BY DEF Init, TypeOK, NoItem, Rows
<1>3. NothingPassedOver
    BY DEF Init, NothingPassedOver
<1> QED
    BY <1>1, <1>2, <1>3 DEF IInv, Owned, ReadIsCommitted, BatchHasNoGap, RebuildIsAlone,
       ListIsComplete, RebuildIsComplete, Working, Rebuilds, Consumes, Sessions

\* A step that leaves the sources, the models and what sessions have read as they are.
LEMMA SameReadingKeepsInv ==
    ASSUME IInv, TypeOK', UNCHANGED <<committed, late, cursor, timeline>>,
           \A w \in Sessions :
                /\ session'[w].op = session[w].op
                /\ Working(w) => session'[w].entries = session[w].entries
                /\ Rebuilds(w) => /\ session'[w].marks = session[w].marks
                                  /\ session'[w].content = session[w].content
                /\ session[w].op = "capture" =>
                        /\ session'[w].marks = session[w].marks
                        /\ session'[w].subjects = session[w].subjects
    PROVE  IInv'
<1>1. Owned'
    BY DEF IInv, Owned, Sessions
<1>2. \A w \in Sessions : /\ Working(w)' <=> Working(w)
                          /\ Rebuilds(w)' <=> Rebuilds(w)
                          /\ Consumes(w)' <=> Consumes(w)
                          /\ Consumes(w) => Working(w)
    BY DEF Working, Rebuilds, Consumes
<1>3. ReadIsCommitted'
    BY <1>2 DEF IInv, ReadIsCommitted
<1>4. BatchHasNoGap'
    BY <1>2 DEF IInv, BatchHasNoGap, Seen, Sessions
<1>5. RebuildIsAlone' /\ RebuildIsComplete' /\ ListIsComplete'
    BY <1>2 DEF IInv, RebuildIsAlone, RebuildIsComplete, ListIsComplete, Seen
<1>6. NothingPassedOver'
    BY DEF IInv, NothingPassedOver
<1> QED
    BY <1>1, <1>3, <1>4, <1>5, <1>6 DEF IInv

LEMMA UntouchedKeepsInv == IInv /\ UNCHANGED vars => IInv'
<1> SUFFICES ASSUME IInv, UNCHANGED vars PROVE IInv'
    OBVIOUS
<1>1. TypeOK'
    BY DEF IInv, TypeOK, vars
<1> QED
    BY <1>1, SameReadingKeepsInv DEF vars

-----------------------------------------------------------------------------

\* A row that is behind nobody is not in the reach of any session.
LEMMA CommitKeepsInv ==
    ASSUME IInv, NEW e \in Events, Commit(e)
    PROVE  IInv'
<1>1. /\ committed' = committed \cup {e}
      /\ UNCHANGED <<cursor, timeline, item, session>>
    BY DEF Commit, models
<1>2. late \subseteq late' /\ late' \subseteq late \cup {e} /\ (Behind(e) => e \in late')
    BY DEF Commit
<1>3. raced' \subseteq Subjects
    BY ProjectionAssumption DEF Commit, IInv, TypeOK
<1>4. TypeOK'
    BY <1>1, <1>2, <1>3 DEF IInv, TypeOK
<1>5. \A f \in Seen' : f \in Seen \/ (f = e /\ ~Behind(e))
    BY <1>1, <1>2 DEF Seen
<1>6. Owned' /\ ReadIsCommitted' /\ RebuildIsAlone'
    BY <1>1 DEF IInv, Owned, ReadIsCommitted, RebuildIsAlone, Working, Rebuilds
<1>7. BatchHasNoGap'
    BY <1>1, <1>5 DEF IInv, BatchHasNoGap, Consumes, Behind
<1>8. \A w \in Sessions : Rebuilds(w) => w \in Operators
    BY DEF IInv, Owned, Rebuilds, Sessions
<1>9. RebuildIsComplete'
    BY <1>1, <1>5, <1>8 DEF IInv, RebuildIsComplete, Rebuilds, Behind
<1>10. NothingPassedOver'
    BY <1>1, <1>5 DEF IInv, NothingPassedOver, Behind, Seen
<1>11. ListIsComplete'
  <2>1. \A w \in Sessions : session[w].op = "capture" => w \in Operators
    BY DEF IInv, Owned, Sessions
  <2> QED
    BY <1>1, <1>5, <2>1 DEF IInv, ListIsComplete, Behind, Misses
<1> QED
    BY <1>4, <1>6, <1>7, <1>9, <1>10, <1>11 DEF IInv

\* A batch takes every row before one that it takes.
LEMMA FirstHasNoGap ==
    ASSUME NEW S \in SUBSET Events, NEW e \in S, NEW f \in First(S), e <= f
    PROVE  e \in First(S)
<1> DEFINE Before(g) == {h \in S : h < g}
<1>1. IsFiniteSet(Before(f)) /\ Before(e) \subseteq Before(f)
  <2>1. IsFiniteSet(Events) /\ Before(f) \subseteq Events
    BY ProjectionAssumption
  <2>2. \A h \in S : h \in Nat
    BY ProjectionAssumption
  <2>3. f \in Nat /\ e \in Nat
    BY <2>2 DEF First
  <2>4. IsFiniteSet(Before(f))
    BY <2>1, FS_Subset
  <2>5. ASSUME NEW h \in Before(e) PROVE h \in Before(f)
    BY <2>2, <2>3
  <2> QED
    BY <2>4, <2>5
<1>2. Cardinality(Before(e)) <= Cardinality(Before(f))
    BY <1>1, FS_Subset
<1>3. Cardinality(Before(e)) \in Nat /\ Cardinality(Before(f)) \in Nat
    BY <1>1, FS_Subset, FS_CardinalityType
<1>4. Cardinality(Before(f)) < BatchSize
    BY DEF First
<1>5. Cardinality(Before(e)) < BatchSize
    BY <1>2, <1>3, <1>4, ProjectionAssumption
<1> QED
    BY <1>5 DEF First

\* What a job or a refresh starts with.
LEMMA StartedSession ==
    ASSUME TypeOK, NEW w \in Sessions, NEW op \in {"consume", "refresh"},
           NEW entries \in SUBSET Events, Start(w, op, entries)
    PROVE  /\ session' \in [Sessions -> Session]
           /\ session'[w].op = op /\ session'[w].entries = entries
           /\ \A v \in Sessions \ {w} : session'[v] = session[v]
<1> DEFINE new == [op |-> op, entries |-> entries, known |-> entries \cap timeline,
                   from |-> {e \in committed : About(entries, SubjectOf[e]) # {}},
                   image |-> [s \in Subjects |->
                                IF About(entries, s) = {} THEN Skip ELSE Unread]]
<1>1. new.image \in [Subjects -> Images] /\ new.from \in SUBSET Events
    BY DEF Images, TypeOK
<1>2. new \in Work /\ new.op = op /\ new.entries = entries
    BY <1>1 DEF Work
<1>3. session' = [session EXCEPT ![w] = new]
    BY DEF Start, Set
<1> HIDE DEF new
<1> QED
    BY <1>2, <1>3 DEF TypeOK, Session

LEMMA OpenKeepsInv ==
    ASSUME IInv, NEW st \in Streams, Open(st)
    PROVE  IInv'
<1> DEFINE unread == {e \in OfStream(committed, st) : e > cursor[st]}
           batch == First(unread)
<1>1. /\ session[st] = Idle /\ ~Exclusive /\ Start(st, "consume", batch)
      /\ UNCHANGED <<committed, late, cursor, timeline, item, raced>>
    BY DEF Open, sources, models
<1>2. unread \subseteq committed /\ unread \subseteq Events /\ batch \subseteq unread
    BY DEF OfStream, First, IInv, TypeOK
<1>3. st \in Sessions /\ TypeOK
    BY DEF Sessions, IInv
<1>4. /\ session' \in [Sessions -> Session]
      /\ session'[st].op = "consume" /\ session'[st].entries = batch
      /\ \A v \in Sessions \ {st} : session'[v] = session[v]
    BY <1>1, <1>2, <1>3, StartedSession
<1>5. \A e \in committed, f \in batch :
            StreamOf[e] = st /\ e <= f => e \in batch \/ e <= cursor[st]
  <2> SUFFICES ASSUME NEW e \in committed, NEW f \in batch, StreamOf[e] = st, e <= f,
                      ~(e <= cursor[st])
               PROVE  e \in batch
    OBVIOUS
  <2>1. e \in Nat /\ cursor[st] \in Nat
    <3> HIDE DEF batch, unread
    <3>1. e \in Events /\ cursor[st] \in Events \cup {0}
      BY DEF IInv, TypeOK
    <3>2. Events \cup {0} \subseteq Nat
      BY ProjectionAssumption
    <3> QED
      BY <3>1, <3>2
  <2>2. e \in unread
    BY <2>1 DEF OfStream
  <2> HIDE DEF unread
  <2> QED
    BY <1>2, <2>2, FirstHasNoGap
<1> HIDE DEF unread, batch
<1>6. TypeOK'
    BY <1>1, <1>4 DEF IInv, TypeOK, Session
<1>7. Owned'
    BY <1>4, ProjectionAssumption DEF IInv, Owned, Sessions
<1>8. \A w \in Sessions : ~Rebuilds(w)'
  <2>1. \A w \in Sessions : Rebuilds(w) => w \in Operators
    BY DEF IInv, Owned, Rebuilds, Sessions
  <2> QED
    BY <1>1, <1>4, <2>1 DEF Exclusive, Rebuilds
<1>9. ReadIsCommitted'
    BY <1>1, <1>2, <1>4, <1>8 DEF IInv, ReadIsCommitted, Working
<1>10. BatchHasNoGap'
    BY <1>1, <1>4, <1>5 DEF IInv, BatchHasNoGap, Consumes, Seen, Sessions
<1>11. RebuildIsAlone' /\ RebuildIsComplete'
    BY <1>8 DEF RebuildIsAlone, RebuildIsComplete
<1>12. NothingPassedOver'
    BY <1>1 DEF IInv, NothingPassedOver
<1>13. ListIsComplete'
    BY <1>1, <1>4 DEF IInv, ListIsComplete, Seen
<1> QED
    BY <1>6, <1>7, <1>9, <1>10, <1>11, <1>12, <1>13 DEF IInv

LEMMA RefreshKeepsInv ==
    ASSUME IInv, NEW w \in Operators, NEW s \in Subjects, Refresh(w, s)
    PROVE  IInv'
<1> DEFINE entries == About(committed, s)
<1>1. /\ ~Exclusive /\ Start(w, "refresh", entries)
      /\ UNCHANGED <<committed, late, cursor, timeline, item, raced>>
    BY DEF Refresh, sources, models
<1>2. entries \subseteq committed /\ entries \subseteq Events
    BY DEF About, IInv, TypeOK
<1>3. w \in Sessions /\ TypeOK /\ w \notin Streams
    BY ProjectionAssumption DEF Sessions, IInv
<1>4. /\ session' \in [Sessions -> Session]
      /\ session'[w].op = "refresh" /\ session'[w].entries = entries
      /\ \A v \in Sessions \ {w} : session'[v] = session[v]
    BY <1>1, <1>2, <1>3, StartedSession
<1> HIDE DEF entries
<1>5. TypeOK'
    BY <1>1, <1>4 DEF IInv, TypeOK, Session
<1>6. Owned'
    BY <1>3, <1>4 DEF IInv, Owned, Sessions
<1>7. \A v \in Sessions : ~Rebuilds(v)'
  <2>1. \A v \in Sessions : Rebuilds(v) => v \in Operators
    BY DEF IInv, Owned, Rebuilds, Sessions
  <2> QED
    BY <1>1, <1>4, <2>1 DEF Exclusive, Rebuilds
<1>8. ReadIsCommitted'
    BY <1>1, <1>2, <1>4, <1>7 DEF IInv, ReadIsCommitted, Working
<1>9. BatchHasNoGap'
    BY <1>1, <1>3, <1>4 DEF IInv, BatchHasNoGap, Consumes, Seen, Sessions
<1>10. RebuildIsAlone' /\ RebuildIsComplete'
    BY <1>7 DEF RebuildIsAlone, RebuildIsComplete
<1>11. NothingPassedOver'
    BY <1>1 DEF IInv, NothingPassedOver
<1>12. ListIsComplete'
    BY <1>1, <1>4 DEF IInv, ListIsComplete, Seen
<1> QED
    BY <1>5, <1>6, <1>8, <1>9, <1>10, <1>11, <1>12 DEF IInv

\* What project_task and project_run do to a session.
LEMMA ImageKeepsInv ==
    ASSUME IInv, NEW w \in Sessions, NEW s \in Subjects, NEW i \in Images, Working(w),
           session' = [session EXCEPT ![w].image[s] = i],
           UNCHANGED <<committed, late, cursor, timeline, item>>, raced' \subseteq Subjects
    PROVE  IInv'
<1> DEFINE new == [session[w] EXCEPT !.image[s] = i]
<1>1. session \in [Sessions -> Session]
    BY DEF IInv, TypeOK, Session
<1>2. session[w] \in Work
    BY <1>1 DEF Working, Session, Idle, Rebuild
<1>3. new \in Work /\ new.op = session[w].op /\ new.entries = session[w].entries
    BY <1>2 DEF Work
<1>4. session' = [session EXCEPT ![w] = new]
    OBVIOUS
<1> HIDE DEF new
<1>5. /\ session' \in [Sessions -> Session] /\ session'[w] = new
      /\ \A v \in Sessions \ {w} : session'[v] = session[v]
    BY <1>1, <1>3, <1>4 DEF Session
<1>6. TypeOK'
    BY <1>5 DEF IInv, TypeOK, Session
<1>7. ~Rebuilds(w) /\ session[w].op # "capture"
    BY DEF Working, Rebuilds
<1> QED
    BY <1>3, <1>5, <1>6, <1>7, SameReadingKeepsInv

\* What may be read of a subject is one of its rows.
LEMMA ReadingTypes ==
    ASSUME TypeOK, NEW before, NEW s \in Subjects, NEW row \in Readings(before, About(committed, s))
    PROVE  row \in Rows
    BY DEF Readings, Rows, About, TypeOK

LEMMA LoadKeepsInv ==
    ASSUME IInv, NEW w \in Sessions, NEW s \in Subjects, Load(w, s)
    PROVE  IInv'
<1>1. PICK row \in Readings(About(session[w].from, s), About(committed, s)) :
            /\ session' = [session EXCEPT ![w].image[s] = [step |-> "loaded", row |-> row]]
            /\ raced' = IF Torn(row, s) THEN raced \cup {s} ELSE raced
    BY DEF Load
<1> DEFINE i == [step |-> "loaded", row |-> row]
<1>2. i \in Images
    BY ReadingTypes DEF IInv, Images
<1>3. Working(w) /\ session' = [session EXCEPT ![w].image[s] = i]
    BY <1>1 DEF Load
<1>4. UNCHANGED <<committed, late, cursor, timeline, item>> /\ raced' \subseteq Subjects
    BY <1>1 DEF Load, sources, models, IInv, TypeOK
<1> HIDE DEF i
<1> QED
    BY <1>2, <1>3, <1>4, ImageKeepsInv

LEMMA CompareKeepsInv ==
    ASSUME IInv, NEW w \in Sessions, NEW s \in Subjects, Compare(w, s)
    PROVE  IInv'
<1> DEFINE old == session[w].image[s]
           i == IF Consumes(w) /\ Newer(item[s], old.row) THEN Skip
                ELSE [step |-> "compared", row |-> old.row, base |-> item[s]]
<1>1. session[w] \in Work
    BY DEF Compare, Working, IInv, TypeOK, Idle, Rebuild
<1>2. old \in Images /\ old.step = "loaded"
    BY <1>1 DEF Work, Compare
<1>3. old.row \in Rows
    BY <1>2 DEF Images, Unread, Skip
<1>4. item[s] \in Rows
    BY DEF IInv, TypeOK
<1>5. i \in Images
    BY <1>3, <1>4 DEF Images
<1>6. Working(w) /\ session' = [session EXCEPT ![w].image[s] = i]
    BY DEF Compare
<1>7. UNCHANGED <<committed, late, cursor, timeline, item>> /\ raced' \subseteq Subjects
    BY DEF Compare, sources, models, IInv, TypeOK
<1> HIDE DEF i
<1> QED
    BY <1>5, <1>6, <1>7, ImageKeepsInv

\* A session that ends leaves its claims behind.
LEMMA EndedSession ==
    ASSUME TypeOK, NEW w \in Sessions, Set(w, Idle)
    PROVE  /\ session' \in [Sessions -> Session]
           /\ session'[w].op = "none"
           /\ \A v \in Sessions \ {w} : session'[v] = session[v]
    BY DEF Set, TypeOK, Session, Idle

LEMMA FailKeepsInv ==
    ASSUME IInv, NEW w \in Sessions, Fail(w)
    PROVE  IInv'
<1>1. /\ session' \in [Sessions -> Session]
      /\ session'[w].op = "none"
      /\ \A v \in Sessions \ {w} : session'[v] = session[v]
    BY EndedSession DEF Fail, IInv
<1>2. UNCHANGED <<committed, late, cursor, timeline, item, raced>>
    BY DEF Fail, sources, models
<1>3. TypeOK'
    BY <1>1, <1>2 DEF IInv, TypeOK, Session
<1>4. Owned'
    BY <1>1 DEF IInv, Owned, Sessions
<1>5. ReadIsCommitted'
    BY <1>1, <1>2 DEF IInv, ReadIsCommitted, Working, Rebuilds
<1>6. BatchHasNoGap'
    BY <1>1, <1>2 DEF IInv, BatchHasNoGap, Consumes, Seen, Sessions
<1>7. RebuildIsAlone'
    BY <1>1 DEF IInv, RebuildIsAlone, Rebuilds
<1>8. RebuildIsComplete'
    BY <1>1, <1>2 DEF IInv, RebuildIsComplete, Rebuilds, Seen
<1>9. NothingPassedOver'
    BY <1>2 DEF IInv, NothingPassedOver
<1>10. ListIsComplete'
    BY <1>1, <1>2 DEF IInv, ListIsComplete, Seen
<1> QED
    BY <1>3, <1>4, <1>5, <1>6, <1>7, <1>8, <1>9, <1>10 DEF IInv

\* The cursor moves over a batch that has no gap.
LEMMA FinishKeepsInv ==
    ASSUME IInv, NEW w \in Sessions, Finish(w)
    PROVE  IInv'
<1>1. /\ session' \in [Sessions -> Session]
      /\ session'[w].op = "none"
      /\ \A v \in Sessions \ {w} : session'[v] = session[v]
    BY EndedSession DEF Finish, IInv
<1>2. /\ Working(w) /\ committed' = committed /\ late' = late
      /\ timeline' = timeline \cup session[w].entries
    BY DEF Finish, Ready, sources
<1>3. session[w].entries \subseteq committed
    BY <1>2 DEF IInv, ReadIsCommitted
<1>4. session[w] \in Work
    BY <1>2 DEF Working, IInv, TypeOK, Idle, Rebuild
<1>5. item' \in [Subjects -> Rows]
  <2>1. \A s \in Written(w) : session[w].image[s].row \in Rows
    BY <1>4 DEF Written, Work, Images, Unread, Skip
  <2>2. item' = [s \in Subjects |->
                    IF s \in Written(w) THEN session[w].image[s].row ELSE item[s]]
    BY DEF Finish
  <2> QED
    BY <2>1, <2>2 DEF IInv, TypeOK
<1>6. raced' \subseteq Subjects
    BY DEF Finish, Written, IInv, TypeOK
<1>7. \/ cursor' = cursor
      \/ /\ Consumes(w)
         /\ \E e \in session[w].entries : cursor' = [cursor EXCEPT ![w] = e]
    BY DEF Finish
<1>8. Consumes(w) => w \in Streams
    BY DEF Consumes, IInv, Owned, Sessions
<1>9. cursor' \in [Streams -> Events \cup {0}]
    BY <1>3, <1>7 DEF IInv, TypeOK
<1>10. TypeOK'
    BY <1>1, <1>2, <1>3, <1>5, <1>6, <1>9 DEF IInv, TypeOK, Session
<1>11. \A v \in Sessions : ~Rebuilds(v)'
    BY <1>1, <1>2 DEF IInv, RebuildIsAlone, Rebuilds, Working
<1>12. Owned'
    BY <1>1 DEF IInv, Owned, Sessions
<1>13. ReadIsCommitted'
    BY <1>1, <1>2, <1>11 DEF IInv, ReadIsCommitted, Working
<1>14. \A st \in Streams \ {w} : cursor'[st] = cursor[st]
    BY <1>7 DEF IInv, TypeOK
<1>15. BatchHasNoGap'
    BY <1>1, <1>2, <1>14 DEF IInv, BatchHasNoGap, Consumes, Seen, Sessions
<1>16. RebuildIsAlone' /\ RebuildIsComplete'
    BY <1>11 DEF RebuildIsAlone, RebuildIsComplete
<1>17. NothingPassedOver'
  <2> SUFFICES ASSUME NEW e \in Seen, e <= cursor'[StreamOf[e]]
               PROVE  e \in timeline \cup session[w].entries
    BY <1>2 DEF NothingPassedOver, Seen
  <2>1. StreamOf[e] \in Streams
    BY ProjectionAssumption DEF Seen, IInv, TypeOK
  <2>2. CASE e <= cursor[StreamOf[e]]
    BY <2>2 DEF IInv, NothingPassedOver, Seen
  <2>3. CASE ~(e <= cursor[StreamOf[e]])
    <3>1. StreamOf[e] = w /\ Consumes(w)
      BY <1>7, <1>14, <2>1, <2>3
    <3>2. PICK f \in session[w].entries : cursor' = [cursor EXCEPT ![w] = f]
      BY <1>7, <2>3
    <3>3. e <= f
      BY <3>1, <3>2, <2>1 DEF IInv, TypeOK
    <3> QED
      BY <2>1, <2>3, <3>1, <3>3 DEF IInv, BatchHasNoGap
  <2> QED
    BY <2>2, <2>3
<1>18. ListIsComplete'
    BY <1>1, <1>2 DEF IInv, ListIsComplete, Seen
<1> QED
    BY <1>10, <1>12, <1>13, <1>15, <1>16, <1>17, <1>18 DEF IInv

-----------------------------------------------------------------------------

LEMMA CaptureKeepsInv ==
    ASSUME IInv, NEW w \in Operators, Capture(w)
    PROVE  IInv'
<1>1. PICK ends \in [Streams -> committed \cup {0}] :
            session' = [session EXCEPT ![w] =
                    [op |-> "capture", marks |-> ends, content |-> {}, subjects |-> Present]]
    BY DEF Capture, Set
<1> DEFINE new == [op |-> "capture", marks |-> ends, content |-> {}, subjects |-> Present]
<1>2. new \in Rebuild /\ new.op = "capture" /\ new.subjects = Present
    BY DEF Rebuild, Present, IInv, TypeOK
<1>3. session' = [session EXCEPT ![w] = new]
    BY <1>1
<1>4. w \in Sessions /\ w \notin Streams
    BY ProjectionAssumption DEF Sessions
<1> HIDE DEF new
<1>5. /\ session' \in [Sessions -> Session]
      /\ session'[w].op = "capture" /\ session'[w].subjects = Present
      /\ \A v \in Sessions \ {w} : session'[v] = session[v]
    BY <1>2, <1>3, <1>4 DEF IInv, TypeOK, Session
<1>6. UNCHANGED <<committed, late, cursor, timeline, item, raced>>
    BY DEF Capture, sources, models
<1>7. TypeOK'
    BY <1>5, <1>6 DEF IInv, TypeOK, Session
<1>8. Owned'
    BY <1>4, <1>5 DEF IInv, Owned, Sessions
<1>9. ReadIsCommitted'
    BY <1>5, <1>6 DEF IInv, ReadIsCommitted, Working, Rebuilds
<1>10. BatchHasNoGap'
    BY <1>4, <1>5, <1>6 DEF IInv, BatchHasNoGap, Consumes, Seen, Sessions
<1>11. RebuildIsAlone'
    BY <1>5 DEF IInv, RebuildIsAlone, Rebuilds
<1>12. RebuildIsComplete'
    BY <1>5, <1>6 DEF IInv, RebuildIsComplete, Rebuilds, Seen
<1>13. NothingPassedOver'
    BY <1>6 DEF IInv, NothingPassedOver
<1>14. ListIsComplete'
  <2>1. \A e \in Seen : SubjectOf[e] \in Present
    BY ProjectionAssumption DEF Seen, Present, About, IInv, TypeOK
  <2> QED
    BY <1>5, <1>6, <2>1 DEF IInv, ListIsComplete, Seen
<1> QED
    BY <1>7, <1>8, <1>9, <1>10, <1>11, <1>12, <1>13, <1>14 DEF IInv

\* The rebuild starts alone, with everything that is committed about the subjects of its list.
LEMMA DeleteAllKeepsInv ==
    ASSUME IInv, NEW w \in Operators, DeleteAll(w)
    PROVE  IInv'
<1>1. w \in Sessions /\ w \notin Streams
    BY ProjectionAssumption DEF Sessions
<1>2. session[w] \in Rebuild /\ session[w].op = "capture"
    BY <1>1 DEF DeleteAll, IInv, TypeOK, Idle, Work
<1>3. PICK listed \in SUBSET Present :
        /\ session[w].subjects \subseteq listed
        /\ session' = [session EXCEPT ![w] =
                [session[w] EXCEPT !.op = "rebuild", !.subjects = listed,
                        !.content = {e \in committed : SubjectOf[e] \in listed}]]
    BY DEF DeleteAll, Set
<1> DEFINE content == {e \in committed : SubjectOf[e] \in listed}
           new == [session[w] EXCEPT !.op = "rebuild", !.subjects = listed, !.content = content]
<1>4. /\ new \in Rebuild /\ new.op = "rebuild"
      /\ new.content = content /\ new.marks = session[w].marks
    BY <1>2 DEF Rebuild, Present, IInv, TypeOK
<1> HIDE DEF new
<1>5. /\ session' \in [Sessions -> Session]
      /\ session'[w].op = "rebuild" /\ session'[w].content = content
      /\ session'[w].marks = session[w].marks
      /\ \A v \in Sessions \ {w} : session'[v] = session[v]
    BY <1>1, <1>3, <1>4 DEF IInv, TypeOK, Session, new
<1>6. UNCHANGED <<committed, late, cursor, timeline, item, raced>>
    BY DEF DeleteAll, sources, models
<1>7. \A v \in Sessions \ {w} : session[v].op \in {"none", "capture"}
    BY DEF DeleteAll
<1>8. TypeOK'
    BY <1>5, <1>6 DEF IInv, TypeOK, Session
<1>9. Owned'
    BY <1>1, <1>5 DEF IInv, Owned, Sessions
<1>10. \A v \in Sessions \ {w} : ~Working(v)' /\ ~Rebuilds(v)' /\ ~Consumes(v)'
    BY <1>5, <1>7 DEF Working, Rebuilds, Consumes
<1>11. ReadIsCommitted'
    BY <1>5, <1>6, <1>10 DEF ReadIsCommitted, Working
<1>12. BatchHasNoGap'
    BY <1>1, <1>10 DEF BatchHasNoGap, Sessions
<1>13. RebuildIsAlone'
    BY <1>5, <1>7, <1>10 DEF RebuildIsAlone
<1>14. RebuildIsComplete'
  <2>1. \A e \in Seen : e <= session[w].marks[StreamOf[e]] => e \in content
    BY <1>1, <1>2, <1>3 DEF IInv, ListIsComplete, Seen
  <2> QED
    BY <1>5, <1>6, <1>10, <2>1 DEF RebuildIsComplete, Seen
<1>15. NothingPassedOver'
    BY <1>6 DEF IInv, NothingPassedOver
<1>16. ListIsComplete'
    BY <1>5, <1>6 DEF IInv, ListIsComplete, Seen
<1> QED
    BY <1>8, <1>9, <1>11, <1>12, <1>13, <1>14, <1>15, <1>16 DEF IInv

\* The cursors are put where everything has been read.
LEMMA FinishAllKeepsInv ==
    ASSUME IInv, NEW w \in Sessions, FinishAll(w)
    PROVE  IInv'
<1> DEFINE content == session[w].content
<1>1. /\ session' \in [Sessions -> Session]
      /\ session'[w].op = "none"
      /\ \A v \in Sessions \ {w} : session'[v] = session[v]
    BY EndedSession DEF FinishAll, IInv
<1>2. /\ Rebuilds(w) /\ UNCHANGED <<committed, late, raced>>
      /\ cursor' = session[w].marks
    BY DEF FinishAll, sources, Marks
<1>3. session[w] \in Rebuild
    BY <1>2 DEF Rebuilds, IInv, TypeOK, Idle, Work
<1>4. content \subseteq committed
    BY <1>2 DEF IInv, ReadIsCommitted
<1>5. content \subseteq timeline' /\ timeline' \subseteq committed
    BY <1>4 DEF FinishAll
<1>6. item' \in [Subjects -> Rows]
    BY DEF FinishAll
<1>7. cursor' \in [Streams -> Events \cup {0}]
    BY <1>2, <1>3 DEF Rebuild
<1>8. TypeOK'
    BY <1>1, <1>2, <1>5, <1>6, <1>7 DEF IInv, TypeOK, Session
<1>9. Owned'
    BY <1>1 DEF IInv, Owned, Sessions
<1>10. \A v \in Sessions : ~Working(v)' /\ ~Rebuilds(v)' /\ ~Consumes(v)'
    BY <1>1, <1>2 DEF IInv, RebuildIsAlone, Working, Rebuilds, Consumes
<1>11. ReadIsCommitted' /\ BatchHasNoGap' /\ RebuildIsAlone' /\ RebuildIsComplete'
    BY <1>10 DEF ReadIsCommitted, BatchHasNoGap, RebuildIsAlone, RebuildIsComplete, Sessions
<1>12. NothingPassedOver'
    BY <1>2, <1>5 DEF IInv, RebuildIsComplete, NothingPassedOver, Seen
<1>13. ListIsComplete'
    BY <1>1, <1>2 DEF IInv, ListIsComplete, Seen
<1> QED
    BY <1>8, <1>9, <1>11, <1>12, <1>13 DEF IInv

-----------------------------------------------------------------------------

LEMMA StepKeepsInv == IInv /\ [Next]_vars => IInv'
<1> SUFFICES ASSUME IInv, [Next]_vars PROVE IInv'
    OBVIOUS
<1>1. ASSUME NEW e \in Events, Commit(e) PROVE IInv'
    BY <1>1, CommitKeepsInv
<1>2. ASSUME NEW st \in Streams, Open(st) PROVE IInv'
    BY <1>2, OpenKeepsInv
<1>3. ASSUME NEW w \in Operators, Capture(w) PROVE IInv'
    BY <1>3, CaptureKeepsInv
<1>4. ASSUME NEW w \in Operators, DeleteAll(w) PROVE IInv'
    BY <1>4, DeleteAllKeepsInv
<1>5. ASSUME NEW w \in Operators, NEW s \in Subjects, Refresh(w, s) PROVE IInv'
    BY <1>5, RefreshKeepsInv
<1>6. ASSUME NEW w \in Sessions, Step(w) PROVE IInv'
    BY <1>6, LoadKeepsInv, CompareKeepsInv, FinishKeepsInv, FinishAllKeepsInv,
       FailKeepsInv DEF Step
<1>7. CASE UNCHANGED vars
    BY <1>7, UntouchedKeepsInv
<1> QED
    BY <1>1, <1>2, <1>3, <1>4, <1>5, <1>6, <1>7 DEF Next

\* Every behaviour keeps the invariant.
THEOREM ProjectionInvariant == Spec => []IInv
<1>1. Init => IInv
    BY InvIsInitial
<1>2. IInv /\ [Next]_vars => IInv'
    BY StepKeepsInv
<1> QED
    BY <1>1, <1>2, PTL DEF Spec

\* Cursors, entries, rows and what sessions have read keep their types, and an entry is of a
\* row that is committed (models/workflow_projection.py).
THEOREM ProjectionTypes == Spec => []TypeOK
<1>1. IInv => TypeOK
    BY DEF IInv
<1> QED
    BY <1>1, ProjectionInvariant, PTL

\* A row behind the cursor of its stream that was not committed behind a reader is in the
\* timeline, whatever jobs, refreshes and rebuilds overlapped and failed (consume_stream,
\* rebuild_all).
THEOREM NothingIsPassedOver == Spec => []NothingPassedOver
<1>1. IInv => NothingPassedOver
    BY DEF IInv
<1> QED
    BY <1>1, ProjectionInvariant, PTL

-----------------------------------------------------------------------------
(* The rows of the subjects *)

\* A row that reflects every committed row up to its revision and none after it.
IsWhole(row, s) ==
    /\ row.content \subseteq About(committed, s)
    /\ row.revision \in About(committed, s) \cup {0}
    /\ \A e \in About(committed, s) : e <= row.revision <=> e \in row.content

\* What a session has in hand of a subject.  A rebuild that others committed into may leave a
\* row that is not whole: then its revision is among what a session that began since has read.
ImageIsSound(w, s) ==
    LET i       == session[w].image[s]
        entries == About(session[w].entries, s)
    IN  /\ i.step = "unread" =>
                /\ entries \subseteq About(session[w].from, s)
                /\ IsWhole(item[s], s) \/ item[s].revision \in About(session[w].from, s) \cup {0}
        /\ i.step \in {"loaded", "compared"} =>
                /\ IsWhole(i.row, s) /\ entries \subseteq i.row.content
                /\ IsWhole(item[s], s) \/ item[s].revision <= i.row.revision
        /\ i.step = "compared" /\ Consumes(w) => ~Newer(i.base, i.row)
        /\ i.step = "skip" => entries \subseteq item[s].content

PassedIsReflected(s) ==
    \A e \in About(Seen, s) : e <= cursor[StreamOf[e]] => e \in item[s].content

RowIsSound(s) ==
    /\ item[s].content \subseteq About(committed, s)
    /\ item[s].revision \in About(committed, s) \cup {0}
    /\ \A e \in item[s].content : e <= item[s].revision
    /\ PassedIsReflected(s)
    /\ \A w \in Sessions : Working(w) => ImageIsSound(w, s)

ItemInv == \A s \in Subjects \ raced : RowIsSound(s)

-----------------------------------------------------------------------------

LEMMA RowTypes ==
    ASSUME NEW row \in Rows
    PROVE  row.content \in SUBSET Nat /\ row.content \in SUBSET Events /\ row.revision \in Nat
<1>1. row.content \in SUBSET Events /\ row.revision \in Events \cup {0}
    BY DEF Rows
<1>2. \A e \in Events : e \in Nat
    BY ProjectionAssumption
<1>3. row.revision \in Nat
    BY <1>1, <1>2
<1>4. \A e \in row.content : e \in Nat /\ e \in Events
    BY <1>1, <1>2
<1> QED
    BY <1>3, <1>4

\* What is not newer than a whole row is part of it.
LEMMA NotNewerIsWithin ==
    ASSUME NEW s \in Subjects, NEW old \in Rows, NEW row \in Rows,
           old.content \subseteq About(committed, s),
           \A e \in old.content : e <= old.revision,
           IsWhole(row, s), ~Newer(old, row)
    PROVE  old.content \subseteq row.content
<1> SUFFICES ASSUME NEW e \in old.content PROVE e \in row.content
    OBVIOUS
<1>1. e \in Nat /\ old.revision \in Nat /\ row.revision \in Nat
    BY RowTypes
<1>2. e <= row.revision
    BY <1>1 DEF Newer
<1> QED
    BY <1>2 DEF IsWhole

\* A whole row that is newer than another one includes it.
LEMMA NewerIncludes ==
    ASSUME NEW s \in Subjects, NEW old \in Rows, NEW row \in Rows,
           IsWhole(row, s), Newer(old, row), IsWhole(old, s) \/ old.revision <= row.revision
    PROVE  row.content \subseteq old.content
<1>1. old.revision \in Nat /\ row.revision \in Nat /\ old.revision > row.revision
    BY RowTypes DEF Newer
<1>2. IsWhole(old, s)
    BY <1>1
<1> SUFFICES ASSUME NEW e \in row.content PROVE e \in old.content
    OBVIOUS
<1>3. e \in Nat /\ e \in About(committed, s) /\ e <= row.revision
    BY RowTypes DEF IsWhole
<1>4. e <= old.revision
    BY <1>1, <1>3
<1> QED
    BY <1>2, <1>3, <1>4 DEF IsWhole

LEMMA ItemInvIsInitial == Init => ItemInv
<1> SUFFICES ASSUME Init PROVE ItemInv
    OBVIOUS
<1>1. \A w \in Sessions : ~Working(w)
    BY DEF Init, Idle, Working
<1> QED
    BY <1>1 DEF Init, ItemInv, RowIsSound, PassedIsReflected, Seen, About, NoItem

LEMMA SubjectsOnlyRace == IInv /\ [Next]_vars => raced \subseteq raced'
<1> SUFFICES ASSUME IInv, [Next]_vars PROVE raced \subseteq raced'
    OBVIOUS
<1>1. ASSUME NEW e \in Events, Commit(e) PROVE raced \subseteq raced'
    BY <1>1 DEF Commit
<1>2. ASSUME NEW st \in Streams, Open(st) PROVE raced \subseteq raced'
    BY <1>2 DEF Open
<1>3. ASSUME NEW w \in Operators, Capture(w) \/ DeleteAll(w) PROVE raced \subseteq raced'
    BY <1>3 DEF Capture, DeleteAll
<1>4. ASSUME NEW w \in Operators, NEW s \in Subjects, Refresh(w, s) PROVE raced \subseteq raced'
    BY <1>4 DEF Refresh
<1>5. ASSUME NEW w \in Sessions, Step(w) PROVE raced \subseteq raced'
  <2>1. ASSUME NEW s \in Subjects, Load(w, s) \/ Compare(w, s) PROVE raced \subseteq raced'
    BY <2>1, Zenon DEF Load, Compare
  <2>2. CASE Finish(w)
    BY <2>2 DEF Finish
  <2>3. CASE FinishAll(w)
    BY <2>3 DEF FinishAll
  <2>4. CASE Fail(w)
    BY <2>4 DEF Fail
  <2> QED
    BY <1>5, <2>1, <2>2, <2>3, <2>4 DEF Step
<1>6. CASE UNCHANGED vars
    BY <1>6 DEF vars
<1> QED
    BY <1>1, <1>2, <1>3, <1>4, <1>5, <1>6 DEF Next

\* A step that changes no row and of one session only what it has in hand.
LEMMA SameRowsKeepItemInv ==
    ASSUME ItemInv, UNCHANGED <<committed, late, cursor, item>>, raced \subseteq raced',
           NEW w \in Sessions,
           \A v \in Sessions \ {w} : session'[v] = session[v],
           \A s \in Subjects \ raced' : RowIsSound(s) /\ Working(w)' => ImageIsSound(w, s)'
    PROVE  ItemInv'
<1> SUFFICES ASSUME NEW s \in Subjects \ raced' PROVE RowIsSound(s)'
    BY DEF ItemInv
<1>1. RowIsSound(s)
    BY DEF ItemInv
<1>2. ASSUME NEW v \in Sessions, Working(v)' PROVE ImageIsSound(v, s)'
  <2>1. CASE v = w
    BY <1>1, <1>2, <2>1
  <2>2. CASE v # w
    BY <1>1, <1>2, <2>2 DEF RowIsSound, Working, ImageIsSound, IsWhole, About, Consumes, Newer
  <2> QED
    BY <2>1, <2>2
<1>3. /\ (item[s].content \subseteq About(committed, s))'
      /\ (item[s].revision \in About(committed, s) \cup {0})'
      /\ (\A e \in item[s].content : e <= item[s].revision)'
      /\ PassedIsReflected(s)'
    BY <1>1 DEF RowIsSound, About, PassedIsReflected, Seen
<1> QED
    BY <1>2, <1>3 DEF RowIsSound

\* What a working session has in hand.
LEMMA ImageTypes ==
    ASSUME TypeOK, NEW w \in Sessions, Working(w), NEW s \in Subjects
    PROVE  LET i == session[w].image[s]
           IN  /\ session[w] \in Work /\ i \in Images
               /\ session[w].entries \in SUBSET Events /\ session[w].from \in SUBSET Events
               /\ i.step \in {"loaded", "compared"} => i.row \in Rows
               /\ i.step = "compared" => i.base \in Rows
<1>1. session[w] \in Work
    BY DEF Working, TypeOK, Idle, Rebuild
<1> DEFINE i == session[w].image[s]
<1>2. /\ i \in Images
      /\ session[w].entries \in SUBSET Events /\ session[w].from \in SUBSET Events
    BY <1>1 DEF Work
<1> HIDE DEF i
<1>3. /\ i.step \in {"loaded", "compared"} => i.row \in Rows
      /\ i.step = "compared" => i.base \in Rows
    BY <1>2 DEF Images, Unread, Skip
<1> QED
    BY <1>1, <1>2, <1>3 DEF i

\* A row that is committed after all others of its subject adds to no past, and what it is
\* not behind has not passed it.
LEMMA CommitKeepsItemInv ==
    ASSUME IInv, ItemInv, NEW e \in Events, Commit(e)
    PROVE  ItemInv'
<1> SUFFICES ASSUME NEW s \in Subjects \ raced' PROVE RowIsSound(s)'
    BY DEF ItemInv
<1>1. /\ e \notin committed /\ committed' = committed \cup {e}
      /\ UNCHANGED <<cursor, timeline, item, session>>
    BY DEF Commit, models
<1>2. late \subseteq late' /\ late' \subseteq late \cup {e} /\ (Behind(e) => e \in late')
    BY DEF Commit
<1>3. s \notin raced /\ RowIsSound(s)
    BY DEF Commit, ItemInv
<1>4. About(committed, s) \subseteq About(committed', s)
    BY <1>1 DEF About
<1>5. ASSUME NEW f \in About(committed', s) \ About(committed, s)
      PROVE  f = e /\ \A g \in About(committed, s) : ~(f <= g)
  <2>1. f = e /\ s = SubjectOf[e]
    BY <1>1 DEF About
  <2>2. \A g \in About(committed, s) : ~(g > e)
    BY <2>1 DEF Commit
  <2> SUFFICES ASSUME NEW g \in About(committed, s), f <= g PROVE FALSE
    BY <2>1
  <2>3. g \in Nat /\ e \in Nat /\ g # e
    BY <1>1, ProjectionAssumption DEF About, IInv, TypeOK
  <2> QED
    BY <2>1, <2>2, <2>3
<1>6. ASSUME NEW row \in Rows, IsWhole(row, s)
      PROVE  IsWhole(row, s)'
  <2>1. row.content \subseteq About(committed', s) /\ row.revision \in About(committed', s) \cup {0}
    BY <1>4, <1>6 DEF IsWhole
  <2>2. ASSUME NEW f \in About(committed', s)
        PROVE  f <= row.revision <=> f \in row.content
    <3>1. CASE f \in About(committed, s)
      BY <1>6, <3>1 DEF IsWhole
    <3>2. CASE f \notin About(committed, s)
      <4>1. f = e /\ \A g \in About(committed, s) : ~(f <= g)
        BY <1>5, <2>2, <3>2
      <4>2. ~(f <= 0)
        BY <4>1, ProjectionAssumption
      <4>3. row.revision \in About(committed, s) \cup {0} /\ f \notin row.content
        BY <1>6, <3>2 DEF IsWhole
      <4> QED
        BY <4>1, <4>2, <4>3
    <3> QED
      BY <3>1, <3>2
  <2> QED
    BY <2>1, <2>2 DEF IsWhole, About
<1>7. ASSUME NEW w \in Sessions, Working(w)' PROVE ImageIsSound(w, s)'
  <2>1. ImageIsSound(w, s) /\ Working(w)
    BY <1>1, <1>3, <1>7 DEF RowIsSound, Working
  <2> DEFINE i == session[w].image[s]
  <2>2. i.step \in {"loaded", "compared"} /\ IsWhole(i.row, s) => IsWhole(i.row, s)'
    <3>1. SUFFICES ASSUME i.step \in {"loaded", "compared"}, IsWhole(i.row, s)
                   PROVE  IsWhole(i.row, s)'
        BY Zenon
    <3>2. i.row \in Rows
        BY <2>1, <3>1, ImageTypes DEF IInv
    <3>3. PICK row \in Rows : row = i.row
        BY <3>2
    <3>4. IsWhole(row, s)'
        BY <1>6, <3>1, <3>3
    <3> QED
        BY <1>1, <3>3, <3>4 DEF IsWhole, About
  <2>3. IsWhole(item[s], s) => IsWhole(item[s], s)'
    <3>1. PICK row \in Rows : row = item[s]
        BY DEF IInv, TypeOK
    <3>2. IsWhole(item[s], s) => IsWhole(row, s)'
        BY <1>6, <3>1
    <3> QED
        BY <1>1, <3>1, <3>2 DEF IsWhole, About
  <2> QED
    BY <1>1, <2>1, <2>2, <2>3 DEF ImageIsSound, About, Consumes, Newer
<1>8. /\ (item[s].content \subseteq About(committed, s))'
      /\ (item[s].revision \in About(committed, s) \cup {0})'
      /\ (\A d \in item[s].content : d <= item[s].revision)'
    BY <1>1, <1>3, <1>4 DEF RowIsSound, About
<1>9. PassedIsReflected(s)'
  <2>1. \A f \in About(Seen, s)' : f \in About(Seen, s) \/ (f = e /\ ~Behind(e))
    BY <1>1, <1>2 DEF Seen, About
  <2> QED
    BY <1>1, <1>3, <2>1 DEF RowIsSound, PassedIsReflected, Behind
<1> QED
    BY <1>7, <1>8, <1>9 DEF RowIsSound

LEMMA StartKeepsItemInv ==
    ASSUME IInv, ItemInv, NEW w \in Sessions, NEW op \in {"consume", "refresh"},
           NEW entries \in SUBSET committed, Start(w, op, entries),
           UNCHANGED <<committed, late, cursor, item, raced>>
    PROVE  ItemInv'
<1> DEFINE new == [op |-> op, entries |-> entries, known |-> entries \cap timeline,
                   from |-> {e \in committed : About(entries, SubjectOf[e]) # {}},
                   image |-> [s \in Subjects |->
                                IF About(entries, s) = {} THEN Skip ELSE Unread]]
<1>1. session' = [session EXCEPT ![w] = new]
    BY DEF Start, Set
<1>2. /\ session'[w] = new
      /\ \A v \in Sessions \ {w} : session'[v] = session[v]
    BY <1>1 DEF IInv, TypeOK
<1>3. ASSUME NEW s \in Subjects \ raced
      PROVE  ImageIsSound(w, s)'
  <2>1. /\ session'[w].entries = entries
        /\ session'[w].from = {e \in committed : About(entries, SubjectOf[e]) # {}}
        /\ session'[w].image[s] = IF About(entries, s) = {} THEN Skip ELSE Unread
    BY <1>2
  <2>2. CASE About(entries, s) = {}
    <3>1. session'[w].image[s].step = "skip" /\ About(session'[w].entries, s) = {}
      BY <2>1, <2>2 DEF Skip
    <3> QED
      BY <3>1 DEF ImageIsSound, About
  <2>3. CASE About(entries, s) # {}
    <3>1. session'[w].image[s].step = "unread"
      BY <2>1, <2>3 DEF Unread
    <3>2. About(session'[w].from, s) = About(committed, s)
      BY <2>1, <2>3 DEF About
    <3>3. About(entries, s) \subseteq About(committed, s)
      BY DEF About
    <3>4. item[s].revision \in About(committed, s) \cup {0}
      BY <1>3 DEF ItemInv, RowIsSound
    <3> QED
      BY <2>1, <3>1, <3>2, <3>3, <3>4 DEF ImageIsSound, About
  <2> QED
    BY <2>2, <2>3
<1> HIDE DEF new
<1> QED
    BY <1>2, <1>3, SameRowsKeepItemInv

LEMMA OpenKeepsItemInv ==
    ASSUME IInv, ItemInv, NEW st \in Streams, Open(st)
    PROVE  ItemInv'
<1> DEFINE batch == First({e \in OfStream(committed, st) : e > cursor[st]})
<1>1. /\ Start(st, "consume", batch)
      /\ UNCHANGED <<committed, late, cursor, item, raced>>
    BY DEF Open, sources, models
<1>2. batch \in SUBSET committed /\ st \in Sessions
    BY DEF OfStream, First, Sessions, IInv, TypeOK
<1> HIDE DEF batch
<1>3. PICK op : op = "consume"
    OBVIOUS
<1>4. op \in {"consume", "refresh"} /\ Start(st, op, batch)
    BY <1>1, <1>3
<1> QED
    BY <1>1, <1>2, <1>4, StartKeepsItemInv

LEMMA RefreshKeepsItemInv ==
    ASSUME IInv, ItemInv, NEW w \in Operators, NEW s \in Subjects, Refresh(w, s)
    PROVE  ItemInv'
<1>1. /\ Start(w, "refresh", About(committed, s))
      /\ UNCHANGED <<committed, late, cursor, item, raced>>
    BY DEF Refresh, sources, models
<1>2. About(committed, s) \in SUBSET committed /\ w \in Sessions
    BY DEF About, Sessions, IInv, TypeOK
<1>3. PICK op : op = "refresh"
    OBVIOUS
<1>4. op \in {"consume", "refresh"} /\ Start(w, op, About(committed, s))
    BY <1>1, <1>3
<1> QED
    BY <1>1, <1>2, <1>4, StartKeepsItemInv

\* A new image of one subject.
LEMMA ImageKeepsItemInv ==
    ASSUME IInv, ItemInv, NEW w \in Sessions, NEW s \in Subjects, NEW i \in Images, Working(w),
           session' = [session EXCEPT ![w].image[s] = i],
           UNCHANGED <<committed, late, cursor, item>>, raced \subseteq raced',
           s \notin raced' =>
                LET entries == About(session[w].entries, s)
                IN  /\ i.step \in {"loaded", "compared", "skip"}
                    /\ i.step \in {"loaded", "compared"} =>
                            /\ IsWhole(i.row, s) /\ entries \subseteq i.row.content
                            /\ IsWhole(item[s], s) \/ item[s].revision <= i.row.revision
                    /\ i.step = "compared" /\ Consumes(w) => ~Newer(i.base, i.row)
                    /\ i.step = "skip" => entries \subseteq item[s].content
    PROVE  ItemInv'
<1>1. session[w] \in Work
    BY ImageTypes DEF IInv
<1> DEFINE new == [session[w] EXCEPT !.image[s] = i]
<1>2. session' = [session EXCEPT ![w] = new]
    OBVIOUS
<1>3. /\ new.op = session[w].op /\ new.entries = session[w].entries
      /\ new.from = session[w].from
      /\ new.image[s] = i
      /\ \A t \in Subjects \ {s} : new.image[t] = session[w].image[t]
    BY <1>1 DEF Work
<1> HIDE DEF new
<1>4. /\ session'[w] = new
      /\ \A v \in Sessions \ {w} : session'[v] = session[v]
    BY <1>2 DEF IInv, TypeOK
<1>5. ASSUME NEW t \in Subjects \ raced', RowIsSound(t)
      PROVE  ImageIsSound(w, t)'
  <2>1. CASE t = s
    <3>1. /\ session'[w].image[s] = i /\ session'[w].entries = session[w].entries
          /\ Consumes(w)' <=> Consumes(w)
      BY <1>3, <1>4 DEF Consumes
    <3>2. s \notin raced'
      BY <2>1
    <3>3. /\ IsWhole(i.row, s)' <=> IsWhole(i.row, s)
          /\ IsWhole(item[s], s)' <=> IsWhole(item[s], s)
          /\ Newer(i.base, i.row)' <=> Newer(i.base, i.row)
      BY DEF IsWhole, About, Newer
    <3>4. ImageIsSound(w, s)'
      BY <3>1, <3>2, <3>3 DEF ImageIsSound, About, IsWhole, Newer
    <3> QED
      BY <2>1, <3>4
  <2>2. CASE t # s
    <3>1. /\ session'[w].image[t] = session[w].image[t]
          /\ session'[w].entries = session[w].entries
          /\ session'[w].from = session[w].from
          /\ Consumes(w)' <=> Consumes(w)
      BY <1>3, <1>4, <2>2 DEF Consumes
    <3>2. PICK j : j = session[w].image[t]
      OBVIOUS
    <3>3. /\ IsWhole(j.row, t)' <=> IsWhole(j.row, t)
          /\ IsWhole(item[t], t)' <=> IsWhole(item[t], t)
          /\ Newer(j.base, j.row)' <=> Newer(j.base, j.row)
      BY DEF IsWhole, About, Newer
    <3>4. ImageIsSound(w, t)
      BY <1>5 DEF RowIsSound
    <3> QED
      BY <3>1, <3>2, <3>3, <3>4 DEF ImageIsSound, About, IsWhole, Newer
  <2> QED
    BY <2>1, <2>2
<1> QED
    BY <1>4, <1>5, SameRowsKeepItemInv

\* What is read of a subject and not torn is whole, and at least what was there before.
LEMMA LoadKeepsItemInv ==
    ASSUME IInv, ItemInv, NEW w \in Sessions, NEW s \in Subjects, Load(w, s)
    PROVE  ItemInv'
<1>1. PICK row \in Readings(About(session[w].from, s), About(committed, s)) :
            /\ session' = [session EXCEPT ![w].image[s] = [step |-> "loaded", row |-> row]]
            /\ raced' = IF Torn(row, s) THEN raced \cup {s} ELSE raced
    BY DEF Load
<1> DEFINE i == [step |-> "loaded", row |-> row]
<1>2. /\ row \in Rows /\ row.revision \in Nat
      /\ row.content \subseteq About(committed, s) /\ About(session[w].from, s) \subseteq row.content
      /\ row.revision \in About(committed, s) \cup {0}
      /\ \A e \in row.content : e <= row.revision
    BY ReadingTypes, RowTypes DEF IInv, Readings
<1>3. i \in Images /\ i.step = "loaded" /\ i.row = row
    BY <1>2 DEF Images
<1>4. /\ Working(w) /\ session[w].image[s].step = "unread"
      /\ session' = [session EXCEPT ![w].image[s] = i]
  <2>1. Working(w) /\ session[w].image[s] = Unread
    BY DEF Load
  <2> QED
    BY <1>1, <2>1 DEF Unread
<1>5. UNCHANGED <<committed, late, cursor, item>> /\ raced \subseteq raced'
    BY <1>1 DEF Load, sources, models
<1> HIDE DEF i
<1>6. ASSUME s \notin raced'
      PROVE  /\ IsWhole(row, s) /\ About(session[w].entries, s) \subseteq row.content
             /\ IsWhole(item[s], s) \/ item[s].revision <= row.revision
  <2>1. ~Torn(row, s) /\ s \notin raced
    BY <1>1, <1>6
  <2>2. ImageIsSound(w, s)
    BY <1>4, <2>1 DEF ItemInv, RowIsSound
  <2>3. IsWhole(row, s)
    BY <1>2, <2>1 DEF Torn, IsWhole
  <2>4. About(session[w].entries, s) \subseteq row.content
    BY <1>2, <1>4, <2>2 DEF ImageIsSound
  <2>5. IsWhole(item[s], s) \/ item[s].revision \in row.content \cup {0}
    BY <1>2, <1>4, <2>2 DEF ImageIsSound
  <2>6. item[s].revision \in row.content \cup {0} => item[s].revision <= row.revision
    BY <1>2
  <2> QED
    BY <2>3, <2>4, <2>5, <2>6
<1> QED
    BY <1>3, <1>4, <1>5, <1>6, ImageKeepsItemInv

\* A row that stays reflects what the session would have written.
LEMMA CompareKeepsItemInv ==
    ASSUME IInv, ItemInv, NEW w \in Sessions, NEW s \in Subjects, Compare(w, s)
    PROVE  ItemInv'
<1> DEFINE old == session[w].image[s]
           stays == Consumes(w) /\ Newer(item[s], old.row)
           i == IF stays THEN Skip
                ELSE [step |-> "compared", row |-> old.row, base |-> item[s]]
<1>1. Working(w) /\ old.step = "loaded"
    BY DEF Compare
<1>2. old.row \in Rows /\ item[s] \in Rows
    BY <1>1, ImageTypes DEF IInv, TypeOK
<1>3. i \in Images
    BY <1>2 DEF Images
<1>4. session' = [session EXCEPT ![w].image[s] = i]
    BY DEF Compare
<1>5. UNCHANGED <<committed, late, cursor, item, raced>>
    BY DEF Compare, sources, models
<1>6. ASSUME s \notin raced
      PROVE  /\ IsWhole(old.row, s) /\ About(session[w].entries, s) \subseteq old.row.content
             /\ IsWhole(item[s], s) \/ item[s].revision <= old.row.revision
    BY <1>1, <1>6 DEF ItemInv, RowIsSound, ImageIsSound
<1>7. CASE stays
  <2>1. i.step = "skip"
    BY <1>7 DEF Skip
  <2>2. ASSUME s \notin raced PROVE About(session[w].entries, s) \subseteq item[s].content
    <3>1. old.row.content \subseteq item[s].content
      BY <1>2, <1>6, <1>7, <2>2, NewerIncludes
    <3> QED
      BY <1>6, <2>2, <3>1
  <2> HIDE DEF i
  <2> QED
    BY <1>1, <1>3, <1>4, <1>5, <2>1, <2>2, ImageKeepsItemInv
<1>8. CASE ~stays
  <2>1. i.step = "compared" /\ i.row = old.row /\ i.base = item[s]
    BY <1>8
  <2> HIDE DEF i
  <2> QED
    BY <1>1, <1>3, <1>4, <1>5, <1>6, <1>8, <2>1, ImageKeepsItemInv
<1> QED
    BY <1>7, <1>8

-----------------------------------------------------------------------------

\* What a session writes of an unraced subject takes nothing back, and has what the cursor
\* passes with it.
LEMMA FinishKeepsItemInv ==
    ASSUME IInv, ItemInv, NEW w \in Sessions, Finish(w)
    PROVE  ItemInv'
<1> SUFFICES ASSUME NEW s \in Subjects \ raced' PROVE RowIsSound(s)'
    BY DEF ItemInv
<1> DEFINE old == session[w].image[s]
           entries == About(session[w].entries, s)
<1>1. /\ Working(w) /\ committed' = committed /\ late' = late
      /\ session'[w].op = "none" /\ \A v \in Sessions \ {w} : session'[v] = session[v]
    BY EndedSession DEF Finish, Ready, IInv, sources
<1>2. s \notin raced /\ RowIsSound(s) /\ ImageIsSound(w, s)
    BY <1>1 DEF Finish, ItemInv, RowIsSound
<1>3. /\ item[s].content \subseteq item'[s].content /\ entries \subseteq item'[s].content
      /\ IsWhole(item'[s], s) \/ item'[s] = item[s]
      /\ item'[s].content \subseteq About(committed, s)
      /\ item'[s].revision \in About(committed, s) \cup {0}
      /\ \A e \in item'[s].content : e <= item'[s].revision
  <2>1. CASE s \in Written(w)
    <3>1. old.step = "compared" /\ item'[s] = old.row
      BY <2>1 DEF Finish, Written
    <3>2. IsWhole(old.row, s) /\ entries \subseteq old.row.content
      BY <1>2, <3>1 DEF ImageIsSound
    <3>3. old.row \in Rows /\ item[s] \in Rows
      BY <1>1, <3>1, ImageTypes DEF IInv, TypeOK
    <3>4. /\ item[s] = old.base
          /\ (Consumes(w) \/ ~Newer(item[s], old.row))
      BY <2>1 DEF Finish
    <3>5. ~Newer(item[s], old.row)
      BY <1>2, <3>1, <3>4 DEF ImageIsSound
    <3>6. item[s].content \subseteq old.row.content
      BY <1>2, <3>2, <3>3, <3>5, NotNewerIsWithin DEF RowIsSound
    <3> QED
      BY <3>1, <3>2, <3>6 DEF IsWhole
  <2>2. CASE s \notin Written(w)
    <3>1. item'[s] = item[s]
      BY <2>2 DEF Finish
    <3>2. old = Skip
      BY <2>2 DEF Finish, Ready
    <3>3. entries \subseteq item[s].content
      BY <1>2, <3>2 DEF ImageIsSound, Skip
    <3> QED
      BY <1>2, <3>1, <3>3 DEF RowIsSound
  <2> QED
    BY <2>1, <2>2
<1>4. PassedIsReflected(s)'
  <2> SUFFICES ASSUME NEW e \in About(Seen, s), e <= cursor'[StreamOf[e]]
               PROVE  e \in item'[s].content
    BY <1>1 DEF PassedIsReflected, Seen, About
  <2>1. e \in Seen /\ StreamOf[e] \in Streams
    BY ProjectionAssumption DEF Seen, About, IInv, TypeOK
  <2>2. CASE e <= cursor[StreamOf[e]]
    BY <1>2, <1>3, <2>2 DEF RowIsSound, PassedIsReflected
  <2>3. CASE ~(e <= cursor[StreamOf[e]])
    <3>1. /\ Consumes(w)
          /\ \E f \in session[w].entries : cursor' = [cursor EXCEPT ![w] = f]
      BY <2>3 DEF Finish
    <3>2. PICK f \in session[w].entries : cursor' = [cursor EXCEPT ![w] = f]
      BY <3>1
    <3>3. w = StreamOf[e] /\ e <= f
      BY <2>1, <2>3, <3>2 DEF IInv, TypeOK
    <3>4. e \in session[w].entries
      BY <2>1, <2>3, <3>1, <3>3 DEF IInv, BatchHasNoGap
    <3> QED
      BY <1>3, <3>4 DEF About
  <2> QED
    BY <2>2, <2>3
<1>5. ASSUME NEW v \in Sessions, Working(v)' PROVE ImageIsSound(v, s)'
  <2>1. session'[v] = session[v] /\ Working(v)
    BY <1>1, <1>5 DEF Working
  <2>2. ImageIsSound(v, s)
    BY <1>2, <2>1 DEF RowIsSound
  <2>3. PICK j : j = session[v].image[s]
    OBVIOUS
  <2>4. /\ IsWhole(j.row, s)' <=> IsWhole(j.row, s)
        /\ Newer(j.base, j.row)' <=> Newer(j.base, j.row)
        /\ Consumes(v)' <=> Consumes(v)
    BY <1>1, <2>1 DEF IsWhole, About, Newer, Consumes
  <2>5. IsWhole(item[s], s)' \/ item'[s] = item[s]
    BY <1>1, <1>3 DEF IsWhole, About
  <2>6. /\ j.step = "unread" =>
                \/ IsWhole(item[s], s)'
                \/ item'[s].revision \in About(session[v].from, s) \cup {0}
        /\ j.step \in {"loaded", "compared"} =>
                IsWhole(item[s], s)' \/ item'[s].revision <= j.row.revision
        /\ j.step = "skip" => About(session[v].entries, s) \subseteq item'[s].content
    <3>1. ASSUME item'[s] = item[s], IsWhole(item[s], s) PROVE IsWhole(item[s], s)'
      BY <1>1, <3>1 DEF IsWhole, About
    <3> QED
      BY <1>3, <2>2, <2>3, <2>5, <3>1 DEF ImageIsSound
  <2> QED
    BY <2>1, <2>2, <2>3, <2>4, <2>5, <2>6 DEF ImageIsSound, About
<1> QED
    BY <1>1, <1>3, <1>4, <1>5 DEF RowIsSound

\* A rebuild is alone, and what it derives holds everything up to its marks.
LEMMA FinishAllKeepsItemInv ==
    ASSUME IInv, ItemInv, NEW w \in Sessions, FinishAll(w)
    PROVE  ItemInv'
<1> SUFFICES ASSUME NEW s \in Subjects \ raced' PROVE RowIsSound(s)'
    BY DEF ItemInv
<1> DEFINE content == session[w].content
<1>1. /\ session'[w].op = "none"
      /\ \A v \in Sessions \ {w} : session'[v] = session[v]
    BY EndedSession DEF FinishAll, IInv
<1>2. /\ Rebuilds(w) /\ UNCHANGED <<committed, late>>
      /\ cursor' = session[w].marks
    BY DEF FinishAll, sources, Marks
<1>3. content \subseteq committed
    BY <1>2 DEF IInv, ReadIsCommitted
<1>4. item'[s] \in Readings(About(content, s),
                             About({e \in committed : SubjectOf[e] \in session[w].subjects}, s))
    BY DEF FinishAll
<1>5. /\ About(content, s) \subseteq item'[s].content /\ item'[s].content \subseteq About(committed, s)
      /\ item'[s].revision \in About(committed, s) \cup {0}
      /\ \A e \in item'[s].content : e <= item'[s].revision
    BY <1>4 DEF Readings, About
<1>6. PassedIsReflected(s)'
    BY <1>2, <1>5 DEF IInv, RebuildIsComplete, PassedIsReflected, Seen, About
<1>7. \A v \in Sessions : ~Working(v)'
    BY <1>1, <1>2 DEF IInv, RebuildIsAlone, Working, Rebuilds
<1> QED
    BY <1>2, <1>5, <1>6, <1>7 DEF RowIsSound

\* A session that ends, or that is a rebuild, has no image.
LEMMA NoImageKeepsItemInv ==
    ASSUME ItemInv, UNCHANGED <<committed, late, cursor, item, raced>>,
           NEW w \in Sessions, ~Working(w)',
           \A v \in Sessions \ {w} : session'[v] = session[v]
    PROVE  ItemInv'
    BY SameRowsKeepItemInv

LEMMA CaptureKeepsItemInv ==
    ASSUME IInv, ItemInv, NEW w \in Operators, Capture(w) \/ DeleteAll(w)
    PROVE  ItemInv'
<1>1. w \in Sessions /\ session \in [Sessions -> {Idle} \cup Work \cup Rebuild]
    BY DEF Sessions, IInv, TypeOK
<1>2. CASE Capture(w)
  <2>1. PICK ends : session' = [session EXCEPT ![w] =
                    [op |-> "capture", marks |-> ends, content |-> {}, subjects |-> Present]]
    BY <1>2 DEF Capture, Set
  <2>2. ~Working(w)' /\ \A v \in Sessions \ {w} : session'[v] = session[v]
    BY <1>1, <2>1 DEF Working
  <2> QED
    BY <1>1, <1>2, <2>2, NoImageKeepsItemInv DEF Capture, sources, models
<1>3. CASE DeleteAll(w)
  <2>1. PICK listed, content : session' = [session EXCEPT ![w] =
            [session[w] EXCEPT !.op = "rebuild", !.subjects = listed, !.content = content]]
    BY <1>3 DEF DeleteAll, Set
  <2>2. session[w] \in Rebuild
    <3>1. session[w].op = "capture"
      BY <1>3 DEF DeleteAll
    <3> QED
      BY <1>1, <3>1 DEF Idle, Work
  <2>3. session'[w].op = "rebuild"
    BY <1>1, <2>1, <2>2 DEF Rebuild
  <2>4. ~Working(w)' /\ \A v \in Sessions \ {w} : session'[v] = session[v]
    BY <1>1, <2>1, <2>3 DEF Working
  <2> QED
    BY <1>1, <1>3, <2>4, NoImageKeepsItemInv DEF DeleteAll, sources, models
<1> QED
    BY <1>2, <1>3

LEMMA FailKeepsItemInv ==
    ASSUME IInv, ItemInv, NEW w \in Sessions, Fail(w)
    PROVE  ItemInv'
<1>1. ~Working(w)' /\ \A v \in Sessions \ {w} : session'[v] = session[v]
    BY EndedSession DEF Fail, IInv, Working
<1> QED
    BY <1>1, NoImageKeepsItemInv DEF Fail, sources, models

LEMMA UntouchedKeepsItemInv == ItemInv /\ UNCHANGED vars => ItemInv'
<1> SUFFICES ASSUME ItemInv, UNCHANGED vars, NEW s \in Subjects \ raced'
             PROVE  RowIsSound(s)'
    BY DEF ItemInv
<1>1. UNCHANGED <<committed, late, cursor, item, session, raced>> /\ RowIsSound(s)
    BY DEF ItemInv, vars
<1>2. ASSUME NEW w \in Sessions, Working(w)' PROVE ImageIsSound(w, s)'
  <2>1. ImageIsSound(w, s)
    BY <1>1, <1>2 DEF RowIsSound, Working
  <2> QED
    BY <1>1, <2>1 DEF ImageIsSound, IsWhole, About, Consumes, Newer
<1>3. PassedIsReflected(s)'
    BY <1>1 DEF RowIsSound, PassedIsReflected, Seen, About
<1> QED
    BY <1>1, <1>2, <1>3 DEF RowIsSound, About

LEMMA StepKeepsItemInv == IInv /\ ItemInv /\ [Next]_vars => ItemInv'
<1> SUFFICES ASSUME IInv, ItemInv, [Next]_vars PROVE ItemInv'
    OBVIOUS
<1>1. ASSUME NEW e \in Events, Commit(e) PROVE ItemInv'
    BY <1>1, CommitKeepsItemInv
<1>2. ASSUME NEW st \in Streams, Open(st) PROVE ItemInv'
    BY <1>2, OpenKeepsItemInv
<1>3. ASSUME NEW w \in Operators, Capture(w) \/ DeleteAll(w) PROVE ItemInv'
    BY <1>3, CaptureKeepsItemInv
<1>4. ASSUME NEW w \in Operators, NEW s \in Subjects, Refresh(w, s) PROVE ItemInv'
    BY <1>4, RefreshKeepsItemInv
<1>5. ASSUME NEW w \in Sessions, Step(w) PROVE ItemInv'
    BY <1>5, LoadKeepsItemInv, CompareKeepsItemInv, FinishKeepsItemInv,
       FinishAllKeepsItemInv, FailKeepsItemInv DEF Step
<1>6. CASE UNCHANGED vars
    BY <1>6, UntouchedKeepsItemInv
<1> QED
    BY <1>1, <1>2, <1>3, <1>4, <1>5, <1>6 DEF Next

\* When the streams have passed everything a subject did, and none of it was committed behind
\* a reader, its row reflects all of it and nothing else, unless sessions raced on the row, its
\* source rows were committed out of their order, or a session read the new time with the old
\* state: the comparison of revisions keeps a row that includes what the session would write
\* (project_task, project_run).
THEOREM ItemsAreCurrent == Spec => []ItemIsCurrent
<1>1. Init => ItemInv
    BY ItemInvIsInitial
<1>2. IInv /\ ItemInv /\ [Next]_vars => ItemInv'
    BY StepKeepsItemInv
<1>3. ItemInv => ItemIsCurrent
  <2> SUFFICES ASSUME ItemInv, NEW s \in Subjects \ raced,
                      About(committed, s) \cap late = {},
                      \A e \in About(committed, s) : e <= cursor[StreamOf[e]]
               PROVE  item[s].content = About(committed, s)
    BY DEF ItemIsCurrent
  <2>1. RowIsSound(s)
    BY DEF ItemInv
  <2>2. About(Seen, s) = About(committed, s)
    BY DEF Seen, About
  <2> QED
    BY <2>1, <2>2 DEF RowIsSound, PassedIsReflected
<1> QED
    BY <1>1, <1>2, <1>3, ProjectionInvariant, PTL DEF Spec
=============================================================================
