--------------------------- MODULE TemplatesProofs ---------------------------
(***************************************************************************)
(* Proofs about Templates for any number of families, versions, runs and   *)
(* commands.                                                               *)
(*                                                                         *)
(* As long as no publication and other command were under way at the same  *)
(* time, at most one version of a family is in force and no families form  *)
(* a circle: what the one publication under way has read of its siblings,  *)
(* and of the chains of the others, is still true, and what a save or a    *)
(* deletion under way has read as a draft still is one, so neither touches *)
(* what is in force.                                                       *)
(*                                                                         *)
(* Chains of runs need no such condition: a run knows the families of all  *)
(* the runs before it, and a run that has chained is marked.               *)
(***************************************************************************)
EXTENDS Templates, Integers, WellFoundedInduction, TLAPS

-----------------------------------------------------------------------------
(* One version of a family in force *)

RowType ==
    /\ template \in [Ids -> Row]
    /\ req \in [Requests -> Loaded \cup {Idle}]
    /\ overlapped \in BOOLEAN

\* A publication under way is the only command under way.
OnePublication ==
    ~overlapped => \A r, q \in Requests : Doing(r, "publish") /\ req[q] # Idle => r = q

SiblingsAreCurrent ==
    ~overlapped => \A r \in Requests : Doing(r, "publish") => req[r].siblings = Siblings(req[r].id)

\* What a command under way has read as a draft is a draft.
DraftsAreCurrent ==
    ~overlapped => \A r \in Requests : req[r] # Idle => template[req[r].id].status = "draft"

IInv == RowType /\ OnePublication /\ SiblingsAreCurrent /\ DraftsAreCurrent /\ OneVersionInForce

LEMMA InvIsInitial == Init => IInv
<1> SUFFICES ASSUME Init PROVE IInv
    OBVIOUS
<1>1. NoRow \in Row
    BY DEF NoRow, Row, Targets
<1>2. RowType
    BY <1>1 DEF Init, RowType
<1>3. OneVersionInForce
    BY DEF Init, OneVersionInForce, Active, NoRow
<1> QED
    BY <1>2, <1>3 DEF Init, IInv, OnePublication, SiblingsAreCurrent, DraftsAreCurrent, Doing

LEMMA UntouchedKeepsInv ==
    ASSUME IInv, UNCHANGED <<template, req, overlapped>>
    PROVE  IInv'
    BY DEF IInv, RowType, OnePublication, SiblingsAreCurrent, DraftsAreCurrent, Doing, Siblings,
           ActiveIn, OneVersionInForce, Active

LEMMA NoClash ==
    ASSUME NEW op, overlapped \in BOOLEAN, overlapped' = (overlapped \/ Clash(op))
    PROVE  /\ overlapped' \in BOOLEAN
           /\ ~overlapped' => ~overlapped /\ ~Clash(op)
    BY Zenon

\* A command that is one step puts no version in force, and changes no draft into anything else.
LEMMA PutKeepsInv ==
    ASSUME IInv, NEW id, NEW row \in Row, row.status # "active",
           row.status = "draft" \/ template[id].status # "draft", Put(id, row)
    PROVE  IInv'
<1>1. overlapped' = (overlapped \/ Clash("put")) /\ req' = req
    BY DEF Put
<1>2. overlapped' \in BOOLEAN /\ (~overlapped' => ~overlapped /\ ~Clash("put"))
    BY <1>1, NoClash DEF IInv, RowType
<1>3. template' = [template EXCEPT ![id] = row]
    BY DEF Put
<1>4. template' \in [Ids -> Row]
    BY <1>3 DEF IInv, RowType
<1>5. \A other \in Ids : /\ Active(other)' => Active(other)
                         /\ template[other].status = "draft" => template'[other].status = "draft"
    BY <1>3 DEF IInv, RowType, Active
<1>6. OneVersionInForce'
    BY <1>2, <1>5 DEF IInv, OneVersionInForce
<1>7. ~overlapped' => \A r \in Requests : ~Doing(r, "publish")'
    BY <1>1, <1>2 DEF Clash, Doing
<1>8. \A r \in Requests : req[r] # Idle => req[r].id \in Ids
    BY DEF IInv, RowType, Loaded
<1>9. DraftsAreCurrent'
    BY <1>1, <1>2, <1>5, <1>8 DEF IInv, DraftsAreCurrent
<1> QED
    BY <1>1, <1>2, <1>4, <1>6, <1>7, <1>9 DEF IInv, RowType, OnePublication, SiblingsAreCurrent

\* A command reads a draft, and a publication which versions it replaces.
LEMMA BeginKeepsInv ==
    ASSUME IInv, NEW r \in Requests, NEW op \in Ops, NEW id \in Ids, NEW next \in Targets,
           Begin(r, op, id, next)
    PROVE  IInv'
<1> DEFINE new == [op |-> op, id |-> id, next |-> next,
                   siblings |-> IF op = "publish" THEN Siblings(id) ELSE {}]
<1>1. overlapped' = (overlapped \/ Clash(op)) /\ template' = template
    BY DEF Begin
<1>2. overlapped' \in BOOLEAN /\ (~overlapped' => ~overlapped /\ ~Clash(op))
    BY <1>1, NoClash DEF IInv, RowType
<1>3. /\ new \in Loaded /\ new.id = id /\ new.op = op
      /\ op = "publish" => new.siblings = Siblings(id)
    BY DEF Loaded, Siblings, ActiveIn
<1>4. req' = [req EXCEPT ![r] = new]
    BY DEF Begin
<1> HIDE DEF new
<1>5. /\ req' \in [Requests -> Loaded \cup {Idle}] /\ req'[r] = new
      /\ \A q \in Requests \ {r} : req'[q] = req[q]
    BY <1>3, <1>4 DEF IInv, RowType
<1>6. ~overlapped' => \A q \in Requests \ {r} : /\ ~Doing(q, "publish")'
                                                /\ op = "publish" => req'[q] = Idle
    BY <1>2, <1>5 DEF Clash, Doing
<1>7. Siblings(id)' = Siblings(id)
    BY <1>1 DEF Siblings, ActiveIn, Active
<1>8. OnePublication'
    BY <1>3, <1>5, <1>6 DEF OnePublication, Doing
<1>9. SiblingsAreCurrent'
    BY <1>3, <1>5, <1>6, <1>7 DEF SiblingsAreCurrent, Doing
<1>10. DraftsAreCurrent'
  <2>1. template[id].status = "draft"
    BY DEF Begin, Allowed
  <2> QED
    BY <1>1, <1>2, <1>3, <1>5, <2>1 DEF IInv, DraftsAreCurrent
<1>11. OneVersionInForce'
    BY <1>1, <1>2 DEF IInv, OneVersionInForce, Active
<1> QED
    BY <1>1, <1>2, <1>5, <1>8, <1>9, <1>10, <1>11 DEF IInv, RowType

\* A publication writes: its version is in force and the ones it has read are not.
LEMMA PublishKeepsInv ==
    ASSUME IInv, NEW r \in Requests, Publish(r)
    PROVE  IInv'
<1>1. PICK new \in Loaded : req[r] = new
    BY DEF Publish, Doing, IInv, RowType
<1>2. /\ new # Idle /\ overlapped' = overlapped
      /\ template' = [other \in Ids |->
            IF other = new.id THEN [template[other] EXCEPT !.status = "active"]
            ELSE IF other \in new.siblings THEN [template[other] EXCEPT !.status = "archived"]
            ELSE template[other]]
      /\ req' = [req EXCEPT ![r] = Idle]
    BY <1>1 DEF Publish, Doing
<1>3. /\ template' \in [Ids -> Row]
      /\ \A other \in Ids : Active(other)' =>
            other = new.id \/ (other \notin new.siblings /\ Active(other))
    BY <1>2 DEF IInv, RowType, Row, Active
<1>4. /\ req' \in [Requests -> Loaded \cup {Idle}]
      /\ \A q \in Requests : req'[q] # Idle => q # r /\ req'[q] = req[q]
    BY <1>2 DEF IInv, RowType
<1>5. ~overlapped' => \A q \in Requests : req'[q] = Idle
    BY <1>1, <1>2, <1>4 DEF IInv, OnePublication, Publish, Doing
<1>6. OneVersionInForce'
    <2> SUFFICES ASSUME ~overlapped,
                        NEW a \in Ids, NEW b \in Ids, Active(a)', Active(b)', a[1] = b[1]
                 PROVE  a = b
        BY <1>2 DEF OneVersionInForce
    <2>1. new.siblings = {c \in Ids : c[1] = new.id[1] /\ Active(c)} \ {new.id}
        BY <1>1, <1>2 DEF IInv, SiblingsAreCurrent, Siblings, ActiveIn, Publish
    <2>2. Active(a) /\ Active(b) => a = b
        BY DEF IInv, OneVersionInForce
    <2> QED
        BY <1>3, <2>1, <2>2
<1> QED
    BY <1>2, <1>3, <1>4, <1>5, <1>6
       DEF IInv, RowType, OnePublication, SiblingsAreCurrent, DraftsAreCurrent, Doing

\* What a command ends with that is no publication: it changes nothing that is in force, and
\* nothing at all where it came upon a publication.
Ends ==
    /\ RowType'
    /\ overlapped' = overlapped
    /\ \A q \in Requests : req'[q] # Idle => req'[q] = req[q]
    /\ ~overlapped =>
        /\ \A id \in Ids : Active(id)' => Active(id) /\ template'[id].next = template[id].next
        /\ \A q \in Requests : req'[q] # Idle => template'[req[q].id].status = "draft"
        /\ template' = template \/ \A q \in Requests : ~Doing(q, "publish")

LEMMA EndsKeepsInv ==
    ASSUME IInv, Ends
    PROVE  IInv'
<1>1. OnePublication'
    BY DEF Ends, IInv, OnePublication, Doing
<1>2. SiblingsAreCurrent'
  <2> SUFFICES ASSUME ~overlapped, NEW q \in Requests, Doing(q, "publish")'
               PROVE  req'[q].siblings = Siblings(req[q].id)'
    BY DEF SiblingsAreCurrent, Ends
  <2>1. req'[q] = req[q] /\ Doing(q, "publish")
    BY DEF Ends, Doing
  <2>2. template' = template
    BY <2>1 DEF Ends
  <2> QED
    BY <2>1, <2>2 DEF IInv, SiblingsAreCurrent, Siblings, ActiveIn, Active
<1>3. DraftsAreCurrent'
    BY DEF Ends, DraftsAreCurrent
<1>4. OneVersionInForce'
    BY DEF Ends, IInv, OneVersionInForce
<1> QED
    BY <1>1, <1>2, <1>3, <1>4 DEF IInv, Ends

LEMMA SaveEnds ==
    ASSUME IInv, NEW r \in Requests, Save(r)
    PROVE  Ends
<1>1. PICK old \in Loaded : req[r] = old /\ old # Idle /\ old.op = "save"
    BY DEF Save, Doing, IInv, RowType
<1>2. /\ template' = [template EXCEPT ![old.id].next = old.next]
      /\ req' = [req EXCEPT ![r] = Idle] /\ overlapped' = overlapped
      /\ old.id \in Ids /\ old.next \in Targets
    BY <1>1 DEF Save, Loaded
<1>3. /\ template' \in [Ids -> Row]
      /\ \A id \in Ids : /\ template'[id].status = template[id].status
                         /\ id # old.id => template'[id] = template[id]
    BY <1>2 DEF IInv, RowType, Row
<1>4. /\ req' \in [Requests -> Loaded \cup {Idle}]
      /\ \A q \in Requests : req'[q] # Idle => req'[q] = req[q] /\ req[q].id \in Ids
    BY <1>2 DEF IInv, RowType, Loaded
<1>5. ~overlapped => \A id \in Ids : Active(id)' => Active(id) /\ template'[id].next = template[id].next
    BY <1>1, <1>3 DEF IInv, DraftsAreCurrent, Active
<1>6. ~overlapped => \A q \in Requests : req'[q] # Idle => template'[req[q].id].status = "draft"
    BY <1>3, <1>4 DEF IInv, DraftsAreCurrent
<1>7. ~overlapped => \A q \in Requests : ~Doing(q, "publish")
    BY <1>1 DEF IInv, OnePublication, Doing
<1> QED
    BY <1>2, <1>3, <1>4, <1>5, <1>6, <1>7 DEF Ends, IInv, RowType

LEMMA DeleteEnds ==
    ASSUME IInv, NEW r \in Requests, Delete(r)
    PROVE  Ends
<1>1. PICK old \in Loaded : req[r] = old /\ old # Idle /\ old.op = "delete"
    BY DEF Delete, Doing, IInv, RowType
<1>2. /\ template' = [template EXCEPT ![old.id] = NoRow] /\ overlapped' = overlapped
      /\ req' = [q \in Requests |->
            IF req[q] # Idle /\ old.id \in {req[q].id} \cup req[q].siblings THEN Idle ELSE req[q]]
      /\ old.id \in Ids
    BY <1>1 DEF Delete, Loaded
<1>3. NoRow \in Row /\ NoRow.status # "active"
    BY DEF NoRow, Row, Targets
<1>4. /\ template' \in [Ids -> Row]
      /\ \A id \in Ids : IF id = old.id THEN template'[id] = NoRow ELSE template'[id] = template[id]
    BY <1>2, <1>3 DEF IInv, RowType
<1>5. /\ req' \in [Requests -> Loaded \cup {Idle}]
      /\ \A q \in Requests : req'[q] # Idle =>
            req'[q] = req[q] /\ req[q].id \in Ids /\ req[q].id # old.id
    BY <1>2 DEF IInv, RowType, Loaded
<1>6. \A id \in Ids : Active(id)' => Active(id) /\ template'[id].next = template[id].next
    BY <1>3, <1>4 DEF Active
<1>7. ~overlapped => \A q \in Requests : req'[q] # Idle => template'[req[q].id].status = "draft"
    BY <1>4, <1>5 DEF IInv, DraftsAreCurrent
<1>8. ~overlapped => \A q \in Requests : ~Doing(q, "publish")
    BY <1>1 DEF IInv, OnePublication, Doing
<1> QED
    BY <1>2, <1>4, <1>5, <1>6, <1>7, <1>8 DEF Ends, IInv, RowType

LEMMA RefuseEnds ==
    ASSUME IInv, NEW r \in Requests, Refuse(r)
    PROVE  Ends
<1>1. /\ req' = [req EXCEPT ![r] = Idle] /\ UNCHANGED <<template, overlapped>>
    BY DEF Refuse
<1>2. /\ req' \in [Requests -> Loaded \cup {Idle}]
      /\ \A q \in Requests : req'[q] # Idle => req'[q] = req[q]
    BY <1>1 DEF IInv, RowType
<1> QED
    BY <1>1, <1>2 DEF IInv, RowType, Ends, DraftsAreCurrent, Active

-----------------------------------------------------------------------------
(* What is reached in a graph *)

Follows(G, C) == \A x \in C, y \in G.node : <<x, y>> \in G.edge => y \in C

\* It is the least set that holds the successors of the node and follows the edges.
LEMMA ReachedIsLeast ==
    ASSUME NEW G, NEW n
    PROVE  /\ Reached(G, n) \subseteq G.node
           /\ \A y \in G.node : <<n, y>> \in G.edge => y \in Reached(G, n)
           /\ Follows(G, Reached(G, n))
           /\ \A C \in SUBSET G.node :
                Follows(G, C) /\ (\A y \in G.node : <<n, y>> \in G.edge => y \in C)
                    => Reached(G, n) \subseteq C
<1>1. \A C \in SUBSET G.node :
            Successors(G, n) \cup AllSuccessors(G, C) \subseteq C <=>
                Follows(G, C) /\ \A y \in G.node : <<n, y>> \in G.edge => y \in C
  <2> SUFFICES ASSUME NEW C \in SUBSET G.node
               PROVE  Successors(G, n) \cup AllSuccessors(G, C) \subseteq C <=>
                        Follows(G, C) /\ \A y \in G.node : <<n, y>> \in G.edge => y \in C
    OBVIOUS
  <2>1. Successors(G, n) \subseteq C <=> \A y \in G.node : <<n, y>> \in G.edge => y \in C
    BY DEF Successors
  <2>2. \A y : y \in AllSuccessors(G, C) <=>
                y \in G.node /\ \E x \in C : <<x, y>> \in G.edge
    <3>1. \A y : y \in AllSuccessors(G, C) <=> \E x \in C : y \in Successors(G, x)
      BY Zenon DEF AllSuccessors
    <3> QED
      BY <3>1 DEF Successors
  <2>3. AllSuccessors(G, C) \subseteq C <=> Follows(G, C)
    BY <2>2 DEF Follows
  <2> QED
    BY <2>1, <2>3
<1>2. \A m : m \in Reached(G, n) <=>
            /\ m \in G.node
            /\ \A C \in SUBSET G.node :
                Follows(G, C) /\ (\A y \in G.node : <<n, y>> \in G.edge => y \in C) => m \in C
    BY <1>1 DEF Reached
<1>3. Follows(G, Reached(G, n))
  <2> SUFFICES ASSUME NEW x \in Reached(G, n), NEW y \in G.node, <<x, y>> \in G.edge,
                      NEW C \in SUBSET G.node, Follows(G, C),
                      \A z \in G.node : <<n, z>> \in G.edge => z \in C
               PROVE  y \in C
    BY <1>2 DEF Follows
  <2>1. x \in C
    BY <1>2
  <2> QED
    BY <2>1 DEF Follows
<1> QED
    BY <1>2, <1>3

\* Fewer edges reach less.
LEMMA FewerEdgesReachLess ==
    ASSUME NEW G, NEW H, H.node = G.node,
           \A x, y \in G.node : <<x, y>> \in H.edge => <<x, y>> \in G.edge,
           NEW n \in G.node
    PROVE  Reached(H, n) \subseteq Reached(G, n)
<1>1. /\ Reached(G, n) \subseteq G.node /\ Follows(G, Reached(G, n))
      /\ \A y \in G.node : <<n, y>> \in G.edge => y \in Reached(G, n)
    BY ReachedIsLeast
<1>2. Follows(H, Reached(G, n)) /\ \A y \in H.node : <<n, y>> \in H.edge => y \in Reached(G, n)
    BY <1>1 DEF Follows
<1> QED
    BY <1>1, <1>2, ReachedIsLeast

\* An edge from f to a node that does not reach f closes no circle.
LEMMA NewEdgeClosesNoCircle ==
    ASSUME NEW G, NEW H, H.node = G.node, NEW f \in G.node, NEW next \in G.node, f # next,
           \A x, y \in G.node : <<x, y>> \in H.edge =>
                IF x = f THEN y = next ELSE <<x, y>> \in G.edge,
           f \notin Reached(H, next),
           \A g \in G.node : g \notin Reached(G, g)
    PROVE  \A g \in G.node : g \notin Reached(H, g)
<1> DEFINE D == {next} \cup Reached(H, next)
<1>1. D \in SUBSET H.node /\ Follows(H, D) /\ f \notin D /\ next \in D
    BY ReachedIsLeast DEF Follows
<1> HIDE DEF D
<1>2. f \notin Reached(H, f)
  <2>1. \A y \in H.node : <<f, y>> \in H.edge => y \in D
    BY <1>1
  <2> QED
    BY <1>1, <2>1, ReachedIsLeast
<1>3. ASSUME NEW g \in G.node, g # f, g \in Reached(H, g)
      PROVE  FALSE
  <2> SUFFICES ASSUME NEW C \in SUBSET G.node, Follows(G, C),
                      \A y \in G.node : <<g, y>> \in G.edge => y \in C
               PROVE  g \in C
  <3>1. PICK C \in SUBSET G.node : /\ Follows(G, C) /\ g \notin C
                                   /\ \A y \in G.node : <<g, y>> \in G.edge => y \in C
    <4>1. g \notin Reached(G, g) /\ Reached(G, g) \in SUBSET G.node
      BY ReachedIsLeast
    <4> QED
      BY <4>1, ReachedIsLeast
  <3> QED
    BY <3>1
  <2>1. CASE g \in D
    <3>1. C \cap D \in SUBSET H.node /\ Follows(H, C \cap D)
      BY <1>1 DEF Follows
    <3>2. \A y \in H.node : <<g, y>> \in H.edge => y \in C \cap D
      BY <1>1, <1>3, <2>1 DEF Follows
    <3>3. Reached(H, g) \subseteq C \cap D
      BY <3>1, <3>2, ReachedIsLeast
    <3> QED
      BY <1>3, <3>3
  <2>2. CASE g \notin D
    <3>1. C \cup D \in SUBSET H.node /\ Follows(H, C \cup D)
      BY <1>1 DEF Follows
    <3>2. \A y \in H.node : <<g, y>> \in H.edge => y \in C \cup D
      BY <1>3
    <3>3. Reached(H, g) \subseteq C \cup D
      BY <3>1, <3>2, ReachedIsLeast
    <3> QED
      BY <1>3, <2>2, <3>3
  <2> QED
    BY <2>1, <2>2
<1> QED
    BY <1>2, <1>3

-----------------------------------------------------------------------------
(* The templates in force do not chain in a circle *)

\* What the versions of a family in force chain to.
Found(f) == {template[id].next : id \in ActiveIn(f)} \ {NoFamily}

IsActiveEdges(edges) ==
    /\ edges \in [Families -> Targets]
    /\ \A f \in Families : IF Found(f) = {} THEN edges[f] = NoFamily ELSE edges[f] \in Found(f)

ChecksHold ==
    ~overlapped => \A r \in Requests : Doing(r, "publish") => MayPublish(req[r].id)

CircleInv == InForceIsAcyclic /\ ChecksHold

LEMMA ActiveEdgesAre == \A edges : edges \in ActiveEdges <=> IsActiveEdges(edges)
    BY DEF ActiveEdges, IsActiveEdges, Found

LEMMA ActiveEdgesWillBe == \A edges : edges \in ActiveEdges' <=> IsActiveEdges(edges)'
    BY DEF ActiveEdges, IsActiveEdges, Found

LEMMA ChainingEdges ==
    ASSUME NEW edges
    PROVE  /\ Chaining(edges).node = Families
           /\ \A x, y : <<x, y>> \in Chaining(edges).edge <=>
                            x \in Families /\ y = edges[x] /\ y # NoFamily
<1>1. /\ Chaining(edges).node = Families
      /\ Chaining(edges).edge = {<<f, edges[f]>> : f \in {g \in Families : edges[g] # NoFamily}}
    BY DEF Chaining
<1> QED
    BY <1>1

LEMMA FoundAreTargets ==
    ASSUME RowType, NEW f
    PROVE  Found(f) \subseteq Targets
    BY DEF Found, ActiveIn, RowType, Row

\* What does not add to what is in force opens no circle.
LEMMA LessInForceKeepsAcyclic ==
    ASSUME RowType, InForceIsAcyclic, ~overlapped' => ~overlapped,
           \A f \in Families : Found(f)' \subseteq Found(f)
    PROVE  InForceIsAcyclic'
<1> SUFFICES ASSUME ~overlapped', NEW edges \in ActiveEdges', NEW f \in Families
             PROVE  f \notin Reached(Chaining(edges), f)
  <2>1. ASSUME ~overlapped', NEW edges \in ActiveEdges', NEW f \in Families
        PROVE  f \notin Reached(Chaining(edges), f)' <=> f \notin Reached(Chaining(edges), f)
    BY DEF Reached, Chaining
  <2> QED
    BY <2>1 DEF InForceIsAcyclic, Reached, Chaining
<1> DEFINE more == [g \in Families |-> IF edges[g] # NoFamily THEN edges[g]
                                       ELSE IF Found(g) = {} THEN NoFamily
                                       ELSE CHOOSE t \in Found(g) : TRUE]
<1>1. /\ edges \in [Families -> Targets]
      /\ \A g \in Families : edges[g] = NoFamily \/ edges[g] \in Found(g)
    BY ActiveEdgesWillBe DEF IsActiveEdges
<1>2. more \in [Families -> Targets]
  <2>1. \A g \in Families : Found(g) # {} => (CHOOSE t \in Found(g) : TRUE) \in Targets
    BY FoundAreTargets
  <2>2. NoFamily \in Targets
    BY DEF Targets
  <2> QED
    BY <1>1, <2>1, <2>2
<1>3. \A g \in Families : IF Found(g) = {} THEN more[g] = NoFamily ELSE more[g] \in Found(g)
    BY <1>1
<1>4. more \in ActiveEdges
    BY <1>2, <1>3, ActiveEdgesAre DEF IsActiveEdges
<1>5. \A x, y \in Families : <<x, y>> \in Chaining(edges).edge => <<x, y>> \in Chaining(more).edge
    BY ChainingEdges
<1> HIDE DEF more
<1>6. f \notin Reached(Chaining(more), f)
    BY <1>4 DEF InForceIsAcyclic
<1> QED
    BY <1>5, <1>6, ChainingEdges, FewerEdgesReachLess

LEMMA SameTemplatesMayBePublished ==
    ASSUME template' = template
    PROVE  /\ \A f \in Families : Found(f)' = Found(f)
           /\ \A id : MayPublish(id)' <=> MayPublish(id)
<1>1. \A f : ActiveIn(f)' = ActiveIn(f)
    BY DEF ActiveIn, Active
<1>2. \A f : Found(f)' = Found(f)
    BY <1>1 DEF Found
<1>3. \A edges : edges \in ActiveEdges' <=> edges \in ActiveEdges
    BY <1>2, ActiveEdgesAre, ActiveEdgesWillBe DEF IsActiveEdges
<1>4. ActiveEdges' = ActiveEdges
    BY <1>3
<1>5. \A f, next : OpenChain(f, next)' <=> OpenChain(f, next)
    BY <1>4 DEF OpenChain, Reached, Chaining
<1> QED
    BY <1>1, <1>2, <1>5 DEF MayPublish

LEMMA UntouchedKeepsCircleInv ==
    ASSUME RowType, CircleInv, UNCHANGED <<template, req, overlapped>>
    PROVE  CircleInv'
<1>1. InForceIsAcyclic'
    BY SameTemplatesMayBePublished, LessInForceKeepsAcyclic DEF CircleInv
<1>2. ChecksHold'
    BY SameTemplatesMayBePublished DEF CircleInv, ChecksHold, Doing
<1> QED
    BY <1>1, <1>2 DEF CircleInv

LEMMA PutKeepsCircleInv ==
    ASSUME IInv, CircleInv, NEW id, NEW row \in Row, row.status # "active", Put(id, row)
    PROVE  CircleInv'
<1>1. overlapped' = (overlapped \/ Clash("put")) /\ req' = req
    BY DEF Put
<1>2. ~overlapped' => ~overlapped /\ ~Clash("put")
    BY <1>1, NoClash DEF IInv, RowType
<1>3. template' = [template EXCEPT ![id] = row] /\ template \in [Ids -> Row]
    BY DEF Put, IInv, RowType
<1>4. \A other \in Ids : Active(other)' => Active(other) /\ template'[other] = template[other]
    BY <1>3 DEF Active
<1>5. ASSUME NEW f \in Families PROVE Found(f)' \subseteq Found(f)
  <2> SUFFICES ASSUME NEW other \in Ids, other[1] = f, Active(other)'
               PROVE  template'[other].next = template[other].next /\ other \in ActiveIn(f)
    BY DEF Found, ActiveIn
  <2> QED
    BY <1>4 DEF ActiveIn
<1>6. InForceIsAcyclic'
    BY <1>2, <1>5, LessInForceKeepsAcyclic DEF IInv, CircleInv
<1>7. ChecksHold'
    BY <1>1, <1>2 DEF Clash, Doing, ChecksHold
<1> QED
    BY <1>6, <1>7 DEF CircleInv

LEMMA BeginKeepsCircleInv ==
    ASSUME IInv, CircleInv, NEW r \in Requests, NEW op \in Ops, NEW id \in Ids, NEW next \in Targets,
           Begin(r, op, id, next)
    PROVE  CircleInv'
<1>1. /\ overlapped' = (overlapped \/ Clash(op)) /\ template' = template
      /\ op = "publish" => MayPublish(id)
    BY DEF Begin, Allowed
<1>2. ~overlapped' => ~overlapped /\ ~Clash(op)
    BY <1>1, NoClash DEF IInv, RowType
<1>3. /\ req'[r].id = id /\ req'[r].op = op
      /\ \A q \in Requests \ {r} : req'[q] = req[q]
    BY DEF Begin, IInv, RowType
<1>4. \A other : MayPublish(other)' <=> MayPublish(other)
    BY <1>1, SameTemplatesMayBePublished
<1>5. ChecksHold'
    BY <1>1, <1>2, <1>3, <1>4 DEF ChecksHold, Clash, Doing
<1>6. InForceIsAcyclic'
    BY <1>1, <1>2, SameTemplatesMayBePublished, LessInForceKeepsAcyclic DEF IInv, CircleInv
<1> QED
    BY <1>5, <1>6 DEF CircleInv

\* A publication of which no other command disturbed the checks.
LEMMA PublishKeepsCircleInv ==
    ASSUME IInv, CircleInv, NEW r \in Requests, Publish(r)
    PROVE  CircleInv'
<1>1. PICK new \in Loaded : req[r] = new
    BY DEF Publish, Doing, IInv, RowType
<1>2. /\ new # Idle /\ overlapped' = overlapped
      /\ template' = [other \in Ids |->
            IF other = new.id THEN [template[other] EXCEPT !.status = "active"]
            ELSE IF other \in new.siblings THEN [template[other] EXCEPT !.status = "archived"]
            ELSE template[other]]
      /\ req' = [req EXCEPT ![r] = Idle]
    BY <1>1 DEF Publish, Doing
<1> SUFFICES ASSUME ~overlapped PROVE CircleInv'
    BY <1>2 DEF CircleInv, InForceIsAcyclic, ChecksHold
<1>3. ChecksHold'
    BY <1>1, <1>2 DEF IInv, RowType, OnePublication, ChecksHold, Publish, Doing
<1> DEFINE f == new.id[1]
           next == template[new.id].next
<1>4. /\ new.id \in Ids /\ f \in Families /\ next \in Targets /\ template \in [Ids -> Row]
      /\ MayPublish(new.id)
    BY <1>1, <1>2 DEF Loaded, Ids, IInv, RowType, Row, CircleInv, ChecksHold, Publish
<1>5. new.siblings = {c \in Ids : c[1] = f /\ Active(c)} \ {new.id}
    BY <1>1, <1>2 DEF IInv, SiblingsAreCurrent, Siblings, ActiveIn, Publish
<1>6. \A c \in Ids : /\ template'[c].next = template[c].next
                     /\ Active(c)' <=> IF c[1] = f THEN c = new.id ELSE Active(c)
    BY <1>2, <1>4, <1>5 DEF Active, Row
<1>7. \A g \in Families \ {f} : Found(g)' = Found(g)
    BY <1>6 DEF Found, ActiveIn
<1>8. Found(f)' = {next} \ {NoFamily}
    BY <1>4, <1>6 DEF Found, ActiveIn
<1>9. \A g \in Families : \A s, t \in Found(g) : s = t
    BY DEF IInv, OneVersionInForce, Found, ActiveIn
<1>10. InForceIsAcyclic'
  <2>1. CASE next = NoFamily
    <3>1. \A g \in Families : Found(g)' \subseteq Found(g)
      BY <1>7, <1>8, <2>1
    <3> QED
      BY <1>2, <3>1, LessInForceKeepsAcyclic DEF IInv, CircleInv
  <2>2. CASE next # NoFamily
    <3>1. next \in Families /\ f # next /\ OpenChain(f, next)
      BY <1>4, <2>2 DEF Targets, MayPublish
    <3>2. PICK before \in ActiveEdges :
                f \notin Reached(Chaining([before EXCEPT ![f] = next]), next)
      BY <3>1 DEF OpenChain
    <3>3. IsActiveEdges(before)
      BY ActiveEdgesAre
    <3> SUFFICES ASSUME NEW after \in ActiveEdges', NEW g \in Families
                 PROVE  g \notin Reached(Chaining(after), g)
      BY DEF InForceIsAcyclic, Reached, Chaining
    <3>4. IsActiveEdges(after)'
      BY ActiveEdgesWillBe
    <3>5. \A h \in Families : after[h] = IF h = f THEN next ELSE before[h]
      BY <1>7, <1>8, <1>9, <2>2, <3>3, <3>4 DEF IsActiveEdges
    <3>6. after = [before EXCEPT ![f] = next]
      BY <1>4, <3>1, <3>3, <3>4, <3>5 DEF IsActiveEdges
    <3>7. \A h \in Families : h \notin Reached(Chaining(before), h)
      BY DEF CircleInv, InForceIsAcyclic
    <3>8. \A x, y \in Families : <<x, y>> \in Chaining(after).edge =>
                IF x = f THEN y = next ELSE <<x, y>> \in Chaining(before).edge
      BY <3>5, ChainingEdges
    <3>9. Chaining(before).node = Families /\ Chaining(after).node = Families
      BY ChainingEdges
    <3>10. f \notin Reached(Chaining(after), next)
      BY <3>2, <3>6
    <3> HIDE DEF next, f
    <3>11. f \in Families
      BY <1>4
    <3> QED
      BY <3>1, <3>7, <3>8, <3>9, <3>10, <3>11, NewEdgeClosesNoCircle
  <2> QED
    BY <2>1, <2>2
<1> QED
    BY <1>3, <1>10 DEF CircleInv

\* The end of any other command adds nothing to what is in force.
LEMMA EndsKeepsCircleInv ==
    ASSUME IInv, CircleInv, Ends
    PROVE  CircleInv'
<1> SUFFICES ASSUME ~overlapped PROVE CircleInv'
    BY DEF Ends, CircleInv, InForceIsAcyclic, ChecksHold
<1>1. ASSUME NEW f \in Families PROVE Found(f)' \subseteq Found(f)
  <2> SUFFICES ASSUME NEW other \in Ids, other[1] = f, Active(other)'
               PROVE  template'[other].next = template[other].next /\ other \in ActiveIn(f)
    BY DEF Found, ActiveIn
  <2> QED
    BY DEF Ends, ActiveIn
<1>2. InForceIsAcyclic'
    BY <1>1, LessInForceKeepsAcyclic DEF Ends, IInv, CircleInv
<1>3. ChecksHold'
  <2> SUFFICES ASSUME NEW q \in Requests, Doing(q, "publish")' PROVE MayPublish(req[q].id)'
    BY DEF ChecksHold
  <2>1. req'[q] = req[q] /\ Doing(q, "publish")
    BY DEF Ends, Doing
  <2>2. template' = template
    BY <2>1 DEF Ends
  <2>3. MayPublish(req[q].id)
    BY <2>1 DEF CircleInv, ChecksHold
  <2> QED
    BY <2>1, <2>2, <2>3, SameTemplatesMayBePublished
<1> QED
    BY <1>2, <1>3 DEF CircleInv

-----------------------------------------------------------------------------
(* Chains of runs are lines *)

RunType == runs \in Seq(Run) /\ Len(runs) <= MaxRuns

\* A chained run is the only one its parent started, and knows the families behind it.
RunIsLinked(i) ==
    LET p == runs[i].parent
    IN  p # NoParent => /\ p \in 1 .. Len(runs)
                        /\ runs[p].triggered
                        /\ runs[i].passed = runs[p].passed \cup {runs[p].id[1]}

LineInv ==
    /\ RunType
    /\ \A i \in 1 .. Len(runs) : RunIsLinked(i) /\ runs[i].id[1] \notin runs[i].passed
    /\ \A i, j \in 1 .. Len(runs) :
            i # j => runs[j].parent # runs[i].parent \/ runs[i].parent = NoParent

\* The families of what a run came from are among those it knows.
LEMMA LineInvSuffices == LineInv => ChainIsLine
<1> SUFFICES ASSUME LineInv, NEW i \in 1 .. Len(runs), NEW j \in Reached(Lineage, i)
             PROVE  runs[j].id[1] # runs[i].id[1]
    BY DEF ChainIsLine, LineInv, Lineage
<1>1. /\ Lineage.node = 1 .. Len(runs)
      /\ \A x, y : <<x, y>> \in Lineage.edge <=>
            x \in 1 .. Len(runs) /\ y = runs[x].parent /\ y # NoParent
  <2>1. Lineage.edge = {<<x, runs[x].parent>> : x \in {y \in 1 .. Len(runs) :
                                                            runs[y].parent # NoParent}}
    BY DEF Lineage
  <2> QED
    BY <2>1 DEF Lineage
<1> DEFINE C == {x \in 1 .. Len(runs) : /\ runs[x].id[1] \in runs[i].passed
                                        /\ runs[x].passed \subseteq runs[i].passed}
<1>2. ASSUME NEW x \in 1 .. Len(runs), NEW y, <<x, y>> \in Lineage.edge
      PROVE  /\ y \in 1 .. Len(runs)
             /\ runs[x].passed = runs[y].passed \cup {runs[y].id[1]}
    BY <1>1, <1>2 DEF LineInv, RunIsLinked
<1>3. \A y \in Lineage.node : <<i, y>> \in Lineage.edge => y \in C
    BY <1>2
<1>4. Follows(Lineage, C)
    BY <1>2 DEF Follows
<1>5. C \in SUBSET Lineage.node
    BY <1>1
<1> HIDE DEF C
<1>6. Reached(Lineage, i) \subseteq C
    BY <1>3, <1>4, <1>5, ReachedIsLeast
<1> QED
    BY <1>6 DEF C, LineInv

LEMMA RunsAre ==
    ASSUME RunType, NEW i \in 1 .. Len(runs)
    PROVE  runs[i] \in Run
    BY DEF RunType

\* A nonempty set of naturals has a least member.
LEMMA LeastOfOrder ==
    ASSUME NEW R, IsWellFoundedOn(R, Nat),
           \A x, y \in Nat : y < x => <<y, x>> \in R,
           NEW T \in SUBSET Nat, T # {}
    PROVE  \E x \in T : \A y \in T : x <= y
<1>1. PICK x \in T : \A y \in T : ~(<<y, x>> \in R)
    BY WFMin
<1>2. ASSUME NEW y \in T
      PROVE  x <= y
  <2>1. x \in Nat /\ y \in Nat
    OBVIOUS
  <2>2. ~(y < x)
    BY <1>1, <2>1
  <2> QED
    BY <2>1, <2>2
<1> QED
    BY <1>2

LEMMA LessIsARelation == \A x, y \in Nat : y < x => <<y, x>> \in OpToRel(<, Nat)
    BY DEF OpToRel

LEMMA LeastNatural ==
    ASSUME NEW T \in SUBSET Nat, T # {}
    PROVE  \E x \in T : \A y \in T : x <= y
    BY NatLessThanWellFounded, LeastOfOrder, LessIsARelation, Zenon

\* The highest version in force is one of those in force.
LEMMA NewestIsInForce ==
    ASSUME NEW f, ActiveIn(f) # {}
    PROVE  Newest(f) \in ActiveIn(f)
<1>1. \A id \in ActiveIn(f) : id[2] \in 1 .. MaxVersion
    BY DEF ActiveIn, Ids
<1> DEFINE Gaps == {MaxVersion - id[2] : id \in ActiveIn(f)}
<1>2. Gaps \in SUBSET Nat /\ Gaps # {}
    BY <1>1, TemplateAssumption
<1>3. PICK gap \in Gaps : \A other \in Gaps : gap <= other
    BY <1>2, LeastNatural
<1>4. PICK id \in ActiveIn(f) : gap = MaxVersion - id[2]
    OBVIOUS
<1>5. ASSUME NEW other \in ActiveIn(f) PROVE other[2] <= id[2]
  <2>1. MaxVersion - other[2] \in Gaps
    OBVIOUS
  <2>2. MaxVersion - id[2] <= MaxVersion - other[2]
    BY <1>3, <1>4, <2>1
  <2> QED
    BY <1>1, <2>2, TemplateAssumption
<1> QED
    BY <1>5 DEF Newest

\* A run that has chained does not do it again, and a run that is chained is of a family that
\* none before it was of.
LEMMA CompleteKeepsLineInv ==
    ASSUME RowType, LineInv, NEW i \in 1 .. Len(runs), Complete(i)
    PROVE  LineInv'
<1> DEFINE run == runs[i]
<1>t. run \in Run /\ Len(runs) \in Nat /\ runs \in Seq(Run)
    BY RunsAre DEF LineInv, RunType
<1> DEFINE old == [run EXCEPT !.triggered = TRUE]
           id == Newest(run.next)
           passed == run.passed \cup {run.id[1]}
           new == NewRun(id, passed, i)
           n == Len(runs) + 1
<1>1. /\ Len(runs) < MaxRuns
      /\ runs' = Append([runs EXCEPT ![i] = old], new)
  BY DEF Complete
<1>2. /\ run.next # NoFamily /\ run.next \notin passed /\ ~run.triggered
      /\ ActiveIn(run.next) # {}
  BY DEF Complete, Chains
<1>3. id \in Ids /\ id[1] = run.next
  BY <1>2, NewestIsInForce DEF ActiveIn
<1>4. /\ old \in Run /\ old.parent = run.parent /\ old.passed = run.passed
      /\ old.id = run.id /\ old.triggered
  BY <1>t DEF Run
<1>5. passed \in SUBSET Families /\ template[id].next \in Targets
  BY <1>t, <1>3 DEF Run, Ids, RowType, Row
<1>6. i \in 0 .. MaxRuns
  BY <1>t, <1>1, TemplateAssumption
<1>7. /\ new \in Run /\ new.parent = i /\ new.passed = passed /\ new.id = id
  BY <1>3, <1>5, <1>6 DEF NewRun, Run
<1> HIDE DEF old, new
<1>8. /\ Len(runs') = n /\ runs' \in Seq(Run)
      /\ runs'[n] = new /\ runs'[i] = old
      /\ \A j \in 1 .. Len(runs) : j # i => runs'[j] = runs[j]
  BY <1>t, <1>1, <1>4, <1>7
<1>9. RunType'
  BY <1>t, <1>1, <1>8, TemplateAssumption DEF RunType
<1>10. \A j \in 1 .. Len(runs) : /\ runs'[j].parent = runs[j].parent
                                 /\ runs'[j].passed = runs[j].passed
                                 /\ runs'[j].id = runs[j].id
                                 /\ (runs[j].triggered => runs'[j].triggered)
  BY <1>4, <1>8
<1>11. \A j \in 1 .. n : j \in 1 .. Len(runs) \/ j = n
  BY <1>t
<1>12. \A j \in 1 .. Len(runs) : j \in 1 .. n /\ j # n
  BY <1>t
<1>13. \A j \in 1 .. Len(runs) : runs[j].parent # i
  BY <1>2, TemplateAssumption DEF LineInv, RunIsLinked, NoParent
<1>14. ASSUME NEW j \in 1 .. n PROVE RunIsLinked(j)' /\ runs'[j].id[1] \notin runs'[j].passed
  <2>1. CASE j \in 1 .. Len(runs)
    <3>1. RunIsLinked(j) /\ runs[j].id[1] \notin runs[j].passed
      BY <2>1 DEF LineInv
    <3> QED
      BY <1>8, <1>10, <1>12, <2>1, <3>1 DEF RunIsLinked
  <2>2. CASE j = n
    <3>1. runs'[j].parent = i /\ runs'[j].passed = passed /\ runs'[j].id[1] = run.next
      BY <1>3, <1>7, <1>8, <2>2
    <3>2. i \in 1 .. n /\ runs'[i].triggered /\ runs'[i].passed \cup {runs'[i].id[1]} = passed
      BY <1>4, <1>8, <1>12
    <3> QED
      BY <1>2, <1>8, <3>1, <3>2 DEF RunIsLinked
  <2> QED
    BY <1>11, <2>1, <2>2
<1>15. ASSUME NEW j \in 1 .. n, NEW k \in 1 .. n, j # k
       PROVE  runs'[k].parent # runs'[j].parent \/ runs'[j].parent = NoParent
  <2>1. runs'[n].parent = i
    BY <1>7, <1>8
  <2> QED
    BY <1>10, <1>11, <1>13, <1>15, <2>1 DEF LineInv
<1> QED
  BY <1>8, <1>9, <1>14, <1>15 DEF LineInv

LEMMA StartKeepsLineInv ==
    ASSUME RowType, LineInv, NEW id \in Ids, Start(id)
    PROVE  LineInv'
<1> DEFINE new == NewRun(id, {}, NoParent)
           n == Len(runs) + 1
<1>1. runs' = Append(runs, new) /\ Len(runs) < MaxStarts /\ runs \in Seq(Run) /\ Len(runs) \in Nat
    BY DEF Start, LineInv, RunType
<1>2. new \in Run /\ new.parent = NoParent /\ new.passed = {}
    BY TemplateAssumption DEF NewRun, Run, RowType, Row, NoParent
<1> HIDE DEF new
<1>3. /\ Len(runs') = n /\ runs' \in Seq(Run) /\ runs'[n] = new
      /\ \A j \in 1 .. Len(runs) : runs'[j] = runs[j] /\ j \in 1 .. n
      /\ \A j \in 1 .. n : j \in 1 .. Len(runs) \/ j = n
    BY <1>1, <1>2
<1>4. RunType'
    BY <1>1, <1>3, TemplateAssumption DEF RunType
<1>5. ASSUME NEW j \in 1 .. n PROVE RunIsLinked(j)' /\ runs'[j].id[1] \notin runs'[j].passed
  <2>1. CASE j \in 1 .. Len(runs)
    <3>1. RunIsLinked(j) /\ runs[j].id[1] \notin runs[j].passed
      BY <2>1 DEF LineInv
    <3> QED
      BY <1>3, <2>1, <3>1 DEF RunIsLinked
  <2>2. CASE j = n
    BY <1>2, <1>3, <2>2 DEF RunIsLinked
  <2> QED
    BY <1>3, <2>1, <2>2
<1>6. ASSUME NEW j \in 1 .. n, NEW k \in 1 .. n, j # k
      PROVE  runs'[k].parent # runs'[j].parent \/ runs'[j].parent = NoParent
    BY <1>2, <1>3, <1>6 DEF LineInv
<1> QED
    BY <1>3, <1>4, <1>5, <1>6 DEF LineInv

LEMMA UntouchedKeepsLineInv == LineInv /\ UNCHANGED runs => LineInv'
    BY DEF LineInv, RunType, RunIsLinked

-----------------------------------------------------------------------------
(* Every behaviour keeps the three invariants *)

TInv == IInv /\ CircleInv /\ LineInv

LEMMA TInvIsInitial == Init => TInv
<1> SUFFICES ASSUME Init PROVE TInv
    OBVIOUS
<1>1. IInv
    BY InvIsInitial
<1>2. \A f : Found(f) = {}
    BY DEF Init, Found, ActiveIn, Active, NoRow
<1>3. ASSUME NEW edges \in ActiveEdges, NEW f \in Families
      PROVE  f \notin Reached(Chaining(edges), f)
  <2>1. \A x, y : <<x, y>> \notin Chaining(edges).edge
    <3>1. \A x \in Families : edges[x] = NoFamily
      BY <1>2, ActiveEdgesAre DEF IsActiveEdges
    <3> QED
      BY <3>1, ChainingEdges
  <2>2. {} \in SUBSET Chaining(edges).node /\ Follows(Chaining(edges), {})
    BY DEF Follows
  <2>3. Reached(Chaining(edges), f) \subseteq {}
    BY <2>1, <2>2, ReachedIsLeast
  <2> QED
    BY <2>3
<1>4. CircleInv
    BY <1>3 DEF Init, CircleInv, InForceIsAcyclic, ChecksHold, Doing
<1>5. LineInv
    BY TemplateAssumption DEF Init, LineInv, RunType
<1> QED
    BY <1>1, <1>4, <1>5 DEF TInv

LEMMA PutKeepsTInv ==
    ASSUME TInv, NEW id, NEW row \in Row, row.status # "active",
           row.status = "draft" \/ template[id].status # "draft", Put(id, row)
    PROVE  TInv'
<1>1. UNCHANGED runs
    BY DEF Put
<1> QED
    BY <1>1, PutKeepsInv, PutKeepsCircleInv, UntouchedKeepsLineInv DEF TInv

LEMMA NextKeepsTInv == TInv /\ [Next]_vars => TInv'
<1> SUFFICES ASSUME TInv, [Next]_vars PROVE TInv'
    OBVIOUS
<1>1. template \in [Ids -> Row] /\ RowType /\ IInv /\ CircleInv /\ LineInv
    BY DEF TInv, IInv, RowType
<1>2. \A id \in Ids : template[id] \in Row
    BY <1>1
<1>3. NoRow \in Row /\ NoRow.status # "active"
    BY DEF NoRow, Row, Targets
<1>4. ASSUME NEW f \in Families, Create(f) PROVE TInv'
  <2>1. [status |-> "draft", next |-> NoFamily] \in Row
    BY DEF Row, Targets
  <2> QED
    BY <1>4, <2>1, PutKeepsTInv DEF Create
<1>5. ASSUME NEW id \in Ids, Fork(id) PROVE TInv'
  <2>1. /\ [template[id] EXCEPT !.status = "draft"] \in Row
        /\ [template[id] EXCEPT !.status = "draft"].status = "draft"
    BY <1>2 DEF Row
  <2> QED
    BY <1>5, <2>1, PutKeepsTInv DEF Fork
<1>6. ASSUME NEW r \in Requests, Save(r) \/ Delete(r) \/ Refuse(r) PROVE TInv'
  <2>1. Ends
    BY <1>1, <1>6, SaveEnds, DeleteEnds, RefuseEnds
  <2>2. UNCHANGED runs
    BY <1>6 DEF Save, Delete, Refuse
  <2> QED
    BY <1>1, <2>1, <2>2, EndsKeepsInv, EndsKeepsCircleInv, UntouchedKeepsLineInv DEF TInv
<1>8. ASSUME NEW id \in Ids, Archive(id) PROVE TInv'
  <2>1. /\ [template[id] EXCEPT !.status = "archived"] \in Row
        /\ [template[id] EXCEPT !.status = "archived"].status # "active"
    BY <1>2 DEF Row
  <2>2. template[id].status # "draft"
    BY <1>8 DEF Archive, Active
  <2> QED
    BY <1>8, <2>1, <2>2, PutKeepsTInv DEF Archive
<1>9. ASSUME NEW r \in Requests, NEW op \in Ops, NEW id \in Ids, NEW next \in Targets,
             Begin(r, op, id, next)
      PROVE  TInv'
    BY <1>1, <1>9, BeginKeepsInv, BeginKeepsCircleInv, UntouchedKeepsLineInv DEF Begin, TInv
<1>10. ASSUME NEW r \in Requests, Publish(r) PROVE TInv'
    BY <1>1, <1>10, PublishKeepsInv, PublishKeepsCircleInv, UntouchedKeepsLineInv
       DEF Publish, TInv
<1>12. ASSUME NEW id \in Ids, Start(id) PROVE TInv'
    BY <1>1, <1>12, UntouchedKeepsInv, UntouchedKeepsCircleInv, StartKeepsLineInv
       DEF Start, TInv
<1>13. ASSUME NEW i \in 1 .. Len(runs), Complete(i) PROVE TInv'
    BY <1>1, <1>13, UntouchedKeepsInv, UntouchedKeepsCircleInv, CompleteKeepsLineInv
       DEF Complete, TInv
<1>15. CASE UNCHANGED vars
    BY <1>1, <1>15, UntouchedKeepsInv, UntouchedKeepsCircleInv, UntouchedKeepsLineInv
       DEF vars, TInv
<1> QED
    BY <1>4, <1>5, <1>6, <1>8, <1>9, <1>10, <1>12, <1>13, <1>15 DEF Next

\* The three invariants hold in every state.
THEOREM TemplateInvariant == Spec => []TInv
    BY TInvIsInitial, NextKeepsTInv, PTL DEF Spec

\* Templates, runs and what publications have read keep their types, and no bound is passed
\* (models/workflow_graph.py).
THEOREM TemplateTypes == Spec => []TypeOK
<1>1. TInv => TypeOK
    BY DEF TInv, IInv, RowType, LineInv, RunType, TypeOK
<1> QED
    BY <1>1, TemplateInvariant, PTL

\* Unless a publication and another command were under way at the same time, at most one version of
\* a family is in force (_archive_sibling_active_templates).
THEOREM OneVersionAtATime == Spec => []OneVersionInForce
<1>1. TInv => OneVersionInForce
    BY DEF TInv, IInv
<1> QED
    BY <1>1, TemplateInvariant, PTL

\* Unless a publication and another command were under way at the same time, the templates in force
\* do not chain in a circle: the edge a publication adds is the only new one, the check has followed
\* the chain from its end (would_create_template_chain_cycle, validate_on_complete_for_publish), and
\* a save that has read a draft writes a draft (save_draft).
THEOREM NoCircleInForce == Spec => []InForceIsAcyclic
<1>1. TInv => InForceIsAcyclic
    BY DEF TInv, CircleInv
<1> QED
    BY <1>1, TemplateInvariant, PTL

\* A run starts at most one run, and none of a family it came from, whatever was published or
\* archived meanwhile and however often the run completes (maybe_trigger_template_chain).
THEOREM ChainsAreLines == Spec => []ChainIsLine
<1>1. TInv => ChainIsLine
    BY LineInvSuffices DEF TInv
<1> QED
    BY <1>1, TemplateInvariant, PTL
=============================================================================
