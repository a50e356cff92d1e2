----------------------------- MODULE SmPolicyProofs -----------------------------
(***************************************************************************)
(* Proofs about SmPolicy, for every number of handlers, requests, faults.  *)
(***************************************************************************)
EXTENDS SmPolicyInv, FiniteSetTheorems, TLAPS

USE HandlersAssumption, BoundsAssumption

-----------------------------------------------------------------------------
(***************************************************************************)
(* Values.                                                                 *)
(***************************************************************************)
\* The two marks are neither contexts nor each other.
LEMMA Marks ==
    /\ Absent # Over
    /\ \A c \in Contexts : c # Absent /\ c # Over
    /\ {} \in Contexts
  BY DEF Absent, Over, Contexts, Ids

\* The id of a request that is not idle is one that has been taken.
LEMMA WorksOnId ==
    ASSUME TypeOK, LocalInv, NEW h \in Handlers, req[h].type # "none"
    PROVE  req[h].id \in Ids /\ req[h].n \in Ids /\ req[h].id <= assocSeq
  BY DEF TypeOK, LocalInv, LocalOK, Ids

\* A handler is idle exactly when it has no request.
LEMMA IdleHandler ==
    ASSUME TypeOK, LocalInv, NEW h \in Handlers
    PROVE  /\ pc[h] = "idle" <=> req[h].type = "none"
           /\ pc[h] = "store" <=> req[h].type = "create"
           /\ pc[h] = "lock" => req[h].type = "delete"
           /\ pc[h] = "write" => req[h].type = "update"
           /\ pc[h] \in {"notify", "await"} => req[h].type \in {"update", "delete"}
           /\ pc[h] = "read" => req[h].type \in {"get", "update"}
<1>1. req[h].type \in {"none", "create", "get", "update", "delete"}
  BY DEF TypeOK, Request
<1>2. pc[h] \in Places(req[h].type)
  BY DEF LocalInv, LocalOK
<1>3. QED
  BY <1>1, <1>2 DEF Places

\* A notice is well formed.
LEMMA NoticeTyped ==
    ASSUME TypeOK, LocalInv, NEW h \in Handlers, pc[h] \in {"notify", "await"}
    PROVE  /\ Notice(h) \in Post
           /\ Notice(h).n = req[h].n /\ Notice(h).id = req[h].id
           /\ req[h].type = "delete" => Notice(h).decision = Over
           /\ Notice(h).decision # Absent
<1>1. req[h].type # "none"
  BY IdleHandler
<1>2. req[h].id \in Ids /\ req[h].n \in Ids
  BY <1>1, WorksOnId
<1>3. req[h].context \in Contexts
  BY DEF TypeOK, Request
<1>4. QED
  BY <1>2, <1>3, Marks DEF Notice, Post

\* Moving a handler changes its own step and request only.
LEMMA GotoFacts ==
    ASSUME TypeOK, NEW h \in Handlers, NEW step \in PCs, NEW r \in Request, Goto(h, step, r)
    PROVE  /\ pc' \in [Handlers -> PCs] /\ req' \in [Handlers -> Request]
           /\ pc'[h] = step /\ req'[h] = (IF step = "idle" THEN Idle ELSE r)
           /\ \A g \in Handlers \ {h} : pc'[g] = pc[g] /\ req'[g] = req[g]
<1>1. Idle \in Request
  BY DEF Idle, Request, Contexts
<1>2. QED
  BY <1>1 DEF Goto, TypeOK

LEMMA ContinueFacts ==
    ASSUME TypeOK, NEW h \in Handlers, NEW step \in PCs, Continue(h, step)
    PROVE  /\ pc' \in [Handlers -> PCs] /\ req' \in [Handlers -> Request]
           /\ pc'[h] = step /\ req'[h] = (IF step = "idle" THEN Idle ELSE req[h])
           /\ \A g \in Handlers \ {h} : pc'[g] = pc[g] /\ req'[g] = req[g]
<1>1. req[h] \in Request
  BY DEF TypeOK
<1>2. QED
  BY <1>1, GotoFacts DEF Continue

\* A request that has arrived.
Arrived(n, type, i, for) == [type |-> type, n |-> n, id |-> i, context |-> {}, for |-> for]

LEMMA ReceiveFacts ==
    ASSUME TypeOK, NEW h \in Handlers, NEW type \in {"create", "get", "update", "delete"},
           NEW i \in Ids, NEW step \in PCs \ {"idle"}, NEW for \in 0 .. MaxRequests,
           Receive(h, type, i, step, for)
    PROVE  /\ pc[h] = "idle" /\ requests' = requests + 1 /\ requests' \in 0 .. MaxRequests
           /\ pc' \in [Handlers -> PCs] /\ req' \in [Handlers -> Request]
           /\ pc'[h] = step /\ req'[h] = Arrived(requests + 1, type, i, for)
           /\ \A g \in Handlers \ {h} : pc'[g] = pc[g] /\ req'[g] = req[g]
           /\ crossed' \in SUBSET Ids /\ crossed \subseteq crossed'
           /\ \A j \in Ids \ crossed' : j = i =>
                /\ type = "update" => ~Unheard(i) /\ \A g \in Handlers : ~Changes(g, i)
                /\ type = "delete" =>
                      /\ \A g \in Handlers : Changes(g, i) => req[g].type # "update"
                      /\ \A p \in posts : p.id = i => p.decision = Over
<1>1. requests + 1 \in 1 .. MaxRequests
  BY DEF Receive, TypeOK
<1>2. Arrived(requests + 1, type, i, for) \in Request
  BY <1>1, Marks DEF Arrived, Request, Ids
<1>4. Goto(h, step, Arrived(requests + 1, type, i, for))
  BY DEF Receive, Arrived
<1>5. crossed' \in SUBSET Ids /\ crossed \subseteq crossed'
  BY DEF Receive, TypeOK
<1>6. ASSUME NEW j \in Ids \ crossed', j = i
      PROVE  /\ type = "update" => ~Unheard(i) /\ \A g \in Handlers : ~Changes(g, i)
             /\ type = "delete" =>
                   /\ \A g \in Handlers : Changes(g, i) => req[g].type # "update"
                   /\ \A p \in posts : p.id = i => p.decision = Over
  BY <1>6 DEF Receive
<1>7. pc[h] = "idle" /\ requests' = requests + 1 /\ requests' \in 0 .. MaxRequests
  BY <1>1 DEF Receive
<1>8. /\ pc' \in [Handlers -> PCs] /\ req' \in [Handlers -> Request]
      /\ pc'[h] = step /\ req'[h] = Arrived(requests + 1, type, i, for)
      /\ \A g \in Handlers \ {h} : pc'[g] = pc[g] /\ req'[g] = req[g]
  BY <1>2, <1>4, GotoFacts
<1>9. QED
  BY <1>5, <1>6, <1>7, <1>8

-----------------------------------------------------------------------------
(***************************************************************************)
(* What steps have in common.                                              *)
(***************************************************************************)
MovedOnly(h) == \A g \in Handlers \ {h} : pc'[g] = pc[g] /\ req'[g] = req[g]

\* The notifications about an id say what they said, and none has gone.
SamePosts(i) ==
    /\ \A p \in posts' : p.id = i => \E q \in posts : q.id = i /\ q.decision = p.decision
    /\ \A q \in posts : q.id = i => \E p \in posts' : p.id = i

\* A step of a handler leaves an id it is not about calm.
LEMMA CalmElsewhere ==
    ASSUME NEW h \in Handlers, MovedOnly(h), NEW i \in Ids, Calm(i),
           req[h].id # i, req'[h].id # i, SamePosts(i),
           associations'[i] = associations[i], heard'[i] = heard[i], endings'[i] = endings[i]
    PROVE  Calm(i)'
<1>1. \A g \in Handlers : req'[g].id = i => g # h /\ pc'[g] = pc[g] /\ req'[g] = req[g]
  BY DEF MovedOnly
<1>2. \A g \in Handlers : Changes(g, i)' <=> Changes(g, i)
  BY DEF MovedOnly, Changes
<1>3. Unheard(i)' <=> Unheard(i)
  BY DEF SamePosts, Unheard
<1>4. UpdateAlone(i)'
  BY <1>1, <1>2, <1>3 DEF UpdateAlone, Calm, There
<1>5. DeleteApart(i)'
  BY <1>1 DEF DeleteApart, Calm, SamePosts
<1>6. Truthful(i)'
  <2>1. \A g \in Handlers : Noticing(g, i)' <=> Noticing(g, i)
    BY DEF MovedOnly, Noticing
  <2>2. \A g \in Handlers : Noticing(g, i)' => Notice(g)' = Notice(g)
    BY <1>1 DEF Noticing, Notice
  <2>3. \A d : True(d, i)' <=> True(d, i)
    BY DEF True, There
  <2>4. Quiet(i)' <=> Quiet(i)
    BY <1>3, <2>1 DEF Quiet
  <2>5. QED
    BY <2>1, <2>2, <2>3, <2>4 DEF Truthful, Calm, SamePosts
<1>7. EndedOnce(i)'
  BY DEF EndedOnce, Calm, There
<1>8. QED
  BY <1>4, <1>5, <1>6, <1>7 DEF Calm

\* The count of ids while no update comes, ...
LEMMA CountKept ==
    ASSUME TypeOK, CountInv, Reading' \subseteq Reading, assocSeq' = assocSeq,
           requests' \in Nat, requests <= requests'
    PROVE  CountInv'
<1>1. IsFiniteSet(Reading') /\ Cardinality(Reading') <= Cardinality(Reading)
  BY FS_Subset DEF CountInv
<1>2. Cardinality(Reading) \in Nat /\ Cardinality(Reading') \in Nat
  BY <1>1, FS_CardinalityType DEF CountInv
<1>3. QED
  BY <1>1, <1>2 DEF CountInv, TypeOK

\* ... while a request comes that takes an id or will take one, ...
LEMMA CountGrows ==
    ASSUME TypeOK, CountInv, requests' = requests + 1,
           \/ Reading' \subseteq Reading /\ assocSeq' = assocSeq + 1
           \/ \E h : Reading' \subseteq Reading \cup {h} /\ assocSeq' = assocSeq
    PROVE  CountInv'
<1>1. Cardinality(Reading) \in Nat
  BY FS_CardinalityType DEF CountInv
<1>2. CASE Reading' \subseteq Reading /\ assocSeq' = assocSeq + 1
  <2>1. IsFiniteSet(Reading') /\ Cardinality(Reading') <= Cardinality(Reading)
    BY <1>2, FS_Subset DEF CountInv
  <2>2. Cardinality(Reading') \in Nat
    BY <2>1, FS_CardinalityType
  <2>3. QED
    BY <1>1, <1>2, <2>1, <2>2 DEF CountInv, TypeOK
<1>3. CASE \E h : Reading' \subseteq Reading \cup {h} /\ assocSeq' = assocSeq
  <2>1. PICK h : Reading' \subseteq Reading \cup {h}
    BY <1>3
  <2>2. /\ IsFiniteSet(Reading \cup {h})
        /\ Cardinality(Reading \cup {h}) <= Cardinality(Reading) + 1
    BY <1>1, FS_AddElement DEF CountInv
  <2>3. /\ IsFiniteSet(Reading')
        /\ Cardinality(Reading') <= Cardinality(Reading \cup {h})
    BY <2>1, <2>2, FS_Subset
  <2>4. Cardinality(Reading') \in Nat /\ Cardinality(Reading \cup {h}) \in Nat
    BY <2>2, <2>3, FS_CardinalityType
  <2>5. QED
    BY <1>1, <1>3, <2>2, <2>3, <2>4 DEF CountInv, TypeOK
<1>4. QED
  BY <1>2, <1>3

\* ... and when an update takes its id.
LEMMA CountTaken ==
    ASSUME TypeOK, CountInv, requests' = requests, NEW h \in Reading,
           Reading' = Reading \ {h}, assocSeq' = assocSeq + 1
    PROVE  CountInv' /\ assocSeq' \in 0 .. MaxRequests
<1>1. Cardinality(Reading) \in Nat /\ IsFiniteSet(Reading)
  BY FS_CardinalityType DEF CountInv
<1>2. IsFiniteSet(Reading') /\ Cardinality(Reading') = Cardinality(Reading) - 1
  BY <1>1, FS_RemoveElement
<1>3. Cardinality(Reading') \in Nat
  BY <1>2, FS_CardinalityType
<1>4. QED
  BY <1>1, <1>2, <1>3 DEF CountInv, TypeOK

-----------------------------------------------------------------------------
(***************************************************************************)
(* The steps of a behaviour.                                               *)
(***************************************************************************)
\* A get, update or deletion arrives for an id the SMF was told of.
LEMMA ArrivalStep ==
    ASSUME IInv, NEW h \in Handlers, NEW type \in {"get", "update", "delete"}, NEW i \in Ids,
           NEW for \in 0 .. MaxRequests, heard[i] # Absent,
           Receive(h, type, i, IF type = "delete" THEN "lock" ELSE "read", for),
           UNCHANGED <<assocSeq, associations, holder, heard, endings, faults>>,
           posts' \subseteq Post, \A j \in Ids : SamePosts(j),
           \A p \in posts' : \E q \in posts : q.n = p.n /\ q.id = p.id /\ q.decision = p.decision
    PROVE  IInv'
<1> DEFINE step == IF type = "delete" THEN "lock" ELSE "read"
<1> step \in PCs \ {"idle"}
  BY DEF PCs
<1>1. /\ pc[h] = "idle" /\ requests' = requests + 1 /\ requests' \in 0 .. MaxRequests
      /\ pc' \in [Handlers -> PCs] /\ req' \in [Handlers -> Request]
      /\ pc'[h] = step /\ req'[h] = Arrived(requests + 1, type, i, for)
      /\ MovedOnly(h)
      /\ crossed' \in SUBSET Ids /\ crossed \subseteq crossed'
  BY ReceiveFacts DEF IInv, MovedOnly
<1>2. \A j \in Ids \ crossed' : j = i =>
           /\ type = "update" => ~Unheard(i) /\ \A g \in Handlers : ~Changes(g, i)
           /\ type = "delete" =>
                 /\ \A g \in Handlers : Changes(g, i) => req[g].type # "update"
                 /\ \A p \in posts : p.id = i => p.decision = Over
  BY ReceiveFacts DEF IInv
<1>3. i <= assocSeq /\ i \in 1 .. assocSeq
  BY DEF IInv, IdInv, Ids, TypeOK
<1>4. req[h].type = "none" /\ req[h].id = 0 /\ req[h].n = 0
  BY <1>1, IdleHandler DEF IInv, LocalInv, LocalOK
<1>5. \A g \in Handlers \ {h} : pc'[g] = pc[g] /\ req'[g] = req[g]
  BY <1>1 DEF MovedOnly
<1>6. /\ req'[h].type = type /\ req'[h].n = requests + 1 /\ req'[h].id = i
      /\ requests \in Nat
  BY <1>1 DEF Arrived, IInv, TypeOK
<1>7. TypeOK'
  BY <1>1 DEF IInv, TypeOK
<1>8. LocalInv'
  <2>1. LocalOK(h)'
    BY <1>1, <1>3, <1>6 DEF LocalOK, Places
  <2>2. \A g \in Handlers \ {h} : LocalOK(g)' /\ req[g].n # requests + 1
    BY <1>1, <1>5, <1>6 DEF LocalOK, IInv, LocalInv, TypeOK
  <2>3. QED
    BY <2>1, <2>2, <1>5, <1>6 DEF LocalInv, IInv
<1>9. PostInv'
  <2> SUFFICES ASSUME NEW p \in posts', NEW g \in Handlers
               PROVE  /\ p.n <= requests'
                      /\ req'[g].n = p.n =>
                           pc'[g] = "await" /\ req'[g].id = p.id /\ Notice(g)'.decision = p.decision
    BY DEF PostInv, PostOK
  <2>1. PICK q \in posts : q.n = p.n /\ q.id = p.id /\ q.decision = p.decision
    OBVIOUS
  <2>2. PostOK(q) /\ p.n \in Nat
    BY <2>1 DEF IInv, PostInv, TypeOK, Post, Ids
  <2>3. p.n <= requests /\ p.n # requests + 1
    BY <2>1, <2>2, <1>6 DEF PostOK
  <2>4. CASE g = h
    BY <2>2, <2>3, <2>4, <1>1, <1>6
  <2>5. CASE g # h
    BY <2>1, <2>2, <2>3, <2>5, <1>1, <1>5, <1>6 DEF PostOK, Notice
  <2>6. QED
    BY <2>4, <2>5
<1>10. IdInv'
  <2>1. ASSUME NEW j \in Ids, heard'[j] = Absent PROVE New(j)'
    <3>1. New(j) /\ j # i
      BY <2>1 DEF IInv, IdInv
    <3>2. ~Unheard(j)'
      BY <3>1 DEF New, Unheard, SamePosts
    <3>3. QED
      BY <3>1, <3>2, <1>5, <1>6 DEF New
  <2>2. QED
    BY <2>1, <1>5, <1>6 DEF IdInv, IInv
<1>11. CountInv'
  <2>1. Reading' \subseteq Reading \cup {h}
    BY <1>5 DEF Reading
  <2>2. QED
    BY <2>1, <1>1, CountGrows DEF IInv
<1>12. CalmInv'
  <2> SUFFICES ASSUME NEW j \in Ids \ crossed' PROVE Calm(j)'
    BY DEF CalmInv
  <2>1. Calm(j)
    BY <1>1 DEF IInv, CalmInv
  <2>2. CASE j # i
    BY <2>1, <2>2, <1>1, <1>4, <1>6, CalmElsewhere DEF Ids
  <2>3. CASE j = i
    <3>1. \A g \in Handlers \ {h} : Changes(g, i)' <=> Changes(g, i)
      BY <1>5 DEF Changes
    <3>2. Unheard(i)' <=> Unheard(i)
      BY DEF SamePosts, Unheard
    <3>3. UpdateAlone(i)'
      <4> SUFFICES ASSUME NEW g \in Handlers, req'[g].type = "update", req'[g].id = i
                   PROVE  /\ \A f \in Handlers : Changes(f, i)' => f = g
                          /\ pc'[g] \in {"read", "write"} => ~Unheard(i)'
                          /\ pc'[g] = "write" => There(i)'
        BY DEF UpdateAlone
      <4>1. CASE g = h
        BY <4>1, <3>1, <3>2, <1>1, <1>2, <1>6, <2>3
      <4>2. CASE g # h
        <5>1. req[g].type = "update" /\ req[g].id = i /\ pc'[g] = pc[g] /\ Changes(g, i)
          BY <4>2, <1>5 DEF Changes
        <5>2. type = "get"
          BY <5>1, <1>2, <2>3
        <5>3. ~Changes(h, i)'
          BY <5>2, <1>6 DEF Changes
        <5>4. QED
          BY <5>1, <5>3, <3>1, <3>2, <2>1, <2>3 DEF Calm, UpdateAlone, There
      <4>3. QED
        BY <4>1, <4>2
    <3>4. DeleteApart(i)'
      <4> SUFFICES ASSUME NEW g \in Handlers, req'[g].type = "delete", req'[g].id = i,
                          NEW p \in posts', p.id = i
                   PROVE  p.decision = Over
        BY DEF DeleteApart, Over, Ids
      <4>1. PICK q \in posts : q.id = i /\ q.decision = p.decision
        BY DEF SamePosts
      <4>2. CASE g = h
        BY <4>1, <4>2, <1>2, <1>6, <2>3
      <4>3. CASE g # h
        BY <4>1, <4>3, <1>5, <2>1, <2>3 DEF Calm, DeleteApart
      <4>4. QED
        BY <4>2, <4>3
    <3>5. Truthful(i)'
      <4>1. \A g \in Handlers : Noticing(g, i)' <=> Noticing(g, i)
        BY <1>1, <1>5 DEF Noticing
      <4>2. \A g \in Handlers : Noticing(g, i) => Notice(g)' = Notice(g)
        BY <1>1, <1>5 DEF Noticing, Notice
      <4>3. \A d : True(d, i)' <=> True(d, i)
        BY DEF True, There
      <4>4. Quiet(i)' <=> Quiet(i)
        BY <3>2, <4>1 DEF Quiet
      <4>5. QED
        BY <4>1, <4>2, <4>3, <4>4, <2>1, <2>3 DEF Truthful, Calm, SamePosts
    <3>6. EndedOnce(i)'
      BY <2>1, <2>3 DEF EndedOnce, Calm, There
    <3>7. QED
      BY <2>3, <3>3, <3>4, <3>5, <3>6 DEF Calm
  <2>4. QED
    BY <2>2, <2>3
<1>13. LockInv'
  BY <1>1, <1>4, <1>5, <1>6 DEF IInv, LockInv
<1>14. QED
  BY <1>7, <1>8, <1>9, <1>10, <1>11, <1>12, <1>13 DEF IInv

LEMMA CreateStep ==
    ASSUME IInv, NEW h \in Handlers, Create(h)
    PROVE  IInv'
<1> DEFINE i == assocSeq + 1
<1>0. requests \in Nat /\ assocSeq \in Nat /\ i \in Ids
  <2>1. Cardinality(Reading) \in Nat
    BY FS_CardinalityType DEF IInv, CountInv
  <2>2. requests < MaxRequests
    BY DEF Create, Receive
  <2>3. QED
    BY <2>1, <2>2 DEF IInv, CountInv, TypeOK, Ids
<1>1. Receive(h, "create", i, "store", 0) /\ assocSeq' = i
  BY DEF Create, buildAssociation
<1>2. /\ pc[h] = "idle" /\ requests' = requests + 1 /\ requests' \in 0 .. MaxRequests
      /\ pc' \in [Handlers -> PCs] /\ req' \in [Handlers -> Request]
      /\ pc'[h] = "store" /\ req'[h] = Arrived(requests + 1, "create", i, 0)
      /\ \A g \in Handlers \ {h} : pc'[g] = pc[g] /\ req'[g] = req[g]
      /\ crossed' \in SUBSET Ids /\ crossed \subseteq crossed'
  <2>1. "store" \in PCs \ {"idle"} /\ 0 \in 0 .. MaxRequests
    BY DEF PCs
  <2>2. QED
    BY <1>0, <1>1, <2>1, ReceiveFacts DEF IInv
<1>3. req[h].type = "none" /\ req[h].id = 0 /\ req[h].n = 0
  BY <1>2, IdleHandler DEF IInv, LocalInv, LocalOK
<1>4. req'[h].type = "create" /\ req'[h].n = requests + 1 /\ req'[h].id = i
  BY <1>2 DEF Arrived
<1>5. \A g \in Handlers : req[g].id \in Nat /\ req[g].id <= assocSeq
  BY <1>0 DEF IInv, LocalInv, LocalOK
<1>6. heard[i] = Absent
  BY <1>0 DEF IInv, IdInv
<1>7. UNCHANGED <<associations, holder, posts, heard, endings, faults>>
  BY DEF Create
<1>8. TypeOK'
  BY <1>0, <1>1, <1>2, <1>7 DEF IInv, TypeOK, Ids
<1>9. LocalInv'
  <2>1. LocalOK(h)'
    BY <1>0, <1>1, <1>2, <1>4 DEF LocalOK, Places
  <2>2. \A g \in Handlers \ {h} : LocalOK(g)' /\ req[g].n # requests + 1
    <3> SUFFICES ASSUME NEW g \in Handlers \ {h} PROVE LocalOK(g)' /\ req[g].n # requests + 1
      OBVIOUS
    <3>1. LocalOK(g) /\ req[g].n \in Nat /\ req[g].id \in Nat
      BY DEF IInv, LocalInv, TypeOK, Request
    <3>2. QED
      BY <3>1, <1>0, <1>1, <1>2 DEF LocalOK
  <2>3. QED
    BY <2>1, <2>2, <1>2, <1>4 DEF LocalInv, IInv
<1>10. PostInv'
  <2>1. \A p \in posts : p.n <= requests /\ p.n \in Nat
    BY DEF IInv, PostInv, PostOK, TypeOK, Post, Ids
  <2>2. QED
    BY <2>1, <1>0, <1>2, <1>4, <1>7 DEF PostInv, PostOK, Notice, IInv
<1>11. IdInv'
  <2>1. ASSUME NEW j \in Ids, heard'[j] = Absent PROVE New(j)'
    BY <2>1, <1>2, <1>4, <1>7 DEF IInv, IdInv, New, Unheard
  <2>2. QED
    BY <2>1, <1>0, <1>1, <1>2, <1>4, <1>5, <1>6, <1>7 DEF IdInv, IInv, Ids
<1>12. CountInv'
  <2>1. Reading' \subseteq Reading
    BY <1>2, <1>4 DEF Reading
  <2>2. QED
    BY <2>1, <1>1, <1>2, CountGrows DEF IInv
<1>13. CalmInv'
  <2> SUFFICES ASSUME NEW j \in Ids \ crossed' PROVE Calm(j)'
    BY DEF CalmInv
  <2>1. Calm(j)
    BY <1>2 DEF IInv, CalmInv
  <2>2. SamePosts(j)
    BY <1>7 DEF SamePosts
  <2>3. CASE j # i
    BY <2>1, <2>2, <2>3, <1>2, <1>3, <1>4, <1>7, CalmElsewhere DEF Ids, MovedOnly
  <2>4. CASE j = i
    <3>1. New(j)
      BY <2>4, <1>6 DEF IInv, IdInv
    <3>2. \A g \in Handlers : req'[g].id = j => req'[g].type = "create"
      BY <2>4, <3>1, <1>2, <1>4 DEF New
    <3>3. \A g \in Handlers : Noticing(g, j)' => FALSE
      BY <2>4, <1>0, <1>2, <1>5 DEF Noticing
    <3>4. ~Unheard(j)' /\ endings'[j] = {} /\ heard'[j] = associations'[j]
      BY <2>4, <3>1, <1>6, <1>7 DEF New, Unheard
    <3>5. QED
      BY <3>2, <3>3, <3>4
      DEF Calm, UpdateAlone, DeleteApart, Truthful, EndedOnce, Unheard, True
  <2>5. QED
    BY <2>3, <2>4
<1>14. LockInv'
  BY <1>2, <1>3, <1>4, <1>7 DEF IInv, LockInv
<1>15. QED
  BY <1>8, <1>9, <1>10, <1>11, <1>12, <1>13, <1>14 DEF IInv

\* A handler that gets nowhere: its request is answered and nothing else happens.
LEMMA ReturnStep ==
    ASSUME IInv, NEW h \in Handlers, pc[h] \in {"read", "lock"}, Continue(h, "idle"),
           UNCHANGED <<assocSeq, associations, holder, posts, heard, endings, crossed,
                       requests, faults>>
    PROVE  IInv'
<1>1. /\ pc' \in [Handlers -> PCs] /\ req' \in [Handlers -> Request]
      /\ pc'[h] = "idle" /\ req'[h] = Idle
      /\ \A g \in Handlers \ {h} : pc'[g] = pc[g] /\ req'[g] = req[g]
  <2>1. "idle" \in PCs
    BY DEF PCs
  <2>2. QED
    BY <2>1, ContinueFacts DEF IInv
<1>2. req'[h].type = "none" /\ req'[h].id = 0 /\ req'[h].n = 0
  BY <1>1 DEF Idle
<1>3. TypeOK'
  BY <1>1 DEF IInv, TypeOK
<1>4. LocalInv'
  <2>1. LocalOK(h)'
    BY <1>1, <1>2 DEF LocalOK, Places
  <2>2. \A g \in Handlers \ {h} : LocalOK(g)' /\ (req[g].type # "none" => req[g].n # 0)
    BY <1>1 DEF IInv, LocalInv, LocalOK
  <2>3. QED
    BY <2>1, <2>2, <1>1, <1>2 DEF LocalInv, IInv
<1>5. PostInv'
  <2> SUFFICES ASSUME NEW p \in posts PROVE PostOK(p)'
    BY DEF PostInv
  <2>1. PostOK(p) /\ p.n \in Nat \ {0}
    <3>1. posts \subseteq Post /\ PostOK(p)
      BY DEF IInv, PostInv, TypeOK
    <3>2. QED
      BY <3>1 DEF Post, Ids
  <2>2. \A g \in Handlers : req'[g].n = p.n => g # h
    BY <1>2, <2>1
  <2>3. QED
    BY <1>1, <2>1, <2>2 DEF PostOK, Notice
<1>6. IdInv'
  <2>1. ASSUME NEW j \in Ids, heard'[j] = Absent PROVE New(j)'
    BY <2>1, <1>1, <1>2 DEF IInv, IdInv, New, Unheard, Ids
  <2>2. QED
    BY <2>1, <1>1, <1>2 DEF IInv, IdInv
<1>7. CountInv'
  <2>1. Reading' \subseteq Reading
    BY <1>1 DEF Reading
  <2>2. QED
    BY <2>1, CountKept DEF IInv, TypeOK
<1>8. CalmInv'
  <2> SUFFICES ASSUME NEW j \in Ids \ crossed PROVE Calm(j)'
    BY DEF CalmInv
  <2>1. Calm(j)
    BY DEF IInv, CalmInv
  <2>2. \A g \in Handlers : Changes(g, j)' => Changes(g, j) /\ g # h
    BY <1>1, <1>2 DEF Changes
  <2>3. \A g \in Handlers : Noticing(g, j)' <=> Noticing(g, j)
    BY <1>1, <1>2 DEF Noticing
  <2>4. \A g \in Handlers : Noticing(g, j)' => Notice(g)' = Notice(g)
    BY <1>1 DEF Noticing, Notice
  <2>5. UpdateAlone(j)' /\ DeleteApart(j)'
    BY <2>1, <2>2, <1>1, <1>2 DEF Calm, UpdateAlone, DeleteApart, Unheard, There
  <2>6. Truthful(j)'
    BY <2>1, <2>3, <2>4 DEF Calm, Truthful, True, There, Quiet, Unheard
  <2>7. EndedOnce(j)'
    BY <2>1 DEF Calm, EndedOnce, There
  <2>8. QED
    BY <2>5, <2>6, <2>7 DEF Calm
<1>9. LockInv'
  BY <1>1, <1>2 DEF IInv, LockInv
<1>10. QED
  BY <1>3, <1>4, <1>5, <1>6, <1>7, <1>8, <1>9 DEF IInv

\* A notification is answered, cannot be sent or is given up: the SMF was told, and the
\* handler returns.
LEMMA FinishStep ==
    ASSUME IInv, NEW h \in Handlers, pc[h] \in {"notify", "await"}, Finish(h),
           posts' \subseteq posts, \A p \in posts \ posts' : p.n = req[h].n, faults' \in Nat,
           UNCHANGED <<assocSeq, associations, endings, crossed, requests>>
    PROVE  IInv'
<1> DEFINE i == req[h].id
           d == Notice(h).decision
<1>1. /\ pc' \in [Handlers -> PCs] /\ req' \in [Handlers -> Request]
      /\ pc'[h] = "idle" /\ req'[h] = Idle
      /\ \A g \in Handlers \ {h} : pc'[g] = pc[g] /\ req'[g] = req[g]
  <2>1. "idle" \in PCs
    BY DEF PCs
  <2>2. QED
    BY <2>1, ContinueFacts DEF IInv, Finish
<1>2. req'[h].type = "none" /\ req'[h].id = 0 /\ req'[h].n = 0
  BY <1>1 DEF Idle
<1>3. /\ req[h].type \in {"update", "delete"} /\ i \in Ids /\ i <= assocSeq
      /\ d \in Contexts \cup {Over} /\ d # Absent
  <2>1. req[h].type \in {"update", "delete"}
    BY IdleHandler DEF IInv
  <2>2. i \in Ids /\ i <= assocSeq
    BY <2>1, WorksOnId DEF IInv
  <2>3. d \in Contexts \cup {Over} /\ d # Absent
    BY NoticeTyped DEF IInv, Post
  <2>4. QED
    BY <2>1, <2>2, <2>3
<1>4. heard' = [heard EXCEPT ![i] = d] /\ heard'[i] = d /\ \A j \in Ids \ {i} : heard'[j] = heard[j]
  BY <1>3 DEF Finish, IInv, TypeOK
<1>5. \A p \in posts \ posts' : p.id = i
  BY DEF IInv, PostInv, PostOK
<1>6. heard[i] # Absent
  BY <1>3 DEF IInv, IdInv, New
<1>7. TypeOK'
  <2>1. holder' \in Handlers \cup {Nobody}
    BY DEF Finish, IInv, TypeOK
  <2>2. heard' \in [Ids -> Contexts \cup {Absent, Over}]
    BY <1>3, <1>4 DEF IInv, TypeOK
  <2>3. QED
    BY <1>1, <2>1, <2>2 DEF IInv, TypeOK
<1>8. LocalInv'
  <2>1. LocalOK(h)'
    BY <1>1, <1>2 DEF LocalOK, Places
  <2>2. \A g \in Handlers \ {h} : LocalOK(g)' /\ (req[g].type # "none" => req[g].n # 0)
    BY <1>1 DEF IInv, LocalInv, LocalOK
  <2>3. QED
    BY <2>1, <2>2, <1>1, <1>2 DEF LocalInv, IInv
<1>9. PostInv'
  BY <1>1, <1>2 DEF IInv, PostInv, PostOK, Notice, TypeOK, Post, Ids
<1>10. IdInv'
  <2>1. ASSUME NEW j \in Ids, heard'[j] = Absent PROVE New(j)'
    <3>1. New(j) /\ j # i
      BY <2>1, <1>3, <1>4 DEF IInv, IdInv
    <3>2. ~Unheard(j)' /\ associations'[j] = Absent /\ endings'[j] = {}
      BY <3>1 DEF New, Unheard
    <3>3. \A g \in Handlers : req'[g].id = j => req'[g].type = "create"
      BY <3>1, <1>1, <1>2 DEF New, Ids
    <3>4. QED
      BY <3>2, <3>3 DEF New
  <2>2. \A j \in Ids : j > assocSeq => heard'[j] = Absent
    BY <1>3, <1>4 DEF IInv, IdInv, TypeOK, Ids
  <2>3. \A g \in Handlers : req'[g].type = "create" =>
            g # h /\ req'[g] = req[g] /\ heard'[req[g].id] = Absent
    <3> SUFFICES ASSUME NEW g \in Handlers, req'[g].type = "create"
                 PROVE  g # h /\ req'[g] = req[g] /\ heard'[req[g].id] = Absent
      OBVIOUS
    <3>1. g # h /\ req'[g] = req[g]
      BY <1>1, <1>2
    <3>2. req[g].id \in Ids /\ heard[req[g].id] = Absent
      BY <3>1, WorksOnId DEF IInv, IdInv
    <3>3. QED
      BY <3>1, <3>2, <1>4, <1>6
  <2>4. QED
    BY <2>1, <2>2, <2>3 DEF IdInv, IInv
<1>11. CountInv'
  <2>1. Reading' \subseteq Reading
    BY <1>1 DEF Reading
  <2>2. QED
    BY <2>1, CountKept DEF IInv, TypeOK
<1>12. CalmInv'
  <2> SUFFICES ASSUME NEW j \in Ids \ crossed PROVE Calm(j)'
    BY DEF CalmInv
  <2>1. Calm(j)
    BY DEF IInv, CalmInv
  <2>2. CASE j # i
    <3>1. SamePosts(j)
      BY <2>2, <1>5 DEF SamePosts
    <3>2. MovedOnly(h)
      BY <1>1 DEF MovedOnly
    <3>3. QED
      BY <2>1, <2>2, <3>1, <3>2, <1>2, <1>4, CalmElsewhere DEF Ids
  <2>3. CASE j = i
    <3>1. True(d, j)
      BY <2>1, <2>3 DEF Calm, Truthful, Noticing
    <3>2. \A g \in Handlers : Noticing(g, j)' => Noticing(g, j) /\ Notice(g)' = Notice(g)
      BY <1>1, <1>2 DEF Noticing, Notice
    <3>3. \A x : True(x, j)' <=> True(x, j)
      BY DEF True, There
    <3>4. Truthful(j)'
      BY <2>1, <2>3, <1>4, <3>1, <3>2, <3>3 DEF Calm, Truthful
    <3>5. UpdateAlone(j)' /\ DeleteApart(j)'
      <4>1. \A g \in Handlers : req'[g].id = j => g # h /\ req'[g] = req[g]
        BY <1>1, <1>2 DEF Ids
      <4>2. \A g \in Handlers : g # h /\ req[g].id = j => req[g].type # "update"
        BY <2>1, <2>3, <1>3 DEF Calm, UpdateAlone, Changes
      <4>3. UpdateAlone(j)'
        BY <4>1, <4>2 DEF UpdateAlone
      <4>4. DeleteApart(j)'
        BY <4>1, <2>1, <2>3 DEF Calm, DeleteApart
      <4>5. QED
        BY <4>3, <4>4
    <3>6. EndedOnce(j)'
      BY <2>1, <2>3 DEF Calm, EndedOnce, There
    <3>7. QED
      BY <3>4, <3>5, <3>6 DEF Calm
  <2>4. QED
    BY <2>2, <2>3
<1>13. LockInv'
  BY <1>1, <1>2 DEF IInv, LockInv, TypeOK, Finish
<1>14. QED
  BY <1>7, <1>8, <1>9, <1>10, <1>11, <1>12, <1>13 DEF IInv

\* A late answer: whoever sent the notification has given up.
LEMMA LateAnswerStep ==
    ASSUME IInv, NEW p \in posts, posts' = posts \ {p},
           heard' = [heard EXCEPT ![p.id] = p.decision],
           ~\E h \in Handlers : req[h].n = p.n /\ pc[h] = "await",
           UNCHANGED <<pc, req, holder, assocSeq, associations, endings, crossed,
                       requests, faults>>
    PROVE  IInv'
<1>1. /\ p.id \in Ids /\ p.n \in Ids /\ p.decision \in Contexts \cup {Over}
      /\ p.decision # Absent
  BY Marks DEF IInv, TypeOK, Post
<1>2. heard'[p.id] = p.decision /\ \A j \in Ids \ {p.id} : heard'[j] = heard[j]
  BY <1>1 DEF IInv, TypeOK
<1>3. heard[p.id] # Absent
  BY <1>1 DEF IInv, IdInv, New, Unheard
<1>4. TypeOK'
  BY <1>1 DEF IInv, TypeOK
<1>5. LocalInv'
  BY DEF IInv, LocalInv, LocalOK
<1>6. PostInv'
  BY DEF IInv, PostInv, PostOK, Notice
<1>7. IdInv'
  <2>1. \A j \in Ids : heard'[j] = Absent <=> heard[j] = Absent
    BY <1>1, <1>2, <1>3
  <2>2. \A j \in Ids : New(j) => New(j)'
    BY DEF New, Unheard
  <2>3. \A g \in Handlers : req[g].type = "create" => req[g].id \in Ids
    BY WorksOnId DEF IInv
  <2>4. QED
    BY <2>1, <2>2, <2>3 DEF IInv, IdInv
<1>8. CountInv'
  BY DEF IInv, CountInv, Reading
<1>9. CalmInv'
  <2> SUFFICES ASSUME NEW j \in Ids \ crossed PROVE Calm(j)'
    BY DEF CalmInv
  <2>1. Calm(j)
    BY DEF IInv, CalmInv
  <2>2. \A g \in Handlers : Noticing(g, j)' <=> Noticing(g, j)
    BY DEF Noticing
  <2>3. \A g \in Handlers : Notice(g)' = Notice(g)
    BY DEF Notice
  <2>4. \A x : True(x, j)' <=> True(x, j)
    BY DEF True, There
  <2>5. UpdateAlone(j)' /\ DeleteApart(j)'
    <3>1. Unheard(j)' => Unheard(j)
      BY DEF Unheard
    <3>2. UpdateAlone(j)'
      BY <2>1, <3>1 DEF Calm, UpdateAlone, There, Changes
    <3>3. DeleteApart(j)'
      BY <2>1 DEF Calm, DeleteApart
    <3>4. QED
      BY <3>2, <3>3
  <2>6. Truthful(j)'
    <3>1. CASE j = p.id
      BY <3>1, <1>2, <2>1, <2>2, <2>3, <2>4 DEF Calm, Truthful
    <3>2. CASE j # p.id
      <4>1. heard'[j] = heard[j] /\ (Quiet(j)' => Quiet(j))
        BY <3>2, <1>2, <2>2 DEF Quiet, Unheard
      <4>2. QED
        BY <4>1, <2>1, <2>2, <2>3, <2>4 DEF Calm, Truthful
    <3>3. QED
      BY <3>1, <3>2
  <2>7. EndedOnce(j)'
    BY <2>1 DEF Calm, EndedOnce, There
  <2>8. QED
    BY <2>5, <2>6, <2>7 DEF Calm
<1>10. LockInv'
  BY DEF IInv, LockInv
<1>11. QED
  BY <1>4, <1>5, <1>6, <1>7, <1>8, <1>9, <1>10 DEF IInv

LEMMA StoreNewStep ==
    ASSUME IInv, NEW h \in Handlers, StoreNew(h)
    PROVE  IInv'
<1> DEFINE i == req[h].id
<1>1. /\ pc' \in [Handlers -> PCs] /\ req' \in [Handlers -> Request]
      /\ pc'[h] = "idle" /\ req'[h] = Idle
      /\ \A g \in Handlers \ {h} : pc'[g] = pc[g] /\ req'[g] = req[g]
  <2>1. "idle" \in PCs
    BY DEF PCs
  <2>2. QED
    BY <2>1, ContinueFacts DEF IInv, StoreNew
<1>2. req'[h].type = "none" /\ req'[h].id = 0 /\ req'[h].n = 0
  BY <1>1 DEF Idle
<1>3. req[h].type = "create" /\ i \in Ids /\ i <= assocSeq
  BY IdleHandler, WorksOnId DEF StoreNew, IInv
<1>4. New(i) /\ heard[i] = Absent
  BY <1>3 DEF IInv, IdInv
<1>5. /\ \A j \in Ids \ {i} : associations'[j] = associations[j] /\ heard'[j] = heard[j]
      /\ associations'[i] = {} /\ heard'[i] = {}
      /\ UNCHANGED <<assocSeq, holder, posts, endings, crossed, requests, faults>>
  BY <1>3 DEF StoreNew, Assign, IInv, TypeOK
<1>6. TypeOK'
  BY <1>1, <1>3, Marks DEF StoreNew, Assign, IInv, TypeOK
<1>7. LocalInv'
  <2>1. LocalOK(h)'
    BY <1>1, <1>2 DEF LocalOK, Places
  <2>2. \A g \in Handlers \ {h} : LocalOK(g)' /\ (req[g].type # "none" => req[g].n # 0)
    BY <1>1, <1>5 DEF IInv, LocalInv, LocalOK
  <2>3. QED
    BY <2>1, <2>2, <1>1, <1>2 DEF LocalInv, IInv
<1>8. PostInv'
  BY <1>1, <1>2, <1>5 DEF IInv, PostInv, PostOK, Notice, TypeOK, Post, Ids
<1>9. IdInv'
  <2>1. ASSUME NEW j \in Ids, heard'[j] = Absent PROVE New(j)'
    <3>1. New(j) /\ j # i
      BY <2>1, <1>5, Marks DEF IInv, IdInv
    <3>2. QED
      BY <3>1, <1>1, <1>2, <1>5 DEF New, Unheard, Ids
  <2>2. \A j \in Ids : j > assocSeq => heard'[j] = Absent
    BY <1>3, <1>5 DEF IInv, IdInv, TypeOK, Ids
  <2>3. ASSUME NEW g \in Handlers, req'[g].type = "create"
        PROVE  g # h /\ req'[g] = req[g] /\ heard'[req[g].id] = Absent
    <3>1. g # h /\ req'[g] = req[g]
      BY <2>3, <1>1, <1>2
    <3>2. req[g].id \in Ids /\ heard[req[g].id] = Absent /\ req[g].id # i
      BY <3>1, <2>3, <1>3, WorksOnId DEF IInv, IdInv
    <3>3. QED
      BY <3>1, <3>2, <1>5
  <2>4. QED
    BY <2>1, <2>2, <2>3, <1>5 DEF IdInv, IInv
<1>10. CountInv'
  <2>1. Reading' \subseteq Reading
    BY <1>1 DEF Reading
  <2>2. QED
    BY <2>1, <1>5, CountKept DEF IInv, TypeOK
<1>11. CalmInv'
  <2> SUFFICES ASSUME NEW j \in Ids \ crossed PROVE Calm(j)'
    BY <1>5 DEF CalmInv
  <2>1. Calm(j)
    BY DEF IInv, CalmInv
  <2>2. CASE j # i
    <3>1. SamePosts(j) /\ MovedOnly(h)
      BY <1>1, <1>5 DEF SamePosts, MovedOnly
    <3>2. QED
      BY <2>1, <2>2, <3>1, <1>2, <1>5, CalmElsewhere DEF Ids
  <2>3. CASE j = i
    <3>1. \A g \in Handlers : req'[g].id # j
      BY <2>3, <1>1, <1>2, <1>3, <1>4 DEF New, IInv, IdInv, Ids
    <3>2. ~Unheard(j)' /\ endings'[j] = {} /\ heard'[j] = associations'[j]
      BY <2>3, <1>4, <1>5 DEF New, Unheard
    <3>3. QED
      BY <3>1, <3>2
      DEF Calm, UpdateAlone, DeleteApart, Truthful, EndedOnce, Unheard, True, Noticing
  <2>4. QED
    BY <2>2, <2>3
<1>12. LockInv'
  BY <1>1, <1>2, <1>3, <1>5 DEF IInv, LockInv
<1>13. QED
  BY <1>6, <1>7, <1>8, <1>9, <1>10, <1>11, <1>12 DEF IInv

\* An update has read the association; resolving the policy anew took an id.
LEMMA ReadStep ==
    ASSUME IInv, NEW h \in Handlers, Read(h)
    PROVE  IInv'
<1> DEFINE i == req[h].id
<1>0. CASE Continue(h, "idle") /\ UNCHANGED assocSeq
  BY <1>0, ReturnStep DEF Read
<1> SUFFICES ASSUME pc[h] = "read", req[h].type = "update", There(i),
                    Goto(h, "write", [req[h] EXCEPT !.context = Merged(h)]),
                    assocSeq' = assocSeq + 1,
                    UNCHANGED <<associations, holder, posts, heard, endings, crossed,
                                requests, faults>>
             PROVE  IInv'
  BY <1>0 DEF Read, buildAssociation
<1>1. /\ pc' \in [Handlers -> PCs] /\ req' \in [Handlers -> Request]
      /\ pc'[h] = "write" /\ req'[h] = [req[h] EXCEPT !.context = Merged(h)]
      /\ MovedOnly(h)
  <2>1. i \in Ids /\ req[h].n \in Ids
    BY WorksOnId DEF IInv
  <2>2. associations[i] \in Contexts
    BY <2>1 DEF There, IInv, TypeOK
  <2>3. Merged(h) \in Contexts
    BY <2>1, <2>2 DEF Merged, Contexts
  <2>4. [req[h] EXCEPT !.context = Merged(h)] \in Request
    BY <2>3 DEF IInv, TypeOK, Request
  <2>5. "write" \in PCs
    BY DEF PCs
  <2>6. QED
    BY <2>4, <2>5, GotoFacts DEF IInv, MovedOnly
<1>2. /\ pc'[h] = "write" /\ req'[h].type = "update" /\ req'[h].id = i /\ req'[h].n = req[h].n
      /\ \A g \in Handlers \ {h} : pc'[g] = pc[g] /\ req'[g] = req[g]
  BY <1>1 DEF IInv, TypeOK, Request, MovedOnly
<1>3. Reading' = Reading \ {h} /\ h \in Reading
  BY <1>2 DEF Reading
<1>4. CountInv' /\ assocSeq' \in 0 .. MaxRequests
  BY <1>3, CountTaken DEF IInv
<1>5. TypeOK'
  BY <1>1, <1>4 DEF IInv, TypeOK
<1>6. LocalInv'
  <2>1. LocalOK(h)'
    BY <1>2 DEF LocalOK, Places, IInv, LocalInv, TypeOK
  <2>2. \A g \in Handlers \ {h} : LocalOK(g)'
    BY <1>2 DEF IInv, LocalInv, LocalOK, TypeOK
  <2>3. QED
    BY <2>1, <2>2, <1>2 DEF LocalInv, IInv
<1>7. PostInv'
  <2>1. \A p \in posts : p.n # req[h].n
    BY DEF IInv, PostInv, PostOK
  <2>2. QED
    BY <2>1, <1>2 DEF IInv, PostInv, PostOK, Notice
<1>8. IdInv'
  <2>1. ASSUME NEW j \in Ids, heard'[j] = Absent PROVE New(j)'
    BY <2>1, <1>2 DEF IInv, IdInv, New, Unheard
  <2>2. \A j \in Ids : j > assocSeq' => heard'[j] = Absent
    BY DEF IInv, IdInv, TypeOK, Ids
  <2>3. QED
    BY <2>1, <2>2, <1>2 DEF IInv, IdInv
<1>9. CalmInv'
  <2> SUFFICES ASSUME NEW j \in Ids \ crossed PROVE Calm(j)'
    BY DEF CalmInv
  <2>1. Calm(j)
    BY DEF IInv, CalmInv
  <2>2. \A g \in Handlers : Changes(g, j)' <=> Changes(g, j)
    BY <1>2 DEF Changes
  <2>3. \A g \in Handlers : Noticing(g, j)' <=> Noticing(g, j)
    BY <1>2 DEF Noticing
  <2>4. \A g \in Handlers : Noticing(g, j)' => Notice(g)' = Notice(g)
    BY <1>2 DEF Noticing, Notice
  <2>5. Unheard(j)' <=> Unheard(j)
    BY DEF Unheard
  <2>6. UpdateAlone(j)'
    BY <2>1, <2>2, <2>5, <1>2 DEF Calm, UpdateAlone, There
  <2>7. DeleteApart(j)'
    BY <2>1, <1>2 DEF Calm, DeleteApart
  <2>8. Truthful(j)'
    BY <2>1, <2>3, <2>4, <2>5 DEF Calm, Truthful, True, There, Quiet
  <2>9. EndedOnce(j)'
    BY <2>1 DEF Calm, EndedOnce, There
  <2>10. QED
    BY <2>6, <2>7, <2>8, <2>9 DEF Calm
<1>10. LockInv'
  BY <1>2 DEF IInv, LockInv
<1>11. QED
  BY <1>4, <1>5, <1>6, <1>7, <1>8, <1>9, <1>10 DEF IInv

LEMMA WriteStep ==
    ASSUME IInv, NEW h \in Handlers, Write(h)
    PROVE  IInv'
<1> DEFINE i == req[h].id
<1>1. /\ pc' \in [Handlers -> PCs] /\ req' \in [Handlers -> Request]
      /\ pc[h] = "write" /\ pc'[h] = "notify" /\ req'[h] = req[h]
      /\ \A g \in Handlers \ {h} : pc'[g] = pc[g] /\ req'[g] = req[g]
  <2>1. "notify" \in PCs
    BY DEF PCs
  <2>2. QED
    BY <2>1, ContinueFacts DEF IInv, Write
<1>2. req[h].type = "update" /\ i \in Ids /\ req[h].context \in Contexts
  BY IdleHandler, WorksOnId DEF Write, IInv, TypeOK, Request
<1>3. /\ \A j \in Ids \ {i} : associations'[j] = associations[j]
      /\ associations'[i] = req[h].context
      /\ UNCHANGED <<assocSeq, holder, posts, heard, endings, crossed, requests, faults>>
  BY <1>2 DEF Write, Assign, IInv, TypeOK
<1>4. TypeOK'
  BY <1>1, <1>2 DEF Write, Assign, IInv, TypeOK
<1>5. LocalInv'
  <2>1. LocalOK(h)'
    BY <1>1, <1>2, <1>3 DEF LocalOK, Places, IInv, LocalInv
  <2>2. \A g \in Handlers \ {h} : LocalOK(g)'
    BY <1>1, <1>3 DEF IInv, LocalInv, LocalOK
  <2>3. QED
    BY <2>1, <2>2, <1>1 DEF LocalInv, IInv
<1>6. PostInv'
  <2>1. \A p \in posts : p.n # req[h].n
    BY <1>1 DEF IInv, PostInv, PostOK
  <2>2. QED
    BY <2>1, <1>1, <1>3 DEF IInv, PostInv, PostOK, Notice
<1>7. IdInv'
  <2>1. ASSUME NEW j \in Ids, heard'[j] = Absent PROVE New(j)'
    <3>1. New(j) /\ j # i
      BY <2>1, <1>2, <1>3 DEF IInv, IdInv, New
    <3>2. QED
      BY <3>1, <1>1, <1>3 DEF New, Unheard
  <2>2. QED
    BY <2>1, <1>1, <1>3 DEF IInv, IdInv
<1>8. CountInv'
  <2>1. Reading' \subseteq Reading
    BY <1>1 DEF Reading
  <2>2. QED
    BY <2>1, <1>3, CountKept DEF IInv, TypeOK
<1>9. CalmInv'
  <2> SUFFICES ASSUME NEW j \in Ids \ crossed PROVE Calm(j)'
    BY <1>3 DEF CalmInv
  <2>1. Calm(j)
    BY DEF IInv, CalmInv
  <2>2. \A g \in Handlers : Changes(g, j)' <=> Changes(g, j)
    BY <1>1 DEF Changes
  <2>3. Unheard(j)' <=> Unheard(j)
    BY <1>3 DEF Unheard
  <2>4. DeleteApart(j)'
    BY <2>1, <1>1, <1>3 DEF Calm, DeleteApart
  <2>5. CASE j # i
    <3>1. \A g \in Handlers : Noticing(g, j)' <=> Noticing(g, j)
      BY <2>5, <1>1 DEF Noticing
    <3>2. \A g \in Handlers : Notice(g)' = Notice(g)
      BY <1>1 DEF Notice
    <3>3. UpdateAlone(j)'
      BY <2>1, <2>2, <2>3, <2>5, <1>1, <1>3 DEF Calm, UpdateAlone, There
    <3>4. Truthful(j)'
      BY <2>1, <2>3, <2>5, <3>1, <3>2, <1>3 DEF Calm, Truthful, True, There, Quiet
    <3>5. EndedOnce(j)'
      BY <2>1, <2>5, <1>3 DEF Calm, EndedOnce, There
    <3>6. QED
      BY <2>4, <3>3, <3>4, <3>5 DEF Calm
  <2>6. CASE j = i
    <3>1. ~Unheard(j) /\ There(j) /\ \A g \in Handlers : Changes(g, j) => g = h
      BY <2>1, <2>6, <1>1, <1>2 DEF Calm, UpdateAlone
    <3>2. \A g \in Handlers : Noticing(g, j)' => g = h
      <4>1. \A g \in Handlers : Noticing(g, j) => Changes(g, j)
        BY IdleHandler DEF Noticing, Changes, IInv
      <4>2. QED
        BY <4>1, <3>1, <1>1 DEF Noticing
    <3>3. Noticing(h, j)' /\ Notice(h)'.decision = associations'[j]
      BY <2>6, <1>1, <1>2, <1>3 DEF Noticing, Notice
    <3>4. UpdateAlone(j)'
      BY <2>2, <3>1, <1>1, <1>2, <1>3 DEF UpdateAlone, Changes
    <3>5. Truthful(j)'
      BY <2>3, <3>1, <3>2, <3>3 DEF Truthful, True, Quiet, Unheard
    <3>6. EndedOnce(j)'
      BY <2>1, <3>1, <1>3 DEF Calm, EndedOnce
    <3>7. QED
      BY <2>4, <3>4, <3>5, <3>6 DEF Calm
  <2>7. QED
    BY <2>5, <2>6
<1>10. LockInv'
  BY <1>1, <1>2, <1>3 DEF IInv, LockInv
<1>11. QED
  BY <1>4, <1>5, <1>6, <1>7, <1>8, <1>9, <1>10 DEF IInv

LEMMA LockStep ==
    ASSUME IInv, NEW h \in Handlers, Lock(h)
    PROVE  IInv'
<1> DEFINE i == req[h].id
<1>0. CASE ~There(i)
  BY <1>0, ReturnStep DEF Lock
<1> SUFFICES ASSUME There(i) PROVE IInv'
  BY <1>0
<1>1. /\ pc' \in [Handlers -> PCs] /\ req' \in [Handlers -> Request]
      /\ pc[h] = "lock" /\ pc'[h] = "notify" /\ req'[h] = req[h]
      /\ \A g \in Handlers \ {h} : pc'[g] = pc[g] /\ req'[g] = req[g]
  <2>1. "notify" \in PCs
    BY DEF PCs
  <2>2. QED
    BY <2>1, ContinueFacts DEF IInv, Lock
<1>2. req[h].type = "delete" /\ i \in Ids /\ req[h].n \in Ids
  BY IdleHandler, WorksOnId DEF Lock, IInv
<1>3. /\ \A j \in Ids \ {i} : associations'[j] = associations[j] /\ endings'[j] = endings[j]
      /\ associations'[i] = Absent /\ endings'[i] = endings[i] \cup {req[h].n}
      /\ holder = Nobody /\ holder' = h
      /\ UNCHANGED <<assocSeq, posts, heard, crossed, requests, faults>>
  BY <1>2 DEF Lock, Assign, Free, IInv, TypeOK
<1>4. TypeOK'
  BY <1>1, <1>2, <1>3 DEF Lock, Assign, IInv, TypeOK
<1>5. LocalInv'
  <2>1. LocalOK(h)'
    BY <1>1, <1>2, <1>3 DEF LocalOK, Places, IInv, LocalInv
  <2>2. \A g \in Handlers \ {h} : LocalOK(g)'
    BY <1>1, <1>3 DEF IInv, LocalInv, LocalOK
  <2>3. QED
    BY <2>1, <2>2, <1>1 DEF LocalInv, IInv
<1>6. PostInv'
  <2>1. \A p \in posts : p.n # req[h].n
    BY <1>1 DEF IInv, PostInv, PostOK
  <2>2. QED
    BY <2>1, <1>1, <1>3 DEF IInv, PostInv, PostOK, Notice
<1>7. IdInv'
  <2>1. ASSUME NEW j \in Ids, heard'[j] = Absent PROVE New(j)'
    <3>1. New(j) /\ j # i
      BY <2>1, <1>2, <1>3 DEF IInv, IdInv, New
    <3>2. QED
      BY <3>1, <1>1, <1>3 DEF New, Unheard
  <2>2. QED
    BY <2>1, <1>1, <1>3 DEF IInv, IdInv
<1>8. CountInv'
  <2>1. Reading' \subseteq Reading
    BY <1>1 DEF Reading
  <2>2. QED
    BY <2>1, <1>3, CountKept DEF IInv, TypeOK
<1>9. CalmInv'
  <2> SUFFICES ASSUME NEW j \in Ids \ crossed PROVE Calm(j)'
    BY <1>3 DEF CalmInv
  <2>1. Calm(j)
    BY DEF IInv, CalmInv
  <2>2. \A g \in Handlers : Changes(g, j)' <=> Changes(g, j)
    BY <1>1 DEF Changes
  <2>3. Unheard(j)' <=> Unheard(j)
    BY <1>3 DEF Unheard
  <2>4. DeleteApart(j)'
    BY <2>1, <1>1, <1>3 DEF Calm, DeleteApart
  <2>5. CASE j # i
    <3>1. \A g \in Handlers : Noticing(g, j)' <=> Noticing(g, j)
      BY <2>5, <1>1 DEF Noticing
    <3>2. \A g \in Handlers : Notice(g)' = Notice(g)
      BY <1>1 DEF Notice
    <3>3. UpdateAlone(j)'
      BY <2>1, <2>2, <2>3, <2>5, <1>1, <1>3 DEF Calm, UpdateAlone, There
    <3>4. Truthful(j)'
      BY <2>1, <2>3, <2>5, <3>1, <3>2, <1>3 DEF Calm, Truthful, True, There, Quiet
    <3>5. EndedOnce(j)'
      BY <2>1, <2>5, <1>3 DEF Calm, EndedOnce, There
    <3>6. QED
      BY <2>4, <3>3, <3>4, <3>5 DEF Calm
  <2>6. CASE j = i
    <3>1. There(j) /\ Changes(h, j) /\ ~True(Over, j)
      BY <2>6, <1>2, Marks DEF Changes, True, There, IInv, TypeOK
    <3>2. \A g \in Handlers : Changes(g, j) => req[g].type = "delete"
      BY <2>1, <3>1, <1>2 DEF Calm, UpdateAlone, Changes
    <3>3. \A g \in Handlers : ~Noticing(g, j)
      <4> SUFFICES ASSUME NEW g \in Handlers, Noticing(g, j) PROVE FALSE
        OBVIOUS
      <4>1. req[g].type = "delete"
        BY <3>2, IdleHandler DEF Noticing, Changes, IInv
      <4>2. Notice(g).decision = Over
        BY <4>1, NoticeTyped DEF Noticing, IInv
      <4>3. QED
        BY <4>2, <2>1, <3>1 DEF Calm, Truthful
    <3>4. ~Unheard(j)
      BY <2>1, <2>6, <3>1, <1>2 DEF Calm, DeleteApart, Truthful, Unheard
    <3>5. Noticing(h, j)' /\ Notice(h)'.decision = Over /\ True(Over, j)'
      BY <2>6, <1>1, <1>2, <1>3 DEF Noticing, Notice, True, There
    <3>6. \A g \in Handlers : Noticing(g, j)' => g = h
      BY <3>3, <1>1 DEF Noticing
    <3>7. UpdateAlone(j)'
      BY <3>2, <1>1 DEF UpdateAlone, Changes
    <3>8. Truthful(j)'
      BY <2>3, <3>4, <3>5, <3>6 DEF Truthful, Quiet, Unheard
    <3>9. EndedOnce(j)'
      BY <2>1, <2>6, <3>1, <1>2, <1>3 DEF Calm, EndedOnce, There
    <3>10. QED
      BY <2>4, <3>7, <3>8, <3>9 DEF Calm
  <2>7. QED
    BY <2>5, <2>6
<1>10. LockInv'
  BY <1>1, <1>2, <1>3 DEF IInv, LockInv
<1>11. QED
  BY <1>4, <1>5, <1>6, <1>7, <1>8, <1>9, <1>10 DEF IInv

\* A notification goes out.
LEMMA SendStep ==
    ASSUME IInv, NEW h \in Handlers, pc[h] = "notify", posts' = posts \cup {Notice(h)},
           Continue(h, "await"),
           UNCHANGED <<holder, heard, faults, assocSeq, associations, endings, crossed, requests>>
    PROVE  IInv'
<1> DEFINE i == req[h].id
<1>1. /\ pc' \in [Handlers -> PCs] /\ req' \in [Handlers -> Request]
      /\ pc'[h] = "await" /\ req'[h] = req[h]
      /\ \A g \in Handlers \ {h} : pc'[g] = pc[g] /\ req'[g] = req[g]
  <2>1. "await" \in PCs
    BY DEF PCs
  <2>2. QED
    BY <2>1, ContinueFacts DEF IInv
<1>2. /\ req[h].type \in {"update", "delete"} /\ i \in Ids
      /\ Notice(h) \in Post /\ Notice(h).n = req[h].n /\ Notice(h).id = i
      /\ req[h].type = "delete" => Notice(h).decision = Over
  <2>1. req[h].type \in {"update", "delete"}
    BY IdleHandler DEF IInv
  <2>2. QED
    BY <2>1, WorksOnId, NoticeTyped DEF IInv
<1>3. req[h].n <= requests /\ req[h].n # 0
  BY <1>2 DEF IInv, LocalInv, LocalOK
<1>4. TypeOK'
  BY <1>1, <1>2 DEF IInv, TypeOK
<1>5. LocalInv'
  <2>1. LocalOK(h)'
    BY <1>1, <1>2 DEF LocalOK, Places, IInv, LocalInv
  <2>2. \A g \in Handlers \ {h} : LocalOK(g)'
    BY <1>1 DEF IInv, LocalInv, LocalOK
  <2>3. QED
    BY <2>1, <2>2, <1>1 DEF LocalInv, IInv
<1>6. PostInv'
  <2>1. \A p \in posts : PostOK(p)'
    <3>1. \A p \in posts : p.n # req[h].n
      BY DEF IInv, PostInv, PostOK
    <3>2. QED
      BY <3>1, <1>1 DEF IInv, PostInv, PostOK, Notice
  <2>2. \A g \in Handlers : req'[g].n = req[h].n => g = h
    BY <1>1, <1>2 DEF IInv, LocalInv
  <2>3. Notice(h)' = Notice(h)
    BY <1>1 DEF Notice
  <2>4. \A p : p = Notice(h) => PostOK(p)'
    BY <2>2, <2>3, <1>1, <1>2, <1>3 DEF PostOK
  <2>5. QED
    BY <2>1, <2>4 DEF PostInv
<1>7. IdInv'
  <2>1. ASSUME NEW j \in Ids, heard'[j] = Absent PROVE New(j)'
    <3>1. New(j) /\ j # i
      BY <2>1, <1>2 DEF IInv, IdInv, New
    <3>2. ~Unheard(j)'
      BY <3>1, <1>2 DEF New, Unheard
    <3>3. QED
      BY <3>1, <3>2, <1>1 DEF New
  <2>2. QED
    BY <2>1, <1>1 DEF IInv, IdInv
<1>8. CountInv'
  <2>1. Reading' \subseteq Reading
    BY <1>1 DEF Reading
  <2>2. QED
    BY <2>1, CountKept DEF IInv, TypeOK
<1>9. CalmInv'
  <2> SUFFICES ASSUME NEW j \in Ids \ crossed PROVE Calm(j)'
    BY DEF CalmInv
  <2>1. Calm(j)
    BY DEF IInv, CalmInv
  <2>2. \A g \in Handlers : Changes(g, j)' <=> Changes(g, j)
    BY <1>1 DEF Changes
  <2>3. \A g \in Handlers : Noticing(g, j)' <=> Noticing(g, j)
    BY <1>1 DEF Noticing
  <2>4. \A g \in Handlers : Notice(g)' = Notice(g)
    BY <1>1 DEF Notice
  <2>5. \A p \in posts' : p.id = j => p \in posts \/ (p = Notice(h) /\ j = i)
    BY <1>2
  <2>6. UpdateAlone(j)'
    <3> SUFFICES ASSUME NEW g \in Handlers, req'[g].type = "update", req'[g].id = j
                 PROVE  /\ \A f \in Handlers : Changes(f, j)' => f = g
                        /\ pc'[g] \in {"read", "write"} => ~Unheard(j)'
                        /\ pc'[g] = "write" => There(j)'
      BY DEF UpdateAlone
    <3>1. req[g] = req'[g] /\ \A f \in Handlers : Changes(f, j) => f = g
      BY <2>1, <1>1 DEF Calm, UpdateAlone
    <3>2. pc'[g] \in {"read", "write"} => g # h /\ pc[g] = pc'[g] /\ ~Unheard(j) /\ j # i
      BY <2>1, <3>1, <1>1, <1>2 DEF Calm, UpdateAlone, Changes
    <3>3. QED
      BY <2>1, <2>2, <2>5, <3>1, <3>2 DEF Calm, UpdateAlone, Unheard, There
  <2>7. DeleteApart(j)'
    <3> SUFFICES ASSUME NEW g \in Handlers, req'[g].type = "delete", req'[g].id = j,
                        NEW p \in posts', p.id = j
                 PROVE  p.decision = Over
      BY DEF DeleteApart, Over, Ids
    <3>1. req[g].type = "delete" /\ req[g].id = j
      BY <1>1
    <3>2. CASE p \in posts
      BY <3>1, <3>2, <2>1 DEF Calm, DeleteApart
    <3>3. CASE p = Notice(h) /\ j = i
      BY <3>1, <3>3, <2>1, <1>2 DEF Calm, UpdateAlone, Changes
    <3>4. QED
      BY <3>2, <3>3, <2>5
  <2>8. Truthful(j)'
    <3>1. \A x : True(x, j)' <=> True(x, j)
      BY DEF True, There
    <3>2. j = i => True(Notice(h).decision, j) /\ ~Quiet(j)'
      BY <2>1, <1>1 DEF Calm, Truthful, Noticing, Quiet
    <3>3. j # i => (Unheard(j)' <=> Unheard(j))
      BY <1>2 DEF Unheard
    <3>4. Quiet(j)' => Quiet(j)
      BY <2>3, <3>2, <3>3 DEF Quiet
    <3>5. QED
      BY <2>1, <2>3, <2>4, <2>5, <3>1, <3>2, <3>4 DEF Calm, Truthful
  <2>9. EndedOnce(j)'
    BY <2>1 DEF Calm, EndedOnce, There
  <2>10. QED
    BY <2>6, <2>7, <2>8, <2>9 DEF Calm
<1>10. LockInv'
  BY <1>1 DEF IInv, LockInv
<1>11. QED
  BY <1>4, <1>5, <1>6, <1>7, <1>8, <1>9, <1>10 DEF IInv

-----------------------------------------------------------------------------
(***************************************************************************)
(* The theorems.                                                           *)
(***************************************************************************)
LEMMA InitHolds == Init => IInv
<1> SUFFICES ASSUME Init PROVE IInv
  OBVIOUS
<1>1. \A h \in Handlers : /\ pc[h] = "idle" /\ req[h] = Idle /\ req[h].type = "none"
                         /\ req[h].n = 0 /\ req[h].id = 0
  BY DEF Init, Idle
<1>2. TypeOK
  <2>1. Idle \in Request /\ "idle" \in PCs
    BY DEF Idle, Request, Contexts, PCs
  <2>2. QED
    BY <2>1 DEF Init, TypeOK
<1>3. LocalInv
  BY <1>1 DEF LocalInv, LocalOK, Places
<1>4. PostInv /\ LockInv
  BY <1>1 DEF Init, PostInv, LockInv
<1>5. IdInv
  <2>1. \A i \in Ids : New(i)
    BY <1>1 DEF Init, New, Unheard, Ids
  <2>2. QED
    BY <2>1, <1>1 DEF Init, IdInv
<1>6. CountInv
  <2>1. Reading = {}
    BY <1>1 DEF Reading
  <2>2. QED
    BY <2>1, FS_EmptySet DEF Init, CountInv
<1>7. CalmInv
  <2> SUFFICES ASSUME NEW i \in Ids PROVE Calm(i)
    BY DEF CalmInv
  <2>1. UpdateAlone(i) /\ DeleteApart(i)
    BY <1>1 DEF UpdateAlone, DeleteApart
  <2>2. Truthful(i)
    BY <1>1 DEF Init, Truthful, Noticing, True
  <2>3. EndedOnce(i)
    BY DEF Init, EndedOnce
  <2>4. QED
    BY <2>1, <2>2, <2>3 DEF Calm
<1>8. QED
  BY <1>2, <1>3, <1>4, <1>5, <1>6, <1>7 DEF IInv

\* A request that names an id comes, on its own or while the SMF is being told.
LEMMA RequestStep ==
    ASSUME IInv, NEW h \in Handlers, NEW i \in Ids, Get(h, i) \/ Update(h, i) \/ Delete(h, i)
    PROVE  IInv'
<1>1. posts' = posts /\ heard[i] # Absent
  BY DEF Get, Update, Delete
<1>2. /\ posts' \subseteq Post /\ \A j \in Ids : SamePosts(j)
      /\ \A p \in posts' : \E q \in posts : q.n = p.n /\ q.id = p.id /\ q.decision = p.decision
  BY <1>1 DEF SamePosts, IInv, TypeOK
<1>3. 0 \in 0 .. MaxRequests
  OBVIOUS
<1>4. CASE Get(h, i)
  BY <1>1, <1>2, <1>3, <1>4, ArrivalStep DEF Get
<1>5. CASE Update(h, i)
  BY <1>1, <1>2, <1>3, <1>5, ArrivalStep DEF Update
<1>6. CASE Delete(h, i)
  BY <1>1, <1>2, <1>3, <1>6, ArrivalStep DEF Delete
<1>7. QED
  BY <1>4, <1>5, <1>6

LEMMA CallBackStep ==
    ASSUME IInv, NEW h \in Handlers, NEW p \in posts, NEW type \in {"get", "delete"},
           CallBack(h, p, type)
    PROVE  IInv'
<1> DEFINE called == [p EXCEPT !.called = TRUE]
<1>1. p \in Post /\ p.id \in Ids /\ p.n \in 0 .. MaxRequests
  BY DEF IInv, TypeOK, Post, Ids
<1>2. /\ called \in Post /\ called.n = p.n /\ called.id = p.id
      /\ called.decision = p.decision
  BY <1>1 DEF Post
<1>3. posts' = (posts \ {p}) \cup {called}
  BY DEF CallBack
<1>4. posts' \subseteq Post
  BY <1>2, <1>3 DEF IInv, TypeOK
<1>5. \A m \in posts' : \E q \in posts : q.n = m.n /\ q.id = m.id /\ q.decision = m.decision
  BY <1>2, <1>3
<1>6. \A j \in Ids : SamePosts(j)
  <2>1. \A q \in posts : \E m \in posts' : m.id = q.id
    BY <1>2, <1>3
  <2>2. QED
    BY <1>5, <2>1 DEF SamePosts
<1>7. heard[p.id] # Absent
  BY <1>1 DEF IInv, IdInv, New, Unheard
<1>8. QED
  BY <1>1, <1>4, <1>5, <1>6, <1>7, ArrivalStep DEF CallBack

LEMMA AnswerStep ==
    ASSUME IInv, NEW p \in posts, Answer(p)
    PROVE  IInv'
<1>1. posts' = posts \ {p}
  BY DEF Answer
<1>2. CASE ~\E h \in Handlers : req[h].n = p.n /\ pc[h] = "await"
  BY <1>1, <1>2, LateAnswerStep DEF Answer
<1>3. CASE \E h \in Handlers : req[h].n = p.n /\ pc[h] = "await"
  <2>1. PICK h \in Handlers : req[h].n = p.n /\ Finish(h)
    BY <1>3 DEF Answer
  <2>2. pc[h] = "await"
    BY <2>1 DEF IInv, PostInv, PostOK
  <2>3. faults' \in Nat
    BY DEF Answer, IInv, TypeOK
  <2>4. QED
    BY <1>1, <2>1, <2>2, <2>3, FinishStep DEF Answer
<1>4. QED
  BY <1>2, <1>3

LEMMA StepHolds == IInv /\ [Next]_vars => IInv'
<1> SUFFICES ASSUME IInv, [Next]_vars PROVE IInv'
  OBVIOUS
<1>1. ASSUME NEW h \in Handlers, Create(h) PROVE IInv'
  BY <1>1, CreateStep
<1>2. ASSUME NEW h \in Handlers, Step(h) PROVE IInv'
  <2>1. CASE StoreNew(h)
    BY <2>1, StoreNewStep
  <2>2. CASE Read(h)
    BY <2>2, ReadStep
  <2>3. CASE Write(h)
    BY <2>3, WriteStep
  <2>4. CASE Lock(h)
    BY <2>4, LockStep
  <2>5. CASE Notify(h)
    <3>1. CASE posts' = posts \cup {Notice(h)} /\ Continue(h, "await")
               /\ UNCHANGED <<holder, heard, faults>>
      BY <2>5, <3>1, SendStep DEF Notify
    <3>2. CASE faults' = faults + 1 /\ Finish(h) /\ UNCHANGED posts
      <4>1. faults' \in Nat
        BY <3>2 DEF IInv, TypeOK
      <4>2. QED
        BY <2>5, <3>2, <4>1, FinishStep DEF Notify
    <3>3. QED
      BY <2>5, <3>1, <3>2 DEF Notify
  <2>6. QED
    BY <1>2, <2>1, <2>2, <2>3, <2>4, <2>5 DEF Step
<1>3. ASSUME NEW h \in Handlers, Timeout(h) PROVE IInv'
  <2>1. faults' \in Nat
    BY <1>3 DEF Timeout, IInv, TypeOK
  <2>2. QED
    BY <1>3, <2>1, FinishStep DEF Timeout
<1>4. ASSUME NEW h \in Handlers, NEW i \in Ids, Get(h, i) \/ Update(h, i) \/ Delete(h, i)
      PROVE  IInv'
  BY <1>4, RequestStep
<1>5. ASSUME NEW h \in Handlers, NEW p \in posts, NEW type \in {"get", "delete"},
             CallBack(h, p, type)
      PROVE  IInv'
  BY <1>5, CallBackStep
<1>6. ASSUME NEW p \in posts, Answer(p) PROVE IInv'
  BY <1>6, AnswerStep
<1>7. CASE UNCHANGED vars
  <2> USE <1>7 DEF vars
  <2>1. TypeOK' /\ LocalInv' /\ LockInv'
    BY DEF IInv, TypeOK, LocalInv, LocalOK, LockInv
  <2>2. PostInv' /\ IdInv' /\ CountInv'
    BY DEF IInv, PostInv, PostOK, Notice, IdInv, New, Unheard, CountInv, Reading
  <2>3. CalmInv'
    BY DEF IInv, CalmInv, Calm, UpdateAlone, DeleteApart, Truthful, EndedOnce, Quiet,
           Noticing, Notice, True, There, Changes, Unheard
  <2>4. QED
    BY <2>1, <2>2, <2>3 DEF IInv
<1>8. QED
  BY <1>1, <1>2, <1>3, <1>4, <1>5, <1>6, <1>7 DEF Next

(***************************************************************************)
(* The invariant holds in every reachable state: associations, requests,   *)
(* notifications and what the SMF heard stay in step, however many         *)
(* requests pcf/smpolicy.go serves at once.                                *)
(***************************************************************************)
THEOREM Invariance == Spec => []IInv
  BY InitHolds, StepHolds, PTL DEF Spec

(***************************************************************************)
(* Associations, requests and notifications keep their shapes: no id is    *)
(* handed out beyond the requests served, although updates take ids they   *)
(* do not use (pcf/smpolicy.go:66-106, 174-193).                           *)
(***************************************************************************)
THEOREM TypeCorrect == Spec => []TypeOK
<1>1. IInv => TypeOK
  BY DEF IInv
<1>2. QED
  BY <1>1, Invariance, PTL

(***************************************************************************)
(* Once no request about an association is in work and none of its         *)
(* notifications is under way, the SMF was told what the PCF has, unless   *)
(* one of its updates overlapped another change of it                      *)
(* (pcf/smpolicy.go:174-219).                                              *)
(***************************************************************************)
THEOREM SmfIsTold == Spec => []SmfAgrees
<1>1. IInv => SmfAgrees
  <2> SUFFICES ASSUME IInv, NEW i \in Ids, Settled(i), i \notin crossed
               PROVE  heard[i] = associations[i] \/ (heard[i] = Over /\ ~There(i))
    BY DEF SmfAgrees
  <2>1. Truthful(i)
    BY DEF IInv, CalmInv, Calm
  <2>2. \A h \in Handlers : ~Noticing(h, i)
    BY IdleHandler DEF Settled, Noticing, IInv
  <2>3. Quiet(i)
    BY <2>2 DEF Quiet, Settled
  <2>4. QED
    BY <2>1, <2>3 DEF Truthful, True
<1>2. QED
  BY <1>1, Invariance, PTL

(***************************************************************************)
(* However many deletions run at once, one of them finds the association   *)
(* and terminates it; the others answer 404 (pcf/smpolicy.go:206-213).     *)
(***************************************************************************)
THEOREM EndsOnce == Spec => []TerminatedOnce
<1>1. IInv => TerminatedOnce
  <2> SUFFICES ASSUME IInv, NEW i \in Ids, i \notin crossed PROVE Cardinality(endings[i]) <= 1
    BY DEF TerminatedOnce
  <2>1. endings[i] = {} \/ \E n \in Ids : endings[i] = {n}
    BY DEF IInv, CalmInv, Calm, EndedOnce
  <2>2. CASE endings[i] = {}
    BY <2>2, FS_EmptySet
  <2>3. ASSUME NEW n \in Ids, endings[i] = {n} PROVE Cardinality(endings[i]) <= 1
    <3>1. Cardinality({n}) = 1
      BY FS_Singleton
    <3>2. QED
      BY <2>3, <3>1
  <2>4. QED
    BY <2>1, <2>2, <2>3
<1>2. QED
  BY <1>1, Invariance, PTL

(***************************************************************************)
(* The write lock is never left behind: whenever it is taken, a deletion   *)
(* waits for the answer to its notification, which the HTTP client bounds; *)
(* and no two deletions notify at once (pcf/smpolicy.go:206-219).          *)
(***************************************************************************)
THEOREM LockIsHeldByADeletion == Spec => []LockInv
<1>1. IInv => LockInv
  BY DEF IInv
<1>2. QED
  BY <1>1, Invariance, PTL
=============================================================================
