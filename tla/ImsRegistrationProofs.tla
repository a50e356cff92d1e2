-------------------------- MODULE ImsRegistrationProofs --------------------------
(***************************************************************************)
(* Proofs about ImsRegistration, for every number of handlers, users,      *)
(* S-CSCFs, requests, faults and OAM writes, and every pool.               *)
(***************************************************************************)
EXTENDS ImsRegistrationInv, TLAPS

USE PoolAssumption, MarksAssumption, BoundsAssumption

-----------------------------------------------------------------------------
(***************************************************************************)
(* What steps have in common.                                              *)
(***************************************************************************)
\* Who works on a user is the same, and stands where it stood.
SameWork(u) ==
    \A g \in Handlers : Working(g, u) \/ Working(g, u)' => req'[g] = req[g] /\ pc'[g] = pc[g]

\* What the row, the peers and the S-CSCFs have of a user is the same.
SameState(u) ==
    /\ row'[u] = row[u] /\ heard'[u] = heard[u]
    /\ \A c \in Cscfs : /\ <<u, c>> \in serves' <=> <<u, c>> \in serves
                        /\ <<u, c>> \in routed' => <<u, c>> \in routed
    /\ u \in faulted => u \in faulted'

\* A step leaves the users it is not about calm.
LEMMA CalmElsewhere ==
    ASSUME TypeOK, NEW u \in Users, Calm(u), SameWork(u), SameState(u)
    PROVE  Calm(u)'
<1>1. \A g \in Handlers : Working(g, u)' <=> Working(g, u)
  BY DEF SameWork, Working
<1>2. \A g \in Handlers : Working(g, u) => req'[g] = req[g] /\ pc'[g] = pc[g]
  BY DEF SameWork
<1>3. ServedByRow(u)' /\ RoutedByRow(u)'
  BY DEF Calm, ServedByRow, RoutedByRow, SameState
<1>4. Alone(u)'
  BY <1>1 DEF Calm, Alone
<1>5. AllInStep(u)'
  <2> SUFFICES ASSUME NEW h \in Handlers, Working(h, u) PROVE InStep(h, u)'
    BY <1>1 DEF AllInStep
  <2>1. InStep(h, u) /\ req'[h] = req[h] /\ pc'[h] = pc[h]
    BY <1>2 DEF Calm, AllInStep
  <2>2. QED
    BY <2>1 DEF InStep, SameState, Assigned
<1>6. u \notin faulted' => RowServed(u)' /\ RowHeard(u)'
  <2> SUFFICES ASSUME u \notin faulted' PROVE RowServed(u)' /\ RowHeard(u)'
    OBVIOUS
  <2>1. RowServed(u) /\ RowHeard(u)
    BY DEF Calm, SameState
  <2>2. RowServed(u)'
    BY <2>1, <1>1, <1>2 DEF RowServed, Undone, SameState
  <2>3. RowHeard(u)'
    BY <2>1, <1>1, <1>2 DEF RowHeard, SameState
  <2>4. QED
    BY <2>2, <2>3
<1>7. QED
  BY <1>3, <1>4, <1>5, <1>6 DEF Calm

\* A handler goes on, or returns.
LEMMA ContinueFacts ==
    ASSUME TypeOK, LocalInv, NEW h \in Handlers, NEW step \in PCs, Continue(h, step),
           req[h].type = "unregistered" => step \in {"idle", "lookup", "answer"},
           req[h].type # "none"
    PROVE  /\ pc' \in [Handlers -> PCs] /\ req' \in [Handlers -> Request]
           /\ pc'[h] = step /\ req'[h] = (IF step = "idle" THEN Idle ELSE req[h])
           /\ \A g \in Handlers \ {h} : pc'[g] = pc[g] /\ req'[g] = req[g]
           /\ LocalInv'
           /\ \A v \in Users : v # req[h].user => SameWork(v)
<1>1. Idle \in Request /\ req[h] \in Request /\ Idle.type = "none"
  BY DEF Idle, Request, TypeOK
<1>2. /\ pc' \in [Handlers -> PCs] /\ req' \in [Handlers -> Request]
      /\ pc'[h] = step /\ req'[h] = (IF step = "idle" THEN Idle ELSE req[h])
      /\ \A g \in Handlers \ {h} : pc'[g] = pc[g] /\ req'[g] = req[g]
  BY <1>1 DEF Continue, Goto, TypeOK
<1>3. LocalInv'
  <2>1. LocalOK(h)'
    BY <1>1, <1>2 DEF LocalInv, LocalOK
  <2>2. \A g \in Handlers \ {h} : LocalOK(g)'
    BY <1>2 DEF LocalInv, LocalOK
  <2>3. QED
    BY <2>1, <2>2 DEF LocalInv
<1>4. \A v \in Users : v # req[h].user => SameWork(v)
  BY <1>1, <1>2 DEF SameWork, Working
<1>5. QED
  BY <1>2, <1>3, <1>4

\* A handler that works at a step other than idle has a SAR.
LEMMA AtWork ==
    ASSUME LocalInv, NEW h \in Handlers, pc[h] # "idle"
    PROVE  req[h].type # "none" /\ req[h].user \in Users /\ req[h].server \in Cscfs
  BY DEF LocalInv, LocalOK

\* A SAR that assigns, or ends an assignment, is the only one of its user.
LEMMA WorksAlone ==
    ASSUME NEW h \in Handlers, NEW u \in Users, Working(h, u), Calm(u)
    PROVE  /\ InStep(h, u) /\ ServedByRow(u) /\ RoutedByRow(u)
           /\ \A g \in Handlers : Working(g, u) => g = h
  BY DEF Calm, Alone, AllInStep
-----------------------------------------------------------------------------
(***************************************************************************)
(* The steps of a behaviour.                                               *)
(***************************************************************************)
\* A handler returns without its effect: the row is missing, or a fault has hit it.
LEMMA ReturnStep ==
    ASSUME IInv, NEW h \in Handlers, pc[h] # "idle", Continue(h, "idle"),
           row[req[h].user] = Unknown \/ req[h].user \in faulted',
           faulted' \in SUBSET Users, faulted \subseteq faulted', faults' \in Nat,
           UNCHANGED <<row, next, heard, routed, serves, crossed, edited, requests, edits>>
    PROVE  IInv'
<1> DEFINE u == req[h].user
<1>1. /\ pc' \in [Handlers -> PCs] /\ req' \in [Handlers -> Request]
      /\ pc'[h] = "idle" /\ req'[h] = Idle
      /\ \A g \in Handlers \ {h} : pc'[g] = pc[g] /\ req'[g] = req[g]
      /\ LocalInv'
      /\ \A v \in Users : v # u => SameWork(v)
  <2>1. "idle" \in PCs
    BY DEF PCs
  <2>2. QED
    BY <2>1, ContinueFacts, AtWork DEF IInv
<1>2. TypeOK'
  BY <1>1 DEF IInv, TypeOK
<1>3. CalmInv'
  <2> SUFFICES ASSUME NEW v \in Users \ (crossed \cup edited) PROVE Calm(v)'
    BY DEF CalmInv
  <2>1. Calm(v) /\ SameState(v)
    BY DEF IInv, CalmInv, SameState
  <2>2. CASE v # u
    BY <2>1, <2>2, <1>1, CalmElsewhere DEF IInv
  <2>3. CASE v = u /\ ~Working(h, v)
    <3>1. SameWork(v)
      BY <2>3, <1>1 DEF SameWork, Working, Idle
    <3>2. QED
      BY <2>1, <3>1, CalmElsewhere DEF IInv
  <2>4. CASE v = u /\ Working(h, v)
    <3>1. \A g \in Handlers : ~Working(g, v)'
      BY <2>1, <2>4, <1>1, WorksAlone DEF Working, Idle
    <3>2. v \in faulted'
      BY <2>1, <2>4 DEF Calm, ServedByRow
    <3>3. ServedByRow(v)' /\ RoutedByRow(v)'
      BY <2>1 DEF Calm, ServedByRow, RoutedByRow
    <3>4. Alone(v)' /\ AllInStep(v)'
      BY <3>1 DEF Alone, AllInStep
    <3>5. QED
      BY <3>2, <3>3, <3>4 DEF Calm
  <2>5. QED
    BY <2>2, <2>3, <2>4
<1>4. QED
  BY <1>1, <1>2, <1>3 DEF IInv

LEMMA LookupStep ==
    ASSUME IInv, NEW h \in Handlers, Lookup(h)
    PROVE  IInv'
<1> DEFINE u == req[h].user
           step == IF req[h].type = "unregistered" THEN "answer" ELSE "update"
<1>0. pc[h] # "idle" /\ req[h].type # "none" /\ u \in Users
  BY AtWork DEF Lookup, IInv
<1>1. CASE row[u] = Unknown /\ Continue(h, "idle") /\ NoFault
  BY <1>0, <1>1, ReturnStep DEF Lookup, NoFault, IInv, TypeOK
<1>2. CASE Fault({u}) /\ Continue(h, "idle")
  <2>1. faulted' \in SUBSET Users /\ faulted \subseteq faulted' /\ faults' \in Nat /\ u \in faulted'
    BY <1>0, <1>2 DEF Fault, IInv, TypeOK
  <2>2. QED
    BY <1>0, <1>2, <2>1, ReturnStep DEF Lookup
<1>3. CASE Continue(h, step) /\ NoFault
  <2>1. step \in PCs /\ step \notin {"idle", "publish", "lookup"}
    BY DEF PCs
  <2>2. /\ pc' \in [Handlers -> PCs] /\ req' \in [Handlers -> Request]
        /\ pc'[h] = step /\ req'[h] = req[h]
        /\ \A g \in Handlers \ {h} : pc'[g] = pc[g] /\ req'[g] = req[g]
        /\ LocalInv'
        /\ \A v \in Users : v # u => SameWork(v)
    BY <1>0, <1>3, <2>1, ContinueFacts DEF IInv
  <2>3. /\ UNCHANGED <<row, next, heard, routed, serves, crossed, edited, requests, edits,
                       faults, faulted>>
        /\ pc[h] = "lookup"
    BY <1>3 DEF Lookup, NoFault
  <2>4. TypeOK'
    BY <2>2, <2>3 DEF IInv, TypeOK
  <2>5. CalmInv'
    <3> SUFFICES ASSUME NEW v \in Users \ (crossed \cup edited) PROVE Calm(v)'
      BY <2>3 DEF CalmInv
    <3>1. Calm(v) /\ SameState(v)
      BY <2>3 DEF IInv, CalmInv, SameState
    <3>2. CASE ~Working(h, v)
      <4>1. SameWork(v)
        BY <3>2, <2>2 DEF SameWork, Working
      <4>2. QED
        BY <3>1, <4>1, CalmElsewhere DEF IInv
    <3>3. CASE Working(h, v)
      <4>1. \A g \in Handlers : Working(g, v)' <=> Working(g, v)
        BY <2>2 DEF Working
      <4>2. pc'[h] = "update"
        BY <3>3, <2>2 DEF Working
      <4>3. ServedByRow(v)' /\ RoutedByRow(v)' /\ Alone(v)'
        BY <3>1, <4>1, <2>3 DEF Calm, ServedByRow, RoutedByRow, Alone
      <4>4. AllInStep(v)'
        <5> SUFFICES InStep(h, v)'
          BY <3>1, <3>3, <4>1, WorksAlone DEF AllInStep
        <5>1. QED
          BY <3>1, <3>3, <4>2, <2>2, <2>3, WorksAlone DEF InStep
      <4>5. v \notin faulted' => RowServed(v)' /\ RowHeard(v)'
        <5> SUFFICES ASSUME v \notin faulted' PROVE RowServed(v)' /\ RowHeard(v)'
          OBVIOUS
        <5>1. RowServed(v) /\ RowHeard(v)
          BY <3>1, <2>3 DEF Calm
        <5>2. \A g \in Handlers : Undone(g) => Undone(g)'
          BY <4>2, <2>2, <2>3 DEF Undone
        <5>3. RowServed(v)'
          BY <5>1, <5>2, <4>1, <2>3 DEF RowServed
        <5>4. RowHeard(v)'
          BY <5>1, <4>1, <2>2, <2>3 DEF RowHeard
        <5>5. QED
          BY <5>3, <5>4
      <4>6. QED
        BY <4>3, <4>4, <4>5 DEF Calm
    <3>4. QED
      BY <3>2, <3>3
  <2>6. QED
    BY <2>2, <2>4, <2>5 DEF IInv
<1>4. QED
  BY <1>1, <1>2, <1>3 DEF Lookup

\* The statement sets the column.
LEMMA WrittenStep ==
    ASSUME IInv, NEW h \in Handlers, pc[h] = "update", Continue(h, "publish"),
           row' = IF row[req[h].user] = Unknown THEN row
                  ELSE [row EXCEPT ![req[h].user] = Assigned(h)],
           UNCHANGED <<next, heard, routed, serves, crossed, edited, requests, edits,
                       faults, faulted>>
    PROVE  IInv'
<1> DEFINE u == req[h].user
<1>0. /\ req[h].type # "none" /\ u \in Users /\ req[h].server \in Cscfs
      /\ req[h].type \in {"register", "reregister", "deregister"} /\ Working(h, u)
      /\ Assigned(h) \in Cscfs \cup {None}
  <2>1. req[h].type # "none" /\ u \in Users /\ req[h].server \in Cscfs
    BY AtWork DEF IInv
  <2>2. req[h].type \in Assignments \ {"unregistered"}
    BY <2>1 DEF IInv, TypeOK, Request, LocalInv, LocalOK
  <2>3. QED
    BY <2>1, <2>2 DEF Assignments, Working, Assigned
<1>1. /\ pc' \in [Handlers -> PCs] /\ req' \in [Handlers -> Request]
      /\ pc'[h] = "publish" /\ req'[h] = req[h]
      /\ \A g \in Handlers \ {h} : pc'[g] = pc[g] /\ req'[g] = req[g]
      /\ LocalInv'
      /\ \A v \in Users : v # u => SameWork(v)
  <2>1. "publish" \in PCs /\ req[h].type # "unregistered"
    BY <1>0 DEF PCs
  <2>2. QED
    BY <1>0, <2>1, ContinueFacts DEF IInv
<1>2. /\ \A v \in Users \ {u} : row'[v] = row[v]
      /\ row[u] # Unknown => row'[u] = Assigned(h)
      /\ row' \in [Users -> Values]
  BY <1>0 DEF IInv, TypeOK, Values
<1>3. TypeOK'
  BY <1>1, <1>2 DEF IInv, TypeOK
<1>4. CalmInv'
  <2> SUFFICES ASSUME NEW v \in Users \ (crossed \cup edited) PROVE Calm(v)'
    BY DEF CalmInv
  <2>1. Calm(v)
    BY DEF IInv, CalmInv
  <2>2. CASE v # u
    <3>1. SameState(v)
      BY <2>2, <1>2 DEF SameState
    <3>2. QED
      BY <2>1, <2>2, <3>1, <1>1, CalmElsewhere DEF IInv
  <2>3. CASE v = u
    <3>1. /\ InStep(h, v) /\ ServedByRow(v) /\ RoutedByRow(v) /\ Working(h, v)
          /\ \A g \in Handlers : Working(g, v) => g = h
      BY <2>1, <2>3, <1>0, WorksAlone
    <3>2. /\ row'[v] = Assigned(h) /\ row'[v] # Unknown
          /\ row[v] = req[h].server \/ (req[h].type = "register" /\ row[v] = None)
      BY <2>3, <3>1, <1>0, <1>2 DEF ServedByRow, InStep
    <3>3. \A g \in Handlers : Working(g, v)' <=> Working(g, v)
      BY <1>1 DEF Working
    <3>4. ServedByRow(v)'
      BY <3>1, <3>2, <1>0 DEF ServedByRow, InStep, Assigned
    <3>5. RoutedByRow(v)'
      BY <3>1, <3>2, <1>0 DEF RoutedByRow, InStep, Assigned
    <3>6. Alone(v)'
      BY <3>1, <3>3 DEF Alone
    <3>7. AllInStep(v)'
      <4> SUFFICES InStep(h, v)'
        BY <3>1, <3>3 DEF AllInStep
      <4>1. QED
        BY <3>1, <3>2, <1>1 DEF InStep, Assigned
    <3>8. v \notin faulted' => RowServed(v)' /\ RowHeard(v)'
      <4> SUFFICES ASSUME v \notin faulted' PROVE RowServed(v)' /\ RowHeard(v)'
        OBVIOUS
      <4>1. RowServed(v)
        BY <2>1 DEF Calm
      <4>2. RowHeard(v)'
        BY <3>1, <3>3, <1>1 DEF RowHeard
      <4>3. CASE req[h].type = "register"
        <5>1. Undone(h)'
          BY <4>3, <1>1 DEF Undone
        <5>2. QED
          BY <5>1, <4>2, <3>1, <3>3 DEF RowServed
      <4>4. CASE req[h].type = "reregister"
        <5>1. row'[v] = row[v] /\ ~Undone(h)
          BY <4>4, <3>2 DEF Assigned, Undone
        <5>2. QED
          BY <5>1, <4>1, <4>2, <3>1 DEF RowServed
      <4>5. CASE req[h].type = "deregister"
        BY <4>5, <4>2, <3>2 DEF RowServed, Assigned
      <4>6. QED
        BY <4>3, <4>4, <4>5, <1>0
    <3>9. QED
      BY <3>4, <3>5, <3>6, <3>7, <3>8 DEF Calm
  <2>4. QED
    BY <2>2, <2>3
<1>5. QED
  BY <1>1, <1>3, <1>4 DEF IInv

LEMMA UpdateStep ==
    ASSUME IInv, NEW h \in Handlers, Update(h)
    PROVE  IInv'
<1> DEFINE u == req[h].user
<1>1. pc[h] # "idle" /\ pc[h] = "update" /\ u \in Users
  BY AtWork DEF Update, IInv
<1>2. CASE Fault({u}) /\ Continue(h, "idle") /\ UNCHANGED row
  <2>1. faulted' \in SUBSET Users /\ faulted \subseteq faulted' /\ faults' \in Nat /\ u \in faulted'
    BY <1>1, <1>2 DEF Fault, IInv, TypeOK
  <2>2. QED
    BY <1>1, <1>2, <2>1, ReturnStep DEF Update
<1>3. CASE /\ row' = IF row[u] = Unknown THEN row ELSE [row EXCEPT ![u] = Assigned(h)]
           /\ Continue(h, "publish") /\ NoFault
  BY <1>1, <1>3, WrittenStep DEF Update, NoFault
<1>4. QED
  BY <1>2, <1>3 DEF Update

LEMMA PublishStep ==
    ASSUME IInv, NEW h \in Handlers, Publish(h)
    PROVE  IInv'
<1> DEFINE u == req[h].user
<1>0. /\ req[h].type # "none" /\ u \in Users /\ req[h].server \in Cscfs
      /\ Working(h, u) /\ Assigned(h) \in Cscfs \cup {None} /\ pc[h] = "publish"
  <2>1. pc[h] = "publish" /\ req[h].type # "none" /\ u \in Users /\ req[h].server \in Cscfs
    BY AtWork DEF IInv, Publish
  <2>2. req[h].type \in Assignments \ {"unregistered"}
    BY <2>1 DEF IInv, TypeOK, Request, LocalInv, LocalOK
  <2>3. QED
    BY <2>1, <2>2 DEF Assignments, Working, Assigned
<1>1. /\ pc' \in [Handlers -> PCs] /\ req' \in [Handlers -> Request]
      /\ pc'[h] = "answer" /\ req'[h] = req[h]
      /\ \A g \in Handlers \ {h} : pc'[g] = pc[g] /\ req'[g] = req[g]
      /\ LocalInv'
      /\ \A v \in Users : v # u => SameWork(v)
  <2>1. "answer" \in PCs
    BY DEF PCs
  <2>2. QED
    BY <1>0, <2>1, ContinueFacts DEF IInv, Publish
<1>2. /\ \A v \in Users \ {u} : heard'[v] = heard[v]
      /\ heard'[u] = Assigned(h) /\ heard' \in [Users -> Values]
      /\ UNCHANGED <<row, next, routed, serves, crossed, edited, faulted, requests, faults, edits>>
  BY <1>0 DEF Publish, IInv, TypeOK, Values, history, counts
<1>3. TypeOK'
  BY <1>1, <1>2 DEF IInv, TypeOK
<1>4. CalmInv'
  <2> SUFFICES ASSUME NEW v \in Users \ (crossed \cup edited) PROVE Calm(v)'
    BY <1>2 DEF CalmInv
  <2>1. Calm(v)
    BY DEF IInv, CalmInv
  <2>2. CASE v # u
    <3>1. SameState(v)
      BY <2>2, <1>2 DEF SameState
    <3>2. QED
      BY <2>1, <2>2, <3>1, <1>1, CalmElsewhere DEF IInv
  <2>3. CASE v = u
    <3>1. /\ InStep(h, v) /\ Working(h, v)
          /\ \A g \in Handlers : Working(g, v) => g = h
      BY <2>1, <2>3, <1>0, WorksAlone
    <3>2. \A g \in Handlers : Working(g, v)' <=> Working(g, v)
      BY <1>1 DEF Working
    <3>3. ServedByRow(v)' /\ RoutedByRow(v)' /\ Alone(v)'
      BY <2>1, <3>2, <1>2 DEF Calm, ServedByRow, RoutedByRow, Alone
    <3>4. AllInStep(v)'
      <4> SUFFICES InStep(h, v)'
        BY <3>1, <3>2 DEF AllInStep
      <4>1. QED
        BY <3>1, <1>0, <1>1, <1>2 DEF InStep, Assigned
    <3>5. row'[v] = heard'[v]
      BY <2>3, <3>1, <1>0, <1>2 DEF InStep
    <3>6. RowServed(v) => RowServed(v)'
      <4>1. \A g \in Handlers : Undone(g) => Undone(g)'
        BY <1>0, <1>1 DEF Undone
      <4>2. QED
        BY <4>1, <3>2, <1>2 DEF RowServed
    <3>7. QED
      BY <2>1, <3>3, <3>4, <3>5, <3>6, <1>2 DEF Calm, RowHeard
  <2>4. QED
    BY <2>2, <2>3
<1>5. QED
  BY <1>1, <1>3, <1>4 DEF IInv

LEMMA AnswerStep ==
    ASSUME IInv, NEW h \in Handlers, Answer(h)
    PROVE  IInv'
<1> DEFINE u == req[h].user
           c == req[h].server
<1>0. /\ pc[h] = "answer" /\ req[h].type # "none" /\ u \in Users /\ c \in Cscfs
      /\ Continue(h, "idle")
  BY AtWork DEF Answer, IInv
<1>1. CASE Fault({u}) /\ UNCHANGED serves
  <2>1. faulted' \in SUBSET Users /\ faulted \subseteq faulted' /\ faults' \in Nat /\ u \in faulted'
    BY <1>0, <1>1 DEF Fault, IInv, TypeOK
  <2>2. QED
    BY <1>0, <1>1, <2>1, ReturnStep DEF Answer
<1>2. CASE /\ serves' = IF req[h].type \in {"register", "reregister"}
                        THEN serves \cup {<<u, c>>} ELSE serves
           /\ NoFault
  <2>1. /\ pc' \in [Handlers -> PCs] /\ req' \in [Handlers -> Request]
        /\ pc'[h] = "idle" /\ req'[h] = Idle
        /\ \A g \in Handlers \ {h} : pc'[g] = pc[g] /\ req'[g] = req[g]
        /\ LocalInv'
        /\ \A v \in Users : v # u => SameWork(v)
    <3>1. "idle" \in PCs
      BY DEF PCs
    <3>2. QED
      BY <1>0, <3>1, ContinueFacts DEF IInv
  <2>2. UNCHANGED <<row, next, heard, routed, crossed, edited, requests, edits, faults, faulted>>
    BY <1>2 DEF Answer, NoFault
  <2>3. serves' \subseteq Users \X Cscfs
    BY <1>0, <1>2 DEF IInv, TypeOK
  <2>4. TypeOK'
    BY <2>1, <2>2, <2>3 DEF IInv, TypeOK
  <2>5. CalmInv'
    <3> SUFFICES ASSUME NEW v \in Users \ (crossed \cup edited) PROVE Calm(v)'
      BY <2>2 DEF CalmInv
    <3>1. Calm(v)
      BY DEF IInv, CalmInv
    <3>2. CASE ~Working(h, v)
      <4>1. SameWork(v)
        BY <3>2, <2>1 DEF SameWork, Working, Idle
      <4>2. SameState(v)
        BY <3>2, <1>2, <2>2 DEF SameState, Working
      <4>3. QED
        BY <3>1, <4>1, <4>2, CalmElsewhere DEF IInv
    <3>3. CASE Working(h, v)
      <4>1. /\ InStep(h, v) /\ ServedByRow(v) /\ RoutedByRow(v)
            /\ \A g \in Handlers : Working(g, v) => g = h
        BY <3>1, <3>3, WorksAlone
      <4>2. v = u /\ row[v] = Assigned(h)
        BY <3>3, <4>1, <1>0 DEF Working, InStep
      <4>3. \A g \in Handlers : ~Working(g, v)'
        BY <4>1, <2>1 DEF Working, Idle
      <4>4. ServedByRow(v)'
        BY <4>1, <4>2, <1>2, <2>2 DEF ServedByRow, Assigned
      <4>5. RoutedByRow(v)' /\ Alone(v)' /\ AllInStep(v)'
        BY <4>1, <4>3, <2>2 DEF RoutedByRow, Alone, AllInStep
      <4>6. v \notin faulted' => RowServed(v)' /\ RowHeard(v)'
        <5> SUFFICES ASSUME v \notin faulted' PROVE RowServed(v)' /\ RowHeard(v)'
          OBVIOUS
        <5>1. RowServed(v) /\ RowHeard(v)
          BY <3>1, <2>2 DEF Calm
        <5>2. RowHeard(v)'
          BY <5>1, <4>1, <1>0, <2>2 DEF RowHeard
        <5>3. CASE req[h].type \in {"register", "reregister"}
          BY <5>3, <4>2, <1>2, <2>2, <5>2 DEF RowServed, Assigned
        <5>4. CASE req[h].type = "deregister"
          BY <5>4, <4>2, <2>2, <5>2 DEF RowServed, Assigned
        <5>5. QED
          BY <5>3, <5>4, <3>3 DEF Working
      <4>7. QED
        BY <4>4, <4>5, <4>6 DEF Calm
    <3>4. QED
      BY <3>2, <3>3
  <2>6. QED
    BY <2>1, <2>4, <2>5 DEF IInv
<1>3. QED
  BY <1>1, <1>2 DEF Answer

LEMMA AuthorizeStep ==
    ASSUME IInv, NEW u \in Users, Authorize(u)
    PROVE  IInv'
<1>1. PICK c \in Recommended(u) : routed' = routed \cup {<<u, c>>}
  BY DEF Authorize
<1>2. c \in Cscfs /\ row[u] \in {None, c}
  <2>1. row[u] \in Cscfs \cup {None}
    BY DEF Authorize, IInv, TypeOK, Values
  <2>2. Pool # <<>> => Pool[(next % Len(Pool)) + 1] \in Cscfs
    <3> SUFFICES ASSUME Pool # <<>> PROVE Pool[(next % Len(Pool)) + 1] \in Cscfs
      OBVIOUS
    <3>1. Len(Pool) \in Nat /\ Len(Pool) > 0 /\ next \in Nat
      BY DEF IInv, TypeOK
    <3>2. next % Len(Pool) \in 0 .. Len(Pool) - 1
      BY <3>1
    <3>3. (next % Len(Pool)) + 1 \in 1 .. Len(Pool)
      BY <3>1, <3>2
    <3>4. QED
      BY <3>3
  <2>3. QED
    BY <2>1, <2>2 DEF Recommended
<1>3. /\ next' \in Nat /\ requests' \in Nat /\ crossed \subseteq crossed' /\ crossed' \subseteq Users
      /\ u \notin crossed' => Routed(u) = {} /\ ~Assigning(u, {"register"})
      /\ UNCHANGED <<row, pc, req, heard, serves, edited, faults, faulted, edits>>
  BY DEF Authorize, Counted, IInv, TypeOK
<1>4. TypeOK' /\ LocalInv'
  BY <1>1, <1>2, <1>3 DEF IInv, TypeOK, LocalInv, LocalOK
<1>5. CalmInv'
  <2> SUFFICES ASSUME NEW v \in Users \ (crossed' \cup edited) PROVE Calm(v)'
    BY <1>3 DEF CalmInv
  <2>1. Calm(v)
    BY <1>3 DEF IInv, CalmInv
  <2>2. CASE v # u
    <3>1. SameState(v) /\ SameWork(v)
      BY <2>2, <1>1, <1>3 DEF SameState, SameWork
    <3>2. QED
      BY <2>1, <3>1, CalmElsewhere DEF IInv
  <2>3. CASE v = u
    <3>1. Routed(v) = {} /\ ~Assigning(v, {"register"})
      BY <2>3, <1>3
    <3>2. \A d \in Cscfs : <<v, d>> \in routed' => d = c
      BY <2>3, <3>1, <1>1 DEF Routed
    <3>3. \A g \in Handlers : Working(g, v)' <=> Working(g, v)
      BY <1>3 DEF Working
    <3>4. ServedByRow(v)' /\ RoutedByRow(v)' /\ Alone(v)'
      BY <2>1, <2>3, <3>2, <3>3, <1>2, <1>3 DEF Calm, ServedByRow, RoutedByRow, Alone
    <3>5. AllInStep(v)'
      <4> SUFFICES ASSUME NEW h \in Handlers, Working(h, v) PROVE InStep(h, v)'
        BY <3>3 DEF AllInStep
      <4>1. InStep(h, v) /\ req[h].type # "register"
        BY <2>1, <3>1 DEF Calm, AllInStep, Assigning, Working
      <4>2. QED
        BY <4>1, <1>3 DEF InStep, Assigned
    <3>6. v \notin faulted' => RowServed(v)' /\ RowHeard(v)'
      BY <2>1, <3>3, <1>3 DEF Calm, RowServed, RowHeard, Undone
    <3>7. QED
      BY <3>4, <3>5, <3>6 DEF Calm
  <2>4. QED
    BY <2>2, <2>3
<1>6. QED
  BY <1>4, <1>5 DEF IInv

LEMMA AbandonStep ==
    ASSUME IInv, NEW u \in Users, NEW c \in Cscfs, Abandon(u, c)
    PROVE  IInv'
<1>1. /\ routed' \subseteq routed
      /\ UNCHANGED <<row, next, pc, req, heard, serves, crossed, edited, faulted,
                     requests, faults, edits>>
  BY DEF Abandon, history, counts
<1>2. TypeOK' /\ LocalInv'
  BY <1>1 DEF IInv, TypeOK, LocalInv, LocalOK
<1>3. CalmInv'
  <2> SUFFICES ASSUME NEW v \in Users \ (crossed \cup edited) PROVE Calm(v)'
    BY <1>1 DEF CalmInv
  <2>1. Calm(v) /\ SameState(v) /\ SameWork(v)
    BY <1>1 DEF IInv, CalmInv, SameState, SameWork
  <2>2. QED
    BY <2>1, CalmElsewhere DEF IInv
<1>4. QED
  BY <1>2, <1>3 DEF IInv

LEMMA ReceiveStep ==
    ASSUME IInv, NEW h \in Handlers, NEW u \in Users, NEW c \in Cscfs,
           NEW type \in Assignments, ReceiveSAR(h, u, c, type)
    PROVE  IInv'
<1> DEFINE r == [type |-> type, user |-> u, server |-> c]
<1>0. /\ pc[h] = "idle" /\ req[h].type = "none" /\ ~Working(h, u)
  BY DEF ReceiveSAR, IInv, LocalInv, LocalOK, Working
<1>1. /\ pc' \in [Handlers -> PCs] /\ req' \in [Handlers -> Request]
      /\ pc'[h] = "lookup" /\ req'[h] = r
      /\ \A g \in Handlers \ {h} : pc'[g] = pc[g] /\ req'[g] = req[g]
  <2>1. r \in Request /\ "lookup" \in PCs
    BY DEF Request, PCs
  <2>2. QED
    BY <2>1 DEF ReceiveSAR, Goto, IInv, TypeOK
<1>2. req'[h].type = type /\ req'[h].user = u /\ req'[h].server = c
  BY <1>1
<1>3. /\ requests' \in Nat /\ crossed \subseteq crossed' /\ crossed' \subseteq Users
      /\ u \notin crossed' /\ type # "unregistered" => ~Assigning(u, Assignments \ {"unregistered"})
      /\ UNCHANGED <<row, next, heard, edited, faults, faulted, edits>>
  BY DEF ReceiveSAR, Counted, IInv, TypeOK
<1>4. /\ routed' = IF type = "register" THEN routed \ {<<u, c>>} ELSE routed
      /\ serves' = IF type = "deregister" THEN serves \ {<<u, c>>} ELSE serves
      /\ type = "register" => <<u, c>> \in routed
      /\ type \in {"reregister", "deregister"} => <<u, c>> \in serves
  BY DEF ReceiveSAR
<1>5. TypeOK'
  BY <1>1, <1>3, <1>4 DEF IInv, TypeOK
<1>6. LocalInv'
  <2>1. LocalOK(h)'
    BY <1>1, <1>2 DEF LocalOK, Assignments
  <2>2. \A g \in Handlers \ {h} : LocalOK(g)'
    BY <1>1 DEF IInv, LocalInv, LocalOK
  <2>3. QED
    BY <2>1, <2>2 DEF LocalInv
<1>7. CalmInv'
  <2> SUFFICES ASSUME NEW v \in Users \ (crossed' \cup edited) PROVE Calm(v)'
    BY <1>3 DEF CalmInv
  <2>1. Calm(v)
    BY <1>3 DEF IInv, CalmInv
  <2>2. CASE v # u \/ type = "unregistered"
    <3>1. SameState(v)
      BY <2>2, <1>3, <1>4 DEF SameState
    <3>2. SameWork(v)
      BY <2>2, <1>0, <1>1, <1>2 DEF SameWork, Working
    <3>3. QED
      BY <2>1, <3>1, <3>2, CalmElsewhere DEF IInv
  <2>3. CASE v = u /\ type # "unregistered"
    <3>1. \A g \in Handlers : ~Working(g, v)
      BY <2>3, <1>3 DEF Assigning, Assignments, Working
    <3>2. \A g \in Handlers : Working(g, v)' => g = h
      BY <3>1, <1>1 DEF Working
    <3>3. Working(h, v)'
      BY <2>3, <1>2 DEF Working, Assignments
    <3>4. row[v] = c \/ (type = "register" /\ row[v] = None)
      BY <2>1, <2>3, <1>4 DEF Calm, ServedByRow, RoutedByRow, Assignments
    <3>5. ServedByRow(v)' /\ RoutedByRow(v)' /\ Alone(v)'
      BY <2>1, <3>2, <1>3, <1>4 DEF Calm, ServedByRow, RoutedByRow, Alone
    <3>6. AllInStep(v)'
      <4> SUFFICES InStep(h, v)'
        BY <3>2 DEF AllInStep
      <4>1. type = "register" => \A d \in Cscfs : <<v, d>> \notin routed'
        BY <2>1, <2>3, <1>4 DEF Calm, RoutedByRow
      <4>2. type = "deregister" => \A d \in Cscfs : <<v, d>> \notin serves'
        BY <2>1, <2>3, <1>4 DEF Calm, ServedByRow
      <4>3. QED
        BY <3>4, <4>1, <4>2, <1>1, <1>2, <1>3 DEF InStep
    <3>7. v \notin faulted' => RowServed(v)' /\ RowHeard(v)'
      <4> SUFFICES ASSUME v \notin faulted' PROVE RowServed(v)' /\ RowHeard(v)'
        OBVIOUS
      <4>1. RowServed(v) /\ RowHeard(v)
        BY <2>1, <1>3 DEF Calm
      <4>2. RowHeard(v)'
        BY <4>1, <3>1, <1>3 DEF RowHeard
      <4>3. CASE type = "deregister"
        <5>1. Undone(h)'
          BY <4>3, <1>1, <1>2 DEF Undone
        <5>2. QED
          BY <5>1, <4>2, <3>3 DEF RowServed
      <4>4. CASE type # "deregister"
        BY <4>1, <4>2, <4>4, <3>1, <1>3, <1>4 DEF RowServed
      <4>5. QED
        BY <4>3, <4>4
    <3>8. QED
      BY <3>5, <3>6, <3>7 DEF Calm
  <2>4. QED
    BY <2>2, <2>3
<1>8. QED
  BY <1>5, <1>6, <1>7 DEF IInv

\* After a restart nobody works; whoever was being worked on has been hit.
LEMMA RestartStep ==
    ASSUME IInv, Restart
    PROVE  IInv'
<1>1. /\ pc' = [h \in Handlers |-> "idle"] /\ req' = [h \in Handlers |-> Idle] /\ next' = 0
      /\ faults' \in Nat /\ faulted' = faulted \cup {u \in Users : Assigning(u, Assignments)}
      /\ UNCHANGED <<row, heard, routed, serves, crossed, edited, requests, edits>>
  BY DEF Restart, Fault, IInv, TypeOK
<1>2. TypeOK'
  <2>1. Idle \in Request /\ "idle" \in PCs
    BY DEF Idle, Request, PCs
  <2>2. QED
    BY <2>1, <1>1 DEF IInv, TypeOK
<1>3. \A h \in Handlers : pc'[h] = "idle" /\ req'[h].type = "none"
  BY <1>1 DEF Idle
<1>4. LocalInv'
  BY <1>3 DEF LocalInv, LocalOK
<1>5. CalmInv'
  <2> SUFFICES ASSUME NEW v \in Users \ (crossed \cup edited) PROVE Calm(v)'
    BY <1>1 DEF CalmInv
  <2>1. Calm(v)
    BY DEF IInv, CalmInv
  <2>2. \A g \in Handlers : ~Working(g, v)'
    BY <1>3 DEF Working
  <2>3. ServedByRow(v)' /\ RoutedByRow(v)' /\ Alone(v)' /\ AllInStep(v)'
    BY <2>1, <2>2, <1>1 DEF Calm, ServedByRow, RoutedByRow, Alone, AllInStep
  <2>4. v \notin faulted' => RowServed(v)' /\ RowHeard(v)'
    <3> SUFFICES ASSUME v \notin faulted' PROVE RowServed(v)' /\ RowHeard(v)'
      OBVIOUS
    <3>1. \A g \in Handlers : ~Working(g, v)
      BY <1>1 DEF Assigning, Assignments, Working
    <3>2. QED
      BY <2>1, <3>1, <1>1 DEF Calm, RowServed, RowHeard
  <2>5. QED
    BY <2>3, <2>4 DEF Calm
<1>6. QED
  BY <1>2, <1>4, <1>5 DEF IInv

\* OAM writes to the row of a user, who is no longer followed.
LEMMA WriteStep ==
    ASSUME IInv, NEW u \in Users, NEW value \in {None, Unknown}, Write(u, value)
    PROVE  IInv'
<1>1. /\ row' = [row EXCEPT ![u] = value] /\ edited' = edited \cup {u} /\ edits' \in Nat
      /\ UNCHANGED <<next, pc, req, heard, routed, serves, crossed, faulted, requests, faults>>
  BY DEF Write, IInv, TypeOK
<1>2. TypeOK' /\ LocalInv'
  BY <1>1 DEF IInv, TypeOK, LocalInv, LocalOK, Values
<1>3. CalmInv'
  <2> SUFFICES ASSUME NEW v \in Users \ (crossed \cup edited') PROVE Calm(v)'
    BY <1>1 DEF CalmInv
  <2>1. v # u /\ Calm(v)
    BY <1>1 DEF IInv, CalmInv
  <2>2. SameState(v) /\ SameWork(v)
    BY <2>1, <1>1 DEF SameState, SameWork, IInv, TypeOK
  <2>3. QED
    BY <2>1, <2>2, CalmElsewhere DEF IInv
<1>4. QED
  BY <1>2, <1>3 DEF IInv

-----------------------------------------------------------------------------
(***************************************************************************)
(* The theorems.                                                           *)
(***************************************************************************)
LEMMA InitHolds == Init => IInv
<1> SUFFICES ASSUME Init PROVE IInv
  OBVIOUS
<1>1. \A h \in Handlers : pc[h] = "idle" /\ req[h].type = "none"
  BY DEF Init, Idle
<1>2. TypeOK
  <2>1. Idle \in Request /\ "idle" \in PCs /\ None \in Values
    BY DEF Idle, Request, PCs, Values
  <2>2. QED
    BY <2>1 DEF Init, TypeOK
<1>3. LocalInv
  BY <1>1 DEF LocalInv, LocalOK
<1>4. CalmInv
  <2> SUFFICES ASSUME NEW u \in Users PROVE Calm(u)
    BY DEF CalmInv
  <2>1. \A h \in Handlers : ~Working(h, u)
    BY <1>1 DEF Working
  <2>2. ServedByRow(u) /\ RoutedByRow(u) /\ Alone(u) /\ AllInStep(u)
    BY <2>1 DEF Init, ServedByRow, RoutedByRow, Alone, AllInStep
  <2>3. RowServed(u) /\ RowHeard(u)
    BY DEF Init, RowServed, RowHeard
  <2>4. QED
    BY <2>2, <2>3 DEF Calm
<1>5. QED
  BY <1>2, <1>3, <1>4 DEF IInv

LEMMA StepHolds == IInv /\ [Next]_vars => IInv'
<1> SUFFICES ASSUME IInv, [Next]_vars PROVE IInv'
  OBVIOUS
<1>1. ASSUME NEW u \in Users, Authorize(u) PROVE IInv'
  BY <1>1, AuthorizeStep
<1>2. ASSUME NEW u \in Users, NEW c \in Cscfs, Abandon(u, c) PROVE IInv'
  BY <1>2, AbandonStep
<1>3. ASSUME NEW u \in Users, NEW c \in Cscfs, NEW h \in Handlers, NEW t \in Assignments,
             ReceiveSAR(h, u, c, t)
      PROVE  IInv'
  BY <1>3, ReceiveStep
<1>4. ASSUME NEW u \in Users,
             PutSubscriber(u) \/ CreateSubscriber(u) \/ DeleteSubscriber(u)
      PROVE  IInv'
  BY <1>4, WriteStep DEF PutSubscriber, CreateSubscriber, DeleteSubscriber
<1>5. ASSUME NEW h \in Handlers, Lookup(h) PROVE IInv'
  BY <1>5, LookupStep
<1>6. ASSUME NEW h \in Handlers, Update(h) PROVE IInv'
  BY <1>6, UpdateStep
<1>7. ASSUME NEW h \in Handlers, Publish(h) PROVE IInv'
  BY <1>7, PublishStep
<1>8. ASSUME NEW h \in Handlers, Answer(h) PROVE IInv'
  BY <1>8, AnswerStep
<1>9. CASE Restart
  BY <1>9, RestartStep
<1>10. CASE UNCHANGED vars
  <2> USE <1>10 DEF vars, history, counts
  <2>1. TypeOK' /\ LocalInv'
    BY DEF IInv, TypeOK, LocalInv, LocalOK
  <2>2. CalmInv'
    <3> SUFFICES ASSUME NEW v \in Users \ (crossed \cup edited) PROVE Calm(v)'
      BY DEF CalmInv
    <3>1. Calm(v) /\ SameState(v) /\ SameWork(v)
      BY DEF IInv, CalmInv, SameState, SameWork
    <3>2. QED
      BY <3>1, CalmElsewhere DEF IInv
  <2>3. QED
    BY <2>1, <2>2 DEF IInv
<1>11. QED
  BY <1>1, <1>2, <1>3, <1>4, <1>5, <1>6, <1>7, <1>8, <1>9, <1>10 DEF Next

(***************************************************************************)
(* The invariant holds in every reachable state: the row of a user is what *)
(* keeps the UAR, SAR and deregistrations of cx/uar.go and cx/sar.go in    *)
(* step, with what a SAR in work has not yet done accounted for.           *)
(***************************************************************************)
THEOREM Invariance == Spec => []IInv
  BY InitHolds, StepHolds, PTL DEF Spec

(***************************************************************************)
(* Rows, SARs, routed registrations and what the S-CSCFs serve keep their  *)
(* shapes; the round robin never leaves the pool, however often the        *)
(* counter has gone round (cx/uar.go:70-89).                               *)
(***************************************************************************)
THEOREM TypeCorrect == Spec => []TypeOK
<1>1. IInv => TypeOK
  BY DEF IInv
<1>2. QED
  BY <1>1, Invariance, PTL

(***************************************************************************)
(* At most one S-CSCF serves a user between SARs, and it is the one in the *)
(* row, which LIR and Sh report; without faults the row names one exactly  *)
(* if it serves (cx/uar.go:47-89, cx/sar.go:49-68).                        *)
(***************************************************************************)
THEOREM OneServes == Spec => []OneServing
<1>1. IInv => OneServing
  <2> SUFFICES ASSUME IInv, NEW u \in Users, Settled(u)
               PROVE  /\ Serving(u) \subseteq {Located(u)}
                      /\ u \notin faulted => (Serving(u) = {} <=> ~Registered(u))
    BY DEF OneServing
  <2>1. Calm(u) /\ \A h \in Handlers : ~Working(h, u)
    BY DEF IInv, CalmInv, Settled, Assigning, Assignments, Working
  <2>2. Serving(u) \subseteq {Located(u)}
    BY <2>1 DEF Calm, ServedByRow, Serving, Located
  <2>3. ASSUME u \notin faulted PROVE Serving(u) = {} <=> ~Registered(u)
    <3>1. row[u] \in Cscfs => <<u, row[u]>> \in serves
      BY <2>1, <2>3 DEF Calm, RowServed
    <3>2. QED
      BY <2>1, <3>1 DEF Calm, ServedByRow, Serving, Registered
  <2>4. QED
    BY <2>2, <2>3
<1>2. QED
  BY <1>1, Invariance, PTL

(***************************************************************************)
(* Between SARs that no fault has hit, the GeoRed peers have heard what is *)
(* in the row: every assignment, and every end of one (cx/sar.go:60, 68).  *)
(***************************************************************************)
THEOREM PeersAreTold == Spec => []PeersHear
<1>1. IInv => PeersHear
  <2> SUFFICES ASSUME IInv, NEW u \in Users, Settled(u), u \notin faulted
               PROVE  heard[u] = row[u]
    BY DEF PeersHear
  <2>1. Calm(u) /\ \A h \in Handlers : ~Working(h, u)
    BY DEF IInv, CalmInv, Settled, Assigning, Assignments, Working
  <2>2. QED
    BY <2>1 DEF Calm, RowHeard
<1>2. QED
  BY <1>1, Invariance, PTL
=============================================================================
