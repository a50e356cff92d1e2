---------------------------- MODULE SmsWaitingProofs ----------------------------
(***************************************************************************)
(* Proofs about SmsWaiting, for every number of handlers, SMS-SCs and      *)
(* requests and for every limit.                                           *)
(***************************************************************************)
EXTENDS SmsWaitingInv, FiniteSetTheorems, TLAPS

USE LimitAssumption, RequestsAssumption

-----------------------------------------------------------------------------
(***************************************************************************)
(* Types.                                                                  *)
(***************************************************************************)
\* The fields of a request, by its kind.
LEMMA RequestFacts ==
    ASSUME NEW q \in Request
    PROVE  /\ q.kind \in {"none", "report", "alert", "answer"}
           /\ q.kind = "report" =>
                 q.id \in Nat /\ q.sc \in Centres /\ q.cause \in Causes /\ q.single \in BOOLEAN
           /\ q.kind = "alert" => q.id \in Nat /\ q.trigger \in Flags
           /\ q.kind = "answer" =>
                 q.alert \in Alerts /\ q.sc \in Centres /\ q.success \in BOOLEAN
  BY DEF Request

LEMMA RequestTypes ==
    /\ NoRequest \in Request
    /\ \A i \in Nat, s \in Centres, c \in Causes, single \in BOOLEAN :
          [kind |-> "report", id |-> i, sc |-> s, cause |-> c, single |-> single] \in Request
    /\ \A i \in Nat, t \in Flags : [kind |-> "alert", id |-> i, trigger |-> t] \in Request
    /\ \A a \in Alerts, s \in Centres, ok \in BOOLEAN :
          [kind |-> "answer", alert |-> a, sc |-> s, success |-> ok] \in Request
  BY DEF Request, NoRequest

\* A handler that returns leaves its locals typed.
LEMMA FinishTyped ==
    ASSUME TypeOK, NEW h \in Handlers, Finish(h)
    PROVE  /\ pc' \in [Handlers -> PCs]
           /\ req' \in [Handlers -> Request]
           /\ todo' \in [Handlers -> SUBSET Rows]
           /\ item' \in [Handlers -> Rows \cup {NoRow}]
           /\ target' \in [Handlers -> Nat]
  BY RequestTypes DEF Finish, Goto, PCs, TypeOK

\* What StoreMWD leaves in the table: rows, each found or new.
LEMMA StoredTyped ==
    ASSUME TypeOK, NEW h \in Handlers, item[h] \in Rows
    PROVE  Stored(h) \subseteq Rows
<1>1. table \subseteq Rows /\ nextId \in Nat
  BY DEF TypeOK
<1>2. item[h].sc \in Centres /\ item[h].flag \in Flags
  BY DEF Rows
<1>3. \A r \in table : [id |-> r.id, sc |-> r.sc, flag |-> item[h].flag] \in Rows
  BY <1>1, <1>2 DEF Rows
<1>4. [id |-> nextId, sc |-> item[h].sc, flag |-> item[h].flag] \in Rows
  BY <1>1, <1>2 DEF Rows
<1>5. QED
  BY <1>1, <1>3, <1>4 DEF Stored

\* Every step keeps the types.
LEMMA TypeStep ==
    ASSUME TypeOK, LocalInv, [Next]_vars
    PROVE  TypeOK'
<1>1. ASSUME NEW h \in Handlers, ReceiveReport(h) PROVE TypeOK'
  <2>1. requests' \in Nat
    BY <1>1 DEF ReceiveReport, TypeOK
  <2>2. req' \in [Handlers -> Request]
    <3>1. PICK s \in Centres, c \in Causes, single \in BOOLEAN :
              req' = [req EXCEPT ![h] =
                         [kind |-> "report", id |-> requests', sc |-> s, cause |-> c,
                          single |-> single]]
      BY <1>1 DEF ReceiveReport
    <3>2. [kind |-> "report", id |-> requests', sc |-> s, cause |-> c,
           single |-> single] \in Request
      BY <2>1, RequestTypes
    <3>3. QED
      BY <3>1, <3>2 DEF TypeOK
  <2>3. QED
    BY <1>1, <2>1, <2>2 DEF ReceiveReport, Goto, PCs, TypeOK, history
<1>2. ASSUME NEW h \in Handlers, ReceiveTrigger(h) PROVE TypeOK'
  <2>1. requests' \in Nat
    BY <1>2 DEF ReceiveTrigger, TypeOK
  <2>2. req' \in [Handlers -> Request]
    <3>1. PICK t \in Flags :
              req' = [req EXCEPT ![h] = [kind |-> "alert", id |-> requests', trigger |-> t]]
      BY <1>2 DEF ReceiveTrigger
    <3>2. [kind |-> "alert", id |-> requests', trigger |-> t] \in Request
      BY <2>1, RequestTypes
    <3>3. QED
      BY <3>1, <3>2 DEF TypeOK
  <2>3. QED
    BY <1>2, <2>1, <2>2 DEF ReceiveTrigger, Goto, PCs, TypeOK, history
<1>3. ASSUME NEW h \in Handlers, ReceiveAnswer(h) PROVE TypeOK'
  <2>1. \A a \in sent : a \in Alerts /\ a.sc \in Centres
    BY DEF TypeOK, Alerts
  <2>2. req' \in [Handlers -> Request]
    <3>1. PICK a \in sent, ok \in BOOLEAN :
              req' = [req EXCEPT ![h] =
                         [kind |-> "answer", alert |-> a, sc |-> a.sc, success |-> ok]]
      BY <1>3 DEF ReceiveAnswer
    <3>2. [kind |-> "answer", alert |-> a, sc |-> a.sc, success |-> ok] \in Request
      BY <2>1, RequestTypes
    <3>3. QED
      BY <3>1, <3>2 DEF TypeOK
  <2>3. sent' \subseteq Alerts
    BY <1>3 DEF ReceiveAnswer, TypeOK
  <2>4. QED
    BY <1>3, <2>2, <2>3 DEF ReceiveAnswer, Goto, PCs, TypeOK, history
<1>4. ASSUME NEW h \in Handlers, Decide(h) PROVE TypeOK'
  <2>1. CASE Finish(h)
    BY <1>4, <2>1, FinishTyped DEF Decide, TypeOK, history
  <2>2. CASE UNCHANGED <<req, todo, item, target>>
    BY <1>4, <2>2 DEF Decide, Finish, Goto, PCs, TypeOK, history
  <2>3. QED
    BY <1>4, <2>1, <2>2 DEF Decide
<1>5. ASSUME NEW h \in Handlers, List(h) PROVE TypeOK'
  <2>1. CASE Finish(h)
    BY <1>5, <2>1, FinishTyped DEF List, TypeOK, history
  <2>2. CASE ~Finish(h)
    <3>1. req[h].sc \in Centres /\ req[h].cause \in Flags
      BY <1>5, RequestFacts DEF List, LocalInv, LocalOK, Kind, TypeOK
    <3>2. [id |-> 0, sc |-> req[h].sc, flag |-> req[h].cause] \in Rows
      BY <3>1 DEF Rows
    <3>3. item' \in [Handlers -> Rows \cup {NoRow}]
      BY <1>5, <2>2, <3>2 DEF List, TypeOK
    <3>4. QED
      BY <1>5, <2>2, <3>3 DEF List, Goto, PCs, TypeOK, history
  <2>3. QED
    BY <2>1, <2>2
<1>6. ASSUME NEW h \in Handlers, Find(h) PROVE TypeOK'
  <2>1. \A r \in Candidates(h) : r.id \in Nat
    BY DEF Candidates, RowsOf, TypeOK, Rows
  <2>2. target' \in [Handlers -> Nat]
    BY <1>6, <2>1 DEF Find, TypeOK
  <2>3. QED
    BY <1>6, <2>2 DEF Find, Goto, PCs, TypeOK, history
<1>7. ASSUME NEW h \in Handlers, Store(h) PROVE TypeOK'
  <2>1. item[h] \in Rows
    BY <1>7 DEF Store, LocalInv, LocalOK
  <2>2. table' \subseteq Rows
    BY <1>7, <2>1, StoredTyped DEF Store
  <2>3. nextId' \in Nat \ {0} /\ overlap' \in BOOLEAN
    BY <1>7 DEF Store, TypeOK
  <2>4. CASE req[h].kind = "report"
    <3>1. [id |-> req[h].id, flag |-> item[h].flag, stands |-> TRUE] \in
              [id : Nat, flag : Flags, stands : BOOLEAN]
      BY <2>1, <2>4, RequestFacts DEF TypeOK, Rows
    <3>2. accepted' \in [Centres -> [id : Nat, flag : Flags, stands : BOOLEAN]]
      BY <1>7, <2>4, <3>1 DEF Store, TypeOK
    <3>3. Finish(h)
      BY <1>7, <2>4 DEF Store
    <3>4. QED
      BY <1>7, <2>2, <2>3, <3>2, <3>3, FinishTyped DEF Store, TypeOK
  <2>5. CASE req[h].kind = "alert"
    BY <1>7, <2>2, <2>3, <2>5 DEF Store, Goto, PCs, TypeOK
  <2>6. QED
    BY <1>7, <2>4, <2>5 DEF Store
<1>8. ASSUME NEW h \in Handlers, StoreFails(h) PROVE TypeOK'
  <2>1. CASE Finish(h)
    BY <1>8, <2>1, FinishTyped DEF StoreFails, TypeOK, history
  <2>2. CASE ~Finish(h)
    BY <1>8, <2>2 DEF StoreFails, Goto, PCs, TypeOK, history
  <2>3. QED
    BY <2>1, <2>2
<1>9. ASSUME NEW h \in Handlers, Scan(h) PROVE TypeOK'
  <2>1. Matching(req[h].trigger) \subseteq Rows
    BY DEF Matching, TypeOK
  <2>2. QED
    BY <1>9, <2>1 DEF Scan, Goto, PCs, TypeOK, history
<1>10. ASSUME NEW h \in Handlers, SendAlert(h) PROVE TypeOK'
  <2>1. PICK r \in todo[h] :
            /\ sent' = sent \cup {AlertOf(h, r)}
            /\ item' = [item EXCEPT ![h] = r]
            /\ todo' = [todo EXCEPT ![h] = todo[h] \ {r}]
    BY <1>10 DEF SendAlert
  <2>2. r \in Rows /\ todo[h] \subseteq Rows
    BY DEF TypeOK
  <2>3. req[h].id \in Nat
    BY <1>10, RequestFacts DEF SendAlert, LocalInv, LocalOK, Kind, TypeOK
  <2>4. AlertOf(h, r) \in Alerts
    BY <2>2, <2>3 DEF AlertOf, Alerts, Rows
  <2>5. QED
    BY <1>10, <2>1, <2>2, <2>4 DEF SendAlert, Goto, PCs, TypeOK, history
<1>11. ASSUME NEW h \in Handlers, SkipAlert(h) PROVE TypeOK'
  <2>1. todo' \in [Handlers -> SUBSET Rows]
    BY <1>11 DEF SkipAlert, TypeOK
  <2>2. QED
    BY <1>11, <2>1 DEF SkipAlert, TypeOK, history
<1>12. ASSUME NEW h \in Handlers, Pend(h) PROVE TypeOK'
  <2>1. item[h] \in Rows /\ req[h].id \in Nat
    BY <1>12, RequestFacts DEF Pend, LocalInv, LocalOK, Kind, TypeOK
  <2>2. AlertOf(h, item[h]) \in Alerts
    BY <2>1 DEF AlertOf, Alerts, Rows
  <2>3. QED
    BY <1>12, <2>2 DEF Pend, Goto, PCs, TypeOK, history
<1>13. ASSUME NEW h \in Handlers, EndAlerts(h) PROVE TypeOK'
  BY <1>13, FinishTyped DEF EndAlerts, TypeOK, history
<1>14. ASSUME NEW h \in Handlers, Match(h) PROVE TypeOK'
  <2>1. pending' \subseteq Alerts
    BY <1>14 DEF Match, TypeOK
  <2>2. CASE Finish(h)
    BY <1>14, <2>1, <2>2, FinishTyped DEF Match, TypeOK, history
  <2>3. CASE ~Finish(h)
    BY <1>14, <2>1, <2>3 DEF Match, Goto, PCs, TypeOK, history
  <2>4. QED
    BY <2>2, <2>3
<1>15. ASSUME NEW h \in Handlers, Clear(h) PROVE TypeOK'
  <2>1. table' \subseteq Rows /\ overlap' \in BOOLEAN
    BY <1>15 DEF Clear, TypeOK
  <2>2. req[h].sc \in Centres
    BY <1>15, RequestFacts DEF Clear, LocalInv, LocalOK, Kind, TypeOK
  <2>3. /\ cleared' \in [Centres -> Nat]
        /\ accepted' \in [Centres -> [id : Nat, flag : Flags, stands : BOOLEAN]]
    <3>1. [id |-> accepted[req[h].sc].id, flag |-> accepted[req[h].sc].flag,
           stands |-> FALSE] \in [id : Nat, flag : Flags, stands : BOOLEAN]
      BY <2>2 DEF TypeOK
    <3>2. QED
      BY <1>15, <3>1 DEF Clear, TypeOK
  <2>4. Finish(h)
    BY <1>15 DEF Clear
  <2>5. QED
    BY <1>15, <2>1, <2>3, <2>4, FinishTyped DEF Clear, TypeOK
<1>16. ASSUME NEW h \in Handlers, Fail(h) PROVE TypeOK'
  BY <1>16, FinishTyped DEF Fail, TypeOK, history
<1>17. ASSUME NEW a \in sent, LoseAnswer(a) PROVE TypeOK'
  BY <1>17 DEF LoseAnswer, TypeOK, locals, history
<1>18. ASSUME Restart PROVE TypeOK'
  BY <1>18, RequestTypes DEF Restart, PCs, TypeOK, history
<1>19. ASSUME UNCHANGED vars PROVE TypeOK'
  BY <1>19 DEF vars, TypeOK
<1>20. QED
  BY <1>1, <1>2, <1>3, <1>4, <1>5, <1>6, <1>7, <1>8, <1>9, <1>10, <1>11, <1>12,
     <1>13, <1>14, <1>15, <1>16, <1>17, <1>18, <1>19 DEF Next

-----------------------------------------------------------------------------
(***************************************************************************)
(* Locals.                                                                 *)
(***************************************************************************)
\* What a handler may do.
HandlerStep(h) ==
    \/ ReceiveReport(h) \/ ReceiveTrigger(h) \/ ReceiveAnswer(h)
    \/ Decide(h) \/ List(h) \/ Find(h) \/ Store(h) \/ StoreFails(h)
    \/ Scan(h) \/ SendAlert(h) \/ SkipAlert(h) \/ Pend(h) \/ EndAlerts(h)
    \/ Match(h) \/ Clear(h) \/ Fail(h)

LEMMA NextCases ==
    ASSUME Next
    PROVE  \/ \E h \in Handlers : HandlerStep(h)
           \/ \E a \in sent : LoseAnswer(a)
           \/ Restart
  BY DEF Next, HandlerStep

\* A step of one handler leaves the others where they are.
LEMMA OthersStay ==
    ASSUME TypeOK, NEW h \in Handlers, HandlerStep(h), NEW g \in Handlers, g # h
    PROVE  /\ pc'[g] = pc[g] /\ req'[g] = req[g] /\ todo'[g] = todo[g]
           /\ item'[g] = item[g] /\ target'[g] = target[g]
           /\ requests' \in Nat /\ requests <= requests'
           /\ nextId' \in Nat /\ nextId <= nextId'
<1> USE DEF TypeOK, Goto, Finish, history
<1>1. CASE ReceiveReport(h)
  BY <1>1 DEF ReceiveReport
<1>2. CASE ReceiveTrigger(h)
  BY <1>2 DEF ReceiveTrigger
<1>3. CASE ReceiveAnswer(h)
  BY <1>3 DEF ReceiveAnswer
<1>4. CASE Decide(h)
  BY <1>4 DEF Decide
<1>5. CASE List(h)
  BY <1>5 DEF List
<1>6. CASE Find(h)
  BY <1>6 DEF Find
<1>7. CASE Store(h)
  BY <1>7 DEF Store
<1>8. CASE StoreFails(h)
  BY <1>8 DEF StoreFails
<1>9. CASE Scan(h)
  BY <1>9 DEF Scan
<1>10. CASE SendAlert(h)
  BY <1>10 DEF SendAlert
<1>11. CASE SkipAlert(h)
  BY <1>11 DEF SkipAlert
<1>12. CASE Pend(h)
  BY <1>12 DEF Pend
<1>13. CASE EndAlerts(h)
  BY <1>13 DEF EndAlerts
<1>14. CASE Match(h)
  BY <1>14 DEF Match
<1>15. CASE Clear(h)
  BY <1>15 DEF Clear
<1>16. CASE Fail(h)
  BY <1>16 DEF Fail
<1>17. QED
  BY <1>1, <1>2, <1>3, <1>4, <1>5, <1>6, <1>7, <1>8, <1>9, <1>10, <1>11, <1>12, <1>13, <1>14, <1>15, <1>16 DEF HandlerStep

LEMMA LocalFrame ==
    ASSUME TypeOK, NEW g \in Handlers, LocalOK(g),
           pc'[g] = pc[g], req'[g] = req[g], todo'[g] = todo[g], item'[g] = item[g],
           requests' \in Nat, requests <= requests', nextId' \in Nat, nextId <= nextId'
    PROVE  LocalOK(g)'
<1>1. req[g].kind = "report" => req[g].id \in Nat
  BY RequestFacts DEF TypeOK
<1>2. requests \in Nat /\ nextId \in Nat /\ todo[g] \subseteq Rows
  BY DEF TypeOK
<1>3. Kind(g)' = Kind(g) /\ Released(g)' = Released(g)
  BY DEF Kind, Released
<1>4. \A r \in Rows : r.id \in Nat
  BY DEF Rows
<1>5. pc[g] \in {"find", "store"} /\ req[g].kind = "alert" =>
          0 < item[g].id /\ item[g].id < nextId'
  BY <1>2, <1>4 DEF LocalOK
<1>6. \A r \in todo[g] : 0 < r.id /\ r.id < nextId'
  BY <1>2, <1>4 DEF LocalOK
<1>7. QED
  BY <1>1, <1>2, <1>3, <1>5, <1>6 DEF LocalOK

LEMMA FinishLocal ==
    ASSUME TypeOK, NEW h \in Handlers, Finish(h)
    PROVE  LocalOK(h)'
<1>1. /\ pc'[h] = "idle" /\ req'[h] = NoRequest /\ todo'[h] = {}
  BY DEF Finish, Goto, TypeOK
<1>2. QED
  BY <1>1 DEF LocalOK, Kind, NoRequest

\* Every action leaves the locals of its handler in order.
LEMMA LocalStep ==
    ASSUME TypeOK, LocalInv, TableInv, NEW h \in Handlers, HandlerStep(h)
    PROVE  LocalOK(h)'
<1>0. LocalOK(h) /\ req[h] \in Request /\ requests \in Nat
  BY DEF LocalInv, TypeOK
<1> USE <1>0
<1>1. CASE ReceiveReport(h)
  <2>1. /\ pc'[h] = "decide" /\ req'[h].kind = "report" /\ req'[h].id = requests'
        /\ todo'[h] = {} /\ requests' = requests + 1
    BY <1>1 DEF ReceiveReport, Goto, TypeOK, LocalOK
  <2>2. QED
    BY <2>1 DEF LocalOK, Kind
<1>2. CASE ReceiveTrigger(h)
  <2>1. pc'[h] = "scan" /\ req'[h].kind = "alert" /\ todo'[h] = {}
    BY <1>2 DEF ReceiveTrigger, Goto, TypeOK, LocalOK
  <2>2. QED
    BY <2>1 DEF LocalOK, Kind
<1>3. CASE ReceiveAnswer(h)
  <2>1. pc'[h] = "match" /\ req'[h].kind = "answer" /\ todo'[h] = {}
    BY <1>3 DEF ReceiveAnswer, Goto, TypeOK, LocalOK
  <2>2. QED
    BY <2>1 DEF LocalOK, Kind
<1>4. CASE Decide(h)
  <2>1. CASE Finish(h)
    BY <2>1, FinishLocal
  <2>2. CASE ~Finish(h)
    <3>1. /\ req'[h] = req[h] /\ req[h].kind = "report" /\ todo'[h] = {}
          /\ \/ pc'[h] = "clear" /\ req[h].cause = "delivered"
             \/ pc'[h] = "list" /\ req[h].cause \in Flags
          /\ requests' = requests
      BY <1>4, <2>2, RequestFacts DEF Decide, Goto, TypeOK, LocalOK, Kind, Causes
    <3>2. QED
      BY <3>1 DEF LocalOK, Kind, Released
  <2>3. QED
    BY <2>1, <2>2
<1>5. CASE List(h)
  <2>1. CASE Finish(h)
    BY <2>1, FinishLocal
  <2>2. CASE ~Finish(h)
    <3>1. /\ req'[h] = req[h] /\ req[h].kind = "report" /\ todo'[h] = {}
          /\ pc'[h] = "find" /\ requests' = requests /\ req[h].cause \in Flags
          /\ item'[h] = [id |-> 0, sc |-> req[h].sc, flag |-> req[h].cause]
      BY <1>5, <2>2 DEF List, Goto, TypeOK, LocalOK, Kind
    <3>2. item'[h] \in Rows
      BY <3>1, RequestFacts DEF Rows
    <3>3. QED
      BY <3>1, <3>2 DEF LocalOK, Kind
  <2>3. QED
    BY <2>1, <2>2
<1>6. CASE Find(h)
  <2>1. /\ req'[h] = req[h] /\ todo'[h] = todo[h] /\ item'[h] = item[h]
        /\ pc[h] = "find" /\ pc'[h] = "store" /\ requests' = requests
        /\ nextId' = nextId
    BY <1>6 DEF Find, Goto, TypeOK
  <2>2. QED
    BY <2>1 DEF LocalOK, Kind
<1>7. CASE Store(h)
  <2>1. CASE Finish(h)
    BY <2>1, FinishLocal
  <2>2. CASE ~Finish(h)
    <3>1. /\ req'[h] = req[h] /\ req[h].kind = "alert" /\ todo'[h] = todo[h]
          /\ item'[h] = item[h] /\ pc[h] = "store" /\ pc'[h] = "pend"
      BY <1>7, <2>2 DEF Store, Goto, TypeOK
    <3>2. \A r \in todo[h] : 0 < r.id /\ r.id < nextId'
      BY <1>7 DEF Store, LocalOK, TypeOK, Rows
    <3>3. QED
      BY <3>1, <3>2 DEF LocalOK, Kind
  <2>3. QED
    BY <2>1, <2>2
<1>8. CASE StoreFails(h)
  <2>1. CASE Finish(h)
    BY <2>1, FinishLocal
  <2>2. CASE ~Finish(h)
    <3>1. /\ req'[h] = req[h] /\ req[h].kind = "alert" /\ todo'[h] = todo[h]
          /\ item'[h] = item[h] /\ pc[h] \in {"find", "store"} /\ pc'[h] = "pend"
          /\ nextId' = nextId
      BY <1>8, <2>2 DEF StoreFails, Goto, TypeOK
    <3>2. QED
      BY <3>1 DEF LocalOK, Kind
  <2>3. QED
    BY <2>1, <2>2
<1>9. CASE Scan(h)
  <2>1. /\ req'[h] = req[h] /\ todo'[h] = Matching(req[h].trigger)
        /\ pc[h] = "scan" /\ pc'[h] = "send" /\ nextId' = nextId
    BY <1>9 DEF Scan, Goto, TypeOK
  <2>2. \A r \in todo'[h] : 0 < r.id /\ r.id < nextId'
    BY <2>1 DEF Matching, TableInv
  <2>3. QED
    BY <2>1, <2>2 DEF LocalOK, Kind
<1>10. CASE SendAlert(h)
  <2>1. PICK r \in todo[h] :
            /\ item' = [item EXCEPT ![h] = r]
            /\ todo' = [todo EXCEPT ![h] = todo[h] \ {r}]
    BY <1>10 DEF SendAlert
  <2>2. /\ req'[h] = req[h] /\ item'[h] = r /\ todo'[h] = todo[h] \ {r}
        /\ pc[h] = "send" /\ pc'[h] = "find" /\ r \in Rows
        /\ 0 < r.id /\ r.id < nextId /\ nextId' = nextId
    BY <1>10, <2>1 DEF SendAlert, Goto, TypeOK, LocalOK
  <2>3. QED
    BY <2>2 DEF LocalOK, Kind
<1>11. CASE SkipAlert(h)
  <2>1. req'[h] = req[h] /\ todo'[h] \subseteq todo[h] /\ pc[h] = "send" /\ pc'[h] = "send"
        /\ nextId' = nextId
    BY <1>11 DEF SkipAlert, TypeOK
  <2>2. QED
    BY <2>1 DEF LocalOK, Kind
<1>12. CASE Pend(h)
  <2>1. req'[h] = req[h] /\ todo'[h] = todo[h] /\ pc[h] = "pend" /\ pc'[h] = "send"
        /\ nextId' = nextId
    BY <1>12 DEF Pend, Goto, TypeOK
  <2>2. QED
    BY <2>1 DEF LocalOK, Kind
<1>13. CASE EndAlerts(h)
  BY <1>13, FinishLocal DEF EndAlerts
<1>14. CASE Match(h)
  <2>1. CASE Finish(h)
    BY <2>1, FinishLocal
  <2>2. CASE ~Finish(h)
    <3>1. /\ req'[h] = req[h] /\ todo'[h] = {} /\ pc'[h] = "clear"
          /\ req[h].kind = "answer" /\ req[h].success
      BY <1>14, <2>2 DEF Match, Goto, TypeOK, LocalOK, Kind
    <3>2. QED
      BY <3>1 DEF LocalOK, Kind, Released
  <2>3. QED
    BY <2>1, <2>2
<1>15. CASE Clear(h)
  BY <1>15, FinishLocal DEF Clear
<1>16. CASE Fail(h)
  BY <1>16, FinishLocal DEF Fail
<1>17. QED
  BY <1>1, <1>2, <1>3, <1>4, <1>5, <1>6, <1>7, <1>8, <1>9, <1>10, <1>11, <1>12,
     <1>13, <1>14, <1>15, <1>16 DEF HandlerStep

-----------------------------------------------------------------------------
(***************************************************************************)
(* The table.                                                              *)
(***************************************************************************)
\* Only storing and clearing touch the table and the history.
Quiet == UNCHANGED <<table, nextId, accepted, cleared, overlap>>

LEMMA QuietSteps ==
    ASSUME NEW h \in Handlers, HandlerStep(h)
    PROVE  Quiet \/ Store(h) \/ Clear(h)
<1> USE DEF Quiet, history
<1>1. CASE ReceiveReport(h)
  BY <1>1 DEF ReceiveReport
<1>2. CASE ReceiveTrigger(h)
  BY <1>2 DEF ReceiveTrigger
<1>3. CASE ReceiveAnswer(h)
  BY <1>3 DEF ReceiveAnswer
<1>4. CASE Decide(h)
  BY <1>4 DEF Decide
<1>5. CASE List(h)
  BY <1>5 DEF List
<1>6. CASE Find(h)
  BY <1>6 DEF Find
<1>7. CASE StoreFails(h)
  BY <1>7 DEF StoreFails
<1>8. CASE Scan(h)
  BY <1>8 DEF Scan
<1>9. CASE SendAlert(h)
  BY <1>9 DEF SendAlert
<1>10. CASE SkipAlert(h)
  BY <1>10 DEF SkipAlert
<1>11. CASE Pend(h)
  BY <1>11 DEF Pend
<1>12. CASE EndAlerts(h)
  BY <1>12 DEF EndAlerts
<1>13. CASE Match(h)
  BY <1>13 DEF Match
<1>14. CASE Fail(h)
  BY <1>14 DEF Fail
<1>15. QED
  BY <1>1, <1>2, <1>3, <1>4, <1>5, <1>6, <1>7, <1>8, <1>9, <1>10, <1>11, <1>12, <1>13, <1>14 DEF HandlerStep

\* What an update does to the table, as a function on its rows.
Updated(h) ==
    [r \in table |-> IF r.id = target[h] /\ r.sc = item[h].sc
                     THEN [id |-> r.id, sc |-> r.sc, flag |-> item[h].flag] ELSE r]

LEMMA UpdateSize ==
    ASSUME NEW h \in Handlers, target[h] # 0, IsFiniteSet(table)
    PROVE  /\ IsFiniteSet(Stored(h))
           /\ Cardinality(Stored(h)) <= Cardinality(table)
<1>1. Stored(h) = {Updated(h)[r] : r \in table}
  BY DEF Stored, Updated
<1>2. Updated(h) \in Surjection(table, Stored(h))
  <2>1. Updated(h) \in [table -> Stored(h)]
    BY <1>1 DEF Updated
  <2>2. \A t \in Stored(h) : \E r \in table : Updated(h)[r] = t
    BY <1>1
  <2>3. QED
    BY <2>1, <2>2 DEF Surjection
<1>3. QED
  BY <1>2, FS_Surjection

\* StoreMWD never loses a row: it keeps ids and SMS-SCs.
LEMMA StoredKeeps ==
    ASSUME NEW h \in Handlers, NEW r \in table
    PROVE  \E q \in Stored(h) : q.id = r.id /\ q.sc = r.sc
<1>1. CASE target[h] # 0
  <2> DEFINE q == IF r.id = target[h] /\ r.sc = item[h].sc
                  THEN [id |-> r.id, sc |-> r.sc, flag |-> item[h].flag] ELSE r
  <2>1. q \in Stored(h)
    BY <1>1 DEF Stored
  <2>2. q.id = r.id /\ q.sc = r.sc
    OBVIOUS
  <2>3. QED
    BY <2>1, <2>2
<1>2. CASE target[h] = 0
  <2>1. r \in Stored(h)
    BY <1>2 DEF Stored
  <2>2. QED
    BY <2>1
<1>3. QED
  BY <1>1, <1>2

LEMMA TableStep ==
    ASSUME TypeOK, LocalInv, TableInv, NEW h \in Handlers, HandlerStep(h)
    PROVE  TableInv'
<1>1. requests \in Nat /\ requests' \in Nat /\ requests <= requests'
  BY DEF history, HandlerStep, TypeOK, ReceiveReport, ReceiveTrigger, ReceiveAnswer, Decide, List,
     Find, Store, StoreFails, Scan, SendAlert, SkipAlert, Pend, EndAlerts, Match, Clear, Fail
<1>2. CASE Quiet
  BY <1>1, <1>2 DEF Quiet, TableInv, TypeOK
<1>3. CASE Store(h)
  <2>1. /\ item[h] \in Rows /\ pc[h] = "store" /\ table' = Stored(h)
        /\ req[h].kind = "report" => item[h].id = 0 /\ req[h].id <= requests
        /\ req[h].kind = "alert" => 0 < item[h].id /\ item[h].id < nextId
        /\ req[h].kind \in {"report", "alert"}
        /\ requests' = requests
    BY <1>3 DEF Store, LocalInv, LocalOK
  <2>2. IsFiniteSet(table')
    <3>1. CASE target[h] # 0
      BY <2>1, <3>1, UpdateSize DEF TableInv
    <3>2. CASE target[h] = 0
      BY <2>1, <3>2, FS_AddElement DEF Stored, TableInv
    <3>3. QED
      BY <3>1, <3>2
  <2>3. \A r \in table' : 0 < r.id /\ r.id < nextId'
    <3>1. nextId \in Nat \ {0} /\ \A r \in table : 0 < r.id /\ r.id < nextId /\ r.id \in Nat
      BY DEF TypeOK, TableInv, Rows
    <3>2. CASE target[h] # 0
      BY <1>3, <2>1, <3>1, <3>2 DEF Store, Stored
    <3>3. CASE target[h] = 0 /\ item[h].id = 0
      BY <1>3, <2>1, <3>1, <3>3 DEF Store, Stored
    <3>4. CASE target[h] = 0 /\ item[h].id # 0
      BY <1>3, <2>1, <3>1, <3>4 DEF Store, Stored
    <3>5. QED
      BY <3>2, <3>3, <3>4
  <2>4. \A s \in Centres : accepted'[s].id <= requests'
    <3>1. item[h].sc \in Centres /\ accepted \in [Centres -> [id : Nat, flag : Flags, stands : BOOLEAN]]
      BY <2>1 DEF Rows, TypeOK
    <3>2. CASE req[h].kind = "report"
      BY <1>3, <2>1, <3>1, <3>2 DEF Store, TableInv
    <3>3. CASE req[h].kind = "alert"
      BY <1>3, <2>1, <3>3 DEF Store, TableInv
    <3>4. QED
      BY <2>1, <3>2, <3>3
  <2>5. QED
    BY <2>2, <2>3, <2>4 DEF TableInv
<1>4. CASE Clear(h)
  <2>1. /\ table' \subseteq table /\ nextId' = nextId /\ requests' = requests
    BY <1>4 DEF Clear
  <2>2. IsFiniteSet(table')
    BY <2>1, FS_Subset DEF TableInv
  <2>3. \A s \in Centres : accepted'[s].id = accepted[s].id
    BY <1>4 DEF Clear, TypeOK
  <2>4. QED
    BY <2>1, <2>2, <2>3 DEF TableInv
<1>5. QED
  BY <1>2, <1>3, <1>4, QuietSteps

-----------------------------------------------------------------------------
(***************************************************************************)
(* No report is lost.                                                      *)
(***************************************************************************)
\* Clearing is dated by the requests received so far.
LEMMA ClearFacts ==
    ASSUME TypeOK, LocalInv, NEW h \in Handlers, Clear(h)
    PROVE  /\ req[h].sc \in Centres
           /\ cleared' = [cleared EXCEPT ![req[h].sc] = requests]
           /\ \A r \in table : r.sc # req[h].sc => r \in table'
           /\ table' = table \ RowsOf(req[h].sc)
           /\ \A s \in Centres : accepted'[s].id = accepted[s].id
           /\ \A s \in Centres \ {req[h].sc} : accepted'[s] = accepted[s]
           /\ accepted'[req[h].sc].stands = FALSE
<1>1. req[h].sc \in Centres /\ Released(h)
  BY RequestFacts DEF Clear, LocalInv, LocalOK, Kind, TypeOK
<1>2. /\ cleared' = [cleared EXCEPT ![req[h].sc] = requests]
      /\ accepted' = [accepted EXCEPT ![req[h].sc] =
             [id |-> accepted[req[h].sc].id, flag |-> accepted[req[h].sc].flag,
              stands |-> FALSE]]
      /\ table' = table \ RowsOf(req[h].sc)
  BY <1>1 DEF Clear
<1>3. accepted \in [Centres -> [id : Nat, flag : Flags, stands : BOOLEAN]]
  BY DEF TypeOK
<1>4. QED
  BY <1>1, <1>2, <1>3 DEF RowsOf

LEMMA TargetStep ==
    ASSUME TypeOK, LocalInv, TargetInv, NEW h \in Handlers, HandlerStep(h),
           NEW g \in Handlers
    PROVE  TargetOK(g)'
<1>1. CASE Find(h) /\ g = h
  <2>1. /\ pc'[g] = "store" /\ req'[g] = req[g] /\ item'[g] = item[g]
        /\ table' = table /\ pc[g] = "find"
    BY <1>1 DEF Find, Goto, TypeOK
  <2>2. target'[g] # 0 => \E r \in Candidates(g) : r.id = target'[g]
    BY <1>1 DEF Find, TypeOK
  <2>3. QED
    BY <2>1, <2>2 DEF TargetOK, Candidates, RowsOf
<1>2. CASE ~Find(h) /\ g = h
  <2>1. pc'[h] # "store"
    BY <1>2 DEF HandlerStep, TypeOK, Goto, Finish, ReceiveReport, ReceiveTrigger, ReceiveAnswer,
       Decide, List, Store, StoreFails, Scan, SendAlert, SkipAlert, Pend, EndAlerts,
       Match, Clear, Fail
  <2>2. QED
    BY <1>2, <2>1 DEF TargetOK
<1>3. CASE g # h
  <2>1. /\ pc'[g] = pc[g] /\ req'[g] = req[g] /\ item'[g] = item[g]
        /\ target'[g] = target[g]
    BY <1>3, OthersStay
  <2>2. SUFFICES ASSUME pc[g] = "store", req[g].kind = "report", target[g] # 0
                 PROVE  \/ \E r \in table' : r.id = target[g] /\ r.sc = item[g].sc
                        \/ cleared'[item[g].sc] >= req[g].id
    BY <2>1 DEF TargetOK
  <2>3. \/ \E r \in table : r.id = target[g] /\ r.sc = item[g].sc
        \/ cleared[item[g].sc] >= req[g].id
    BY <2>2 DEF TargetInv, TargetOK
  <2>4. CASE Quiet
    BY <2>3, <2>4 DEF Quiet
  <2>5. CASE Store(h)
    <3>1. table' = Stored(h) /\ cleared' = cleared
      BY <2>5 DEF Store
    <3>2. QED
      BY <2>3, <3>1, StoredKeeps
  <2>6. CASE Clear(h)
    <3>1. /\ item[g].sc \in Centres /\ req[g].id <= requests /\ req[g].id \in Nat
          /\ requests \in Nat /\ cleared \in [Centres -> Nat]
      BY <2>2, RequestFacts DEF LocalInv, LocalOK, Rows, TypeOK
    <3>2. /\ req[h].sc \in Centres
          /\ cleared' = [cleared EXCEPT ![req[h].sc] = requests]
          /\ \A r \in table : r.sc # req[h].sc => r \in table'
      BY <2>6, ClearFacts
    <3>3. CASE item[g].sc = req[h].sc
      BY <3>1, <3>2, <3>3
    <3>4. CASE item[g].sc # req[h].sc
      BY <2>3, <3>1, <3>2, <3>4
    <3>5. QED
      BY <3>3, <3>4
  <2>7. QED
    BY <2>4, <2>5, <2>6, QuietSteps
<1>4. QED
  BY <1>1, <1>2, <1>3

LEMMA WaitingStep ==
    ASSUME TypeOK, LocalInv, TableInv, TargetInv, NoWaitingLost,
           NEW h \in Handlers, HandlerStep(h)
    PROVE  NoWaitingLost'
<1>1. CASE Quiet
  BY <1>1 DEF Quiet, NoWaitingLost, RowsOf
<1>2. CASE Store(h)
  <2>1. /\ table' = Stored(h) /\ cleared' = cleared /\ pc[h] = "store" /\ item[h] \in Rows
        /\ item[h].sc \in Centres
    BY <1>2 DEF Store, LocalInv, LocalOK, Rows
  <2>2. SUFFICES ASSUME NEW s \in Centres, accepted'[s].id > cleared[s]
                 PROVE  \E q \in Stored(h) : q.sc = s
    BY <2>1 DEF NoWaitingLost, RowsOf
  <2>3. CASE accepted'[s].id = accepted[s].id
    <3>1. PICK r \in table : r.sc = s
      BY <2>2, <2>3 DEF NoWaitingLost, RowsOf
    <3>2. QED
      BY <3>1, StoredKeeps
  <2>4. CASE accepted'[s].id # accepted[s].id
    <3>1. req[h].kind = "report" /\ s = item[h].sc /\ accepted'[s].id = req[h].id
      BY <1>2, <2>1, <2>4 DEF Store, TypeOK
    <3>2. item[h].id = 0
      BY <2>1, <3>1 DEF LocalInv, LocalOK
    <3>3. CASE target[h] = 0
      <4> DEFINE new == [id |-> nextId, sc |-> item[h].sc, flag |-> item[h].flag]
      <4>1. new \in Stored(h)
        BY <3>2, <3>3 DEF Stored
      <4>2. new.sc = s
        BY <3>1
      <4>3. QED
        BY <4>1, <4>2
    <3>4. CASE target[h] # 0
      <4>1. req[h].id \in Nat /\ cleared[s] \in Nat
        BY <3>1, RequestFacts DEF TypeOK
      <4>2. PICK r \in table : r.id = target[h] /\ r.sc = s
        BY <2>1, <2>2, <3>1, <3>4, <4>1 DEF TargetInv, TargetOK
      <4>3. QED
        BY <4>2, StoredKeeps
    <3>5. QED
      BY <3>3, <3>4
  <2>5. QED
    BY <2>3, <2>4
<1>3. CASE Clear(h)
  <2>1. SUFFICES ASSUME NEW s \in Centres, accepted'[s].id > cleared'[s]
                 PROVE  \E r \in table' : r.sc = s
    BY DEF NoWaitingLost, RowsOf
  <2>2. /\ cleared' = [cleared EXCEPT ![req[h].sc] = requests]
        /\ \A r \in table : r.sc # req[h].sc => r \in table'
        /\ accepted'[s].id = accepted[s].id
    BY <1>3, ClearFacts
  <2>3. /\ accepted[s].id \in Nat /\ requests \in Nat /\ accepted[s].id <= requests
        /\ cleared \in [Centres -> Nat]
    BY DEF TypeOK, TableInv
  <2>4. s # req[h].sc
    <3>1. SUFFICES ASSUME s = req[h].sc PROVE FALSE
      OBVIOUS
    <3>2. cleared'[s] = requests
      BY <2>2, <2>3, <3>1
    <3>3. QED
      BY <2>1, <2>2, <2>3, <3>2
  <2>5. cleared'[s] = cleared[s]
    BY <2>2, <2>3, <2>4
  <2>6. PICK r \in table : r.sc = s
    BY <2>1, <2>2, <2>5 DEF NoWaitingLost, RowsOf
  <2>7. QED
    BY <2>2, <2>4, <2>6
<1>4. QED
  BY <1>1, <1>2, <1>3, QuietSteps

-----------------------------------------------------------------------------
(***************************************************************************)
(* The records agree with the reports while no write has fallen into       *)
(* another request.                                                        *)
(***************************************************************************)
\* What a handler has read is true as long as the table stays the same.
LEMMA FreshFrame ==
    ASSUME NEW g \in Handlers, FreshOK(g), table' = table,
           pc'[g] = pc[g], req'[g] = req[g], todo'[g] = todo[g], item'[g] = item[g],
           target'[g] = target[g]
    PROVE  FreshOK(g)'
<1>1. \A s : RowsOf(s)' = RowsOf(s)
  BY DEF RowsOf
<1>2. QED
  BY <1>1 DEF FreshOK, ShouldReject

\* A handler that has read nothing is up to date.
LEMMA FreshIdle ==
    ASSUME NEW g \in Handlers, pc'[g] \notin {"find", "store"}, todo'[g] \subseteq table'
    PROVE  FreshOK(g)'
  BY DEF FreshOK

\* The reads of a handler are up to date when it makes them.
LEMMA FreshQuiet ==
    ASSUME TypeOK, LocalInv, TableInv, AloneInv,
           NEW h \in Handlers, HandlerStep(h), Quiet
    PROVE  FreshOK(h)'
<1>0. FreshOK(h) /\ LocalOK(h) /\ table' = table
  BY DEF AloneInv, FreshInv, LocalInv, Quiet
<1> USE <1>0
<1>1. CASE List(h)
  <2>1. CASE Finish(h)
    <3>1. pc'[h] = "idle" /\ todo'[h] = {}
      BY <2>1 DEF Finish, Goto, TypeOK
    <3>2. QED
      BY <3>1, FreshIdle
  <2>2. CASE ~Finish(h)
    <3>1. /\ pc'[h] = "find" /\ req'[h] = req[h] /\ req[h].kind = "report"
          /\ item'[h].sc = req[h].sc /\ todo'[h] = {}
          /\ ~ShouldReject(table, req[h].sc)
      BY <1>1, <2>2 DEF List, Goto, TypeOK, LocalOK, Kind
    <3>2. QED
      BY <3>1 DEF FreshOK
  <2>3. QED
    BY <2>1, <2>2
<1>2. CASE Find(h)
  <2>1. /\ pc[h] = "find" /\ pc'[h] = "store" /\ req'[h] = req[h] /\ item'[h] = item[h]
        /\ todo'[h] = todo[h]
        /\ \/ Candidates(h) = {} /\ target'[h] = 0
           \/ \E first \in Candidates(h) : target'[h] = first.id
    BY <1>2 DEF Find, Goto, TypeOK
  <2>2. req[h].kind \in {"report", "alert"}
    BY <2>1 DEF LocalOK, Kind
  <2>3. CASE req[h].kind = "report"
    <3>1. item[h].id = 0 /\ Candidates(h) = RowsOf(item[h].sc)
      BY <2>1, <2>3 DEF LocalOK, Candidates
    <3>2. /\ target'[h] = 0 => RowsOf(item[h].sc) = {}
          /\ target'[h] # 0 => \E r \in RowsOf(item[h].sc) : r.id = target'[h]
      <4>1. \A r \in RowsOf(item[h].sc) : r.id # 0
        BY DEF TableInv, RowsOf
      <4>2. QED
        BY <2>1, <3>1, <4>1
    <3>3. ~ShouldReject(table, item[h].sc)
      BY <2>1, <2>3 DEF FreshOK
    <3>4. QED
      BY <2>1, <2>3, <3>2, <3>3 DEF FreshOK, RowsOf
  <2>4. CASE req[h].kind = "alert"
    <3>1. item[h] \in table /\ item[h].id > 0 /\ item[h].id \in Nat
      BY <2>1, <2>4 DEF FreshOK, LocalOK, TypeOK, Rows
    <3>2. item[h] \in Candidates(h) /\ \A r \in Candidates(h) : r.id = item[h].id
      BY <3>1 DEF Candidates, RowsOf
    <3>3. target'[h] = item[h].id
      BY <2>1, <3>2
    <3>4. QED
      BY <2>1, <2>4, <3>1, <3>3 DEF FreshOK
  <2>5. QED
    BY <2>2, <2>3, <2>4
<1>3. CASE Scan(h)
  <2>1. pc'[h] = "send" /\ todo'[h] \subseteq table
    BY <1>3 DEF Scan, Goto, TypeOK, Matching
  <2>2. QED
    BY <2>1, FreshIdle
<1>4. CASE SendAlert(h)
  <2>1. PICK r \in todo[h] :
            /\ item' = [item EXCEPT ![h] = r]
            /\ todo' = [todo EXCEPT ![h] = todo[h] \ {r}]
    BY <1>4 DEF SendAlert
  <2>2. /\ pc'[h] = "find" /\ req'[h] = req[h] /\ req[h].kind = "alert"
        /\ item'[h] = r /\ todo'[h] \subseteq todo[h]
    BY <1>4, <2>1 DEF SendAlert, Goto, TypeOK, LocalOK, Kind
  <2>3. todo[h] \subseteq table
    BY DEF FreshOK
  <2>4. QED
    BY <2>2, <2>3 DEF FreshOK
<1>5. CASE ~List(h) /\ ~Find(h) /\ ~Scan(h) /\ ~SendAlert(h) /\ ~Store(h) /\ ~Clear(h)
  <2>1. pc'[h] \notin {"find", "store"} /\ todo'[h] \subseteq todo[h]
    BY <1>5 DEF HandlerStep, ReceiveReport, ReceiveTrigger, ReceiveAnswer, Decide, StoreFails,
       SkipAlert, Pend, EndAlerts, Match, Fail, Finish, Goto, TypeOK
  <2>2. todo[h] \subseteq table
    BY DEF FreshOK
  <2>3. QED
    BY <2>1, <2>2, FreshIdle
<1>6. CASE Store(h) \/ Clear(h)
  <2>1. pc'[h] \notin {"find", "store"} /\ todo'[h] \subseteq todo[h]
    BY <1>6 DEF Store, Clear, Finish, Goto, TypeOK
  <2>2. todo[h] \subseteq table
    BY DEF FreshOK
  <2>3. QED
    BY <2>1, <2>2, FreshIdle
<1>7. QED
  BY <1>1, <1>2, <1>3, <1>4, <1>5, <1>6

\* A handler outside the write has nothing to be invalidated by it.
LEMMA NotReading ==
    ASSUME TypeOK, LocalInv, NEW h \in Handlers, ~OthersReading(h), HandlerStep(h),
           NEW g \in Handlers, g # h
    PROVE  FreshOK(g)'
<1>1. pc[g] \notin {"find", "store"} /\ todo[g] = {}
  BY DEF OthersReading, LocalInv, LocalOK
<1>2. pc'[g] \notin {"find", "store"} /\ todo'[g] = {}
  BY <1>1, OthersStay
<1>3. QED
  BY <1>2, FreshIdle

\* The table as the reports describe it.
TableAgrees ==
    /\ \A q, r \in table : q.id = r.id => q = r
    /\ \A q, r \in table : q.sc = r.sc => q = r
    /\ \A s \in Centres :
          IF accepted[s].stands THEN \E r \in RowsOf(s) : r.flag = accepted[s].flag
                                ELSE RowsOf(s) = {}
    /\ Cardinality(table) <= Limit

\* An alert stores what the table holds already.
LEMMA AlertStores ==
    ASSUME TypeOK, LocalInv, AloneInv, NEW h \in Handlers,
           pc[h] = "store", req[h].kind = "alert"
    PROVE  Stored(h) = table
<1>1. /\ item[h] \in table /\ target[h] = item[h].id /\ target[h] # 0
      /\ \A r \in table : r.id = item[h].id => r = item[h]
  BY DEF AloneInv, FreshInv, FreshOK, LocalInv, LocalOK
<1>2. item[h] = [id |-> item[h].id, sc |-> item[h].sc, flag |-> item[h].flag]
  BY <1>1 DEF TypeOK, Rows
<1>3. QED
  BY <1>1, <1>2 DEF Stored

\* A report that finds no row of its SMS-SC adds one,
LEMMA ReportInserts ==
    ASSUME TypeOK, LocalInv, TableInv, AloneInv, NEW h \in Handlers, Store(h),
           req[h].kind = "report", target[h] = 0
    PROVE  TableAgrees'
<1> DEFINE new == [id |-> nextId, sc |-> item[h].sc, flag |-> item[h].flag]
<1>1. /\ pc[h] = "store" /\ item[h] \in Rows /\ item[h].id = 0
      /\ item[h].sc \in Centres /\ table \subseteq Rows /\ nextId \in Nat
  BY DEF Store, LocalInv, LocalOK, Rows, TypeOK
<1>2. RowsOf(item[h].sc) = {} /\ ~ShouldReject(table, item[h].sc)
  BY <1>1 DEF AloneInv, FreshInv, FreshOK
<1>3. table' = table \cup {new}
  BY <1>1 DEF Store, Stored
<1>4. accepted' = [accepted EXCEPT ![item[h].sc] =
                      [id |-> req[h].id, flag |-> item[h].flag, stands |-> TRUE]]
  BY DEF Store
<1>5. \A r \in table : r.id # nextId /\ r.sc # item[h].sc
  BY <1>1, <1>2 DEF TableInv, RowsOf, Rows
<1>6. /\ \A q, r \in table' : q.id = r.id => q = r
      /\ \A q, r \in table' : q.sc = r.sc => q = r
  BY <1>3, <1>5 DEF AloneInv
<1>7. ASSUME NEW s \in Centres
      PROVE  IF accepted'[s].stands THEN \E r \in RowsOf(s)' : r.flag = accepted'[s].flag
                                    ELSE RowsOf(s)' = {}
  <2>1. CASE s = item[h].sc
    <3>1. accepted'[s].stands /\ accepted'[s].flag = item[h].flag
      BY <1>1, <1>4, <2>1 DEF TypeOK
    <3>2. new \in RowsOf(s)' /\ new.flag = item[h].flag
      BY <1>3, <2>1 DEF RowsOf
    <3>3. QED
      BY <3>1, <3>2
  <2>2. CASE s # item[h].sc
    <3>1. accepted'[s] = accepted[s] /\ RowsOf(s)' = RowsOf(s)
      BY <1>1, <1>3, <1>4, <2>2 DEF TypeOK, RowsOf
    <3>2. QED
      BY <3>1 DEF AloneInv
  <2>3. QED
    BY <2>1, <2>2
<1>8. Cardinality(table') <= Limit
  <2>1. Cardinality(table) < Limit
    <3>1. Cardinality(table) \in Nat
      BY FS_CardinalityType DEF TableInv
    <3>2. QED
      BY <1>2, <1>5, <3>1 DEF ShouldReject
  <2>2. Cardinality(table) \in Nat
    BY FS_CardinalityType DEF TableInv
  <2>3. new \notin table
    BY <1>5
  <2>4. Cardinality(table') = Cardinality(table) + 1
    BY <1>3, <2>3, FS_AddElement DEF TableInv
  <2>5. QED
    BY <2>1, <2>2, <2>4
<1>9. QED
  BY <1>6, <1>7, <1>8 DEF TableAgrees

\* and one that finds it updates it.
LEMMA ReportUpdates ==
    ASSUME TypeOK, LocalInv, TableInv, AloneInv, NEW h \in Handlers, Store(h),
           req[h].kind = "report", target[h] # 0
    PROVE  TableAgrees'
<1>1. /\ pc[h] = "store" /\ item[h] \in Rows
      /\ item[h].sc \in Centres /\ table \subseteq Rows /\ table' = Stored(h)
  BY DEF Store, LocalInv, LocalOK, Rows, TypeOK
<1>2. PICK found \in table : found.id = target[h] /\ found.sc = item[h].sc
  BY <1>1 DEF AloneInv, FreshInv, FreshOK, RowsOf
<1> DEFINE new == [id |-> found.id, sc |-> found.sc, flag |-> item[h].flag]
<1>3. \A r \in table : r.id = found.id => r = found
  BY DEF AloneInv
<1>4. /\ \A r \in table : r # found => r \in table'
      /\ new \in table'
      /\ \A r \in table' : r = new \/ (r \in table /\ r # found)
  BY <1>1, <1>2, <1>3 DEF Stored
<1>5. accepted' = [accepted EXCEPT ![item[h].sc] =
                      [id |-> req[h].id, flag |-> item[h].flag, stands |-> TRUE]]
  BY DEF Store
<1>6. \A r \in table : r # found => r.id # found.id /\ r.sc # found.sc
  BY DEF AloneInv
<1>7. /\ \A q, r \in table' : q.id = r.id => q = r
      /\ \A q, r \in table' : q.sc = r.sc => q = r
  BY <1>4, <1>6 DEF AloneInv
<1>8. ASSUME NEW s \in Centres
      PROVE  IF accepted'[s].stands THEN \E r \in RowsOf(s)' : r.flag = accepted'[s].flag
                                    ELSE RowsOf(s)' = {}
  <2>1. CASE s = item[h].sc
    <3>1. accepted'[s].stands /\ accepted'[s].flag = item[h].flag
      BY <1>1, <1>5, <2>1 DEF TypeOK
    <3>2. new \in RowsOf(s)' /\ new.flag = item[h].flag
      BY <1>2, <1>4, <2>1 DEF RowsOf
    <3>3. QED
      BY <3>1, <3>2
  <2>2. CASE s # item[h].sc
    <3>1. accepted'[s] = accepted[s] /\ RowsOf(s)' = RowsOf(s)
      BY <1>1, <1>2, <1>4, <1>5, <2>2 DEF TypeOK, RowsOf
    <3>2. QED
      BY <3>1 DEF AloneInv
  <2>3. QED
    BY <2>1, <2>2
<1>9. Cardinality(table') <= Limit
  <2>1. IsFiniteSet(table') /\ Cardinality(table') <= Cardinality(table)
    BY <1>1, UpdateSize DEF TableInv
  <2>2. Cardinality(table') \in Nat /\ Cardinality(table) \in Nat
    BY <2>1, FS_CardinalityType DEF TableInv
  <2>3. QED
    BY <2>1, <2>2 DEF AloneInv
<1>10. QED
  BY <1>7, <1>8, <1>9 DEF TableAgrees

LEMMA ClearAgrees ==
    ASSUME TypeOK, LocalInv, TableInv, AloneInv, NEW h \in Handlers, Clear(h)
    PROVE  TableAgrees'
<1>1. PICK c \in Centres : c = req[h].sc
  BY ClearFacts
<1>2. /\ table' = table \ RowsOf(c)
      /\ \A s \in Centres \ {c} : accepted'[s] = accepted[s]
      /\ accepted'[c].stands = FALSE
      /\ RowsOf(c)' = {}
      /\ \A s \in Centres \ {c} : RowsOf(s)' = RowsOf(s)
  <2>1. /\ table' = table \ RowsOf(c)
        /\ \A s \in Centres \ {c} : accepted'[s] = accepted[s]
        /\ accepted'[c].stands = FALSE
    BY <1>1, ClearFacts
  <2>2. QED
    BY <2>1 DEF RowsOf
<1>3. /\ \A q, r \in table' : q.id = r.id => q = r
      /\ \A q, r \in table' : q.sc = r.sc => q = r
  BY <1>2 DEF AloneInv
<1>4. \A s \in Centres :
          IF accepted'[s].stands THEN \E r \in RowsOf(s)' : r.flag = accepted'[s].flag
                                 ELSE RowsOf(s)' = {}
  BY <1>1, <1>2 DEF AloneInv
<1>5. Cardinality(table') <= Limit
  <2>1. table' \in SUBSET table
    BY <1>2
  <2>2. IsFiniteSet(table') /\ Cardinality(table') <= Cardinality(table)
    BY <2>1, FS_Subset DEF TableInv
  <2>3. Cardinality(table') \in Nat /\ Cardinality(table) \in Nat
    BY <2>2, FS_CardinalityType DEF TableInv
  <2>4. QED
    BY <2>2, <2>3 DEF AloneInv
<1>6. QED
  BY <1>3, <1>4, <1>5 DEF TableAgrees

LEMMA AloneStep ==
    ASSUME TypeOK, LocalInv, TableInv, ~overlap => AloneInv,
           NEW h \in Handlers, HandlerStep(h), ~overlap'
    PROVE  AloneInv'
<1>1. ~overlap
  <2>1. CASE Quiet
    BY <2>1 DEF Quiet
  <2>2. CASE Store(h)
    BY <2>2, Zenon DEF Store
  <2>3. CASE Clear(h)
    BY <2>3, Zenon DEF Clear
  <2>4. QED
    BY <2>1, <2>2, <2>3, QuietSteps
<1>2. AloneInv
  BY <1>1
<1>3. CASE Quiet
  <2>1. ASSUME NEW g \in Handlers PROVE FreshOK(g)'
    <3>1. CASE g = h
      BY <1>2, <1>3, <3>1, FreshQuiet
    <3>2. CASE g # h
      <4>1. FreshOK(g) /\ table' = table
        BY <1>2, <1>3 DEF AloneInv, FreshInv, Quiet
      <4>2. QED
        BY <3>2, <4>1, OthersStay, FreshFrame
    <3>3. QED
      BY <3>1, <3>2
  <2>2. TableAgrees'
    BY <1>2, <1>3 DEF Quiet, AloneInv, TableAgrees, RowsOf
  <2>3. QED
    BY <2>1, <2>2 DEF AloneInv, FreshInv, TableAgrees
<1>4. CASE Store(h) /\ req[h].kind = "alert"
  <2>1. pc[h] = "store" /\ table' = Stored(h) /\ accepted' = accepted
    BY <1>4 DEF Store
  <2>2. table' = table
    BY <1>2, <1>4, <2>1, AlertStores
  <2>3. ASSUME NEW g \in Handlers PROVE FreshOK(g)'
    <3>1. FreshOK(g)
      BY <1>2 DEF AloneInv, FreshInv
    <3>2. CASE g = h
      <4>1. pc'[h] = "pend" /\ todo'[h] = todo[h]
        BY <1>4 DEF Store, Goto, TypeOK
      <4>2. QED
        BY <2>2, <3>1, <3>2, <4>1, FreshIdle DEF FreshOK
    <3>3. CASE g # h
      BY <2>2, <3>1, <3>3, OthersStay, FreshFrame
    <3>4. QED
      BY <3>2, <3>3
  <2>4. TableAgrees'
    BY <1>2, <2>1, <2>2 DEF AloneInv, TableAgrees, RowsOf
  <2>5. QED
    BY <2>3, <2>4 DEF AloneInv, FreshInv, TableAgrees
<1>5. CASE (Store(h) /\ req[h].kind = "report") \/ Clear(h)
  <2>1. ~OthersReading(h)
    <3>1. CASE Store(h)
      BY <3>1, Zenon DEF Store
    <3>2. CASE Clear(h)
      BY <3>2, Zenon DEF Clear
    <3>3. QED
      BY <1>5, <3>1, <3>2
  <2>2. ASSUME NEW g \in Handlers PROVE FreshOK(g)'
    <3>1. CASE g = h
      <4>1. Finish(h)
        BY <1>5 DEF Store, Clear
      <4>2. pc'[h] = "idle" /\ todo'[h] = {}
        BY <4>1 DEF Finish, Goto, TypeOK
      <4>3. QED
        BY <3>1, <4>2, FreshIdle
    <3>2. CASE g # h
      BY <2>1, <3>2, NotReading
    <3>3. QED
      BY <3>1, <3>2
  <2>3. TableAgrees'
    BY <1>2, <1>5, ReportInserts, ReportUpdates, ClearAgrees
  <2>4. QED
    BY <2>2, <2>3 DEF AloneInv, FreshInv, TableAgrees
<1>6. QED
  <2>1. Store(h) => req[h].kind \in {"report", "alert"}
    BY DEF Store, LocalInv, LocalOK
  <2>2. QED
    BY <1>3, <1>4, <1>5, <2>1, QuietSteps

-----------------------------------------------------------------------------
(***************************************************************************)
(* The theorems.                                                           *)
(***************************************************************************)
LEMMA InitHolds == Init => IInv
<1> SUFFICES ASSUME Init PROVE IInv
  OBVIOUS
<1>1. TypeOK
  <2>1. accepted \in [Centres -> [id : Nat, flag : Flags, stands : BOOLEAN]]
    BY DEF Init, Flags
  <2>2. item \in [Handlers -> Rows \cup {NoRow}] /\ todo \in [Handlers -> SUBSET Rows]
    BY DEF Init
  <2>3. /\ pc \in [Handlers -> PCs] /\ req \in [Handlers -> Request]
        /\ target \in [Handlers -> Nat] /\ cleared \in [Centres -> Nat]
    BY RequestTypes DEF Init, PCs
  <2>4. overlap \in BOOLEAN
    BY DEF Init
  <2>5. QED
    BY <2>1, <2>2, <2>3, <2>4 DEF Init, TypeOK
<1>2. LocalInv
  BY DEF Init, LocalInv, LocalOK, Kind, NoRequest
<1>3. TableInv /\ Cardinality(table) = 0
  BY FS_EmptySet DEF Init, TableInv
<1>4. TargetInv /\ NoWaitingLost
  BY DEF Init, TargetInv, TargetOK, NoWaitingLost
<1>5. AloneInv
  BY <1>3 DEF Init, AloneInv, FreshInv, FreshOK, RowsOf
<1>6. QED
  BY <1>1, <1>2, <1>3, <1>4, <1>5 DEF IInv

\* A restart and a lost answer leave the table alone.
LEMMA OtherSteps ==
    ASSUME IInv, Restart \/ (\E a \in sent : LoseAnswer(a)) \/ UNCHANGED vars
    PROVE  LocalInv' /\ TableInv' /\ TargetInv' /\ NoWaitingLost' /\ (~overlap' => AloneInv')
<1>1. /\ table' = table /\ nextId' = nextId /\ requests' = requests
      /\ accepted' = accepted /\ cleared' = cleared /\ overlap' = overlap
  BY DEF Restart, LoseAnswer, vars, history
<1>2. TableInv' /\ NoWaitingLost'
  BY <1>1 DEF IInv, TableInv, NoWaitingLost, RowsOf
<1>3. CASE Restart
  <2>1. \A g \in Handlers : pc'[g] = "idle" /\ req'[g] = NoRequest /\ todo'[g] = {}
    BY <1>3 DEF Restart
  <2>2. LocalInv' /\ TargetInv'
    BY <2>1 DEF LocalInv, LocalOK, Kind, NoRequest, TargetInv, TargetOK
  <2>3. \A g \in Handlers : FreshOK(g)'
    BY <2>1, FreshIdle
  <2>4. ~overlap => AloneInv'
    BY <1>1, <2>3 DEF IInv, AloneInv, FreshInv, RowsOf
  <2>5. QED
    BY <1>1, <1>2, <2>2, <2>4
<1>4. CASE ~Restart
  <2>1. UNCHANGED locals
    BY <1>4 DEF LoseAnswer, vars, locals
  <2>2. LocalInv' /\ TargetInv'
    BY <1>1, <2>1 DEF IInv, LocalInv, LocalOK, Kind, Released, TargetInv, TargetOK, locals
  <2>3. ASSUME ~overlap, NEW g \in Handlers PROVE FreshOK(g)'
    BY <1>1, <2>1, <2>3, FreshFrame DEF IInv, AloneInv, FreshInv, locals
  <2>4. ~overlap => AloneInv'
    BY <1>1, <2>3 DEF IInv, AloneInv, FreshInv, RowsOf
  <2>5. QED
    BY <1>1, <1>2, <2>2, <2>4
<1>5. QED
  BY <1>3, <1>4

LEMMA StepHolds == IInv /\ [Next]_vars => IInv'
<1> SUFFICES ASSUME IInv, [Next]_vars PROVE IInv'
  OBVIOUS
<1>1. TypeOK'
  BY TypeStep DEF IInv
<1>2. CASE \E h \in Handlers : HandlerStep(h)
  <2>1. PICK h \in Handlers : HandlerStep(h)
    BY <1>2
  <2>2. TypeOK /\ LocalInv /\ TableInv /\ TargetInv /\ NoWaitingLost /\ (~overlap => AloneInv)
    BY DEF IInv
  <2>3. LocalInv'
    <3>1. ASSUME NEW g \in Handlers PROVE LocalOK(g)'
      <4>1. CASE g = h
        BY <2>1, <2>2, <4>1, LocalStep
      <4>2. CASE g # h
        BY <2>1, <2>2, <4>2, OthersStay, LocalFrame DEF LocalInv
      <4>3. QED
        BY <4>1, <4>2
    <3>2. QED
      BY <3>1 DEF LocalInv
  <2>4. TableInv'
    BY <2>1, <2>2, TableStep
  <2>5. TargetInv'
    BY <2>1, <2>2, TargetStep DEF TargetInv
  <2>6. NoWaitingLost'
    BY <2>1, <2>2, WaitingStep
  <2>7. ~overlap' => AloneInv'
    BY <2>1, <2>2, AloneStep
  <2>8. QED
    BY <1>1, <2>3, <2>4, <2>5, <2>6, <2>7 DEF IInv
<1>3. CASE Restart \/ (\E a \in sent : LoseAnswer(a)) \/ UNCHANGED vars
  BY <1>1, <1>3, OtherSteps DEF IInv
<1>4. QED
  BY <1>2, <1>3, NextCases

\* The invariant of SmsWaitingInv holds in every reachable state.
THEOREM Invariance == Spec => []IInv
<1>1. QED
  BY InitHolds, StepHolds, PTL DEF Spec

\* The table, the alerts in flight and the state of the handlers stay well formed.
THEOREM TypeCorrect == Spec => []TypeOK
<1>1. IInv => TypeOK
  BY DEF IInv
<1>2. QED
  BY <1>1, Invariance, PTL

\* A failure report that was answered with success stays on record until its
\* SMS-SC is cleared, whatever the interleaving (rsds.go:158, store.go:655-691).
THEOREM WaitingKept == Spec => []NoWaitingLost
<1>1. IInv => NoWaitingLost
  BY DEF IInv
<1>2. QED
  BY <1>1, Invariance, PTL

\* Records and reports only disagree where a write fell into another request.
THEOREM Agreement == Spec => []RecordsAgree
<1>1. IInv => RecordsAgree
  <2> SUFFICES ASSUME AloneInv, NEW s \in Centres
               PROVE  /\ accepted[s].stands <=> RowsOf(s) # {}
                      /\ \A r \in RowsOf(s) : r.flag = accepted[s].flag /\ RowsOf(s) = {r}
    BY DEF IInv, RecordsAgree
  <2>1. \A q, r \in RowsOf(s) : q = r
    BY DEF AloneInv, RowsOf
  <2>2. IF accepted[s].stands THEN \E r \in RowsOf(s) : r.flag = accepted[s].flag
                              ELSE RowsOf(s) = {}
    BY DEF AloneInv
  <2>3. accepted[s].stands <=> RowsOf(s) # {}
    BY <2>2
  <2>4. \A r \in RowsOf(s) : r.flag = accepted[s].flag /\ RowsOf(s) = {r}
    BY <2>1, <2>2
  <2>5. QED
    BY <2>3, <2>4
<1>2. QED
  BY <1>1, Invariance, PTL

\* Only there does the list grow beyond its limit.
THEOREM Bounded == Spec => []ListBounded
<1>1. IInv => ListBounded
  BY DEF IInv, AloneInv, ListBounded
<1>2. QED
  BY <1>1, Invariance, PTL
=================================================================================
