--------------------------- MODULE AuthVectorsProofs ---------------------------
(***************************************************************************)
(* Proofs about AuthVectors, for every number of handlers, vectors and     *)
(* requests.  The argument: the lock makes the base of an increment the    *)
(* row's own value (LockInv), so that the committed range starts above     *)
(* everything claimed or issued before (CommitClaims); generation stays in *)
(* the claimed range (GenerateIssues); nothing else claims or issues       *)
(* (QuietStep).  The same facts make every step one of the dispenser.      *)
(***************************************************************************)
EXTENDS AuthVectorsInv, TLAPS

USE KindsAssumption, VectorsAssumption, ReportsAssumption, RequestsAssumption,
    PostImageAssumption, HandlersAssumption

-----------------------------------------------------------------------------
(***************************************************************************)
(* Types, locals, the row lock and the numbering of requests.              *)
(***************************************************************************)
\* A handler that returns leaves its locals typed and consistent.
LEMMA FinishStep ==
    ASSUME TypeOK, LocalInv, NEW h \in Handlers, Finish(h)
    PROVE  /\ pc' \in [Handlers -> PCs]
           /\ req' \in [Handlers -> Request]
           /\ copy' \in [Handlers -> Nat \cup {None}]
           /\ base' \in [Handlers -> Nat \cup {None}]
           /\ done' \in [Handlers -> Nat]
           /\ LocalInv'
  BY DEF Finish, Goto, NoRequest, TypeOK, LocalInv, LocalOK, Request, PCs, AllKinds, Width, Authenticating, Publishes, Step, None, Margin, Publishes

\* Every step keeps the types and the meaning of the program counter.
LEMMA LocalStep ==
    ASSUME TypeOK, LocalInv, Next
    PROVE  TypeOK' /\ LocalInv'
<1> USE DEF TypeOK, LocalInv, LocalOK, Request, PCs, AllKinds, Width, Authenticating, Publishes, Step, None, Margin, locals, history
<1>1. ASSUME NEW h \in Handlers, Receive(h) PROVE TypeOK' /\ LocalInv'
  BY <1>1 DEF Receive, Goto, Entry, Asks, Carries
<1>2. ASSUME NEW h \in Handlers, LoadCached(h) PROVE TypeOK' /\ LocalInv'
  <2> USE <1>2 DEF LoadCached, Goto, AfterLoad
  <2>1. TypeOK'
    OBVIOUS
  <2>2. ASSUME NEW k \in Handlers, k # h PROVE LocalOK(k)'
    BY <2>2
  <2>3. LocalOK(h)'
    <3>1. CASE req[h].resync = None
      BY <3>1
    <3>2. CASE req[h].resync # None
      BY <3>2
    <3>3. QED
      BY <3>1, <3>2
  <2>4. QED
    BY <2>1, <2>2, <2>3
<1>3. ASSUME NEW h \in Handlers, LoadRow(h) PROVE TypeOK' /\ LocalInv'
  BY <1>3 DEF LoadRow, Goto
<1>4. ASSUME NEW h \in Handlers, FillCache(h) PROVE TypeOK' /\ LocalInv'
  <2> USE <1>4 DEF FillCache, Goto, AfterLoad
  <2>1. TypeOK'
    OBVIOUS
  <2>2. ASSUME NEW k \in Handlers, k # h PROVE LocalOK(k)'
    BY <2>2
  <2>3. LocalOK(h)'
    <3>1. CASE req[h].resync = None
      BY <3>1
    <3>2. CASE req[h].resync # None
      BY <3>2
    <3>3. QED
      BY <3>1, <3>2
  <2>4. QED
    BY <2>1, <2>2, <2>3
<1>5. ASSUME NEW h \in Handlers, ResyncPurge(h) PROVE TypeOK' /\ LocalInv'
  BY <1>5 DEF ResyncPurge, Goto
<1>6. ASSUME NEW h \in Handlers, ResyncWrite(h) PROVE TypeOK' /\ LocalInv'
  <2>1. req[h].resync \in Nat /\ sqn' \in Nat
    BY <1>6 DEF ResyncWrite, ResyncTarget
  <2>2. CASE req[h].kind \in {"air", "aka"}
    <3>1. req' = [req EXCEPT ![h] = [req[h] EXCEPT !.resync = None]]
      BY <1>6, <2>2 DEF ResyncWrite
    <3>2. [req[h] EXCEPT !.resync = None] \in Request
      BY <2>2
    <3>3. TypeOK'
      <4>1. req' \in [Handlers -> Request] /\ lowered' \in BOOLEAN
        BY <1>6, <3>1, <3>2 DEF ResyncWrite
      <4>2. pc' \in [Handlers -> PCs]
        BY <1>6, <2>2 DEF ResyncWrite, Goto
      <4>3. QED
        BY <1>6, <2>1, <2>2, <4>1, <4>2 DEF ResyncWrite
    <3>4. ASSUME NEW k \in Handlers, k # h PROVE LocalOK(k)'
      BY <1>6, <2>2, <3>1, <3>4 DEF ResyncWrite, Goto
    <3>5. LocalOK(h)'
      BY <1>6, <2>2, <3>1, <3>3 DEF ResyncWrite, Goto
    <3>6. QED
      BY <3>3, <3>4, <3>5
  <2>3. CASE req[h].kind = "geored"
    BY <1>6, <2>1, <2>3, FinishStep DEF ResyncWrite
  <2>4. QED
    BY <1>6, <2>2, <2>3 DEF ResyncWrite
<1>7. ASSUME NEW h \in Handlers, GeoRedCompare(h) PROVE TypeOK' /\ LocalInv'
  <2>1. CASE req[h].resync > sqn
    <3>1. /\ pc[h] = "compare" /\ pc' = [pc EXCEPT ![h] = "resync"]
          /\ UNCHANGED <<req, copy, base, done, sqn, rowLock, cache, history>>
      BY <1>7, <2>1 DEF GeoRedCompare, Goto
    <3>2. TypeOK'
      BY <3>1
    <3>3. LocalOK(h)'
      BY <3>1
    <3>4. ASSUME NEW k \in Handlers, k # h PROVE LocalOK(k)'
      BY <3>1, <3>4
    <3>5. QED
      BY <3>2, <3>3, <3>4
  <2>2. CASE req[h].resync <= sqn
    <3>1. Finish(h)
      BY <1>7, <2>2 DEF GeoRedCompare
    <3>2. QED
      BY <1>7, <3>1, FinishStep DEF GeoRedCompare
  <2>3. QED
    BY <1>7, <2>1, <2>2 DEF GeoRedCompare
<1>8. ASSUME NEW h \in Handlers, LockRow(h) PROVE TypeOK' /\ LocalInv'
  BY <1>8 DEF LockRow, Goto
<1>9. ASSUME NEW h \in Handlers, CommitIncrement(h) PROVE TypeOK' /\ LocalInv'
  BY <1>9 DEF CommitIncrement, ReturnedSqn, Goto
<1>10. ASSUME NEW h \in Handlers, PurgeCache(h) PROVE TypeOK' /\ LocalInv'
  BY <1>10 DEF PurgeCache, Goto
<1>11. ASSUME NEW h \in Handlers, Generate(h) PROVE TypeOK' /\ LocalInv'
  <2>1. issued' \subseteq Vector
    BY <1>11 DEF Generate, Claimed, Vector
  <2>2. CASE Finish(h)
    BY <1>11, <2>1, <2>2, FinishStep DEF Generate
  <2>3. CASE ~Finish(h)
    <3>1. TypeOK'
      <4>1. done[h] + Width(h) \in Nat
        OBVIOUS
      <4>2. pc' \in [Handlers -> PCs] /\ done' \in [Handlers -> Nat]
        BY <1>11, <2>3, <4>1 DEF Generate, Goto
      <4>3. QED
        BY <1>11, <2>1, <2>3, <4>2 DEF Generate
    <3>2. ASSUME NEW k \in Handlers, k # h PROVE LocalOK(k)'
      BY <1>11, <2>3, <3>2 DEF Generate, Goto
    <3>3. LocalOK(h)'
      <4>1. CASE done[h] + Width(h) < req[h].n
        BY <1>11, <2>3, <4>1 DEF Generate, Goto
      <4>2. CASE done[h] + Width(h) >= req[h].n
        BY <1>11, <2>3, <4>2 DEF Generate, Goto
      <4>3. QED
        BY <4>1, <4>2
    <3>4. QED
      BY <3>1, <3>2, <3>3
  <2>4. QED
    BY <2>2, <2>3
<1>12. ASSUME NEW h \in Handlers, Publish(h) PROVE TypeOK' /\ LocalInv'
  BY <1>12 DEF Publish, Goto, Finish, NoRequest, Event
<1>13. ASSUME NEW h \in Handlers, ApiRead(h) PROVE TypeOK' /\ LocalInv'
  BY <1>13 DEF ApiRead, Goto
<1>14. ASSUME NEW h \in Handlers, ApiSave(h) PROVE TypeOK' /\ LocalInv'
  BY <1>14 DEF ApiSave, Goto, Finish, NoRequest
<1>15. ASSUME NEW h \in Handlers, Fail(h) PROVE TypeOK' /\ LocalInv'
  BY <1>15 DEF Fail, Goto, Finish, NoRequest
<1>16. CASE CacheExpire
  BY <1>16 DEF CacheExpire
<1>17. CASE Restart
  BY <1>17 DEF Restart, NoRequest
<1>18. QED
  BY <1>1, <1>2, <1>3, <1>4, <1>5, <1>6, <1>7, <1>8, <1>9, <1>10, <1>11, <1>12,
     <1>13, <1>14, <1>15, <1>16, <1>17 DEF Next

\* Every step keeps the row lock with the one transaction in progress, and the
\* row as that transaction read it.
LEMMA LockStep ==
    ASSUME TypeOK, LocalInv, LockInv, Next
    PROVE  LockInv'
<1> USE DEF LockInv, TypeOK, LocalInv, LocalOK, Request, PCs, AllKinds, Width, Authenticating, Publishes, Step, None, Margin, locals, history
<1>1. ASSUME NEW h \in Handlers, Receive(h) PROVE LockInv'
  BY <1>1 DEF Receive, Goto, Entry, Asks, Carries
<1>2. ASSUME NEW h \in Handlers, LoadCached(h) PROVE LockInv'
  BY <1>2 DEF LoadCached, Goto, AfterLoad
<1>3. ASSUME NEW h \in Handlers, LoadRow(h) PROVE LockInv'
  BY <1>3 DEF LoadRow, Goto
<1>4. ASSUME NEW h \in Handlers, FillCache(h) PROVE LockInv'
  BY <1>4 DEF FillCache, Goto, AfterLoad
<1>5. ASSUME NEW h \in Handlers, ResyncPurge(h) PROVE LockInv'
  BY <1>5 DEF ResyncPurge, Goto
<1>6. ASSUME NEW h \in Handlers, ResyncWrite(h) PROVE LockInv'
  BY <1>6 DEF ResyncWrite, ResyncTarget, Goto, Finish, NoRequest
<1>7. ASSUME NEW h \in Handlers, GeoRedCompare(h) PROVE LockInv'
  BY <1>7 DEF GeoRedCompare, Goto, Finish, NoRequest
<1>8. ASSUME NEW h \in Handlers, LockRow(h) PROVE LockInv'
  BY <1>8 DEF LockRow, Goto
<1>9. ASSUME NEW h \in Handlers, CommitIncrement(h) PROVE LockInv'
  BY <1>9 DEF CommitIncrement, ReturnedSqn, Goto
<1>10. ASSUME NEW h \in Handlers, PurgeCache(h) PROVE LockInv'
  BY <1>10 DEF PurgeCache, Goto
<1>11. ASSUME NEW h \in Handlers, Generate(h) PROVE LockInv'
  BY <1>11 DEF Generate, Claimed, Goto, Finish, NoRequest, Vector
<1>12. ASSUME NEW h \in Handlers, Publish(h) PROVE LockInv'
  BY <1>12 DEF Publish, Goto, Finish, NoRequest, Event
<1>13. ASSUME NEW h \in Handlers, ApiRead(h) PROVE LockInv'
  BY <1>13 DEF ApiRead, Goto
<1>14. ASSUME NEW h \in Handlers, ApiSave(h) PROVE LockInv'
  BY <1>14 DEF ApiSave, Goto, Finish, NoRequest
<1>15. ASSUME NEW h \in Handlers, Fail(h) PROVE LockInv'
  BY <1>15 DEF Fail, Goto, Finish, NoRequest
<1>16. CASE CacheExpire
  BY <1>16 DEF CacheExpire
<1>17. CASE Restart
  BY <1>17 DEF Restart, NoRequest
<1>18. QED
  BY <1>1, <1>2, <1>3, <1>4, <1>5, <1>6, <1>7, <1>8, <1>9, <1>10, <1>11, <1>12,
     <1>13, <1>14, <1>15, <1>16, <1>17 DEF Next

\* A handler that returns frees its request's number.
LEMMA FinishRequest ==
    ASSUME TypeOK, RequestInv, NEW h \in Handlers, Finish(h),
           UNCHANGED <<requests, issued>>
    PROVE  RequestInv'
  BY DEF Finish, Goto, NoRequest, RequestInv, TypeOK, Request, PCs

\* Every step keeps the requests numbered apart.
LEMMA RequestStep ==
    ASSUME TypeOK, LocalInv, RequestInv, Next
    PROVE  RequestInv'
<1> USE DEF RequestInv, TypeOK, Vector, Request, PCs, AllKinds, locals, history
<1>1. ASSUME NEW h \in Handlers, Receive(h) PROVE RequestInv'
  <2>1. PICK kind \in Kinds : \E n \in Asks(kind), r \in Carries(kind) :
          /\ req' = [req EXCEPT ![h] =
                        [id |-> requests', kind |-> kind, n |-> n, resync |-> r]]
          /\ Goto(h, Entry(kind))
    BY <1>1 DEF Receive
  <2>2. /\ req'[h].id = requests + 1
        /\ \A k \in Handlers : k # h => req'[k] = req[k] /\ pc'[k] = pc[k]
    BY <1>1, <2>1 DEF Receive, Goto
  <2>3. pc'[h] # "idle"
    BY <2>1 DEF Goto, Entry
  <2>4. requests' = requests + 1 /\ done' = done /\ issued' = issued
    BY <1>1 DEF Receive
  <2>5. \A k \in Handlers : req'[k].id <= requests' /\ (pc'[k] # "idle" => req'[k].id >= 1)
    BY <2>2, <2>4
  <2>6. \A k \in Handlers : pc'[k] = "idle" => req'[k].id = 0
    BY <2>2, <2>3
  <2>7. \A g, k \in Handlers : g # k /\ pc'[g] # "idle" => req'[g].id # req'[k].id
    BY <2>2, <2>4
  <2>8. \A v \in issued : v.id # requests + 1 /\ 1 <= v.id /\ v.id <= requests + 1
    OBVIOUS
  <2>9. \A v \in issued, k \in Handlers : v.id = req'[k].id => v.item < done[k]
    BY <2>2, <2>8
  <2>10. QED
    BY <2>4, <2>5, <2>6, <2>7, <2>8, <2>9 DEF RequestInv
<1>2. ASSUME NEW h \in Handlers, LoadCached(h) PROVE RequestInv'
  BY <1>2 DEF LoadCached, Goto, AfterLoad
<1>3. ASSUME NEW h \in Handlers, LoadRow(h) PROVE RequestInv'
  BY <1>3 DEF LoadRow, Goto
<1>4. ASSUME NEW h \in Handlers, FillCache(h) PROVE RequestInv'
  BY <1>4 DEF FillCache, Goto, AfterLoad
<1>5. ASSUME NEW h \in Handlers, ResyncPurge(h) PROVE RequestInv'
  BY <1>5 DEF ResyncPurge, Goto
<1>6. ASSUME NEW h \in Handlers, ResyncWrite(h) PROVE RequestInv'
  <2>1. CASE Finish(h)
    BY <1>6, <2>1, FinishRequest DEF ResyncWrite
  <2>2. CASE ~Finish(h)
    <3>1. /\ req' = [req EXCEPT ![h].resync = None]
          /\ Goto(h, IF req[h].kind = "air" THEN "load" ELSE "lock")
          /\ pc[h] = "rewrite"
          /\ done' = done /\ requests' = requests /\ issued' = issued
      BY <1>6, <2>2 DEF ResyncWrite
    <3>2. /\ \A k \in Handlers : req'[k].id = req[k].id
          /\ \A k \in Handlers : pc'[k] = "idle" <=> pc[k] = "idle"
      BY <3>1 DEF Goto
    <3>3. QED
      BY <3>1, <3>2
  <2>3. QED
    BY <2>1, <2>2
<1>7. ASSUME NEW h \in Handlers, GeoRedCompare(h) PROVE RequestInv'
  <2>1. CASE Finish(h)
    BY <1>7, <2>1, FinishRequest DEF GeoRedCompare
  <2>2. CASE ~Finish(h)
    BY <1>7, <2>2 DEF GeoRedCompare, Goto
  <2>3. QED
    BY <2>1, <2>2
<1>8. ASSUME NEW h \in Handlers, LockRow(h) PROVE RequestInv'
  BY <1>8 DEF LockRow, Goto
<1>9. ASSUME NEW h \in Handlers, CommitIncrement(h) PROVE RequestInv'
  BY <1>9 DEF CommitIncrement, ReturnedSqn, Goto
<1>10. ASSUME NEW h \in Handlers, PurgeCache(h) PROVE RequestInv'
  BY <1>10 DEF PurgeCache, Goto
<1>11. ASSUME NEW h \in Handlers, Generate(h) PROVE RequestInv'
  <2>1. /\ issued' = issued \cup Claimed(h) /\ requests' = requests
        /\ pc[h] = "generate"
    BY <1>11 DEF Generate
  <2>2. \A v \in Claimed(h) : v.id = req[h].id /\ v.item < done[h] + Width(h)
    BY <2>1 DEF Claimed, LocalInv, LocalOK, Width
  <2>3. CASE Finish(h)
    <3>1. /\ pc'[h] = "idle" /\ req'[h].id = 0
          /\ \A k \in Handlers : k # h => req'[k] = req[k] /\ pc'[k] = pc[k] /\ done'[k] = done[k]
      BY <2>3 DEF Finish, Goto, NoRequest
    <3>2. \A v \in issued' : 1 <= v.id /\ v.id <= requests
      BY <2>1, <2>2
    <3>3. \A v \in issued', k \in Handlers : v.id = req'[k].id => v.item < done'[k]
      BY <2>1, <2>2, <3>1, <3>2
    <3>4. /\ \A k \in Handlers : req'[k].id <= requests /\ (pc'[k] # "idle" => req'[k].id >= 1)
          /\ \A k \in Handlers : pc'[k] = "idle" => req'[k].id = 0
      BY <3>1
    <3>5. \A g, k \in Handlers : g # k /\ pc'[g] # "idle" => req'[g].id # req'[k].id
      BY <3>1, <3>4
    <3>6. QED
      BY <2>1, <3>2, <3>3, <3>4, <3>5
  <2>4. CASE ~Finish(h)
    <3>1. /\ req' = req /\ pc'[h] # "idle" /\ done'[h] = done[h] + Width(h)
          /\ \A k \in Handlers : k # h => pc'[k] = pc[k] /\ done'[k] = done[k]
      BY <1>11, <2>4 DEF Generate, Goto
    <3>2. Width(h) \in Nat
      BY DEF Width
    <3>3. \A v \in issued' : 1 <= v.id /\ v.id <= requests
      BY <2>1, <2>2
    <3>4. \A v \in issued', k \in Handlers : v.id = req'[k].id => v.item < done'[k]
      BY <2>1, <2>2, <3>1, <3>2
    <3>5. QED
      BY <2>1, <3>1, <3>3, <3>4
  <2>5. QED
    BY <2>3, <2>4
<1>12. ASSUME NEW h \in Handlers, Publish(h) PROVE RequestInv'
  BY <1>12, FinishRequest DEF Publish
<1>13. ASSUME NEW h \in Handlers, ApiRead(h) PROVE RequestInv'
  BY <1>13 DEF ApiRead, Goto
<1>14. ASSUME NEW h \in Handlers, ApiSave(h) PROVE RequestInv'
  BY <1>14, FinishRequest DEF ApiSave
<1>15. ASSUME NEW h \in Handlers, Fail(h) PROVE RequestInv'
  BY <1>15, FinishRequest DEF Fail
<1>16. CASE CacheExpire
  BY <1>16 DEF CacheExpire
<1>17. CASE Restart
  BY <1>17 DEF Restart, NoRequest
<1>18. QED
  BY <1>1, <1>2, <1>3, <1>4, <1>5, <1>6, <1>7, <1>8, <1>9, <1>10, <1>11, <1>12,
     <1>13, <1>14, <1>15, <1>16, <1>17 DEF Next

-----------------------------------------------------------------------------
(***************************************************************************)
(* SQN values: what is claimed, issued and published.                      *)
(***************************************************************************)
\* An increment is for at least one vector.
LEMMA WidthFacts ==
    ASSUME TypeOK, NEW h \in Handlers
    PROVE  Width(h) \in Nat /\ Width(h) >= 1
  BY DEF TypeOK, Request, Width, AllKinds

\* The higher the row, the higher the SQN it hands out next.
LEMMA NextFromMonotone ==
    ASSUME NEW x \in Nat, NEW y \in Nat
    PROVE  /\ NextFrom(x) \in Nat /\ NextFrom(y) \in Nat
           /\ x <= y => NextFrom(x) <= NextFrom(y)
           /\ x < y => NextFrom(x) < NextFrom(y)
  BY DEF NextFrom, Step

\* The vectors of an increment lie in the claimed range, one SQN each, ascending
\* in the order of the answer.
LEMMA ClaimedFacts ==
    ASSUME TypeOK, LocalInv, NEW h \in Handlers, pc[h] = "generate"
    PROVE  /\ \A v \in Claimed(h) :
                /\ v.id = req[h].id
                /\ done[h] <= v.item
                /\ First(h) <= v.sqn /\ v.sqn <= Last(h)
                /\ v.sqn \in Nat /\ v.item \in Nat
           /\ \A v, w \in Claimed(h) :
                /\ v.sqn = w.sqn => v = w
                /\ v.item < w.item => v.sqn < w.sqn
<1>1. base[h] \in Nat /\ done[h] \in Nat /\ Width(h) \in Nat
  BY WidthFacts DEF TypeOK, LocalInv, LocalOK
<1>2. \A i, j \in 0 .. Width(h) - 1 : base[h] + i * Step = base[h] + j * Step => i = j
  BY <1>1 DEF Step
<1>3. \A i, j \in 0 .. Width(h) - 1 : done[h] + i < done[h] + j => base[h] + i * Step < base[h] + j * Step
  BY <1>1 DEF Step
<1>4. \A i \in 0 .. Width(h) - 1 :
        /\ base[h] + i * Step \in Nat /\ done[h] + i \in Nat
        /\ base[h] <= base[h] + i * Step
        /\ done[h] <= done[h] + i
        /\ base[h] + i * Step <= base[h] + (Width(h) - 1) * Step
  BY <1>1 DEF Step
<1>5. QED
  BY <1>2, <1>3, <1>4 DEF Claimed, First, Last

\* A step that commits no increment and generates no vector keeps what was claimed
\* and what was issued apart.
LEMMA QuietStep ==
    ASSUME TypeOK, NoSqnReuse, \A v \in issued : v.sqn < NextFrom(sqn), ClaimInv,
           sqn' \in Nat, sqn' >= sqn, issued' = issued,
           \A k \in Handlers : Claiming(k)' => 
              Claiming(k) /\ base'[k] = base[k] /\ req'[k] = req[k]
    PROVE  NoSqnReuse' /\ (\A v \in issued : v.sqn < NextFrom(sqn))' /\ ClaimInv'
<1>1. NextFrom(sqn) \in Int /\ NextFrom(sqn)' \in Int /\ NextFrom(sqn)' >= NextFrom(sqn)
  <2>1. sqn \in Nat
    BY DEF TypeOK
  <2>2. sqn' \in Nat /\ sqn' >= sqn
    OBVIOUS
  <2>3. NextFrom(sqn') = NextFrom(sqn)'
    BY DEF NextFrom
  <2>4. QED
    BY <2>1, <2>2, <2>3, NextFromMonotone
<1>2. \A v \in issued : v.sqn \in Int
  BY DEF TypeOK, Vector
<1>3. \A k \in Handlers : Claiming(k)' => First(k)' = First(k) /\ Last(k)' = Last(k)
  BY DEF First, Last, Width
<1>4. \A k \in Handlers : First(k) \in Int /\ Last(k) \in Int
  BY WidthFacts DEF First, Last, TypeOK, None, Step
<1>5. QED
  <2>1. NoSqnReuse'
    BY DEF NoSqnReuse
  <2>2. (\A v \in issued : v.sqn < NextFrom(sqn))'
    BY <1>1, <1>2
  <2>3. \A k \in Handlers : Claiming(k)' => Last(k)' < NextFrom(sqn)'
    BY <1>1, <1>3, <1>4 DEF ClaimInv
  <2>4. \A g, k \in Handlers :
          g # k /\ Claiming(g)' /\ Claiming(k)' => Last(g)' < First(k)' \/ Last(k)' < First(g)'
    BY <1>3 DEF ClaimInv
  <2>5. \A v \in issued', k \in Handlers :
          Claiming(k)' => v.sqn < First(k)' \/ (Last(k)' < v.sqn /\ v.id # req'[k].id)
    BY <1>3 DEF ClaimInv
  <2>6. QED
    BY <2>1, <2>2, <2>3, <2>4, <2>5 DEF ClaimInv

\* An increment claims a range above everything claimed or issued before: the row
\* lock (LockInv) makes the base it returns the row's own value.
LEMMA CommitClaims ==
    ASSUME ReturnsFreshRange, TypeOK, LocalInv, LockInv, NoSqnReuse,
           \A v \in issued : v.sqn < NextFrom(sqn), ClaimInv,
           NEW h \in Handlers, CommitIncrement(h)
    PROVE  NoSqnReuse' /\ (\A v \in issued : v.sqn < NextFrom(sqn))' /\ ClaimInv' /\ sqn' >= sqn
<1>1. /\ base[h] = sqn /\ pc[h] = "locked" /\ sqn \in Nat
      /\ Width(h) \in Nat /\ Width(h) >= 1 /\ (PostImage => Width(h) = 1)
  BY WidthFacts DEF CommitIncrement, LockInv, TypeOK, Request, LocalInv, LocalOK, Width,
     ReturnsFreshRange
<1>2. /\ sqn' = sqn + Width(h) * Step
      /\ base'[h] = ReturnedSqn(sqn, Width(h) * Step)
      /\ req' = req /\ issued' = issued
      /\ \A k \in Handlers : k # h => pc'[k] = pc[k] /\ base'[k] = base[k]
  BY <1>1 DEF CommitIncrement, Goto, TypeOK, history
<1>3. NextFrom(sqn) \in Int /\ NextFrom(sqn)' \in Int /\ NextFrom(sqn)' > NextFrom(sqn) /\ sqn' >= sqn
  BY <1>1, <1>2 DEF NextFrom, Step
<1>4. First(h)' >= NextFrom(sqn) /\ Last(h)' < NextFrom(sqn)' /\ First(h)' \in Int /\ Last(h)' \in Int
  <2>1. First(h)' = base'[h] /\ Last(h)' = base'[h] + (Width(h) - 1) * Step
    BY <1>2 DEF First, Last, Width
  <2>2. CASE PostImage
    BY <1>1, <1>2, <2>1, <2>2 DEF ReturnedSqn, NextFrom, Step
  <2>3. CASE ~PostImage
    BY <1>1, <1>2, <2>1, <2>3 DEF ReturnedSqn, NextFrom, Step
  <2>4. QED
    BY <2>2, <2>3
<1>5. \A v \in issued : v.sqn \in Int /\ v.sqn < First(h)'
  BY <1>3, <1>4 DEF TypeOK, Vector
<1>6. \A k \in Handlers : k # h =>
         /\ Claiming(k)' <=> Claiming(k)
         /\ First(k)' = First(k) /\ Last(k)' = Last(k)
         /\ First(k) \in Int /\ Last(k) \in Int
  BY <1>2, WidthFacts DEF Claiming, First, Last, Width, TypeOK, Step, None
<1>7. \A k \in Handlers : k # h /\ Claiming(k)' => Last(k)' < First(h)' /\ Last(k)' < NextFrom(sqn)'
  BY <1>3, <1>4, <1>6 DEF ClaimInv
<1>8. NoSqnReuse' /\ (\A v \in issued : v.sqn < NextFrom(sqn))'
  BY <1>2, <1>3, <1>5 DEF NoSqnReuse
<1>9. \A k \in Handlers : Claiming(k)' => Last(k)' < NextFrom(sqn)'
  BY <1>4, <1>7
<1>10. \A g, k \in Handlers :
          g # k /\ Claiming(g)' /\ Claiming(k)' => Last(g)' < First(k)' \/ Last(k)' < First(g)'
  BY <1>6, <1>7 DEF ClaimInv
<1>11. \A v \in issued', k \in Handlers :
          Claiming(k)' => v.sqn < First(k)' \/ (Last(k)' < v.sqn /\ v.id # req'[k].id)
  BY <1>2, <1>5, <1>6 DEF ClaimInv
<1>12. QED
  BY <1>3, <1>8, <1>9, <1>10, <1>11 DEF ClaimInv

\* Generating from a claimed range repeats no SQN, and keeps the vectors of one
\* request in ascending order.
LEMMA GenerateIssues ==
    ASSUME TypeOK, LocalInv, RequestInv, NoSqnReuse,
           \A v \in issued : v.sqn < NextFrom(sqn), ClaimInv, TuplesAscend, ~lowered,
           NEW h \in Handlers, Generate(h)
    PROVE  NoSqnReuse' /\ (\A v \in issued : v.sqn < NextFrom(sqn))' /\ ClaimInv' /\ TuplesAscend'
<1>1. pc[h] = "generate" /\ issued' = issued \cup Claimed(h) /\ sqn' = sqn /\ ~lowered'
  BY DEF Generate
<1>2. ~Claiming(h)' /\ Claiming(h)
  BY <1>1 DEF Generate, Goto, Finish, Claiming, TypeOK
<1>3. \A k \in Handlers : k # h =>
         pc'[k] = pc[k] /\ base'[k] = base[k] /\ req'[k] = req[k]
  BY DEF Generate, Goto, Finish, TypeOK
<1>4. \A k \in Handlers :
         /\ k # h => (Claiming(k)' <=> Claiming(k)) /\ First(k)' = First(k) /\ Last(k)' = Last(k)
         /\ First(k) \in Int /\ Last(k) \in Int
  BY <1>3, WidthFacts DEF Claiming, First, Last, Width, TypeOK, Step, None
<1>5. NextFrom(sqn) \in Int /\ NextFrom(sqn)' = NextFrom(sqn)
  BY <1>1 DEF NextFrom, TypeOK, Step
<1>6. /\ \A v \in Claimed(h) :
           /\ v.id = req[h].id
           /\ done[h] <= v.item
           /\ First(h) <= v.sqn /\ v.sqn <= Last(h)
           /\ v.sqn \in Nat /\ v.item \in Nat
      /\ \A v, w \in Claimed(h) :
           /\ v.sqn = w.sqn => v = w
           /\ v.item < w.item => v.sqn < w.sqn
  BY <1>1, ClaimedFacts
<1>7. \A v \in issued : v.sqn \in Nat /\ v.item \in Nat
  BY DEF TypeOK, Vector
<1>8. NoSqnReuse'
  <2>1. \A v \in issued, w \in Claimed(h) : v.sqn # w.sqn
    BY <1>2, <1>4, <1>6, <1>7 DEF ClaimInv
  <2>2. QED
    BY <1>1, <1>6, <2>1 DEF NoSqnReuse
<1>9. (\A v \in issued : v.sqn < NextFrom(sqn))'
  <2>1. \A w \in Claimed(h) : w.sqn < NextFrom(sqn)
    BY <1>2, <1>4, <1>5, <1>6 DEF ClaimInv
  <2>2. QED
    BY <1>1, <1>5, <2>1
<1>10. ClaimInv'
  <2>1. \A k \in Handlers : Claiming(k)' => Last(k)' < NextFrom(sqn)'
    BY <1>2, <1>4, <1>5 DEF ClaimInv
  <2>2. \A g, k \in Handlers :
          g # k /\ Claiming(g)' /\ Claiming(k)' => Last(g)' < First(k)' \/ Last(k)' < First(g)'
    BY <1>2, <1>4 DEF ClaimInv
  <2>3. \A v \in Claimed(h), k \in Handlers :
          k # h /\ Claiming(k) => v.sqn < First(k) \/ (Last(k) < v.sqn /\ v.id # req[k].id)
    <3>1. \A k \in Handlers : k # h => req[k].id # req[h].id
      BY <1>1 DEF RequestInv
    <3>2. QED
      BY <1>2, <1>4, <1>6, <3>1 DEF ClaimInv
  <2>4. \A v \in issued', k \in Handlers :
          Claiming(k)' => v.sqn < First(k)' \/ (Last(k)' < v.sqn /\ v.id # req'[k].id)
    BY <1>1, <1>2, <1>3, <1>4, <2>3 DEF ClaimInv
  <2>5. QED
    BY <2>1, <2>2, <2>4 DEF ClaimInv
<1>11. TuplesAscend'
  <2>1. \A v \in issued, w \in Claimed(h) :
          v.id = w.id => v.sqn < w.sqn /\ v.item < w.item
    <3>1. \A v \in issued : v.id = req[h].id => v.sqn < First(h) /\ v.item < done[h]
      BY <1>2 DEF ClaimInv, RequestInv
    <3>2. QED
      BY <1>4, <1>6, <1>7, <3>1 DEF TypeOK
  <2>2. \A v, w \in issued : v.id = w.id /\ v.item < w.item => v.sqn < w.sqn
    BY DEF TuplesAscend
  <2>3. \A v, w \in issued' : v.id = w.id /\ v.item < w.item => v.sqn < w.sqn
    BY <1>1, <1>6, <1>7, <2>1, <2>2
  <2>4. QED
    BY <2>3 DEF TuplesAscend
<1>12. QED
  BY <1>8, <1>9, <1>10, <1>11

\* A step that does not set `lowered' has not moved the row backwards.
LEMMA RowRises ==
    ASSUME TypeOK, LocalInv, LockInv, Next, ~lowered'
    PROVE  ~lowered /\ sqn' >= sqn
<1>1. ASSUME NEW h \in Handlers, ResyncWrite(h) PROVE ~lowered /\ sqn' >= sqn
  <2>1. sqn' \in Nat
    BY <1>1 DEF ResyncWrite, ResyncTarget, LocalInv, LocalOK, TypeOK, Margin
  <2>2. lowered' = (lowered \/ sqn' < sqn)
    BY <1>1 DEF ResyncWrite
  <2>3. ~lowered /\ ~(sqn' < sqn)
    BY <2>2, Zenon
  <2>4. QED
    BY <2>1, <2>3 DEF TypeOK
<1>2. ASSUME NEW h \in Handlers, CommitIncrement(h) PROVE ~lowered /\ sqn' >= sqn
  <2>1. Width(h) \in Nat /\ base[h] = sqn
    BY <1>2, WidthFacts DEF CommitIncrement, LockInv
  <2>2. QED
    BY <1>2, <2>1 DEF CommitIncrement, TypeOK, Step, history
<1>3. ASSUME NEW h \in Handlers, ApiSave(h) PROVE ~lowered /\ sqn' >= sqn
  <2>1. sqn' \in Nat
    BY <1>3 DEF ApiSave, TypeOK, LocalInv, LocalOK
  <2>2. lowered' = (lowered \/ sqn' < sqn)
    BY <1>3 DEF ApiSave
  <2>3. ~lowered /\ ~(sqn' < sqn)
    BY <2>2, Zenon
  <2>4. QED
    BY <2>1, <2>3 DEF TypeOK
<1>4. CASE UNCHANGED <<sqn, lowered>>
  BY <1>4 DEF TypeOK
<1>5. QED
  BY <1>1, <1>2, <1>3, <1>4 DEF Next, Receive, LoadCached, LoadRow, FillCache,
     ResyncPurge, GeoRedCompare, LockRow, PurgeCache, Generate, Publish, ApiRead,
     Fail, CacheExpire, Restart, history

\* What a handler has committed, by cases.
LEMMA CommittedFacts ==
    ASSUME NEW h \in Handlers, done[h] \in Nat, Width(h) \in Nat
    PROVE  /\ Claiming(h)  => Committed(h) = done[h] * Step + Width(h) * Step
           /\ ~Claiming(h) => Committed(h) = done[h] * Step
  BY DEF Committed, Step

\* The same after the step.
LEMMA CommittedFactsNext ==
    ASSUME NEW h \in Handlers, done'[h] \in Nat, Width(h)' \in Nat
    PROVE  /\ Claiming(h)'  => Committed(h)' = done'[h] * Step + Width(h)' * Step
           /\ ~Claiming(h)' => Committed(h)' = done'[h] * Step
  BY DEF Committed, Step

\* What a handler has committed is unchanged when its locals are.
LEMMA CopyFrame ==
    ASSUME TypeOK, CopyInv, sqn' \in Nat, sqn' >= sqn, NEW k \in Handlers,
           pc'[k] = pc[k], req'[k] = req[k], copy'[k] = copy[k], done'[k] = done[k]
    PROVE  (copy[k] + Committed(k) <= sqn)'
<1>1. Committed(k)' = Committed(k) /\ Committed(k) \in Nat
  BY WidthFacts DEF Committed, Claiming, Width, Step, TypeOK
<1>2. copy[k] \in Int /\ sqn \in Nat
  BY DEF TypeOK, None
<1>3. QED
  BY <1>1, <1>2 DEF CopyInv

\* A handler that returns bounds nothing any more.
LEMMA FinishCopy ==
    ASSUME TypeOK, CopyInv, sqn' \in Nat, sqn' >= sqn, cache' <= sqn', NEW h \in Handlers, Finish(h)
    PROVE  CopyInv'
<1>1. ASSUME NEW k \in Handlers, k # h PROVE (copy[k] + Committed(k) <= sqn)'
  BY <1>1, CopyFrame DEF Finish, Goto, TypeOK
<1>2. (copy[h] + Committed(h) <= sqn)'
  BY DEF Finish, Goto, TypeOK, Committed, Claiming, None, Step
<1>3. QED
  BY <1>1, <1>2 DEF CopyInv

\* When only handler h moves, its own bound is all that is left to show.
LEMMA MoveCopy ==
    ASSUME TypeOK, CopyInv, sqn' \in Nat, sqn' >= sqn, cache' <= sqn', NEW h \in Handlers,
           \A k \in Handlers : k # h =>
              pc'[k] = pc[k] /\ req'[k] = req[k] /\ copy'[k] = copy[k] /\ done'[k] = done[k],
           (copy[h] + Committed(h) <= sqn)'
    PROVE  CopyInv'
  BY CopyFrame DEF CopyInv

\* The SQN a request loaded, plus the increments it has committed, never passes the
\* row; what it publishes is that sum.
LEMMA CopyStep ==
    ASSUME TypeOK, LocalInv, LockInv, CopyInv, PublishedNotAhead, Next,
           TypeOK', sqn' >= sqn, ~lowered, ~lowered'
    PROVE  CopyInv' /\ PublishedNotAhead'
<1>0. /\ sqn \in Nat /\ sqn' \in Nat /\ cache \in Int /\ cache <= sqn
      /\ \A k \in Handlers : /\ copy[k] \in Int /\ done[k] \in Nat /\ Width(k) \in Nat
                             /\ copy[k] + Committed(k) <= sqn
      /\ \A k \in Handlers : done'[k] \in Nat /\ Width(k)' \in Nat /\ copy'[k] \in Int
  BY WidthFacts DEF TypeOK, CopyInv, None, Width, Request, AllKinds
<1>1. PublishedNotAhead' \/ \E h \in Handlers : Publish(h)
  BY <1>0 DEF PublishedNotAhead, TypeOK, Event, Next, Receive, LoadCached, LoadRow,
     FillCache, ResyncPurge, ResyncWrite, GeoRedCompare, LockRow, CommitIncrement,
     PurgeCache, Generate, ApiRead, ApiSave, Fail, CacheExpire, Restart, history
<1>2. ASSUME NEW h \in Handlers,
             \/ Receive(h) \/ LoadCached(h) \/ LoadRow(h) \/ FillCache(h)
             \/ ResyncPurge(h) \/ LockRow(h) \/ PurgeCache(h) \/ ApiRead(h)
      PROVE  CopyInv'
  <2>1. /\ ~Claiming(h) => done[h] = 0 \/ copy'[h] = copy[h]
        /\ ~Claiming(h)' \/ (Claiming(h) /\ copy'[h] = copy[h])
        /\ done'[h] = done[h]
        /\ Width(h)' = Width(h) \/ ~Claiming(h)'
    BY <1>2 DEF Receive, LoadCached, LoadRow, FillCache, ResyncPurge, LockRow, PurgeCache,
       ApiRead, Goto, Entry, AfterLoad, Claiming, Width, TypeOK, LocalInv, LocalOK
  <2>2. copy'[h] = copy[h] \/ (copy'[h] <= sqn /\ done[h] = 0)
    BY <1>0, <1>2 DEF Receive, LoadCached, LoadRow, FillCache, ResyncPurge, LockRow, PurgeCache,
       ApiRead, TypeOK, LocalInv, LocalOK
  <2>3. (copy[h] + Committed(h) <= sqn)'
    BY <1>0, <2>1, <2>2, CommittedFacts, CommittedFactsNext DEF Step
  <2>4. cache' <= sqn'
    BY <1>0, <1>2, <1>0 DEF Receive, LoadCached, LoadRow, FillCache, ResyncPurge, LockRow,
       PurgeCache, ApiRead, None, Committed, Claiming, Step, LocalInv, LocalOK, TypeOK
  <2>5. \A k \in Handlers : k # h =>
           pc'[k] = pc[k] /\ req'[k] = req[k] /\ copy'[k] = copy[k] /\ done'[k] = done[k]
    BY <1>2 DEF Receive, LoadCached, LoadRow, FillCache, ResyncPurge, LockRow, PurgeCache,
       ApiRead, Goto, TypeOK
  <2>6. QED
    BY <1>0, <2>3, <2>4, <2>5, MoveCopy
<1>3. ASSUME NEW h \in Handlers, ResyncWrite(h) PROVE CopyInv'
  <2>1. cache' <= sqn'
    BY <1>0, <1>3 DEF ResyncWrite
  <2>2. CASE Finish(h)
    BY <1>0, <2>1, <2>2, FinishCopy
  <2>3. CASE ~Finish(h)
    <3>1. /\ done' = done /\ done[h] = 0 /\ copy' = copy /\ ~Claiming(h)' /\ ~Claiming(h)
          /\ \A k \in Handlers : k # h => pc'[k] = pc[k] /\ req'[k] = req[k]
      BY <1>3, <2>3 DEF ResyncWrite, Goto, Claiming, TypeOK, LocalInv, LocalOK
    <3>2. (copy[h] + Committed(h) <= sqn)'
      BY <1>0, <3>1, CommittedFacts, CommittedFactsNext DEF Step
    <3>3. QED
      BY <1>0, <2>1, <3>1, <3>2, MoveCopy
  <2>4. QED
    BY <2>2, <2>3
<1>4. ASSUME NEW h \in Handlers, GeoRedCompare(h) PROVE CopyInv'
  <2>1. cache' <= sqn'
    BY <1>0, <1>4 DEF GeoRedCompare
  <2>2. CASE Finish(h)
    BY <1>0, <2>1, <2>2, FinishCopy
  <2>3. CASE ~Finish(h)
    <3>1. /\ done' = done /\ done[h] = 0 /\ copy' = copy /\ ~Claiming(h)' /\ ~Claiming(h)
          /\ \A k \in Handlers : k # h => pc'[k] = pc[k] /\ req'[k] = req[k]
      BY <1>4, <2>3 DEF GeoRedCompare, Goto, Claiming, TypeOK, LocalInv, LocalOK
    <3>2. (copy[h] + Committed(h) <= sqn)'
      BY <1>0, <3>1, CommittedFacts, CommittedFactsNext DEF Step
    <3>3. QED
      BY <1>0, <2>1, <3>1, <3>2, MoveCopy
  <2>4. QED
    BY <2>2, <2>3
<1>5. ASSUME NEW h \in Handlers, CommitIncrement(h) PROVE CopyInv'
  <2>1. /\ ~Claiming(h) /\ Claiming(h)' /\ Width(h)' = Width(h)
        /\ copy' = copy /\ done' = done /\ cache' = cache /\ req' = req
        /\ sqn' = sqn + Width(h) * Step
        /\ \A k \in Handlers : k # h => pc'[k] = pc[k]
    BY <1>5 DEF CommitIncrement, Goto, Claiming, Width, TypeOK, LockInv
  <2>2. (copy[h] + Committed(h) <= sqn)'
    BY <1>0, <2>1 DEF Committed, Step
  <2>3. QED
    BY <1>0, <2>1, <2>2, MoveCopy
<1>6. ASSUME NEW h \in Handlers, Generate(h) PROVE CopyInv'
  <2>1. cache' <= sqn'
    BY <1>0, <1>6 DEF Generate
  <2>2. CASE Finish(h)
    BY <1>0, <2>1, <2>2, FinishCopy
  <2>3. CASE ~Finish(h)
    <3>1. /\ done'[h] = done[h] + Width(h) /\ copy' = copy /\ ~Claiming(h)' /\ Claiming(h)
          /\ \A k \in Handlers : k # h => pc'[k] = pc[k] /\ req'[k] = req[k] /\ done'[k] = done[k]
          /\ sqn' = sqn
      BY <1>6, <2>3 DEF Generate, Goto, Claiming, TypeOK
    <3>2. (copy[h] + Committed(h) <= sqn)'
      BY <1>0, <3>1, CommittedFacts, CommittedFactsNext DEF Step
    <3>3. QED
      BY <1>0, <2>1, <3>1, <3>2, MoveCopy
  <2>4. QED
    BY <2>2, <2>3
<1>7. ASSUME NEW h \in Handlers, Publish(h) PROVE CopyInv' /\ PublishedNotAhead'
  <2>1. cache' <= sqn' /\ sqn' = sqn /\ Finish(h)
    BY <1>0, <1>7 DEF Publish
  <2>2. copy[h] + req[h].n * Step <= sqn
    BY <1>0, <1>7 DEF Publish, LocalInv, LocalOK, Committed, Claiming, Step
  <2>3. PublishedNotAhead'
    BY <1>7, <2>1, <2>2 DEF Publish, PublishedNotAhead
  <2>4. QED
    BY <1>0, <2>1, <2>3, FinishCopy
<1>8. ASSUME NEW h \in Handlers, ApiSave(h) \/ Fail(h) PROVE CopyInv'
  <2>1. cache' <= sqn' /\ Finish(h)
    BY <1>0, <1>8 DEF ApiSave, Fail
  <2>2. QED
    BY <1>0, <2>1, FinishCopy
<1>9. ASSUME CacheExpire PROVE CopyInv'
  <2>1. cache' <= sqn'
    BY <1>0, <1>9 DEF CacheExpire, None
  <2>2. QED
    <3>1. ASSUME NEW k \in Handlers PROVE copy'[k] + Committed(k)' <= sqn'
      BY <1>0, <1>9, CopyFrame DEF CacheExpire, locals
    <3>2. QED
      BY <2>1, <3>1 DEF CopyInv
<1>10. ASSUME Restart PROVE CopyInv'
  <2>1. ASSUME NEW k \in Handlers PROVE copy'[k] + Committed(k)' <= sqn'
    <3>1. ~Claiming(k)' /\ done'[k] = 0 /\ copy'[k] = -1
      BY <1>10 DEF Restart, Claiming, None
    <3>2. QED
      BY <1>0, <3>1, CommittedFactsNext DEF Step
  <2>2. cache' <= sqn'
    BY <1>0, <1>10 DEF Restart, None
  <2>3. QED
    BY <2>1, <2>2 DEF CopyInv
<1>11. QED
  BY <1>1, <1>2, <1>3, <1>4, <1>5, <1>6, <1>7, <1>8, <1>9, <1>10 DEF Next

\* A step other than a commit or a generation leaves every claim as it was, or
\* drops it.
LEMMA QuietActions ==
    ASSUME TypeOK, Next, \A h \in Handlers : ~CommitIncrement(h) /\ ~Generate(h)
    PROVE  /\ issued' = issued
           /\ \A k \in Handlers : Claiming(k)' =>
                 Claiming(k) /\ base'[k] = base[k] /\ req'[k] = req[k]
<1> DEFINE Quiet == /\ issued' = issued
                    /\ \A k \in Handlers : Claiming(k)' =>
                          Claiming(k) /\ base'[k] = base[k] /\ req'[k] = req[k]
<1> USE DEF Claiming, Goto, Finish, locals, history, TypeOK
<1>1. ASSUME NEW h \in Handlers,
             Receive(h) \/ LoadCached(h) \/ LoadRow(h) \/ FillCache(h) \/ ResyncPurge(h)
      PROVE  Quiet
  BY <1>1 DEF Receive, Entry, AfterLoad, LoadCached, LoadRow, FillCache, ResyncPurge
<1>2. ASSUME NEW h \in Handlers, ResyncWrite(h) \/ GeoRedCompare(h) PROVE Quiet
  BY <1>2 DEF ResyncWrite, GeoRedCompare
<1>3. ASSUME NEW h \in Handlers, LockRow(h) \/ PurgeCache(h) \/ Publish(h) PROVE Quiet
  BY <1>3 DEF LockRow, PurgeCache, Publish
<1>4. ASSUME NEW h \in Handlers, ApiRead(h) \/ ApiSave(h) \/ Fail(h) PROVE Quiet
  BY <1>4 DEF ApiRead, ApiSave, Fail
<1>5. ASSUME CacheExpire \/ Restart PROVE Quiet
  BY <1>5 DEF CacheExpire, Restart
<1>6. QED
  BY <1>1, <1>2, <1>3, <1>4, <1>5 DEF Next

\* While the row has only moved up, every step keeps the SQNs issued, claimed and
\* copied in order.
LEMMA SqnStep ==
    ASSUME ReturnsFreshRange, IInv, Next, TypeOK'
    PROVE  (~lowered' => SqnInv') /\ TuplesAscend' /\ PublishedNotAhead'
<1>1. CASE lowered'
  BY <1>1 DEF TuplesAscend, PublishedNotAhead
<1>2. CASE ~lowered'
  <2>1. /\ TypeOK /\ LocalInv /\ LockInv /\ RequestInv
        /\ TuplesAscend /\ PublishedNotAhead
    BY DEF IInv
  <2>2. ~lowered /\ sqn' >= sqn /\ sqn' \in Nat
    BY <1>2, <2>1, RowRises DEF TypeOK
  <2>3. /\ NoSqnReuse /\ ClaimInv /\ CopyInv
        /\ \A v \in issued : v.sqn < NextFrom(sqn)
    BY <2>2 DEF IInv, SqnInv
  <2>4. CopyInv' /\ PublishedNotAhead'
    BY <1>2, <2>1, <2>2, <2>3, CopyStep
  <2>5. /\ NoSqnReuse' /\ ClaimInv' /\ (\A v \in issued : v.sqn < NextFrom(sqn))'
        /\ TuplesAscend'
    <3>1. ASSUME NEW h \in Handlers, CommitIncrement(h) PROVE <2>5!:
      <4>1. issued' = issued
        BY <3>1 DEF CommitIncrement, history
      <4>2. TuplesAscend'
        BY <2>1, <2>2, <4>1 DEF TuplesAscend
      <4>3. QED
        BY <2>1, <2>3, <3>1, <4>2, CommitClaims
    <3>2. ASSUME NEW h \in Handlers, Generate(h) PROVE <2>5!:
      BY <2>1, <2>2, <2>3, <3>2, GenerateIssues
    <3>3. CASE \A h \in Handlers : ~CommitIncrement(h) /\ ~Generate(h)
      <4>1. issued' = issued /\ \A k \in Handlers : Claiming(k)' =>
                 Claiming(k) /\ base'[k] = base[k] /\ req'[k] = req[k]
        BY <2>1, <3>3, QuietActions
      <4>2. TuplesAscend'
        BY <2>1, <2>2, <4>1 DEF TuplesAscend
      <4>3. QED
        BY <2>1, <2>2, <2>3, <4>1, <4>2, QuietStep
    <3>4. QED
      BY <3>1, <3>2, <3>3
  <2>6. QED
    BY <2>4, <2>5 DEF SqnInv
<1>3. QED
  BY <1>1, <1>2

-----------------------------------------------------------------------------
(***************************************************************************)
(* The theorems.                                                           *)
(***************************************************************************)
\* The initial state satisfies the inductive invariant.
LEMMA IInvInit == Init => IInv
<1> SUFFICES ASSUME Init PROVE IInv
  OBVIOUS
<1> USE DEF Init
<1>1. NoRequest \in Request
  BY DEF NoRequest, Request, AllKinds
<1>2. TypeOK
  BY <1>1 DEF TypeOK, PCs
<1>3. LocalInv
  BY DEF LocalInv, LocalOK, NoRequest, Authenticating, Publishes, Width
<1>4. LockInv /\ RequestInv
  BY DEF LockInv, RequestInv, NoRequest
<1>5. NoSqnReuse /\ ClaimInv /\ TuplesAscend /\ PublishedNotAhead
  BY DEF NoSqnReuse, ClaimInv, Claiming, TuplesAscend, PublishedNotAhead
<1>6. CopyInv
  BY DEF CopyInv, Committed, Claiming, None, Step
<1>7. QED
  BY <1>2, <1>3, <1>4, <1>5, <1>6 DEF IInv, SqnInv

\* Types, locals and the row lock are invariant whatever the increment returns.
THEOREM LockCorrect == Spec => [](TypeOK /\ LocalInv /\ LockInv)
<1>1. Init => TypeOK /\ LocalInv /\ LockInv
  BY IInvInit DEF IInv
<1>2. TypeOK /\ LocalInv /\ LockInv /\ [Next]_vars => (TypeOK /\ LocalInv /\ LockInv)'
  <2> SUFFICES ASSUME TypeOK, LocalInv, LockInv, [Next]_vars
               PROVE  (TypeOK /\ LocalInv /\ LockInv)'
    OBVIOUS
  <2>1. CASE Next
    BY <2>1, LocalStep, LockStep
  <2>2. CASE UNCHANGED vars
    BY <2>2 DEF vars, TypeOK, LocalInv, LocalOK, LockInv, Width
  <2>3. QED
    BY <2>1, <2>2
<1>3. QED
  BY <1>1, <1>2, PTL DEF Spec

\* Every variable keeps its type.
THEOREM TypeCorrect == Spec => []TypeOK
  BY LockCorrect, PTL

\* The inductive invariant, where the increment returns a range of its own.
THEOREM Invariance == ReturnsFreshRange => (Spec => []IInv)
<1> SUFFICES ASSUME ReturnsFreshRange PROVE Spec => []IInv
  OBVIOUS
<1>1. Init => IInv
  BY IInvInit
<1>2. IInv /\ [Next]_vars => IInv'
  <2> SUFFICES ASSUME IInv, [Next]_vars PROVE IInv'
    OBVIOUS
  <2>1. CASE Next
    <3>1. TypeOK' /\ LocalInv' /\ LockInv' /\ RequestInv'
      BY <2>1, LocalStep, LockStep, RequestStep DEF IInv
    <3>2. (~lowered' => SqnInv') /\ TuplesAscend' /\ PublishedNotAhead'
      BY <2>1, <3>1, SqnStep
    <3>3. QED
      BY <3>1, <3>2 DEF IInv
  <2>2. CASE UNCHANGED vars
    BY <2>2 DEF vars, IInv, SqnInv, TypeOK, LocalInv, LocalOK, LockInv, RequestInv, Width,
       NoSqnReuse, NextFrom, ClaimInv, Claiming, First, Last, CopyInv, Committed,
       TuplesAscend, PublishedNotAhead
  <2>3. QED
    BY <2>1, <2>2
<1>3. QED
  BY <1>1, <1>2, PTL DEF Spec

\* While no write has moved the row backwards, no SQN is used for two vectors.
THEOREM NoReuse == ReturnsFreshRange => (Spec => []NoReuseUnlessLowered)
<1>1. IInv => NoReuseUnlessLowered
  BY DEF IInv, SqnInv, NoReuseUnlessLowered
<1>2. QED
  BY <1>1, Invariance, PTL

\* ... nor can a restart repeat one: the row is ahead of every vector issued.
THEOREM RowAhead == ReturnsFreshRange => (Spec => []RowAheadOfIssued)
<1>1. IInv => RowAheadOfIssued
  BY DEF IInv, SqnInv, RowAheadOfIssued
<1>2. QED
  BY <1>1, Invariance, PTL

\* The vectors of an answer ascend in the order they are listed.
THEOREM Ascending == ReturnsFreshRange => (Spec => []TuplesAscend)
<1>1. IInv => TuplesAscend
  BY DEF IInv
<1>2. QED
  BY <1>1, Invariance, PTL

\* No published SQN is ahead of the row, however stale the copy it comes from.
THEOREM NotAhead == ReturnsFreshRange => (Spec => []PublishedNotAhead)
<1>1. IInv => PublishedNotAhead
  BY DEF IInv
<1>2. QED
  BY <1>1, Invariance, PTL

-----------------------------------------------------------------------------
(***************************************************************************)
(* AuthVectors implements SqnDispenser.                                    *)
(***************************************************************************)
\* A step that moves neither the row nor a claimed range is a stutter of the
\* dispenser.
LEMMA RefineQuiet ==
    ASSUME UNCHANGED <<sqn, issued, lowered>>,
           \A k \in Handlers : HeldRange(k)' = HeldRange(k)
    PROVE  UNCHANGED Dispenser!vars
<1>1. [k \in Handlers |-> HeldRange(k)]' = [k \in Handlers |-> HeldRange(k)]
  OBVIOUS
<1>2. NextFrom(sqn)' = NextFrom(sqn)
  BY DEF NextFrom
<1>3. {v.sqn : v \in issued}' = {v.sqn : v \in issued}
  OBVIOUS
<1>4. QED
  BY <1>1, <1>2, <1>3 DEF Dispenser!vars

\* An overwrite of the row advances or rewinds the dispenser.
LEMMA RefineMove ==
    ASSUME TypeOK, sqn' \in Nat, issued' = issued, lowered' = (lowered \/ sqn' < sqn),
           \A k \in Handlers : HeldRange(k)' = HeldRange(k)
    PROVE  [Dispenser!Next]_(Dispenser!vars)
<1>1. [k \in Handlers |-> HeldRange(k)]' = [k \in Handlers |-> HeldRange(k)]
  OBVIOUS
<1>2. {v.sqn : v \in issued}' = {v.sqn : v \in issued}
  OBVIOUS
<1>3. sqn \in Nat /\ lowered \in BOOLEAN
  BY DEF TypeOK
<1>4. CASE sqn' < sqn
  <2>1. NextFrom(sqn)' < NextFrom(sqn)
    <3>1. NextFrom(sqn') = NextFrom(sqn)'
      BY DEF NextFrom
    <3>2. QED
      BY <1>3, <1>4, <3>1, NextFromMonotone
  <2>2. lowered'
    BY <1>4
  <2>3. QED
    BY <1>1, <1>2, <2>1, <2>2 DEF Dispenser!Next, Dispenser!Rewind
<1>5. CASE sqn' > sqn
  <2>1. NextFrom(sqn)' > NextFrom(sqn)
    <3>1. NextFrom(sqn') = NextFrom(sqn)'
      BY DEF NextFrom
    <3>2. QED
      BY <1>3, <1>5, <3>1, NextFromMonotone
  <2>2. ~(sqn' < sqn)
    BY <1>3, <1>5
  <2>3. lowered' = lowered
    BY <2>2, <1>3, Zenon
  <2>4. QED
    BY <1>1, <1>2, <2>1, <2>3 DEF Dispenser!Next, Dispenser!Advance
<1>6. CASE sqn' = sqn
  <2>1. ~(sqn' < sqn)
    BY <1>3, <1>6
  <2>2. lowered' = lowered
    BY <2>1, <1>3, Zenon
  <2>3. QED
    BY <1>6, <2>2, RefineQuiet
<1>7. QED
  BY <1>3, <1>4, <1>5, <1>6

\* Handlers that fail lose their ranges.
LEMMA RefineLose ==
    ASSUME UNCHANGED <<sqn, issued, lowered>>, NEW H \in SUBSET Handlers,
           \A k \in Handlers \ H : HeldRange(k)' = HeldRange(k),
           \A k \in H : ~Claiming(k)'
    PROVE  Dispenser!Next
<1>1. [k \in Handlers |-> HeldRange(k)]' =
         [k \in Handlers |-> IF k \in H THEN Dispenser!NoRange
                                        ELSE [g \in Handlers |-> HeldRange(g)][k]]
  BY DEF HeldRange, Dispenser!NoRange
<1>2. NextFrom(sqn)' = NextFrom(sqn)
  BY DEF NextFrom
<1>3. {v.sqn : v \in issued}' = {v.sqn : v \in issued}
  OBVIOUS
<1>4. QED
  BY <1>1, <1>2, <1>3 DEF Dispenser!Next, Dispenser!Lose

\* The commit of an increment is the step that reserves a range.
LEMMA RefineReserve ==
    ASSUME ReturnsFreshRange, TypeOK, LocalInv, LockInv, NEW h \in Handlers, CommitIncrement(h)
    PROVE  Dispenser!Next
<1> DEFINE H == [k \in Handlers |-> HeldRange(k)]
<1>1. /\ base[h] = sqn /\ pc[h] = "locked" /\ sqn \in Nat
      /\ Width(h) \in Nat /\ Width(h) >= 1 /\ Width(h) <= MaxVectors
      /\ (PostImage => Width(h) = 1)
  BY WidthFacts DEF CommitIncrement, LockInv, TypeOK, Request, LocalInv, LocalOK, Width,
     ReturnsFreshRange
<1>2. /\ sqn' = sqn + Width(h) * Step
      /\ base'[h] = ReturnedSqn(sqn, Width(h) * Step)
      /\ req' = req /\ issued' = issued /\ lowered' = lowered
      /\ pc'[h] = "purge"
      /\ \A k \in Handlers : k # h => pc'[k] = pc[k] /\ base'[k] = base[k]
  BY <1>1 DEF CommitIncrement, Goto, TypeOK, history
<1>3. base'[h] = NextFrom(sqn)
  BY <1>1, <1>2 DEF ReturnedSqn, NextFrom, Step
<1>4. NextFrom(sqn)' = NextFrom(sqn) + Width(h) * Step
  BY <1>1, <1>2 DEF NextFrom, Step
<1>5. H[h] = Dispenser!NoRange
  BY <1>1 DEF HeldRange, Claiming, Dispenser!NoRange
<1>6. H' = [H EXCEPT ![h] = [from |-> NextFrom(sqn), count |-> Width(h)]]
  <2>1. HeldRange(h)' = [from |-> NextFrom(sqn), count |-> Width(h)]
    BY <1>2, <1>3 DEF HeldRange, Claiming, Width
  <2>2. \A k \in Handlers : k # h => HeldRange(k)' = HeldRange(k)
    BY <1>2 DEF HeldRange, Claiming, Width
  <2>3. QED
    BY <2>1, <2>2
<1>7. {v.sqn : v \in issued}' = {v.sqn : v \in issued}
  BY <1>2
<1>8. Dispenser!Reserve(h, Width(h))
  BY <1>2, <1>4, <1>5, <1>6, <1>7 DEF Dispenser!Reserve, Dispenser!Step, Step
<1>9. QED
  BY <1>1, <1>8 DEF Dispenser!Next

\* Generating the vectors of an increment gives out exactly the reserved range.
LEMMA RefineGive ==
    ASSUME TypeOK, NEW h \in Handlers, Generate(h)
    PROVE  Dispenser!Next
<1> DEFINE H == [k \in Handlers |-> HeldRange(k)]
<1>1. /\ pc[h] = "generate" /\ issued' = issued \cup Claimed(h) /\ sqn' = sqn
      /\ lowered' = lowered
      /\ \A k \in Handlers : k # h => pc'[k] = pc[k] /\ base'[k] = base[k] /\ req'[k] = req[k]
  BY DEF Generate, Goto, Finish, TypeOK
<1>2. ~Claiming(h)'
  BY DEF Generate, Goto, Finish, Claiming, TypeOK
<1>3. H[h] = [from |-> base[h], count |-> Width(h)]
  BY <1>1 DEF HeldRange, Claiming
<1>4. base[h] \in Int /\ Width(h) \in Nat /\ Width(h) >= 1
  BY WidthFacts DEF TypeOK, None
<1>5. H[h] # Dispenser!NoRange
  BY <1>3, <1>4 DEF Dispenser!NoRange
<1>6. H' = [H EXCEPT ![h] = Dispenser!NoRange]
  <2>1. HeldRange(h)' = Dispenser!NoRange
    BY <1>2 DEF HeldRange, Dispenser!NoRange
  <2>2. \A k \in Handlers : k # h => HeldRange(k)' = HeldRange(k)
    BY <1>1 DEF HeldRange, Claiming, Width
  <2>3. QED
    BY <2>1, <2>2
<1>7. {v.sqn : v \in Claimed(h)} = Dispenser!Range(h)
  <2>1. Dispenser!Range(h) = {base[h] + i * 32 : i \in 0 .. Width(h) - 1}
    BY <1>3 DEF Dispenser!Range, Dispenser!Step
  <2>2. {v.sqn : v \in Claimed(h)} = {base[h] + i * 32 : i \in 0 .. Width(h) - 1}
    <3>1. \A i \in 0 .. Width(h) - 1 :
            [id |-> req[h].id, item |-> done[h] + i, sqn |-> base[h] + i * Step]
               \in Claimed(h)
      BY DEF Claimed
    <3>2. \A v \in Claimed(h) : \E i \in 0 .. Width(h) - 1 : v.sqn = base[h] + i * Step
      BY DEF Claimed
    <3>3. Step = 32
      BY DEF Step
    <3>4. \A i \in 0 .. Width(h) - 1 : \E v \in Claimed(h) : v.sqn = base[h] + i * 32
      BY <3>1, <3>3
    <3>5. QED
      BY <3>2, <3>3, <3>4
  <2>3. QED
    BY <2>1, <2>2
<1>8. {v.sqn : v \in issued}' = {v.sqn : v \in issued} \cup Dispenser!Range(h)
  BY <1>1, <1>7
<1>9. NextFrom(sqn)' = NextFrom(sqn)
  BY <1>1 DEF NextFrom
<1>10. Dispenser!Give(h)
  BY <1>1, <1>5, <1>6, <1>8, <1>9 DEF Dispenser!Give
<1>11. QED
  BY <1>10 DEF Dispenser!Next

\* Every step of AuthVectors is a step of the dispenser or a stutter.
LEMMA RefineStep ==
    ASSUME ReturnsFreshRange, TypeOK, LocalInv, LockInv, [Next]_vars
    PROVE  [Dispenser!Next]_(Dispenser!vars)
<1> USE DEF HeldRange, Claiming, Width, Goto, locals, history
<1>1. ASSUME NEW h \in Handlers,
             \/ Receive(h) \/ LoadCached(h) \/ LoadRow(h) \/ FillCache(h)
             \/ ResyncPurge(h) \/ GeoRedCompare(h) \/ LockRow(h) \/ PurgeCache(h)
             \/ Publish(h) \/ ApiRead(h)
      PROVE  UNCHANGED Dispenser!vars
  <2>1. UNCHANGED <<sqn, issued, lowered>>
    BY <1>1 DEF Receive, LoadCached, LoadRow, FillCache, ResyncPurge, GeoRedCompare,
       LockRow, PurgeCache, Publish, ApiRead
  <2>2. \A k \in Handlers : k # h => pc'[k] = pc[k] /\ base'[k] = base[k] /\ req'[k] = req[k]
    BY <1>1 DEF Receive, LoadCached, LoadRow, FillCache, ResyncPurge, GeoRedCompare,
       LockRow, PurgeCache, Publish, ApiRead, Finish, TypeOK
  <2>3. (~Claiming(h) /\ ~Claiming(h)') \/ (Claiming(h) /\ Claiming(h)' /\ base' = base /\ req' = req)
    BY <1>1 DEF Receive, LoadCached, LoadRow, FillCache, ResyncPurge, GeoRedCompare,
       LockRow, PurgeCache, Publish, ApiRead, Finish, Entry, AfterLoad, TypeOK
  <2>4. \A k \in Handlers : HeldRange(k)' = HeldRange(k)
    BY <2>2, <2>3
  <2>5. QED
    BY <2>1, <2>4, RefineQuiet
<1>2. ASSUME NEW h \in Handlers, ResyncWrite(h) \/ ApiSave(h)
      PROVE  [Dispenser!Next]_(Dispenser!vars)
  <2>1. sqn' \in Nat
    BY <1>2 DEF ResyncWrite, ApiSave, ResyncTarget, TypeOK, LocalInv, LocalOK, Margin
  <2>2. issued' = issued /\ lowered' = (lowered \/ sqn' < sqn)
    BY <1>2 DEF ResyncWrite, ApiSave
  <2>3. \A k \in Handlers : k # h => pc'[k] = pc[k] /\ base'[k] = base[k] /\ req'[k] = req[k]
    BY <1>2 DEF ResyncWrite, ApiSave, Finish, TypeOK
  <2>4. ~Claiming(h) /\ ~Claiming(h)'
    BY <1>2 DEF ResyncWrite, ApiSave, Finish, TypeOK
  <2>5. \A k \in Handlers : HeldRange(k)' = HeldRange(k)
    BY <2>3, <2>4
  <2>6. QED
    BY <2>1, <2>2, <2>5, RefineMove
<1>3. ASSUME NEW h \in Handlers, Fail(h) PROVE Dispenser!Next
  <2>1. UNCHANGED <<sqn, issued, lowered>> /\ ~Claiming(h)'
    BY <1>3 DEF Fail, Finish, TypeOK
  <2>2. \A k \in Handlers \ {h} : HeldRange(k)' = HeldRange(k)
    BY <1>3 DEF Fail, Finish, TypeOK
  <2>3. {h} \in SUBSET Handlers /\ \A k \in {h} : ~Claiming(k)'
    BY <2>1
  <2>4. QED
    BY <2>1, <2>2, <2>3, RefineLose
<1>4. ASSUME CacheExpire PROVE UNCHANGED Dispenser!vars
  BY <1>4, RefineQuiet DEF CacheExpire
<1>5. ASSUME Restart PROVE Dispenser!Next
  <2>1. UNCHANGED <<sqn, issued, lowered>> /\ \A k \in Handlers : ~Claiming(k)'
    BY <1>5 DEF Restart
  <2>2. QED
    BY <2>1, RefineLose
<1>6. ASSUME UNCHANGED vars PROVE UNCHANGED Dispenser!vars
  BY <1>6, RefineQuiet DEF vars
<1>7. QED
  BY <1>1, <1>2, <1>3, <1>4, <1>5, <1>6, RefineReserve, RefineGive DEF Next

\* Where the increment returns a range of its own, AuthVectors implements the
\* dispenser: SQNs are reserved in one step and given out at most once.
THEOREM Implements == ReturnsFreshRange => (Spec => ImplementsDispenser)
<1> SUFFICES ASSUME ReturnsFreshRange PROVE Spec => ImplementsDispenser
  OBVIOUS
<1>1. Init => Dispenser!Init
  <2> SUFFICES ASSUME Init PROVE Dispenser!Init
    OBVIOUS
  <2>1. NextFrom(sqn) \in Nat
    BY DEF Init, NextFrom, Step
  <2>2. [h \in Handlers |-> HeldRange(h)] = [h \in Handlers |-> Dispenser!NoRange]
    BY DEF Init, HeldRange, Claiming, Dispenser!NoRange
  <2>3. {v.sqn : v \in issued} = {}
    BY DEF Init
  <2>4. QED
    BY <2>1, <2>2, <2>3 DEF Init, Dispenser!Init
<1>2. TypeOK /\ LocalInv /\ LockInv /\ [Next]_vars => [Dispenser!Next]_(Dispenser!vars)
  BY RefineStep
<1>3. QED
  BY <1>1, <1>2, LockCorrect, PTL DEF Spec, ImplementsDispenser, Dispenser!Spec
=============================================================================
