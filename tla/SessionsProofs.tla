------------------------------ MODULE SessionsProofs -----------------------------
(***************************************************************************)
(* Proofs about Sessions, for every number of handlers, sessions, calls    *)
(* and PDU sessions, any subscribers and APNs, and any number of requests, *)
(* faults and restarts.                                                    *)
(***************************************************************************)
EXTENDS SessionsInv, TLAPS, SequenceTheorems, FiniteSetTheorems, WellFoundedInduction

USE SessionsAssumption, BoundsAssumption

\* The step of a handler goes with the type of its request.
LEMMA StepOfType ==
    ASSUME TypeOK, LocalInv, NEW h \in Handlers
    PROVE  /\ pc[h] = "idle" <=> req[h].type = "none"
           /\ pc[h] = "lookup" => req[h].type \in {"I", "U"}
           /\ pc[h] = "upsert" => req[h].type \in {"I", "U"}
           /\ pc[h] \in {"emergency", "announce"} => req[h].type = "I"
           /\ pc[h] \in {"delete", "retract", "clear"} <=> req[h].type = "T"
           /\ pc[h] \in {"install", "store"} <=> req[h].type = "AAR"
           /\ pc[h] = "remove" <=> req[h].type = "STR"
           /\ pc[h] \in {"find", "write"} <=> req[h].type = "PUT"
           /\ pc[h] = "erase" <=> req[h].type = "DELETE"
<1>1. req[h].type \in {"I", "U", "T", "AAR", "STR", "PUT", "DELETE", "none"}
  BY DEF TypeOK, Request
<1>2. pc[h] \in Places(req[h].type)
  BY DEF LocalInv, LocalOK
<1>3. QED
  BY <1>1, <1>2 DEF Places

\* What a request of each type carries.
LEMMA Carries ==
    ASSUME TypeOK, LocalInv, NEW h \in Handlers
    PROVE  /\ OnRow(h) => req[h].gx \in GxSessions /\ req[h].call = None /\ req[h].pdu = Gap
           /\ req[h].type \in RxTypes =>
                 req[h].gx \in GxSessions /\ req[h].call \in Calls /\ req[h].pdu = Gap
           /\ req[h].type \in PduTypes =>
                 /\ req[h].gx = None /\ req[h].call = None /\ req[h].pdu \in PduRow
                 /\ req[h].pdu.id \in PduSessions /\ req[h].pdu.smf \in Smfs
           /\ req[h].type = "none" => req[h] = Idle
           /\ req[h].call \in Calls <=> req[h].type \in RxTypes
           /\ req[h].pdu.id \in PduSessions <=> req[h].type \in PduTypes
<1>1. /\ req[h].gx \in GxSessions \cup {None} /\ req[h].call \in Calls \cup {None}
      /\ req[h].pdu \in PduRow \cup {Gap}
  BY DEF TypeOK, Request
<1>2. LocalOK(h)
  BY DEF LocalInv
<1>3. None \notin PduSessions /\ Gap \notin PduRow /\ Gap.id = None
  BY DEF Gap, PduRow
<1>4. \A p \in PduRow : p.id \in PduSessions /\ p.smf \in Smfs
  BY DEF PduRow
<1>5. QED
  BY <1>1, <1>2, <1>3, <1>4 DEF LocalOK, OnRow, GxTypes, RxTypes, PduTypes

\* A handler without a request.
LEMMA IdleFacts ==
    /\ Idle \in Request /\ Idle.type = "none" /\ Idle.gx = None /\ Idle.call = None
    /\ Idle.names = {} /\ Idle.pdu = Gap /\ Idle.found = 0 /\ Idle.pdu.id = None
  BY DEF Idle, Request, Gap, Apns

\* Moving a handler changes its own step and request only.
MovedOnly(h) == \A g \in Handlers \ {h} : pc'[g] = pc[g] /\ req'[g] = req[g]

\* Where a handler that goes somewhere with a request stands.
LEMMA GotoFacts ==
    ASSUME TypeOK, NEW h \in Handlers, NEW step \in PCs, NEW r \in Request, Goto(h, step, r)
    PROVE  /\ pc' \in [Handlers -> PCs] /\ req' \in [Handlers -> Request]
           /\ pc'[h] = step /\ req'[h] = (IF step = "idle" THEN Idle ELSE r)
           /\ MovedOnly(h)
  BY IdleFacts DEF Goto, TypeOK, MovedOnly

\* Where a handler that goes on with its request stands.
LEMMA ContinueFacts ==
    ASSUME TypeOK, NEW h \in Handlers, NEW step \in PCs, Continue(h, step)
    PROVE  /\ pc' \in [Handlers -> PCs] /\ req' \in [Handlers -> Request]
           /\ pc'[h] = step /\ req'[h] = (IF step = "idle" THEN Idle ELSE req[h])
           /\ MovedOnly(h)
<1>1. req[h] \in Request
  BY DEF TypeOK
<1>2. QED
  BY <1>1, GotoFacts DEF Continue

\* The other handlers carry on.
LEMMA LocalKept ==
    ASSUME LocalInv, NEW h \in Handlers, MovedOnly(h), LocalOK(h)',
           \A s \in GxSessions : status[s] # "new" => status'[s] # "new",
           failed \subseteq failed'
    PROVE  LocalInv'
<1>1. ASSUME NEW g \in Handlers \ {h} PROVE LocalOK(g)'
  <2>1. LocalOK(g) /\ pc'[g] = pc[g] /\ req'[g] = req[g]
    BY DEF LocalInv, MovedOnly
  <2>2. QED
    BY <2>1 DEF LocalOK, GxTypes, RxTypes, PduTypes, Called
<1>2. QED
  BY <1>1 DEF LocalInv

\* A handler that is done is in order.
LEMMA IdleLocal ==
    ASSUME NEW h \in Handlers, pc'[h] = "idle", req'[h] = Idle
    PROVE  LocalOK(h)'
  BY IdleFacts DEF LocalOK, Places, GxTypes, RxTypes, PduTypes, Gap, PduRow

-----------------------------------------------------------------------------
(***************************************************************************)
(* Three regions.  The rows, the calls and the PDU sessions each have      *)
(* their requests and their variables, and a step leaves the regions alone *)
(* that its request is not about.                                          *)
(***************************************************************************)
\* With the same rows and the same requests a session is what it was.
LEMMA GxFrame ==
    ASSUME GxInv, NEW h \in Handlers, MovedOnly(h), ~OnRow(h), ~OnRow(h)', UNCHANGED gxVars
    PROVE  GxInv'
<1> USE DEF gxVars
<1>1. \A g \in Handlers :
         /\ OnRow(g)' <=> OnRow(g)
         /\ OnRow(g) => pc'[g] = pc[g] /\ req'[g] = req[g] /\ g # h
  BY DEF MovedOnly, OnRow
<1>2. \A s : \A t \in GxTypes : \A steps : Doing(s, t, steps)' <=> Doing(s, t, steps)
  BY <1>1 DEF Doing, OnRow
<1>3. RowsApart'
  BY <1>1 DEF GxInv, RowsApart, Slot, Key
<1>4. RowsInv' /\ DisplacedInv' /\ EmergencyInv'
  BY DEF GxInv, RowsInv, DisplacedInv, TakenBy, EmergencyInv
<1>5. ASSUME NEW s \in GxSessions \ (raced \cup failed) PROVE SessionOK(s)'
  <2>1. SessionOK(s)
    BY DEF GxInv, SessionInv
  <2>2. RowOf(s)' = RowOf(s)
    BY DEF RowOf
  <2>3. (Opening(s)' <=> Opening(s)) /\ (Writing(s)' <=> Writing(s))
    BY <1>2 DEF Opening, Writing, GxTypes
  <2>4. RowAgrees(s)' /\ ToldAgrees(s)'
    BY <2>1, <2>2, <2>3, <1>2 DEF SessionOK, RowAgrees, ToldAgrees, GxTypes
  <2>5. AddressAgrees(s)'
    BY <2>1, <2>2, <2>3, <1>1, <1>2 DEF SessionOK, AddressAgrees, GxTypes, OnRow
  <2>6. EmergencyKept(s)' /\ StatusAgrees(s)'
    BY <2>1, <1>1, <1>2 DEF SessionOK, EmergencyKept, StatusAgrees, Rivals, Slot, Key, GxTypes
  <2>7. QED
    BY <2>1, <2>4, <2>5, <2>6 DEF SessionOK
<1>6. SessionInv'
  BY <1>5 DEF SessionInv
<1>7. QED
  BY <1>3, <1>4, <1>6 DEF GxInv

\* With the same rules at the PGWs a call is what it was.
LEMMA RxFrame ==
    ASSUME RxInv, NEW h \in Handlers, MovedOnly(h),
           req[h].call \notin Calls, req'[h].call \notin Calls,
           UNCHANGED <<rxVars, installed, status>>
    PROVE  RxInv'
<1> USE DEF rxVars
<1>1. \A g \in Handlers : \A x \in Calls :
         /\ req'[g].call = x <=> req[g].call = x
         /\ req[g].call = x => pc'[g] = pc[g] /\ req'[g] = req[g]
  BY DEF MovedOnly
<1>2. CallsApart'
  BY <1>1 DEF RxInv, CallsApart
<1>3. NamesInv'
  BY DEF RxInv, NamesInv, Called
<1>4. ASSUME NEW x \in Calls \ troubled, ~Clash(x) PROVE CallOK(x)'
  <2>1. CallOK(x)
    BY <1>4 DEF RxInv, CallInv
  <2>2. Serving(x)' <=> Serving(x)
    BY <1>1 DEF Serving
  <2>3. RulesOf(x)' = RulesOf(x) /\ \A g, names : RulesAre(x, g, names)' <=> RulesAre(x, g, names)
    BY DEF RulesOf, RulesAre
  <2>4. QED
    BY <2>1, <2>2, <2>3, <1>1 DEF CallOK
<1>5. CallInv'
  BY <1>4 DEF CallInv, Clash
<1>6. QED
  BY <1>2, <1>3, <1>5 DEF RxInv

\* With the same table a PDU session is what it was.
LEMMA PduFrame ==
    ASSUME PduInv, NEW h \in Handlers, MovedOnly(h), UNCHANGED pduVars,
           req[h].pdu = Gap, req'[h].pdu = Gap, pc[h] # "write", pc'[h] # "write"
    PROVE  PduInv'
<1> USE DEF pduVars
<1>0. Gap \notin PduRow /\ \A i \in PduSessions : Gap.id # i
  BY DEF Gap, PduRow
<1>1. /\ \A g \in Handlers : req[g].pdu \in PduRow \/ req'[g].pdu \in PduRow
            => g # h /\ pc'[g] = pc[g] /\ req'[g] = req[g]
      /\ \A g \in Handlers : \A i \in PduSessions :
            /\ req'[g].pdu.id = i <=> req[g].pdu.id = i
            /\ req[g].pdu.id = i => pc'[g] = pc[g] /\ req'[g] = req[g]
      /\ \A g \in Handlers : pc'[g] = "write" => pc[g] = "write" /\ req'[g] = req[g]
  BY <1>0 DEF MovedOnly
<1>2. PdusApart'
  <2> SUFFICES ASSUME NEW g \in Handlers, NEW k \in Handlers, g # k,
                      req'[g].pdu \in PduRow, req'[g].pdu.id = req'[k].pdu.id
               PROVE  req'[g].pdu.id \in muddled
    BY DEF PdusApart
  <2>1. req'[g].pdu.id \in PduSessions
    BY DEF PduRow
  <2>2. req'[g] = req[g] /\ req'[k] = req[k]
    BY <1>1, <2>1
  <2>3. QED
    BY <2>2 DEF PduInv, PdusApart
<1>3. FoundInv'
  BY <1>1 DEF PduInv, FoundInv, FoundOK
<1>4. ASSUME NEW i \in PduSessions \ muddled PROVE PduOK(i)'
  <2>1. PduOK(i)
    BY DEF PduInv
  <2>2. Registering(i)' <=> Registering(i)
    BY <1>1 DEF Registering
  <2>3. ListedOf(i)' = ListedOf(i) /\ \A smf : Lists(i, smf)' <=> Lists(i, smf)
    BY DEF ListedOf, ListServingPDUSessions, Lists
  <2>4. QED
    BY <2>1, <2>2, <2>3, <1>1 DEF PduOK
<1>5. QED
  BY <1>2, <1>3, <1>4 DEF PduInv

-----------------------------------------------------------------------------
(***************************************************************************)
(* PDU sessions.                                                           *)
(***************************************************************************)
LEMMA PduOnly ==
    ASSUME IInv, NEW h \in Handlers, MovedOnly(h), UNCHANGED <<gxVars, rxVars, installed>>,
           req[h].type \in PduTypes \cup {"none"}, req'[h].type \in PduTypes \cup {"none"},
           req'[h].call = None
    PROVE  GxInv' /\ RxInv'
<1>1. req[h].call \notin Calls /\ req'[h].call \notin Calls
  BY Carries DEF IInv, PduTypes, RxTypes
<1>2. ~OnRow(h) /\ ~OnRow(h)'
  BY DEF OnRow, PduTypes, GxTypes
<1>3. GxInv'
  BY <1>2, GxFrame DEF IInv
<1>4. UNCHANGED <<rxVars, installed, status>>
  BY DEF gxVars
<1>5. RxInv'
  BY <1>1, <1>4, RxFrame DEF IInv
<1>6. QED
  BY <1>3, <1>5

\* No other request is about the PDU session of one, unless that is noted.
LEMMA PduAlone ==
    ASSUME IInv, NEW h \in Handlers, req[h].type \in PduTypes, req[h].pdu.id \notin muddled
    PROVE  \A g \in Handlers \ {h} : req[g].pdu.id # req[h].pdu.id
  BY Carries DEF IInv, PduInv, PdusApart

\* A session no step is about is what it was.
LEMMA PduElsewhere ==
    ASSUME NEW h \in Handlers, MovedOnly(h), NEW j \in PduSessions, PduOK(j),
           req[h].pdu.id # j, req'[h].pdu.id # j, smfOf'[j] = smfOf[j],
           ListedOf(j)' = ListedOf(j), \A k \in ListedOf(j) : pdu'[k].smf = pdu[k].smf
    PROVE  PduOK(j)'
<1>1. \A g \in Handlers :
         /\ req'[g].pdu.id = j <=> req[g].pdu.id = j
         /\ req[g].pdu.id = j => pc'[g] = pc[g] /\ req'[g] = req[g]
  BY DEF MovedOnly
<1>2. Registering(j)' <=> Registering(j)
  BY <1>1 DEF Registering
<1>3. ASSUME NEW smf, Lists(j, smf) PROVE Lists(j, smf)'
  <2>1. PICK k \in DOMAIN pdu : ListedOf(j) = {k} /\ (smf = None \/ pdu[k].smf = smf)
    BY <1>3 DEF Lists
  <2>2. k \in DOMAIN pdu'
    BY <2>1 DEF ListedOf, ListServingPDUSessions
  <2>3. QED
    BY <2>1, <2>2 DEF Lists
<1>4. QED
  BY <1>1, <1>2, <1>3 DEF PduOK

\* A step about session i.
PduStep(h, i) ==
    /\ MovedOnly(h) /\ muddled \subseteq muddled' /\ muddled' \subseteq PduSessions
    /\ req[h].pdu = Gap \/ req[h].pdu.id = i
    /\ req'[h].pdu = Gap \/ (req'[h].pdu \in PduRow /\ req'[h].pdu.id = i)
    /\ i \notin muddled' => \A g \in Handlers \ {h} : req[g].pdu.id # i
    /\ \A k \in DOMAIN pdu :
          /\ k \in DOMAIN pdu'
          /\ pdu'[k] = Gap \/ (pdu[k] # Gap /\ pdu'[k].id = pdu[k].id)
    /\ pc'[h] = "write" /\ req'[h].found # 0 => FoundOK(h)'
    /\ \A j \in PduSessions \ muddled' : j # i =>
          /\ smfOf'[j] = smfOf[j] /\ ListedOf(j)' = ListedOf(j)
          /\ \A k \in ListedOf(j) : pdu'[k].smf = pdu[k].smf
    /\ i \notin muddled' => PduOK(i)'

\* A step for one PDU session keeps what is said of all of them.
LEMMA PduStepKeeps ==
    ASSUME IInv, NEW h \in Handlers, NEW i \in PduSessions, PduStep(h, i)
    PROVE  PduInv'
<1>1. Gap \notin PduRow /\ Gap.id = None /\ None \notin PduSessions
  BY DEF Gap, PduRow
<1>2. \A g \in Handlers \ {h} : pc'[g] = pc[g] /\ req'[g] = req[g]
  BY DEF PduStep, MovedOnly
<1>3. PdusApart'
  <2> SUFFICES ASSUME NEW g \in Handlers, NEW k \in Handlers, g # k,
                      req'[g].pdu \in PduRow, req'[g].pdu.id = req'[k].pdu.id
               PROVE  req'[g].pdu.id \in muddled'
    BY DEF PdusApart
  <2>1. req'[g].pdu.id \in PduSessions
    BY DEF PduRow
  <2>2. CASE g # h /\ k # h
    <3>1. req[g].pdu.id \in muddled
      BY <1>2, <2>2 DEF IInv, PduInv, PdusApart
    <3>2. QED
      BY <1>2, <2>2, <3>1 DEF PduStep
  <2>3. CASE g = h
    BY <1>1, <1>2, <2>3 DEF PduStep
  <2>4. CASE k = h
    <3>1. req'[h].pdu.id = i /\ req[g].pdu.id = i
      BY <1>1, <1>2, <2>1, <2>4 DEF PduStep
    <3>2. QED
      BY <2>4, <3>1 DEF PduStep
  <2>5. QED
    BY <2>2, <2>3, <2>4
<1>4. FoundInv'
  <2> SUFFICES ASSUME NEW g \in Handlers \ {h}, pc'[g] = "write", req'[g].found # 0
               PROVE  FoundOK(g)'
    BY DEF PduStep, FoundInv
  <2>1. FoundOK(g)
    BY <1>2 DEF IInv, PduInv, FoundInv
  <2>2. /\ req[g].found \in DOMAIN pdu' /\ muddled \subseteq muddled' /\ req'[g] = req[g]
        /\ \/ pdu'[req[g].found] = Gap
           \/ /\ pdu[req[g].found] # Gap
              /\ pdu'[req[g].found].id = pdu[req[g].found].id
    BY <1>2, <2>1 DEF FoundOK, PduStep
  <2>3. QED
    BY <2>1, <2>2 DEF FoundOK
<1>5. ASSUME NEW j \in PduSessions \ muddled' PROVE PduOK(j)'
  <2>1. CASE j = i
    BY <1>5, <2>1 DEF PduStep
  <2>2. CASE j # i
    <3>1. PduOK(j)
      BY <1>5 DEF IInv, PduInv, PduStep
    <3>2. req[h].pdu.id # j /\ req'[h].pdu.id # j
      BY <1>1, <2>2 DEF PduStep
    <3>3. /\ MovedOnly(h) /\ smfOf'[j] = smfOf[j] /\ ListedOf(j)' = ListedOf(j)
          /\ \A k \in ListedOf(j) : pdu'[k].smf = pdu[k].smf
      BY <1>5, <2>2 DEF PduStep
    <3>4. QED
      BY <3>1, <3>2, <3>3, PduElsewhere
  <2>3. QED
    BY <2>1, <2>2
<1>6. QED
  BY <1>3, <1>4, <1>5 DEF PduInv

\* What is left to show of a step about a PDU session.
LEMMA PduStepInv ==
    ASSUME IInv, NEW h \in Handlers, NEW i \in PduSessions, PduStep(h, i), LocalOK(h)',
           UNCHANGED <<gxVars, rxVars, installed>>,
           req[h].type \in PduTypes \cup {"none"}, req'[h].type \in PduTypes \cup {"none"},
           req'[h].call = None,
           pc' \in [Handlers -> PCs], req' \in [Handlers -> Request],
           pdu' \in Seq(PduRow \cup {Gap}), smfOf' \in [PduSessions -> Smfs \cup {None}],
           requests' \in Nat, faults' \in Nat
    PROVE  IInv'
<1>1. MovedOnly(h) /\ muddled' \subseteq PduSessions
  BY DEF PduStep
<1>2. TypeOK'
  BY <1>1 DEF IInv, TypeOK, gxVars, rxVars
<1>3. LocalInv'
  BY <1>1, LocalKept DEF IInv, gxVars
<1>4. GxInv' /\ RxInv'
  BY <1>1, PduOnly
<1>5. PduInv'
  BY PduStepKeeps
<1>6. QED
  BY <1>2, <1>3, <1>4, <1>5 DEF IInv

\* A request that has come in is that of a handler that was idle.
LEMMA ReceiveFacts ==
    ASSUME IInv, NEW h \in Handlers, Receive(h)
    PROVE  pc[h] = "idle" /\ req[h] = Idle /\ requests' \in Nat
  BY StepOfType, Carries DEF IInv, TypeOK, Receive

\* An SMF registers a PDU session.
LEMMA PutKeeps ==
    ASSUME IInv, NEW h \in Handlers, NEW i \in PduSessions, NEW smf \in Smfs,
           ReceivePut(h, i, smf)
    PROVE  IInv'
<1> DEFINE row == [id |-> i, smf |-> smf]
           r   == [Idle EXCEPT !.type = "PUT", !.pdu = row]
<1>1. row \in PduRow /\ row.id = i /\ row.smf = smf
  BY DEF PduRow
<1> HIDE DEF row
<1>2. /\ r \in Request /\ r.type = "PUT" /\ r.gx = None /\ r.call = None /\ r.pdu = row
      /\ r.found = 0
  BY <1>1 DEF Idle, Request, Apns
<1>3. Goto(h, "find", r) /\ "find" \in PCs /\ Receive(h)
  BY DEF ReceivePut, row, PCs
<1> HIDE DEF r
<1>4. /\ pc' \in [Handlers -> PCs] /\ req' \in [Handlers -> Request]
      /\ pc'[h] = "find" /\ req'[h] = r /\ MovedOnly(h)
  BY <1>2, <1>3, GotoFacts DEF IInv
<1>5. pc[h] = "idle" /\ req[h] = Idle /\ requests' \in Nat
  BY <1>3, ReceiveFacts
<1>6. /\ smfOf' = [smfOf EXCEPT ![i] = smf] /\ pdu' = pdu /\ faults' = faults
      /\ muddled' = (IF Registering(i) THEN muddled \cup {i} ELSE muddled)
      /\ UNCHANGED <<gxVars, rxVars, installed>>
  BY DEF ReceivePut
<1>7. LocalOK(h)'
  BY <1>1, <1>2, <1>4
  DEF LocalOK, Places, GxTypes, RxTypes, PduTypes
<1>8. smfOf' \in [PduSessions -> Smfs \cup {None}] /\ muddled \subseteq PduSessions
  BY <1>6 DEF IInv, TypeOK
<1>9. ASSUME i \notin muddled' PROVE PduOK(i)'
  <2>1. i \notin muddled /\ ~Registering(i)
    BY <1>6, <1>9
  <2>2. IF smfOf[i] = None THEN ListedOf(i) = {} ELSE Lists(i, smfOf[i])
    BY <2>1 DEF IInv, PduInv, PduOK
  <2>3. ListedOf(i)' = ListedOf(i)
    BY <1>6 DEF ListedOf, ListServingPDUSessions
  <2>4. ListedOf(i)' = {} \/ Lists(i, None)'
    BY <2>2, <2>3, <1>6 DEF Lists
  <2>5. \A g \in Handlers : req'[g].pdu.id = i => g = h
    BY <2>1, <1>4 DEF Registering, MovedOnly
  <2>6. smfOf'[i] = smf
    BY <1>6 DEF IInv, TypeOK
  <2>7. Registering(i)'
    BY <1>1, <1>2, <1>4 DEF Registering
  <2>8. QED
    BY <2>4, <2>5, <2>6, <2>7, <1>1, <1>2, <1>4 DEF PduOK
<1>10. PduStep(h, i)
  <2>1. \A j \in PduSessions : j # i =>
           /\ smfOf'[j] = smfOf[j] /\ ListedOf(j)' = ListedOf(j)
           /\ \A k \in ListedOf(j) : pdu'[k].smf = pdu[k].smf
    BY <1>6 DEF IInv, TypeOK, ListedOf, ListServingPDUSessions
  <2>2. i \notin muddled' => \A g \in Handlers \ {h} : req[g].pdu.id # i
    BY <1>6 DEF Registering
  <2>3. QED
    BY <2>1, <2>2, <1>1, <1>2, <1>4, <1>5, <1>6, <1>8, <1>9, IdleFacts DEF PduStep
<1>11. req[h].type = "none" /\ faults' \in Nat /\ pdu' \in Seq(PduRow \cup {Gap})
  BY <1>5, <1>6, IdleFacts DEF IInv, TypeOK
<1>12. QED
  BY <1>2, <1>4, <1>5, <1>6, <1>7, <1>8, <1>10, <1>11, PduStepInv DEF PduTypes

\* An SMF gives a PDU session up.
LEMMA DeleteRequestKeeps ==
    ASSUME IInv, NEW h \in Handlers, NEW i \in PduSessions, NEW smf \in Smfs,
           ReceiveDelete(h, i, smf)
    PROVE  IInv'
<1> DEFINE row == [id |-> i, smf |-> smf]
           r   == [Idle EXCEPT !.type = "DELETE", !.pdu = row]
<1>1. row \in PduRow /\ row.id = i /\ row.smf = smf
  BY DEF PduRow
<1> HIDE DEF row
<1>2. /\ r \in Request /\ r.type = "DELETE" /\ r.gx = None /\ r.call = None /\ r.pdu = row
      /\ r.found = 0
  BY <1>1 DEF Idle, Request, Apns
<1>3. Goto(h, "erase", r) /\ "erase" \in PCs /\ Receive(h)
  BY DEF ReceiveDelete, row, PCs
<1> HIDE DEF r
<1>4. /\ pc' \in [Handlers -> PCs] /\ req' \in [Handlers -> Request]
      /\ pc'[h] = "erase" /\ req'[h] = r /\ MovedOnly(h)
  BY <1>2, <1>3, GotoFacts DEF IInv
<1>5. pc[h] = "idle" /\ req[h] = Idle /\ requests' \in Nat
  BY <1>3, ReceiveFacts
<1>6. /\ smfOf' = (IF smfOf[i] = smf THEN [smfOf EXCEPT ![i] = None] ELSE smfOf)
      /\ pdu' = pdu /\ faults' = faults
      /\ muddled' = (IF Registering(i) \/ smfOf[i] \notin {smf, None}
                     THEN muddled \cup {i} ELSE muddled)
      /\ UNCHANGED <<gxVars, rxVars, installed>>
  BY DEF ReceiveDelete
<1>7. LocalOK(h)'
  BY <1>1, <1>2, <1>4
  DEF LocalOK, Places, GxTypes, RxTypes, PduTypes
<1>8. /\ smfOf \in [PduSessions -> Smfs \cup {None}]
      /\ smfOf' \in [PduSessions -> Smfs \cup {None}] /\ muddled \subseteq PduSessions
  BY <1>6 DEF IInv, TypeOK
<1>9. ASSUME i \notin muddled' PROVE PduOK(i)'
  <2>1. i \notin muddled /\ ~Registering(i)
    BY <1>6, <1>9
  <2>5. \A g \in Handlers : req'[g].pdu.id = i => g = h
    BY <2>1, <1>4 DEF Registering, MovedOnly
  <2>6. smfOf'[i] = None
    BY <1>6, <1>8, <1>9
  <2>7. Registering(i)'
    BY <1>1, <1>2, <1>4 DEF Registering
  <2>8. QED
    BY <2>5, <2>6, <2>7, <1>1, <1>2, <1>4 DEF PduOK
<1>10. PduStep(h, i)
  <2>1. \A j \in PduSessions : j # i =>
           /\ smfOf'[j] = smfOf[j] /\ ListedOf(j)' = ListedOf(j)
           /\ \A k \in ListedOf(j) : pdu'[k].smf = pdu[k].smf
    BY <1>6, <1>8 DEF ListedOf, ListServingPDUSessions
  <2>2. i \notin muddled' => \A g \in Handlers \ {h} : req[g].pdu.id # i
    BY <1>6 DEF Registering
  <2>3. QED
    BY <2>1, <2>2, <1>1, <1>2, <1>4, <1>5, <1>6, <1>8, <1>9, IdleFacts DEF PduStep
<1>11. req[h].type = "none" /\ faults' \in Nat /\ pdu' \in Seq(PduRow \cup {Gap})
  BY <1>5, <1>6, IdleFacts DEF IInv, TypeOK
<1>12. QED
  BY <1>2, <1>4, <1>5, <1>6, <1>7, <1>8, <1>10, <1>11, PduStepInv DEF PduTypes

\* The row of a place: a session has an id, a Gap none.
LEMMA PduRows ==
    ASSUME IInv
    PROVE  /\ pdu \in Seq(PduRow \cup {Gap}) /\ DOMAIN pdu = 1 .. Len(pdu) /\ Len(pdu) \in Nat
           /\ \A k \in DOMAIN pdu : pdu[k] \in PduRow \cup {Gap}
           /\ \A k \in DOMAIN pdu : pdu[k] # Gap => pdu[k].id \in PduSessions
           /\ \A k \in DOMAIN pdu : \A i \in PduSessions : pdu[k].id = i => pdu[k] # Gap
<1>1. pdu \in Seq(PduRow \cup {Gap})
  BY DEF IInv, TypeOK
<1>2. Gap.id = None /\ \A r \in PduRow : r.id \in PduSessions
  BY DEF Gap, PduRow
<1>3. QED
  BY <1>1, <1>2

\* A handler that is done with a PDU session: nobody works on it any more.
LEMMA PduDone ==
    ASSUME IInv, NEW h \in Handlers, NEW i \in PduSessions \ muddled, req[h].type \in PduTypes,
           req[h].pdu.id = i, MovedOnly(h), req'[h] = Idle
    PROVE  \A g \in Handlers : req'[g].pdu.id # i
<1>1. \A g \in Handlers \ {h} : req'[g].pdu.id # i
  BY PduAlone DEF MovedOnly
<1>2. req'[h].pdu.id # i
  BY IdleFacts
<1>3. QED
  BY <1>1, <1>2

\* A handler whose statement has failed.
LEMMA PduFailKeeps ==
    ASSUME IInv, NEW h \in Handlers, req[h].type \in PduTypes, Continue(h, "idle"), PduFails(h),
           UNCHANGED <<gxVars, rxVars, installed, pdu, smfOf, requests>>
    PROVE  IInv'
<1>1. PICK i \in PduSessions : req[h].pdu.id = i
  BY Carries DEF IInv
<1>2. /\ pc' \in [Handlers -> PCs] /\ req' \in [Handlers -> Request]
      /\ pc'[h] = "idle" /\ req'[h] = Idle /\ MovedOnly(h)
  BY ContinueFacts DEF IInv, PCs
<1>3. muddled' = muddled \cup {i} /\ faults' \in Nat /\ muddled \subseteq PduSessions
  BY <1>1 DEF PduFails, Fault, IInv, TypeOK
<1>5. \A j \in PduSessions :
         /\ smfOf'[j] = smfOf[j] /\ ListedOf(j)' = ListedOf(j)
         /\ \A k \in ListedOf(j) : pdu'[k].smf = pdu[k].smf
  BY DEF ListedOf, ListServingPDUSessions
<1>6. PduStep(h, i)
  BY <1>1, <1>2, <1>3, <1>5, IdleFacts DEF PduStep
<1>7. LocalOK(h)'
  BY <1>2, IdleLocal
<1>8. /\ pdu' \in Seq(PduRow \cup {Gap}) /\ smfOf' \in [PduSessions -> Smfs \cup {None}]
      /\ requests' \in Nat
  BY DEF IInv, TypeOK
<1>9. QED
  BY <1>2, <1>3, <1>6, <1>7, <1>8, IdleFacts, PduStepInv

\* FirstOrCreate looks for the row.
LEMMA FindPduKeeps ==
    ASSUME IInv, NEW h \in Handlers, FindPdu(h)
    PROVE  IInv'
<1>1. pc[h] = "find" /\ req[h].type = "PUT" /\ req[h].found = 0 /\ req[h] \in Request
  BY StepOfType DEF FindPdu, IInv, LocalInv, LocalOK, TypeOK
<1>0. PICK i \in PduSessions : req[h].pdu.id = i
  BY <1>1, Carries DEF IInv, PduTypes
<1>2. /\ req[h].pdu.id = i /\ req[h].pdu \in PduRow /\ req[h].gx = None /\ req[h].call = None
      /\ i \in Nat
  BY <1>0, <1>1, Carries DEF IInv, PduTypes
<1>3. UNCHANGED <<gxVars, rxVars, installed, pdu, smfOf, requests>>
  BY DEF FindPdu
<1>4. /\ pdu' \in Seq(PduRow \cup {Gap}) /\ smfOf' \in [PduSessions -> Smfs \cup {None}]
      /\ requests' \in Nat /\ faults \in Nat /\ muddled \subseteq PduSessions
  BY <1>3 DEF IInv, TypeOK
<1>5. \A j \in PduSessions :
         /\ smfOf'[j] = smfOf[j] /\ ListedOf(j)' = ListedOf(j)
         /\ \A k \in ListedOf(j) : pdu'[k].smf = pdu[k].smf
  BY <1>3 DEF ListedOf, ListServingPDUSessions
<1>6. /\ ListedOf(i) \subseteq Matching(i) /\ Matching(i) \subseteq DOMAIN pdu
      /\ \A k \in Matching(i) : pdu[k] # Gap /\ (i = 0 \/ pdu[k].id = i)
  BY DEF Matching, ListedOf, ListServingPDUSessions
<1>7. i \notin muddled =>
         /\ smfOf[i] = req[h].pdu.smf
         /\ ListedOf(i) = {} \/ Lists(i, None)
         /\ \A g \in Handlers \ {h} : req[g].pdu.id # i
  BY <1>1, <1>2, PduAlone DEF IInv, PduInv, PduOK, PduTypes
<1>8. ASSUME NEW r \in Request, Goto(h, "write", r), r = [req[h] EXCEPT !.found = r.found],
             muddled \subseteq muddled', muddled' \subseteq PduSessions, faults' = faults,
             r.found # 0 => /\ r.found \in DOMAIN pdu /\ pdu[r.found] # Gap
                            /\ IF i = 0 THEN pdu[r.found].id = 0 \/ pdu[r.found].id \in muddled'
                               ELSE pdu[r.found].id = i,
             i \notin muddled' => ListedOf(i) = IF r.found = 0 THEN {} ELSE {r.found}
      PROVE  IInv'
  <2>1. /\ pc' \in [Handlers -> PCs] /\ req' \in [Handlers -> Request]
        /\ pc'[h] = "write" /\ req'[h] = r /\ MovedOnly(h)
    BY <1>8, GotoFacts DEF IInv, PCs
  <2>2. /\ r.type = "PUT" /\ r.gx = None /\ r.call = None /\ r.pdu = req[h].pdu
        /\ r.pdu.id = i
    BY <1>1, <1>2, <1>8 DEF Request
  <2>3. LocalOK(h)'
    BY <1>2, <2>1, <2>2 DEF LocalOK, Places, GxTypes, RxTypes, PduTypes
  <2>4. r.found # 0 => FoundOK(h)'
    BY <1>3, <1>8, <2>1, <2>2 DEF FoundOK
  <2>5. ASSUME i \notin muddled' PROVE PduOK(i)'
    <3>1. Registering(i)'
      BY <2>1, <2>2 DEF Registering
    <3>2. \A g \in Handlers : req'[g].pdu.id = i => g = h
      BY <1>7, <1>8, <2>1, <2>5 DEF MovedOnly
    <3>3. smfOf'[i] = r.pdu.smf
      BY <1>2, <1>5, <1>7, <1>8, <2>2, <2>5
    <3>4. ListedOf(i)' = IF r.found = 0 THEN {} ELSE {r.found}
      BY <1>2, <1>5, <1>8, <2>5
    <3>5. QED
      BY <2>1, <2>2, <3>1, <3>2, <3>3, <3>4 DEF PduOK
  <2>6. PduStep(h, i)
    BY <1>2, <1>3, <1>5, <1>7, <1>8, <2>1, <2>2, <2>4, <2>5 DEF PduStep
  <2>7. QED
    BY <1>1, <1>2, <1>3, <1>4, <1>8, <2>1, <2>2, <2>3, <2>6, PduStepInv DEF PduTypes
<1>9. CASE Matching(i) = {} /\ Continue(h, "write") /\ UNCHANGED <<muddled, faults>>
  <2>1. Goto(h, "write", req[h]) /\ req[h] = [req[h] EXCEPT !.found = req[h].found]
    BY <1>1, <1>9 DEF Continue, Request
  <2>2. ListedOf(i) = {}
    BY <1>6, <1>9
  <2>3. QED
    BY <1>1, <1>4, <1>8, <1>9, <2>1, <2>2
<1>10. ASSUME NEW k \in Matching(i), \A l \in Matching(i) : k <= l,
              Goto(h, "write", [req[h] EXCEPT !.found = k]),
              muddled' = (IF i = 0 /\ pdu[k].id # 0 THEN muddled \cup {0, pdu[k].id} ELSE muddled),
              UNCHANGED faults
       PROVE  IInv'
  <2>1. DEFINE r == [req[h] EXCEPT !.found = k]
  <2>2. k \in DOMAIN pdu /\ k \in Nat /\ k # 0 /\ pdu[k] # Gap /\ pdu[k].id \in PduSessions
    BY <1>6, PduRows
  <2>3. r \in Request /\ r.found = k /\ r = [req[h] EXCEPT !.found = r.found]
    BY <1>1, <2>2 DEF Request
  <2>4. muddled \subseteq muddled' /\ muddled' \subseteq PduSessions
    BY <1>2, <1>4, <1>10, <2>2
  <2>5. IF i = 0 THEN pdu[k].id = 0 \/ pdu[k].id \in muddled' ELSE pdu[k].id = i
    BY <1>6, <1>10
  <2>6. ASSUME i \notin muddled' PROVE ListedOf(i) = {k}
    <3>1. pdu[k].id = i
      BY <1>6, <1>10, <2>6
    <3>2. k \in ListedOf(i)
      BY <2>2, <3>1 DEF ListedOf, ListServingPDUSessions
    <3>3. QED
      BY <1>7, <2>4, <2>6, <3>2 DEF Lists
  <2> HIDE DEF r
  <2>7. Goto(h, "write", r)
    BY <1>10 DEF r
  <2>8. QED
    BY <1>8, <1>10, <2>2, <2>3, <2>4, <2>5, <2>6, <2>7
<1>11. CASE PduFails(h) /\ Continue(h, "idle")
  BY <1>1, <1>3, <1>11, PduFailKeeps DEF PduTypes
<1>12. QED
  BY <1>2, <1>9, <1>10, <1>11 DEF FindPdu

\* FirstOrCreate updates the row it has found, or inserts one.
LEMMA WritePduKeeps ==
    ASSUME IInv, NEW h \in Handlers, WritePdu(h)
    PROVE  IInv'
<1>1. pc[h] = "write" /\ req[h].type = "PUT" /\ Continue(h, "idle")
  BY StepOfType DEF WritePdu, IInv
<1>2. PICK i \in PduSessions, smf \in Smfs : req[h].pdu = [id |-> i, smf |-> smf]
  BY <1>1, Carries DEF IInv, PduTypes, PduRow
<1>3. /\ req[h].pdu.id = i /\ req[h].pdu.smf = smf /\ req[h].pdu \in PduRow
      /\ smf # None /\ i \in Nat
  <2>1. [id |-> i, smf |-> smf] \in PduRow
    BY DEF PduRow
  <2>2. smf # None /\ i \in Nat
    OBVIOUS
  <2>3. QED
    BY <1>2, <2>1, <2>2
<1>4. /\ pc' \in [Handlers -> PCs] /\ req' \in [Handlers -> Request]
      /\ pc'[h] = "idle" /\ req'[h] = Idle /\ MovedOnly(h)
  BY <1>1, ContinueFacts DEF IInv, PCs
<1>5. CASE PduFails(h) /\ UNCHANGED pdu
  BY <1>1, <1>5, PduFailKeeps DEF WritePdu, PduTypes
<1>6. CASE /\ pdu' = UpsertServingPDUSession(req[h].found, req[h].pdu)
           /\ UNCHANGED <<muddled, faults>>
  <2>1. PICK f \in Nat : req[h].found = f
    BY DEF IInv, TypeOK, Request
  <2>2. f # 0 => FoundOK(h)
    BY <1>1, <2>1 DEF IInv, PduInv, FoundInv
  <2>3. i \notin muddled => smfOf[i] = smf /\ ListedOf(i) = IF f = 0 THEN {} ELSE {f}
    BY <1>1, <1>3, <2>1 DEF IInv, PduInv, PduOK
  <2>4. UNCHANGED <<gxVars, rxVars, installed, smfOf, requests, muddled, faults>>
    BY <1>6 DEF WritePdu
  <2>5. /\ muddled \subseteq PduSessions /\ requests' \in Nat /\ faults' \in Nat
        /\ smfOf' \in [PduSessions -> Smfs \cup {None}] 
    BY <2>4 DEF IInv, TypeOK
  <2>6. i \notin muddled => /\ \A g \in Handlers \ {h} : req[g].pdu.id # i
                            /\ \A g \in Handlers : req'[g].pdu.id # i
    BY <1>1, <1>3, <1>4, PduAlone, PduDone DEF PduTypes
  <2>7. ASSUME pdu' \in Seq(PduRow \cup {Gap}),
               \A k \in DOMAIN pdu :
                  /\ k \in DOMAIN pdu'
                  /\ pdu'[k] = Gap \/ (pdu[k] # Gap /\ pdu'[k].id = pdu[k].id),
               \A j \in PduSessions \ muddled : j # i =>
                  /\ ListedOf(j)' = ListedOf(j)
                  /\ \A k \in ListedOf(j) : pdu'[k].smf = pdu[k].smf,
               i \notin muddled => Lists(i, smf)'
        PROVE  IInv'
    <3>1. i \notin muddled' => PduOK(i)'
      BY <1>3, <2>3, <2>4, <2>6, <2>7 DEF PduOK, Registering, Lists
    <3>2. PduStep(h, i)
      BY <1>3, <1>4, <2>4, <2>5, <2>6, <2>7, <3>1, IdleFacts DEF PduStep
    <3>3. LocalOK(h)'
      BY <1>4, IdleLocal
    <3>4. QED
      BY <1>1, <1>4, <2>4, <2>5, <2>7, <3>2, <3>3, IdleFacts, PduStepInv DEF PduTypes
  <2>8. CASE f = 0
    <3>1. pdu' = Append(pdu, req[h].pdu)
      BY <1>6, <2>1, <2>8 DEF UpsertServingPDUSession
    <3> DEFINE n == Len(pdu) + 1
    <3>2. /\ pdu' \in Seq(PduRow \cup {Gap}) /\ DOMAIN pdu' = DOMAIN pdu \cup {n}
          /\ n \notin DOMAIN pdu /\ pdu'[n] = req[h].pdu
          /\ \A k \in DOMAIN pdu : pdu'[k] = pdu[k]
      BY <1>3, <3>1, PduRows
    <3> HIDE DEF n
    <3>3. req[h].pdu # Gap
      BY <1>3 DEF Gap, PduRow
    <3>4. \A j \in PduSessions \ muddled : j # i =>
             /\ ListedOf(j)' = ListedOf(j)
             /\ \A k \in ListedOf(j) : pdu'[k].smf = pdu[k].smf
      BY <1>3, <3>2 DEF ListedOf, ListServingPDUSessions
    <3>5. ASSUME i \notin muddled PROVE Lists(i, smf)'
      <4>1. ListedOf(i) = {}
        BY <2>3, <2>8, <3>5
      <4>2. ListedOf(i)' = {n}
        BY <1>3, <3>2, <3>3, <4>1 DEF ListedOf, ListServingPDUSessions
      <4>3. n \in DOMAIN pdu' /\ pdu'[n].smf = smf
        BY <1>3, <3>2
      <4>4. PICK m : m = n
        OBVIOUS
      <4>5. QED
        BY <4>2, <4>3 DEF Lists
    <3>6. QED
      BY <2>7, <3>2, <3>4, <3>5, PduRows
  <2>9. CASE f # 0 /\ pdu[f] = Gap
    <3>1. pdu' = pdu
      BY <1>6, <2>1, <2>9 DEF UpsertServingPDUSession
    <3>2. i \in muddled
      BY <2>3, <2>9 DEF ListedOf, ListServingPDUSessions
    <3>3. QED
      BY <2>7, <3>1, <3>2, PduRows DEF ListedOf, ListServingPDUSessions
  <2>10. CASE f # 0 /\ pdu[f] # Gap
    <3>1. f \in DOMAIN pdu /\ pdu[f] \in PduRow
      BY <2>1, <2>2, <2>10, PduRows DEF FoundOK
    <3>2. IF i = 0 THEN pdu[f].id = 0 \/ pdu[f].id \in muddled ELSE pdu[f].id = i
      BY <1>3, <2>1, <2>2, <2>10 DEF FoundOK
    <3>3. PICK new \in PduRow :
             pdu' = [pdu EXCEPT ![f] = new] /\ new.id = pdu[f].id /\ new.smf = smf
      <4> DEFINE new == [id |-> IF i = 0 THEN pdu[f].id ELSE i, smf |-> smf]
      <4>1. new \in PduRow /\ new.id = pdu[f].id /\ new.smf = smf
        BY <3>1, <3>2 DEF PduRow
      <4>2. pdu' = [pdu EXCEPT ![f] = new]
        BY <1>3, <1>6, <2>1, <2>10 DEF UpsertServingPDUSession
      <4>3. QED
        BY <4>1, <4>2
    <3>4. /\ pdu' \in Seq(PduRow \cup {Gap}) /\ DOMAIN pdu' = DOMAIN pdu
          /\ pdu'[f] = new /\ \A k \in DOMAIN pdu \ {f} : pdu'[k] = pdu[k]
          /\ new # Gap
      BY <3>1, <3>3, PduRows DEF Gap, PduRow
    <3>5. \A j : ListedOf(j)' = ListedOf(j)
      BY <2>10, <3>3, <3>4 DEF ListedOf, ListServingPDUSessions
    <3>6. \A j \in PduSessions \ muddled : j # i => f \notin ListedOf(j)
      BY <3>2 DEF ListedOf
    <3>7. \A j \in PduSessions \ muddled : j # i =>
             /\ ListedOf(j)' = ListedOf(j)
             /\ \A k \in ListedOf(j) : pdu'[k].smf = pdu[k].smf
      BY <3>4, <3>5, <3>6 DEF ListedOf, ListServingPDUSessions
    <3>8. i \notin muddled => Lists(i, smf)'
      BY <2>3, <2>10, <3>1, <3>3, <3>4, <3>5 DEF Lists
    <3>9. QED
      BY <2>7, <2>10, <3>3, <3>4, <3>7, <3>8
  <2>11. QED
    BY <2>8, <2>9, <2>10
<1>7. QED
  BY <1>5, <1>6 DEF WritePdu

\* The row of a PDU session is deleted.
LEMMA ErasePduKeeps ==
    ASSUME IInv, NEW h \in Handlers, ErasePdu(h)
    PROVE  IInv'
<1>1. pc[h] = "erase" /\ req[h].type = "DELETE" /\ Continue(h, "idle")
  BY StepOfType DEF ErasePdu, IInv
<1>2. PICK i \in PduSessions : req[h].pdu.id = i
  BY <1>1, Carries DEF IInv, PduTypes
<1>4. /\ pc' \in [Handlers -> PCs] /\ req' \in [Handlers -> Request]
      /\ pc'[h] = "idle" /\ req'[h] = Idle /\ MovedOnly(h)
  BY <1>1, ContinueFacts DEF IInv, PCs
<1>5. CASE PduFails(h) /\ UNCHANGED pdu
  BY <1>1, <1>5, PduFailKeeps DEF ErasePdu, PduTypes
<1>6. CASE /\ pdu' = DeleteServingPDUSession(req[h].pdu.id)
           /\ UNCHANGED <<muddled, faults>>
  <2>1. i \notin muddled => smfOf[i] = None
    BY <1>1, <1>2 DEF IInv, PduInv, PduOK
  <2>2. UNCHANGED <<gxVars, rxVars, installed, smfOf, requests, muddled, faults>>
    BY <1>6 DEF ErasePdu
  <2>3. /\ muddled \subseteq PduSessions /\ requests' \in Nat /\ faults' \in Nat
        /\ smfOf' \in [PduSessions -> Smfs \cup {None}] 
    BY <2>2 DEF IInv, TypeOK
  <2>4. i \notin muddled => /\ \A g \in Handlers \ {h} : req[g].pdu.id # i
                            /\ \A g \in Handlers : req'[g].pdu.id # i
    BY <1>1, <1>2, <1>4, PduAlone, PduDone DEF PduTypes
  <2>5. /\ pdu' = [k \in DOMAIN pdu |-> IF pdu[k].id = i THEN Gap ELSE pdu[k]]
        /\ DOMAIN pdu' = DOMAIN pdu
        /\ \A k \in DOMAIN pdu : pdu'[k] = IF pdu[k].id = i THEN Gap ELSE pdu[k]
    BY <1>2, <1>6 DEF DeleteServingPDUSession
  <2>6. pdu' \in Seq(PduRow \cup {Gap})
    BY <2>5, PduRows
  <2>7. /\ \A j \in PduSessions : j # i =>
              /\ ListedOf(j)' = ListedOf(j)
              /\ \A k \in ListedOf(j) : pdu'[k].smf = pdu[k].smf
        /\ ListedOf(i)' = {}
    BY <2>5 DEF ListedOf, ListServingPDUSessions
  <2>8. i \notin muddled' => PduOK(i)'
    BY <2>1, <2>2, <2>4, <2>7 DEF PduOK, Registering
  <2>9. PduStep(h, i)
    BY <1>2, <1>4, <2>2, <2>3, <2>4, <2>5, <2>7, <2>8, IdleFacts DEF PduStep
  <2>10. LocalOK(h)'
    BY <1>4, IdleLocal
  <2>11. QED
    BY <1>1, <1>4, <2>2, <2>3, <2>6, <2>9, <2>10, IdleFacts, PduStepInv DEF PduTypes
<1>7. QED
  BY <1>5, <1>6 DEF ErasePdu

-----------------------------------------------------------------------------
(***************************************************************************)
(* Calls.                                                                  *)
(***************************************************************************)
LEMMA NoRules ==
    ASSUME NEW x \in Calls
    PROVE  RulesOf(x) = {} <=> \A b \in installed : b.call # x
<1>1. \A p : p \in RulesOf(x) <=> \E b \in installed : b.call = x /\ p = <<b.gx, b.name>>
  BY DEF RulesOf
<1>2. \A b \in installed : b.call = x => <<b.gx, b.name>> \in RulesOf(x)
  BY <1>1
<1>3. QED
  BY <1>1, <1>2

\* A call whose rules nobody has touched has them.
LEMMA RulesSame ==
    ASSUME NEW x \in Calls,
           \A b \in installed : b.call = x => b \in installed',
           \A b \in installed' : b.call = x => b \in installed
    PROVE  RulesOf(x)' = RulesOf(x)
<1>1. {b \in installed' : b.call = x} = {b \in installed : b.call = x}
  OBVIOUS
<1>2. QED
  BY <1>1 DEF RulesOf

\* Calls that do not clash have no name in common.
LEMMA CalledApart ==
    ASSUME NEW x \in Calls, NEW y \in Calls \ {x}, ~Clash(y)
    PROVE  \A n \in Called(x) : n \notin Called(y)
  BY DEF Clash, Called

\* A step about call x.
RxStep(h, x) ==
    /\ MovedOnly(h) /\ troubled \subseteq troubled' /\ troubled' \subseteq Calls
    /\ UNCHANGED status
    /\ req[h].call \in {x, None} /\ req'[h].call \in {x, None}
    /\ x \notin troubled' => \A g \in Handlers \ {h} : req[g].call # x
    /\ \A y \in Calls \ {x} : calls'[y] = calls[y] /\ (~Clash(y) => RulesOf(y)' = RulesOf(y))
    /\ NamesInv'
    /\ x \notin troubled' /\ ~Clash(x) => CallOK(x)'

\* A step for one call keeps what is said of all of them.
LEMMA RxStepKeeps ==
    ASSUME IInv, NEW h \in Handlers, NEW x \in Calls, RxStep(h, x)
    PROVE  RxInv'
<1>1. \A g \in Handlers \ {h} : pc'[g] = pc[g] /\ req'[g] = req[g]
  BY DEF RxStep, MovedOnly
<1>2. CallsApart'
  <2> SUFFICES ASSUME NEW g \in Handlers, NEW k \in Handlers, g # k,
                      req'[g].call \in Calls, req'[g].call = req'[k].call
               PROVE  req'[g].call \in troubled'
    BY DEF CallsApart
  <2>1. CASE g # h /\ k # h
    <3>1. req[g].call \in troubled
      BY <1>1, <2>1 DEF IInv, RxInv, CallsApart
    <3>2. QED
      BY <1>1, <2>1, <3>1 DEF RxStep
  <2>2. CASE g = h \/ k = h
    BY <1>1, <2>2 DEF RxStep
  <2>3. QED
    BY <2>1, <2>2
<1>3. ASSUME NEW y \in Calls \ troubled', ~Clash(y) PROVE CallOK(y)'
  <2>1. CASE y = x
    BY <1>3, <2>1 DEF RxStep
  <2>2. CASE y # x
    <3>1. CallOK(y)
      BY <1>3 DEF IInv, RxInv, CallInv, RxStep
    <3>2. \A g \in Handlers :
             /\ req'[g].call = y <=> req[g].call = y
             /\ req[g].call = y => pc'[g] = pc[g] /\ req'[g] = req[g]
      BY <1>1, <2>2 DEF RxStep
    <3>3. Serving(y)' <=> Serving(y)
      BY <3>2 DEF Serving
    <3>4. calls'[y] = calls[y] /\ RulesOf(y)' = RulesOf(y) /\ UNCHANGED status
      BY <1>3, <2>2 DEF RxStep
    <3>5. \A g, names : RulesAre(y, g, names)' <=> RulesAre(y, g, names)
      BY <3>4 DEF RulesAre
    <3>6. QED
      BY <3>1, <3>2, <3>3, <3>4, <3>5 DEF CallOK
  <2>3. QED
    BY <2>1, <2>2
<1>4. NamesInv'
  BY DEF RxStep
<1>5. QED
  BY <1>2, <1>3, <1>4 DEF RxInv, CallInv, Clash

\* What is left to show of a step about a call.
LEMMA RxStepInv ==
    ASSUME IInv, NEW h \in Handlers, NEW x \in Calls, RxStep(h, x), LocalOK(h)',
           UNCHANGED <<gxVars, pduVars>>,
           req[h].type \in RxTypes \cup {"none"}, req'[h].type \in RxTypes \cup {"none"},
           req[h].pdu = Gap, req'[h].pdu = Gap, pc'[h] # "write",
           pc' \in [Handlers -> PCs], req' \in [Handlers -> Request],
           calls' \in [Calls -> Call \cup {NoCall}], installed' \subseteq Bearer,
           closed' \subseteq Calls, requests' \in Nat, faults' \in Nat
    PROVE  IInv'
<1>1. MovedOnly(h) /\ troubled' \subseteq Calls
  BY DEF RxStep
<1>2. TypeOK'
  BY <1>1 DEF IInv, TypeOK, gxVars, pduVars
<1>3. LocalInv'
  BY <1>1, LocalKept DEF IInv, gxVars
<1>4. ~OnRow(h) /\ ~OnRow(h)'
  BY DEF OnRow, RxTypes, GxTypes
<1>5. GxInv'
  BY <1>1, <1>4, GxFrame DEF IInv
<1>6. pc[h] # "write"
  BY StepOfType DEF IInv, RxTypes
<1>7. PduInv'
  BY <1>1, <1>6, PduFrame DEF IInv
<1>8. RxInv'
  BY RxStepKeeps
<1>9. QED
  BY <1>2, <1>3, <1>5, <1>7, <1>8 DEF IInv

\* No other request is about the call of one, unless that is noted.
LEMMA CallAlone ==
    ASSUME IInv, NEW h \in Handlers, req[h].type \in RxTypes, req[h].call \notin troubled
    PROVE  \A g \in Handlers \ {h} : req[g].call # req[h].call
  BY Carries DEF IInv, RxInv, CallsApart

\* A handler that is done with a call: nobody works on it any more.
LEMMA CallDone ==
    ASSUME IInv, NEW h \in Handlers, NEW x \in Calls \ troubled, req[h].type \in RxTypes,
           req[h].call = x, MovedOnly(h), req'[h] = Idle
    PROVE  \A g \in Handlers : req'[g].call # x
<1>1. \A g \in Handlers \ {h} : req'[g].call # x
  BY CallAlone DEF MovedOnly
<1>2. req'[h].call # x
  BY IdleFacts
<1>3. QED
  BY <1>1, <1>2

\* An STR is received.
LEMMA StrKeeps ==
    ASSUME IInv, NEW h \in Handlers, NEW x \in Calls, ReceiveSTR(h, x)
    PROVE  IInv'
<1>1. Receive(h) /\ pc[h] = "idle" /\ req[h] = Idle /\ requests' \in Nat
  BY ReceiveFacts DEF ReceiveSTR
<1>2. /\ calls' = [calls EXCEPT ![x] = NoCall] /\ closed' = closed \cup {x}
      /\ troubled' = (IF Serving(x) THEN troubled \cup {x} ELSE troubled)
      /\ UNCHANGED <<gxVars, pduVars, installed, faults>>
  BY DEF ReceiveSTR
<1>3. /\ calls \in [Calls -> Call \cup {NoCall}] /\ troubled \subseteq Calls
      /\ calls' \in [Calls -> Call \cup {NoCall}] /\ closed' \subseteq Calls
      /\ installed' \subseteq Bearer /\ faults' \in Nat
      /\ pc \in [Handlers -> PCs] /\ req \in [Handlers -> Request]
  BY <1>2 DEF IInv, TypeOK
<1>4. calls[x] # NoCall =>
         /\ calls[x].gx \in GxSessions /\ calls[x].names \subseteq Names
         /\ status[calls[x].gx] # "new" /\ calls[x].names \subseteq Called(x)
  BY <1>3 DEF IInv, RxInv, NamesInv, Call
<1>5. NamesInv'
  BY <1>2, <1>3 DEF IInv, RxInv, NamesInv, Called, gxVars
<1>6. /\ \A y \in Calls : RulesOf(y)' = RulesOf(y)
      /\ \A y \in Calls \ {x} : calls'[y] = calls[y]
      /\ calls'[x] = NoCall /\ UNCHANGED status
  BY <1>2, <1>3 DEF RulesOf, gxVars
<1>7. x \notin troubled' => \A g \in Handlers : req[g].call # x
  BY <1>2 DEF Serving
<1>8. x \notin troubled' /\ ~Clash(x) =>
         IF calls[x] = NoCall THEN RulesOf(x) = {}
         ELSE RulesAre(x, calls[x].gx, calls[x].names)
  BY <1>2, <1>7 DEF IInv, RxInv, CallInv, CallOK
<1>9. CASE calls[x].names = {} /\ UNCHANGED <<pc, req>>
  <2>1. x \notin troubled' /\ ~Clash(x) => RulesOf(x) = {}
    <3>1. \A g : {g} \X calls[x].names = {}
      BY <1>9
    <3>2. QED
      BY <1>8, <3>1 DEF RulesAre
  <2>2. x \notin troubled' /\ ~Clash(x) => CallOK(x)'
    BY <2>1, <1>6, <1>7, <1>9 DEF CallOK
  <2>3. RxStep(h, x)
    BY <1>1, <1>2, <1>3, <1>5, <1>6, <1>7, <1>9, <2>2, IdleFacts DEF RxStep, MovedOnly
  <2>4. LocalOK(h)'
    BY <1>1, <1>9, IdleLocal
  <2>5. req[h].type = "none" /\ req'[h].type = "none" /\ req[h].pdu = Gap /\ req'[h].pdu = Gap
    BY <1>1, <1>9, IdleFacts
  <2>6. QED
    BY <1>1, <1>2, <1>3, <1>9, <2>3, <2>4, <2>5, RxStepInv
<1>10. CASE /\ calls[x].names # {}
            /\ Goto(h, "remove", [Idle EXCEPT !.type = "STR", !.call = x, !.gx = calls[x].gx,
                                              !.names = calls[x].names])
  <2> DEFINE r == [Idle EXCEPT !.type = "STR", !.call = x, !.gx = calls[x].gx,
                               !.names = calls[x].names]
  <2>1. calls[x] # NoCall
    BY <1>10 DEF NoCall
  <2>2. /\ r \in Request /\ r.type = "STR" /\ r.gx = calls[x].gx /\ r.call = x
        /\ r.names = calls[x].names /\ r.pdu = Gap
    BY <1>4, <2>1 DEF Idle, Request, Apns
  <2>3. Goto(h, "remove", r) /\ "remove" \in PCs
    BY <1>10 DEF PCs
  <2> HIDE DEF r
  <2>4. /\ pc' \in [Handlers -> PCs] /\ req' \in [Handlers -> Request]
        /\ pc'[h] = "remove" /\ req'[h] = r /\ MovedOnly(h)
    BY <2>2, <2>3, GotoFacts DEF IInv
  <2>5. LocalOK(h)'
    BY <1>4, <1>6, <2>1, <2>2, <2>4
    DEF LocalOK, Places, GxTypes, RxTypes, PduTypes, Called, Gap, PduRow
  <2>6. x \notin troubled' /\ ~Clash(x) => CallOK(x)'
    <3> SUFFICES ASSUME x \notin troubled', ~Clash(x) PROVE CallOK(x)'
      OBVIOUS
    <3>1. RulesAre(x, calls[x].gx, calls[x].names)
      BY <1>8, <2>1
    <3>2. RulesOf(x)' = IF status'[r.gx] = "up" THEN {r.gx} \X r.names ELSE {}
      BY <1>6, <2>2, <3>1 DEF RulesAre
    <3>3. \A g \in Handlers : req'[g].call = x <=> g = h
      BY <1>7, <2>2, <2>4 DEF MovedOnly
    <3>4. QED
      BY <1>6, <2>4, <3>2, <3>3 DEF CallOK, RulesAre, Serving
  <2>7. RxStep(h, x)
    BY <1>1, <1>2, <1>3, <1>5, <1>6, <1>7, <2>2, <2>4, <2>6, IdleFacts DEF RxStep
  <2>8. req[h].type = "none" /\ req[h].pdu = Gap
    BY <1>1, IdleFacts
  <2>9. QED
    BY <1>1, <1>2, <1>3, <2>2, <2>4, <2>5, <2>7, <2>8, RxStepInv DEF RxTypes
<1>11. QED
  BY <1>9, <1>10 DEF ReceiveSTR

\* An AAR is received.
LEMMA AarKeeps ==
    ASSUME IInv, NEW h \in Handlers, NEW x \in Calls, NEW media \in SUBSET Media,
           ReceiveAAR(h, x, media)
    PROVE  IInv'
<1> DEFINE found == RowsFor(ImsiOf[x])
           names == RuleNames(x, media)
<1>1. Receive(h) /\ pc[h] = "idle" /\ req[h] = Idle /\ requests' \in Nat
  BY ReceiveFacts DEF ReceiveAAR
<1>2. /\ troubled' = (IF Serving(x) \/ calls[x] # NoCall THEN troubled \cup {x} ELSE troubled)
      /\ UNCHANGED <<gxVars, pduVars, installed, calls, closed, faults>>
  BY DEF ReceiveAAR
<1>3. /\ calls \in [Calls -> Call \cup {NoCall}] /\ troubled \subseteq Calls
      /\ calls' \in [Calls -> Call \cup {NoCall}] /\ closed' \subseteq Calls
      /\ installed' \subseteq Bearer /\ faults' \in Nat
      /\ pc \in [Handlers -> PCs] /\ req \in [Handlers -> Request]
  BY <1>2 DEF IInv, TypeOK
<1>4. NamesInv'
  BY <1>2 DEF IInv, RxInv, NamesInv, Called, gxVars
<1>5. /\ \A y \in Calls : RulesOf(y)' = RulesOf(y) /\ calls'[y] = calls[y]
      /\ UNCHANGED status
  BY <1>2 DEF RulesOf, gxVars
<1>6. x \notin troubled' => calls[x] = NoCall /\ \A g \in Handlers : req[g].call # x
  BY <1>2 DEF Serving
<1>7. x \notin troubled' /\ ~Clash(x) => RulesOf(x) = {}
  BY <1>2, <1>6 DEF IInv, RxInv, CallInv, CallOK, Serving
<1>8. names \in SUBSET Names /\ names \subseteq Called(x)
  BY DEF RuleNames, Names, Called, Range
<1>9. CASE found = {} /\ UNCHANGED <<pc, req>>
  <2>1. x \notin troubled' /\ ~Clash(x) => CallOK(x)'
    BY <1>5, <1>6, <1>7, <1>9 DEF CallOK
  <2>2. RxStep(h, x)
    BY <1>1, <1>2, <1>3, <1>4, <1>5, <1>6, <1>9, <2>1, IdleFacts DEF RxStep, MovedOnly
  <2>3. LocalOK(h)'
    BY <1>1, <1>9, IdleLocal
  <2>4. req[h].type = "none" /\ req'[h].type = "none" /\ req[h].pdu = Gap /\ req'[h].pdu = Gap
    BY <1>1, <1>9, IdleFacts
  <2>5. QED
    BY <1>1, <1>2, <1>3, <1>9, <2>2, <2>3, <2>4, RxStepInv
<1>10. ASSUME NEW k \in found,
              Goto(h, IF names = {} THEN "store" ELSE "install",
                   [Idle EXCEPT !.type = "AAR", !.call = x, !.gx = rows[k].gx, !.names = names])
       PROVE  IInv'
  <2> DEFINE step == IF names = {} THEN "store" ELSE "install"
  <2>1. PICK s \in GxSessions : rows[k].gx = s /\ status[s] # "new"
    <3>1. k \in DOMAIN rows /\ rows[k] # Gone /\ rows[k] \in Row \cup {Gone}
      BY <1>10 DEF RowsFor, IInv, TypeOK
    <3>2. QED
      BY <3>1 DEF IInv, GxInv, RowsInv, Row
  <2> DEFINE r == [Idle EXCEPT !.type = "AAR", !.call = x, !.gx = s, !.names = names]
  <2>2. /\ r \in Request /\ r.type = "AAR" /\ r.gx = s /\ r.call = x /\ r.names = names
        /\ r.pdu = Gap
    BY <1>8 DEF Idle, Request, Apns
  <2>3. Goto(h, step, r) /\ step \in PCs /\ step \in {"store", "install"}
    BY <1>10, <2>1 DEF PCs
  <2>4. step = "store" => names = {}
    OBVIOUS
  <2> HIDE DEF r, step
  <2>5. /\ pc' \in [Handlers -> PCs] /\ req' \in [Handlers -> Request]
        /\ pc'[h] = step /\ req'[h] = r /\ MovedOnly(h)
    BY <2>2, <2>3, GotoFacts DEF IInv
  <2>6. LocalOK(h)'
    BY <1>5, <1>8, <2>1, <2>2, <2>3, <2>5
    DEF LocalOK, Places, GxTypes, RxTypes, PduTypes, Called, Gap, PduRow
  <2>7. x \notin troubled' /\ ~Clash(x) => CallOK(x)'
    <3> SUFFICES ASSUME x \notin troubled', ~Clash(x) PROVE CallOK(x)'
      OBVIOUS
    <3>1. RulesOf(x)' = {} /\ calls'[x] = NoCall
      BY <1>5, <1>6, <1>7
    <3>2. names = {} => {r.gx} \X r.names = {}
      BY <2>2
    <3>3. \A g \in Handlers : req'[g].call = x <=> g = h
      BY <1>6, <2>2, <2>5 DEF MovedOnly
    <3>4. QED
      BY <2>3, <2>4, <2>5, <3>1, <3>2, <3>3 DEF CallOK, RulesAre, Serving
  <2>8. RxStep(h, x)
    BY <1>1, <1>2, <1>3, <1>4, <1>5, <1>6, <2>2, <2>5, <2>7, IdleFacts DEF RxStep
  <2>9. req[h].type = "none" /\ req[h].pdu = Gap
    BY <1>1, IdleFacts
  <2>10. QED
    BY <1>1, <1>2, <1>3, <2>2, <2>3, <2>5, <2>6, <2>8, <2>9, RxStepInv DEF RxTypes
<1>11. QED
  BY <1>9, <1>10 DEF ReceiveAAR

\* What a handler of a call knows of it.
LEMMA CallFacts ==
    ASSUME IInv, NEW h \in Handlers, req[h].type \in RxTypes
    PROVE  /\ req[h].call \in Calls /\ req[h].gx \in GxSessions /\ req[h].pdu = Gap
           /\ req[h].names \subseteq Names /\ req[h].names \subseteq Called(req[h].call)
           /\ status[req[h].gx] # "new" /\ req[h] \in Request
<1>1. req[h].call \in Calls /\ req[h].gx \in GxSessions /\ req[h].pdu = Gap
  BY Carries DEF IInv
<1>2. req[h] \in Request
  BY DEF IInv, TypeOK
<1>3. LocalOK(h)
  BY DEF IInv, LocalInv
<1>4. QED
  BY <1>1, <1>2, <1>3 DEF LocalOK, Request

\* A handler whose RAR is not carried out: it is noted.
LEMMA RarFailKeeps ==
    ASSUME IInv, NEW h \in Handlers, NEW step \in {"idle", "store"},
           req[h].type = IF step = "idle" THEN "STR" ELSE "AAR", Continue(h, step),
           Fault, troubled' = troubled \cup {req[h].call},
           UNCHANGED <<gxVars, pduVars, calls, closed, installed, requests>>
    PROVE  IInv'
<1>1. PICK x \in Calls : req[h].call = x
  BY CallFacts DEF RxTypes
<1>2. /\ req[h].type \in RxTypes /\ req[h].pdu = Gap /\ req[h].gx \in GxSessions
      /\ req[h].names \subseteq Called(x) /\ status[req[h].gx] # "new"
  BY <1>1, CallFacts DEF RxTypes
<1>3. /\ pc' \in [Handlers -> PCs] /\ req' \in [Handlers -> Request] /\ MovedOnly(h)
      /\ pc'[h] = step /\ req'[h] = IF step = "idle" THEN Idle ELSE req[h]
  BY ContinueFacts DEF IInv, PCs
<1>4. /\ troubled' \subseteq Calls /\ x \in troubled' /\ troubled \subseteq troubled'
      /\ calls' \in [Calls -> Call \cup {NoCall}] /\ closed' \subseteq Calls
      /\ installed' \subseteq Bearer /\ faults' \in Nat /\ requests' \in Nat
      /\ UNCHANGED status
  BY <1>1 DEF IInv, TypeOK, Fault, gxVars
<1>5. NamesInv' /\ \A y \in Calls : RulesOf(y)' = RulesOf(y) /\ calls'[y] = calls[y]
  BY <1>4 DEF IInv, RxInv, NamesInv, Called, RulesOf
<1>6. RxStep(h, x)
  BY <1>1, <1>3, <1>4, <1>5, IdleFacts DEF RxStep
<1>7. LocalOK(h)'
  <2>1. CASE step = "idle"
    BY <1>3, <2>1, IdleLocal
  <2>2. CASE step = "store"
    BY <1>1, <1>2, <1>3, <1>4, <2>2
    DEF LocalOK, Places, GxTypes, RxTypes, PduTypes, Called, Gap, PduRow
  <2>3. QED
    BY <2>1, <2>2
<1>8. req'[h].type \in RxTypes \cup {"none"} /\ req'[h].pdu = Gap /\ pc'[h] # "write"
  BY <1>2, <1>3, IdleFacts
<1>9. QED
  BY <1>2, <1>3, <1>4, <1>6, <1>7, <1>8, RxStepInv

\* Removing names of call x leaves the calls alone that do not clash.
LEMMA RemoveTakes ==
    ASSUME NEW x \in Calls, NEW g, NEW names, names \subseteq Called(x), NamesInv, TypeOK,
           installed' = sendGxRARRemove(g, names)
    PROVE  /\ installed' \subseteq installed /\ installed' \subseteq Bearer
           /\ \A y \in Calls \ {x} : ~Clash(y) => RulesOf(y)' = RulesOf(y)
           /\ RulesOf(x) = {g} \X names => RulesOf(x)' = {}
<1>1. \A b : b \in installed' <=> b \in installed /\ (b.gx # g \/ b.name \notin names)
  BY DEF sendGxRARRemove
<1>2. installed' \subseteq installed /\ installed' \subseteq Bearer
  BY <1>1 DEF TypeOK
<1>3. ASSUME NEW y \in Calls \ {x}, ~Clash(y) PROVE RulesOf(y)' = RulesOf(y)
  <2>1. \A b \in installed : b.call = y => b.name \notin names
    BY <1>3, CalledApart DEF NamesInv
  <2>2. QED
    BY <1>1, <2>1, RulesSame
<1>4. ASSUME RulesOf(x) = {g} \X names PROVE RulesOf(x)' = {}
  <2>0. \A b \in installed : b.call = x => <<b.gx, b.name>> \in {g} \X names
    BY <1>4 DEF RulesOf
  <2>1. \A b \in installed : b.call = x => b.gx = g /\ b.name \in names
    BY <2>0
  <2>2. {b \in installed' : b.call = x} = {}
    BY <1>1, <2>1
  <2>3. QED
    BY <2>2 DEF RulesOf
<1>5. QED
  BY <1>2, <1>3, <1>4

\* The RAR that installs the rules of an AAR.
LEMMA InstallKeeps ==
    ASSUME IInv, NEW h \in Handlers, Install(h)
    PROVE  IInv'
<1>1. pc[h] = "install" /\ req[h].type = "AAR"
  BY StepOfType DEF Install, IInv
<1>2. PICK x \in Calls, g \in GxSessions, names \in SUBSET Names :
         req[h].call = x /\ req[h].gx = g /\ req[h].names = names
  BY <1>1, CallFacts DEF RxTypes
<1>3. /\ req[h].pdu = Gap /\ names \subseteq Called(x) /\ status[g] # "new"
      /\ req[h] \in Request
  BY <1>1, <1>2, CallFacts DEF RxTypes
<1>4. UNCHANGED <<gxVars, pduVars, calls, closed, requests>>
  BY DEF Install
<1>5. /\ troubled \subseteq Calls /\ installed \subseteq Bearer /\ faults \in Nat
      /\ calls' \in [Calls -> Call \cup {NoCall}] /\ closed' \subseteq Calls
      /\ requests' \in Nat /\ UNCHANGED status
  BY <1>4 DEF IInv, TypeOK, gxVars
<1>6. x \notin troubled => \A k \in Handlers \ {h} : req[k].call # x
  BY <1>1, <1>2, CallAlone DEF RxTypes
<1>7. x \notin troubled /\ ~Clash(x) => calls[x] = NoCall /\ RulesOf(x) = {}
  BY <1>1, <1>2 DEF IInv, RxInv, CallInv, CallOK
<1>8. ASSUME NEW ns \in SUBSET Names, Goto(h, "store", [req[h] EXCEPT !.names = ns]),
             ns \subseteq Called(x), UNCHANGED troubled,
             installed' \subseteq Bearer, faults' \in Nat, NamesInv',
             \A y \in Calls \ {x} : ~Clash(y) => RulesOf(y)' = RulesOf(y),
             x \notin troubled /\ ~Clash(x) => RulesAre(x, g, ns)'
      PROVE  IInv'
  <2> DEFINE r == [req[h] EXCEPT !.names = ns]
  <2>1. /\ r \in Request /\ r.type = "AAR" /\ r.call = x /\ r.gx = g /\ r.pdu = Gap
        /\ r.names = ns
    BY <1>1, <1>2, <1>3, <1>8 DEF Request
  <2>7. Goto(h, "store", r)
    BY <1>8
  <2> HIDE DEF r
  <2>2. /\ pc' \in [Handlers -> PCs] /\ req' \in [Handlers -> Request]
        /\ pc'[h] = "store" /\ req'[h] = r /\ MovedOnly(h)
    BY <2>1, <2>7, GotoFacts DEF IInv, PCs
  <2>3. LocalOK(h)'
    BY <1>3, <1>5, <1>8, <2>1, <2>2
    DEF LocalOK, Places, GxTypes, RxTypes, PduTypes, Called, Gap, PduRow
  <2>4. x \notin troubled' /\ ~Clash(x) => CallOK(x)'
    <3> SUFFICES ASSUME x \notin troubled', ~Clash(x) PROVE CallOK(x)'
      OBVIOUS
    <3>1. \A k \in Handlers : req'[k].call = x <=> k = h
      BY <1>6, <1>8, <2>1, <2>2 DEF MovedOnly
    <3>2. RulesAre(x, req[h].gx, req[h].names)' /\ calls'[x] = NoCall
      BY <1>4, <1>7, <1>8, <2>1, <2>2
    <3>3. Serving(x)'
      BY <3>1 DEF Serving
    <3>4. QED
      BY <2>2, <3>1, <3>2, <3>3 DEF CallOK
  <2>5. RxStep(h, x)
    BY <1>2, <1>4, <1>5, <1>6, <1>8, <2>1, <2>2, <2>4 DEF RxStep
  <2>6. QED
    BY <1>1, <1>3, <1>4, <1>5, <1>8, <2>1, <2>2, <2>3, <2>5, RxStepInv DEF RxTypes
<1>9. CASE /\ Continue(h, "store")
           /\ installed' = sendGxRAR(req[h].gx, req[h].names, req[h].call)
           /\ UNCHANGED <<troubled, faults>>
  <2>1. Goto(h, "store", [req[h] EXCEPT !.names = names])
    <3>1. [req[h] EXCEPT !.names = names] = req[h]
      BY <1>2, <1>3 DEF Request
    <3>2. QED
      BY <1>9, <3>1 DEF Continue
  <2>2. CASE status[g] # "up"
    <3>1. installed' = installed
      BY <1>2, <1>9, <2>2 DEF sendGxRAR
    <3>2. \A y \in Calls : RulesOf(y)' = RulesOf(y)
      BY <3>1 DEF RulesOf
    <3>3. NamesInv'
      BY <1>4, <1>5, <3>1 DEF IInv, RxInv, NamesInv, Called
    <3>4. x \notin troubled /\ ~Clash(x) => RulesAre(x, g, names)'
      BY <1>5, <1>7, <2>2, <3>2 DEF RulesAre
    <3>5. QED
      BY <1>2, <1>3, <1>5, <1>8, <1>9, <2>1, <3>1, <3>2, <3>3, <3>4
  <2>3. CASE status[g] = "up"
    <3> DEFINE new == [gx : {g}, name : names, call : {x}]
    <3>1. installed' = sendGxRARRemove(g, names) \cup new
      BY <1>2, <1>9, <2>3 DEF sendGxRAR
    <3>2. /\ new \subseteq Bearer /\ \A b \in new : b.gx = g /\ b.name \in names /\ b.call = x
          /\ \A n \in names : [gx |-> g, name |-> n, call |-> x] \in new
      BY DEF Bearer
    <3> HIDE DEF new
    <3>3. \A b : b \in installed' <=> \/ b \in new
                                      \/ b \in installed /\ (b.gx # g \/ b.name \notin names)
      BY <3>1 DEF sendGxRARRemove
    <3>4. installed' \subseteq Bearer
      BY <1>5, <3>2, <3>3
    <3>5. NamesInv'
      BY <1>3, <1>4, <1>5, <3>2, <3>3 DEF IInv, RxInv, NamesInv, Called
    <3>6. ASSUME NEW y \in Calls \ {x}, ~Clash(y) PROVE RulesOf(y)' = RulesOf(y)
      <4>1. \A b \in installed : b.call = y => b.name \notin names
        BY <1>3, <3>6, CalledApart DEF IInv, RxInv, NamesInv
      <4>2. QED
        BY <3>2, <3>3, <4>1, RulesSame
    <3>7. ASSUME x \notin troubled, ~Clash(x) PROVE RulesAre(x, g, names)'
      <4>1. \A b \in installed : b.call # x
        BY <1>7, <3>7, NoRules
      <4>2. {b \in installed' : b.call = x} = new
        BY <3>2, <3>3, <4>1
      <4>3. RulesOf(x)' = {<<b.gx, b.name>> : b \in new}
        BY <4>2 DEF RulesOf
      <4>4. ASSUME NEW p \in {g} \X names PROVE p \in RulesOf(x)'
        <5>1. PICK n \in names : p = <<g, n>>
          BY <4>4
        <5>2. [gx |-> g, name |-> n, call |-> x] \in new
          BY <3>2
        <5>3. QED
          BY <4>3, <5>1, <5>2
      <4>5. \A p \in RulesOf(x)' : p \in {g} \X names
        BY <3>2, <4>3
      <4>6. RulesOf(x)' = {g} \X names
        BY <4>4, <4>5
      <4>7. QED
        BY <1>5, <2>3, <4>6 DEF RulesAre
    <3>8. QED
      BY <1>2, <1>3, <1>5, <1>8, <1>9, <2>1, <3>4, <3>5, <3>6, <3>7
  <2>4. QED
    BY <2>2, <2>3
<1>10. CASE /\ Continue(h, "store") /\ Fault /\ troubled' = troubled \cup {req[h].call}
            /\ UNCHANGED installed
  BY <1>1, <1>4, <1>10, RarFailKeeps
<1>11. CASE /\ Goto(h, "store", [req[h] EXCEPT !.names = {}])
            /\ Fault /\ UNCHANGED <<installed, troubled>>
  <2>1. faults' \in Nat
    BY <1>5, <1>11 DEF Fault
  <2>2. NamesInv' /\ \A y \in Calls : RulesOf(y)' = RulesOf(y)
    BY <1>4, <1>5, <1>11 DEF IInv, RxInv, NamesInv, Called, RulesOf
  <2>3. x \notin troubled /\ ~Clash(x) => RulesAre(x, g, {})'
    BY <1>7, <2>2 DEF RulesAre
  <2>4. QED
    BY <1>5, <1>8, <1>11, <2>1, <2>2, <2>3
<1>12. QED
  BY <1>9, <1>10, <1>11 DEF Install

\* The call is put into the map.
LEMMA StoreKeeps ==
    ASSUME IInv, NEW h \in Handlers, StoreCall(h)
    PROVE  IInv'
<1>1. pc[h] = "store" /\ req[h].type = "AAR" /\ Continue(h, "idle")
  BY StepOfType DEF StoreCall, IInv
<1>2. PICK x \in Calls, g \in GxSessions, names \in SUBSET Names :
         req[h].call = x /\ req[h].gx = g /\ req[h].names = names
  BY <1>1, CallFacts DEF RxTypes
<1>3. req[h].pdu = Gap /\ names \subseteq Called(x) /\ status[g] # "new"
  BY <1>1, <1>2, CallFacts DEF RxTypes
<1>4. /\ pc' \in [Handlers -> PCs] /\ req' \in [Handlers -> Request] /\ MovedOnly(h)
      /\ pc'[h] = "idle" /\ req'[h] = Idle
  BY <1>1, ContinueFacts DEF IInv, PCs
<1> DEFINE new == [gx |-> g, names |-> names]
<1>5. /\ calls' = [calls EXCEPT ![x] = new]
      /\ UNCHANGED <<gxVars, pduVars, installed, closed, troubled, requests, faults>>
  BY <1>2 DEF StoreCall, Remembered
<1>6. new \in Call /\ new # NoCall /\ new.gx = g /\ new.names = names
  BY DEF Call, NoCall
<1> HIDE DEF new
<1>7. /\ troubled \subseteq Calls /\ calls \in [Calls -> Call \cup {NoCall}]
      /\ calls' \in [Calls -> Call \cup {NoCall}] /\ closed' \subseteq Calls
      /\ installed' \subseteq Bearer /\ requests' \in Nat /\ faults' \in Nat
      /\ UNCHANGED status
  BY <1>5, <1>6 DEF IInv, TypeOK, gxVars
<1>8. /\ calls'[x] = new /\ \A y \in Calls \ {x} : calls'[y] = calls[y]
      /\ \A y \in Calls : RulesOf(y)' = RulesOf(y)
  BY <1>5, <1>7 DEF RulesOf
<1>9. NamesInv'
  <2>1. \A b \in installed' : b.name \in Called(b.call)'
    BY <1>5 DEF IInv, RxInv, NamesInv, Called
  <2>2. ASSUME NEW y \in Calls, calls'[y] # NoCall
        PROVE  status'[calls'[y].gx] # "new" /\ calls'[y].names \subseteq Called(y)
    BY <1>3, <1>6, <1>7, <1>8, <2>2 DEF IInv, RxInv, NamesInv
  <2>3. QED
    BY <2>1, <2>2 DEF NamesInv, Called
<1>10. x \notin troubled => /\ \A k \in Handlers \ {h} : req[k].call # x
                           /\ \A k \in Handlers : req'[k].call # x
  BY <1>1, <1>2, <1>4, CallAlone, CallDone DEF RxTypes
<1>11. ASSUME x \notin troubled', ~Clash(x) PROVE CallOK(x)'
  <2>1. RulesAre(x, g, names)
    BY <1>1, <1>2, <1>5, <1>11 DEF IInv, RxInv, CallInv, CallOK
  <2>2. RulesAre(x, calls'[x].gx, calls'[x].names)
    BY <1>6, <1>8, <2>1
  <2>3. RulesOf(x)' = IF status'[calls'[x].gx] = "up" THEN {calls'[x].gx} \X calls'[x].names
                      ELSE {}
    BY <1>7, <1>8, <2>2 DEF RulesAre
  <2>4. QED
    BY <1>5, <1>6, <1>8, <1>10, <1>11, <2>3 DEF CallOK, RulesAre
<1>12. RxStep(h, x)
  BY <1>2, <1>4, <1>5, <1>7, <1>8, <1>9, <1>10, <1>11, IdleFacts DEF RxStep
<1>13. LocalOK(h)'
  BY <1>4, IdleLocal
<1>14. QED
  BY <1>1, <1>3, <1>4, <1>5, <1>7, <1>12, <1>13, IdleFacts, RxStepInv DEF RxTypes

\* The RAR that removes the rules of a call.
LEMMA RemoveKeeps ==
    ASSUME IInv, NEW h \in Handlers, RemoveRules(h)
    PROVE  IInv'
<1>1. pc[h] = "remove" /\ req[h].type = "STR" /\ Continue(h, "idle")
  BY StepOfType DEF RemoveRules, IInv
<1>2. PICK x \in Calls, g \in GxSessions, names \in SUBSET Names :
         req[h].call = x /\ req[h].gx = g /\ req[h].names = names
  BY <1>1, CallFacts DEF RxTypes
<1>3. req[h].pdu = Gap /\ names \subseteq Called(x)
  BY <1>1, <1>2, CallFacts DEF RxTypes
<1>4. /\ pc' \in [Handlers -> PCs] /\ req' \in [Handlers -> Request] /\ MovedOnly(h)
      /\ pc'[h] = "idle" /\ req'[h] = Idle
  BY <1>1, ContinueFacts DEF IInv, PCs
<1>5. UNCHANGED <<gxVars, pduVars, calls, closed, requests>>
  BY DEF RemoveRules
<1>6. CASE Fault /\ troubled' = troubled \cup {req[h].call} /\ UNCHANGED installed
  BY <1>1, <1>5, <1>6, RarFailKeeps
<1>7. CASE installed' = sendGxRARRemove(req[h].gx, req[h].names) /\ UNCHANGED <<troubled, faults>>
  <2>1. /\ troubled \subseteq Calls /\ calls' \in [Calls -> Call \cup {NoCall}]
        /\ closed' \subseteq Calls /\ requests' \in Nat /\ faults' \in Nat
        /\ UNCHANGED status
    BY <1>5, <1>7 DEF IInv, TypeOK, gxVars
  <2>2. /\ installed' \subseteq installed /\ installed' \subseteq Bearer
        /\ \A y \in Calls \ {x} : ~Clash(y) => RulesOf(y)' = RulesOf(y)
        /\ RulesOf(x) = {g} \X names => RulesOf(x)' = {}
    BY <1>2, <1>3, <1>7, RemoveTakes DEF IInv, RxInv
  <2>3. RulesOf(x) = {} => RulesOf(x)' = {}
    <3>1. RulesOf(x) = {} => {b \in installed' : b.call = x} = {}
      BY <2>2, NoRules
    <3>2. QED
      BY <3>1 DEF RulesOf
  <2>4. NamesInv'
    BY <1>5, <2>1, <2>2 DEF IInv, RxInv, NamesInv, Called
  <2>5. x \notin troubled => /\ \A k \in Handlers \ {h} : req[k].call # x
                            /\ \A k \in Handlers : req'[k].call # x
    BY <1>1, <1>2, <1>4, CallAlone, CallDone DEF RxTypes
  <2>6. ASSUME x \notin troubled', ~Clash(x) PROVE CallOK(x)'
    <3>1. calls[x] = NoCall /\ RulesAre(x, g, names)
      BY <1>1, <1>2, <1>7, <2>6 DEF IInv, RxInv, CallInv, CallOK
    <3>2. RulesOf(x)' = {}
      BY <2>2, <2>3, <3>1 DEF RulesAre
    <3>3. QED
      BY <1>5, <1>7, <2>5, <2>6, <3>1, <3>2 DEF CallOK
  <2>7. RxStep(h, x)
    BY <1>2, <1>4, <1>5, <1>7, <2>1, <2>2, <2>4, <2>5, <2>6, IdleFacts DEF RxStep
  <2>8. LocalOK(h)'
    BY <1>4, IdleLocal
  <2>9. QED
    BY <1>1, <1>3, <1>4, <1>5, <1>7, <2>1, <2>2, <2>7, <2>8, IdleFacts, RxStepInv DEF RxTypes
<1>8. QED
  BY <1>6, <1>7 DEF RemoveRules

-----------------------------------------------------------------------------
(***************************************************************************)
(* Gx sessions.                                                            *)
(***************************************************************************)
LEMMA SlotFacts ==
    ASSUME NEW s \in GxSessions, NEW t \in GxSessions
    PROVE  /\ Key(s) = Key(t) => ImsiOf[s] = ImsiOf[t]
           /\ Slot(s) = Slot(t) => ImsiOf[s] = ImsiOf[t]
           /\ ImsiOf[s] \in Known => (Slot(t) = Slot(s) <=> Key(t) = Key(s))
           /\ ImsiOf[s] \notin Known /\ ImsiOf[s] = ImsiOf[t] => Slot(s) = Slot(t)
<1>1. Key(s) = Key(t) => ImsiOf[s] = ImsiOf[t]
  BY DEF Key
<1>2. ImsiOf[s] \notin Known /\ ImsiOf[s] = ImsiOf[t] => Slot(s) = Slot(t)
  BY DEF Slot
<1>3. \A i, j, a : <<i>> # <<j, a>>
  OBVIOUS
<1>4. \A x, y : (ImsiOf[x] \in Known) # (ImsiOf[y] \in Known) => Slot(x) # Slot(y)
  BY <1>3 DEF Slot, Key
<1>5. Slot(s) = Slot(t) => ImsiOf[s] = ImsiOf[t]
  <2>1. CASE ImsiOf[s] \in Known
    BY <1>1, <1>4, <2>1 DEF Slot
  <2>2. CASE ImsiOf[s] \notin Known
    <3>1. \A i, j : <<i>> = <<j>> => i = j
      OBVIOUS
    <3>2. Slot(s) = Slot(t) => Slot(s) = <<ImsiOf[s]>> /\ Slot(t) = <<ImsiOf[t]>>
      BY <1>4, <2>2 DEF Slot
    <3>3. QED
      BY <3>1, <3>2
  <2>3. QED
    BY <2>1, <2>2
<1>6. ImsiOf[s] \in Known => (Slot(t) = Slot(s) <=> Key(t) = Key(s))
  <2>1. Key(t) = Key(s) => ImsiOf[t] = ImsiOf[s]
    BY DEF Key
  <2>2. QED
    BY <1>5, <2>1 DEF Slot
<1>7. QED
  BY <1>1, <1>2, <1>5, <1>6

\* The rows, place by place.
LEMMA RowFacts ==
    ASSUME IInv
    PROVE  /\ rows \in Seq(Row \cup {Gone}) /\ DOMAIN rows = 1 .. Len(rows) /\ Len(rows) \in Nat
           /\ \A k \in DOMAIN rows : rows[k] # Gone =>
                 /\ rows[k] \in Row /\ rows[k].gx \in GxSessions
                 /\ ImsiOf[rows[k].gx] \in Known /\ status[rows[k].gx] # "new"
                 /\ rows[k].apn = Home(rows[k].gx) \/ rows[k].gx \in failed
           /\ \A k \in DOMAIN rows : \A s \in GxSessions : rows[k].gx = s => rows[k] # Gone
           /\ \A s \in GxSessions : \A r : r \in RowOf(s) <=>
                 \E k \in DOMAIN rows : rows[k] = r /\ r.gx = s
<1>1. rows \in Seq(Row \cup {Gone})
  BY DEF IInv, TypeOK
<1>2. Gone.gx = None /\ \A r \in Row : r.gx \in GxSessions
  BY DEF Gone, Row
<1>3. RowsInv
  BY DEF IInv, GxInv
<1>4. \A s \in GxSessions : \A r : r \in RowOf(s) <=>
                 \E k \in DOMAIN rows : rows[k] = r /\ r.gx = s
  BY DEF RowOf, Range
<1>5. QED
  BY <1>1, <1>2, <1>3, <1>4 DEF RowsInv

\* A row is of one that has begun and is provisioned.
LEMMA RowOwner ==
    ASSUME IInv, NEW s \in GxSessions, RowOf(s) # {}
    PROVE  ImsiOf[s] \in Known /\ status[s] # "new"
  BY RowFacts

\* What an upsert writes: the row of the session, in the place of those it takes.
LEMMA UpsertRows ==
    ASSUME IInv, NEW s \in GxSessions, NEW row \in Row, row.gx = s,
           row.apn = Home(s) \/ s \in failed, ImsiOf[s] \in Known, status[s] # "new",
           rows' = Upserted(row), UNCHANGED <<status, failed>>
    PROVE  /\ rows' \in Seq(Row \cup {Gone}) /\ RowsInv'
           /\ s \notin failed => RowOf(s)' = {row}
           /\ Ousted(row) \subseteq GxSessions \ {s}
           /\ \A u \in GxSessions \ {s} : u \notin Ousted(row) => RowOf(u)' = RowOf(u)
           /\ \A u \in Ousted(row) \ failed : RowOf(u)' = {} /\ s \in TakenBy(u)
<1> DEFINE n == Len(rows) + 1
<1>1. row # Gone /\ RowKey(row) = <<ImsiOf[s], row.apn>>
  BY DEF Row, Gone, RowKey
<1>2. rows' = IF Taken(row) = {} THEN Append(rows, row)
              ELSE [k \in DOMAIN rows |-> IF k \in Taken(row) THEN row ELSE rows[k]]
  BY DEF Upserted
<1>0. /\ rows \in Seq(Row \cup {Gone}) /\ row \in Row \cup {Gone}
      /\ DOMAIN rows = 1 .. Len(rows) /\ Len(rows) \in Nat
      /\ \A k \in DOMAIN rows : rows[k] \in Row \cup {Gone}
  <2>1. rows \in Seq(Row \cup {Gone})
    BY RowFacts
  <2>2. QED
    BY <1>1, <2>1
<1>3. /\ rows' \in Seq(Row \cup {Gone})
      /\ \A k \in DOMAIN rows : /\ k \in DOMAIN rows'
                                /\ rows'[k] = IF k \in Taken(row) THEN row ELSE rows[k]
      /\ \A k \in DOMAIN rows' : k \in DOMAIN rows \/ rows'[k] = row
      /\ \E k \in DOMAIN rows' : rows'[k] = row
  <2>1. CASE Taken(row) = {}
    <3>1. rows' = Append(rows, row)
      BY <1>2, <2>1
    <3>2. /\ rows' \in Seq(Row \cup {Gone}) /\ DOMAIN rows' = DOMAIN rows \cup {n}
          /\ rows'[n] = row /\ \A k \in DOMAIN rows : rows'[k] = rows[k]
          /\ n \in DOMAIN rows'
      <4>1. /\ rows' \in Seq(Row \cup {Gone}) /\ Len(rows') = n /\ rows'[n] = row
            /\ \A k \in 1 .. Len(rows) : rows'[k] = rows[k]
        <5>1. /\ Append(rows, row) \in Seq(Row \cup {Gone})
              /\ Len(Append(rows, row)) = n /\ Append(rows, row)[n] = row
              /\ \A k \in 1 .. Len(rows) : Append(rows, row)[k] = rows[k]
          BY <1>0, AppendProperties
        <5>2. QED
          BY <3>1, <5>1
      <4>2. DOMAIN rows' = 1 .. n
        BY <4>1
      <4>3. 1 .. n = 1 .. Len(rows) \cup {n} /\ n \in 1 .. n
        BY <1>0
      <4>4. QED
        BY <1>0, <4>1, <4>2, <4>3
    <3>3. \A k \in DOMAIN rows : k \notin Taken(row)
      BY <2>1
    <3> HIDE DEF n
    <3>4. QED
      BY <3>2, <3>3
  <2>2. CASE Taken(row) # {}
    <3>1. rows' = [k \in DOMAIN rows |-> IF k \in Taken(row) THEN row ELSE rows[k]]
      BY <1>2, <2>2
    <3>2. rows' \in Seq(Row \cup {Gone})
      BY <1>0, <3>1
    <3>3. Taken(row) \subseteq DOMAIN rows
      BY DEF Taken
    <3>4. QED
      BY <2>2, <3>1, <3>2, <3>3
  <2>3. QED
    BY <2>1, <2>2
<1>4. \A u \in GxSessions : \A r : r \in RowOf(u)' <=>
         \E k \in DOMAIN rows' : rows'[k] = r /\ r.gx = u
  BY DEF RowOf, Range
<1>5. RowsInv'
  BY <1>3, RowFacts DEF RowsInv
<1>6. \A k \in Taken(row) : /\ k \in DOMAIN rows /\ rows[k].gx \in GxSessions
                            /\ ImsiOf[rows[k].gx] = ImsiOf[s] /\ rows[k].apn = row.apn
  BY <1>1, RowFacts DEF Taken, RowKey
\* A session that no fault has hit has all its rows under one key.
<1>7. ASSUME NEW u \in GxSessions \ failed, NEW k \in DOMAIN rows, rows[k].gx = u,
             ImsiOf[u] = ImsiOf[s], Home(u) = row.apn
      PROVE  k \in Taken(row)
  BY <1>1, <1>7, RowFacts DEF Taken, RowKey
<1>8. ASSUME s \notin failed PROVE RowOf(s)' = {row}
  <2>1. \A k \in DOMAIN rows : rows[k].gx = s => k \in Taken(row)
    BY <1>7, <1>8
  <2>2. \A r : r \in RowOf(s)' <=> r = row
    BY <1>3, <1>4, <2>1
  <2>3. QED
    BY <2>2
<1>9. Ousted(row) \subseteq GxSessions \ {s}
  BY <1>6 DEF Ousted
<1>10. ASSUME NEW u \in GxSessions \ {s}, u \notin Ousted(row) PROVE RowOf(u)' = RowOf(u)
  <2>1. \A k \in DOMAIN rows : rows[k].gx = u => k \notin Taken(row)
    BY <1>10 DEF Ousted
  <2>2. \A r : r \in RowOf(u) <=> \E k \in DOMAIN rows : rows[k] = r /\ r.gx = u
    BY RowFacts
  <2>3. \A k \in DOMAIN rows' : rows'[k].gx = u => k \in DOMAIN rows /\ rows'[k] = rows[k]
    BY <1>3
  <2>4. \A k \in DOMAIN rows : rows[k].gx = u => k \in DOMAIN rows' /\ rows'[k] = rows[k]
    BY <1>3, <2>1
  <2>5. \A r : r \in RowOf(u)' <=> r \in RowOf(u)
    BY <1>4, <2>2, <2>3, <2>4
  <2>6. QED
    BY <2>5
<1>11. ASSUME NEW u \in Ousted(row) \ failed PROVE RowOf(u)' = {} /\ s \in TakenBy(u)
  <2>1. PICK k \in Taken(row) : rows[k].gx = u
    BY DEF Ousted
  <2>2. /\ u \in GxSessions \ {s} /\ ImsiOf[u] = ImsiOf[s] /\ rows[k].apn = row.apn
        /\ rows[k].apn = Home(u)
    BY <1>6, <1>9, <1>11, <2>1, RowFacts
  <2>3. \A l \in DOMAIN rows : rows[l].gx = u => l \in Taken(row)
    BY <1>7, <1>11, <2>2
  <2>4. \A l \in DOMAIN rows' : rows'[l].gx # u
    BY <1>3, <2>2, <2>3
  <2>5. RowOf(u)' = {}
    BY <1>4, <2>2, <2>4
  <2>6. QED
    BY <2>2, <2>5 DEF TakenBy
<1>12. QED
  BY <1>3, <1>5, <1>8, <1>9, <1>10, <1>11

\* What a delete leaves: the rows of the others.
LEMMA DropRows ==
    ASSUME IInv, NEW s \in GxSessions, rows' = WithoutSession(s), UNCHANGED <<status, failed>>
    PROVE  /\ rows' \in Seq(Row \cup {Gone}) /\ RowsInv' /\ RowOf(s)' = {}
           /\ \A u \in GxSessions \ {s} : RowOf(u)' = RowOf(u)
<1>1. /\ DOMAIN rows' = DOMAIN rows
      /\ \A k \in DOMAIN rows : rows'[k] = IF rows[k].gx = s THEN Gone ELSE rows[k]
      /\ rows' = [k \in DOMAIN rows |-> IF rows[k].gx = s THEN Gone ELSE rows[k]]
  BY DEF WithoutSession
<1>2. rows' \in Seq(Row \cup {Gone})
  BY <1>1, RowFacts
<1>3. Gone.gx = None
  BY DEF Gone
<1>4. \A u \in GxSessions : \A r : r \in RowOf(u)' <=>
         \E k \in DOMAIN rows' : rows'[k] = r /\ r.gx = u
  BY DEF RowOf, Range
<1>5. RowsInv'
  BY <1>1, RowFacts DEF RowsInv
<1>6. RowOf(s)' = {}
  BY <1>1, <1>3, <1>4
<1>7. ASSUME NEW u \in GxSessions \ {s} PROVE RowOf(u)' = RowOf(u)
  <2>1. \A r : r \in RowOf(u)' <=> r \in RowOf(u)
    BY <1>1, <1>3, <1>4, RowFacts
  <2>2. QED
    BY <2>1
<1>8. QED
  BY <1>2, <1>5, <1>6, <1>7

\* Whoever else works on the row of a CCR in work, that is noted of both.
LEMMA RowShared ==
    ASSUME IInv, NEW h \in Handlers, NEW s \in GxSessions, OnRow(h), req[h].gx = s
    PROVE  \A g \in Handlers \ {h} : OnRow(g) /\ Slot(req[g].gx) = Slot(s) =>
              req[g].gx \in raced /\ s \in raced
  BY DEF IInv, GxInv, RowsApart

\* What is left of a session when a step is about another one: it is as it was, or has
\* lost its row to that one.
Left(u, s) ==
    /\ status'[u] = status[u] /\ (u \in told' <=> u \in told)
    /\ u \in displaced => u \in displaced'
    /\ ImsiOf[u] \notin Known /\ Rivals(u) = {} =>
          (ImsiOf[u] \in emergency' <=> ImsiOf[u] \in emergency)
    /\ \/ RowOf(u)' = RowOf(u) /\ (u \in addressed' <=> u \in addressed)
       \/ /\ RowOf(u)' = {} /\ u \in displaced' /\ u \notin addressed' /\ u # s
          /\ Working(u) => u \in raced'

\* A step about session s.
GxStep(h, s) ==
    /\ MovedOnly(h) /\ raced \subseteq raced' /\ failed \subseteq failed'
    /\ OnRow(h) => req[h].gx = s
    /\ OnRow(h)' => req'[h].gx = s
    /\ \A g \in Handlers \ {h} : OnRow(g) /\ Slot(req[g].gx) = Slot(s) =>
          req[g].gx \in raced' /\ s \in raced'
    /\ RowsInv' /\ DisplacedInv' /\ EmergencyInv'
    /\ \A u \in GxSessions \ (raced' \cup failed') : u # s => Left(u, s)
    /\ s \notin raced' \cup failed' => SessionOK(s)'

\* A step for a session keeps what is said of another.
LEMMA LeftKeeps ==
    ASSUME IInv, NEW h \in Handlers, NEW s \in GxSessions, NEW u \in GxSessions,
           GxStep(h, s), u # s, u \notin raced' \cup failed', OnRow(h) \/ OnRow(h)'
    PROVE  SessionOK(u)'
<1>1. /\ \A g \in Handlers \ {h} : pc'[g] = pc[g] /\ req'[g] = req[g]
      /\ OnRow(h) => req[h].gx = s
      /\ OnRow(h)' => req'[h].gx = s
  BY DEF GxStep, MovedOnly
<1>2. \A g \in Handlers : req'[g].gx = u /\ OnRow(g)' =>
         OnRow(g) /\ pc'[g] = pc[g] /\ req'[g] = req[g]
  BY <1>1 DEF OnRow
<1>3. \A t \in GxTypes : \A steps : Doing(u, t, steps)' <=> Doing(u, t, steps)
  BY <1>1 DEF Doing, OnRow
<1>4. /\ (Opening(u)' <=> Opening(u)) /\ (Writing(u)' <=> Writing(u))
      /\ \A steps : Doing(u, "I", steps)' <=> Doing(u, "I", steps)
      /\ \A steps : Doing(u, "T", steps)' <=> Doing(u, "T", steps)
  BY <1>3 DEF Opening, Writing, GxTypes
<1>5. u \notin raced \cup failed /\ SessionOK(u)
  BY DEF GxStep, IInv, GxInv, SessionInv
<1>6. Left(u, s)
  BY DEF GxStep
<1>7. RowAgrees(u)' /\ ToldAgrees(u)'
  BY <1>4, <1>5, <1>6 DEF SessionOK, RowAgrees, ToldAgrees, Left
<1>8. EmergencyKept(u)'
  BY <1>4, <1>5, <1>6 DEF SessionOK, EmergencyKept, Left, Rivals, Slot, Key
<1>9. StatusAgrees(u)'
  BY <1>2, <1>5, <1>6 DEF SessionOK, StatusAgrees, Left
<1>10. AddressAgrees(u)'
  <2>1. CASE RowOf(u)' = RowOf(u) /\ (u \in addressed' <=> u \in addressed)
    BY <1>2, <1>4, <1>5, <1>6, <2>1 DEF SessionOK, AddressAgrees, Left, OnRow, GxTypes
  <2>2. CASE RowOf(u)' = {} /\ u \notin addressed' /\ ~Working(u)
    <3>1. \A g \in Handlers : ~(OnRow(g)' /\ req'[g].gx = u)
      <4>1. \A g \in Handlers \ {h} : ~(OnRow(g) /\ req[g].gx = u)
        BY <2>2 DEF Working, OnRow, GxTypes
      <4>2. QED
        BY <1>1, <4>1 DEF OnRow
    <3>2. QED
      BY <2>2, <3>1 DEF AddressAgrees, OnRow, GxTypes
  <2>3. QED
    BY <1>6, <2>1, <2>2 DEF Left
<1>11. QED
  BY <1>7, <1>8, <1>9, <1>10 DEF SessionOK

\* A step for one session keeps what is said of all of them.
LEMMA GxStepKeeps ==
    ASSUME IInv, NEW h \in Handlers, NEW s \in GxSessions, GxStep(h, s), OnRow(h) \/ OnRow(h)'
    PROVE  GxInv'
<1>1. /\ \A g \in Handlers \ {h} : pc'[g] = pc[g] /\ req'[g] = req[g]
      /\ OnRow(h)' => req'[h].gx = s
      /\ raced \subseteq raced'
      /\ \A g \in Handlers \ {h} : OnRow(g) /\ Slot(req[g].gx) = Slot(s) =>
          req[g].gx \in raced' /\ s \in raced'
  BY DEF GxStep, MovedOnly
<1>2. RowsApart'
  <2> SUFFICES ASSUME NEW g \in Handlers, NEW k \in Handlers, g # k, OnRow(g)', OnRow(k)',
                      Slot(req'[g].gx) = Slot(req'[k].gx)
               PROVE  req'[g].gx \in raced'
    BY DEF RowsApart, Slot, Key
  <2>1. CASE g # h /\ k # h
    <3>1. OnRow(g) /\ OnRow(k) /\ req'[g] = req[g] /\ req'[k] = req[k]
      BY <1>1, <2>1 DEF OnRow
    <3>2. QED
      BY <1>1, <3>1 DEF IInv, GxInv, RowsApart
  <2>2. CASE g = h
    <3>1. k # h /\ OnRow(k) /\ req'[k] = req[k] /\ req'[g].gx = s
      BY <1>1, <2>2 DEF OnRow
    <3>2. QED
      BY <1>1, <3>1
  <2>3. CASE k = h
    <3>1. g # h /\ OnRow(g) /\ req'[g] = req[g] /\ req'[k].gx = s
      BY <1>1, <2>3 DEF OnRow
    <3>2. QED
      BY <1>1, <3>1
  <2>4. QED
    BY <2>1, <2>2, <2>3
<1>3. RowsInv' /\ DisplacedInv' /\ EmergencyInv'
  BY DEF GxStep
<1>4. ASSUME NEW u \in GxSessions \ (raced' \cup failed') PROVE SessionOK(u)'
  <2>1. CASE u = s
    BY <1>4, <2>1 DEF GxStep
  <2>2. CASE u # s
    BY <1>4, <2>2, LeftKeeps
  <2>3. QED
    BY <2>1, <2>2
<1>5. SessionInv'
  BY <1>4 DEF SessionInv
<1>6. QED
  BY <1>2, <1>3, <1>5 DEF GxInv

\* What is left to show of a step about a session.
LEMMA GxStepInv ==
    ASSUME IInv, NEW h \in Handlers, NEW s \in GxSessions, GxStep(h, s), OnRow(h) \/ OnRow(h)',
           LocalOK(h)', RxInv', UNCHANGED <<rxVars, pduVars>>,
           req[h].pdu = Gap, req'[h].pdu = Gap, pc[h] # "write", pc'[h] # "write",
           \A u \in GxSessions : status[u] # "new" => status'[u] # "new",
           pc' \in [Handlers -> PCs], req' \in [Handlers -> Request],
           rows' \in Seq(Row \cup {Gone}), emergency' \subseteq Range(ImsiOf),
           status' \in [GxSessions -> {"new", "up", "down"}], installed' \subseteq Bearer,
           told' \subseteq GxSessions, addressed' \subseteq GxSessions, raced' \subseteq GxSessions,
           displaced' \subseteq GxSessions, failed' \subseteq GxSessions,
           requests' \in Nat, faults' \in Nat
    PROVE  IInv'
<1>1. MovedOnly(h) /\ failed \subseteq failed'
  BY DEF GxStep
<1>2. TypeOK'
  BY DEF IInv, TypeOK, rxVars, pduVars
<1>3. LocalInv'
  BY <1>1, LocalKept DEF IInv
<1>4. GxInv'
  BY GxStepKeeps
<1>5. PduInv'
  BY <1>1, PduFrame DEF IInv
<1>6. QED
  BY <1>2, <1>3, <1>4, <1>5 DEF IInv

\* The session of a step whose CCRs have not overlapped is worked on by its handler only.
LEMMA OwnSteps ==
    ASSUME IInv, NEW h \in Handlers, NEW s \in GxSessions \ raced, OnRow(h), req[h].gx = s
    PROVE  /\ \A g \in Handlers : OnRow(g) /\ req[g].gx = s => g = h
           /\ \A t \in GxTypes : \A steps :
                 Doing(s, t, steps) <=> req[h].type = t /\ pc[h] \in steps
<1>1. \A g \in Handlers : OnRow(g) /\ req[g].gx = s => g = h
  BY RowShared
<1>2. QED
  BY <1>1 DEF Doing, OnRow

\* The only handler of a session is its handler after the step.
LEMMA OwnStepsNext ==
    ASSUME NEW h \in Handlers, NEW s \in GxSessions, MovedOnly(h), OnRow(h)' => req'[h].gx = s,
           \A g \in Handlers \ {h} : ~(OnRow(g) /\ req[g].gx = s)
    PROVE  /\ \A g \in Handlers : OnRow(g)' /\ req'[g].gx = s => g = h
           /\ \A t \in GxTypes : \A steps :
                 Doing(s, t, steps)' <=> req'[h].type = t /\ pc'[h] \in steps
<1>1. \A g \in Handlers : OnRow(g)' /\ req'[g].gx = s => g = h
  BY DEF MovedOnly, OnRow
<1>2. \A t \in GxTypes : \A steps : Doing(s, t, steps)' <=> req'[h].type = t /\ pc'[h] \in steps
  BY <1>1 DEF Doing, OnRow
<1>3. QED
  BY <1>1, <1>2

\* What a handler of a CCR knows.
LEMMA CcrFacts ==
    ASSUME IInv, NEW h \in Handlers, OnRow(h)
    PROVE  /\ req[h].gx \in GxSessions /\ req[h].pdu = Gap /\ req[h].call = None
           /\ req[h] \in Request /\ req[h].type \in GxTypes
           /\ status[req[h].gx] # "new" /\ LocalOK(h) /\ pc[h] \notin {"write", "find", "idle"}
           /\ req[h].gx \notin raced \cup failed => SessionOK(req[h].gx)
<1>1. req[h].gx \in GxSessions /\ req[h].pdu = Gap /\ req[h].call = None
  BY Carries DEF IInv
<1>2. req[h] \in Request /\ LocalOK(h) /\ req[h].type \in GxTypes
  BY DEF IInv, TypeOK, LocalInv, OnRow
<1>3. pc[h] \notin {"write", "find", "idle"}
  BY <1>2, StepOfType DEF IInv, GxTypes
<1>4. req[h].gx \notin raced \cup failed => SessionOK(req[h].gx)
  BY <1>1 DEF IInv, GxInv, SessionInv
<1>5. QED
  BY <1>1, <1>2, <1>3, <1>4 DEF LocalOK

\* A handler of a CCR takes a step.
Moves(h, s, step, r) ==
    /\ OnRow(h) /\ req[h].gx = s /\ Goto(h, step, r)
    /\ r.type = req[h].type /\ r.gx = s /\ r.call = None /\ r.pdu = Gap
    /\ raced \subseteq raced' /\ raced' \subseteq GxSessions
    /\ UNCHANGED <<status, installed, rxVars, pduVars, requests>>

\* ... and what it does to the session, as a matter of the handler alone.
Becomes(h, s, step, r) ==
    /\ \A g \in Handlers : req'[g].gx = s /\ OnRow(g)' => step # "idle" /\ pc'[g] = step /\ req'[g] = r
    /\ \A steps : Doing(s, "I", steps)' <=> step # "idle" /\ r.type = "I" /\ step \in steps
    /\ \A steps : Doing(s, "T", steps)' <=> step # "idle" /\ r.type = "T" /\ step \in steps
    /\ Opening(s)' <=> r.type = "I" /\ step \in {"lookup", "upsert"}
    /\ Writing(s)' <=> r.type \in {"I", "U"} /\ step \in {"lookup", "upsert"}
Was(h, s) ==
    /\ SessionOK(s)
    /\ \A steps : Doing(s, "I", steps) <=> req[h].type = "I" /\ pc[h] \in steps
    /\ \A steps : Doing(s, "T", steps) <=> req[h].type = "T" /\ pc[h] \in steps
    /\ Opening(s) <=> req[h].type = "I" /\ pc[h] \in {"lookup", "upsert"}
    /\ Writing(s) <=> req[h].type \in {"I", "U"} /\ pc[h] \in {"lookup", "upsert"}

\* A handler of a session that goes on: what was known before and is after.
LEMMA MovesFacts ==
    ASSUME IInv, NEW h \in Handlers, NEW s \in GxSessions, NEW step \in PCs, NEW r \in Request,
           Moves(h, s, step, r)
    PROVE  /\ pc' \in [Handlers -> PCs] /\ req' \in [Handlers -> Request] /\ MovedOnly(h)
           /\ pc'[h] = step /\ req'[h] = (IF step = "idle" THEN Idle ELSE r)
           /\ s \notin raced \cup failed => Was(h, s)
           /\ s \notin raced => Becomes(h, s, step, r)
<1>1. /\ OnRow(h) /\ req[h].gx = s /\ Goto(h, step, r) /\ r.gx = s /\ r.type = req[h].type
      /\ r.type \in GxTypes
  BY DEF Moves, OnRow
<1>2. /\ pc' \in [Handlers -> PCs] /\ req' \in [Handlers -> Request] /\ MovedOnly(h)
      /\ pc'[h] = step /\ req'[h] = (IF step = "idle" THEN Idle ELSE r)
  BY <1>1, GotoFacts DEF IInv
<1>3. ASSUME s \notin raced \cup failed PROVE Was(h, s)
  <2>1. SessionOK(s)
    BY <1>3 DEF IInv, GxInv, SessionInv
  <2>2. \A t \in GxTypes : \A steps : Doing(s, t, steps) <=> req[h].type = t /\ pc[h] \in steps
    BY <1>1, <1>3, OwnSteps
  <2>3. QED
    BY <2>1, <2>2 DEF Was, Opening, Writing, GxTypes
<1>4. ASSUME s \notin raced PROVE Becomes(h, s, step, r)
  <2>1. \A g \in Handlers \ {h} : ~(OnRow(g) /\ req[g].gx = s)
    BY <1>1, <1>4, OwnSteps
  <2>2. OnRow(h)' => req'[h].gx = s /\ step # "idle"
    BY <1>1, <1>2, IdleFacts DEF OnRow, GxTypes
  <2>3. /\ \A g \in Handlers : OnRow(g)' /\ req'[g].gx = s => g = h
        /\ \A t \in GxTypes : \A steps :
              Doing(s, t, steps)' <=> req'[h].type = t /\ pc'[h] \in steps
    BY <1>2, <2>1, <2>2, OwnStepsNext
  <2>4. \A t \in GxTypes : req'[h].type = t <=> step # "idle" /\ r.type = t
    BY <1>2, IdleFacts DEF GxTypes
  <2>5. QED
    BY <1>2, <2>2, <2>3, <2>4 DEF Becomes, Opening, Writing, GxTypes
<1>5. QED
  BY <1>2, <1>3, <1>4

\* What is left to show of a step of a CCR.
LEMMA MovesInv ==
    ASSUME IInv, NEW h \in Handlers, NEW s \in GxSessions, NEW step \in PCs, NEW r \in Request,
           Moves(h, s, step, r), step # "idle" => step \in Places(r.type),
           step \in {"upsert", "announce"} => ImsiOf[s] \in Known,
           step = "emergency" => ImsiOf[s] \notin Known \/ s \in failed',
           step = "upsert" => r.apn = Home(s) \/ s \in failed',
           rows' \in Seq(Row \cup {Gone}), emergency' \subseteq Range(ImsiOf),
           told' \subseteq GxSessions, addressed' \subseteq GxSessions,
           displaced' \subseteq GxSessions, failed' \subseteq GxSessions,
           failed \subseteq failed', faults' \in Nat, RowsInv', DisplacedInv', EmergencyInv',
           \A u \in GxSessions \ (raced \cup failed') : u # s => Left(u, s),
           s \notin raced \cup failed' => SessionOK(s)'
    PROVE  IInv'
<1>1. /\ pc' \in [Handlers -> PCs] /\ req' \in [Handlers -> Request] /\ MovedOnly(h)
      /\ pc'[h] = step /\ req'[h] = (IF step = "idle" THEN Idle ELSE r)
  BY MovesFacts
<1>2. /\ OnRow(h) /\ req[h].gx = s /\ r.gx = s /\ r.type \in GxTypes
      /\ r.call = None /\ r.pdu = Gap
      /\ raced \subseteq raced' /\ raced' \subseteq GxSessions
      /\ UNCHANGED <<status, installed, rxVars, pduVars, requests>>
  BY DEF Moves, OnRow
<1>3. /\ req[h].pdu = Gap /\ req[h].call = None /\ pc[h] # "write" /\ status[s] # "new"
      /\ r.type \in {"I", "U", "T"}
  BY <1>2, CcrFacts DEF GxTypes
<1>4. GxStep(h, s)
  <2>1. OnRow(h)' => req'[h].gx = s
    BY <1>1, <1>2, IdleFacts DEF OnRow, GxTypes
  <2>2. \A g \in Handlers \ {h} : OnRow(g) /\ Slot(req[g].gx) = Slot(s) =>
           req[g].gx \in raced /\ s \in raced
    BY <1>2, RowShared
  <2>3. QED
    BY <1>1, <1>2, <2>1, <2>2 DEF GxStep
<1>5. step \notin {"write", "find"}
  <2>1. step # "idle" => step \in {"lookup", "emergency", "upsert", "announce", "delete",
                                   "retract", "clear"}
    BY <1>3 DEF Places
  <2>2. QED
    BY <2>1
<1>6. LocalOK(h)'
  <2>1. CASE step = "idle"
    BY <1>1, <2>1, IdleLocal
  <2>2. CASE step # "idle"
    <3>1. pc'[h] = step /\ req'[h] = r
      BY <1>1, <2>2
    <3>2. r.call \notin Calls /\ r.pdu \notin PduRow /\ r.type \notin {"none"} \cup RxTypes \cup PduTypes
      BY <1>2, <1>3 DEF Gap, PduRow, RxTypes, PduTypes
    <3>3. QED
      BY <1>2, <1>3, <1>5, <2>2, <3>1, <3>2 DEF LocalOK
  <2>3. QED
    BY <2>1, <2>2
<1>7. req'[h].pdu = Gap /\ req'[h].call \notin Calls
  BY <1>1, <1>2, IdleFacts
<1>8. RxInv'
  BY <1>1, <1>2, <1>3, <1>7, RxFrame DEF IInv
<1>9. /\ status' \in [GxSessions -> {"new", "up", "down"}] /\ installed' \subseteq Bearer
      /\ raced' \subseteq GxSessions /\ requests' \in Nat
  BY <1>2 DEF IInv, TypeOK
<1>10. QED
  BY <1>1, <1>2, <1>3, <1>4, <1>5, <1>6, <1>7, <1>8, <1>9, GxStepInv

\* Which sessions have raced.
LEMMA RacedKept ==
    ASSUME IInv, raced' = raced
    PROVE  raced \subseteq raced' /\ raced' \subseteq GxSessions
  BY DEF IInv, TypeOK

\* Whom another session has displaced.
LEMMA DisplacedKept ==
    ASSUME IInv, displaced' = displaced, failed \subseteq failed'
    PROVE  DisplacedInv'
  BY DEF IInv, GxInv, DisplacedInv, TakenBy

\* What a step leaves that does not write the tables.
LEMMA TablesKept ==
    ASSUME IInv, UNCHANGED <<rows, status, displaced>>, emergency' \subseteq emergency,
           failed \subseteq failed'
    PROVE  /\ rows' \in Seq(Row \cup {Gone}) /\ emergency' \subseteq Range(ImsiOf)
           /\ RowsInv' /\ DisplacedInv' /\ EmergencyInv' /\ \A u : RowOf(u)' = RowOf(u)
<1>1. rows' \in Seq(Row \cup {Gone}) /\ emergency' \subseteq Range(ImsiOf)
  BY DEF IInv, TypeOK
<1>2. RowsInv' /\ DisplacedInv' /\ EmergencyInv'
  BY DisplacedKept DEF IInv, GxInv, RowsInv, EmergencyInv
<1>3. \A u : RowOf(u)' = RowOf(u)
  BY DEF RowOf
<1>4. QED
  BY <1>1, <1>2, <1>3

\* A handler of a CCR whose statement has failed: it is noted.
LEMMA CcrFailKeeps ==
    ASSUME IInv, NEW h \in Handlers, OnRow(h), NEW step \in {"idle", "emergency", "clear"},
           Continue(h, step), step # "idle" => step \in Places(req[h].type),
           SessionFails(h),
           UNCHANGED <<rows, emergency, told, addressed, raced, displaced, status, installed,
                       rxVars, pduVars, requests>>
    PROVE  IInv'
<1>1. PICK s \in GxSessions, r \in Request : req[h].gx = s /\ req[h] = r
  BY CcrFacts
<1>2. Moves(h, s, step, r)
  BY <1>1, CcrFacts, RacedKept DEF Moves, Continue
<1>3. /\ failed' = failed \cup {s} /\ faults' \in Nat /\ failed' \subseteq GxSessions
      /\ told' \subseteq GxSessions /\ addressed' \subseteq GxSessions
      /\ displaced' \subseteq GxSessions
  BY <1>1 DEF SessionFails, Fault, IInv, TypeOK
<1>4. /\ rows' \in Seq(Row \cup {Gone}) /\ emergency' \subseteq Range(ImsiOf)
      /\ RowsInv' /\ DisplacedInv' /\ EmergencyInv' /\ \A u : RowOf(u)' = RowOf(u)
  BY <1>3, TablesKept
<1>5. \A u \in GxSessions : Left(u, s)
  BY <1>4 DEF Left
<1>6. step \in PCs
  BY DEF PCs
<1>7. QED
  BY <1>1, <1>2, <1>3, <1>4, <1>5, <1>6, MovesInv

\* The subscriber of a CCR is looked up.
LEMMA LookupKeeps ==
    ASSUME IInv, NEW h \in Handlers, Lookup(h)
    PROVE  IInv'
<1>1. pc[h] = "lookup" /\ req[h].type \in {"I", "U"} /\ OnRow(h)
  BY StepOfType DEF Lookup, IInv, OnRow, GxTypes
<1>2. PICK s \in GxSessions : req[h].gx = s
  BY <1>1, CcrFacts
<1>3. /\ req[h] \in Request /\ req[h].call = None /\ req[h].pdu = Gap
      /\ s \notin raced \cup failed => SessionOK(s)
  BY <1>1, <1>2, CcrFacts
<1>4. UNCHANGED <<rows, emergency, told, raced, displaced, status, installed, rxVars, pduVars,
                  requests>>
  BY DEF Lookup
<1>5. /\ told' \subseteq GxSessions /\ displaced' \subseteq GxSessions
      /\ addressed \subseteq GxSessions /\ failed \subseteq GxSessions /\ faults \in Nat
  BY <1>4 DEF IInv, TypeOK
<1>6. failed \subseteq failed' =>
         /\ rows' \in Seq(Row \cup {Gone}) /\ emergency' \subseteq Range(ImsiOf)
         /\ RowsInv' /\ DisplacedInv' /\ EmergencyInv' /\ \A u : RowOf(u)' = RowOf(u)
  BY <1>4, TablesKept
<1>7. CASE /\ ImsiOf[s] \in Known
           /\ \E static \in BOOLEAN :
                 /\ Goto(h, "upsert", [req[h] EXCEPT !.addr = req[h].addr \/ static,
                                                     !.apn = Home(s)])
                 /\ addressed' = IF static THEN addressed \cup {s} ELSE addressed
           /\ UNCHANGED <<failed, faults>>
  <2>1. PICK static \in BOOLEAN :
           /\ Goto(h, "upsert", [req[h] EXCEPT !.addr = req[h].addr \/ static, !.apn = Home(s)])
           /\ addressed' = IF static THEN addressed \cup {s} ELSE addressed
    BY <1>7
  <2>2. PICK r \in Request :
           /\ r = [req[h] EXCEPT !.addr = req[h].addr \/ static, !.apn = Home(s)]
           /\ r.type = req[h].type /\ r.gx = s /\ r.call = None /\ r.pdu = Gap
           /\ r.addr = (req[h].addr \/ static) /\ r.apn = Home(s)
    <3>1. PICK a : a = (req[h].addr \/ static)
      OBVIOUS
    <3>2. a \in BOOLEAN /\ Home(s) \in Apns
      BY <3>1 DEF Home, Apns
    <3> DEFINE q == [req[h] EXCEPT !.addr = a, !.apn = Home(s)]
    <3>3. /\ q \in Request /\ q.type = req[h].type /\ q.gx = s /\ q.call = None
          /\ q.pdu = Gap /\ q.addr = a /\ q.apn = Home(s)
      BY <1>2, <1>3, <3>2 DEF Request
    <3>4. QED
      BY <3>1, <3>3
  <2>3. Moves(h, s, "upsert", r) /\ "upsert" \in PCs
    BY <1>1, <1>2, <1>4, <2>1, <2>2, RacedKept DEF Moves, PCs
  <2>4. s \notin raced \cup failed => Was(h, s) /\ Becomes(h, s, "upsert", r)
    BY <2>3, MovesFacts
  <2>5. "upsert" \in Places(r.type) /\ addressed' \subseteq GxSessions
    BY <1>1, <1>5, <2>1, <2>2 DEF Places
  <2>6. \A u \in GxSessions : u # s => Left(u, s)
    BY <1>4, <1>6, <1>7, <2>1 DEF Left
  <2>7. ASSUME s \notin raced \cup failed' PROVE SessionOK(s)'
    <3>1. Was(h, s) /\ Becomes(h, s, "upsert", r) /\ RowOf(s)' = RowOf(s)
      BY <1>6, <1>7, <2>4, <2>7
    <3>2. RowAgrees(s)' /\ ToldAgrees(s)' /\ StatusAgrees(s)' /\ EmergencyKept(s)'
      BY <1>1, <1>2, <1>4, <1>7, <2>2, <3>1
      DEF Was, Becomes, SessionOK, RowAgrees, ToldAgrees, StatusAgrees, EmergencyKept, OnRow,
          GxTypes
    <3>3. req[h].addr <=> s \in addressed
      <4>1. AddressAgrees(s)
        BY <3>1 DEF Was, SessionOK
      <4>2. QED
        BY <1>1, <1>2, <1>7, <4>1 DEF AddressAgrees
    <3>4. r.addr <=> s \in addressed'
      <4>1. r.addr <=> (req[h].addr \/ static)
        BY <2>2, Zenon
      <4>2. s \in addressed' <=> (static \/ s \in addressed)
        BY <2>1
      <4>3. QED
        BY <3>3, <4>1, <4>2, Zenon
    <3>5. \A g \in Handlers : req'[g].gx = s /\ OnRow(g)' => req'[g] = r
      BY <3>1 DEF Becomes
    <3>6. Writing(s)'
      BY <1>1, <2>2, <3>1 DEF Becomes
    <3>7. AddressAgrees(s)'
      BY <3>4, <3>5, <3>6 DEF AddressAgrees, OnRow, GxTypes
    <3>8. QED
      BY <3>2, <3>7 DEF SessionOK
  <2>8. QED
    <3>1. failed' = failed /\ faults' \in Nat /\ failed' \subseteq GxSessions
      BY <1>5, <1>7
    <3>2. QED
      BY <1>5, <1>6, <1>7, <2>2, <2>3, <2>5, <2>6, <2>7, <3>1, MovesInv
<1>8. ASSUME NEW step \in {"emergency", "idle"},
             step = (IF req[h].type = "I" THEN "emergency" ELSE "idle"),
             Continue(h, step), ImsiOf[s] \notin Known, UNCHANGED <<addressed, failed, faults>>
      PROVE  IInv'
  <2>2. PICK r \in Request : r = req[h]
    BY <1>3
  <2>3. Moves(h, s, step, r) /\ step \in PCs
    BY <1>1, <1>2, <1>3, <1>4, <1>8, <2>2, RacedKept DEF Moves, PCs, Continue
  <2>4. s \notin raced \cup failed => Was(h, s) /\ Becomes(h, s, step, r)
    BY <2>3, MovesFacts
  <2>5. (step # "idle" => step \in Places(r.type)) /\ addressed' \subseteq GxSessions
    BY <1>1, <1>5, <1>8, <2>2 DEF Places
  <2>6. \A u \in GxSessions : u # s => Left(u, s)
    BY <1>4, <1>6, <1>8 DEF Left
  <2>7. ASSUME s \notin raced \cup failed' PROVE SessionOK(s)'
    <3>1. Was(h, s) /\ Becomes(h, s, step, r) /\ RowOf(s)' = {} /\ RowOf(s) = {}
      BY <1>6, <1>8, <2>4, <2>7, RowOwner
    <3>2. RowAgrees(s)' /\ ToldAgrees(s)'
      BY <1>1, <1>2, <1>4, <1>8, <2>2, <3>1 DEF Was, Becomes, SessionOK, RowAgrees, ToldAgrees
    <3>3. AddressAgrees(s)'
      BY <1>8, <3>1 DEF AddressAgrees
    <3>4. EmergencyKept(s)'
      BY <1>1, <1>2, <1>4, <1>8, <2>2, <3>1
      DEF Was, Becomes, SessionOK, EmergencyKept, StatusAgrees, OnRow, GxTypes
    <3>5. StatusAgrees(s)'
      BY <1>1, <1>2, <1>4, <1>8, <2>2, <3>1
      DEF Was, Becomes, SessionOK, StatusAgrees, OnRow, GxTypes
    <3>6. QED
      BY <3>2, <3>3, <3>4, <3>5 DEF SessionOK
  <2>8. QED
    BY <1>4, <1>5, <1>6, <1>8, <2>2, <2>3, <2>5, <2>6, <2>7, MovesInv
<1>9. ASSUME NEW step \in {"emergency", "idle"},
             step = (IF req[h].type = "I" THEN "emergency" ELSE "idle"),
             Continue(h, step), SessionFails(h), UNCHANGED addressed
      PROVE  IInv'
  <2>1. step # "idle" => step \in Places(req[h].type)
    BY <1>1, <1>9 DEF Places
  <2>2. QED
    BY <1>1, <1>4, <1>9, <2>1, CcrFailKeeps
<1>10. CASE /\ ImsiOf[s] \in Known /\ SessionFails(h) /\ UNCHANGED addressed
            /\ Goto(h, "upsert", [req[h] EXCEPT !.apn = "0"])
  <2>1. PICK r \in Request :
           /\ r = [req[h] EXCEPT !.apn = "0"]
           /\ r.type = req[h].type /\ r.gx = s /\ r.call = None /\ r.pdu = Gap
    <3> DEFINE q == [req[h] EXCEPT !.apn = "0"]
    <3>1. "0" \in Apns
      BY DEF Apns
    <3>2. q \in Request /\ q.type = req[h].type /\ q.gx = s /\ q.call = None /\ q.pdu = Gap
      BY <1>2, <1>3, <3>1 DEF Request
    <3>3. QED
      BY <3>2
  <2>2. Moves(h, s, "upsert", r) /\ "upsert" \in PCs
    BY <1>1, <1>2, <1>4, <1>10, <2>1, RacedKept DEF Moves, PCs
  <2>3. "upsert" \in Places(r.type)
    BY <1>1, <2>1 DEF Places
  <2>4. /\ failed' = failed \cup {s} /\ faults' \in Nat /\ failed' \subseteq GxSessions
        /\ addressed' \subseteq GxSessions
    BY <1>2, <1>5, <1>10 DEF SessionFails, Fault
  <2>5. \A u \in GxSessions : u # s => Left(u, s)
    BY <1>4, <1>6, <1>10, <2>4 DEF Left
  <2>6. QED
    BY <1>5, <1>6, <1>10, <2>2, <2>3, <2>4, <2>5, MovesInv
<1>11. QED
  BY <1>2, <1>7, <1>8, <1>9, <1>10 DEF Lookup

\* What the handler of a step after the lookup has at hand.
LEMMA CcrStepFacts ==
    ASSUME IInv, NEW h \in Handlers, OnRow(h), NEW step \in {"idle", "announce", "retract", "clear"},
           Continue(h, step), raced \subseteq raced', raced' \subseteq GxSessions,
           UNCHANGED <<status, installed, rxVars, pduVars, requests>>
    PROVE  \E s \in GxSessions, r \in Request :
              /\ req[h].gx = s /\ req[h] = r /\ r.gx = s /\ r.type \in GxTypes
              /\ status[s] # "new" /\ Moves(h, s, step, r) /\ step \in PCs
              /\ s \notin raced \cup failed => Was(h, s) /\ Becomes(h, s, step, r)
<1>1. PICK s \in GxSessions, r \in Request : req[h].gx = s /\ req[h] = r
  BY CcrFacts
<1>2. /\ r.gx = s /\ r.type \in GxTypes /\ r.call = None /\ r.pdu = Gap /\ status[s] # "new"
  BY <1>1, CcrFacts
<1>3. Moves(h, s, step, r)
  BY <1>1, <1>2 DEF Moves, Continue
<1>4. step \in PCs
  BY DEF PCs
<1>5. s \notin raced \cup failed => Was(h, s) /\ Becomes(h, s, step, r)
  BY <1>3, <1>4, MovesFacts
<1>6. QED
  BY <1>1, <1>2, <1>3, <1>4, <1>5

\* The emergency record of an unprovisioned UE is written.
LEMMA WriteEmergencyKeeps ==
    ASSUME IInv, NEW h \in Handlers, WriteEmergency(h)
    PROVE  IInv'
<1>1. pc[h] = "emergency" /\ req[h].type = "I" /\ OnRow(h) /\ Continue(h, "idle")
  BY StepOfType DEF WriteEmergency, IInv, OnRow, GxTypes
<1>2. UNCHANGED <<rows, told, addressed, raced, displaced, status, installed, rxVars, pduVars,
                  requests>>
  BY DEF WriteEmergency
<1>3. CASE SessionFails(h) /\ UNCHANGED emergency
  BY <1>1, <1>2, <1>3, CcrFailKeeps
<1>4. CASE emergency' = emergency \cup {ImsiOf[req[h].gx]} /\ UNCHANGED <<failed, faults>>
  <2>1. PICK s \in GxSessions, r \in Request :
           /\ req[h].gx = s /\ req[h] = r /\ r.gx = s /\ r.type \in GxTypes
           /\ status[s] # "new" /\ Moves(h, s, "idle", r) /\ "idle" \in PCs
           /\ s \notin raced \cup failed => Was(h, s) /\ Becomes(h, s, "idle", r)
    BY <1>1, <1>2, RacedKept, CcrStepFacts
  <2>2. emergency' = emergency \cup {ImsiOf[s]} /\ ImsiOf[s] \in Range(ImsiOf)
    BY <1>4, <2>1 DEF Range
  <2>3. /\ rows' \in Seq(Row \cup {Gone}) /\ emergency' \subseteq Range(ImsiOf)
        /\ told' \subseteq GxSessions /\ addressed' \subseteq GxSessions
        /\ displaced' \subseteq GxSessions /\ failed' \subseteq GxSessions
        /\ failed \subseteq failed' /\ faults' \in Nat
    BY <1>2, <1>4, <2>2 DEF IInv, TypeOK
  <2>4. RowsInv' /\ DisplacedInv' /\ \A u : RowOf(u)' = RowOf(u)
    BY <1>2, <1>4, DisplacedKept DEF IInv, GxInv, RowsInv, RowOf
  <2>5. ImsiOf[s] \notin Known \/ s \in failed
    BY <1>1, <2>1, CcrFacts DEF LocalOK
  <2>6. EmergencyInv'
    BY <1>4, <2>2, <2>5 DEF IInv, GxInv, EmergencyInv
  <2>7. ASSUME NEW u \in GxSessions \ (raced \cup failed'), u # s PROVE Left(u, s)
    <3>1. ImsiOf[s] = ImsiOf[u] /\ ImsiOf[u] \notin Known => Rivals(u) # {}
      BY <2>7, SlotFacts DEF Rivals
    <3>2. ImsiOf[u] \notin Known /\ Rivals(u) = {} =>
             (ImsiOf[u] \in emergency' <=> ImsiOf[u] \in emergency)
      BY <2>2, <3>1
    <3>3. QED
      BY <1>2, <2>4, <3>2 DEF Left
  <2>8. ASSUME s \notin raced \cup failed' PROVE SessionOK(s)'
    <3>1. Was(h, s) /\ Becomes(h, s, "idle", r) /\ RowOf(s)' = {} /\ ImsiOf[s] \notin Known
          /\ RowOf(s) = {}
      BY <1>4, <2>1, <2>4, <2>5, <2>8, RowOwner
    <3>2. status[s] = "up"
      BY <1>1, <2>1, <3>1 DEF Was, SessionOK, StatusAgrees
    <3>3. RowAgrees(s)' /\ ToldAgrees(s)'
      BY <1>1, <1>2, <2>1, <3>1, <3>2 DEF Was, Becomes, SessionOK, RowAgrees, ToldAgrees
    <3>4. AddressAgrees(s)'
      BY <3>1 DEF AddressAgrees
    <3>7. EmergencyKept(s)'
      BY <1>2, <2>2, <3>2 DEF EmergencyKept
    <3>5. StatusAgrees(s)'
      BY <3>1 DEF Becomes, StatusAgrees
    <3>6. QED
      BY <3>3, <3>4, <3>5, <3>7 DEF SessionOK
  <2>9. QED
    BY <2>1, <2>3, <2>4, <2>6, <2>7, <2>8, MovesInv
<1>5. QED
  BY <1>3, <1>4 DEF WriteEmergency

\* The row of a session is written.
LEMMA UpsertKeeps ==
    ASSUME IInv, NEW h \in Handlers, Upsert(h)
    PROVE  IInv'
<1>1. pc[h] = "upsert" /\ req[h].type \in {"I", "U"} /\ OnRow(h)
  BY StepOfType DEF Upsert, IInv, OnRow, GxTypes
<1>2. UNCHANGED <<emergency, told, status, installed, rxVars, pduVars, requests>>
  BY DEF Upsert
<1>3. CASE /\ SessionFails(h) /\ Continue(h, "idle")
           /\ UNCHANGED <<rows, displaced, addressed, raced>>
  BY <1>1, <1>2, <1>3, CcrFailKeeps
<1>4. ASSUME NEW step \in {"announce", "idle"},
             step = (IF req[h].type = "I" THEN "announce" ELSE "idle"), Continue(h, step),
             WriteRow(h), UNCHANGED <<failed, faults>>
      PROVE  IInv'
  <2> DEFINE row == Filed(h)
  <2>0. PICK s \in GxSessions : req[h].gx = s /\ ImsiOf[s] \in Known /\ status[s] # "new"
    BY <1>1, CcrFacts DEF LocalOK
  <2>2. /\ row \in Row /\ row.gx = s /\ row.addr = req[h].addr
        /\ row.apn = Home(s) \/ s \in failed
        /\ row.addr \in BOOLEAN
    <3>1. req[h] \in Request /\ LocalOK(h)
      BY <1>1, CcrFacts
    <3>2. req[h].addr \in BOOLEAN /\ req[h].apn \in Apns
      BY <3>1 DEF Request
    <3>3. req[h].apn = Home(s) \/ s \in failed
      BY <1>1, <2>0, <3>1 DEF LocalOK
    <3>4. QED
      BY <2>0, <3>2, <3>3 DEF Filed, Row
  <2>3. /\ rows' = Upserted(row)
        /\ displaced' = (displaced \cup Ousted(row)) \ {s}
        /\ addressed' = addressed \ Ousted(row)
        /\ raced' = raced \cup {t \in Ousted(row) : Working(t)}
    BY <1>4, <2>0 DEF WriteRow
  <2> DEFINE a == row.addr
  <2> HIDE DEF row
  <2>5. /\ rows' \in Seq(Row \cup {Gone}) /\ RowsInv'
        /\ s \notin failed => RowOf(s)' = {row}
        /\ Ousted(row) \subseteq GxSessions \ {s}
        /\ \A u \in GxSessions \ {s} : u \notin Ousted(row) => RowOf(u)' = RowOf(u)
        /\ \A u \in Ousted(row) \ failed : RowOf(u)' = {} /\ s \in TakenBy(u)
    BY <1>2, <1>4, <2>0, <2>2, <2>3, UpsertRows
  <2>4. s \in addressed' <=> s \in addressed
    BY <2>3, <2>5
  <2>6. /\ emergency' \subseteq Range(ImsiOf)
        /\ told' \subseteq GxSessions /\ addressed' \subseteq GxSessions
        /\ displaced' \subseteq GxSessions /\ failed' \subseteq GxSessions
        /\ failed \subseteq failed' /\ faults' \in Nat
        /\ raced \subseteq raced' /\ raced' \subseteq GxSessions
    BY <1>2, <1>4, <2>3, <2>5 DEF IInv, TypeOK
  <2>1. PICK r \in Request :
           /\ req[h] = r /\ r.gx = s /\ r.type \in GxTypes
           /\ Moves(h, s, step, r) /\ step \in PCs
           /\ s \notin raced \cup failed => Was(h, s) /\ Becomes(h, s, step, r)
    BY <1>1, <1>2, <1>4, <2>0, <2>6, CcrStepFacts
  <2>7. EmergencyInv' /\ DisplacedInv'
    <3>1. EmergencyInv'
      BY <1>2, <1>4 DEF IInv, GxInv, EmergencyInv
    <3>2. \A u : TakenBy(u)' = TakenBy(u)
      BY <1>4 DEF TakenBy
    <3>3. DisplacedInv'
      BY <1>4, <2>3, <2>5, <3>2 DEF IInv, GxInv, DisplacedInv
    <3>4. QED
      BY <3>1, <3>3
  <2>8. ASSUME NEW u \in GxSessions \ (raced \cup failed'), u # s PROVE Left(u, s)
    <3>1. CASE u \in Ousted(row)
      <4>1. RowOf(u)' = {} /\ u \in displaced' /\ u \notin addressed'
        BY <1>4, <2>3, <2>5, <2>8, <3>1
      <4>2. Working(u) => u \in raced'
        BY <2>3, <3>1
      <4>3. QED
        BY <1>2, <2>8, <4>1, <4>2 DEF Left
    <3>2. CASE u \notin Ousted(row)
      <4>1. RowOf(u)' = RowOf(u) /\ (u \in addressed' <=> u \in addressed)
            /\ (u \in displaced => u \in displaced')
        BY <2>3, <2>5, <2>8, <3>2
      <4>2. QED
        BY <1>2, <4>1 DEF Left
    <3>3. QED
      BY <3>1, <3>2
  <2>9. ASSUME s \notin raced \cup failed' PROVE SessionOK(s)'
    <3>1. Was(h, s) /\ Becomes(h, s, step, r)
      BY <1>4, <2>0, <2>1, <2>9
    <3>2. status[s] = "up"
      BY <1>1, <2>0, <2>1, <3>1 DEF Was, SessionOK, StatusAgrees
    <3>3. RowAgrees(s)'
      BY <1>2, <1>4, <2>5, <2>9, <3>2 DEF RowAgrees
    <3>4. ToldAgrees(s)'
      BY <1>1, <1>2, <1>4, <2>0, <2>1, <3>1, <3>2 DEF Was, Becomes, SessionOK, ToldAgrees
    <3>5. AddressAgrees(s)'
      <4>1. a <=> s \in addressed
        <5>1. AddressAgrees(s)
          BY <3>1 DEF Was, SessionOK
        <5>2. req[h].addr <=> s \in addressed
          BY <1>1, <2>0, <2>1, <5>1 DEF AddressAgrees
        <5>3. QED
          BY <2>2, <5>2
      <4>2. \A p \in RowOf(s)' : p.addr <=> s \in addressed'
        <5>1. s \in addressed' <=> s \in addressed
          BY <1>4, <2>0, <2>1, <2>4
        <5>2. \A p \in RowOf(s)' : p.addr = a
          BY <1>4, <2>2, <2>5, <2>9
        <5>3. QED
          BY <4>1, <5>1, <5>2
      <4>3. RowOf(s)' # {}
        BY <1>4, <2>5, <2>9
      <4>4. ~Writing(s)' /\ \A g \in Handlers : req'[g].gx = s /\ OnRow(g)' =>
                               pc'[g] \notin {"lookup", "upsert"}
        BY <1>4, <3>1 DEF Becomes
      <4>5. QED
        BY <4>2, <4>3, <4>4 DEF AddressAgrees, OnRow, GxTypes
    <3>6. EmergencyKept(s)'
      BY <2>0 DEF EmergencyKept
    <3>7. StatusAgrees(s)'
      BY <1>2, <1>4, <2>0, <2>1, <3>1, <3>2 DEF Becomes, StatusAgrees
    <3>8. QED
      BY <3>3, <3>4, <3>5, <3>6, <3>7 DEF SessionOK
  <2>10. step # "idle" => step \in Places(r.type)
    BY <1>4, <2>1 DEF Places
  <2>11. QED
    BY <1>4, <2>0, <2>1, <2>5, <2>6, <2>7, <2>8, <2>9, <2>10, MovesInv
<1>5. QED
  BY <1>3, <1>4 DEF Upsert

\* The peers are told of a session.
LEMMA AnnounceKeeps ==
    ASSUME IInv, NEW h \in Handlers, Announce(h)
    PROVE  IInv'
<1>1. pc[h] = "announce" /\ req[h].type = "I" /\ OnRow(h) /\ Continue(h, "idle")
  BY StepOfType DEF Announce, IInv, OnRow, GxTypes
<1>2. UNCHANGED <<rows, emergency, addressed, raced, displaced, failed, status, installed, rxVars,
                  pduVars, requests, faults>>
  BY DEF Announce
<1>3. PICK s \in GxSessions, r \in Request :
         /\ req[h].gx = s /\ req[h] = r /\ r.gx = s /\ r.type \in GxTypes
         /\ status[s] # "new" /\ Moves(h, s, "idle", r) /\ "idle" \in PCs
         /\ s \notin raced \cup failed => Was(h, s) /\ Becomes(h, s, "idle", r)
  BY <1>1, <1>2, RacedKept, CcrStepFacts
<1>4. told' = told \cup {s} /\ ImsiOf[s] \in Known
  BY <1>1, <1>3, CcrFacts DEF Announce, LocalOK
<1>5. /\ told' \subseteq GxSessions /\ addressed' \subseteq GxSessions
      /\ displaced' \subseteq GxSessions /\ failed' \subseteq GxSessions
      /\ failed \subseteq failed' /\ faults' \in Nat
  BY <1>2, <1>4 DEF IInv, TypeOK
<1>6. /\ rows' \in Seq(Row \cup {Gone}) /\ emergency' \subseteq Range(ImsiOf)
      /\ RowsInv' /\ DisplacedInv' /\ EmergencyInv' /\ \A u : RowOf(u)' = RowOf(u)
  BY <1>2, TablesKept
<1>7. \A u \in GxSessions : u # s => Left(u, s)
  BY <1>2, <1>4, <1>6 DEF Left
<1>8. ASSUME s \notin raced \cup failed' PROVE SessionOK(s)'
  <2>1. Was(h, s) /\ Becomes(h, s, "idle", r) /\ RowOf(s)' = RowOf(s)
    BY <1>2, <1>3, <1>6, <1>8
  <2>2. status[s] = "up"
    BY <1>1, <1>3, <2>1 DEF Was, SessionOK, StatusAgrees
  <2>3. RowAgrees(s)' /\ ToldAgrees(s)'
    BY <1>1, <1>2, <1>3, <1>4, <2>1, <2>2 DEF Was, Becomes, SessionOK, RowAgrees, ToldAgrees
  <2>4. AddressAgrees(s)'
    BY <1>1, <1>2, <1>3, <2>1 DEF Was, Becomes, SessionOK, AddressAgrees, OnRow, GxTypes
  <2>5. EmergencyKept(s)' /\ StatusAgrees(s)'
    BY <1>4, <2>1 DEF Becomes, EmergencyKept, StatusAgrees
  <2>6. QED
    BY <2>3, <2>4, <2>5 DEF SessionOK
<1>9. QED
  BY <1>3, <1>5, <1>6, <1>7, <1>8, MovesInv

\* The row of a session is deleted.
LEMMA DeleteKeeps ==
    ASSUME IInv, NEW h \in Handlers, Delete(h)
    PROVE  IInv'
<1>1. pc[h] = "delete" /\ req[h].type = "T" /\ OnRow(h)
  BY StepOfType DEF Delete, IInv, OnRow, GxTypes
<1>2. UNCHANGED <<emergency, told, addressed, raced, displaced, status, installed, rxVars, pduVars,
                  requests>>
  BY DEF Delete
<1>3. CASE SessionFails(h) /\ Continue(h, "clear") /\ UNCHANGED rows
  <2>1. "clear" \in Places(req[h].type)
    BY <1>1 DEF Places
  <2>2. QED
    BY <1>1, <1>2, <1>3, <2>1, CcrFailKeeps
<1>4. CASE rows' = WithoutSession(req[h].gx) /\ Continue(h, "retract") /\ UNCHANGED <<failed, faults>>
  <2>1. PICK s \in GxSessions, r \in Request :
           /\ req[h].gx = s /\ req[h] = r /\ r.gx = s /\ r.type \in GxTypes
           /\ status[s] # "new" /\ Moves(h, s, "retract", r) /\ "retract" \in PCs
           /\ s \notin raced \cup failed => Was(h, s) /\ Becomes(h, s, "retract", r)
    BY <1>1, <1>2, <1>4, RacedKept, CcrStepFacts
  <2>2. /\ rows' \in Seq(Row \cup {Gone}) /\ RowsInv' /\ RowOf(s)' = {}
        /\ \A u \in GxSessions \ {s} : RowOf(u)' = RowOf(u)
    BY <1>2, <1>4, <2>1, DropRows
  <2>3. /\ emergency' \subseteq Range(ImsiOf)
        /\ told' \subseteq GxSessions /\ addressed' \subseteq GxSessions
        /\ displaced' \subseteq GxSessions /\ failed' \subseteq GxSessions
        /\ failed \subseteq failed' /\ faults' \in Nat
    BY <1>2, <1>4 DEF IInv, TypeOK
  <2>4. EmergencyInv' /\ DisplacedInv'
    BY <1>2, <1>4, DisplacedKept DEF IInv, GxInv, EmergencyInv
  <2>5. \A u \in GxSessions : u # s => Left(u, s)
    BY <1>2, <2>2 DEF Left
  <2>6. ASSUME s \notin raced \cup failed' PROVE SessionOK(s)'
    <3>1. Was(h, s) /\ Becomes(h, s, "retract", r)
      BY <1>4, <2>1, <2>6
    <3>2. status[s] = "down"
      BY <1>1, <2>1, <3>1 DEF Was, SessionOK, StatusAgrees
    <3>3. RowAgrees(s)' /\ ToldAgrees(s)'
      BY <1>1, <1>2, <2>1, <2>2, <3>1, <3>2 DEF Was, Becomes, SessionOK, RowAgrees, ToldAgrees
    <3>4. AddressAgrees(s)'
      BY <1>2, <2>2, <3>1, <3>2 DEF Becomes, AddressAgrees, OnRow, GxTypes
    <3>5. EmergencyKept(s)' /\ StatusAgrees(s)'
      BY <1>1, <1>2, <2>1, <3>1, <3>2
      DEF Was, Becomes, SessionOK, EmergencyKept, StatusAgrees
    <3>6. QED
      BY <3>3, <3>4, <3>5 DEF SessionOK
  <2>7. "retract" \in Places(r.type)
    BY <1>1, <2>1 DEF Places
  <2>8. QED
    BY <2>1, <2>2, <2>3, <2>4, <2>5, <2>6, <2>7, MovesInv
<1>5. QED
  BY <1>3, <1>4 DEF Delete

\* The peers are told that a session is gone.
LEMMA RetractKeeps ==
    ASSUME IInv, NEW h \in Handlers, Retract(h)
    PROVE  IInv'
<1>1. pc[h] = "retract" /\ req[h].type = "T" /\ OnRow(h) /\ Continue(h, "clear")
  BY StepOfType DEF Retract, IInv, OnRow, GxTypes
<1>2. UNCHANGED <<rows, emergency, addressed, raced, displaced, failed, status, installed, rxVars,
                  pduVars, requests, faults>>
  BY DEF Retract
<1>3. PICK s \in GxSessions, r \in Request :
         /\ req[h].gx = s /\ req[h] = r /\ r.gx = s /\ r.type \in GxTypes
         /\ status[s] # "new" /\ Moves(h, s, "clear", r) /\ "clear" \in PCs
         /\ s \notin raced \cup failed => Was(h, s) /\ Becomes(h, s, "clear", r)
  BY <1>1, <1>2, RacedKept, CcrStepFacts
<1>4. told' = told \ {s}
  BY <1>3 DEF Retract
<1>5. /\ told' \subseteq GxSessions /\ addressed' \subseteq GxSessions
      /\ displaced' \subseteq GxSessions /\ failed' \subseteq GxSessions
      /\ failed \subseteq failed' /\ faults' \in Nat
  BY <1>2, <1>4 DEF IInv, TypeOK
<1>6. /\ rows' \in Seq(Row \cup {Gone}) /\ emergency' \subseteq Range(ImsiOf)
      /\ RowsInv' /\ DisplacedInv' /\ EmergencyInv' /\ \A u : RowOf(u)' = RowOf(u)
  BY <1>2, TablesKept
<1>7. \A u \in GxSessions : u # s => Left(u, s)
  BY <1>2, <1>4, <1>6 DEF Left
<1>8. ASSUME s \notin raced \cup failed' PROVE SessionOK(s)'
  <2>1. Was(h, s) /\ Becomes(h, s, "clear", r) /\ RowOf(s)' = RowOf(s)
    BY <1>2, <1>3, <1>6, <1>8
  <2>2. status[s] = "down"
    BY <1>1, <1>3, <2>1 DEF Was, SessionOK, StatusAgrees
  <2>3. RowAgrees(s)' /\ ToldAgrees(s)' /\ RowOf(s) = {}
    BY <1>1, <1>2, <1>3, <1>4, <2>1, <2>2 DEF Was, Becomes, SessionOK, RowAgrees, ToldAgrees
  <2>4. AddressAgrees(s)'
    BY <1>1, <1>2, <1>3, <2>1, <2>2, <2>3 DEF Becomes, AddressAgrees, OnRow, GxTypes
  <2>5. EmergencyKept(s)' /\ StatusAgrees(s)'
    BY <1>1, <1>2, <1>3, <2>1, <2>2
    DEF Was, Becomes, SessionOK, EmergencyKept, StatusAgrees
  <2>6. QED
    BY <2>3, <2>4, <2>5 DEF SessionOK
<1>9. "clear" \in Places(r.type)
  BY <1>1, <1>3 DEF Places
<1>10. QED
  BY <1>3, <1>5, <1>6, <1>7, <1>8, <1>9, MovesInv

\* The emergency record is deleted.
LEMMA ClearKeeps ==
    ASSUME IInv, NEW h \in Handlers, Clear(h)
    PROVE  IInv'
<1>1. pc[h] = "clear" /\ req[h].type = "T" /\ OnRow(h) /\ Continue(h, "idle")
  BY StepOfType DEF Clear, IInv, OnRow, GxTypes
<1>2. UNCHANGED <<rows, told, addressed, raced, displaced, status, installed, rxVars, pduVars,
                  requests>>
  BY DEF Clear
<1>3. CASE SessionFails(h) /\ UNCHANGED emergency
  BY <1>1, <1>2, <1>3, CcrFailKeeps
<1>4. CASE emergency' = emergency \ {ImsiOf[req[h].gx]} /\ UNCHANGED <<failed, faults>>
  <2>1. PICK s \in GxSessions, r \in Request :
           /\ req[h].gx = s /\ req[h] = r /\ r.gx = s /\ r.type \in GxTypes
           /\ status[s] # "new" /\ Moves(h, s, "idle", r) /\ "idle" \in PCs
           /\ s \notin raced \cup failed => Was(h, s) /\ Becomes(h, s, "idle", r)
    BY <1>1, <1>2, RacedKept, CcrStepFacts
  <2>2. emergency' = emergency \ {ImsiOf[s]} /\ failed' = failed
    BY <1>4, <2>1
  <2>3. /\ rows' \in Seq(Row \cup {Gone}) /\ emergency' \subseteq Range(ImsiOf)
        /\ RowsInv' /\ DisplacedInv' /\ EmergencyInv' /\ \A u : RowOf(u)' = RowOf(u)
    BY <1>2, <2>2, TablesKept
  <2>4. /\ told' \subseteq GxSessions /\ addressed' \subseteq GxSessions
        /\ displaced' \subseteq GxSessions /\ failed' \subseteq GxSessions
        /\ failed \subseteq failed' /\ faults' \in Nat
    BY <1>2, <1>4 DEF IInv, TypeOK
  <2>5. ASSUME NEW u \in GxSessions \ (raced \cup failed'), u # s PROVE Left(u, s)
    <3>1. ImsiOf[s] = ImsiOf[u] /\ ImsiOf[u] \notin Known => Rivals(u) # {}
      BY <2>5, SlotFacts DEF Rivals
    <3>2. ImsiOf[u] \notin Known /\ Rivals(u) = {} =>
             (ImsiOf[u] \in emergency' <=> ImsiOf[u] \in emergency)
      BY <2>2, <3>1
    <3>3. QED
      BY <1>2, <2>3, <3>2 DEF Left
  <2>6. ASSUME s \notin raced \cup failed' PROVE SessionOK(s)'
    <3>1. Was(h, s) /\ Becomes(h, s, "idle", r) /\ RowOf(s)' = RowOf(s)
      BY <1>4, <2>1, <2>3, <2>6
    <3>2. status[s] = "down"
      BY <1>1, <2>1, <3>1 DEF Was, SessionOK, StatusAgrees
    <3>3. RowAgrees(s)' /\ ToldAgrees(s)' /\ RowOf(s) = {}
      BY <1>1, <1>2, <2>1, <3>1, <3>2 DEF Was, Becomes, SessionOK, RowAgrees, ToldAgrees
    <3>4. AddressAgrees(s)'
      BY <1>2, <3>1, <3>2, <3>3 DEF Becomes, AddressAgrees, OnRow, GxTypes
    <3>5. EmergencyKept(s)' /\ StatusAgrees(s)'
      BY <1>2, <2>2, <3>1, <3>2 DEF Becomes, EmergencyKept, StatusAgrees
    <3>6. QED
      BY <3>3, <3>4, <3>5 DEF SessionOK
  <2>7. QED
    BY <2>1, <2>3, <2>4, <2>5, <2>6, MovesInv
<1>5. QED
  BY <1>3, <1>4 DEF Clear

\* A CCR leaves the calls what they were: the PGW drops the rules of a session with it.
LEMMA CcrRules ==
    ASSUME IInv, NEW s \in GxSessions, NEW t \in GxTypes,
           status[s] = (IF t = "I" THEN "new" ELSE "up"),
           status' = [status EXCEPT ![s] = IF t = "T" THEN "down" ELSE "up"],
           installed' = (IF t = "T" THEN {b \in installed : b.gx # s} ELSE installed),
           NEW x \in Calls, NEW g \in GxSessions, status[g] # "new", NEW names,
           RulesAre(x, g, names)
    PROVE  RulesAre(x, g, names)'
<1>1. /\ status'[s] = (IF t = "T" THEN "down" ELSE "up")
      /\ \A u \in GxSessions \ {s} : status'[u] = status[u]
  BY DEF IInv, TypeOK
<1>2. CASE status[g] # "up"
  <2>1. RulesOf(x) = {} /\ g # s
    BY <1>2 DEF RulesAre
  <2>2. {b \in installed' : b.call = x} = {}
    BY <2>1, NoRules
  <2>3. RulesOf(x)' = {}
    BY <2>2 DEF RulesOf
  <2>4. QED
    BY <1>1, <1>2, <2>1, <2>3 DEF RulesAre
<1>3. CASE status[g] = "up"
  <2>1. RulesOf(x) = {g} \X names
    BY <1>3 DEF RulesAre
  <2>2. \A b \in installed : b.call = x => <<b.gx, b.name>> \in {g} \X names
    BY <2>1 DEF RulesOf
  <2>3. \A b \in installed : b.call = x => b.gx = g
    BY <2>2
  <2>4. CASE t = "T" /\ g = s
    <3>1. {b \in installed' : b.call = x} = {}
      BY <2>3, <2>4
    <3>2. RulesOf(x)' = {}
      BY <3>1 DEF RulesOf
    <3>3. QED
      BY <1>1, <2>4, <3>2 DEF RulesAre
  <2>5. CASE ~(t = "T" /\ g = s)
    <3>1. RulesOf(x)' = RulesOf(x)
      BY <2>3, <2>5, RulesSame
    <3>2. status'[g] = "up"
      BY <1>1, <1>3, <2>5 DEF GxTypes
    <3>3. QED
      BY <2>1, <3>1, <3>2 DEF RulesAre
  <2>6. QED
    BY <2>4, <2>5
<1>4. QED
  BY <1>2, <1>3

\* What a CCR does to the calls: a CCR-T takes the rules of its session with it.
LEMMA CcrCalls ==
    ASSUME IInv, NEW h \in Handlers, NEW s \in GxSessions, NEW t \in GxTypes, MovedOnly(h),
           req[h].call \notin Calls, req'[h].call \notin Calls, UNCHANGED rxVars,
           status[s] = (IF t = "I" THEN "new" ELSE "up"),
           status' = [status EXCEPT ![s] = IF t = "T" THEN "down" ELSE "up"],
           installed' = (IF t = "T" THEN {b \in installed : b.gx # s} ELSE installed)
    PROVE  RxInv'
<1> USE DEF rxVars
<1>1. \A g \in Handlers : \A x \in Calls :
         /\ req'[g].call = x <=> req[g].call = x
         /\ req[g].call = x => pc'[g] = pc[g] /\ req'[g] = req[g]
  BY DEF MovedOnly
<1>2. CallsApart'
  BY <1>1 DEF IInv, RxInv, CallsApart
<1>3. \A u \in GxSessions : status[u] # "new" => status'[u] # "new"
  BY DEF IInv, TypeOK
<1>4. \A x \in Calls : calls[x] # NoCall => calls[x].gx \in GxSessions /\ status[calls[x].gx] # "new"
  BY DEF IInv, TypeOK, RxInv, NamesInv, Call
<1>5. NamesInv'
  <2>1. \A b \in installed' : b \in installed
    OBVIOUS
  <2>2. QED
    BY <1>3, <1>4, <2>1 DEF IInv, RxInv, NamesInv, Called
<1>6. \A g \in Handlers : \A x \in Calls : req[g].call = x =>
         req[g].gx \in GxSessions /\ status[req[g].gx] # "new"
  <2> SUFFICES ASSUME NEW g \in Handlers, req[g].call \in Calls
               PROVE  req[g].gx \in GxSessions /\ status[req[g].gx] # "new"
    OBVIOUS
  <2>1. req[g].type \in RxTypes
    BY Carries DEF IInv
  <2>2. QED
    BY <2>1, CallFacts
<1>7. \A x \in Calls : RulesOf(x) = {} => RulesOf(x)' = {}
  <2> SUFFICES ASSUME NEW x \in Calls, RulesOf(x) = {} PROVE RulesOf(x)' = {}
    OBVIOUS
  <2>1. {b \in installed' : b.call = x} = {}
    BY NoRules
  <2>2. QED
    BY <2>1 DEF RulesOf
<1>8. ASSUME NEW x \in Calls \ troubled, ~Clash(x) PROVE CallOK(x)'
  <2>1. CallOK(x)
    BY <1>8 DEF IInv, RxInv, CallInv
  <2>2. Serving(x)' <=> Serving(x)
    BY <1>1 DEF Serving
  <2>3. \A g \in GxSessions : \A names : status[g] # "new" /\ RulesAre(x, g, names) =>
           RulesAre(x, g, names)'
    BY CcrRules
  <2>4. ASSUME ~Serving(x)', calls[x] # NoCall
        PROVE  RulesAre(x, calls[x].gx, calls[x].names)'
    <3>1. PICK g \in GxSessions, names \in {calls[x].names} : calls[x].gx = g
      BY <1>4, <2>4
    <3>2. RulesAre(x, g, names)'
      BY <1>4, <2>1, <2>2, <2>3, <2>4, <3>1 DEF CallOK
    <3>3. calls'[x].gx = g /\ calls'[x].names = names
      BY <3>1
    <3>4. QED
      BY <3>2, <3>3 DEF RulesAre
  <2>5. ASSUME NEW k \in Handlers, req'[k].call = x, pc'[k] \in {"store", "remove"}
        PROVE  RulesAre(x, req[k].gx, req[k].names)'
    <3>1. req[k].call = x /\ pc'[k] = pc[k] /\ req'[k] = req[k]
      BY <1>1, <2>5
    <3>2. PICK g \in GxSessions, names \in {req[k].names} : req[k].gx = g /\ status[g] # "new"
      BY <1>6, <3>1
    <3>3. RulesAre(x, g, names)'
      BY <2>1, <2>3, <2>5, <3>1, <3>2 DEF CallOK
    <3>4. req'[k].gx = g /\ req'[k].names = names
      BY <3>1, <3>2
    <3>5. QED
      BY <3>3, <3>4 DEF RulesAre
  <2>6. QED
    BY <1>1, <1>7, <2>1, <2>2, <2>4, <2>5 DEF CallOK
<1>9. QED
  BY <1>2, <1>5, <1>8 DEF RxInv, CallInv, Clash

\* Some numbers have a least one.
LEMMA LeastOf ==
    ASSUME NEW S \in SUBSET Nat, S # {}
    PROVE  \E x \in S : \A y \in S : x <= y
<1> DEFINE Below == {0 .. n : n \in S}
<1>1. IsWellFoundedOn(StrictSubsetOrdering(Nat), FiniteSubsetsOf(Nat))
  BY FS_StrictSubsetOrderingWellFounded
<1>2. Below \subseteq FiniteSubsetsOf(Nat)
  <2>1. \A n \in S : IsFiniteSet(0 .. n)
    BY FS_Interval
  <2>2. QED
    BY <2>1 DEF FiniteSubsetsOf
<1>3. Below # {}
  <2>1. PICK n \in S : TRUE
    OBVIOUS
  <2>2. 0 .. n \in Below
    BY <2>1
  <2>3. QED
    BY <2>2
<1> HIDE DEF Below
<1>4. PICK X \in Below : \A Y \in Below : ~ (<<Y, X>> \in StrictSubsetOrdering(Nat))
  BY <1>1, <1>2, <1>3, WFMin
<1>5. PICK x \in S : X = 0 .. x
  BY DEF Below
<1>6. ASSUME NEW y \in S, y < x PROVE FALSE
  <2>1. /\ 0 .. y \in SUBSET Nat /\ 0 .. x \in SUBSET Nat
        /\ 0 .. y \subseteq 0 .. x /\ x \in 0 .. x /\ x \notin 0 .. y
    BY <1>6
  <2>2. <<0 .. y, X>> \in StrictSubsetOrdering(Nat)
    BY <1>5, <2>1 DEF StrictSubsetOrdering
  <2>3. 0 .. y \in Below
    BY DEF Below
  <2>4. QED
    BY <2>2, <2>3, <1>4
<1>7. \A y \in S : x <= y
  BY <1>6
<1>8. QED
  BY <1>7

\* The address recorded of a session whose rows agree on it.
LEMMA StoredFacts ==
    ASSUME IInv, NEW s \in GxSessions, \A p \in RowOf(s) : p.addr <=> s \in addressed,
           RowOf(s) = {} => s \notin addressed
    PROVE  StoredAddress(s) <=> s \in addressed
<1>1. PlacesOf(s) \in SUBSET Nat /\ PlacesOf(s) \subseteq DOMAIN rows
  BY RowFacts DEF PlacesOf
<1>2. \A k \in PlacesOf(s) : rows[k] \in RowOf(s)
  BY RowFacts DEF PlacesOf
<1>3. ASSUME s \in addressed PROVE StoredAddress(s)
  <2>1. PlacesOf(s) # {}
    BY <1>3, RowFacts DEF PlacesOf
  <2>2. PICK k \in PlacesOf(s) : \A l \in PlacesOf(s) : k <= l
    BY <1>1, <2>1, LeastOf
  <2>3. QED
    BY <1>2, <1>3, <2>2 DEF StoredAddress
<1>4. StoredAddress(s) => s \in addressed
  BY <1>2 DEF StoredAddress
<1>5. QED
  BY <1>3, <1>4

\* A CCR is received.
LEMMA ReceiveCcrKeeps ==
    ASSUME IInv, NEW h \in Handlers, NEW s \in GxSessions, NEW t \in GxTypes, ReceiveCCR(h, s, t)
    PROVE  IInv'
<1> DEFINE hit == {u \in Rivals(s) \cup {s} : Working(u)}
<1>1. Receive(h) /\ pc[h] = "idle" /\ req[h] = Idle /\ requests' \in Nat
  BY ReceiveFacts DEF ReceiveCCR
<1>2. /\ status[s] = (IF t = "I" THEN "new" ELSE "up")
      /\ status' = [status EXCEPT ![s] = IF t = "T" THEN "down" ELSE "up"]
      /\ installed' = (IF t = "T" THEN {b \in installed : b.gx # s} ELSE installed)
      /\ raced' = (IF hit = {} THEN raced ELSE raced \cup hit \cup {s})
      /\ UNCHANGED <<rows, emergency, told, displaced, rxVars, pduVars>>
  BY DEF ReceiveCCR
<1> DEFINE step == IF t = "T" THEN "delete" ELSE "lookup"
<1>3. PICK addr \in BOOLEAN :
         /\ Goto(h, step, [Idle EXCEPT !.type = t, !.gx = s, !.addr = addr])
         /\ \/ addr /\ addressed' = addressed \cup {s} /\ UNCHANGED <<failed, faults>>
            \/ addr = StoredAddress(s) /\ UNCHANGED <<addressed, failed, faults>>
            \/ ~addr /\ Fault /\ failed' = failed \cup {s} /\ UNCHANGED addressed
  BY DEF ReceiveCCR
<1>4. PICK r \in Request :
         /\ r = [Idle EXCEPT !.type = t, !.gx = s, !.addr = addr]
         /\ r.type = t /\ r.gx = s /\ r.call = None /\ r.pdu = Gap /\ r.addr = addr
  <2> DEFINE q == [Idle EXCEPT !.type = t, !.gx = s, !.addr = addr]
  <2>1. /\ q \in Request /\ q.type = t /\ q.gx = s /\ q.call = None /\ q.pdu = Gap
        /\ q.addr = addr
    BY DEF Idle, Request, GxTypes, Apns
  <2>2. QED
    BY <2>1
<1>5. Goto(h, step, r) /\ step \in PCs /\ step # "idle" /\ step \in Places(t)
  BY <1>3, <1>4 DEF PCs, Places, GxTypes
<1>6. /\ pc' \in [Handlers -> PCs] /\ req' \in [Handlers -> Request] /\ MovedOnly(h)
      /\ pc'[h] = step /\ req'[h] = r
  BY <1>5, GotoFacts DEF IInv
<1>7. /\ status'[s] = (IF t = "T" THEN "down" ELSE "up")
      /\ \A u \in GxSessions \ {s} : status'[u] = status[u]
      /\ status' \in [GxSessions -> {"new", "up", "down"}]
      /\ \A u \in GxSessions : status[u] # "new" => status'[u] # "new"
  BY <1>2 DEF IInv, TypeOK
<1>8. /\ rows' \in Seq(Row \cup {Gone}) /\ emergency' \subseteq Range(ImsiOf)
      /\ told' \subseteq GxSessions /\ addressed' \subseteq GxSessions
      /\ displaced' \subseteq GxSessions /\ failed' \subseteq GxSessions
      /\ installed' \subseteq Bearer /\ faults' \in Nat /\ failed \subseteq failed'
  BY <1>2, <1>3 DEF IInv, TypeOK, Fault
<1>9. raced \subseteq raced' /\ raced' \subseteq GxSessions
  BY <1>2 DEF IInv, TypeOK, Rivals
<1>10. \A g \in Handlers \ {h} : OnRow(g) /\ Slot(req[g].gx) = Slot(s) =>
          req[g].gx \in raced' /\ s \in raced'
  <2> SUFFICES ASSUME NEW g \in Handlers \ {h}, OnRow(g), Slot(req[g].gx) = Slot(s)
               PROVE  req[g].gx \in raced' /\ s \in raced'
    OBVIOUS
  <2>1. req[g].gx \in hit
    BY CcrFacts DEF Rivals, Working, OnRow, GxTypes
  <2>2. QED
    BY <1>2, <2>1
<1>11. RowsInv' /\ DisplacedInv' /\ EmergencyInv' /\ \A u : RowOf(u)' = RowOf(u)
  <2>1. \A k \in DOMAIN rows : rows[k] # Gone => rows[k].gx \in GxSessions
    BY RowFacts
  <2>2. RowsInv'
    BY <1>2, <1>7, <1>8, <2>1 DEF IInv, GxInv, RowsInv
  <2>3. EmergencyInv' /\ \A u : RowOf(u)' = RowOf(u)
    BY <1>2, <1>8 DEF IInv, GxInv, EmergencyInv, RowOf
  <2>4. DisplacedInv'
    BY <1>2, <1>8, DisplacedKept
  <2>5. QED
    BY <2>2, <2>3, <2>4
<1>12. \A u \in GxSessions : u # s => Left(u, s)
  BY <1>2, <1>3, <1>7, <1>11 DEF Left
<1>13. ~OnRow(h) /\ OnRow(h)'
  BY <1>1, <1>4, <1>6, IdleFacts DEF OnRow, GxTypes
<1>14. ASSUME s \notin raced' \cup failed' PROVE SessionOK(s)'
  <2>1. \A g \in Handlers : ~(OnRow(g) /\ req[g].gx = s)
    BY <1>10, <1>13, <1>14
  <2>2. \A T \in GxTypes : \A steps : ~Doing(s, T, steps)
    BY <2>1 DEF Doing, OnRow
  <2>3. /\ \A steps : ~Doing(s, "I", steps) /\ ~Doing(s, "T", steps)
        /\ ~Opening(s) /\ ~Writing(s)
    BY <2>2 DEF Opening, Writing, GxTypes
  <2>4. /\ \A g \in Handlers : OnRow(g)' /\ req'[g].gx = s => g = h
        /\ \A T \in GxTypes : \A steps : Doing(s, T, steps)' <=> t = T /\ step \in steps
    <3>1. /\ \A g \in Handlers : OnRow(g)' /\ req'[g].gx = s => g = h
          /\ \A T \in GxTypes : \A steps :
                Doing(s, T, steps)' <=> req'[h].type = T /\ pc'[h] \in steps
      BY <1>4, <1>6, <2>1, OwnStepsNext
    <3>2. req'[h].type = t /\ pc'[h] = step
      BY <1>4, <1>6
    <3> HIDE DEF step
    <3>3. QED
      BY <3>1, <3>2
  <2>5. /\ \A steps : Doing(s, "I", steps)' <=> t = "I" /\ step \in steps
        /\ \A steps : Doing(s, "T", steps)' <=> t = "T" /\ step \in steps
        /\ Opening(s)' <=> t = "I"
        /\ Writing(s)' <=> t \in {"I", "U"}
    BY <2>4 DEF Opening, Writing, GxTypes
  <2>6. SessionOK(s)
    BY <1>8, <1>9, <1>14 DEF IInv, GxInv, SessionInv
  <2>7. RowOf(s) # {} => ImsiOf[s] \in Known /\ status[s] # "new"
    BY RowOwner
  <2>8. RowAgrees(s)'
    BY <1>2, <1>7, <1>11, <2>3, <2>5, <2>6, <2>7 DEF SessionOK, RowAgrees, GxTypes
  <2>9. ToldAgrees(s)'
    BY <1>2, <1>7, <2>3, <2>5, <2>6 DEF SessionOK, ToldAgrees, GxTypes
  <2>10. AddressAgrees(s)'
    <3>1. ASSUME t # "T", ImsiOf[s] \in Known
          PROVE  r.addr <=> s \in addressed'
      <4>1. StoredAddress(s) <=> s \in addressed
        <5>1. AddressAgrees(s)
          BY <2>6 DEF SessionOK
        <5>2. \A p \in RowOf(s) : p.addr <=> s \in addressed
          BY <2>3, <5>1 DEF AddressAgrees
        <5>3. RowOf(s) = {} => s \notin addressed
          BY <1>2, <2>3, <3>1, <5>1 DEF AddressAgrees
        <5>4. QED
          BY <5>2, <5>3, StoredFacts
      <4>2. r.addr <=> addr
        BY <1>4, Zenon
      <4>3. s \notin failed'
        BY <1>14
      <4>4. CASE addr /\ addressed' = addressed \cup {s}
        BY <4>2, <4>4
      <4>5. CASE addr = StoredAddress(s) /\ UNCHANGED addressed
        <5>1. addr <=> StoredAddress(s)
          BY <4>5, Zenon
        <5>2. s \in addressed' <=> s \in addressed
          BY <4>5
        <5>3. QED
          BY <4>1, <4>2, <5>1, <5>2, Zenon
      <4>6. QED
        BY <1>3, <4>3, <4>4, <4>5
    <3>2. CASE t = "T"
      BY <1>4, <1>6, <1>7, <2>4, <2>5, <3>2 DEF AddressAgrees, OnRow, GxTypes
    <3>3. CASE t # "T"
      <4>1. Writing(s)'
        BY <2>5, <3>3 DEF GxTypes
      <4>2. \A g \in Handlers : req'[g].gx = s /\ OnRow(g)' => req'[g] = r
        BY <1>6, <2>4
      <4>3. QED
        BY <3>1, <3>3, <4>1, <4>2 DEF AddressAgrees, OnRow, GxTypes
    <3>4. QED
      BY <3>2, <3>3
  <2>11. EmergencyKept(s)'
    BY <1>2, <1>7, <2>3, <2>5, <2>6 DEF SessionOK, EmergencyKept, Rivals, Slot, Key, GxTypes
  <2>12. StatusAgrees(s)'
    BY <1>4, <1>6, <1>7, <2>4 DEF StatusAgrees, GxTypes
  <2>13. QED
    BY <2>8, <2>9, <2>10, <2>11, <2>12 DEF SessionOK
<1>15. GxStep(h, s)
  BY <1>2, <1>4, <1>6, <1>8, <1>9, <1>10, <1>11, <1>12, <1>13, <1>14 DEF GxStep
<1>16. /\ req[h].pdu = Gap /\ req'[h].pdu = Gap /\ pc[h] # "write" /\ pc'[h] # "write"
       /\ req[h].call \notin Calls /\ req'[h].call \notin Calls
  BY <1>1, <1>4, <1>6, IdleFacts
<1>17. LocalOK(h)'
  <2>1. r.type \notin {"none"} \cup RxTypes \cup PduTypes /\ r.pdu \notin PduRow /\ r.call \notin Calls
    BY <1>4 DEF GxTypes, RxTypes, PduTypes, Gap, PduRow
  <2>2. status'[s] # "new" /\ step \in {"lookup", "delete"}
    BY <1>7
  <2>3. QED
    BY <1>4, <1>5, <1>6, <2>1, <2>2 DEF LocalOK
<1>18. RxInv'
  <2>1. UNCHANGED rxVars
    BY <1>2
  <2>2. QED
    BY <1>2, <1>6, <1>16, <2>1, CcrCalls
<1>19. QED
  BY <1>1, <1>2, <1>6, <1>7, <1>8, <1>9, <1>13, <1>15, <1>16, <1>17, <1>18, GxStepInv

-----------------------------------------------------------------------------
(***************************************************************************)
(* The restart, the start, and the theorems.                               *)
(***************************************************************************)
LEMMA RestartKeeps ==
    ASSUME IInv, Restart
    PROVE  IInv'
<1>1. /\ pc' = [h \in Handlers |-> "idle"] /\ req' = [h \in Handlers |-> Idle]
      /\ calls' = [x \in Calls |-> NoCall]
      /\ failed' = failed \cup {s \in GxSessions : Working(s)}
      /\ troubled' = troubled \cup {x \in Calls : Serving(x) \/ calls[x] # NoCall}
      /\ muddled' = muddled \cup {i \in PduSessions : Registering(i)}
      /\ UNCHANGED <<rows, emergency, told, addressed, raced, displaced, status, installed,
                     closed, pdu, smfOf, requests>>
  BY DEF Restart
<1>2. \A h \in Handlers : pc'[h] = "idle" /\ req'[h] = Idle
  BY <1>1
<1>3. TypeOK'
  <2>1. faults' \in Nat
    BY DEF Restart, Fault, IInv, TypeOK
  <2>2. pc' \in [Handlers -> PCs] /\ req' \in [Handlers -> Request]
    BY <1>1, IdleFacts DEF PCs
  <2>3. QED
    BY <1>1, <2>1, <2>2 DEF IInv, TypeOK
<1>4. LocalInv'
  BY <1>2, IdleLocal DEF LocalInv
<1>5. /\ \A h \in Handlers : ~OnRow(h)' /\ req'[h].call \notin Calls /\ req'[h].pdu = Gap
      /\ \A h \in Handlers : req'[h].gx \notin GxSessions /\ pc'[h] = "idle"
      /\ \A h \in Handlers : \A i \in PduSessions : req'[h].pdu.id # i
  BY <1>2, IdleFacts DEF OnRow, GxTypes, Gap
<1>6. GxInv'
  <2>1. RowsApart'
    BY <1>5 DEF RowsApart
  <2>2. RowsInv' /\ EmergencyInv' /\ DisplacedInv' /\ \A u : RowOf(u)' = RowOf(u)
    BY <1>1, DisplacedKept DEF IInv, GxInv, RowsInv, EmergencyInv, RowOf
  <2>3. ASSUME NEW s \in GxSessions \ (raced' \cup failed') PROVE SessionOK(s)'
    <3>1. SessionOK(s) /\ ~Working(s)
      BY <1>1, <2>3 DEF IInv, GxInv, SessionInv
    <3>2. /\ \A t \in GxTypes : \A steps : ~Doing(s, t, steps) /\ ~Doing(s, t, steps)'
          /\ ~Opening(s) /\ ~Opening(s)' /\ ~Writing(s) /\ ~Writing(s)'
      BY <1>5, <3>1 DEF Doing, Opening, Writing, Working, GxTypes
    <3>3. /\ \A steps : ~Doing(s, "I", steps) /\ ~Doing(s, "T", steps)
          /\ \A steps : ~Doing(s, "I", steps)' /\ ~Doing(s, "T", steps)'
      BY <3>2 DEF GxTypes
    <3>4. RowAgrees(s)' /\ ToldAgrees(s)'
      BY <1>1, <2>2, <3>1, <3>2, <3>3 DEF SessionOK, RowAgrees, ToldAgrees
    <3>5. AddressAgrees(s)'
      BY <1>1, <1>5, <2>2, <3>1, <3>2, <3>3 DEF SessionOK, AddressAgrees
    <3>6. EmergencyKept(s)' /\ StatusAgrees(s)'
      BY <1>1, <1>5, <3>1, <3>3 DEF SessionOK, EmergencyKept, StatusAgrees, Rivals, Slot, Key
    <3>7. QED
      BY <3>4, <3>5, <3>6 DEF SessionOK
  <2>4. QED
    BY <2>1, <2>2, <2>3 DEF GxInv, SessionInv
<1>7. RxInv'
  <2>1. CallsApart'
    BY <1>5 DEF CallsApart
  <2>2. NamesInv'
    BY <1>1 DEF IInv, RxInv, NamesInv, Called
  <2>3. ASSUME NEW x \in Calls \ troubled', ~Clash(x) PROVE CallOK(x)'
    <3>1. CallOK(x) /\ ~Serving(x) /\ calls[x] = NoCall /\ calls'[x] = NoCall
      BY <1>1, <2>3 DEF IInv, RxInv, CallInv
    <3>2. RulesOf(x)' = {}
      BY <1>1, <3>1 DEF CallOK, RulesOf
    <3>3. QED
      BY <1>5, <3>1, <3>2 DEF CallOK
  <2>4. QED
    BY <2>1, <2>2, <2>3 DEF RxInv, CallInv, Clash
<1>8. PduInv'
  <2>1. PdusApart'
    BY <1>5 DEF PdusApart, Gap, PduRow
  <2>2. FoundInv'
    BY <1>5 DEF FoundInv
  <2>3. ASSUME NEW i \in PduSessions \ muddled' PROVE PduOK(i)'
    <3>1. PduOK(i) /\ ~Registering(i)
      BY <1>1, <2>3 DEF IInv, PduInv
    <3>2. ListedOf(i)' = ListedOf(i) /\ smfOf' = smfOf /\ \A smf : Lists(i, smf)' <=> Lists(i, smf)
      BY <1>1 DEF ListedOf, ListServingPDUSessions, Lists
    <3>3. QED
      BY <1>5, <3>1, <3>2 DEF PduOK, Registering
  <2>4. QED
    BY <2>1, <2>2, <2>3 DEF PduInv
<1>9. QED
  BY <1>3, <1>4, <1>6, <1>7, <1>8 DEF IInv

\* The start is in order.
LEMMA InitHolds == Init => IInv
<1> SUFFICES ASSUME Init PROVE IInv
  OBVIOUS
<1>1. /\ \A h \in Handlers : pc[h] = "idle" /\ req[h] = Idle
      /\ \A s \in GxSessions : status[s] = "new"
      /\ \A x \in Calls : calls[x] = NoCall
      /\ DOMAIN rows = {} /\ DOMAIN pdu = {} /\ installed = {} /\ told = {} /\ emergency = {}
      /\ addressed = {} /\ raced = {} /\ failed = {} /\ displaced = {} /\ smfOf = [i \in PduSessions |-> None]
  BY DEF Init
<1>2. TypeOK
  <2>1. pc \in [Handlers -> PCs] /\ req \in [Handlers -> Request]
    BY IdleFacts DEF Init, PCs
  <2>2. rows \in Seq(Row \cup {Gone}) /\ pdu \in Seq(PduRow \cup {Gap})
    BY DEF Init
  <2>3. calls \in [Calls -> Call \cup {NoCall}] /\ status \in [GxSessions -> {"new", "up", "down"}]
        /\ smfOf \in [PduSessions -> Smfs \cup {None}]
    BY DEF Init
  <2>4. QED
    BY <2>1, <2>2, <2>3 DEF Init, TypeOK
<1>3. LocalInv
  BY <1>1, IdleFacts DEF LocalInv, LocalOK, Places, GxTypes, RxTypes, PduTypes, Gap, PduRow
<1>4. /\ \A h \in Handlers : ~OnRow(h) /\ req[h].call \notin Calls /\ req[h].pdu = Gap
      /\ \A h \in Handlers : req[h].gx \notin GxSessions /\ pc[h] = "idle"
      /\ \A h \in Handlers : \A i \in PduSessions : req[h].pdu.id # i
  BY <1>1, IdleFacts DEF OnRow, GxTypes, Gap
<1>5. GxInv
  <2>1. RowsApart /\ RowsInv /\ DisplacedInv /\ EmergencyInv
    BY <1>1, <1>4 DEF RowsApart, RowsInv, DisplacedInv, EmergencyInv
  <2>2. \A s : RowOf(s) = {}
    BY <1>1 DEF RowOf, Range
  <2>3. ASSUME NEW s \in GxSessions PROVE SessionOK(s)
    BY <1>1, <1>4, <2>2, <2>3
    DEF SessionOK, RowAgrees, ToldAgrees, AddressAgrees, EmergencyKept, StatusAgrees
  <2>4. QED
    BY <2>1, <2>3 DEF GxInv, SessionInv
<1>6. RxInv
  <2>1. \A x \in Calls : RulesOf(x) = {}
    BY <1>1 DEF RulesOf
  <2>2. QED
    BY <1>1, <1>4, <2>1 DEF RxInv, CallsApart, NamesInv, CallInv, CallOK
<1>7. PduInv
  <2>1. \A i : ListedOf(i) = {}
    BY <1>1 DEF ListedOf, ListServingPDUSessions
  <2>2. PdusApart
    BY <1>4 DEF PdusApart, Gap, PduRow
  <2>3. QED
    BY <1>1, <1>4, <2>1, <2>2 DEF PduInv, FoundInv, PduOK, Registering
<1>8. QED
  BY <1>2, <1>3, <1>5, <1>6, <1>7 DEF IInv

\* A step that changes nothing keeps the invariant.
LEMMA StutterKeeps == IInv /\ UNCHANGED vars => IInv'
<1> SUFFICES ASSUME IInv, UNCHANGED vars PROVE IInv'
  OBVIOUS
<1>1. UNCHANGED <<gxVars, rxVars, pduVars, installed, pc, req, requests, faults>>
  BY DEF vars, gxVars, rxVars, pduVars
<1>2. TypeOK'
  BY <1>1 DEF IInv, TypeOK, gxVars, rxVars, pduVars
<1>3. LocalInv'
  BY <1>1 DEF IInv, LocalInv, LocalOK, Called, gxVars
<1>4. GxInv'
  <2>1. \A s : (SessionOK(s)' <=> SessionOK(s))
    BY <1>1 DEF SessionOK, RowAgrees, ToldAgrees, AddressAgrees, EmergencyKept, StatusAgrees,
       Opening, Writing, Doing, RowOf, Rivals, Slot, Key, OnRow, gxVars
  <2>2. QED
    BY <1>1, <2>1 DEF IInv, GxInv, RowsApart, RowsInv, DisplacedInv, TakenBy, SessionInv,
       EmergencyInv, Slot, Key, OnRow, gxVars
<1>5. RxInv'
  <2>1. \A x : (CallOK(x)' <=> CallOK(x))
    BY <1>1 DEF CallOK, RulesAre, RulesOf, Serving, gxVars, rxVars
  <2>2. QED
    BY <1>1, <2>1 DEF IInv, RxInv, CallsApart, NamesInv, CallInv, Clash, Called, gxVars, rxVars
<1>6. PduInv'
  <2>1. \A i : (PduOK(i)' <=> PduOK(i))
    BY <1>1 DEF PduOK, Registering, Lists, ListedOf, ListServingPDUSessions, pduVars
  <2>2. QED
    BY <1>1, <2>1 DEF IInv, PduInv, PdusApart, FoundInv, FoundOK, pduVars
<1>7. QED
  BY <1>2, <1>3, <1>4, <1>5, <1>6 DEF IInv

\* Every step keeps the invariant.
LEMMA StepHolds == IInv /\ [Next]_vars => IInv'
<1> SUFFICES ASSUME IInv, [Next]_vars PROVE IInv'
  OBVIOUS
<1>1. ASSUME NEW h \in Handlers, NEW s \in GxSessions, NEW t \in {"I", "U", "T"},
             ReceiveCCR(h, s, t)
      PROVE  IInv'
  BY <1>1, ReceiveCcrKeeps DEF GxTypes
<1>2. ASSUME NEW h \in Handlers,
             \/ Lookup(h) \/ WriteEmergency(h) \/ Upsert(h) \/ Announce(h)
             \/ Delete(h) \/ Retract(h) \/ Clear(h)
      PROVE  IInv'
  BY <1>2, LookupKeeps, WriteEmergencyKeeps, UpsertKeeps, AnnounceKeeps, DeleteKeeps,
     RetractKeeps, ClearKeeps
<1>3. ASSUME NEW h \in Handlers, NEW x \in Calls,
             \/ \E media \in SUBSET Media : ReceiveAAR(h, x, media)
             \/ ReceiveSTR(h, x)
      PROVE  IInv'
  BY <1>3, AarKeeps, StrKeeps
<1>4. ASSUME NEW h \in Handlers, Install(h) \/ StoreCall(h) \/ RemoveRules(h) PROVE IInv'
  BY <1>4, InstallKeeps, StoreKeeps, RemoveKeeps
<1>5. ASSUME NEW h \in Handlers, NEW i \in PduSessions, NEW smf \in Smfs,
             ReceivePut(h, i, smf) \/ ReceiveDelete(h, i, smf)
      PROVE  IInv'
  BY <1>5, PutKeeps, DeleteRequestKeeps
<1>6. ASSUME NEW h \in Handlers, FindPdu(h) \/ WritePdu(h) \/ ErasePdu(h) PROVE IInv'
  BY <1>6, FindPduKeeps, WritePduKeeps, ErasePduKeeps
<1>7. CASE Restart
  BY <1>7, RestartKeeps
<1>8. CASE UNCHANGED vars
  BY <1>8, StutterKeeps
<1>9. CASE Next
  <2>1. CASE \E h \in Handlers : \E s \in GxSessions, t \in {"I", "U", "T"} : ReceiveCCR(h, s, t)
    BY <1>1, <2>1
  <2>2. CASE \E h \in Handlers :
                \/ Lookup(h) \/ WriteEmergency(h) \/ Upsert(h) \/ Announce(h)
                \/ Delete(h) \/ Retract(h) \/ Clear(h)
    BY <1>2, <2>2
  <2>3. CASE \E h \in Handlers, x \in Calls :
                \/ \E media \in SUBSET Media : ReceiveAAR(h, x, media)
                \/ ReceiveSTR(h, x)
    BY <1>3, <2>3
  <2>4. CASE \E h \in Handlers : Install(h) \/ StoreCall(h) \/ RemoveRules(h)
    BY <1>4, <2>4
  <2>5. CASE \E h \in Handlers, i \in PduSessions, smf \in Smfs :
                ReceivePut(h, i, smf) \/ ReceiveDelete(h, i, smf)
    BY <1>5, <2>5
  <2>6. CASE \E h \in Handlers : FindPdu(h) \/ WritePdu(h) \/ ErasePdu(h)
    BY <1>6, <2>6
  <2>7. QED
    BY <1>7, <1>9, <2>1, <2>2, <2>3, <2>4, <2>5, <2>6 DEF Next
<1>10. QED
  BY <1>8, <1>9

(***************************************************************************)
(* What the three kinds of session rest on (SessionsInv).                  *)
(***************************************************************************)
THEOREM Invariance == Spec => []IInv
<1>1. QED
  BY InitHolds, StepHolds, PTL DEF Spec

\* The tables, the map of calls and the requests keep their types
\* (gx/ccr.go, rx/aar.go, udm/uecm.go).
THEOREM TypeCorrect == Spec => []TypeOK
<1>1. IInv => TypeOK
  BY DEF IInv
<1>2. QED
  BY <1>1, Invariance, PTL

\* A settled session has no handler.
LEMMA SettledFacts ==
    ASSUME IInv, NEW s \in GxSessions, Settled(s)
    PROVE  /\ SessionOK(s)
           /\ \A t \in GxTypes : \A steps : ~Doing(s, t, steps)
           /\ ~Opening(s) /\ ~Writing(s)
<1>1. SessionOK(s)
  BY DEF Settled, IInv, GxInv, SessionInv
<1>2. \A t \in GxTypes : \A steps : ~Doing(s, t, steps)
  BY DEF Settled, Working, Doing, GxTypes
<1>3. QED
  BY <1>1, <1>2 DEF Opening, Writing, GxTypes

\* A session keeps the row it wrote until it terminates, a row names a session
\* that is up, and one that has lost its row lost it to a session of its
\* subscriber, of the same APN or with a lookup that has failed
\* (gx/ccr.go:55-66, 115-120, 183-212).
THEOREM SessionsHaveRows == Spec => []SessionHasRow
<1>1. IInv => SessionHasRow
  <2> SUFFICES ASSUME IInv, NEW s \in GxSessions, Settled(s)
               PROVE  /\ RowOf(s) # {} => status[s] = "up"
                      /\ s \notin displaced =>
                            (RowOf(s) # {} <=> status[s] = "up" /\ ImsiOf[s] \in Known)
                      /\ s \in displaced => TakenBy(s) # {}
    BY DEF SessionHasRow
  <2>1. RowAgrees(s) /\ ~Doing(s, "T", {"delete"}) /\ ~Opening(s)
    BY SettledFacts DEF SessionOK, GxTypes
  <2>2. s \in displaced => TakenBy(s) # {}
    BY DEF IInv, GxInv, DisplacedInv, Settled
  <2>3. QED
    BY <2>1, <2>2, RowOwner DEF RowAgrees
<1>2. QED
  BY <1>1, Invariance, PTL

\* The GeoRed peers were told of a session exactly while it is up
\* (gx/ccr.go:58-60, 213-225).
THEOREM PeersHearOfSessions == Spec => []PeersAgree
<1>1. IInv => PeersAgree
  <2> SUFFICES ASSUME IInv, NEW s \in GxSessions, Settled(s)
               PROVE  s \in told <=> status[s] = "up" /\ ImsiOf[s] \in Known
    BY DEF PeersAgree
  <2>1. /\ ToldAgrees(s) /\ ~Doing(s, "T", {"delete", "retract"})
        /\ ~Doing(s, "I", {"lookup", "upsert", "announce"})
    BY SettledFacts DEF SessionOK, GxTypes
  <2>2. QED
    BY <2>1 DEF ToldAgrees
<1>2. QED
  BY <1>1, Invariance, PTL

\* A CCR-U without an address leaves the recorded one alone
\* (gx/ccr.go:34-45).
THEOREM AddressesStay == Spec => []AddressKept
<1>1. IInv => AddressKept
  <2> SUFFICES ASSUME IInv, NEW s \in GxSessions, Settled(s), NEW r \in RowOf(s)
               PROVE  r.addr <=> s \in addressed
    BY DEF AddressKept
  <2>1. AddressAgrees(s) /\ ~Doing(s, "T", {"delete"}) /\ ~Writing(s)
    BY SettledFacts DEF SessionOK, GxTypes
  <2>2. QED
    BY <2>1 DEF AddressAgrees
<1>2. QED
  BY <1>1, Invariance, PTL

\* An emergency record is there exactly while the unprovisioned UE has its
\* session (gx/ccr.go:86-112, api/emergency.go:14-16).
THEOREM EmergencyRecords == Spec => []EmergencyAgrees
<1>1. IInv => EmergencyAgrees
  <2> SUFFICES ASSUME IInv, NEW s \in GxSessions
               PROVE  IF ImsiOf[s] \in Known
                      THEN ImsiOf[s] \in emergency => \E t \in failed : ImsiOf[t] = ImsiOf[s]
                      ELSE Settled(s) /\ Rivals(s) = {} =>
                              (ImsiOf[s] \in emergency <=> status[s] = "up")
    BY DEF EmergencyAgrees
  <2>1. CASE ImsiOf[s] \in Known
    BY <2>1 DEF IInv, GxInv, EmergencyInv
  <2>2. ASSUME ImsiOf[s] \notin Known, Settled(s), Rivals(s) = {}
        PROVE  ImsiOf[s] \in emergency <=> status[s] = "up"
    <3>1. /\ EmergencyKept(s) /\ ~Doing(s, "T", {"delete", "retract", "clear"})
          /\ ~Doing(s, "I", {"lookup", "emergency"})
      BY <2>2, SettledFacts DEF SessionOK, GxTypes
    <3>2. QED
      BY <2>2, <3>1 DEF EmergencyKept
  <2>3. QED
    BY <2>1, <2>2
<1>2. QED
  BY <1>1, Invariance, PTL

\* A call keeps the bearers it was given until its STR and leaves none
\* behind (rx/aar.go:117, 207-216, 234-249).
THEOREM CallsHaveTheirRules == Spec => []CallsOwnRules
<1>1. IInv => CallsOwnRules
  <2> SUFFICES ASSUME IInv, NEW x \in Calls \ troubled, ~Serving(x), ~Clash(x)
               PROVE  RulesOf(x) = IF calls[x] = NoCall \/ status[calls[x].gx] # "up" THEN {}
                                   ELSE {calls[x].gx} \X calls[x].names
    BY DEF CallsOwnRules
  <2>1. IF calls[x] = NoCall THEN RulesOf(x) = {} ELSE RulesAre(x, calls[x].gx, calls[x].names)
    BY DEF IInv, RxInv, CallInv, CallOK
  <2>2. QED
    BY <2>1 DEF RulesAre
<1>2. QED
  BY <1>1, Invariance, PTL

\* What is listed of a PDU session is the row of the SMF that has
\* registered it last (udm/uecm.go:184-252, store.go:230-241).
THEOREM PduSessionsAreListed == Spec => []PduSessionsListed
<1>1. IInv => PduSessionsListed
  <2> SUFFICES ASSUME IInv, NEW i \in PduSessions \ muddled, ~Registering(i)
               PROVE  IF smfOf[i] = None THEN ListedOf(i) = {}
                      ELSE \E k \in DOMAIN pdu : ListedOf(i) = {k} /\ pdu[k].smf = smfOf[i]
    BY DEF PduSessionsListed
  <2>1. IF smfOf[i] = None THEN ListedOf(i) = {} ELSE Lists(i, smfOf[i])
    BY DEF IInv, PduInv, PduOK
  <2>2. QED
    BY <2>1 DEF Lists
<1>2. QED
  BY <1>1, Invariance, PTL
==================================================================================
