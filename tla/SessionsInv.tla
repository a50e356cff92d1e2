------------------------------- MODULE SessionsInv -------------------------------
(***************************************************************************)
(* The inductive invariant behind the safety properties of Sessions.  It   *)
(* is a module of its own so that TLC checks it (MCSessions) and the       *)
(* proofs use the same text.                                               *)
(***************************************************************************)
EXTENDS Sessions

GxTypes  == {"I", "U", "T"}
RxTypes  == {"AAR", "STR"}
PduTypes == {"PUT", "DELETE"}
PCs == {"idle", "lookup", "emergency", "upsert", "announce", "delete", "retract", "clear",
        "install", "store", "remove", "find", "write", "erase"}
\* Where a handler stands, by the type of its request.
Places(type) == CASE type = "none"   -> {"idle"}
                  [] type = "I"      -> {"lookup", "emergency", "upsert", "announce"}
                  [] type = "U"      -> {"lookup", "upsert"}
                  [] type = "T"      -> {"delete", "retract", "clear"}
                  [] type = "AAR"    -> {"install", "store"}
                  [] type = "STR"    -> {"remove"}
                  [] type = "PUT"    -> {"find", "write"}
                  [] type = "DELETE" -> {"erase"}

TypeOK ==
    /\ rows \in Seq(Row \cup {Gone}) /\ emergency \subseteq Range(ImsiOf)
    /\ calls \in [Calls -> Call \cup {NoCall}]
    /\ pc \in [Handlers -> PCs] /\ req \in [Handlers -> Request]
    /\ status \in [GxSessions -> {"new", "up", "down"}]
    /\ installed \subseteq Bearer /\ closed \subseteq Calls /\ troubled \subseteq Calls
    /\ told \subseteq GxSessions /\ addressed \subseteq GxSessions /\ raced \subseteq GxSessions
    /\ displaced \subseteq GxSessions /\ failed \subseteq GxSessions
    /\ pdu \in Seq(PduRow \cup {Gap}) /\ smfOf \in [PduSessions -> Smfs \cup {None}]
    /\ muddled \subseteq PduSessions
    /\ requests \in Nat /\ faults \in Nat

\* What a request in work carries.
Called(x) == {Prefix[x]} \X Media
LocalOK(h) ==
    /\ pc[h] \in Places(req[h].type)
    /\ req[h].type = "none" => req[h] = Idle
    /\ req[h].type \in GxTypes \cup RxTypes =>
          req[h].gx \in GxSessions /\ status[req[h].gx] # "new"
    /\ req[h].type \in PduTypes => req[h].gx = None
    /\ req[h].type \in RxTypes <=> req[h].call \in Calls
    /\ req[h].call \in Calls => req[h].names \subseteq Called(req[h].call)
    /\ req[h].type \in PduTypes <=> req[h].pdu \in PduRow
    /\ pc[h] = "find" => req[h].found = 0
    /\ pc[h] \in {"upsert", "announce"} => ImsiOf[req[h].gx] \in Known
    /\ pc[h] = "upsert" => req[h].apn = Home(req[h].gx) \/ req[h].gx \in failed
    /\ pc[h] = "emergency" => ImsiOf[req[h].gx] \notin Known \/ req[h].gx \in failed
LocalInv == \A h \in Handlers : LocalOK(h)

\* CCRs in work at the same time for one row are noted.
OnRow(h) == req[h].type \in GxTypes
RowsApart ==
    \A g, h \in Handlers :
       g # h /\ OnRow(g) /\ OnRow(h) /\ Slot(req[g].gx) = Slot(req[h].gx)
          => req[g].gx \in raced

\* A row is of a provisioned subscriber and of a session that has begun, under the key
\* it belongs to unless a fault has hit it.
RowsInv ==
    \A k \in DOMAIN rows :
       rows[k] # Gone => /\ ImsiOf[rows[k].gx] \in Known /\ status[rows[k].gx] # "new"
                         /\ rows[k].apn = Home(rows[k].gx) \/ rows[k].gx \in failed
DisplacedInv == \A s \in displaced \ failed : TakenBy(s) # {}

\* A session whose CCRs have not overlapped or failed, step by step.
Doing(s, t, steps) == \E h \in Handlers : req[h].gx = s /\ req[h].type = t /\ pc[h] \in steps
Opening(s) == Doing(s, "I", {"lookup", "upsert"})
Writing(s) == Opening(s) \/ Doing(s, "U", {"lookup", "upsert"})
RowAgrees(s) ==
    /\ RowOf(s) # {} => status[s] = "up" \/ Doing(s, "T", {"delete"})
    /\ status[s] = "up" /\ ImsiOf[s] \in Known /\ s \notin displaced /\ ~Opening(s) =>
          RowOf(s) # {}
ToldAgrees(s) ==
    /\ s \in told =>
          ImsiOf[s] \in Known /\ (status[s] = "up" \/ Doing(s, "T", {"delete", "retract"}))
    /\ status[s] = "up" /\ ImsiOf[s] \in Known
       /\ ~Doing(s, "I", {"lookup", "upsert", "announce"}) => s \in told
AddressAgrees(s) ==
    /\ ~Writing(s) /\ ~Doing(s, "T", {"delete"}) => \A r \in RowOf(s) : r.addr <=> s \in addressed
    /\ ~Writing(s) /\ status[s] # "down" /\ ImsiOf[s] \in Known /\ RowOf(s) = {} =>
          s \notin addressed
    /\ \A h \in Handlers :
          req[h].gx = s /\ req[h].type \in {"I", "U"} /\ pc[h] \in {"lookup", "upsert"}
             => (ImsiOf[s] \in Known => (req[h].addr <=> s \in addressed))
EmergencyKept(s) ==
    ImsiOf[s] \notin Known /\ Rivals(s) = {} =>
       /\ ImsiOf[s] \in emergency =>
             status[s] = "up" \/ Doing(s, "T", {"delete", "retract", "clear"})
       /\ status[s] = "up" /\ ~Doing(s, "I", {"lookup", "emergency"}) => ImsiOf[s] \in emergency
StatusAgrees(s) ==
    \A h \in Handlers : req[h].gx = s /\ OnRow(h) =>
       /\ req[h].type \in {"I", "U"} => status[s] = "up"
       /\ req[h].type = "T" => status[s] = "down"
       /\ pc[h] = "emergency" => ImsiOf[s] \notin Known
SessionOK(s) ==
    /\ RowAgrees(s) /\ ToldAgrees(s) /\ AddressAgrees(s) /\ EmergencyKept(s) /\ StatusAgrees(s)
SessionInv == \A s \in GxSessions \ (raced \cup failed) : SessionOK(s)
EmergencyInv ==
    \A s \in GxSessions : ImsiOf[s] \in Known /\ ImsiOf[s] \in emergency =>
       \E t \in failed : ImsiOf[t] = ImsiOf[s]
GxInv == RowsApart /\ RowsInv /\ DisplacedInv /\ SessionInv /\ EmergencyInv

\* Requests in work at the same time for one call are noted.
CallsApart ==
    \A g, h \in Handlers :
       g # h /\ req[g].call \in Calls /\ req[g].call = req[h].call => req[g].call \in troubled

\* What the PGWs have and what is remembered of a call is under the names of the call.
NamesInv ==
    /\ \A b \in installed : b.name \in Called(b.call)
    /\ \A x \in Calls : calls[x] # NoCall =>
          status[calls[x].gx] # "new" /\ calls[x].names \subseteq Called(x)

\* A call whose requests have not overlapped or failed, step by step: while a request
\* is in work nothing is remembered, and its rules are those it has installed or
\* has still to remove.
RulesAre(x, g, names) == RulesOf(x) = IF status[g] = "up" THEN {g} \X names ELSE {}
CallOK(x) ==
    /\ ~Serving(x) => IF calls[x] = NoCall THEN RulesOf(x) = {}
                      ELSE RulesAre(x, calls[x].gx, calls[x].names)
    /\ \A h \in Handlers : req[h].call = x =>
          /\ calls[x] = NoCall
          /\ pc[h] = "install" => RulesOf(x) = {}
          /\ pc[h] \in {"store", "remove"} => RulesAre(x, req[h].gx, req[h].names)
CallInv == \A x \in Calls \ troubled : ~Clash(x) => CallOK(x)
RxInv   == CallsApart /\ NamesInv /\ CallInv

\* Requests in work at the same time for one PDU session are noted.
PdusApart ==
    \A g, h \in Handlers :
       g # h /\ req[g].pdu \in PduRow /\ req[g].pdu.id = req[h].pdu.id
          => req[g].pdu.id \in muddled

\* A PDU session whose requests have not overlapped or failed, step by step.  A row
\* never changes its session.
FoundOK(h) ==
    /\ req[h].found \in DOMAIN pdu
    /\ LET row == pdu[req[h].found] IN
       row # Gap => IF req[h].pdu.id = 0 THEN row.id = 0 \/ row.id \in muddled
                    ELSE row.id = req[h].pdu.id
FoundInv == \A h \in Handlers : pc[h] = "write" /\ req[h].found # 0 => FoundOK(h)
Lists(i, smf) == \E k \in DOMAIN pdu : ListedOf(i) = {k} /\ (smf = None \/ pdu[k].smf = smf)
PduOK(i) ==
    /\ ~Registering(i) => IF smfOf[i] = None THEN ListedOf(i) = {} ELSE Lists(i, smfOf[i])
    /\ \A h \in Handlers : req[h].pdu.id = i =>
          /\ smfOf[i] = IF req[h].type = "PUT" THEN req[h].pdu.smf ELSE None
          /\ pc[h] = "find" => ListedOf(i) = {} \/ Lists(i, None)
          /\ pc[h] = "write" => ListedOf(i) = IF req[h].found = 0 THEN {} ELSE {req[h].found}
PduInv == PdusApart /\ FoundInv /\ \A i \in PduSessions \ muddled : PduOK(i)

IInv == TypeOK /\ LocalInv /\ GxInv /\ RxInv /\ PduInv
==================================================================================
