--------------------------------- MODULE Sessions --------------------------------
(***************************************************************************)
(* The sessions of data networks: Gx sessions and the dedicated bearers of *)
(* Rx calls (internal/diameter/gx and internal/diameter/rx), which share   *)
(* the serving_apn rows, and the PDU sessions of 5G (udm/uecm.go).         *)
(*                                                                         *)
(* A PGW opens, updates and terminates Gx sessions by CCR-I, CCR-U, CCR-T. *)
(* The HSS keeps one row per subscriber and APN, and one emergency record  *)
(* per unprovisioned IMSI.  A P-CSCF asks for the bearers of a call by AAR *)
(* and gives them up by STR; the HSS looks up a row of the subscriber and  *)
(* sends RARs to the PGW named in it.  What it installed it remembers in a *)
(* map in memory.  An SMF registers and deregisters PDU sessions by PUT    *)
(* and DELETE.  Every request is handled by a goroutine of its own.        *)
(*                                                                         *)
(* Abstracted: an address is there or not; QoS, flows and the content of   *)
(* rules are left out; what peers are told arrives (GeoRed has the way     *)
(* there).  Subscribers, APNs and static addresses do not change.  PDU     *)
(* sessions are those of one subscriber; of a row only the SMF is kept.    *)
(***************************************************************************)
EXTENDS Naturals, Sequences, FiniteSets, SequencesExt

CONSTANTS
    Handlers,    \* request goroutines
    GxSessions,  \* sessions PGWs may open
    Calls,       \* Rx sessions P-CSCFs may open
    ImsiOf,      \* whose each session and call is
    ApnOf,       \* the APN of each Gx session
    Known,       \* provisioned IMSIs
    Configured,  \* APNs in the database
    Static,      \* the keys of subscribers with a static address for an APN
    Prefix,      \* the first 16 characters of the id of each call
    Media,       \* media types of the components of an AAR
    PduSessions, \* ids of PDU sessions, and
    Smfs,        \* the SMFs that may have them
    None,        \* no session, no call
    MaxRequests, \* bound: requests received in a behaviour
    MaxFaults    \* bound: failing statements, failing RARs and restarts

ASSUME SessionsAssumption ==
    /\ ImsiOf \in [GxSessions \cup Calls -> STRING]
    /\ DOMAIN ApnOf = GxSessions /\ DOMAIN Prefix = Calls
    /\ None \notin GxSessions \cup Calls \cup Smfs \cup PduSessions
    /\ PduSessions \subseteq Nat
ASSUME BoundsAssumption == MaxRequests \in Nat /\ MaxFaults \in Nat

VARIABLES
    rows,       \* the serving_apn table, by primary key; what is deleted leaves it Gone
    emergency,  \* the IMSIs with an emergency_subscriber record
    told,       \* the sessions the GeoRed peers were told are up
    calls,      \* the map `sessions` of the Rx handlers
    pc, req,    \* per handler where it stands and what it works on
    status,     \* per Gx session what its PGW has asked for last
    installed,  \* the rules installed at the PGWs, by the call that did it
    closed,     \* the calls whose P-CSCF has sent an STR
    addressed,  \* history: sessions whose address it has seen since they have their row
    raced,      \* history: sessions with CCRs that overlapped on their row
    displaced,  \* history: sessions whose row another session has taken since they wrote it
    failed,     \* history: sessions a fault has hit
    troubled,   \* history: calls with a fault, an overlap or a second AAR
    pdu,        \* serving_pdu_session, by primary key; what is deleted leaves a Gap
    smfOf,      \* the SMF that has each PDU session by its own account
    muddled,    \* history: PDU sessions with a fault, overlapping requests, a change of
                \* SMF that ends with the DELETE of the old one, or a row taken by session 0
    requests, faults

gxVars  == <<rows, emergency, told, addressed, raced, displaced, failed, status>>
rxVars  == <<calls, closed, troubled>>
pduVars == <<pdu, smfOf, muddled>>
vars == <<rows, emergency, told, calls, pc, req, status, installed, closed,
          addressed, raced, displaced, failed, troubled, pduVars, requests, faults>>

-----------------------------------------------------------------------------
(***************************************************************************)
(* Rows, rules and requests.                                               *)
(***************************************************************************)
\* The unique key of serving_apn, (subscriber_id, apn).  An APN that is not configured
\* has id 0, and so has one whose lookup fails: a session has its row under the key
\* it belongs to or, when a fault has hit it, under that of such APNs.
Apns   == Configured \cup {"0"}
Home(s)   == IF ApnOf[s] \in Configured THEN ApnOf[s] ELSE "0"
Key(s)    == <<ImsiOf[s], Home(s)>>
RowKey(r) == <<ImsiOf[r.gx], r.apn>>

\* The record of a session: its row, or that of its IMSI when unprovisioned.
Slot(s) == IF ImsiOf[s] \in Known THEN Key(s) ELSE <<ImsiOf[s]>>

\* The shape of what rows, installed, calls, pdu and req hold.
Row     == [gx : GxSessions, addr : BOOLEAN, apn : Apns]
Gone    == [gx |-> None, addr |-> FALSE, apn |-> "0"]
Names   == Range(Prefix) \X Media
Bearer  == [gx : GxSessions, name : Names, call : Calls]
Call    == [gx : GxSessions, names : SUBSET Names]
NoCall  == [gx |-> None, names |-> {}]
PduRow  == [id : PduSessions, smf : Smfs]
Gap     == [id |-> None, smf |-> None]
Request == [type : {"I", "U", "T", "AAR", "STR", "PUT", "DELETE", "none"},
            gx : GxSessions \cup {None}, call : Calls \cup {None}, addr : BOOLEAN,
            apn : Apns, names : SUBSET Names, pdu : PduRow \cup {Gap}, found : Nat]
Idle    == [type |-> "none", gx |-> None, call |-> None, addr |-> FALSE, apn |-> "0",
            names |-> {}, pdu |-> Gap, found |-> 0]

Init ==
    /\ rows = <<>> /\ emergency = {} /\ told = {}
    /\ calls = [x \in Calls |-> NoCall]
    /\ pc = [h \in Handlers |-> "idle"] /\ req = [h \in Handlers |-> Idle]
    /\ status = [s \in GxSessions |-> "new"]
    /\ installed = {} /\ closed = {}
    /\ addressed = {} /\ raced = {} /\ displaced = {} /\ failed = {} /\ troubled = {}
    /\ pdu = <<>> /\ smfOf = [i \in PduSessions |-> None] /\ muddled = {}
    /\ requests = 0 /\ faults = 0

\* INSERT ... ON CONFLICT (subscriber_id, apn) DO UPDATE: a row keeps its place.
Taken(row) == {k \in DOMAIN rows : rows[k] # Gone /\ RowKey(rows[k]) = RowKey(row)}
Upserted(row) ==
    IF Taken(row) = {} THEN Append(rows, row)
    ELSE [k \in DOMAIN rows |-> IF k \in Taken(row) THEN row ELSE rows[k]]
\* The other sessions whose row that is.
Ousted(row) == {rows[k].gx : k \in Taken(row)} \ {row.gx}
\* Mutant of WithoutSession: deletes the row of the subscriber and APN.
WithoutKey(s) ==
    [k \in DOMAIN rows |->
        IF rows[k] # Gone /\ RowKey(rows[k]) = Key(s) THEN Gone ELSE rows[k]]
WithoutSession(s) == [k \in DOMAIN rows |-> IF rows[k].gx = s THEN Gone ELSE rows[k]]
RowOf(s)          == {r \in Range(rows) : r.gx = s}
PlacesOf(s)       == {k \in DOMAIN rows : rows[k].gx = s}
RowsFor(imsi)     == {k \in DOMAIN rows : rows[k] # Gone /\ ImsiOf[rows[k].gx] = imsi}
\* Mutant of StoredAddress: no fallback.
NoStoredAddress(s) == FALSE
\* That of the session's first row.
StoredAddress(s) ==
    \E k \in PlacesOf(s) : rows[k].addr /\ \A l \in PlacesOf(s) : k <= l
\* The QCI of the media types that have one; the others get no bearer.
mediaTypeQoSDefaults == [audio |-> 1, video |-> 2, control |-> 5]
\* Mutant of RuleNames: names that do not tell calls apart.
NamesWithoutCall(x, media) ==
    {<<CHOOSE p \in Range(Prefix) : TRUE, c>> : c \in media \cap DOMAIN mediaTypeQoSDefaults}
RuleNames(x, media) == {<<Prefix[x], c>> : c \in media \cap DOMAIN mediaTypeQoSDefaults}

Working(s) == \E h \in Handlers : req[h].gx = s /\ req[h].type \in {"I", "U", "T"}
Serving(x) == \E h \in Handlers : req[h].call = x
Rivals(s)  == {t \in GxSessions \ {s} : Slot(t) = Slot(s)}

Receive(h) ==
    /\ pc[h] = "idle"
    /\ requests < MaxRequests
    /\ requests' = requests + 1
Goto(h, step, r) ==
    /\ pc'  = [pc EXCEPT ![h] = step]
    /\ req' = [req EXCEPT ![h] = IF step = "idle" THEN Idle ELSE r]
Continue(h, step) == Goto(h, step, req[h])
Fault == faults < MaxFaults /\ faults' = faults + 1
SessionFails(h) == Fault /\ failed' = failed \cup {req[h].gx}

-----------------------------------------------------------------------------
(***************************************************************************)
(* Gx: CCR.  The PGW's step is part of the receipt.                        *)
(***************************************************************************)
\* The first lookup is for the address, if the request does not carry one.  When it
\* fails the address is not known, and a CCR-U will erase the one recorded.
ReceiveCCR(h, s, t) ==
    /\ Receive(h)
    /\ status[s] = (IF t = "I" THEN "new" ELSE "up")
    /\ status' = [status EXCEPT ![s] = IF t = "T" THEN "down" ELSE "up"]
    /\ installed' = IF t = "T" THEN {b \in installed : b.gx # s} ELSE installed
    /\ \E addr \in BOOLEAN :
          /\ Goto(h, IF t = "T" THEN "delete" ELSE "lookup",
                  [Idle EXCEPT !.type = t, !.gx = s, !.addr = addr])
          /\ \/ addr /\ addressed' = addressed \cup {s} /\ UNCHANGED <<failed, faults>>
             \/ addr = StoredAddress(s) /\ UNCHANGED <<addressed, failed, faults>>
             \/ /\ ~addr /\ t # "T" /\ Fault /\ failed' = failed \cup {s}
                /\ UNCHANGED addressed
    /\ raced' = LET hit == {u \in Rivals(s) \cup {s} : Working(u)}
                IN  IF hit = {} THEN raced ELSE raced \cup hit \cup {s}
    /\ UNCHANGED <<rows, emergency, told, displaced, rxVars, pduVars>>

\* The subscriber, then the APN, the static address and the charging rules.  Every
\* failure is only logged: without the subscriber the IMSI is taken for an unknown
\* one, without the APN the session goes under id 0.
Lookup(h) ==
    /\ pc[h] = "lookup"
    /\ LET s == req[h].gx
           initial == req[h].type = "I"
           unknown == IF initial THEN "emergency" ELSE "idle"
           \* the static address, unless its lookup fails
           statics == IF initial /\ Key(s) \in Static THEN BOOLEAN ELSE {FALSE}
       IN \/ /\ ImsiOf[s] \in Known
             /\ \E static \in statics :
                   /\ Goto(h, "upsert", [req[h] EXCEPT !.addr = req[h].addr \/ static,
                                                       !.apn = Home(s)])
                   /\ addressed' = IF static THEN addressed \cup {s} ELSE addressed
             /\ UNCHANGED <<failed, faults>>
          \/ /\ ImsiOf[s] \notin Known
             /\ Continue(h, unknown)
             /\ UNCHANGED <<addressed, failed, faults>>
          \/ /\ SessionFails(h)
             /\ \/ Continue(h, unknown)
                \/ ImsiOf[s] \in Known /\ Goto(h, "upsert", [req[h] EXCEPT !.apn = "0"])
             /\ UNCHANGED addressed
    /\ UNCHANGED <<rows, emergency, told, raced, displaced, status, installed, rxVars, pduVars, requests>>

WriteEmergency(h) ==
    /\ pc[h] = "emergency"
    /\ Continue(h, "idle")
    /\ \/ emergency' = emergency \cup {ImsiOf[req[h].gx]} /\ UNCHANGED <<failed, faults>>
       \/ SessionFails(h) /\ UNCHANGED emergency
    /\ UNCHANGED <<rows, told, addressed, raced, displaced, status, installed, rxVars, pduVars, requests>>

\* The row of a request, under the key its lookups have given it; a CCR of another
\* session on that row overlaps.
Filed(h) == [gx |-> req[h].gx, addr |-> req[h].addr, apn |-> req[h].apn]
WriteRow(h) ==
    /\ rows' = Upserted(Filed(h))
    /\ displaced' = (displaced \cup Ousted(Filed(h))) \ {req[h].gx}
    /\ addressed' = addressed \ Ousted(Filed(h))
    /\ raced' = raced \cup {t \in Ousted(Filed(h)) : Working(t)}

\* Mutant of Upsert: publishes the update, not the initial request.
AnnounceUpdates(h) ==
    /\ pc[h] = "upsert"
    /\ WriteRow(h)
    /\ Continue(h, IF req[h].type = "U" THEN "announce" ELSE "idle")
    /\ UNCHANGED <<emergency, told, failed, status, installed, rxVars, pduVars,
                   requests, faults>>

Upsert(h) ==
    /\ pc[h] = "upsert"
    /\ \/ /\ WriteRow(h)
          /\ Continue(h, IF req[h].type = "I" THEN "announce" ELSE "idle")
          /\ UNCHANGED <<failed, faults>>
       \/ /\ SessionFails(h)
          /\ Continue(h, "idle")
          /\ UNCHANGED <<rows, displaced, addressed, raced>>
    /\ UNCHANGED <<emergency, told, status, installed, rxVars, pduVars, requests>>

Announce(h) ==
    /\ pc[h] = "announce"
    /\ told' = told \cup {req[h].gx}
    /\ Continue(h, "idle")
    /\ UNCHANGED <<rows, emergency, addressed, raced, displaced, failed, status, installed, rxVars, pduVars,
                   requests, faults>>

Delete(h) ==
    /\ pc[h] = "delete"
    /\ \/ rows' = WithoutSession(req[h].gx) /\ Continue(h, "retract") /\ UNCHANGED <<failed, faults>>
       \/ SessionFails(h) /\ Continue(h, "clear") /\ UNCHANGED rows
    /\ UNCHANGED <<emergency, told, addressed, raced, displaced, status, installed, rxVars, pduVars, requests>>

Retract(h) ==
    /\ pc[h] = "retract"
    /\ told' = told \ {req[h].gx}
    /\ Continue(h, "clear")
    /\ UNCHANGED <<rows, emergency, addressed, raced, displaced, failed, status, installed, rxVars, pduVars,
                   requests, faults>>

\* Mutant of Clear: leaves the emergency record.
ClearNothing(h) ==
    /\ pc[h] = "clear"
    /\ Continue(h, "idle")
    /\ UNCHANGED <<rows, emergency, told, addressed, raced, displaced, failed, status, installed,
                   rxVars, pduVars, requests, faults>>

\* The emergency record goes by IMSI, whichever session terminates.
Clear(h) ==
    /\ pc[h] = "clear"
    /\ Continue(h, "idle")
    /\ \/ emergency' = emergency \ {ImsiOf[req[h].gx]} /\ UNCHANGED <<failed, faults>>
       \/ SessionFails(h) /\ UNCHANGED emergency
    /\ UNCHANGED <<rows, told, addressed, raced, displaced, status, installed, rxVars, pduVars, requests>>

-----------------------------------------------------------------------------
(***************************************************************************)
(* Rx: AAR and STR.                                                        *)
(***************************************************************************)
\* The first row of the subscriber, of whatever APN; without one the AAR is
\* answered with success and forgotten, and so it is when the lookup fails.
ReceiveAAR(h, x, media) ==
    /\ Receive(h)
    /\ x \notin closed
    /\ LET found == RowsFor(ImsiOf[x]) IN
       \/ found = {} /\ UNCHANGED <<pc, req>>
       \/ \E k \in found :
             /\ \A l \in found : k <= l
             /\ Goto(h, IF RuleNames(x, media) = {} THEN "store" ELSE "install",
                     [Idle EXCEPT !.type = "AAR", !.call = x, !.gx = rows[k].gx,
                                  !.names = RuleNames(x, media)])
    /\ troubled' = IF Serving(x) \/ calls[x] # NoCall THEN troubled \cup {x} ELSE troubled
    /\ UNCHANGED <<gxVars, pduVars, installed, calls, closed, faults>>

\* The RARs, at a PGW that carries them out.  One installs all rules of an AAR; the
\* PGW modifies a rule whose name it has; it does nothing for a session that is gone.
sendGxRARRemove(g, names) == {b \in installed : b.gx # g \/ b.name \notin names}
sendGxRAR(g, names, x) ==
    IF status[g] # "up" THEN installed
    ELSE sendGxRARRemove(g, names) \cup [gx : {g}, name : names, call : {x}]

\* The RAA is not looked at: a PGW that refuses is not noticed.
Install(h) ==
    /\ pc[h] = "install"
    /\ \/ /\ Continue(h, "store")
          /\ installed' = sendGxRAR(req[h].gx, req[h].names, req[h].call)
          /\ UNCHANGED <<troubled, faults>>
       \/ /\ Continue(h, "store")               \* refused
          /\ Fault /\ troubled' = troubled \cup {req[h].call}
          /\ UNCHANGED installed
       \/ /\ Goto(h, "store", [req[h] EXCEPT !.names = {}])   \* PGW not connected
          /\ Fault /\ UNCHANGED <<installed, troubled>>
    /\ UNCHANGED <<gxVars, pduVars, calls, closed, requests>>

Remembered(h) == [gx |-> req[h].gx, names |-> req[h].names]
StoreCall(h) ==
    /\ pc[h] = "store"
    /\ calls' = [calls EXCEPT ![req[h].call] = Remembered(h)]
    /\ Continue(h, "idle")
    /\ UNCHANGED <<gxVars, pduVars, installed, closed, troubled, requests, faults>>

ReceiveSTR(h, x) ==
    /\ Receive(h)
    /\ x \notin closed
    /\ closed' = closed \cup {x}
    /\ calls' = [calls EXCEPT ![x] = NoCall]
    /\ IF calls[x].names = {} THEN UNCHANGED <<pc, req>>
       ELSE Goto(h, "remove", [Idle EXCEPT !.type = "STR", !.call = x, !.gx = calls[x].gx,
                                           !.names = calls[x].names])
    /\ troubled' = IF Serving(x) THEN troubled \cup {x} ELSE troubled
    /\ UNCHANGED <<gxVars, pduVars, installed, faults>>

RemoveRules(h) ==
    /\ pc[h] = "remove"
    /\ Continue(h, "idle")
    /\ \/ /\ installed' = sendGxRARRemove(req[h].gx, req[h].names)
          /\ UNCHANGED <<troubled, faults>>
       \/ /\ Fault /\ troubled' = troubled \cup {req[h].call}   \* only logged
          /\ UNCHANGED installed
    /\ UNCHANGED <<gxVars, pduVars, calls, closed, requests>>

-----------------------------------------------------------------------------
(***************************************************************************)
(* PDU sessions.  FirstOrCreate looks for a row, and then updates the one  *)
(* it has found or inserts one.                                            *)
(***************************************************************************)
Registering(i) == \E h \in Handlers : req[h].pdu.id = i
PduFails(h)    == Fault /\ muddled' = muddled \cup {req[h].pdu.id}

ReceivePut(h, i, smf) ==
    /\ Receive(h)
    /\ Goto(h, "find", [Idle EXCEPT !.type = "PUT", !.pdu = [id |-> i, smf |-> smf]])
    /\ smfOf' = [smfOf EXCEPT ![i] = smf]
    /\ muddled' = IF Registering(i) THEN muddled \cup {i} ELSE muddled
    /\ UNCHANGED <<gxVars, rxVars, installed, pdu, faults>>

\* Mutant of Matching: any session of the subscriber.
MatchingSubscriber(i) == {k \in DOMAIN pdu : pdu[k] # Gap}
\* The condition of a struct leaves out its zero fields: session 0 is any session.
Matching(i) == {k \in DOMAIN pdu : pdu[k] # Gap /\ (i = 0 \/ pdu[k].id = i)}

FindPdu(h) ==
    LET i == req[h].pdu.id IN
    /\ pc[h] = "find"
    /\ \/ /\ Matching(i) = {}
          /\ Continue(h, "write")
          /\ UNCHANGED <<muddled, faults>>
       \/ \E k \in Matching(i) :
             /\ \A l \in Matching(i) : k <= l
             /\ Goto(h, "write", [req[h] EXCEPT !.found = k])
             /\ muddled' = IF i = 0 /\ pdu[k].id # 0 THEN muddled \cup {0, pdu[k].id} ELSE muddled
             /\ UNCHANGED faults
       \/ PduFails(h) /\ Continue(h, "idle")
    /\ UNCHANGED <<gxVars, rxVars, installed, pdu, smfOf, requests>>

\* An update sets what is not zero, of a row that may be gone by now.
UpsertServingPDUSession(found, row) ==
    IF found = 0 THEN Append(pdu, row)
    ELSE IF pdu[found] = Gap THEN pdu
    ELSE [pdu EXCEPT ![found] = [id |-> IF row.id = 0 THEN pdu[found].id ELSE row.id,
                                 smf |-> row.smf]]
WritePdu(h) ==
    /\ pc[h] = "write"
    /\ Continue(h, "idle")
    /\ \/ /\ pdu' = UpsertServingPDUSession(req[h].found, req[h].pdu)
          /\ UNCHANGED <<muddled, faults>>
       \/ PduFails(h) /\ UNCHANGED pdu
    /\ UNCHANGED <<gxVars, rxVars, installed, smfOf, requests>>

\* The SMF that asks is not looked at.
ReceiveDelete(h, i, smf) ==
    /\ Receive(h)
    /\ Goto(h, "erase", [Idle EXCEPT !.type = "DELETE", !.pdu = [id |-> i, smf |-> smf]])
    /\ smfOf' = IF smfOf[i] = smf THEN [smfOf EXCEPT ![i] = None] ELSE smfOf
    /\ muddled' = IF Registering(i) \/ smfOf[i] \notin {smf, None} THEN muddled \cup {i} ELSE muddled
    /\ UNCHANGED <<gxVars, rxVars, installed, pdu, faults>>

DeleteServingPDUSession(i) == [k \in DOMAIN pdu |-> IF pdu[k].id = i THEN Gap ELSE pdu[k]]
ErasePdu(h) ==
    /\ pc[h] = "erase"
    /\ Continue(h, "idle")
    /\ \/ pdu' = DeleteServingPDUSession(req[h].pdu.id) /\ UNCHANGED <<muddled, faults>>
       \/ PduFails(h) /\ UNCHANGED pdu                 \* the error is ignored
    /\ UNCHANGED <<gxVars, rxVars, installed, smfOf, requests>>

\* What GET registrations and the OAM interface list.
ListServingPDUSessions == {k \in DOMAIN pdu : pdu[k] # Gap}

\* The process restarts: the map of calls and the requests in work are gone.
Restart ==
    /\ Fault
    /\ pc' = [h \in Handlers |-> "idle"] /\ req' = [h \in Handlers |-> Idle]
    /\ calls' = [x \in Calls |-> NoCall]
    /\ failed' = failed \cup {s \in GxSessions : Working(s)}
    /\ troubled' = troubled \cup {x \in Calls : Serving(x) \/ calls[x] # NoCall}
    /\ muddled' = muddled \cup {i \in PduSessions : Registering(i)}
    /\ UNCHANGED <<rows, emergency, told, addressed, raced, displaced, status, installed,
                   closed, pdu, smfOf, requests>>

Next ==
    \/ \E h \in Handlers :
          \/ \E s \in GxSessions, t \in {"I", "U", "T"} : ReceiveCCR(h, s, t)
          \/ \E x \in Calls, media \in SUBSET Media : ReceiveAAR(h, x, media)
          \/ \E x \in Calls : ReceiveSTR(h, x)
          \/ Lookup(h) \/ WriteEmergency(h) \/ Upsert(h) \/ Announce(h)
          \/ Delete(h) \/ Retract(h) \/ Clear(h)
          \/ Install(h) \/ StoreCall(h) \/ RemoveRules(h)
          \/ \E i \in PduSessions, smf \in Smfs : ReceivePut(h, i, smf) \/ ReceiveDelete(h, i, smf)
          \/ FindPdu(h) \/ WritePdu(h) \/ ErasePdu(h)
    \/ Restart

Spec == Init /\ [][Next]_vars

-----------------------------------------------------------------------------
(***************************************************************************)
(* Properties.                                                             *)
(***************************************************************************)
\* No CCR of the session is in work, none has overlapped, no fault has hit it.
Settled(s) == ~Working(s) /\ s \notin raced \cup failed

(***************************************************************************)
(* A row names a session that is up, and a session keeps the row it wrote  *)
(* until it terminates, whatever other sessions, failures and restarts     *)
(* there are: the late CCR-T of a session that was replaced removes        *)
(* nothing of the new one.  Only another session of the subscriber takes   *)
(* the row, of the same APN or of one that is not configured either, or    *)
(* one whose own lookups failed (gx/ccr.go:55-66, 115-120, 183-212).       *)
(***************************************************************************)
TakenBy(s) ==
    {t \in GxSessions \ {s} : ImsiOf[t] = ImsiOf[s] /\ (Home(t) = Home(s) \/ t \in failed)}
SessionHasRow ==
    \A s \in GxSessions : Settled(s) =>
        /\ RowOf(s) # {} => status[s] = "up"
        /\ s \notin displaced => (RowOf(s) # {} <=> status[s] = "up" /\ ImsiOf[s] \in Known)
        /\ s \in displaced => TakenBy(s) # {}

(***************************************************************************)
(* What the peers were told agrees with the session, even when its row is  *)
(* taken by another one: the CCR-U, which is not published, adds nothing   *)
(* (gx/ccr.go:58-60, 213-225).                                             *)
(***************************************************************************)
PeersAgree ==
    \A s \in GxSessions : Settled(s) =>
        (s \in told <=> status[s] = "up" /\ ImsiOf[s] \in Known)

(***************************************************************************)
(* A CCR-U without an address leaves the recorded one alone, so that the   *)
(* flows of the rules it is answered with still name the UE                *)
(* (gx/ccr.go:34-45).                                                      *)
(***************************************************************************)
AddressKept ==
    \A s \in GxSessions :
        Settled(s) => \A r \in RowOf(s) : r.addr <=> s \in addressed

(***************************************************************************)
(* An emergency record is there exactly while the unprovisioned UE has its *)
(* session, and never for a provisioned one, unless a lookup has failed    *)
(* (gx/ccr.go:86-112, api/emergency.go:14-16).                             *)
(***************************************************************************)
EmergencyAgrees ==
    \A s \in GxSessions :
        IF ImsiOf[s] \in Known
        THEN ImsiOf[s] \in emergency => \E t \in failed : ImsiOf[t] = ImsiOf[s]
        ELSE Settled(s) /\ Rivals(s) = {} => (ImsiOf[s] \in emergency <=> status[s] = "up")

(***************************************************************************)
(* The rules at a PGW are those of the calls that are on: a call keeps the *)
(* bearers it was given until its STR, and leaves none behind, whatever    *)
(* the Gx sessions and the other calls do in between - as long as its own  *)
(* requests do not overlap, its RARs arrive, it has one AAR, and no other  *)
(* call has the same prefix (rx/aar.go:117, 207-216, 234-249).             *)
(***************************************************************************)
Clash(x) == \E y \in Calls \ {x} : Prefix[y] = Prefix[x]
RulesOf(x) == {<<b.gx, b.name>> : b \in {b \in installed : b.call = x}}
CallsOwnRules ==
    \A x \in Calls \ troubled : ~Serving(x) /\ ~Clash(x) =>
        RulesOf(x) = IF calls[x] = NoCall \/ status[calls[x].gx] # "up" THEN {}
                     ELSE {calls[x].gx} \X calls[x].names

(***************************************************************************)
(* What is listed of a PDU session is one row with the SMF that registered *)
(* it last, and nothing once that SMF has given it up, whatever becomes of *)
(* the other sessions of the subscriber.  Excused are sessions whose       *)
(* requests overlap or fail, those an SMF deregisters after another has    *)
(* registered them, and rows an update of session 0 has fallen upon        *)
(* (udm/uecm.go:184-252, store.go:230-241).                                *)
(***************************************************************************)
ListedOf(i) == {k \in ListServingPDUSessions : pdu[k].id = i}
PduSessionsListed ==
    \A i \in PduSessions \ muddled : ~Registering(i) =>
        IF smfOf[i] = None THEN ListedOf(i) = {}
        ELSE \E k \in DOMAIN pdu : ListedOf(i) = {k} /\ pdu[k].smf = smfOf[i]
==================================================================================
