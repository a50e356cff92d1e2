----------------------------- MODULE ImsRegistration -----------------------------
(***************************************************************************)
(* The S-CSCF of an IMS subscriber: Cx (internal/diameter/cx), the reads   *)
(* of Sh (internal/diameter/sh, internal/ims) and the provisioning of IMS  *)
(* subscribers (internal/api/ims_subscriber.go).                           *)
(*                                                                         *)
(* An I-CSCF asks by UAR where a registration goes; the S-CSCF it is sent  *)
(* to claims the user by SAR and later gives it up by another.  The row    *)
(* of the user is the only thing that ties the two requests together.      *)
(*                                                                         *)
(* Abstracted: an identity is the user it normalizes to, and the lookups   *)
(* by MSISDN and IMSI are one step, because identities do not change here; *)
(* the profile is not looked into.  The statements of the OAM handlers     *)
(* interleave in Oam, events get lost in GeoRed; here they are one step.   *)
(* RTR, PPR and PNR are not sent by anything.                              *)
(***************************************************************************)
EXTENDS Naturals, Sequences, FiniteSets

CONSTANTS
    Handlers,    \* request goroutines
    Users,       \* IMS subscribers
    Cscfs,       \* S-CSCFs
    Pool,        \* hss.scscf_pool, a sequence of S-CSCFs
    None,        \* no S-CSCF
    Unknown,     \* no row
    MaxRequests, \* bound: UARs and SARs in a behaviour
    MaxFaults,   \* bound: failing statements, lost answers and restarts
    MaxEdits     \* bound: OAM writes

ASSUME PoolAssumption   == Pool \in Seq(Cscfs)
ASSUME MarksAssumption  == None \notin Cscfs /\ Unknown \notin Cscfs \cup {None}
ASSUME BoundsAssumption == MaxRequests \in Nat /\ MaxFaults \in Nat /\ MaxEdits \in Nat

VARIABLES
    row,      \* per user the scscf column of its row
    next,     \* the round-robin counter scscfRR
    pc, req,  \* per handler where its SAR stands, and the SAR
    heard,    \* per user what the GeoRed peers were told last
    routed,   \* registrations an S-CSCF has received and not yet claimed
    serves,   \* <<user, S-CSCF>> the S-CSCFs serve by their own account
    crossed,  \* history: users with registrations or assignments that overlapped
    edited,   \* history: users OAM has written to
    faulted,  \* history: users a fault has hit
    requests, faults, edits

history == <<crossed, edited, faulted>>
counts  == <<requests, faults, edits>>
vars    == <<row, next, pc, req, heard, routed, serves, history, counts>>

Assignments == {"register", "reregister", "deregister", "unregistered"}
\* The shape of a SAR in work.
Request == [type : Assignments \cup {"none"}, user : Users \cup {None},
            server : Cscfs \cup {None}]
Idle    == [type |-> "none", user |-> None, server |-> None]

Init ==
    /\ row = [u \in Users |-> None] /\ next = 0
    /\ pc = [h \in Handlers |-> "idle"] /\ req = [h \in Handlers |-> Idle]
    /\ heard = [u \in Users |-> None]
    /\ routed = {} /\ serves = {}
    /\ crossed = {} /\ edited = {} /\ faulted = {}
    /\ requests = 0 /\ faults = 0 /\ edits = 0

-----------------------------------------------------------------------------
Goto(h, step, r) ==
    /\ pc'  = [pc EXCEPT ![h] = step]
    /\ req' = [req EXCEPT ![h] = IF step = "idle" THEN Idle ELSE r]
Continue(h, step) == Goto(h, step, req[h])
Fault(affected)   == /\ faults < MaxFaults /\ faults' = faults + 1
                     /\ faulted' = faulted \cup affected
NoFault           == UNCHANGED <<faults, faulted>>
Counted           == requests < MaxRequests /\ requests' = requests + 1

Assigning(u, types) == \E h \in Handlers : req[h].user = u /\ req[h].type \in types
Serving(u)          == {c \in Cscfs : <<u, c>> \in serves}
Routed(u)           == {c \in Cscfs : <<u, c>> \in routed}

-----------------------------------------------------------------------------
(***************************************************************************)
(* Reads: what UAR, LIR and the Sh UDR make of a row.                      *)
(***************************************************************************)
\* Mutant of Recommended: a registration always goes to the pool.
RecommendedFromPool(u) == IF Pool = <<>> THEN Cscfs ELSE {Pool[(next % Len(Pool)) + 1]}
\* The S-CSCF of the UAA: the assigned one, the next of the pool, or the choice
\* of the I-CSCF, which is given no capabilities to choose by.
Recommended(u) ==
    IF row[u] \in Cscfs THEN {row[u]}
    ELSE IF Pool = <<>> THEN Cscfs
    ELSE {Pool[(next % Len(Pool)) + 1]}
FromPool(u)   == row[u] = None /\ Pool # <<>>
Located(u)    == row[u]                      \* Server-Name of the LIA
Registered(u) == row[u] \in Cscfs            \* IMSUserState of the UDA

\* A UAR is answered from one row.
Authorize(u) ==
    /\ row[u] # Unknown
    /\ Counted
    /\ \E c \in Recommended(u) : routed' = routed \cup {<<u, c>>}
    /\ next' = IF FromPool(u) THEN next + 1 ELSE next
    /\ crossed' = IF Routed(u) # {} \/ Assigning(u, {"register"}) THEN crossed \cup {u}
                  ELSE crossed
    /\ UNCHANGED <<row, pc, req, heard, serves, edited, faults, faulted, edits>>

\* The registration does not go on: the UE fails to authenticate, or gives up.
Abandon(u, c) ==
    /\ <<u, c>> \in routed
    /\ routed' = routed \ {<<u, c>>}
    /\ UNCHANGED <<row, next, pc, req, heard, serves, history, counts>>

-----------------------------------------------------------------------------
(***************************************************************************)
(* SAR.  An S-CSCF that deregisters a user has given it up already.        *)
(***************************************************************************)
ReceiveSAR(h, u, c, type) ==
    /\ pc[h] = "idle"
    /\ CASE type = "register"     -> <<u, c>> \in routed
         [] type = "unregistered" -> Serving(u) = {}
         [] OTHER                 -> <<u, c>> \in serves
    /\ Counted
    /\ routed' = IF type = "register" THEN routed \ {<<u, c>>} ELSE routed
    /\ serves' = IF type = "deregister" THEN serves \ {<<u, c>>} ELSE serves
    /\ Goto(h, "lookup", [type |-> type, user |-> u, server |-> c])
    /\ crossed' = IF type # "unregistered" /\ Assigning(u, Assignments \ {"unregistered"})
                  THEN crossed \cup {u} ELSE crossed
    /\ UNCHANGED <<row, next, heard, edited, faults, faulted, edits>>

Lookup(h) ==
    /\ pc[h] = "lookup"
    /\ \/ /\ row[req[h].user] # Unknown
          /\ Continue(h, IF req[h].type = "unregistered" THEN "answer" ELSE "update")
          /\ NoFault
       \/ row[req[h].user] = Unknown /\ Continue(h, "idle") /\ NoFault
       \/ Fault({req[h].user}) /\ Continue(h, "idle")
    /\ UNCHANGED <<row, next, heard, routed, serves, crossed, edited, requests, edits>>

Assigned(h) == IF req[h].type = "deregister" THEN None ELSE req[h].server
\* An UPDATE that finds no row is no error.
Update(h) ==
    /\ pc[h] = "update"
    /\ LET u == req[h].user IN
       \/ /\ row' = IF row[u] = Unknown THEN row ELSE [row EXCEPT ![u] = Assigned(h)]
          /\ Continue(h, "publish")
          /\ NoFault
       \/ Fault({u}) /\ Continue(h, "idle") /\ UNCHANGED row
    /\ UNCHANGED <<next, heard, routed, serves, crossed, edited, requests, edits>>

\* Mutant of Publish: deregistrations are not published.
PublishRegistrations(h) ==
    /\ pc[h] = "publish"
    /\ heard' = IF req[h].type = "deregister" THEN heard
                ELSE [heard EXCEPT ![req[h].user] = Assigned(h)]
    /\ Continue(h, "answer")
    /\ UNCHANGED <<row, next, routed, serves, history, counts>>

Publish(h) ==
    /\ pc[h] = "publish"
    /\ heard' = [heard EXCEPT ![req[h].user] = Assigned(h)]
    /\ Continue(h, "answer")
    /\ UNCHANGED <<row, next, routed, serves, history, counts>>

\* The profile is built, without the IFC if that cannot be read, and answered.
Answer(h) ==
    /\ pc[h] = "answer"
    /\ Continue(h, "idle")
    /\ \/ /\ serves' = IF req[h].type \in {"register", "reregister"}
                       THEN serves \cup {<<req[h].user, req[h].server>>} ELSE serves
          /\ NoFault
       \/ Fault({req[h].user}) /\ UNCHANGED serves             \* the answer is lost
    /\ UNCHANGED <<row, next, heard, routed, crossed, edited, requests, edits>>

Restart ==
    /\ Fault({u \in Users : Assigning(u, Assignments)})
    /\ next' = 0
    /\ pc' = [h \in Handlers |-> "idle"] /\ req' = [h \in Handlers |-> Idle]
    /\ UNCHANGED <<row, heard, routed, serves, crossed, edited, requests, edits>>

-----------------------------------------------------------------------------
(***************************************************************************)
(* OAM.  A PUT saves every column of the body, and the web interface sends *)
(* none of the S-CSCF; a POST of the record sends none either.             *)
(***************************************************************************)
Write(u, value) ==
    /\ edits < MaxEdits /\ edits' = edits + 1
    /\ row' = [row EXCEPT ![u] = value]
    /\ edited' = edited \cup {u}
    /\ UNCHANGED <<next, pc, req, heard, routed, serves, crossed, faulted, requests, faults>>
PutSubscriber(u)    == row[u] # Unknown /\ Write(u, None)
CreateSubscriber(u) == row[u] = Unknown /\ Write(u, None)
DeleteSubscriber(u) == row[u] # Unknown /\ Write(u, Unknown)

Next ==
    \/ \E u \in Users :
          \/ Authorize(u)
          \/ \E c \in Cscfs : \/ Abandon(u, c)
                              \/ \E h \in Handlers, t \in Assignments : ReceiveSAR(h, u, c, t)
          \/ PutSubscriber(u) \/ CreateSubscriber(u) \/ DeleteSubscriber(u)
    \/ \E h \in Handlers : Lookup(h) \/ Update(h) \/ Publish(h) \/ Answer(h)
    \/ Restart

Spec == Init /\ [][Next]_vars

-----------------------------------------------------------------------------
(***************************************************************************)
(* Properties.                                                             *)
(***************************************************************************)
Settled(u) == ~Assigning(u, Assignments) /\ u \notin crossed \cup edited

(***************************************************************************)
(* A user is served by at most one S-CSCF, and it is the one LIR sends     *)
(* calls to and Sh reports the user registered at: the HSS terminates no   *)
(* registration itself, so this rests on UAR naming the assigned S-CSCF    *)
(* until its own deregistration (cx/uar.go:47-89, cx/sar.go:49-68,         *)
(* cx/lir.go:57-61, ims/shprofile.go:56-60).  Faults may leave a user      *)
(* assigned and not served, never served elsewhere.                        *)
(***************************************************************************)
OneServing ==
    \A u \in Users : Settled(u) =>
        /\ Serving(u) \subseteq {Located(u)}
        /\ u \notin faulted => (Serving(u) = {} <=> ~Registered(u))

(***************************************************************************)
(* The peers are told of every assignment and of its end, so that a user   *)
(* is found on each node (cx/sar.go:60, 68).                               *)
(***************************************************************************)
PeersHear ==
    \A u \in Users : Settled(u) /\ u \notin faulted => heard[u] = row[u]
==================================================================================
