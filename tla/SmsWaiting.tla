------------------------------ MODULE SmsWaiting ------------------------------
(***************************************************************************)
(* Message waiting data of one subscriber: which SMS-SCs have failed to    *)
(* deliver to it and are to be alerted.  The S6c handlers run concurrently *)
(*   report  an RDR of an SMS-SC                   (diameter/s6c/rsds.go)  *)
(*   alert   the ALRs after a ULR or a NOR         (diameter/s6c/alsc.go)  *)
(*   answer  the ALA of an SMS-SC to one of them   (diameter/s6c/alsc.go)  *)
(* - on a table without a unique index, which StoreMWD looks up and writes *)
(* in two statements, with the in-memory table of alerts in flight, lost   *)
(* answers, failing calls and the loss of the process.                     *)
(*                                                                         *)
(* Abstracted: identities other than the SMS-SC, correlation ids, alert    *)
(* counters.  Session ids, nanosecond timestamps in the code, are unique.  *)
(***************************************************************************)
EXTENDS Naturals, FiniteSets

CONSTANTS
    Handlers,    \* goroutines
    Centres,     \* the SMS-SCs
    Limit,       \* most records of a subscriber (the code: 10)
    MaxRequests  \* bound: reports and triggers received in a behaviour

ASSUME LimitAssumption    == Limit \in Nat
ASSUME RequestsAssumption == MaxRequests \in Nat

VARIABLES
    table,     \* message_waiting_data: the committed rows
    nextId,    \* the sequence behind its primary key
    sent,      \* ALRs written and not answered yet
    pending,   \* pendingALR: the alerts an answer may still be matched with
    pc,        \* where each handler stands
    req,       \* what it serves
    todo,      \* alert: the listed rows still to be alerted about
    item,      \* the row to be stored: the report's, or the alerted one
    target,    \* the id of the row FirstOrCreate has found, or 0
    requests,  \* reports and triggers received so far
    accepted,  \* history: per SMS-SC the last failure report answered with success
    cleared,   \* history: per SMS-SC the requests received when it was last cleared
    overlap    \* history: a write fell into another request (see OthersReading)

locals  == <<pc, req, todo, item, target>>
history == <<accepted, cleared, overlap>>
vars    == <<table, nextId, sent, pending, pc, req, todo, item, target,
             requests, accepted, cleared, overlap>>

Flags  == {"MNRF", "MCEF"}                 \* not reachable, memory exceeded
Causes == Flags \cup {"delivered"}         \* of a report
Rows   == [id : Nat, sc : Centres, flag : Flags]
Alerts == [request : Nat, row : Nat, sc : Centres]
NoRow  == [id |-> 0]

PCs == {"idle", "decide", "list", "find", "store", "clear", "scan", "send", "pend", "match"}

Request ==
         [kind : {"none"}]
    \cup [kind : {"report"}, id : Nat, sc : Centres, cause : Causes, single : BOOLEAN]
    \cup [kind : {"alert"}, id : Nat, trigger : Flags]
    \cup [kind : {"answer"}, alert : Alerts, sc : Centres, success : BOOLEAN]
NoRequest == [kind |-> "none"]

TypeOK ==
    /\ table \subseteq Rows
    /\ nextId \in Nat \ {0}
    /\ sent \subseteq Alerts
    /\ pending \subseteq Alerts
    /\ pc \in [Handlers -> PCs]
    /\ req \in [Handlers -> Request]
    /\ todo \in [Handlers -> SUBSET Rows]
    /\ item \in [Handlers -> Rows \cup {NoRow}]
    /\ target \in [Handlers -> Nat]
    /\ requests \in Nat
    /\ accepted \in [Centres -> [id : Nat, flag : Flags, stands : BOOLEAN]]
    /\ cleared \in [Centres -> Nat]
    /\ overlap \in BOOLEAN

Init ==
    /\ table = {}
    /\ nextId = 1
    /\ sent = {}
    /\ pending = {}
    /\ pc     = [h \in Handlers |-> "idle"]
    /\ req    = [h \in Handlers |-> NoRequest]
    /\ todo   = [h \in Handlers |-> {}]
    /\ item   = [h \in Handlers |-> NoRow]
    /\ target = [h \in Handlers |-> 0]
    /\ requests = 0
    /\ accepted = [s \in Centres |-> [id |-> 0, flag |-> "MNRF", stands |-> FALSE]]
    /\ cleared  = [s \in Centres |-> 0]
    /\ overlap = FALSE

Goto(h, label) == pc' = [pc EXCEPT ![h] = label]

Finish(h) ==
    /\ Goto(h, "idle")
    /\ req'    = [req EXCEPT ![h] = NoRequest]
    /\ todo'   = [todo EXCEPT ![h] = {}]
    /\ item'   = [item EXCEPT ![h] = NoRow]
    /\ target' = [target EXCEPT ![h] = 0]

RowsOf(s) == {r \in table : r.sc = s}

\* A write falls into another request when that request has read rows on which
\* it is still going to write.
OthersReading(h) ==
    \E g \in Handlers \ {h} :
       pc[g] \in {"find", "store"} \/ (pc[g] \in {"send", "pend"} /\ todo[g] # {})

-----------------------------------------------------------------------------
(***************************************************************************)
(* Requests.                                                               *)
(***************************************************************************)
ReceiveReport(h) ==
    /\ pc[h] = "idle"
    /\ requests < MaxRequests
    /\ requests' = requests + 1
    /\ \E s \in Centres, c \in Causes, single \in BOOLEAN :
          req' = [req EXCEPT ![h] =
                     [kind |-> "report", id |-> requests', sc |-> s, cause |-> c,
                      single |-> single]]
    /\ Goto(h, "decide")
    /\ UNCHANGED <<table, nextId, sent, pending, todo, item, target, history>>

\* A ULR has succeeded or a NOR reports the UE present, or its memory available.
ReceiveTrigger(h) ==
    /\ pc[h] = "idle"
    /\ requests < MaxRequests
    /\ requests' = requests + 1
    /\ \E t \in Flags :
          req' = [req EXCEPT ![h] = [kind |-> "alert", id |-> requests', trigger |-> t]]
    /\ Goto(h, "scan")
    /\ UNCHANGED <<table, nextId, sent, pending, todo, item, target, history>>

\* An SMS-SC answers an alert, with Result-Code 2001 or with anything else.
ReceiveAnswer(h) ==
    /\ pc[h] = "idle"
    /\ \E a \in sent, ok \in BOOLEAN :
          /\ sent' = sent \ {a}
          /\ req' = [req EXCEPT ![h] =
                        [kind |-> "answer", alert |-> a, sc |-> a.sc, success |-> ok]]
    /\ Goto(h, "match")
    /\ UNCHANGED <<table, nextId, pending, todo, item, target, requests, history>>

\* The connection to the SMS-SC ends before it has answered.
LoseAnswer(a) ==
    /\ a \in sent
    /\ sent' = sent \ {a}
    /\ UNCHANGED <<table, nextId, pending, locals, requests, history>>

-----------------------------------------------------------------------------
(***************************************************************************)
(* RDSMR: a success clears the record, a single attempt leaves no record,  *)
(* any other failure is stored unless the list is full.                    *)
(***************************************************************************)

Decide(h) ==
    /\ pc[h] = "decide"
    /\ \/ /\ req[h].cause = "delivered"
          /\ Goto(h, "clear")
          /\ UNCHANGED <<req, todo, item, target>>
       \/ /\ req[h].cause # "delivered" /\ req[h].single
          /\ Finish(h)
       \/ /\ req[h].cause # "delivered" /\ ~req[h].single
          /\ Goto(h, "list")
          /\ UNCHANGED <<req, todo, item, target>>
    /\ UNCHANGED <<table, nextId, sent, pending, requests, history>>

\* Mutant: the limit is compared after the insert it should prevent.
ShouldRejectLate(rows, s) == (\A r \in rows : r.sc # s) /\ Cardinality(rows) > Limit

ShouldReject(rows, s) == (\A r \in rows : r.sc # s) /\ Cardinality(rows) >= Limit

List(h) ==
    /\ pc[h] = "list"
    /\ \/ /\ ShouldReject(table, req[h].sc)
          /\ Finish(h)
       \/ /\ ~ShouldReject(table, req[h].sc)
          /\ item' = [item EXCEPT ![h] =
                         [id |-> 0, sc |-> req[h].sc, flag |-> req[h].cause]]
          /\ Goto(h, "find")
          /\ UNCHANGED <<req, todo, target>>
    /\ UNCHANGED <<table, nextId, sent, pending, requests, history>>

-----------------------------------------------------------------------------
(***************************************************************************)
(* StoreMWD: GORM's FirstOrCreate with Assign.  One statement looks for a  *)
(* row of the SMS-SC, with the id of the record when it has one; a second  *)
(* updates the row found, if it is still there, or inserts the record.     *)
(***************************************************************************)
Candidates(h) == {r \in RowsOf(item[h].sc) : item[h].id \in {0, r.id}}

\* Mutant: every report is a record of its own.
FindNothing(h) ==
    /\ pc[h] = "find"
    /\ target' = [target EXCEPT ![h] = 0]
    /\ Goto(h, "store")
    /\ UNCHANGED <<table, nextId, sent, pending, req, todo, item, requests, history>>

Find(h) ==
    /\ pc[h] = "find"
    /\ \/ /\ Candidates(h) = {}
          /\ target' = [target EXCEPT ![h] = 0]
       \/ \E first \in Candidates(h) :
             /\ \A r \in Candidates(h) : first.id <= r.id
             /\ target' = [target EXCEPT ![h] = first.id]
    /\ Goto(h, "store")
    /\ UNCHANGED <<table, nextId, sent, pending, req, todo, item, requests, history>>

\* Mutant: the update assigns nothing, as without Assign.
StoredUnassigned(h) ==
    IF target[h] # 0 THEN table
    ELSE table \cup {[item[h] EXCEPT !.id = IF @ = 0 THEN nextId ELSE @]}

\* A record that keeps its old id is refused when a row has that id by now.
Stored(h) ==
    IF target[h] # 0
    THEN {IF r.id = target[h] /\ r.sc = item[h].sc
          THEN [id |-> r.id, sc |-> r.sc, flag |-> item[h].flag] ELSE r : r \in table}
    ELSE IF item[h].id = 0
    THEN table \cup {[id |-> nextId, sc |-> item[h].sc, flag |-> item[h].flag]}
    ELSE IF \E r \in table : r.id = item[h].id THEN table
    ELSE table \cup {item[h]}

\* A report is answered with success once its record is stored; an alert goes on.
Store(h) ==
    /\ pc[h] = "store"
    /\ table' = Stored(h)
    /\ nextId' = IF target[h] = 0 /\ item[h].id = 0 THEN nextId + 1 ELSE nextId
    /\ overlap' = (overlap \/ OthersReading(h))
    /\ \/ /\ req[h].kind = "report"
          /\ accepted' = [accepted EXCEPT ![item[h].sc] =
                             [id |-> req[h].id, flag |-> item[h].flag, stands |-> TRUE]]
          /\ Finish(h)
       \/ /\ req[h].kind = "alert"
          /\ Goto(h, "pend")
          /\ UNCHANGED <<req, todo, item, target, accepted>>
    /\ UNCHANGED <<sent, pending, requests, cleared>>

\* An alert carries on when its record can not be stored.
StoreFails(h) ==
    /\ pc[h] \in {"find", "store"}
    /\ \/ /\ req[h].kind = "report"
          /\ Finish(h)
       \/ /\ req[h].kind = "alert"
          /\ Goto(h, "pend")
          /\ UNCHANGED <<req, todo, item, target>>
    /\ UNCHANGED <<table, nextId, sent, pending, requests, history>>

-----------------------------------------------------------------------------
(***************************************************************************)
(* sendALRForIMSI: list the rows, and for each one the trigger matches,    *)
(* write the ALR, store the row again and enter the alert as pending.      *)
(***************************************************************************)
Matching(trigger) == {r \in table : r.flag = trigger}

Scan(h) ==
    /\ pc[h] = "scan"
    /\ todo' = [todo EXCEPT ![h] = Matching(req[h].trigger)]
    /\ Goto(h, "send")
    /\ UNCHANGED <<table, nextId, sent, pending, req, item, target, requests, history>>

AlertOf(h, r) == [request |-> req[h].id, row |-> r.id, sc |-> r.sc]

SendAlert(h) ==
    /\ pc[h] = "send"
    /\ \E r \in todo[h] :
          /\ sent' = sent \cup {AlertOf(h, r)}
          /\ item' = [item EXCEPT ![h] = r]
          /\ todo' = [todo EXCEPT ![h] = todo[h] \ {r}]
    /\ Goto(h, "find")
    /\ UNCHANGED <<table, nextId, pending, req, target, requests, history>>

\* The SMS-SC is not connected or the ALR can not be written.
SkipAlert(h) ==
    /\ pc[h] = "send"
    /\ \E r \in todo[h] : todo' = [todo EXCEPT ![h] = todo[h] \ {r}]
    /\ UNCHANGED <<table, nextId, sent, pending, pc, req, item, target, requests, history>>

Pend(h) ==
    /\ pc[h] = "pend"
    /\ pending' = pending \cup {AlertOf(h, item[h])}
    /\ item' = [item EXCEPT ![h] = NoRow]
    /\ target' = [target EXCEPT ![h] = 0]
    /\ Goto(h, "send")
    /\ UNCHANGED <<table, nextId, sent, req, todo, requests, history>>

EndAlerts(h) ==
    /\ pc[h] = "send" /\ todo[h] = {}
    /\ Finish(h)
    /\ UNCHANGED <<table, nextId, sent, pending, requests, history>>

-----------------------------------------------------------------------------
(***************************************************************************)
(* ALA, and DeleteMWD for it and for a report of success.                  *)
(***************************************************************************)
\* Mutant: any answer clears the record.
MatchAny(h) ==
    /\ pc[h] = "match"
    /\ pending' = pending \ {req[h].alert}
    /\ IF req[h].alert \in pending
       THEN Goto(h, "clear") /\ UNCHANGED <<req, todo, item, target>>
       ELSE Finish(h)
    /\ UNCHANGED <<table, nextId, sent, requests, history>>

Match(h) ==
    /\ pc[h] = "match"
    /\ pending' = pending \ {req[h].alert}
    /\ IF req[h].alert \in pending /\ req[h].success
       THEN Goto(h, "clear") /\ UNCHANGED <<req, todo, item, target>>
       ELSE Finish(h)
    /\ UNCHANGED <<table, nextId, sent, requests, history>>

\* The SMS-SC has said that it is done with the subscriber.
Released(h) == IF req[h].kind = "report" THEN req[h].cause = "delivered" ELSE req[h].success

Clear(h) ==
    /\ pc[h] = "clear"
    /\ table' = table \ RowsOf(req[h].sc)
    /\ IF Released(h)
       THEN /\ cleared' = [cleared EXCEPT ![req[h].sc] = requests]
            /\ accepted' = [accepted EXCEPT ![req[h].sc] =
                   [id |-> accepted[req[h].sc].id, flag |-> accepted[req[h].sc].flag,
                    stands |-> FALSE]]
       ELSE UNCHANGED <<cleared, accepted>>
    /\ overlap' = (overlap \/ OthersReading(h))
    /\ Finish(h)
    /\ UNCHANGED <<nextId, sent, pending, requests>>

-----------------------------------------------------------------------------
\* A lookup or a deletion fails: the handler answers, an error or not, and ends.
Fail(h) ==
    /\ pc[h] \in {"decide", "list", "scan", "clear"}
    /\ Finish(h)
    /\ UNCHANGED <<table, nextId, sent, pending, requests, history>>

\* The process is restarted: handlers, connections and the alerts in flight are gone.
Restart ==
    /\ \E h \in Handlers : pc[h] # "idle"
    /\ sent' = {}
    /\ pending' = {}
    /\ pc'     = [h \in Handlers |-> "idle"]
    /\ req'    = [h \in Handlers |-> NoRequest]
    /\ todo'   = [h \in Handlers |-> {}]
    /\ item'   = [h \in Handlers |-> NoRow]
    /\ target' = [h \in Handlers |-> 0]
    /\ UNCHANGED <<table, nextId, requests, history>>

Next ==
    \/ \E h \in Handlers :
          \/ ReceiveReport(h) \/ ReceiveTrigger(h) \/ ReceiveAnswer(h)
          \/ Decide(h) \/ List(h) \/ Find(h) \/ Store(h) \/ StoreFails(h)
          \/ Scan(h) \/ SendAlert(h) \/ SkipAlert(h) \/ Pend(h) \/ EndAlerts(h)
          \/ Match(h) \/ Clear(h)
          \/ Fail(h)
    \/ \E a \in sent : LoseAnswer(a)
    \/ Restart

Spec == Init /\ [][Next]_vars

-----------------------------------------------------------------------------
(***************************************************************************)
(* Properties.                                                             *)
(***************************************************************************)
\* A failure report that was answered with success is on record until its SMS-SC
\* has been cleared after it: neither another SMS-SC, a failed alert, a lost
\* answer nor a restart takes it away (docs/api.md:167).
NoWaitingLost ==
    \A s \in Centres : accepted[s].id > cleared[s] => RowsOf(s) # {}

\* As long as no write falls into another request, an SMS-SC has the record of
\* its last failure report, with the cause of that report, and no other; once
\* cleared it has none (docs/api.md:167).
RecordsAgree ==
    ~overlap => \A s \in Centres :
        /\ accepted[s].stands <=> RowsOf(s) # {}
        /\ \A r \in RowsOf(s) : r.flag = accepted[s].flag /\ RowsOf(s) = {r}

\* Likewise there are no more records than the limit (rsds.go:128).
ListBounded == ~overlap => Cardinality(table) <= Limit
=============================================================================
