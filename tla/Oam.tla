----------------------------------- MODULE Oam -----------------------------------
(***************************************************************************)
(* Provisioning through the REST interface of one node (internal/api): the *)
(* create, update and delete handlers of the twelve provisioning tables,   *)
(* the interlocks between the tables, the operation log with its rollback, *)
(* and backup and restore.                                                 *)
(*                                                                         *)
(* The database knows no foreign keys.  A row that others refer to is kept *)
(* by the DELETE handler alone, which looks for references column by       *)
(* column, each in a statement of its own.                                 *)
(*                                                                         *)
(* A row is its data, which the statements of the peers carry, the rest,   *)
(* which they leave alone, its natural key (an IMSI, an MSISDN, a TFT      *)
(* group), how its CSV list is spelled, and its references.                *)
(*                                                                         *)
(* Abstracted: a body that a handler's validation refuses changes nothing  *)
(* and is left out; each TFT has a group of its own.  The subscriber cache *)
(* and what a PUT does to serving nodes are in Mobility, the delivery of   *)
(* published events in GeoRed: here the peers apply an event as it is      *)
(* published.                                                              *)
(***************************************************************************)
EXTENDS Naturals, Sequences, FiniteSets

CONSTANTS
    Workers,  \* request goroutines
    Rows,      \* records [table, id]: the rows the requests are about
    MaxRequests, \* bound: requests, with exports and without restores
    MaxRows,   \* bound: a POST finds fewer rows than that in the database
    MaxActs,   \* bound: rollbacks and restarts
    MaxLog     \* maxOperationLogRows, 100 in the code

ASSUME BoundAssumption == MaxRequests \in Nat /\ MaxActs \in Nat /\ MaxRows \in Nat /\ MaxLog \in Nat \ {0}

-----------------------------------------------------------------------------
(***************************************************************************)
(* The schema: per table the columns that name rows of another table, the  *)
(* columns its DELETE looks into, whether its writes are published to the  *)
(* GeoRed peers, and whether DELETE loads the row first.                   *)
(***************************************************************************)
AUCColumns          == {<<"algorithm_profile_id", "algorithm_profile">>}
APNColumns          == {<<"charging_rule_list", "charging_rule">>}
ChargingRuleColumns == {<<"tft_group_id", "tft">>}
SubscriberColumns   == {<<"auc_id", "auc">>, <<"default_apn", "apn">>, <<"apn_list", "apn">>}
RoutingColumns      == {<<"subscriber_id", "subscriber">>, <<"apn_id", "apn">>}
AttributeColumns    == {<<"subscriber_id", "subscriber">>}
IMSColumns          == {<<"imsi", "subscriber">>, <<"ifc_profile_id", "ifc_profile">>}

Handling(columns, checks, published, loads) ==
    [columns |-> columns, checks |-> checks, published |-> published, loads |-> loads]

AlgorithmProfiles == Handling({}, << <<"auc", "algorithm_profile_id">> >>, FALSE, FALSE)
\* Mutant of APNs: DELETE forgets the lists of allowed APNs.
APNsWithoutList == Handling(APNColumns,
    << <<"subscriber", "default_apn">>, <<"subscriber_routing", "apn_id">> >>, TRUE, FALSE)
APNs == Handling(APNColumns,
    << <<"subscriber", "default_apn">>, <<"subscriber", "apn_list">>,
       <<"subscriber_routing", "apn_id">> >>, TRUE, FALSE)
ChargingRules == Handling(ChargingRuleColumns, << <<"apn", "charging_rule_list">> >>, FALSE, FALSE)
TFTs          == Handling({}, << <<"charging_rule", "tft_group_id">> >>, FALSE, TRUE)
IFCProfiles   == Handling({}, << <<"ims_subscriber", "ifc_profile_id">> >>, FALSE, FALSE)
EIRs          == Handling({}, <<>>, TRUE, FALSE)
RoamingRules  == Handling({}, <<>>, FALSE, FALSE)
AUCs          == Handling(AUCColumns, << <<"subscriber", "auc_id">> >>, TRUE, FALSE)
Subscribers   == Handling(SubscriberColumns,
    << <<"ims_subscriber", "imsi">>, <<"subscriber_attributes", "subscriber_id">>,
       <<"subscriber_routing", "subscriber_id">> >>, TRUE, TRUE)
Routings      == Handling(RoutingColumns, <<>>, FALSE, FALSE)
Attributes    == Handling(AttributeColumns, <<>>, FALSE, FALSE)
IMSSubscribers == Handling(IMSColumns, <<>>, TRUE, TRUE)

API == [algorithm_profile |-> AlgorithmProfiles, apn |-> APNs, charging_rule |-> ChargingRules,
        tft |-> TFTs, ifc_profile |-> IFCProfiles, eir |-> EIRs, roaming_rules |-> RoamingRules,
        auc |-> AUCs, subscriber |-> Subscribers, subscriber_routing |-> Routings,
        subscriber_attributes |-> Attributes, ims_subscriber |-> IMSSubscribers]

ASSUME RowsAssumption  == \A r \in Rows : DOMAIN r = {"table", "id"} /\ r.table \in DOMAIN API

\* Mutant of BackupOrder: the TFTs are left out.
BackupOrderWithoutTFTs ==
    << "algorithm_profile", "apn", "charging_rule", "ifc_profile", "eir", "roaming_rules",
       "auc", "subscriber", "subscriber_routing", "subscriber_attributes", "ims_subscriber" >>
\* The tables in the order a backup reads them.
BackupOrder ==
    << "algorithm_profile", "apn", "charging_rule", "tft", "ifc_profile", "eir", "roaming_rules",
       "auc", "subscriber", "subscriber_routing", "subscriber_attributes", "ims_subscriber" >>

NaturalColumns == {"tft_group_id", "imsi"}           \* name a key of the row, not its id
ListColumns    == {"apn_list", "charging_rule_list"} \* CSV lists of ids
Keyed     == {"tft", "subscriber", "ims_subscriber"} \* tables with a key a PUT may change
Defaulted == {"algorithm_profile", "apn", "charging_rule", "eir", "roaming_rules", "subscriber"}
Uncarried == {"auc", "apn", "subscriber", "ims_subscriber"} \* have columns no peer's UPDATE sets

-----------------------------------------------------------------------------
VARIABLES
    rows,      \* what the database holds: per row its content
    told,      \* what the peers' databases hold of the rows
    log,       \* operation_log, oldest first
    at, req,   \* per handler where it stands, and its request
    left, doc, \* the tables an export has still to read, and what it has read
    taken,     \* a document has been exported
    previous,  \* history: per row its content before the last write
    excused,   \* history: rows written with references that did not hold, or whose target's key changed
    disturbed, \* history: rows with overlapping or lost writes, rolled back or restored
    unlogged,  \* history: rows whose last write the log has no entry of
    strayed,   \* history: rows whose key a PUT changed: the peers know them by the old one
    snapshot,  \* history: the database when the export began, and what was excused
    torn,      \* history: something was written during the export
    requests, acts

oamHistory == <<previous, excused, disturbed, unlogged, strayed, snapshot, torn>>
backup  == <<left, doc, taken>>
counts  == <<requests, acts>>
oamVars    == <<rows, told, log, at, req, backup, oamHistory, counts>>

Plain(refs) == [data |-> "default", rest |-> 1, key |-> "own", spaced |-> FALSE, refs |-> refs]
Absent      == [Plain({}) EXCEPT !.data = "none"]
Present(r)  == rows[r] # Absent

\* The references a row may hold; one by a natural key names the key "own".
Refs    == [r \in Rows |-> {x \in {c[1] : c \in API[r.table].columns} \X Rows :
                               <<x[1], x[2].table>> \in API[r.table].columns}]
Content == [r \in Rows |->
    [data : {"default", "zero", "other"}, rest : 1 .. 2, key : {"own", "new"},
     spaced : BOOLEAN, refs : SUBSET Refs[r]] \cup {Absent}]
\* The bodies of requests: all references or none; without references other data and,
\* for some tables, columns left zero or another key; a list with spaces in it.
Bodies  == [r \in Rows |->
    {Plain({}), Plain(Refs[r])}
    \cup (IF Refs[r] = {} \/ r.table \in Defaulted \cup Uncarried
          THEN {[Plain({}) EXCEPT !.data = IF r.table \in Defaulted THEN "zero" ELSE "other",
                                  !.rest = IF r.table \in Uncarried THEN 2 ELSE 1]} ELSE {})
    \cup (IF r.table \in Keyed THEN {[Plain({}) EXCEPT !.key = "new"]} ELSE {})
    \cup {[Plain(l) EXCEPT !.spaced = TRUE] : l \in {{x \in Refs[r] : x[1] \in ListColumns}} \ {{}}}]
NoJob   == [op |-> "none"]

\* What GORM's Create stores: a column left zero gets its default.
Stored(content) == IF content.data = "zero" THEN [content EXCEPT !.data = "default"] ELSE content

Empty == [r \in Rows |-> Absent]
\* A database of two rows, one of which refers to the other.
Linked(r, x) == [q \in Rows |-> IF q = r THEN Plain({x}) ELSE IF q = x[2] THEN Plain({}) ELSE Absent]

OamInit ==
    /\ rows \in {Empty} \cup UNION {{Linked(r, x) : x \in Refs[r]} : r \in Rows}
    /\ told = rows /\ previous = rows
    /\ log = <<>>
    /\ at = [h \in Workers |-> "idle"] /\ req = [h \in Workers |-> NoJob]
    /\ left = <<>> /\ doc = Empty /\ taken = FALSE
    /\ excused = {} /\ disturbed = {} /\ unlogged = {} /\ strayed = {} /\ torn = FALSE
    /\ snapshot = [rows |-> Empty, excused |-> {}]
    /\ requests = 0 /\ acts = 0

-----------------------------------------------------------------------------
Request == requests < MaxRequests /\ requests' = requests + 1 /\ UNCHANGED acts
Act     == acts < MaxActs /\ acts' = acts + 1 /\ UNCHANGED requests
Advance(h, step, r) ==
    /\ at'  = [at EXCEPT ![h] = step]
    /\ req' = [req EXCEPT ![h] = IF step = "idle" THEN NoJob ELSE r]
Continue(h, step) == Advance(h, step, req[h])

InHand(r)     == {h \in Workers : at[h] # "idle" /\ req[h].row = r}
Deleting(r) == \E h \in InHand(r) : req[h].op = "delete"

\* Is content c what reference x names?
Holds(c, x) == c # Absent /\ (x[1] \in NaturalColumns => c.key = "own")
\* After row r has got content c: are its references good, and is one to it no longer?
Judged(r, c) ==
    LET good == \A x \in c.refs : Holds(rows[x[2]], x) /\ ~Deleting(x[2]) IN
    IF good THEN excused \ {r} ELSE excused \cup {r}
Orphans(r, c) == {q \in Rows : \E x \in rows[q].refs : x[2] = r /\ ~Holds(c, x)}

-----------------------------------------------------------------------------
(***************************************************************************)
(* Requests.  A POST inserts; a PUT loads the row, saves it and answers    *)
(* what it reads again; a DELETE looks for references and deletes.         *)
(***************************************************************************)
FirstStep(op, r) ==
    CASE op = "create" -> "write"
      [] op = "update" -> "load"
      [] op = "delete" -> IF API[r.table].loads THEN "load"
                          ELSE IF API[r.table].checks = <<>> THEN "capture" ELSE "check"

ReceiveWrite(h, op, r, body) ==
    /\ at[h] = "idle"
    /\ op = "create" => /\ ~Present(r) /\ InHand(r) = {}     \* an id of its own
                        /\ Cardinality({x \in Rows : Present(x)}) < MaxRows
    /\ Request
    /\ Advance(h, FirstStep(op, r), [op |-> op, row |-> r, body |-> body, before |-> Absent,
                                  checks |-> IF op = "delete" THEN API[r.table].checks ELSE <<>>])
    /\ disturbed' = IF InHand(r) # {} THEN disturbed \cup {r} ELSE disturbed
    /\ UNCHANGED <<rows, told, log, backup, previous, excused, unlogged, strayed, snapshot, torn>>

\* What a PUT saves: of an AUC, the columns the body leaves out as they were.
Merged(r, body) ==
    IF r.table = "auc" THEN {[body EXCEPT !.refs = l, !.rest = n] : l \in {body.refs, rows[r].refs},
                                                                    n \in {body.rest, rows[r].rest}}
    ELSE {body}

Load(h) ==
    /\ at[h] = "load"
    /\ LET r == req[h].row IN
       \/ ~Present(r) /\ Continue(h, "idle")
       \/ /\ Present(r) /\ req[h].op = "update"
          /\ \E b \in Merged(r, req[h].body) : Advance(h, "capture", [req[h] EXCEPT !.body = b])
       \/ /\ Present(r) /\ req[h].op = "delete"
          /\ Advance(h, IF req[h].checks = <<>> THEN "capture" ELSE "check",
                     [req[h] EXCEPT !.body = rows[r]])
    /\ UNCHANGED <<rows, told, log, backup, oamHistory, counts>>

\* The look for references to row r, loaded as content c: a CSV list is searched for
\* ",id,", which a list with spaces does not hold, and a key is the one loaded.
InUse(r, c, column) ==
    \E q \in Rows : /\ q.table = column[1] /\ <<column[2], r>> \in rows[q].refs
                    /\ column[2] \in ListColumns => ~rows[q].spaced
                    /\ column[2] \in NaturalColumns => c.key = "own"

Check(h) ==
    /\ at[h] = "check"
    /\ LET rest == Tail(req[h].checks) IN
       IF InUse(req[h].row, req[h].body, Head(req[h].checks)) THEN Continue(h, "idle")       \* 409
       ELSE Advance(h, IF rest = <<>> THEN "capture" ELSE "check", [req[h] EXCEPT !.checks = rest])
    /\ UNCHANGED <<rows, told, log, backup, oamHistory, counts>>

\* A statement fails: 500, and nothing is written.
Fail(h) ==
    /\ at[h] \in {"load", "check", "capture", "write"}
    /\ Continue(h, "idle")
    /\ UNCHANGED <<rows, told, log, backup, oamHistory, counts>>

-----------------------------------------------------------------------------
(***************************************************************************)
(* The statement that writes, and the record of it: the state before is    *)
(* read, the row written and committed; then the state after is read and   *)
(* logged by statements of their own whose errors are ignored.             *)
(***************************************************************************)
LogEntry(op, r, before, after) == [op |-> op, row |-> r, before |-> before, after |-> after]
Pruned(l) == IF Len(l) > MaxLog THEN SubSeq(l, Len(l) - MaxLog + 1, Len(l)) ELSE l

Capture(h) ==
    /\ at[h] = "capture"
    /\ Advance(h, "write", [req[h] EXCEPT !.before = rows[req[h].row]])
    /\ UNCHANGED <<rows, told, log, backup, oamHistory, counts>>

Wrote(h, content) ==
    LET r == req[h].row IN
    /\ rows' = [rows EXCEPT ![r] = content]
    /\ previous' = [previous EXCEPT ![r] = rows[r]]
    /\ excused' = Judged(r, content) \cup (IF content = Absent THEN {} ELSE Orphans(r, content))
    /\ torn' = (torn \/ left # <<>>)
    /\ UNCHANGED <<told, log, backup, disturbed, unlogged, snapshot, counts>>

Create(h) ==
    /\ at[h] = "write" /\ req[h].op = "create"
    /\ Wrote(h, Stored(req[h].body))
    /\ Advance(h, "log", [req[h] EXCEPT !.body = Stored(@)])
    /\ UNCHANGED strayed

Save(h) ==
    /\ at[h] = "write" /\ req[h].op = "update" /\ Present(req[h].row)
    /\ Wrote(h, req[h].body)
    /\ Continue(h, "log")
    /\ strayed' = strayed \cup {r \in {req[h].row} : rows[r].key # req[h].body.key}

\* The UPDATE of a PUT finds no row: it is logged, and the row inserted.
SaveFindsNone(h) ==
    /\ at[h] = "write" /\ req[h].op = "update" /\ ~Present(req[h].row)
    /\ log' \in {log, Pruned(Append(log, LogEntry("update", req[h].row, req[h].before, Absent)))}
    /\ Advance(h, "write", [req[h] EXCEPT !.op = "create", !.before = Absent])
    /\ UNCHANGED <<rows, told, backup, oamHistory, counts>>

Delete(h) ==
    /\ at[h] = "write" /\ req[h].op = "delete"
    /\ Wrote(h, Absent)
    /\ Continue(h, "log")
    /\ UNCHANGED strayed

WriteLog(h) ==
    /\ at[h] = "log"
    /\ LET r == req[h].row
           entry == LogEntry(req[h].op, r, req[h].before,
                             IF req[h].op = "delete" THEN Absent ELSE rows[r]) IN
       \/ /\ req[h].op = "create" => Present(r)
          /\ \E l \in {Append(log, entry)} : log' \in {l, Pruned(l)}
          /\ unlogged' = unlogged \ {r}
       \/ log' \in {log, Pruned(log)} /\ unlogged' = unlogged \cup {r}
    /\ Continue(h, "publish")
    /\ UNCHANGED <<rows, told, backup, previous, excused, disturbed, strayed, snapshot, torn, counts>>

\* At a peer a row is created with Create, which sets defaults, or, if it has the row,
\* the columns listed are assigned and the rest is left as it is.
Assigned(have, record, columns) ==
    IF have = Absent THEN Stored(record)
    ELSE [Stored(record) EXCEPT
              !.rest = have.rest,
              !.refs = {x \in @ : x[1] \in columns} \cup {x \in have.refs : x[1] \notin columns}]
\* A row the peer has under another key: the insert finds no conflict on the key, fails
\* on the id, and the error is dropped; a deletion finds nothing.
Unmatched(have, record) == have # Absent /\ have.key # record.key

\* What the statements of the store make of the row a peer has, for an event.
UpsertSubscriber(have, record) ==
    IF Unmatched(have, record) THEN have
    ELSE Assigned(have, record, {"auc_id", "default_apn", "apn_list"})
UpsertAUC(have, record) == Assigned(have, record, {})
UpsertAPN(have, record) == Assigned(have, record, {"charging_rule_list"})
UpsertIMSSubscriber(have, record) ==
    IF Unmatched(have, record) THEN have ELSE Assigned(have, record, {"imsi", "ifc_profile_id"})
UpsertEIR(have, record) == Assigned(have, record, {})
DeleteSubscriberByIMSI(have, record) == IF Unmatched(have, record) THEN have ELSE Absent
DeleteAUCByID == Absent
DeleteAPNByID == Absent
DeleteIMSSubscriberByMSISDN(have, record) == IF Unmatched(have, record) THEN have ELSE Absent
DeleteEIRByID == Absent

applyOAMRecord(r, deleted, record) ==
    LET have == told[r] IN
    CASE r.table = "subscriber" ->
            IF deleted THEN DeleteSubscriberByIMSI(have, record) ELSE UpsertSubscriber(have, record)
      [] r.table = "auc" -> IF deleted THEN DeleteAUCByID ELSE UpsertAUC(have, record)
      [] r.table = "apn" -> IF deleted THEN DeleteAPNByID ELSE UpsertAPN(have, record)
      [] r.table = "ims_subscriber" ->
            IF deleted THEN DeleteIMSSubscriberByMSISDN(have, record)
            ELSE UpsertIMSSubscriber(have, record)
      [] r.table = "eir" -> IF deleted THEN DeleteEIRByID ELSE UpsertEIR(have, record)

\* Mutant of PublishOAM: deletions are not published.
PublishOAMPutOnly(h) ==
    /\ at[h] = "publish"
    /\ LET r == req[h].row IN
       told' = IF API[r.table].published /\ req[h].op # "delete"
               THEN [told EXCEPT ![r] = applyOAMRecord(r, FALSE, req[h].body)] ELSE told
    /\ Continue(h, "idle")
    /\ UNCHANGED <<rows, log, backup, oamHistory, counts>>
PublishOAM(h) ==
    /\ at[h] = "publish"
    /\ LET r == req[h].row IN
       told' = IF API[r.table].published
               THEN [told EXCEPT ![r] = applyOAMRecord(r, req[h].op = "delete", req[h].body)]
               ELSE told
    /\ Continue(h, "idle")
    /\ UNCHANGED <<rows, log, backup, oamHistory, counts>>

-----------------------------------------------------------------------------
(***************************************************************************)
(* Rollback of an entry of the log, by SQL of its own: no interlock, no    *)
(* entry, no event.                                                        *)
(***************************************************************************)
\* Mutant of RolledBack: the state after the change is written again.
RolledForward(e) == IF e.op = "create" THEN Absent ELSE e.after
RolledBack(e) == IF e.op = "create" THEN Absent ELSE e.before

Rollback(i) ==
    /\ i \in DOMAIN log
    /\ log[i].op # "create" => log[i].before # Absent                   \* 422
    /\ log[i].op = "update" => Present(log[i].row)                       \* no row: nothing is done
    /\ log[i].op = "delete" => ~Present(log[i].row)                      \* duplicate key
    /\ Act
    /\ LET r == log[i].row IN
       /\ rows' = [rows EXCEPT ![r] = RolledBack(log[i])]
       /\ excused' = Judged(r, rows'[r]) \cup Orphans(r, rows'[r])
       /\ disturbed' = disturbed \cup {r}
    /\ torn' = (torn \/ left # <<>>)
    /\ UNCHANGED <<told, log, at, req, backup, previous, unlogged, strayed, snapshot>>

-----------------------------------------------------------------------------
(***************************************************************************)
(* Backup reads one table after the other, outside a transaction; restore  *)
(* wipes and inserts all tables in one.                                    *)
(***************************************************************************)
Export ==
    /\ left = <<>> /\ ~taken
    /\ Request
    /\ left' = BackupOrder /\ doc' = Empty /\ taken' = TRUE
    /\ snapshot' = [rows |-> rows, excused |-> excused]
    /\ torn' = FALSE
    /\ UNCHANGED <<rows, told, log, at, req, previous, excused, disturbed, unlogged, strayed>>

BuildBackup ==
    /\ left # <<>>
    /\ doc' = [r \in Rows |-> IF r.table = Head(left) THEN rows[r] ELSE doc[r]]
    /\ left' = Tail(left)
    /\ UNCHANGED <<rows, told, log, at, req, taken, oamHistory, counts>>

\* The rows of the document are created anew, with defaults set.
Restored == [r \in Rows |-> Stored(doc[r])]

ApplyRestore ==
    /\ taken /\ left = <<>> /\ rows # Restored
    /\ rows' = Restored
    /\ excused' = IF torn THEN Rows
                  ELSE snapshot.excused \cup {r \in Rows : \E x \in doc[r].refs : Deleting(x[2])}
    /\ disturbed' = Rows
    /\ UNCHANGED <<told, log, at, req, backup, previous, unlogged, strayed, snapshot, torn, counts>>

\* The process is restarted: what it has committed and not yet logged or published is
\* lost to the log or to the peers.
OamRestart ==
    /\ \E h \in Workers : at[h] # "idle"
    /\ Act
    /\ disturbed' = disturbed \cup {req[h].row : h \in {g \in Workers : at[g] \in {"log", "publish"}}}
    /\ at' = [h \in Workers |-> "idle"] /\ req' = [h \in Workers |-> NoJob]
    /\ UNCHANGED <<rows, told, log, backup, previous, excused, unlogged, strayed, snapshot, torn>>

OamNext ==
    \/ \E h \in Workers :
          \/ \E r \in Rows : \/ \E op \in {"create", "update"}, b \in Bodies[r] : ReceiveWrite(h, op, r, b)
                             \/ ReceiveWrite(h, "delete", r, Absent)
          \/ Load(h) \/ Check(h) \/ Fail(h) \/ Capture(h)
          \/ Create(h) \/ Save(h) \/ SaveFindsNone(h) \/ Delete(h) \/ WriteLog(h) \/ PublishOAM(h)
    \/ \E i \in DOMAIN log : Rollback(i)
    \/ Export \/ BuildBackup \/ ApplyRestore \/ OamRestart

OamSpec == OamInit /\ [][OamNext]_oamVars

-----------------------------------------------------------------------------
(***************************************************************************)
(* Properties.                                                             *)
(***************************************************************************)

(***************************************************************************)
(* What a row refers to exists, under the key it names, whatever else is   *)
(* going on: in every table, for every column, no DELETE takes away a row  *)
(* in use (apn.go:84-109, auc.go:241-254, subscriber.go:178-212,           *)
(* charging.go:79-90, 155-172).  Three kinds of reference are left out:    *)
(* those of a row written when one of them was not good or its target was  *)
(* being deleted; those to a row that was rolled away or given another     *)
(* natural key, by a rollback or by a PUT, which has no interlock          *)
(* (subscriber.go:107-135, charging.go:140-152); and those in a list with  *)
(* spaces, which readers trim and the interlock does not find              *)
(* (interlocks.go:19-21).                                                  *)
(***************************************************************************)
Legible(content, x) == x[1] \in ListColumns => ~content.spaced
NoDangling ==
    \A r \in Rows \ excused : \A x \in rows[r].refs : Legible(rows[r], x) => Holds(rows[x[2]], x)

(***************************************************************************)
(* Rolling back the newest entry of a row puts back the content the row    *)
(* had before that write, unless writes of the row overlapped, or its last *)
(* write is not in the log, whose errors nobody sees (audit.go:61-197,     *)
(* operation_log.go:56-117).                                               *)
(***************************************************************************)
Newest(i) == \A j \in i + 1 .. Len(log) : log[j].row # log[i].row
RollbackRestores ==
    [][\A i \in DOMAIN log :
          Newest(i) /\ log[i].row \notin disturbed \cup unlogged /\ InHand(log[i].row) = {} /\ Rollback(i)
             => rows'[log[i].row] = previous[log[i].row]]_oamVars

(***************************************************************************)
(* When no request about a row of a replicated table is in hand, the peers *)
(* have it if the node does, under the same key, with the same references  *)
(* and the same data in the columns their statements carry, a column left  *)
(* zero by its default; unless writes of it overlapped or were lost, it    *)
(* was rolled back or restored, or a PUT changed its key (api/auc.go:      *)
(* 108-110, 235-237, 250-252 and the like; store.go:583-651).  Of a row a  *)
(* peer has, the statements leave the rest alone: an AUC's algorithm       *)
(* profile, PINs and keys, a subscriber's NSSAI, an APN's NIDD columns.    *)
(***************************************************************************)
NotCarried == {"algorithm_profile_id"}
Seen(content) ==
    LET stored == Stored(content) IN
    [data |-> stored.data, key |-> stored.key, spaced |-> stored.spaced,
     refs |-> {x \in stored.refs : x[1] \notin NotCarried}]
Known(r) == API[r.table].published /\ r \notin disturbed \cup strayed
PeersTold == \A r \in Rows : Known(r) /\ InHand(r) = {} => Seen(told[r]) = Seen(rows[r])

(***************************************************************************)
(* A backup during which nothing is written holds every row of every table *)
(* as it was (backup.go:115-143); if something is written it may hold a    *)
(* state the database never was in.                                        *)
(***************************************************************************)
BackupWhole ==
    taken /\ left = <<>> /\ ~torn => doc = snapshot.rows
==================================================================================
