---------------------------------- MODULE OamInv ---------------------------------
(***************************************************************************)
(* The inductive invariant behind the properties of Oam, for TLC (MCOam)   *)
(* and for the proofs (EquipmentOamSbiProofs).                             *)
(***************************************************************************)
EXTENDS Oam

Ops   == {"create", "update", "delete"}
Stages == {"idle", "load", "check", "capture", "write", "log", "publish"}
Tables == {"algorithm_profile", "apn", "charging_rule", "tft", "ifc_profile", "eir",
           "roaming_rules", "auc", "subscriber", "subscriber_routing",
           "subscriber_attributes", "ims_subscriber"}
Columns == {"algorithm_profile_id", "charging_rule_list", "tft_group_id", "auc_id", "default_apn",
            "apn_list", "subscriber_id", "apn_id", "imsi", "ifc_profile_id"}

Contents == UNION {Content[r] : r \in Rows}
Database == {d \in [Rows -> Contents] : \A r \in Rows : d[r] \in Content[r]}
Job == {q \in [op : Ops, row : Rows, body : Contents, before : Contents,
               checks : Seq(Tables \X Columns)] :
          q.body \in Content[q.row] /\ q.before \in Content[q.row]}
LogEntries == {e \in [op : Ops, row : Rows, before : Contents, after : Contents] :
                 e.before \in Content[e.row] /\ e.after \in Content[e.row]}

OamTypeOK ==
    /\ rows \in Database /\ told \in Database /\ previous \in Database
    /\ doc \in Database /\ snapshot \in [rows : Database, excused : SUBSET Rows]
    /\ log \in Seq(LogEntries)
    /\ at \in [Workers -> Stages] /\ req \in [Workers -> Job \cup {NoJob}]
    /\ left \in Seq(DOMAIN API) /\ taken \in BOOLEAN /\ torn \in BOOLEAN
    /\ excused \subseteq Rows /\ disturbed \subseteq Rows
    /\ unlogged \subseteq Rows /\ strayed \subseteq Rows
    /\ requests \in Nat /\ acts \in Nat

\* A request, by where its goroutine stands.
RequestOK(h) ==
    /\ at[h] = "idle" <=> req[h] = NoJob
    /\ at[h] # "idle" =>
          /\ req[h].op # "delete" => req[h].body # Absent /\ req[h].checks = <<>>
          /\ req[h].op = "create" => at[h] \notin {"load", "capture"} /\ req[h].before = Absent
          /\ at[h] # "load" => (at[h] = "check" <=> req[h].checks # <<>>)
RequestsOK == \A h \in Workers : RequestOK(h)

\* Requests in hand at the same time for one row are noted.
RowsApart ==
    \A g, h \in Workers :
       g # h /\ at[g] # "idle" /\ at[h] # "idle" /\ req[g].row = req[h].row
          => req[g].row \in disturbed

Committed(h) == at[h] \in {"log", "publish"}

\* What the one request about a row knows of it.
Knows(h) ==
    at[h] # "idle" /\ req[h].row \notin disturbed =>
       /\ req[h].op = "create" /\ at[h] = "write" => rows[req[h].row] = Absent
       /\ req[h].op = "update" /\ at[h] \in {"capture", "write"} => Present(req[h].row)
       /\ at[h] = "write" => req[h].before = rows[req[h].row]
       /\ at[h] = "log" => req[h].before = previous[req[h].row]
       /\ Committed(h) => rows[req[h].row] = IF req[h].op = "delete" THEN Absent ELSE req[h].body
       /\ req[h].op = "delete" /\ req[h].row.table \in Keyed /\ at[h] \in {"check", "capture", "write"} =>
             req[h].body = rows[req[h].row]
       \* the peers know the row by the key of the event
       /\ Committed(h) /\ Known(req[h].row) /\ req[h].row.table \in Keyed =>
             ~Unmatched(told[req[h].row], req[h].body)
KnowInv == \A h \in Workers : Knows(h)

\* Until its request publishes it, what a row holds is what the peers were told.
Publishing(r) == \E h \in Workers : Committed(h) /\ req[h].row = r
ToldInv == \A r \in Rows : Known(r) /\ ~Publishing(r) => Seen(told[r]) = Seen(rows[r])

\* The newest entry of a row leads back to what it held before.
Logging(r) == \E h \in Workers : at[h] = "log" /\ req[h].row = r
Unsure == disturbed \cup unlogged \cup {r \in Rows : Logging(r)}
Backs(l, was, out) ==
    \A i \in DOMAIN l :
       (\A j \in i + 1 .. Len(l) : l[j].row # l[i].row) /\ l[i].row \notin out
          => RolledBack(l[i]) = was[l[i].row]
LogInv == Backs(log, previous, Unsure)

\* A DELETE has still to look wherever its row is referred to.
Ahead(h, column) == \E k \in DOMAIN req[h].checks : req[h].checks[k] = column
DeletionOK(h) ==
    at[h] \in {"load", "check", "capture", "write"} /\ req[h].op = "delete" =>
       \A q \in Rows \ excused : \A x \in rows[q].refs :
          Legible(rows[q], x) /\ x[2] = req[h].row =>
             /\ Ahead(h, <<q.table, x[1]>>)
             /\ at[h] # "load" /\ x[1] \in NaturalColumns => req[h].body.key = "own"
LinksInv == NoDangling /\ \A h \in Workers : DeletionOK(h)

\* The document agrees with the database the export began with, as far as it has
\* been read, and that database had no reference that dangled.
BackupInv ==
    /\ taken /\ ~torn =>
          /\ left # <<>> => rows = snapshot.rows
          /\ \A r \in Rows : (\A k \in DOMAIN left : left[k] # r.table) =>
                doc[r] = snapshot.rows[r]
    /\ left # <<>> => taken
    /\ \A r \in Rows \ snapshot.excused : \A x \in snapshot.rows[r].refs :
          Legible(snapshot.rows[r], x) => Holds(snapshot.rows[x[2]], x)

OamIInv ==
    /\ OamTypeOK /\ RequestsOK /\ RowsApart /\ KnowInv /\ ToldInv /\ LogInv /\ LinksInv /\ BackupInv
==================================================================================
