----------------------------- MODULE SmsWaitingInv -----------------------------
(***************************************************************************)
(* The inductive invariant behind the safety properties of SmsWaiting, for *)
(* TLC (MCSmsWaiting) and for the proofs (SmsWaitingProofs).               *)
(***************************************************************************)
EXTENDS SmsWaiting

\* What the program counter says about the local variables of a handler.
Kind(h) ==
    CASE pc[h] \in {"decide", "list"}         -> {"report"}
      [] pc[h] \in {"find", "store"}          -> {"report", "alert"}
      [] pc[h] \in {"scan", "send", "pend"}   -> {"alert"}
      [] pc[h] = "match"                      -> {"answer"}
      [] pc[h] = "clear"                      -> {"report", "answer"}
      [] OTHER                                -> {"none"}
LocalOK(h) ==
    /\ req[h].kind \in Kind(h)
    /\ pc[h] = "clear" => Released(h)
    /\ pc[h] = "list" => req[h].cause \in Flags
    /\ pc[h] \in {"find", "store", "pend"} => item[h] \in Rows
    /\ pc[h] \in {"find", "store"} /\ req[h].kind = "report" =>
          item[h].sc = req[h].sc /\ item[h].id = 0
    /\ pc[h] \in {"find", "store"} /\ req[h].kind = "alert" =>
          0 < item[h].id /\ item[h].id < nextId
    /\ req[h].kind = "report" => req[h].id <= requests
    /\ \A r \in todo[h] : 0 < r.id /\ r.id < nextId
    /\ pc[h] \notin {"send", "find", "store", "pend"} => todo[h] = {}
LocalInv == \A h \in Handlers : LocalOK(h)

TableInv ==
    /\ IsFiniteSet(table)
    /\ \A r \in table : 0 < r.id /\ r.id < nextId
    /\ \A s \in Centres : accepted[s].id <= requests

\* The row a report is about to update is there, unless its SMS-SC was cleared
\* after the report came in.
TargetOK(h) ==
    pc[h] = "store" /\ req[h].kind = "report" /\ target[h] # 0 =>
       \/ \E r \in table : r.id = target[h] /\ r.sc = item[h].sc
       \/ cleared[item[h].sc] >= req[h].id
TargetInv == \A h \in Handlers : TargetOK(h)

\* While no write has fallen into another request: what a handler has read of the
\* table is still true when it writes.
FreshOK(h) ==
    /\ pc[h] \in {"find", "store"} /\ req[h].kind = "report" =>
          ~ShouldReject(table, item[h].sc)
    /\ pc[h] = "store" /\ req[h].kind = "report" =>
          IF target[h] = 0 THEN RowsOf(item[h].sc) = {}
          ELSE \E r \in RowsOf(item[h].sc) : r.id = target[h]
    /\ pc[h] \in {"find", "store"} /\ req[h].kind = "alert" => item[h] \in table
    /\ pc[h] = "store" /\ req[h].kind = "alert" => target[h] = item[h].id
    /\ todo[h] \subseteq table
FreshInv == \A h \in Handlers : FreshOK(h)

AloneInv ==
    /\ FreshInv
    /\ \A q, r \in table : q.id = r.id => q = r
    /\ \A q, r \in table : q.sc = r.sc => q = r
    /\ \A s \in Centres :
          IF accepted[s].stands THEN \E r \in RowsOf(s) : r.flag = accepted[s].flag
                                ELSE RowsOf(s) = {}
    /\ Cardinality(table) <= Limit

IInv ==
    /\ TypeOK
    /\ LocalInv
    /\ TableInv
    /\ TargetInv
    /\ NoWaitingLost
    /\ ~overlap => AloneInv
=============================================================================
