------------------------------ MODULE MobilityInv ------------------------------
(***************************************************************************)
(* The inductive invariant behind the safety properties of Mobility, for   *)
(* TLC (MCMobility) and for the proofs (MobilityProofs).                   *)
(***************************************************************************)
EXTENDS Mobility

Updating == {"invalidate", "write"}
Putting  == {"read", "save", "purge"}

\* No request names the SMS column: the update of the MME rewrites it.
ColumnLists == Seq(Columns \ {"sms"})

\* What the program counter says about the local variables of a handler.
LocalOK(h) ==
    /\ pc[h] \in {"fill", "decide", "save", "purge"} => copy[h] \in Rows
    /\ pc[h] \in Putting => req[h].kind = "put"
    /\ pc[h] \in {"load", "fill", "decide"} => req[h].kind \in {"ulr", "sgsn", "lu", "pur", "clr"}
    /\ pc[h] \in Updating \cup {"publish"} /\ Attaches(req[h].kind) => copy[h] \in Rows
    /\ req[h].kind = "ulr" => req[h].node \in Nodes /\ left[h] = <<"mme">>
    /\ left[h] \in ColumnLists
    /\ pc[h] \in Updating => left[h] # <<>>
    /\ req[h].kind \in {"ulr", "sgsn", "lu", "pur"} => left[h] # <<>>
    /\ req[h].id <= requests
LocalInv == \A h \in Handlers : LocalOK(h)

\* In the row, and wherever it has been copied to, the SMS registration is that of
\* the MME, or gone.
Together(sub) == sub.serving["sms"] \in {Nobody, sub.serving["mme"]}
SmsInv ==
    /\ Together(row)
    /\ cache # None => Together(cache)
    /\ \A h \in Handlers : copy[h] # None => Together(copy[h])

\* A ULR on its way to the row has picked the MME it found for a CLR.
NoticeOK(h) == pc[h] \in Updating /\ ClrDue(h) => NoticeOf(h) \in noticed
NoticeInv   == \A h \in Handlers : NoticeOK(h)

\* While no write has fallen into another request: a row about to be cached or
\* merged is the committed one, a ULR knows the serving MME, and the cache is
\* empty when a row is written, current, or about to be emptied by a PUT.
CopyOK(h) ==
    /\ pc[h] \in {"fill", "save"} => copy[h] = row
    /\ pc[h] = "decide" \/ (pc[h] \in Updating /\ req[h].kind = "ulr") =>
          copy[h].serving["mme"] = row.serving["mme"]
    /\ pc[h] = "write" => cache = None
    /\ pc[h] = "purge" => row.enabled = req[h].on
CopyInv  == \A h \in Handlers : CopyOK(h)
CacheInv ==
    /\ cache \in {None, row} \/ \E h \in Handlers : pc[h] = "purge"
    /\ cache # None => cache.serving["mme"] = row.serving["mme"]

\* Likewise: the requests that may still register a node were received before the
\* subscriber was disabled.
Entitled(h) ==
    /\ Attaches(req[h].kind)
    /\ \/ pc[h] \in Updating \cup {"publish"}
       \/ pc[h] = "decide" /\ copy[h].enabled
BarredInv ==
    /\ row.enabled => barred = None
    /\ barred # None =>
          /\ cache # None => ~cache.enabled
          /\ \A h \in Handlers : Entitled(h) => req[h].id <= barred

AloneInv == CopyInv /\ CacheInv /\ BarredInv

IInv ==
    /\ TypeOK
    /\ LocalInv
    /\ SmsInv
    /\ NoticeInv
    /\ ~overlap => AloneInv
=============================================================================
