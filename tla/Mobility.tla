-------------------------------- MODULE Mobility --------------------------------
(***************************************************************************)
(* Where one subscriber is served: the serving-node columns of its row and *)
(* the handlers that read and write them concurrently on one HSS node -    *)
(*   ulr     S6a ULR over E-UTRAN           sgsn   S6a ULR, UTRAN or GERAN *)
(*   pur     S6a PUR                        lu     GSUP UpdateLocation     *)
(*   purge   GSUP PurgeMS                   amf    UDM registration of AMF *)
(*   amfdel  its removal                    event  a replicated location   *)
(*   put     PUT /subscriber/{id}           clr    PUT /subscriber/clr     *)
(* - with the subscriber cache, the CLR goroutines of ULR, failing calls   *)
(* and the loss of the process.                                            *)
(*                                                                         *)
(* Abstracted: realms, peers, timestamps and last-seen cells, which travel *)
(* with the name of the node; subscription data; the roaming check.        *)
(***************************************************************************)
EXTENDS Naturals, Sequences

CONSTANTS
    Handlers,    \* request goroutines
    Kinds,       \* the kinds of request that arrive, a subset of AllKinds
    Nodes,       \* serving nodes
    None,        \* no cached entry, nothing loaded
    MaxRequests  \* bound: requests received in a behaviour

AllKinds == {"ulr", "sgsn", "pur", "lu", "purge", "amf", "amfdel", "event", "put", "clr"}
Nobody   == "nobody"  \* a NULL column

ASSUME KindsAssumption    == Kinds \subseteq AllKinds
ASSUME RequestsAssumption == MaxRequests \in Nat

\* "sms" is the MME whose number is registered for mobile-terminated SMS.
Columns == {"mme", "sms", "sgsn", "vlr", "msc", "amf"}
Rows    == [serving : [Columns -> Nodes \cup {Nobody}], enabled : BOOLEAN]

ASSUME NodesAssumption == Nobody \notin Nodes /\ None \notin Rows /\ None \notin Nat

VARIABLES
    row,       \* the committed row
    cache,     \* the subCache entry of the IMSI, or None
    pc,        \* where each handler stands
    req,       \* the request it serves
    copy,      \* the row it has loaded
    left,      \* the columns it still has to update
    outbox,    \* CLRs whose goroutine has not run yet
    published, \* per column the node last handed to the GeoRed publisher
    requests,  \* requests received so far
    noticed,   \* history: the MMEs a ULR found in need of a CLR
    overlap,   \* history: a write fell into another request (see OthersReading)
    barred     \* history: the last request before the subscriber was disabled

locals == <<pc, req, copy, left>>
rest   == <<outbox, published, requests, noticed, overlap, barred>>
vars   == <<row, cache, pc, req, copy, left, outbox, published,
            requests, noticed, overlap, barred>>

PCs == {"idle", "load", "fill", "decide", "invalidate", "write", "publish",
        "read", "save", "purge"}

\* on: the ULR registers for SMS; the PUT leaves the subscriber enabled.
Request   == [id : Nat, kind : AllKinds, node : Nodes \cup {Nobody}, on : BOOLEAN]
NoRequest == [id |-> 0, kind |-> "clr", node |-> Nobody, on |-> FALSE]
Notice    == [id : Nat, to : Nodes]

TypeOK ==
    /\ row \in Rows
    /\ cache \in Rows \cup {None}
    /\ pc \in [Handlers -> PCs]
    /\ req \in [Handlers -> Request]
    /\ copy \in [Handlers -> Rows \cup {None}]
    /\ left \in [Handlers -> Seq(Columns)]
    /\ outbox \subseteq Notice
    /\ published \in [Columns -> Nodes \cup {Nobody}]
    /\ requests \in Nat
    /\ noticed \subseteq Notice
    /\ overlap \in BOOLEAN
    /\ barred \in Nat \cup {None}

Init ==
    /\ row = [serving |-> [c \in Columns |-> Nobody], enabled |-> TRUE]
    /\ cache = None
    /\ pc   = [h \in Handlers |-> "idle"]
    /\ req  = [h \in Handlers |-> NoRequest]
    /\ copy = [h \in Handlers |-> None]
    /\ left = [h \in Handlers |-> <<>>]
    /\ outbox = {}
    /\ published = [c \in Columns |-> Nobody]
    /\ requests = 0
    /\ noticed = {}
    /\ overlap = FALSE
    /\ barred = None

-----------------------------------------------------------------------------
Goto(h, label) == pc' = [pc EXCEPT ![h] = label]

Finish(h) ==
    /\ Goto(h, "idle")
    /\ req'  = [req EXCEPT ![h] = NoRequest]
    /\ copy' = [copy EXCEPT ![h] = None]
    /\ left' = [left EXCEPT ![h] = <<>>]

\* A write falls into another request when that request has read the subscriber
\* already, or fills the cache after the writer has emptied it.
OthersReading(h) == \E g \in Handlers \ {h} : copy[g] # None
OthersWriting(h) == \E g \in Handlers \ {h} : pc[g] = "write"

-----------------------------------------------------------------------------
(***************************************************************************)
(* Requests, and the row they load through the cache.                      *)
(***************************************************************************)
Attaches(kind) == kind \in {"ulr", "sgsn", "lu"}

\* What a request does first: the replicated and the GSUP purge, like the UDM,
\* update the row without looking at it, a PUT reads it past the cache.
Entry(kind) ==
    CASE kind \in {"purge", "amf", "amfdel", "event"} -> "invalidate"
      [] kind = "put"                                 -> "read"
      [] OTHER                                        -> "load"

\* The columns a request updates, one UPDATE after the other.
Updates(kind) ==
    CASE kind \in {"ulr", "pur"}    -> {<<"mme">>}
      [] kind = "sgsn"              -> {<<"sgsn">>}
      [] kind \in {"lu", "purge"}   -> {<<"vlr", "msc">>}
      [] kind \in {"amf", "amfdel"} -> {<<"amf">>}
      [] kind = "event"             -> {<<"mme">>, <<"sgsn">>, <<"vlr">>, <<"msc">>}
      [] OTHER                      -> {<<>>}
Senders(kind) == IF kind \in {"ulr", "sgsn", "lu", "amf", "event"} THEN Nodes ELSE {Nobody}
Flags(kind)   == IF kind \in {"ulr", "put"} THEN BOOLEAN ELSE {FALSE}

Receive(h) ==
    /\ pc[h] = "idle"
    /\ requests < MaxRequests
    /\ requests' = requests + 1
    /\ \E kind \in Kinds :
          /\ \E node \in Senders(kind), on \in Flags(kind) :
                req' = [req EXCEPT ![h] =
                           [id |-> requests', kind |-> kind, node |-> node, on |-> on]]
          /\ \E columns \in Updates(kind) : left' = [left EXCEPT ![h] = columns]
          /\ Goto(h, Entry(kind))
    /\ UNCHANGED <<row, cache, copy, outbox, published, noticed, overlap, barred>>

\* GetSubscriberByIMSI with a live cache entry, and without one.
LoadCached(h) ==
    /\ pc[h] = "load"
    /\ cache # None
    /\ copy' = [copy EXCEPT ![h] = cache]
    /\ Goto(h, "decide")
    /\ UNCHANGED <<row, cache, req, left, rest>>

LoadRow(h) ==
    /\ pc[h] = "load"
    /\ cache = None
    /\ copy' = [copy EXCEPT ![h] = row]
    /\ Goto(h, "fill")
    /\ UNCHANGED <<row, cache, req, left, rest>>

FillCache(h) ==
    /\ pc[h] = "fill"
    /\ cache' = copy[h]
    /\ overlap' = (overlap \/ OthersWriting(h))
    /\ Goto(h, "decide")
    /\ UNCHANGED <<row, req, copy, left, outbox, published, requests, noticed, barred>>

\* The 60 s lifetime of the entry ends.
CacheExpire ==
    /\ cache # None
    /\ cache' = None
    /\ UNCHANGED <<row, locals, rest>>

-----------------------------------------------------------------------------
(***************************************************************************)
(* ULR, PUR and GSUP UpdateLocation, once the subscriber is loaded.        *)
(***************************************************************************)
Refuse(h) ==
    /\ pc[h] = "decide"
    /\ Attaches(req[h].kind) /\ ~copy[h].enabled
    /\ Finish(h)
    /\ UNCHANGED <<row, cache, rest>>

\* Mutant: the wrong column is taken for the old MME.
OldMmeFromSgsn(h) == copy[h].serving["sgsn"]

\* The MME a ULR takes the subscriber over from, as far as its copy tells.
OldMme(h) == copy[h].serving["mme"]

ClrDue(h)   == req[h].kind = "ulr" /\ OldMme(h) \notin {Nobody, req[h].node}
NoticeOf(h) == [id |-> req[h].id, to |-> OldMme(h)]

\* The CLR is left to a goroutine, or skipped when the old MME is not connected.
Admit(h) ==
    /\ pc[h] = "decide"
    /\ req[h].kind = "pur" \/ (Attaches(req[h].kind) /\ copy[h].enabled)
    /\ \/ /\ ClrDue(h)
          /\ noticed' = noticed \cup {NoticeOf(h)}
          /\ outbox' \in {outbox, outbox \cup {NoticeOf(h)}}
       \/ /\ ~ClrDue(h)
          /\ UNCHANGED <<noticed, outbox>>
    /\ Goto(h, "invalidate")
    /\ UNCHANGED <<row, cache, req, copy, left, published, requests, overlap, barred>>

\* SendCLR: written to the old MME, or lost when the write fails.
SendClr(n) ==
    /\ n \in outbox
    /\ outbox' = outbox \ {n}
    /\ UNCHANGED <<row, cache, locals, published, requests, noticed, overlap, barred>>

\* SendCLRByIMSI, for the operator or after a PUT that disables: it ends here,
\* with a CLR to OldMme(h) or with an error.
Cancel(h) ==
    /\ pc[h] = "decide"
    /\ req[h].kind = "clr"
    /\ Finish(h)
    /\ UNCHANGED <<row, cache, rest>>

-----------------------------------------------------------------------------
(***************************************************************************)
(* UpdateServingMME, SGSN, VLR, MSC and AMF: the cache is invalidated      *)
(* first, then the columns are written.                                    *)
(***************************************************************************)
\* Mutant: the cache keeps the entry.
InvalidateNothing(h) ==
    /\ pc[h] = "invalidate"
    /\ Goto(h, "write")
    /\ UNCHANGED <<row, cache, req, copy, left, rest>>

Invalidate(h) ==
    /\ pc[h] = "invalidate"
    /\ cache' = None
    /\ Goto(h, "write")
    /\ UNCHANGED <<row, req, copy, left, rest>>

\* Mutant: the SMS registration is left alone unless the ULR asks for one.
WrittenKeepsSms(h) ==
    [c \in Columns |->
        IF c = Head(left[h]) THEN req[h].node
        ELSE IF c = "sms" /\ req[h].kind = "ulr" /\ req[h].on THEN req[h].node
        ELSE row.serving[c]]

\* Every update of the MME rewrites the SMS registration with it.
Written(h) ==
    [c \in Columns |->
        IF c = Head(left[h]) THEN req[h].node
        ELSE IF c = "sms" /\ Head(left[h]) = "mme"
             THEN IF req[h].kind = "ulr" /\ req[h].on THEN req[h].node ELSE Nobody
        ELSE row.serving[c]]

Published(kind) == kind \in {"ulr", "sgsn", "lu"}

AfterWrite(h) ==
    IF Len(left[h]) > 1 THEN Goto(h, "invalidate") /\ left' = [left EXCEPT ![h] = Tail(left[h])]
                             /\ UNCHANGED <<req, copy>>
    ELSE IF Published(req[h].kind) THEN Goto(h, "publish") /\ UNCHANGED <<req, copy, left>>
    ELSE Finish(h)

Write(h) ==
    /\ pc[h] = "write"
    /\ row' = [serving |-> Written(h), enabled |-> row.enabled]
    /\ overlap' = (overlap \/ OthersReading(h))
    /\ AfterWrite(h)
    /\ UNCHANGED <<cache, outbox, published, requests, noticed, barred>>

\* Only the ULR over E-UTRAN looks at the error; the others go on.
WriteFails(h) ==
    /\ pc[h] = "write"
    /\ IF req[h].kind = "ulr" THEN Finish(h) ELSE AfterWrite(h)
    /\ UNCHANGED <<row, cache, rest>>

Publish(h) ==
    /\ pc[h] = "publish"
    /\ \E columns \in Updates(req[h].kind) :
          published' = [c \in Columns |->
              IF \E i \in DOMAIN columns : columns[i] = c THEN req[h].node ELSE published[c]]
    /\ Finish(h)
    /\ UNCHANGED <<row, cache, outbox, requests, noticed, overlap, barred>>

-----------------------------------------------------------------------------
(***************************************************************************)
(* PUT /subscriber/{id}: the row is read, the serving nodes of the body    *)
(* are overwritten with the ones read, the body is saved as the whole row  *)
(* and the cache is invalidated.  The body is the one the repository's web *)
(* client sends (web/src/pages/Subscribers.jsx:301-315), without a serving *)
(* node in it.                                                             *)
(***************************************************************************)
ApiRead(h) ==
    /\ pc[h] = "read"
    /\ copy' = [copy EXCEPT ![h] = row]
    /\ Goto(h, "save")
    /\ UNCHANGED <<row, cache, req, left, rest>>

\* The columns of the SMS registration are not among those taken over.
Kept == Columns \ {"sms"}
ApiSave(h) ==
    /\ pc[h] = "save"
    /\ row' = [serving |-> [c \in Columns |-> IF c \in Kept THEN copy[h].serving[c] ELSE Nobody],
               enabled |-> req[h].on]
    /\ overlap' = (overlap \/ OthersReading(h))
    /\ barred' = IF req[h].on THEN None ELSE barred
    /\ Goto(h, "purge")
    /\ UNCHANGED <<cache, req, copy, left, outbox, published, requests, noticed>>

\* Mutant: a PUT leaves the cache alone.
ApiPurgeNothing(h) ==
    /\ pc[h] = "purge"
    /\ barred' = IF req[h].on THEN barred ELSE requests
    /\ Finish(h)
    /\ UNCHANGED <<row, cache, outbox, published, requests, noticed, overlap>>

\* A PUT that disables the subscriber goes on as a goroutine that sends a CLR.
ApiPurge(h) ==
    /\ pc[h] = "purge"
    /\ cache' = None
    /\ barred' = IF req[h].on THEN barred ELSE requests
    /\ \/ /\ copy[h].enabled /\ ~req[h].on
          /\ req' = [req EXCEPT ![h] =
                        [id |-> req[h].id, kind |-> "clr", node |-> Nobody, on |-> FALSE]]
          /\ copy' = [copy EXCEPT ![h] = None]
          /\ Goto(h, "load")
          /\ UNCHANGED left
       \/ /\ ~copy[h].enabled \/ req[h].on
          /\ Finish(h)
    /\ UNCHANGED <<row, outbox, published, requests, noticed, overlap>>

-----------------------------------------------------------------------------
\* Loading or saving fails and the request is answered with an error.
Fail(h) ==
    /\ pc[h] \in {"load", "decide", "read", "save"}
    /\ Finish(h)
    /\ UNCHANGED <<row, cache, rest>>

\* The process is restarted: what it held in memory is gone.
Restart ==
    /\ \E h \in Handlers : pc[h] # "idle"
    /\ cache' = None
    /\ pc'   = [h \in Handlers |-> "idle"]
    /\ req'  = [h \in Handlers |-> NoRequest]
    /\ copy' = [h \in Handlers |-> None]
    /\ left' = [h \in Handlers |-> <<>>]
    /\ outbox' = {}
    /\ UNCHANGED <<row, published, requests, noticed, overlap, barred>>

Next ==
    \/ \E h \in Handlers :
          \/ Receive(h)
          \/ LoadCached(h) \/ LoadRow(h) \/ FillCache(h)
          \/ Refuse(h) \/ Admit(h) \/ Cancel(h)
          \/ Invalidate(h) \/ Write(h) \/ WriteFails(h) \/ Publish(h)
          \/ ApiRead(h) \/ ApiSave(h) \/ ApiPurge(h)
          \/ Fail(h)
    \/ \E n \in outbox : SendClr(n)
    \/ CacheExpire
    \/ Restart

Spec == Init /\ [][Next]_vars

-----------------------------------------------------------------------------
(***************************************************************************)
(* Properties.                                                             *)
(***************************************************************************)
(***************************************************************************)
(* The serving node given out to an SMS-SC, by the answer to an SRI-SM and *)
(* by an ALR: the MME with the number it registered for SMS, or none.  The *)
(* subscriber comes from the cache when asked for by IMSI.                 *)
(***************************************************************************)
SRISR(sub) == {<<sub.serving["mme"], sub.serving["sms"]>>} \cap (Nodes \X Nodes)

\* A short message is never routed to one MME under the number of another, be the
\* subscriber read from the cache, however stale, or from the row
\* (sri_sm.go:60-83, alsc.go:262-289).
SmsFollowsMme ==
    \A sub \in {row, cache} \ {None} : \A node \in SRISR(sub) : node[1] = node[2]

\* As long as no write falls into another request, the cache agrees with the row;
\* a PUT has a window between its save and its invalidation.
CacheCoherent ==
    ~overlap => cache \in {None, row} \/ \E h \in Handlers : pc[h] = "purge"

\* Likewise, nobody who asks after the PUT that disabled the subscriber was
\* answered gets as far as registering a serving node (docs/api.md:1084).
DisabledStaysOut ==
    ~overlap /\ ~row.enabled /\ barred # None =>
        \A h \in Handlers :
            Attaches(req[h].kind) /\ pc[h] \in {"invalidate", "write", "publish"} =>
                req[h].id <= barred

\* A ULR is about to replace another MME.
TakesOver(h) ==
    /\ req[h].kind = "ulr"
    /\ row.serving["mme"] \notin {Nobody, req[h].node}
    /\ Write(h)
NoticeDue(h) == [id |-> req[h].id, to |-> row.serving["mme"]]

\* As long as no write falls into another request, an MME that a ULR replaces has
\* been picked for a CLR (README.md:39).
CancelsOldMmeAlone ==
    [][\A h \in Handlers : TakesOver(h) /\ ~overlap' => NoticeDue(h) \in noticed]_vars
=============================================================================
