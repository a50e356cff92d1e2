------------------------------ MODULE AuthVectors ------------------------------
(***************************************************************************)
(* Authentication-vector generation on one HSS node, for one AUC row.      *)
(*                                                                         *)
(* Covered: every writer of the column auc.sqn, as concurrent handlers -   *)
(*   air     S6a AIR                                (diameter/s6a/air.go)  *)
(*   aka     SWx, Cx and Zh MAR, Nudm_UEAuthentication  (one vector each)  *)
(*   gsup    GSUP SendAuthInfo            (gsup/handlers.go, a vector loop)*)
(*   geored  a replicated SQN, by event or snapshot     (geored/*.go)      *)
(*   api     PUT /subscriber/auc/{id}                   (api/auc.go)       *)
(* - together with the AUC read cache, the row lock of SELECT FOR UPDATE,  *)
(* failing database and crypto calls, and the loss of the process.         *)
(*                                                                         *)
(* Abstracted: key material (no step depends on it), answer encoding, and  *)
(* every subscriber check that ends a request before the SQN is involved.  *)
(***************************************************************************)
EXTENDS Integers

CONSTANTS
    Handlers,     \* request goroutines
    Kinds,        \* the kinds of request that arrive, a subset of AllKinds
    MaxVectors,   \* most vectors one AIR may ask for (the code: 5)
    MaxTuples,    \* most tuples one SendAuthInfo may ask for (the code: 5)
    Reports,      \* values of SQN_MS an AUTS may carry
    PeerSqns,     \* SQN values peers replicate to this node
    MaxRequests,  \* bound: requests received in a behaviour
    PostImage     \* does AtomicGetAndIncrementSQN return the row after (TRUE) or
                  \* before (FALSE) the increment?  See ReturnedSqn.

AllKinds == {"air", "aka", "gsup", "geored", "api"}

ASSUME KindsAssumption     == Kinds \subseteq AllKinds
ASSUME VectorsAssumption   == MaxVectors \in Nat \ {0} /\ MaxTuples \in Nat \ {0}
ASSUME ReportsAssumption   == Reports \subseteq Nat /\ PeerSqns \subseteq Nat
ASSUME RequestsAssumption  == MaxRequests \in Nat
ASSUME PostImageAssumption == PostImage \in BOOLEAN

Step   == 32     \* SQN increment per vector
Margin == 100    \* added to SQN_MS by an AIR resynchronisation
None   == -1     \* no cached entry, no resynchronisation, nothing loaded
Nobody == "nobody"

ASSUME HandlersAssumption == Nobody \notin Handlers

VARIABLES
    sqn,       \* auc.sqn, as committed
    rowLock,   \* the handler whose transaction holds the row, or Nobody
    cache,     \* the SQN in the aucCache entry of the IMSI, or None
    pc,        \* where each handler stands
    req,       \* the request it serves
    copy,      \* the SQN of the AUC it loaded
    base,      \* the SQN its last increment returned
    done,      \* how many vectors it has generated
    requests,  \* requests received so far
    issued,    \* history: the vectors generated
    published, \* history: the values handed to PublishSQNUpdate
    lowered    \* history: some write has moved auc.sqn backwards

locals  == <<pc, req, copy, base, done>>
history == <<requests, issued, published, lowered>>
vars    == <<sqn, rowLock, cache, pc, req, copy, base, done,
             requests, issued, published, lowered>>

PCs == {"idle", "load", "fill", "resync", "rewrite", "lock", "locked",
        "purge", "generate", "publish", "compare", "edit", "save"}

\* id numbers the request, n is the number of vectors asked for, resync the SQN
\* to write (SQN_MS or the peer's) as long as it is still to be written.
Request   == [id : Nat, kind : AllKinds, n : Nat \ {0}, resync : Nat \cup {None}]
NoRequest == [id |-> 0, kind |-> "aka", n |-> 1, resync |-> None]

Vector == [id : Nat, item : Nat, sqn : Nat]
Event  == [id : Nat, sqn : Nat]

TypeOK ==
    /\ sqn \in Nat
    /\ rowLock \in Handlers \cup {Nobody}
    /\ cache \in Nat \cup {None}
    /\ pc \in [Handlers -> PCs]
    /\ req \in [Handlers -> Request]
    /\ copy \in [Handlers -> Nat \cup {None}]
    /\ base \in [Handlers -> Nat \cup {None}]
    /\ done \in [Handlers -> Nat]
    /\ requests \in Nat
    /\ issued \subseteq Vector
    /\ published \subseteq Event
    /\ lowered \in BOOLEAN

Init ==
    /\ sqn = 0
    /\ rowLock = Nobody
    /\ cache = None
    /\ pc   = [h \in Handlers |-> "idle"]
    /\ req  = [h \in Handlers |-> NoRequest]
    /\ copy = [h \in Handlers |-> None]
    /\ base = [h \in Handlers |-> None]
    /\ done = [h \in Handlers |-> 0]
    /\ requests = 0
    /\ issued = {}
    /\ published = {}
    /\ lowered = FALSE

-----------------------------------------------------------------------------
(***************************************************************************)
(* Requests and the AUC they load.                                         *)
(***************************************************************************)
Goto(h, label) == pc' = [pc EXCEPT ![h] = label]

\* The handler answers and returns: its locals are gone.
Finish(h) ==
    /\ Goto(h, "idle")
    /\ req'  = [req EXCEPT ![h] = NoRequest]
    /\ copy' = [copy EXCEPT ![h] = None]
    /\ base' = [base EXCEPT ![h] = None]
    /\ done' = [done EXCEPT ![h] = 0]

\* What a handler does first: a replicated value is compared with the row, an
\* operator's edit reads it, an authentication loads the AUC through the cache.
Entry(kind) ==
    CASE kind = "geored" -> "compare"
      [] kind = "api"    -> "edit"
      [] OTHER           -> "load"

\* AIR may resynchronise and ask for several vectors, SendAuthInfo asks for
\* several and never resynchronises, the UDM may resynchronise and asks for one.
Asks(kind) ==
    CASE kind = "air"  -> 1..MaxVectors
      [] kind = "gsup" -> 1..MaxTuples
      [] OTHER         -> {1}
Carries(kind) ==
    CASE kind \in {"air", "aka"} -> Reports \cup {None}
      [] kind = "geored"         -> PeerSqns
      [] OTHER                   -> {None}

Receive(h) ==
    /\ pc[h] = "idle"
    /\ requests < MaxRequests
    /\ requests' = requests + 1
    /\ \E kind \in Kinds : \E n \in Asks(kind), r \in Carries(kind) :
          /\ req' = [req EXCEPT ![h] =
                        [id |-> requests', kind |-> kind, n |-> n, resync |-> r]]
          /\ Goto(h, Entry(kind))
    /\ UNCHANGED <<sqn, rowLock, cache, copy, base, done, issued, published, lowered>>

AfterLoad(h) == IF req[h].resync = None THEN "lock" ELSE "resync"

\* GetAUCByIMSI with a live cache entry.
LoadCached(h) ==
    /\ pc[h] = "load"
    /\ cache # None
    /\ copy' = [copy EXCEPT ![h] = cache]
    /\ Goto(h, AfterLoad(h))
    /\ UNCHANGED <<sqn, rowLock, cache, req, base, done, history>>

\* GetAUCByIMSI without one: the row is read, and only then stored in the cache;
\* a plain read does not wait for the row lock and sees the committed row.
LoadRow(h) ==
    /\ pc[h] = "load"
    /\ cache = None
    /\ copy' = [copy EXCEPT ![h] = sqn]
    /\ Goto(h, "fill")
    /\ UNCHANGED <<sqn, rowLock, cache, req, base, done, history>>

FillCache(h) ==
    /\ pc[h] = "fill"
    /\ cache' = copy[h]
    /\ Goto(h, AfterLoad(h))
    /\ UNCHANGED <<sqn, rowLock, req, copy, base, done, history>>

\* The 60 s lifetime of the entry ends.
CacheExpire ==
    /\ cache # None
    /\ cache' = None
    /\ UNCHANGED <<sqn, rowLock, locals, history>>

-----------------------------------------------------------------------------
(***************************************************************************)
(* ResyncSQN: the cache is invalidated first, then the row is overwritten, *)
(* whatever it holds by then.                                              *)
(***************************************************************************)
ResyncPurge(h) ==
    /\ pc[h] = "resync"
    /\ cache' = None
    /\ Goto(h, "rewrite")
    /\ UNCHANGED <<sqn, rowLock, req, copy, base, done, history>>

ResyncTarget(h) ==
    IF req[h].kind = "air" THEN req[h].resync + Margin ELSE req[h].resync

\* AIR loads the AUC again, through the cache; the UDM reloads it by its key and
\* uses nothing but the key material of it; a replicated value is done.
ResyncWrite(h) ==
    /\ pc[h] = "rewrite"
    /\ rowLock = Nobody
    /\ sqn' = ResyncTarget(h)
    /\ lowered' = (lowered \/ ResyncTarget(h) < sqn)
    /\ \/ /\ req[h].kind \in {"air", "aka"}
          /\ req' = [req EXCEPT ![h].resync = None]
          /\ Goto(h, IF req[h].kind = "air" THEN "load" ELSE "lock")
          /\ UNCHANGED <<copy, base, done>>
       \/ /\ req[h].kind = "geored"
          /\ Finish(h)
    /\ UNCHANGED <<rowLock, cache, requests, issued, published>>

\* A replicated SQN is written only when it is above the row as read here.
GeoRedCompare(h) ==
    /\ pc[h] = "compare"
    /\ \/ /\ req[h].resync > sqn
          /\ Goto(h, "resync")
          /\ UNCHANGED <<req, copy, base, done>>
       \/ /\ req[h].resync <= sqn
          /\ Finish(h)
    /\ UNCHANGED <<sqn, rowLock, cache, history>>

-----------------------------------------------------------------------------
(***************************************************************************)
(* AtomicGetAndIncrementSQN: SELECT FOR UPDATE, UPDATE and COMMIT, and the *)
(* cache invalidated afterwards.                                           *)
(***************************************************************************)
\* AIR claims its whole range at once, the others one vector at a time.
Width(h) == IF req[h].kind = "air" THEN req[h].n ELSE 1

\* Mutants: SELECT without FOR UPDATE; the increment starts from the AUC loaded
\* earlier instead of the row.
LockRowShared(h) ==
    /\ pc[h] = "lock"
    /\ rowLock' = h
    /\ base' = [base EXCEPT ![h] = sqn]
    /\ Goto(h, "locked")
    /\ UNCHANGED <<sqn, cache, req, copy, done, history>>
LockRowFromCopy(h) ==
    /\ pc[h] = "lock"
    /\ rowLock = Nobody
    /\ rowLock' = h
    /\ base' = [base EXCEPT ![h] = copy[h]]
    /\ Goto(h, "locked")
    /\ UNCHANGED <<sqn, cache, req, copy, done, history>>

LockRow(h) ==
    /\ pc[h] = "lock"
    /\ rowLock = Nobody
    /\ rowLock' = h
    /\ base' = [base EXCEPT ![h] = sqn]
    /\ Goto(h, "locked")
    /\ UNCHANGED <<sqn, cache, req, copy, done, history>>

\* The code returns the struct it selected, after tx.Model(&before).Update: GORM
\* assigns the updated column to the model it is given, so that the struct holds
\* the incremented SQN (PostImage); the callers, the variable's name and the test
\* doubles expect the SQN before the increment (~PostImage).
ReturnedSqn(before, delta) == IF PostImage THEN before + delta ELSE before

CommitIncrement(h) ==
    /\ pc[h] = "locked"
    /\ sqn' = base[h] + Width(h) * Step
    /\ rowLock' = Nobody
    /\ base' = [base EXCEPT ![h] = ReturnedSqn(base[h], Width(h) * Step)]
    /\ Goto(h, "purge")
    /\ UNCHANGED <<cache, req, copy, done, history>>

PurgeCache(h) ==
    /\ pc[h] = "purge"
    /\ cache' = None
    /\ Goto(h, "generate")
    /\ UNCHANGED <<sqn, rowLock, req, copy, base, done, history>>

\* Mutant: one vector more than the increment covers.
ClaimedOneMore(h) ==
    {[id |-> req[h].id, item |-> done[h] + i, sqn |-> base[h] + i * Step] :
        i \in 0 .. Width(h)}

\* The vectors of one increment: item i carries the SQN i steps above the base.
Claimed(h) ==
    {[id |-> req[h].id, item |-> done[h] + i, sqn |-> base[h] + i * Step] :
        i \in 0 .. Width(h) - 1}

Publishes(kind) == kind \in {"air", "gsup"}

\* SendAuthInfo goes round again until it has all its tuples; AIR and
\* SendAuthInfo then publish, the others answer and are done.
Generate(h) ==
    /\ pc[h] = "generate"
    /\ issued' = issued \cup Claimed(h)
    /\ \/ /\ done[h] + Width(h) < req[h].n \/ Publishes(req[h].kind)
          /\ Goto(h, IF done[h] + Width(h) < req[h].n THEN "lock" ELSE "publish")
          /\ done' = [done EXCEPT ![h] = done[h] + Width(h)]
          /\ UNCHANGED <<req, copy, base>>
       \/ /\ done[h] + Width(h) >= req[h].n /\ ~Publishes(req[h].kind)
          /\ Finish(h)
    /\ UNCHANGED <<sqn, rowLock, cache, requests, published, lowered>>

\* Mutant: the published SQN counts from the SQN the increment returned.
PublishFromBase(h) ==
    /\ pc[h] = "publish"
    /\ published' = published \cup
          {[id |-> req[h].id, sqn |-> base[h] + req[h].n * Step]}
    /\ Finish(h)
    /\ UNCHANGED <<sqn, rowLock, cache, requests, issued, lowered>>

\* PublishSQNUpdate is given the SQN of the AUC loaded at the start of the
\* request plus the request's own increments.
Publish(h) ==
    /\ pc[h] = "publish"
    /\ published' = published \cup
          {[id |-> req[h].id, sqn |-> copy[h] + req[h].n * Step]}
    /\ Finish(h)
    /\ UNCHANGED <<sqn, rowLock, cache, requests, issued, lowered>>

-----------------------------------------------------------------------------
(***************************************************************************)
(* PUT /subscriber/auc/{id}: the row is read, its provisioned columns are  *)
(* edited in memory and every column is saved, auc.sqn with them.  The     *)
(* cache is not invalidated.                                               *)
(***************************************************************************)
ApiRead(h) ==
    /\ pc[h] = "edit"
    /\ copy' = [copy EXCEPT ![h] = sqn]
    /\ Goto(h, "save")
    /\ UNCHANGED <<sqn, rowLock, cache, req, base, done, history>>

ApiSave(h) ==
    /\ pc[h] = "save"
    /\ rowLock = Nobody
    /\ sqn' = copy[h]
    /\ lowered' = (lowered \/ copy[h] < sqn)
    /\ Finish(h)
    /\ UNCHANGED <<rowLock, cache, requests, issued, published>>

-----------------------------------------------------------------------------
(***************************************************************************)
(* Failures.                                                               *)
(***************************************************************************)
\* Mutant: a failing handler leaves its transaction open.
FailKeepsLock(h) ==
    /\ pc[h] \notin {"idle", "fill", "purge", "publish"}
    /\ Finish(h)
    /\ UNCHANGED <<sqn, rowLock, cache, history>>

\* A database or crypto call fails or the 5 s deadline of the request passes:
\* the handler answers with an error and an open transaction is rolled back.
\* Nothing can fail between the commit and the purge, nor in publishing.
Fail(h) ==
    /\ pc[h] \notin {"idle", "fill", "purge", "publish"}
    /\ rowLock' = IF rowLock = h THEN Nobody ELSE rowLock
    /\ Finish(h)
    /\ UNCHANGED <<sqn, cache, history>>

\* The process is restarted: the cache and the requests are gone, the database
\* rolls back what was not committed.
Restart ==
    /\ \E h \in Handlers : pc[h] # "idle"
    /\ rowLock' = Nobody
    /\ cache' = None
    /\ pc'   = [h \in Handlers |-> "idle"]
    /\ req'  = [h \in Handlers |-> NoRequest]
    /\ copy' = [h \in Handlers |-> None]
    /\ base' = [h \in Handlers |-> None]
    /\ done' = [h \in Handlers |-> 0]
    /\ UNCHANGED <<sqn, history>>

Next ==
    \/ \E h \in Handlers :
          \/ Receive(h)
          \/ LoadCached(h) \/ LoadRow(h) \/ FillCache(h)
          \/ ResyncPurge(h) \/ ResyncWrite(h) \/ GeoRedCompare(h)
          \/ LockRow(h) \/ CommitIncrement(h) \/ PurgeCache(h)
          \/ Generate(h) \/ Publish(h)
          \/ ApiRead(h) \/ ApiSave(h)
          \/ Fail(h)
    \/ CacheExpire
    \/ Restart

Spec == Init /\ [][Next]_vars

-----------------------------------------------------------------------------
(***************************************************************************)
(* Properties.                                                             *)
(***************************************************************************)
\* The first SQN handed out by a node whose row holds x.
NextFrom(x) == IF PostImage THEN x + Step ELSE x

\* No two vectors of the node carry the same SQN, whichever handlers made them,
\* whatever failed and however often the process restarted (README.md:15).
NoSqnReuse == \A v, w \in issued : v.sqn = w.sqn => v = w

\* The same, while no write has moved the row backwards: the row lock and the
\* order "commit, then compute" are what it rests on.
NoReuseUnlessLowered == ~lowered => NoSqnReuse

\* Every vector that left the node is below what its row will hand out next, so
\* that a restart can not repeat it: increments are durable before they are used.
RowAheadOfIssued == ~lowered => \A v \in issued : v.sqn < NextFrom(sqn)

\* The vectors of one answer ascend in the order they are listed, even when the
\* increments of a SendAuthInfo loop interleave with other requests: the serving
\* node uses them in that order and the USIM refuses one that goes back.
TuplesAscend ==
    ~lowered => \A v, w \in issued : v.id = w.id /\ v.item < w.item => v.sqn < w.sqn

\* A published SQN never runs ahead of the row, although it is computed from a
\* copy that may come from the cache and be out of date.
PublishedNotAhead == ~lowered => \A e \in published : e.sqn <= sqn
=============================================================================
