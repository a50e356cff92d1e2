--------------------------------- MODULE SmPolicy --------------------------------
(***************************************************************************)
(* SM policy associations of the PCF (internal/pcf/smpolicy.go).           *)
(*                                                                         *)
(* SMFs create, read, update and delete associations.  They are kept in a  *)
(* map under a read-write lock.  An update reads the association, resolves *)
(* the policy anew without the lock, stores it back and notifies the SMF;  *)
(* a deletion removes the association and notifies the SMF before it gives *)
(* up the lock.  A notification is an HTTP request with a limit of 10 s;   *)
(* the SMF may call the PCF back before it answers.                        *)
(*                                                                         *)
(* Abstracted: the context of an association is the set of the updates     *)
(* merged into it, and its decision is a function of the context, so that  *)
(* the context stands for both.  Every context has a notification URI.  AM *)
(* policies are a map of their own with one statement per request.         *)
(***************************************************************************)
EXTENDS Naturals, FiniteSets

CONSTANTS
    Handlers,    \* request goroutines
    Nobody,      \* not a handler
    MaxRequests, \* bound: requests in a behaviour
    MaxFaults    \* bound: notifications that cannot be sent or are not answered in time

ASSUME HandlersAssumption == Nobody \notin Handlers
ASSUME BoundsAssumption   == MaxRequests \in Nat \ {0} /\ MaxFaults \in Nat

VARIABLES
    assocSeq,     \* the counter association ids are taken from
    associations, \* the map: per id the updates in its context, or Absent
    holder,       \* the deletion that holds the write lock, or Nobody
    pc, req,      \* per handler where it stands and what it works on
    posts,        \* notifications the SMF has not processed
    heard,        \* per id what the SMF was told last
    endings,      \* history: per id the deletions that found it
    crossed,      \* history: ids with an update overlapping an update or deletion
    requests, faults

vars == <<assocSeq, associations, holder, pc, req, posts, heard, endings, crossed,
          requests, faults>>

Ids      == 1 .. MaxRequests
Contexts == SUBSET Ids
Absent   == {0}                 \* two marks that are not contexts: no request is 0
Over     == {0} \cup Ids
\* The shape of requests and notifications.
Request  == [type : {"none", "create", "get", "update", "delete"}, n : 0 .. MaxRequests,
             id : 0 .. MaxRequests, context : Contexts, for : 0 .. MaxRequests]
Post     == [n : Ids, id : Ids, decision : Contexts \cup {Over}, called : BOOLEAN]
Idle     == [type |-> "none", n |-> 0, id |-> 0, context |-> {}, for |-> 0]

Init ==
    /\ assocSeq = 0 /\ associations = [i \in Ids |-> Absent]
    /\ holder = Nobody
    /\ pc = [h \in Handlers |-> "idle"] /\ req = [h \in Handlers |-> Idle]
    /\ posts = {} /\ heard = [i \in Ids |-> Absent]
    /\ endings = [i \in Ids |-> {}] /\ crossed = {}
    /\ requests = 0 /\ faults = 0

-----------------------------------------------------------------------------
There(i)  == associations[i] # Absent
Changes(h, i) == req[h].type \in {"update", "delete"} /\ req[h].id = i
Unheard(i)    == \E p \in posts : p.id = i
Assign(i, c)  == associations' = [associations EXCEPT ![i] = c]
Free          == holder = Nobody

Goto(h, step, r) ==
    /\ pc'  = [pc EXCEPT ![h] = step]
    /\ req' = [req EXCEPT ![h] = IF step = "idle" THEN Idle ELSE r]
Continue(h, step) == Goto(h, step, req[h])

\* A request arrives; those for an association name one the SMF was told of.
Receive(h, type, i, step, for) ==
    /\ pc[h] = "idle" /\ requests < MaxRequests
    /\ requests' = requests + 1
    /\ Goto(h, step, [type |-> type, n |-> requests', id |-> i, context |-> {}, for |-> for])
    /\ crossed' =
          IF \/ type = "update" /\ (Unheard(i) \/ \E g \in Handlers : Changes(g, i))
             \/ type = "delete" /\ \/ \E g \in Handlers : Changes(g, i) /\ req[g].type = "update"
                                   \/ \E p \in posts : p.id = i /\ p.decision # Over
          THEN crossed \cup {i} ELSE crossed

-----------------------------------------------------------------------------
(***************************************************************************)
(* The requests of the SMF.                                                *)
(***************************************************************************)
\* The policy is resolved, then an id is taken, then the decision made from the
\* context; if the policy is not found nothing changes.
buildAssociation(context) == [id |-> assocSeq + 1, context |-> context]

Create(h) ==
    LET new == buildAssociation({}) IN
    /\ Receive(h, "create", new.id, "store", 0)
    /\ assocSeq' = new.id
    /\ UNCHANGED <<associations, holder, posts, heard, endings, faults>>

StoreNew(h) ==
    /\ pc[h] = "store" /\ Free
    /\ Assign(req[h].id, {})
    /\ heard' = [heard EXCEPT ![req[h].id] = {}]     \* 201 with the decision
    /\ Continue(h, "idle")
    /\ UNCHANGED <<assocSeq, holder, posts, endings, crossed, requests, faults>>

Get(h, i) ==
    /\ heard[i] # Absent
    /\ Receive(h, "get", i, "read", 0)
    /\ UNCHANGED <<assocSeq, associations, holder, posts, heard, endings, faults>>

Update(h, i) ==
    /\ heard[i] # Absent
    /\ Receive(h, "update", i, "read", 0)
    /\ UNCHANGED <<assocSeq, associations, holder, posts, heard, endings, faults>>

\* The association under the read lock; the rest of an update works on this copy.
\* Resolving the policy takes an id that is not used, or fails.
Merged(h) == associations[req[h].id] \cup {req[h].n}
Read(h) ==
    /\ pc[h] = "read" /\ Free
    /\ IF req[h].type = "update" /\ There(req[h].id)
       THEN \/ LET refreshed == buildAssociation(Merged(h)) IN
               /\ Goto(h, "write", [req[h] EXCEPT !.context = refreshed.context])
               /\ assocSeq' = refreshed.id
            \/ Continue(h, "idle") /\ UNCHANGED assocSeq
       ELSE Continue(h, "idle") /\ UNCHANGED assocSeq     \* answered, or 404
    /\ UNCHANGED <<associations, holder, posts, heard, endings, crossed, requests, faults>>

\* Mutant of Write: the association goes under the id it was built with.
WriteBuiltId(h) ==
    /\ pc[h] = "write" /\ Free
    /\ Assign(assocSeq, req[h].context)
    /\ Continue(h, "notify")
    /\ UNCHANGED <<assocSeq, holder, posts, heard, endings, crossed, requests, faults>>

Write(h) ==
    /\ pc[h] = "write" /\ Free
    /\ Assign(req[h].id, req[h].context)
    /\ Continue(h, "notify")
    /\ UNCHANGED <<assocSeq, holder, posts, heard, endings, crossed, requests, faults>>

Delete(h, i) ==
    /\ heard[i] # Absent
    /\ Receive(h, "delete", i, "lock", 0)
    /\ UNCHANGED <<assocSeq, associations, holder, posts, heard, endings, faults>>

\* Mutant of Lock: terminates whatever it finds.
LockUnchecked(h) ==
    /\ pc[h] = "lock" /\ Free
    /\ holder' = h
    /\ Assign(req[h].id, Absent)
    /\ endings' = [endings EXCEPT ![req[h].id] = endings[req[h].id] \cup {req[h].n}]
    /\ Continue(h, "notify")
    /\ UNCHANGED <<assocSeq, posts, heard, crossed, requests, faults>>

Lock(h) ==
    /\ pc[h] = "lock" /\ Free
    /\ IF There(req[h].id)
       THEN /\ holder' = h
            /\ Assign(req[h].id, Absent)
            /\ endings' = [endings EXCEPT ![req[h].id] = endings[req[h].id] \cup {req[h].n}]
            /\ Continue(h, "notify")
       ELSE /\ Continue(h, "idle")                        \* 404
            /\ UNCHANGED <<holder, associations, endings>>
    /\ UNCHANGED <<assocSeq, posts, heard, crossed, requests, faults>>

-----------------------------------------------------------------------------
(***************************************************************************)
(* Notifications.                                                          *)
(***************************************************************************)
Notice(h) == [n |-> req[h].n, id |-> req[h].id, called |-> FALSE,
              decision |-> IF req[h].type = "delete" THEN Over ELSE req[h].context]

\* The answer says what the notification says; a deletion gives up the lock.
Finish(h) ==
    /\ Continue(h, "idle")
    /\ heard'  = [heard EXCEPT ![req[h].id] = Notice(h).decision]
    /\ holder' = IF holder = h THEN Nobody ELSE holder

Notify(h) ==
    /\ pc[h] = "notify"
    /\ \/ /\ posts' = posts \cup {Notice(h)}
          /\ Continue(h, "await")
          /\ UNCHANGED <<holder, heard, faults>>
       \/ /\ faults < MaxFaults /\ faults' = faults + 1
          /\ Finish(h)
          /\ UNCHANGED posts
    /\ UNCHANGED <<assocSeq, associations, endings, crossed, requests>>

\* The SMF answers; its answer may come after the handler has given up.
Answer(p) ==
    /\ \A g \in Handlers : req[g].for # p.n
    /\ posts' = posts \ {p}
    /\ IF \E h \in Handlers : req[h].n = p.n /\ pc[h] = "await"
       THEN \E h \in Handlers : req[h].n = p.n /\ Finish(h)
       ELSE /\ heard' = [heard EXCEPT ![p.id] = p.decision]
            /\ UNCHANGED <<pc, req, holder>>
    /\ UNCHANGED <<assocSeq, associations, endings, crossed, requests, faults>>

\* Before it answers the SMF reads, or deletes, the association it is told of.
CallBack(h, p, type) ==
    /\ ~p.called
    /\ Receive(h, type, p.id, IF type = "get" THEN "read" ELSE "lock", p.n)
    /\ posts' = (posts \ {p}) \cup {[p EXCEPT !.called = TRUE]}
    /\ UNCHANGED <<assocSeq, associations, holder, heard, endings, faults>>

\* Mutant of Timeout: an HTTP client without a limit.
TimeoutNever(h) == FALSE /\ UNCHANGED vars

\* The HTTP client gives up after 10 s; the error is ignored.
Timeout(h) ==
    /\ pc[h] = "await"
    /\ Finish(h)
    /\ UNCHANGED <<assocSeq, associations, posts, endings, crossed, requests, faults>>

Step(h) == StoreNew(h) \/ Read(h) \/ Write(h) \/ Lock(h) \/ Notify(h)
Next ==
    \/ \E h \in Handlers :
          \/ Create(h) \/ Step(h) \/ Timeout(h)
          \/ \E i \in Ids : Get(h, i) \/ Update(h, i) \/ Delete(h, i)
          \/ \E p \in posts, type \in {"get", "delete"} : CallBack(h, p, type)
    \/ \E p \in posts : Answer(p)

\* Goroutines that can run do run, and the client's limit is kept.  The lock of a
\* Go program is handed on in turn: who waits for it gets it.  SMFs may do nothing.
Fairness == \A h \in Handlers : SF_vars(Step(h)) /\ WF_vars(Timeout(h))
Spec     == Init /\ [][Next]_vars
FairSpec == Spec /\ Fairness

-----------------------------------------------------------------------------
(***************************************************************************)
(* Properties.                                                             *)
(***************************************************************************)
Settled(i) == ~Unheard(i) /\ \A h \in Handlers : req[h].type \in {"none", "get"} \/ req[h].id # i

(***************************************************************************)
(* What the SMF was told of an association is what the PCF has: every      *)
(* update that was answered, or its end, however late its notifications.   *)
(* It holds for an association whose updates do not overlap other changes  *)
(* of it - creations, reads, double deletions and callbacks may            *)
(* (pcf/smpolicy.go:174-219).  With overlap an update brings a deleted     *)
(* association back.                                                       *)
(***************************************************************************)
SmfAgrees ==
    \A i \in Ids : Settled(i) /\ i \notin crossed =>
        \/ heard[i] = associations[i]
        \/ heard[i] = Over /\ ~There(i)

(***************************************************************************)
(* An association is terminated by one deletion, however many run at once: *)
(* the check and the removal are under one lock (pcf/smpolicy.go:206-213). *)
(***************************************************************************)
TerminatedOnce ==
    \A i \in Ids : i \notin crossed => Cardinality(endings[i]) <= 1

(***************************************************************************)
(* Every request is answered, although a deletion holds the lock while it  *)
(* waits for an SMF that may itself wait for the PCF                       *)
(* (pcf/smpolicy.go:206-218, sbi/client.go:98, 107).                       *)
(***************************************************************************)
EveryoneServed ==
    \A h \in Handlers : pc[h] # "idle" ~> pc[h] = "idle"
==================================================================================
