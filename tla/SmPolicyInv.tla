------------------------------- MODULE SmPolicyInv ------------------------------
(***************************************************************************)
(* The inductive invariant behind the safety properties of SmPolicy, for   *)
(* TLC (MCSmPolicy) and for the proofs (SmPolicyProofs).                   *)
(***************************************************************************)
EXTENDS SmPolicy

PCs == {"idle", "store", "read", "write", "lock", "notify", "await"}

TypeOK ==
    /\ requests \in 0 .. MaxRequests /\ assocSeq \in 0 .. MaxRequests
    /\ faults \in Nat
    /\ associations \in [Ids -> Contexts \cup {Absent}]
    /\ heard \in [Ids -> Contexts \cup {Absent, Over}]
    /\ holder \in Handlers \cup {Nobody}
    /\ pc \in [Handlers -> PCs] /\ req \in [Handlers -> Request]
    /\ posts \subseteq Post
    /\ endings \in [Ids -> SUBSET Ids]
    /\ crossed \subseteq Ids

\* Where a request may stand.
Places(type) == CASE type = "none"   -> {"idle"}
                  [] type = "create" -> {"store"}
                  [] type = "get"    -> {"read"}
                  [] type = "update" -> {"read", "write", "notify", "await"}
                  [] type = "delete" -> {"lock", "notify", "await"}

\* Requests are numbered apart, and are about ids that have been taken.
LocalOK(h) ==
    /\ pc[h] \in Places(req[h].type)
    /\ req[h].type # "none" => req[h].n \in 1 .. requests /\ req[h].id \in 1 .. assocSeq
    /\ req[h].type = "none" => req[h].n = 0 /\ req[h].id = 0
LocalInv ==
    /\ \A h \in Handlers : LocalOK(h)
    /\ \A g, h \in Handlers : req[g].type # "none" /\ req[g].n = req[h].n => g = h

\* A notification whose request is still in work is the one that request waits for.
PostOK(p) ==
    /\ p.n <= requests
    /\ \A h \in Handlers : req[h].n = p.n =>
          pc[h] = "await" /\ req[h].id = p.id /\ Notice(h).decision = p.decision
PostInv == \A p \in posts : PostOK(p)

\* An id the SMF was not told of is nobody's but that of one creation.
New(i) ==
    /\ associations[i] = Absent /\ endings[i] = {} /\ ~Unheard(i)
    /\ \A h \in Handlers : req[h].id = i => req[h].type = "create"
IdInv ==
    /\ \A i \in Ids : heard[i] = Absent => New(i)
    /\ \A i \in Ids : i > assocSeq => heard[i] = Absent
    /\ \A h \in Handlers : req[h].type = "create" => heard[req[h].id] = Absent
    /\ \A g, h \in Handlers :
          req[g].type = "create" /\ req[h].type = "create" /\ req[g].id = req[h].id => g = h

\* The ids taken, and those updates will still take, are no more than the requests.
Reading  == {h \in Handlers : pc[h] = "read" /\ req[h].type = "update"}
CountInv == IsFiniteSet(Reading) /\ assocSeq + Cardinality(Reading) <= requests

\* What a notification says, or what was heard, is what the PCF has.
True(decision, i) == decision = associations[i] \/ (decision = Over /\ ~There(i))

\* The handlers that notify, or are about to notify, the SMF about an id.
Noticing(h, i) == pc[h] \in {"notify", "await"} /\ req[h].id = i
Quiet(i)       == ~Unheard(i) /\ \A h \in Handlers : ~Noticing(h, i)

\* An id with no overlapping changes: an update is alone, a deletion may meet
\* another deletion; every notification is true, and if there is none, so is what
\* the SMF heard; and nothing brings back what a deletion has ended.
UpdateAlone(i) ==
    \A h \in Handlers : req[h].type = "update" /\ req[h].id = i =>
        /\ \A g \in Handlers : Changes(g, i) => g = h
        /\ pc[h] \in {"read", "write"} => ~Unheard(i)
        /\ pc[h] = "write" => There(i)
DeleteApart(i) ==
    \A h \in Handlers : req[h].type = "delete" /\ req[h].id = i =>
        \A p \in posts : p.id = i => p.decision = Over
Truthful(i) ==
    /\ \A h \in Handlers : Noticing(h, i) => True(Notice(h).decision, i)
    /\ \A p \in posts : p.id = i => True(p.decision, i)
    /\ Quiet(i) => True(heard[i], i)
EndedOnce(i) ==
    /\ There(i) => endings[i] = {}
    /\ endings[i] = {} \/ \E n \in Ids : endings[i] = {n}
Calm(i) == UpdateAlone(i) /\ DeleteApart(i) /\ Truthful(i) /\ EndedOnce(i)
CalmInv == \A i \in Ids \ crossed : Calm(i)

\* The write lock is held by the deletion whose notification is under way, if any.
LockInv == \A h \in Handlers :
    holder = h <=> req[h].type = "delete" /\ pc[h] \in {"notify", "await"}

IInv == TypeOK /\ LocalInv /\ PostInv /\ IdInv /\ CountInv /\ CalmInv /\ LockInv
=============================================================================
