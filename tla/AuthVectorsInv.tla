---------------------------- MODULE AuthVectorsInv ----------------------------
(***************************************************************************)
(* The inductive invariant behind the safety properties of AuthVectors.    *)
(* It is a module of its own so that TLC checks it (MCAuthVectors) and the *)
(* proofs (AuthVectorsProofs) use the same text.                           *)
(***************************************************************************)
EXTENDS AuthVectors

\* Between the commit of an increment and the vectors made from it, a handler
\* owns the SQNs from First(h) to Last(h).
Claiming(h) == pc[h] \in {"purge", "generate"}
First(h)    == base[h]
Last(h)     == base[h] + (Width(h) - 1) * Step

\* What the program counter says about the local variables.
Authenticating == {"load", "fill", "lock", "locked", "purge", "generate", "publish"}
LocalOK(h) ==
    /\ req[h].kind = "air" => req[h].n <= MaxVectors
    /\ ~Publishes(req[h].kind) => req[h].n = 1
    /\ pc[h] \in {"resync", "rewrite", "compare"} => req[h].resync \in Nat
    /\ pc[h] = "compare" => req[h].kind = "geored"
    /\ req[h].kind = "gsup" => req[h].resync = None
    /\ pc[h] \in {"resync", "rewrite"} =>
          \/ req[h].kind = "geored"
          \/ req[h].kind \in {"air", "aka"} /\ copy[h] \in Nat
    /\ pc[h] \in Authenticating => req[h].kind \in {"air", "aka", "gsup"}
    /\ pc[h] \in (Authenticating \ {"load"}) \cup {"save"} => copy[h] \in Nat
    /\ pc[h] \in {"locked", "purge", "generate"} => base[h] \in Nat
    /\ pc[h] \notin {"lock", "locked", "purge", "generate", "publish"} => done[h] = 0
    /\ pc[h] \in {"lock", "locked", "purge", "generate"} =>
          done[h] + Width(h) <= req[h].n
    /\ pc[h] = "publish" => Publishes(req[h].kind) /\ done[h] = req[h].n
LocalInv == \A h \in Handlers : LocalOK(h)

\* SELECT FOR UPDATE: the lock is held exactly during a transaction, and the row
\* does not change under its holder.
LockInv ==
    \A h \in Handlers :
       /\ rowLock = h <=> pc[h] = "locked"
       /\ pc[h] = "locked" => base[h] = sqn

\* Requests are numbered apart, and the vectors of a request still being served
\* are those it counts as done.
RequestInv ==
    /\ \A h \in Handlers : req[h].id <= requests /\ (pc[h] # "idle" => req[h].id >= 1)
    /\ \A h \in Handlers : pc[h] = "idle" => req[h].id = 0
    /\ \A g, h \in Handlers : g # h /\ pc[g] # "idle" => req[g].id # req[h].id
    /\ \A v \in issued : 1 <= v.id /\ v.id <= requests
    /\ \A v \in issued, h \in Handlers : v.id = req[h].id => v.item < done[h]

\* Claimed ranges lie below what the row hands out next and do not overlap each
\* other or the SQNs already in use; those in use by the claiming request itself
\* are below its range.
ClaimInv ==
    /\ \A h \in Handlers : Claiming(h) => Last(h) < NextFrom(sqn)
    /\ \A g, h \in Handlers :
          g # h /\ Claiming(g) /\ Claiming(h) => Last(g) < First(h) \/ Last(h) < First(g)
    /\ \A v \in issued, h \in Handlers :
          Claiming(h) => v.sqn < First(h) \/ (Last(h) < v.sqn /\ v.id # req[h].id)

\* The increments a request has committed lie between the SQN it loaded and the row.
Committed(h) == (done[h] + (IF Claiming(h) THEN Width(h) ELSE 0)) * Step
CopyInv ==
    /\ cache <= sqn
    /\ \A h \in Handlers : copy[h] + Committed(h) <= sqn

\* Where AtomicGetAndIncrementSQN returns what its callers take it for: the first
\* SQN of a range nobody else was given.
ReturnsFreshRange == ~PostImage \/ MaxVectors = 1

\* Everything about SQN values rests on the row having only moved up.
SqnInv ==
    /\ NoSqnReuse
    /\ \A v \in issued : v.sqn < NextFrom(sqn)
    /\ ClaimInv
    /\ CopyInv

IInv ==
    /\ TypeOK
    /\ LocalInv
    /\ LockInv
    /\ RequestInv
    /\ ~lowered => SqnInv
    /\ TuplesAscend
    /\ PublishedNotAhead

-----------------------------------------------------------------------------
\* AuthVectors implements the dispenser: the row is its counter, and a handler
\* between commit and generation holds the range it has claimed.
HeldRange(h) ==
    IF Claiming(h) THEN [from |-> base[h], count |-> Width(h)]
                   ELSE [from |-> -1, count |-> 0]

Dispenser == INSTANCE SqnDispenser WITH
    Holders  <- Handlers,
    MaxRange <- MaxVectors,
    next     <- NextFrom(sqn),
    held     <- [h \in Handlers |-> HeldRange(h)],
    given    <- {v.sqn : v \in issued},
    rewound  <- lowered

\* Every range of SQNs is reserved in one step, given out whole or lost, and not
\* reserved again while the row only moves up (store.go:121, auth.go:40).
ImplementsDispenser == Dispenser!Spec
=============================================================================
