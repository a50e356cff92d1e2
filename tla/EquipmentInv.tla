------------------------------- MODULE EquipmentInv ------------------------------
(***************************************************************************)
(* The inductive invariant behind the safety properties of Equipment, for  *)
(* TLC (MCEquipment) and for the proofs (EquipmentOamSbiProofs).           *)
(***************************************************************************)
EXTENDS Equipment

Steps      == {"idle", "read", "db", "cache", "reload", "load",
               "check", "find", "insert", "update"}
CheckSteps == {"check", "find", "insert", "update"}

\* What a handler works on, by what it does.
PutJobs    == [op : {"put"}, tac : Tacs, device : Devices]
TacJobs    == PutJobs \cup [op : {"post"}, tac : Tacs, device : Devices]
                      \cup [op : {"delete"}, tac : Tacs]
ImportJobs == [op : {"import"}, rows : Table]
CheckJobs  == [op : {"ecr", "pei"}, imsi : Imsis, imei : Imeis, n : Checks, code : Codes,
               device : Devices \cup {None, Unknown}]
AnyJob     == {Idle} \cup TacJobs \cup ImportJobs \cup CheckJobs

TypeOK ==
    /\ eir \in Seq(Rule)
    /\ tac \in Table /\ cache \in Table /\ tacOn \in BOOLEAN
    /\ crossed \subseteq Tacs /\ reverted \subseteq Tacs /\ logged \in [Tacs -> SUBSET Entry]
    /\ history \in [Pairs -> Row \cup {None}]
    /\ pc \in [Handlers -> Steps] /\ job \in [Handlers -> AnyJob]
    /\ done \in [Pairs -> SUBSET Checks] /\ before \in [Checks -> SUBSET Checks]
    /\ answer \in [Checks -> Codes]
    /\ work \in 0 .. MaxWork

JobOK(h) ==
    /\ pc[h] = "idle" => job[h] = Idle
    /\ pc[h] = "read" => job[h] \in PutJobs
    /\ pc[h] = "db" => job[h] \in TacJobs \cup ImportJobs
    /\ pc[h] = "cache" => job[h] \in TacJobs
    /\ pc[h] \in {"reload", "load"} => job[h] \in ImportJobs
    /\ pc[h] \in CheckSteps => job[h] \in CheckJobs
LocalInv == \A h \in Handlers : JobOK(h)

-----------------------------------------------------------------------------
(* The cache.                                                              *)

\* A device type whose writes did not overlap is written by one handler at most,
\* which, unless a roll-back came after its write, has yet to begin or is about to
\* bring the cache to what it wrote.
Written(j) == IF j.op = "delete" THEN None ELSE j.device
Alone(t) ==
    \A g, h \in Handlers : t \in Touched(job[g]) /\ t \in Touched(job[h]) => g = h
Free(t) ==
    (\A h \in Handlers : t \notin Touched(job[h])) => cache[t] = tac[t]
InStep(h, t) ==
    t \in Touched(job[h]) =>
        /\ pc[h] \in {"read", "db"} => cache[t] = tac[t]
        /\ pc[h] = "cache" => tac[t] = Written(job[h])
        /\ pc[h] = "load" => job[h].rows[t] = tac[t]
TacOK(t)  == /\ Alone(t)
             /\ t \notin reverted => Free(t) /\ \A h \in Handlers : InStep(h, t)
CacheInv  == tacOn => \A t \in Tacs \ crossed : TacOK(t)

-----------------------------------------------------------------------------
(* The history.                                                            *)

Busy(h) == pc[h] \in CheckSteps

\* A check at work has a number of its own, is not over, and began after the checks
\* it is to be compared with; it inserts only what none of those has recorded.
CheckOK(h) ==
    Busy(h) =>
        /\ job[h].n <= work
        /\ \A p \in Pairs : job[h].n \notin done[p]
        /\ \A m \in Checks : job[h].n \notin before[m]
        /\ before[job[h].n] \subseteq done[Pair(job[h])]
        /\ pc[h] = "insert" => before[job[h].n] = {}
Distinct ==
    \A g, h \in Handlers : Busy(g) /\ Busy(h) /\ job[g].n = job[h].n => g = h
Numbered ==
    /\ \A p \in Pairs : \A n \in done[p] : n <= work
    /\ \A m \in Checks : \A n \in before[m] : n <= work
    /\ \A p \in Pairs : history[p] = None => done[p] = {}
RecInv == Numbered /\ Distinct /\ (\A h \in Handlers : CheckOK(h)) /\ HistoryMovesOn

IInv == TypeOK /\ LocalInv /\ CacheInv /\ RecInv
==================================================================================
