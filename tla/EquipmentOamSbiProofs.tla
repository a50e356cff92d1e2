------------------------- MODULE EquipmentOamSbiProofs -------------------------
(***************************************************************************)
(* Proofs about the equipment identity register, served over S13 and the   *)
(* SBI (Equipment), about the REST interface (Oam), and about the SBI and  *)
(* the peers of every interface (Peers, Sbi).  The parts share no state    *)
(* and no name: the first is for every number of handlers, all rules and   *)
(* device types and any number of requests, the second for every set of    *)
(* rows and goroutines and every length of the log, the third for every    *)
(* set of addresses, hosts, keys, documents and tokens and every           *)
(* configuration.                                                          *)
(***************************************************************************)
EXTENDS EquipmentInv, OamInv, SbiInv, SequenceTheorems, FiniteSetTheorems, WellFoundedInduction, TLAPS

-----------------------------------------------------------------------------
(***************************************************************************)
(* About the operators the module is built from.                           *)
(***************************************************************************)

\* Rules are put in and taken out anywhere in the database's order.
LEMMA RemoveAtSeq ==
    ASSUME NEW D, NEW s \in Seq(D), NEW k \in 1 .. Len(s)
    PROVE  RemoveAt(s, k) \in Seq(D) /\ Len(RemoveAt(s, k)) = Len(s) - 1
<1> DEFINE front == SubSeq(s, 1, k - 1)
           back  == SubSeq(s, k + 1, Len(s))
<1>1. front \in Seq(D) /\ Len(front) = k - 1
  OBVIOUS
<1>2. back \in Seq(D) /\ Len(back) = Len(s) - k
  OBVIOUS
<1> HIDE DEF front, back
<1>3. front \o back \in Seq(D) /\ Len(front \o back) = Len(front) + Len(back)
  BY <1>1, <1>2, ConcatProperties
<1>4. RemoveAt(s, k) = front \o back
  BY DEF RemoveAt, front, back
<1>5. Len(s) \in Nat /\ (k - 1) + (Len(s) - k) = Len(s) - 1
  OBVIOUS
<1>6. QED
  BY <1>1, <1>2, <1>3, <1>4, <1>5

LEMMA InsertAtSeq ==
    ASSUME NEW D, NEW s \in Seq(D), NEW k \in 1 .. Len(s) + 1, NEW d \in D
    PROVE  InsertAt(s, k, d) \in Seq(D)
<1> DEFINE front == SubSeq(s, 1, k - 1)
           back  == SubSeq(s, k, Len(s))
<1>1. front \in Seq(D) /\ back \in Seq(D) /\ <<d>> \in Seq(D)
  OBVIOUS
<1> HIDE DEF front, back
<1>2. front \o <<d>> \in Seq(D)
  BY <1>1
<1>3. (front \o <<d>>) \o back \in Seq(D)
  BY <1>1, <1>2
<1>4. InsertAt(s, k, d) = (front \o <<d>>) \o back
  BY DEF InsertAt, front, back
<1>5. QED
  BY <1>3, <1>4

\* Min names the least of some numbers.
LEMMA MinFacts ==
    ASSUME NEW S \in SUBSET Nat, S # {}
    PROVE  Min(S) \in S
<1> DEFINE Below == {0 .. n : n \in S}
<1>1. IsWellFoundedOn(StrictSubsetOrdering(Nat), FiniteSubsetsOf(Nat))
  BY FS_StrictSubsetOrderingWellFounded
<1>2. Below \subseteq FiniteSubsetsOf(Nat)
  <2>1. ASSUME NEW n \in S PROVE 0 .. n \in FiniteSubsetsOf(Nat)
    <3>1. 0 .. n \in SUBSET Nat /\ IsFiniteSet(0 .. n)
      BY FS_Interval
    <3>2. QED
      BY <3>1 DEF FiniteSubsetsOf
  <2>2. QED
    BY <2>1
<1>3. Below # {}
  <2>1. PICK n \in S : TRUE
    OBVIOUS
  <2>2. 0 .. n \in Below
    BY <2>1
  <2>3. QED
    BY <2>2
<1> HIDE DEF Below
<1>4. PICK X \in Below : \A Y \in Below : ~ (<<Y, X>> \in StrictSubsetOrdering(Nat))
  BY <1>1, <1>2, <1>3, WFMin
<1>5. PICK x \in S : X = 0 .. x
  BY DEF Below
<1>6. ASSUME NEW y \in S, y < x PROVE FALSE
  <2>1. /\ 0 .. y \in SUBSET Nat /\ 0 .. x \in SUBSET Nat
        /\ 0 .. y \subseteq 0 .. x /\ x \in 0 .. x /\ x \notin 0 .. y
    BY <1>6
  <2>2. <<0 .. y, X>> \in StrictSubsetOrdering(Nat)
    BY <1>5, <2>1 DEF StrictSubsetOrdering
  <2>3. 0 .. y \in Below
    BY DEF Below
  <2>4. QED
    BY <2>2, <2>3, <1>4
<1>7. \A y \in S : x =< y
  BY <1>6
<1>8. QED
  BY <1>7 DEF Min

\* The sets of jobs are told apart by what is asked for.
LEMMA JobFacts ==
    /\ \A j \in TacJobs : j.op \in {"post", "put", "delete"} /\ j.tac \in Tacs /\ Touched(j) = {j.tac}
    /\ \A j \in TacJobs : Written(j) \in Entry
    /\ \A j \in ImportJobs : j.op = "import" /\ j.rows \in Table /\ Touched(j) = Tacs
    /\ \A j \in CheckJobs :
          /\ j.op \in {"ecr", "pei"} /\ Pair(j) \in Pairs /\ j.n \in Checks /\ j.code \in Codes
          /\ j.device \in Devices \cup {None, Unknown} /\ Touched(j) = {}
    /\ Idle.op = "none" /\ Touched(Idle) = {}
<1>1. \A j \in TacJobs : j.op \in {"post", "put", "delete"} /\ j.tac \in Tacs
  BY DEF TacJobs, PutJobs
<1>2. \A j \in TacJobs : Touched(j) = {j.tac}
  BY <1>1 DEF Touched, IsTacWrite
<1>3. \A j \in TacJobs : Written(j) \in Entry
  BY DEF TacJobs, PutJobs, Written, Entry
<1>4. \A j \in ImportJobs : j.op = "import" /\ j.rows \in Table /\ Touched(j) = Tacs
  BY DEF ImportJobs, Touched
<1>5. \A j \in CheckJobs :
          /\ j.op \in {"ecr", "pei"} /\ Pair(j) \in Pairs /\ j.n \in Checks /\ j.code \in Codes
          /\ j.device \in Devices \cup {None, Unknown}
  BY DEF CheckJobs, Pair, Pairs
<1>6. \A j \in CheckJobs : Touched(j) = {}
  BY <1>5 DEF Touched, IsTacWrite
<1>7. Idle.op = "none" /\ Touched(Idle) = {}
  BY DEF Idle, Touched, IsTacWrite
<1>8. QED
  BY <1>1, <1>2, <1>3, <1>4, <1>5, <1>6, <1>7

\* A handler goes on to its next step.
LEMMA GotoFacts ==
    ASSUME TypeOK, NEW h \in Handlers, NEW s \in Steps, NEW j \in AnyJob, Goto(h, s, j)
    PROVE  /\ pc' \in [Handlers -> Steps] /\ job' \in [Handlers -> AnyJob]
           /\ pc'[h] = s /\ job'[h] = j
           /\ \A g \in Handlers \ {h} : pc'[g] = pc[g] /\ job'[g] = job[g]
  BY DEF TypeOK, Goto

-----------------------------------------------------------------------------
(***************************************************************************)
(* The cache: a handler goes on while others wait.                         *)
(***************************************************************************)

\* Handler h takes a step that leaves the device type alone unless h has to do with
\* it, and then leaves it as h promises.
LEMMA TacByHandler ==
    ASSUME NEW h \in Handlers, NEW t, TacOK(t),
           \A g \in Handlers \ {h} : pc'[g] = pc[g] /\ job'[g] = job[g],
           t \in Touched(job'[h]) => t \in Touched(job[h]),
           t \notin Touched(job[h]) => /\ cache'[t] = cache[t] /\ tac'[t] = tac[t]
                                       /\ t \in reverted => t \in reverted',
           t \in Touched(job[h]) /\ t \notin reverted' =>
               InStep(h, t)' /\ (t \notin Touched(job'[h]) => cache'[t] = tac'[t])
    PROVE  TacOK(t)'
<1>1. \A g \in Handlers : t \in Touched(job'[g]) => t \in Touched(job[g])
  OBVIOUS
<1>2. Alone(t)'
  BY <1>1 DEF TacOK, Alone
<1> SUFFICES ASSUME t \notin reverted' PROVE Free(t)' /\ \A g \in Handlers : InStep(g, t)'
  BY <1>2 DEF TacOK
<1>3. CASE t \notin Touched(job[h])
  <2>1. Free(t)'
    BY <1>3 DEF TacOK, Free
  <2>2. \A g \in Handlers : InStep(g, t)'
    BY <1>3 DEF TacOK, InStep
  <2>3. QED
    BY <2>1, <2>2
<1>4. CASE t \in Touched(job[h])
  <2>1. \A g \in Handlers \ {h} : t \notin Touched(job'[g])
    BY <1>4 DEF TacOK, Alone
  <2>2. Free(t)'
    BY <1>4 DEF Free
  <2>3. \A g \in Handlers : InStep(g, t)'
    BY <1>4, <2>1 DEF InStep
  <2>4. QED
    BY <2>2, <2>3
<1>5. QED
  BY <1>3, <1>4

\* What a step of a handler that is not about device types leaves as it was.
LEMMA CacheKept ==
    ASSUME CacheInv, NEW h \in Handlers, UNCHANGED tacVars,
           \A g \in Handlers \ {h} : pc'[g] = pc[g] /\ job'[g] = job[g],
           Touched(job[h]) = {}, Touched(job'[h]) = {}
    PROVE  CacheInv'
<1>1. tac' = tac /\ cache' = cache /\ tacOn' = tacOn /\ crossed' = crossed /\ reverted' = reverted
  BY DEF tacVars
<1>2. ASSUME tacOn, NEW t \in Tacs \ crossed PROVE TacOK(t)'
  BY <1>1, <1>2, TacByHandler DEF CacheInv
<1>3. QED
  BY <1>1, <1>2 DEF CacheInv

-----------------------------------------------------------------------------
(***************************************************************************)
(* The history: a handler goes on with its check, or ends it.              *)
(***************************************************************************)
LEMMA RecKept ==
    ASSUME RecInv, NEW h \in Handlers, UNCHANGED <<history, done, before>>,
           work \in Nat, work' \in {work, work + 1},
           \A p \in Pairs : done[p] \subseteq Nat, \A m \in Checks : before[m] \subseteq Nat,
           \A g \in Handlers : Busy(g) => job[g].n \in Nat,
           \A g \in Handlers \ {h} : pc'[g] = pc[g] /\ job'[g] = job[g],
           Busy(h)' => /\ Busy(h) /\ job'[h].n = job[h].n /\ Pair(job'[h]) = Pair(job[h])
                       /\ pc'[h] = "insert" => before[job[h].n] = {}
    PROVE  RecInv'
<1>1. work <= work'
  OBVIOUS
<1>2. Numbered'
  BY <1>1 DEF RecInv, Numbered
<1>3. Distinct'
  BY DEF RecInv, Distinct, Busy
<1>4. ASSUME NEW g \in Handlers PROVE CheckOK(g)'
  <2>1. CheckOK(g)
    BY DEF RecInv
  <2>2. CASE g = h
    BY <2>1, <2>2, <1>1 DEF CheckOK
  <2>3. CASE g # h
    BY <2>1, <2>3, <1>1 DEF CheckOK, Busy
  <2>4. QED
    BY <2>2, <2>3
<1>5. HistoryMovesOn'
  BY DEF RecInv, HistoryMovesOn
<1>6. QED
  BY <1>2, <1>3, <1>4, <1>5 DEF RecInv

\* What RecKept asks of the types.
LEMMA RecTypes ==
    ASSUME TypeOK, LocalInv
    PROVE  /\ work \in Nat
           /\ \A p \in Pairs : done[p] \subseteq Nat
           /\ \A m \in Checks : before[m] \subseteq Nat
           /\ \A g \in Handlers : Busy(g) => job[g].n \in Nat /\ job[g] \in CheckJobs
<1>1. Checks \subseteq Nat
  BY CodesAssumption DEF Checks
<1>2. \A g \in Handlers : Busy(g) => job[g] \in CheckJobs
  BY DEF LocalInv, JobOK, Busy
<1>3. \A g \in Handlers : Busy(g) => job[g].n \in Nat
  BY <1>1, <1>2, JobFacts
<1>4. work \in Nat
  BY CodesAssumption DEF TypeOK
<1>5. QED
  BY <1>1, <1>2, <1>3, <1>4 DEF TypeOK

LEMMA LocalKept ==
    ASSUME LocalInv, NEW h \in Handlers, JobOK(h)',
           \A g \in Handlers \ {h} : pc'[g] = pc[g] /\ job'[g] = job[g]
    PROVE  LocalInv'
<1> SUFFICES ASSUME NEW g \in Handlers PROVE JobOK(g)'
  BY DEF LocalInv
<1>1. CASE g = h
  BY <1>1
<1>2. CASE g # h
  BY <1>2 DEF LocalInv, JobOK
<1>3. QED
  BY <1>1, <1>2

-----------------------------------------------------------------------------
(***************************************************************************)
(* Device types: the steps.                                                *)
(***************************************************************************)

\* All but the cache, for every step that changes a device type.
LEMMA TacStepHolds ==
    ASSUME IInv, NEW h \in Handlers, NEW s \in Steps \ CheckSteps, NEW j \in AnyJob,
           Goto(h, s, j), TacStep, work' \in {work, work + 1}, work' \in 0 .. MaxWork,
           tac' \in Table, cache' \in Table, crossed' \subseteq Tacs,
           reverted' \subseteq Tacs, logged' \in [Tacs -> SUBSET Entry], JobOK(h)', CacheInv'
    PROVE  IInv'
<1>1. /\ pc' \in [Handlers -> Steps] /\ job' \in [Handlers -> AnyJob]
      /\ pc'[h] = s /\ job'[h] = j
      /\ \A g \in Handlers \ {h} : pc'[g] = pc[g] /\ job'[g] = job[g]
  BY GotoFacts DEF IInv
<1>2. UNCHANGED <<eir, history, done, before, answer, tacOn>>
  BY DEF TacStep, recVars
<1>3. TypeOK'
  BY <1>1, <1>2 DEF IInv, TypeOK
<1>4. LocalInv'
  BY <1>1, LocalKept DEF IInv
<1>5. ~Busy(h)'
  BY <1>1 DEF Busy
<1>6. RecInv'
  BY <1>1, <1>2, <1>5, RecTypes, RecKept DEF IInv
<1>7. QED
  BY <1>3, <1>4, <1>6 DEF IInv

LEMMA Idling ==
    /\ Idle \in AnyJob /\ TacJobs \subseteq AnyJob /\ ImportJobs \subseteq AnyJob
    /\ PutJobs \subseteq TacJobs /\ CheckJobs \subseteq AnyJob
    /\ {"idle", "read", "db", "cache", "reload", "load"} = Steps \ CheckSteps
    /\ {"check", "find", "insert", "update"} = CheckSteps /\ CheckSteps \subseteq Steps
  BY DEF AnyJob, TacJobs, Steps, CheckSteps

LEMMA ReadTacStep ==
    ASSUME IInv, NEW h \in Handlers, ReadTac(h)
    PROVE  IInv'
<1>1. /\ pc[h] = "read" /\ job[h] \in PutJobs /\ job[h] \in TacJobs
      /\ UNCHANGED <<tac, cache, logged, crossed, reverted, work>> /\ TacStep /\ tacOn' = tacOn
  BY Idling DEF IInv, LocalInv, JobOK, ReadTac, TacStep
<1>2. PICK s \in {"idle", "db"} : \E j \in {Idle, job[h]} :
          Goto(h, s, j) /\ (s = "idle" => j = Idle) /\ (s = "db" => j = job[h])
  BY DEF ReadTac, Finish
<1>3. PICK j \in {Idle, job[h]} :
          Goto(h, s, j) /\ (s = "idle" => j = Idle) /\ (s = "db" => j = job[h])
  BY <1>2
<1>4. s \in Steps \ CheckSteps /\ j \in AnyJob
  BY <1>1, Idling
<1>5. /\ pc'[h] = s /\ job'[h] = j
      /\ \A g \in Handlers \ {h} : pc'[g] = pc[g] /\ job'[g] = job[g]
  BY <1>3, <1>4, GotoFacts DEF IInv
<1>6. JobOK(h)'
  BY <1>1, <1>3, <1>5 DEF JobOK, CheckSteps
<1>7. CacheInv'
  <2> SUFFICES ASSUME tacOn, NEW t \in Tacs \ crossed PROVE TacOK(t)'
    BY <1>1 DEF CacheInv
  <2>1. TacOK(t)
    BY DEF IInv, CacheInv
  <2>2. t \in Touched(job'[h]) => t \in Touched(job[h])
    BY <1>3, <1>5, JobFacts
  <2>3. t \in Touched(job[h]) /\ t \notin reverted => cache'[t] = tac'[t]
    BY <2>1, <1>1 DEF TacOK, InStep
  <2>4. t \in Touched(job[h]) /\ t \notin reverted => InStep(h, t)'
    BY <2>3, <1>5 DEF InStep
  <2>5. QED
    BY <2>1, <2>2, <2>3, <2>4, <1>1, <1>5, TacByHandler
<1>8. work' \in {work, work + 1} /\ work' \in 0 .. MaxWork
      /\ tac' \in Table /\ cache' \in Table /\ crossed' \subseteq Tacs
      /\ reverted' \subseteq Tacs /\ logged' \in [Tacs -> SUBSET Entry]
  BY <1>1 DEF IInv, TypeOK
<1>9. QED
  BY <1>1, <1>3, <1>4, <1>6, <1>7, <1>8, TacStepHolds

LEMMA WriteTacStep ==
    ASSUME IInv, NEW h \in Handlers, WriteTac(h)
    PROVE  IInv'
<1> DEFINE t0 == job[h].tac
<1>1. /\ pc[h] = "db" /\ job[h] \in TacJobs /\ t0 \in Tacs /\ Touched(job[h]) = {t0}
      /\ Written(job[h]) \in Entry /\ tac \in Table
      /\ UNCHANGED <<cache, crossed, work>> /\ TacStep /\ tacOn' = tacOn
  <2>1. pc[h] = "db" /\ job[h].op # "import" /\ job[h] \in TacJobs \cup ImportJobs
    BY DEF IInv, LocalInv, JobOK, WriteTac
  <2>2. job[h] \in TacJobs
    BY <2>1, JobFacts
  <2>3. QED
    BY <2>1, <2>2, JobFacts DEF WriteTac, TacStep, IInv, TypeOK
<1> DEFINE kept   == tac' = tac /\ reverted' = reverted /\ Goto(h, "idle", Idle)
           put    == /\ tac' = [tac EXCEPT ![t0] = Written(job[h])]
                     /\ reverted' = reverted \ {t0} /\ Goto(h, "cache", job[h])
<1>2. kept \/ put
  BY DEF WriteTac, Finish, Written
<1>7. reverted' \subseteq Tacs /\ logged' \in [Tacs -> SUBSET Entry]
  <2>1. reverted \subseteq Tacs /\ logged \in [Tacs -> SUBSET Entry] /\ tac[t0] \in Entry
    BY <1>1 DEF IInv, TypeOK, Table
  <2>2. PICK new \in {{}, logged[t0] \cup {tac[t0]}} :
            logged' = logged \/ logged' = [logged EXCEPT ![t0] = new]
    BY DEF WriteTac
  <2>3. logged[t0] \in SUBSET Entry
    BY <1>1, <2>1
  <2>4. new \in SUBSET Entry
    BY <2>1, <2>3
  <2>5. logged' \in [Tacs -> SUBSET Entry]
    <3> HIDE DEF t0
    <3>1. QED
      BY <2>1, <2>2, <2>4
  <2>6. QED
    BY <2>1, <2>5, <1>2
<1> HIDE DEF t0
<1>3. CASE kept
  <2>1. /\ pc'[h] = "idle" /\ job'[h] = Idle
        /\ \A g \in Handlers \ {h} : pc'[g] = pc[g] /\ job'[g] = job[g]
    BY <1>3, Idling, GotoFacts DEF IInv
  <2>2. JobOK(h)'
    BY <2>1 DEF JobOK, CheckSteps
  <2>3. CacheInv'
    <3> SUFFICES ASSUME tacOn, NEW t \in Tacs \ crossed PROVE TacOK(t)'
      BY <1>1 DEF CacheInv
    <3>1. TacOK(t)
      BY DEF IInv, CacheInv
    <3>2. t \notin Touched(job'[h])
      BY <2>1, JobFacts
    <3>3. t \in Touched(job[h]) /\ t \notin reverted => cache'[t] = tac'[t]
      BY <3>1, <1>1, <1>3 DEF TacOK, InStep
    <3>4. InStep(h, t)'
      BY <3>2 DEF InStep
    <3>5. QED
      BY <3>1, <3>2, <3>3, <3>4, <1>1, <1>3, <2>1, TacByHandler
  <2>4. work' \in {work, work + 1} /\ work' \in 0 .. MaxWork
        /\ tac' \in Table /\ cache' \in Table /\ crossed' \subseteq Tacs
    BY <1>1, <1>3 DEF IInv, TypeOK
  <2>5. QED
    BY <1>1, <1>3, <1>7, <2>2, <2>3, <2>4, Idling, TacStepHolds
<1>4. CASE put
  <2>1. /\ pc'[h] = "cache" /\ job'[h] = job[h]
        /\ \A g \in Handlers \ {h} : pc'[g] = pc[g] /\ job'[g] = job[g]
    BY <1>1, <1>4, Idling, GotoFacts DEF IInv
  <2>2. JobOK(h)'
    BY <1>1, <2>1 DEF JobOK, CheckSteps
  <2>3. tac' \in Table /\ tac'[t0] = Written(job[h]) /\ \A t \in Tacs \ {t0} : tac'[t] = tac[t]
    BY <1>1, <1>4 DEF Table
  <2>4. CacheInv'
    <3> SUFFICES ASSUME tacOn, NEW t \in Tacs \ crossed PROVE TacOK(t)'
      BY <1>1 DEF CacheInv
    <3>1. TacOK(t)
      BY DEF IInv, CacheInv
    <3>2. t \in Touched(job'[h]) <=> t = t0
      BY <1>1, <2>1
    <3>3. InStep(h, t)'
      BY <2>1, <2>3, <3>2 DEF InStep
    <3>4. t \in reverted /\ t # t0 => t \in reverted'
      BY <1>4
    <3>5. QED
      BY <3>1, <3>2, <3>3, <3>4, <1>1, <2>1, <2>3, TacByHandler
  <2>5. work' \in {work, work + 1} /\ work' \in 0 .. MaxWork
        /\ cache' \in Table /\ crossed' \subseteq Tacs
    BY <1>1 DEF IInv, TypeOK
  <2>6. QED
    BY <1>1, <1>4, <1>7, <2>2, <2>3, <2>4, <2>5, Idling, TacStepHolds
<1>5. QED
  BY <1>2, <1>3, <1>4

\* A handler finishes, and leaves the cache as the table is.
LEMMA FinishFacts ==
    ASSUME IInv, NEW h \in Handlers, Finish(h)
    PROVE  /\ pc'[h] = "idle" /\ job'[h] = Idle /\ Goto(h, "idle", Idle)
           /\ \A g \in Handlers \ {h} : pc'[g] = pc[g] /\ job'[g] = job[g]
           /\ JobOK(h)' /\ Touched(job'[h]) = {}
<1>1. Goto(h, "idle", Idle)
  BY DEF Finish
<1>2. /\ pc'[h] = "idle" /\ job'[h] = Idle
      /\ \A g \in Handlers \ {h} : pc'[g] = pc[g] /\ job'[g] = job[g]
  BY <1>1, Idling, GotoFacts DEF IInv
<1>3. JobOK(h)' /\ Touched(job'[h]) = {}
  BY <1>2, JobFacts DEF JobOK, CheckSteps
<1>4. QED
  BY <1>1, <1>2, <1>3

LEMMA CacheFilled ==
    ASSUME IInv, NEW h \in Handlers, Finish(h), UNCHANGED <<tac, tacOn, reverted>>, crossed \subseteq crossed',
           \A t \in (Tacs \ crossed') \ reverted : tacOn /\ t \in Touched(job[h]) =>
               cache'[t] = tac[t],
           \A t \in Tacs \ crossed' : tacOn /\ t \notin Touched(job[h]) => cache'[t] = cache[t]
    PROVE  CacheInv'
<1> SUFFICES ASSUME tacOn, NEW t \in Tacs \ crossed' PROVE TacOK(t)'
  BY DEF CacheInv
<1>1. TacOK(t)
  BY DEF IInv, CacheInv
<1>2. t \notin Touched(job'[h]) /\ \A g \in Handlers \ {h} : pc'[g] = pc[g] /\ job'[g] = job[g]
  BY FinishFacts
<1>3. InStep(h, t)'
  BY <1>2 DEF InStep
<1>4. QED
  BY <1>1, <1>2, <1>3, TacByHandler

LEMMA CacheTacStep ==
    ASSUME IInv, NEW h \in Handlers, CacheTac(h)
    PROVE  IInv'
<1> DEFINE t0 == job[h].tac
<1>1. /\ pc[h] = "cache" /\ job[h] \in TacJobs /\ t0 \in Tacs /\ Touched(job[h]) = {t0}
      /\ Written(job[h]) \in Entry /\ cache \in Table /\ tac \in Table
      /\ UNCHANGED <<tac, logged, crossed, reverted, work>> /\ TacStep /\ tacOn' = tacOn /\ Finish(h)
  BY JobFacts DEF IInv, LocalInv, JobOK, CacheTac, TacStep, TypeOK
<1>2. cache' = IF ~tacOn THEN cache ELSE [cache EXCEPT ![t0] = Written(job[h])]
  BY DEF CacheTac, Written
<1> HIDE DEF t0
<1>3. /\ cache' \in Table
      /\ tacOn => cache'[t0] = Written(job[h]) /\ \A t \in Tacs \ {t0} : cache'[t] = cache[t]
  BY <1>1, <1>2 DEF Table
<1>4. ASSUME NEW t \in (Tacs \ crossed') \ reverted, tacOn, t \in Touched(job[h])
      PROVE  cache'[t] = tac[t]
  <2>1. InStep(h, t)
    BY <1>1, <1>4 DEF IInv, CacheInv, TacOK
  <2>2. QED
    BY <2>1, <1>1, <1>3, <1>4 DEF InStep
<1>5. CacheInv' /\ JobOK(h)' /\ Goto(h, "idle", Idle)
  BY <1>1, <1>3, <1>4, CacheFilled, FinishFacts
<1>6. work' \in {work, work + 1} /\ work' \in 0 .. MaxWork
      /\ tac' \in Table /\ crossed' \subseteq Tacs
      /\ reverted' \subseteq Tacs /\ logged' \in [Tacs -> SUBSET Entry]
  BY <1>1 DEF IInv, TypeOK
<1>7. QED
  BY <1>1, <1>3, <1>5, <1>6, Idling, TacStepHolds

LEMMA ImportTacStep ==
    ASSUME IInv, NEW h \in Handlers, ImportTac(h)
    PROVE  IInv'
<1>1. /\ pc[h] = "db" /\ job[h] \in ImportJobs /\ job[h].rows \in Table /\ Touched(job[h]) = Tacs
      /\ tac \in Table /\ Goto(h, "reload", job[h])
      /\ UNCHANGED <<cache, logged, crossed, reverted>> /\ TacStep /\ tacOn' = tacOn
  <2>1. pc[h] = "db" /\ job[h].op = "import" /\ job[h] \in TacJobs \cup ImportJobs
    BY DEF IInv, LocalInv, JobOK, ImportTac
  <2>2. job[h] \in ImportJobs
    BY <2>1, JobFacts
  <2>3. QED
    BY <2>1, <2>2, JobFacts DEF ImportTac, TacStep, IInv, TypeOK
<1>2. tac' \in Table
  <2>1. tac' \in {tac, [t \in Tacs |-> IF job[h].rows[t] = None THEN tac[t] ELSE job[h].rows[t]]}
    BY DEF ImportTac
  <2>2. QED
    BY <1>1, <2>1 DEF Table
<1>3. /\ pc'[h] = "reload" /\ job'[h] = job[h]
      /\ \A g \in Handlers \ {h} : pc'[g] = pc[g] /\ job'[g] = job[g]
  BY <1>1, Idling, GotoFacts DEF IInv
<1>4. JobOK(h)'
  BY <1>1, <1>3 DEF JobOK, CheckSteps
<1>5. CacheInv'
  <2> SUFFICES ASSUME tacOn, NEW t \in Tacs \ crossed PROVE TacOK(t)'
    BY <1>1 DEF CacheInv
  <2>1. TacOK(t)
    BY DEF IInv, CacheInv
  <2>2. InStep(h, t)'
    BY <1>3 DEF InStep
  <2>3. QED
    BY <2>1, <2>2, <1>1, <1>3, TacByHandler
<1>6. work' \in {work, work + 1} /\ work' \in 0 .. MaxWork
      /\ cache' \in Table /\ crossed' \subseteq Tacs
      /\ reverted' \subseteq Tacs /\ logged' \in [Tacs -> SUBSET Entry]
  BY <1>1, CodesAssumption DEF IInv, TypeOK, ImportTac, Work
<1>7. QED
  BY <1>1, <1>2, <1>4, <1>5, <1>6, Idling, TacStepHolds

LEMMA ReloadTacStep ==
    ASSUME IInv, NEW h \in Handlers, ReloadTac(h)
    PROVE  IInv'
<1>1. /\ pc[h] = "reload" /\ job[h] \in ImportJobs /\ job[h].rows \in Table /\ Touched(job[h]) = Tacs
      /\ tac \in Table /\ UNCHANGED <<tac, cache, logged>> /\ TacStep /\ tacOn' = tacOn
  BY JobFacts DEF IInv, LocalInv, JobOK, ReloadTac, TacStep, TypeOK
<1>2. /\ work' \in {work, work + 1} /\ work' \in 0 .. MaxWork
      /\ tac' \in Table /\ cache' \in Table /\ crossed' \subseteq Tacs /\ crossed \subseteq crossed'
      /\ reverted' \subseteq Tacs /\ logged' \in [Tacs -> SUBSET Entry]
  BY <1>1, CodesAssumption DEF IInv, TypeOK, ReloadTac, Work
<1>3. CASE tacOn /\ Goto(h, "load", [job[h] EXCEPT !.rows = tac]) /\ crossed' = crossed
  <2> DEFINE j == [job[h] EXCEPT !.rows = tac]
  <2>1. j \in ImportJobs /\ j.rows = tac
    BY <1>1 DEF ImportJobs
  <2>2. Goto(h, "load", j)
    BY <1>3
  <2> HIDE DEF j
  <2>3. /\ pc'[h] = "load" /\ job'[h] = j
        /\ \A g \in Handlers \ {h} : pc'[g] = pc[g] /\ job'[g] = job[g]
    BY <2>1, <2>2, Idling, GotoFacts DEF IInv
  <2>4. JobOK(h)'
    BY <2>1, <2>3 DEF JobOK, CheckSteps
  <2>5. CacheInv'
    <3> SUFFICES ASSUME tacOn, NEW t \in Tacs \ crossed PROVE TacOK(t)'
      BY <1>1, <1>3 DEF CacheInv
    <3>1. TacOK(t)
      BY DEF IInv, CacheInv
    <3>2. InStep(h, t)'
      BY <2>1, <2>3, <1>1 DEF InStep
    <3>3. t \in Touched(job'[h])
      BY <2>1, <2>3, JobFacts
    <3>4. QED
      BY <3>1, <3>2, <3>3, <1>1, <2>3, TacByHandler
  <2>6. j \in AnyJob
    BY <2>1, Idling
  <2>7. QED
    BY <1>1, <1>2, <2>2, <2>4, <2>5, <2>6, Idling, TacStepHolds
<1>4. CASE Finish(h) /\ (~tacOn \/ crossed' = Tacs) /\ reverted' = reverted
  <2>1. CacheInv' /\ JobOK(h)' /\ Goto(h, "idle", Idle)
    BY <1>1, <1>2, <1>4, CacheFilled, FinishFacts
  <2>2. QED
    BY <1>1, <1>2, <2>1, Idling, TacStepHolds
<1>5. QED
  BY <1>3, <1>4 DEF ReloadTac

LEMMA LoadTacStep ==
    ASSUME IInv, NEW h \in Handlers, LoadTac(h)
    PROVE  IInv'
<1>1. /\ pc[h] = "load" /\ job[h] \in ImportJobs /\ job[h].rows \in Table /\ Touched(job[h]) = Tacs
      /\ tac \in Table /\ UNCHANGED <<tac, logged, crossed, reverted, work>> /\ TacStep /\ tacOn' = tacOn
      /\ cache' = job[h].rows /\ Finish(h)
  BY JobFacts DEF IInv, LocalInv, JobOK, LoadTac, TacStep, TypeOK
<1>2. ASSUME NEW t \in (Tacs \ crossed') \ reverted, tacOn
      PROVE  cache'[t] = tac[t]
  <2>1. InStep(h, t)
    BY <1>1, <1>2 DEF IInv, CacheInv, TacOK
  <2>2. QED
    BY <2>1, <1>1, <1>2 DEF InStep
<1>3. CacheInv' /\ JobOK(h)' /\ Goto(h, "idle", Idle)
  BY <1>1, <1>2, CacheFilled, FinishFacts
<1>4. work' \in {work, work + 1} /\ work' \in 0 .. MaxWork
      /\ tac' \in Table /\ cache' \in Table /\ crossed' \subseteq Tacs
      /\ reverted' \subseteq Tacs /\ logged' \in [Tacs -> SUBSET Entry]
  BY <1>1 DEF IInv, TypeOK
<1>5. QED
  BY <1>1, <1>3, <1>4, Idling, TacStepHolds

-----------------------------------------------------------------------------
(***************************************************************************)
(* Checks: the steps.                                                      *)
(***************************************************************************)

\* A check goes on to its next step, or ends without a record.
LEMMA CheckGoesOn ==
    ASSUME IInv, NEW h \in Handlers, Busy(h), NEW s \in CheckSteps \cup {"idle"}, NEW j,
           Goto(h, s, j), CheckStep, UNCHANGED <<history, done>>,
           IF s = "idle" THEN j = Idle
           ELSE /\ j \in CheckJobs /\ j.n = job[h].n /\ Pair(j) = Pair(job[h])
                /\ s = "insert" => before[job[h].n] = {},
           answer' \in [Checks -> Codes], work' \in {work, work + 1}, work' \in 0 .. MaxWork
    PROVE  IInv'
<1>1. j \in AnyJob /\ s \in Steps
  BY Idling
<1>2. /\ pc' \in [Handlers -> Steps] /\ job' \in [Handlers -> AnyJob]
      /\ pc'[h] = s /\ job'[h] = j
      /\ \A g \in Handlers \ {h} : pc'[g] = pc[g] /\ job'[g] = job[g]
  BY <1>1, GotoFacts DEF IInv
<1>3. UNCHANGED <<eir, tac, cache, tacOn, logged, crossed, reverted, before>>
  BY DEF CheckStep, tacVars
<1>4. TypeOK'
  BY <1>2, <1>3 DEF IInv, TypeOK
<1>5. JobOK(h)'
  BY <1>2 DEF JobOK, CheckSteps
<1>6. LocalInv'
  BY <1>2, <1>5, LocalKept DEF IInv
<1>7. Touched(job[h]) = {} /\ Touched(job'[h]) = {}
  BY <1>2, JobFacts DEF IInv, LocalInv, JobOK, Busy
<1>8. CacheInv'
  BY <1>2, <1>7, CacheKept DEF IInv, CheckStep
<1>9. Busy(h)' => /\ job'[h].n = job[h].n /\ Pair(job'[h]) = Pair(job[h])
                  /\ pc'[h] = "insert" => before[job[h].n] = {}
  BY <1>2 DEF Busy, CheckSteps
<1>10. RecInv'
  BY <1>2, <1>3, <1>9, RecTypes, RecKept DEF IInv
<1>11. QED
  BY <1>4, <1>6, <1>8, <1>10 DEF IInv

LEMMA VerdictIsCode ==
    ASSUME eir \in Seq(Rule), NEW imei, NEW imsi
    PROVE  Verdict(imei, imsi) \in Codes
<1> DEFINE hits == {k \in DOMAIN eir : Matches(eir[k], imei, imsi)}
<1>1. hits \subseteq Nat /\ hits \subseteq 1 .. Len(eir)
  OBVIOUS
<1>2. ASSUME hits # {} PROVE eir[Min(hits)].code \in Codes
  <2>1. Min(hits) \in 1 .. Len(eir)
    <3> HIDE DEF hits
    <3>1. QED
      BY <1>1, <1>2, MinFacts
  <2>2. eir[Min(hits)] \in Rule
    BY <2>1
  <2>3. QED
    BY <2>2 DEF Rule
<1>3. Verdict(imei, imsi) = IF hits = {} THEN NoMatch ELSE eir[Min(hits)].code
  BY DEF Verdict
<1> HIDE DEF hits
<1>4. QED
  BY <1>2, <1>3, CodesAssumption

LEMMA CheckEirStep ==
    ASSUME IInv, NEW h \in Handlers, CheckEir(h)
    PROVE  IInv'
<1> DEFINE code == Verdict(job[h].imei, job[h].imsi)
<1>1. /\ pc[h] = "check" /\ Busy(h) /\ job[h] \in CheckJobs /\ job[h].n \in Checks
      /\ UNCHANGED <<history, done>> /\ CheckStep
      /\ answer \in [Checks -> Codes] /\ work \in 0 .. MaxWork /\ work \in Nat
  BY Idling, JobFacts, CodesAssumption DEF CheckEir, IInv, LocalInv, JobOK, TypeOK, Busy
<1>2. code \in Codes
  BY VerdictIsCode DEF IInv, TypeOK
<1>3. \/ /\ Goto(h, "find", [job[h] EXCEPT !.code = code])
         /\ answer' = [answer EXCEPT ![job[h].n] = code] /\ work' = work
      \/ /\ work' = work + 1 /\ work < MaxWork /\ answer' = answer
         /\ Finish(h) \/ Goto(h, "find", job[h])
  BY DEF CheckEir, Work
<1> HIDE DEF code
<1>4. CASE /\ Goto(h, "find", [job[h] EXCEPT !.code = code])
           /\ answer' = [answer EXCEPT ![job[h].n] = code] /\ work' = work
  <2> DEFINE j == [job[h] EXCEPT !.code = code]
  <2>1. j \in CheckJobs /\ j.n = job[h].n /\ Pair(j) = Pair(job[h])
    BY <1>1, <1>2 DEF CheckJobs, Pair
  <2>2. Goto(h, "find", j) /\ answer' \in [Checks -> Codes]
    BY <1>1, <1>2, <1>4
  <2> HIDE DEF j
  <2>3. QED
    BY <1>1, <1>4, <2>1, <2>2, Idling, CheckGoesOn
<1>5. CASE work' = work + 1 /\ work < MaxWork /\ answer' = answer /\ Finish(h)
  <2>1. work' \in 0 .. MaxWork /\ Goto(h, "idle", Idle)
    BY <1>1, <1>5, CodesAssumption DEF Finish
  <2>2. QED
    BY <1>1, <1>5, <2>1, CheckGoesOn
<1>6. CASE work' = work + 1 /\ work < MaxWork /\ answer' = answer /\ Goto(h, "find", job[h])
  <2>1. work' \in 0 .. MaxWork
    BY <1>1, <1>6, CodesAssumption
  <2>2. QED
    BY <1>1, <1>6, <2>1, Idling, CheckGoesOn
<1>7. QED
  BY <1>3, <1>4, <1>5, <1>6

LEMMA FindRecordStep ==
    ASSUME IInv, NEW h \in Handlers, FindRecord(h)
    PROVE  IInv'
<1>1. /\ pc[h] = "find" /\ Busy(h) /\ job[h] \in CheckJobs /\ Pair(job[h]) \in Pairs
      /\ job[h].imei \in Imeis
      /\ UNCHANGED <<history, done, answer>> /\ CheckStep
      /\ answer \in [Checks -> Codes] /\ work \in 0 .. MaxWork /\ work \in Nat
  BY Idling, JobFacts, CodesAssumption
  DEF FindRecord, IInv, LocalInv, JobOK, TypeOK, Busy, CheckJobs
<1>2. Device(job[h]) \in Devices \cup {None, Unknown}
  <2>1. cache \in [Tacs -> Devices \cup {None}]
    BY DEF IInv, TypeOK, Table, Entry
  <2>2. Lookup(cache, job[h].imei) \in Devices \cup {None}
    BY <1>1, <2>1, PrefixAssumption DEF Lookup
  <2>3. QED
    BY <2>2 DEF Device
<1>3. CASE /\ Goto(h, IF history[Pair(job[h])] = None THEN "insert" ELSE "update",
                  [job[h] EXCEPT !.device = Device(job[h])])
           /\ work' = work
  <2> DEFINE j == [job[h] EXCEPT !.device = Device(job[h])]
             s == IF history[Pair(job[h])] = None THEN "insert" ELSE "update"
  <2>1. j \in CheckJobs /\ j.n = job[h].n /\ Pair(j) = Pair(job[h])
    BY <1>1, <1>2 DEF CheckJobs, Pair
  <2>2. s = "insert" => before[job[h].n] = {}
    <3>1. history[Pair(job[h])] = None => done[Pair(job[h])] = {}
      BY <1>1 DEF IInv, RecInv, Numbered
    <3>2. before[job[h].n] \subseteq done[Pair(job[h])]
      BY <1>1 DEF IInv, RecInv, CheckOK
    <3>3. QED
      BY <3>1, <3>2
  <2>3. Goto(h, s, j) /\ s \in CheckSteps
    BY <1>3, Idling
  <2> HIDE DEF j, s
  <2>4. s # "idle"
    BY <2>3 DEF CheckSteps
  <2>5. QED
    BY <1>1, <1>3, <2>1, <2>2, <2>3, <2>4, CheckGoesOn
<1>4. CASE work' = work + 1 /\ work < MaxWork /\ Finish(h)
  <2>1. work' \in 0 .. MaxWork /\ Goto(h, "idle", Idle)
    BY <1>1, <1>4, CodesAssumption DEF Finish
  <2>2. QED
    BY <1>1, <1>4, <2>1, CheckGoesOn
<1>5. QED
  BY <1>3, <1>4 DEF FindRecord, Work

\* What a record shows after a write: the check that wrote it, unless another was
\* faster to insert it.
LEMMA RecordedFacts ==
    ASSUME NEW j \in CheckJobs, NEW row \in Row \cup {None}, NEW step \in {"insert", "update"}
    PROVE  /\ Recorded(row, step, j) \in Row
           /\ IF row # None /\ step = "insert" THEN Recorded(row, step, j) = row
              ELSE Recorded(row, step, j).n = j.n
<1>1. /\ j.n \in Checks /\ j.code \in Codes /\ j.device \in Devices \cup {None, Unknown}
  BY JobFacts
<1>2. CASE row = None
  BY <1>1, <1>2 DEF Recorded, Row
<1>3. CASE row # None /\ step = "insert"
  BY <1>3 DEF Recorded
<1>4. CASE row # None /\ step = "update"
  <2>1. row \in Row
    BY <1>4
  <2>2. Recorded(row, step, j) =
            [n |-> j.n, code |-> IF j.code = 0 THEN row.code ELSE j.code,
             device |-> IF j.device = None THEN row.device ELSE j.device]
    BY <1>4 DEF Recorded
  <2>3. QED
    BY <1>1, <1>4, <2>1, <2>2 DEF Row
<1>5. QED
  BY <1>2, <1>3, <1>4

LEMMA WriteRecordStep ==
    ASSUME IInv, NEW h \in Handlers, WriteRecord(h)
    PROVE  IInv'
<1> DEFINE p0  == Pair(job[h])
           n0  == job[h].n
           row == Recorded(history[p0], pc[h], job[h])
<1>1. /\ pc[h] \in {"insert", "update"} /\ Busy(h) /\ job[h] \in CheckJobs /\ p0 \in Pairs
      /\ n0 \in Checks /\ Finish(h) /\ answer' = answer /\ CheckStep
      /\ answer \in [Checks -> Codes] /\ work \in 0 .. MaxWork /\ work \in Nat
      /\ history \in [Pairs -> Row \cup {None}] /\ done \in [Pairs -> SUBSET Checks]
  BY Idling, JobFacts, CodesAssumption DEF WriteRecord, IInv, LocalInv, JobOK, TypeOK, Busy
<1>2. /\ Goto(h, "idle", Idle) /\ pc'[h] = "idle" /\ job'[h] = Idle /\ JobOK(h)'
      /\ \A g \in Handlers \ {h} : pc'[g] = pc[g] /\ job'[g] = job[g]
      /\ pc' \in [Handlers -> Steps] /\ job' \in [Handlers -> AnyJob]
  <2>1. Goto(h, "idle", Idle) /\ TypeOK
    BY <1>1 DEF Finish, IInv
  <2>2. QED
    BY <1>1, <2>1, FinishFacts, Idling, GotoFacts
<1>3. CASE work' = work + 1 /\ work < MaxWork /\ UNCHANGED <<history, done>>
  <2>1. work' \in 0 .. MaxWork
    BY <1>1, <1>3, CodesAssumption
  <2>2. QED
    BY <1>1, <1>2, <1>3, <2>1, CheckGoesOn
<1>4. CASE /\ history' = [history EXCEPT ![p0] = row]
           /\ done' = [done EXCEPT ![p0] = done[p0] \cup {n0}] /\ work' = work
  <2>1. /\ row \in Row
        /\ IF history[p0] # None /\ pc[h] = "insert" THEN row = history[p0] ELSE row.n = n0
    BY <1>1, RecordedFacts
  <2> HIDE DEF row, p0, n0
  <2>2. /\ history' \in [Pairs -> Row \cup {None}] /\ history'[p0] = row
        /\ \A p \in Pairs \ {p0} : history'[p] = history[p]
    BY <1>1, <1>4, <2>1
  <2>3. /\ done' \in [Pairs -> SUBSET Checks] /\ done'[p0] = done[p0] \cup {n0}
        /\ \A p \in Pairs \ {p0} : done'[p] = done[p]
    BY <1>1, <1>4
  <2>4. UNCHANGED <<eir, tac, cache, tacOn, logged, crossed, reverted, before, answer>>
    BY <1>1 DEF CheckStep, tacVars
  <2>5. TypeOK'
    BY <1>2, <1>4, <2>2, <2>3, <2>4 DEF IInv, TypeOK
  <2>6. LocalInv'
    BY <1>2, LocalKept DEF IInv
  <2>7. CacheInv'
    <3>1. Touched(job[h]) = {} /\ Touched(job'[h]) = {}
      BY <1>1, <1>2, JobFacts
    <3>2. QED
      BY <3>1, <1>1, <1>2, CacheKept DEF IInv, CheckStep
  <2>8. /\ n0 <= work /\ \A m \in Checks : n0 \notin before[m]
        /\ \A g \in Handlers \ {h} : Busy(g) => job[g].n # n0
        /\ before[n0] \subseteq done[p0] /\ (pc[h] = "insert" => before[n0] = {})
    BY <1>1 DEF IInv, RecInv, CheckOK, Distinct, n0, p0
  <2>9. Numbered'
    <3>1. \A p \in Pairs : \A n \in done'[p] : n <= work'
      BY <2>3, <2>8, <1>4 DEF IInv, RecInv, Numbered
    <3>2. \A p \in Pairs : history'[p] = None => done'[p] = {}
      BY <2>1, <2>2, <2>3, NoneAssumption DEF IInv, RecInv, Numbered
    <3>3. QED
      BY <3>1, <3>2, <2>4, <1>4 DEF IInv, RecInv, Numbered
  <2>10. Distinct'
    BY <1>2 DEF IInv, RecInv, Distinct, Busy, CheckSteps
  <2>11. ASSUME NEW g \in Handlers PROVE CheckOK(g)'
    <3>1. CASE g = h
      BY <3>1, <1>2 DEF CheckOK, Busy, CheckSteps
    <3>2. CASE g # h
      <4> SUFFICES ASSUME Busy(g)
                   PROVE  /\ job[g].n <= work
                          /\ \A p \in Pairs : job[g].n \notin done'[p]
                          /\ \A m \in Checks : job[g].n \notin before[m]
                          /\ before[job[g].n] \subseteq done'[Pair(job[g])]
                          /\ pc[g] = "insert" => before[job[g].n] = {}
        BY <3>2, <1>2, <1>4, <2>4 DEF CheckOK, Busy
      <4>1. CheckOK(g)
        BY DEF IInv, RecInv
      <4>2. \A p \in Pairs : job[g].n \notin done'[p]
        BY <4>1, <3>2, <2>3, <2>8 DEF CheckOK
      <4>3. Pair(job[g]) \in Pairs
        BY JobFacts DEF IInv, LocalInv, JobOK, Busy
      <4>4. done[Pair(job[g])] \subseteq done'[Pair(job[g])]
        BY <4>3, <2>3
      <4>5. QED
        BY <4>1, <4>2, <4>4 DEF CheckOK
    <3>3. QED
      BY <3>1, <3>2
  <2>12. HistoryMovesOn'
    <3> SUFFICES ASSUME NEW p \in Pairs, history'[p] # None, NEW m \in done'[p]
                 PROVE  history'[p].n \notin before[m]
      BY <2>4 DEF HistoryMovesOn
    <3>1. HistoryMovesOn /\ m \in Checks
      BY <2>3 DEF IInv, RecInv
    <3>2. CASE p # p0
      BY <3>1, <3>2, <2>2, <2>3 DEF HistoryMovesOn
    <3>3. CASE p = p0 /\ row.n = n0
      BY <3>1, <3>3, <2>2, <2>8
    <3>4. CASE p = p0 /\ history[p0] # None /\ pc[h] = "insert" /\ row = history[p0]
      <4>1. CASE m = n0
        BY <4>1, <3>4, <2>8
      <4>2. CASE m # n0
        BY <4>2, <3>1, <3>4, <2>2, <2>3 DEF HistoryMovesOn
      <4>3. QED
        BY <4>1, <4>2
    <3>5. QED
      BY <3>2, <3>3, <3>4, <2>1
  <2>13. QED
    BY <2>5, <2>6, <2>7, <2>9, <2>10, <2>11, <2>12 DEF IInv, RecInv
<1>5. QED
  BY <1>3, <1>4 DEF WriteRecord, Work

-----------------------------------------------------------------------------
(***************************************************************************)
(* Requests that arrive.                                                   *)
(***************************************************************************)
LEMMA ReceiveStep ==
    ASSUME IInv, NEW h \in Handlers, Receive(h)
    PROVE  IInv'
<1> DEFINE N == work + 1
<1>1. /\ pc[h] = "idle" /\ job[h] = Idle /\ work' = N /\ work \in Nat /\ N \in Checks
      /\ work' \in 0 .. MaxWork
      /\ UNCHANGED <<eir, tac, cache, tacOn, logged, reverted, history, done, answer>>
  BY CodesAssumption DEF Receive, Work, IInv, LocalInv, JobOK, TypeOK, Checks
<1>2. PICK j \in Jobs :
          IF IsCheck(j)
          THEN /\ Goto(h, "check", [op |-> j.op, imsi |-> j.imsi, imei |-> j.imei,
                                    n |-> N, code |-> NoMatch, device |-> None])
               /\ before' = [before EXCEPT ![N] = done[Pair(j)]]
               /\ UNCHANGED crossed
          ELSE /\ Goto(h, IF j.op = "put" THEN "read" ELSE "db", j)
               /\ crossed' = crossed \cup UNION {Touched(j) \cap Touched(job[g]) : g \in Handlers}
               /\ UNCHANGED before
  BY <1>1 DEF Receive
<1> HIDE DEF N
<1>3. CASE IsCheck(j)
  <2> DEFINE k == [op |-> j.op, imsi |-> j.imsi, imei |-> j.imei,
                   n |-> N, code |-> NoMatch, device |-> None]
  <2>1. j.op \in {"ecr", "pei"} /\ j.imsi \in Imsis /\ j.imei \in Imeis
    BY <1>3 DEF IsCheck, Jobs
  <2>2. k \in CheckJobs /\ k.n = N /\ Pair(k) = Pair(j) /\ Pair(j) \in Pairs
    BY <2>1, <1>1, CodesAssumption DEF CheckJobs, Pair, Pairs
  <2>3. Goto(h, "check", k) /\ before' = [before EXCEPT ![N] = done[Pair(j)]] /\ crossed' = crossed
    BY <1>2, <1>3
  <2> HIDE DEF k
  <2>4. /\ pc' \in [Handlers -> Steps] /\ job' \in [Handlers -> AnyJob]
        /\ pc'[h] = "check" /\ job'[h] = k
        /\ \A g \in Handlers \ {h} : pc'[g] = pc[g] /\ job'[g] = job[g]
    BY <2>2, <2>3, Idling, GotoFacts DEF IInv
  <2>5. /\ before' \in [Checks -> SUBSET Checks] /\ before'[N] = done[Pair(j)]
        /\ \A m \in Checks \ {N} : before'[m] = before[m]
    BY <2>2, <2>3, <1>1 DEF IInv, TypeOK
  <2>6. TypeOK'
    BY <1>1, <2>3, <2>4, <2>5 DEF IInv, TypeOK
  <2>7. JobOK(h)'
    BY <2>2, <2>4 DEF JobOK
  <2>8. LocalInv'
    BY <2>4, <2>7, LocalKept DEF IInv
  <2>9. CacheInv'
    <3>1. Touched(job[h]) = {} /\ Touched(job'[h]) = {}
      BY <1>1, <2>2, <2>4, JobFacts
    <3>2. UNCHANGED tacVars
      BY <1>1, <2>3 DEF tacVars
    <3>3. QED
      BY <3>1, <3>2, <2>4, CacheKept DEF IInv
  <2>10. /\ \A p \in Pairs : \A n \in done[p] : n \in Nat /\ n <= work /\ n # N
         /\ \A m \in Checks : \A n \in before[m] : n \in Nat /\ n <= work /\ n # N
    <3>1. \A n \in Nat : n <= work => n # N
      BY <1>1 DEF N
    <3>2. QED
      BY <3>1, RecTypes DEF IInv, RecInv, Numbered
  <2>11. work <= work' /\ N <= work' /\ \A n \in Nat : n <= work => n <= work'
    BY <1>1 DEF N
  <2>12. Numbered'
    <3>1. \A m \in Checks : \A n \in before'[m] : n <= work'
      BY <2>2, <2>5, <2>10, <2>11
    <3>2. QED
      BY <3>1, <2>10, <2>11, <1>1 DEF IInv, RecInv, Numbered
  <2>13. \A g \in Handlers \ {h} : Busy(g) => job[g].n \in Nat /\ job[g].n <= work /\ job[g].n # N
    <3>1. \A n \in Nat : n <= work => n # N
      BY <1>1 DEF N
    <3>2. QED
      BY <3>1, RecTypes DEF IInv, RecInv, CheckOK
  <2>14. Distinct'
    BY <2>2, <2>4, <2>13 DEF IInv, RecInv, Distinct, Busy
  <2>15. ASSUME NEW g \in Handlers PROVE CheckOK(g)'
    <3>1. CASE g = h
      <4>1. \A m \in Checks : N \notin before'[m]
        BY <2>2, <2>5, <2>10
      <4>2. pc'[g] # "insert" /\ job'[g].n = N /\ Pair(job'[g]) = Pair(j)
        BY <3>1, <2>2, <2>4
      <4>3. QED
        BY <4>1, <4>2, <2>5, <2>10, <2>11, <1>1 DEF CheckOK
    <3>2. CASE g # h
      <4> SUFFICES ASSUME Busy(g)
                   PROVE  /\ job[g].n <= work'
                          /\ \A p \in Pairs : job[g].n \notin done[p]
                          /\ \A m \in Checks : job[g].n \notin before'[m]
                          /\ before'[job[g].n] \subseteq done[Pair(job[g])]
                          /\ pc[g] = "insert" => before'[job[g].n] = {}
        BY <3>2, <1>1, <2>4 DEF CheckOK, Busy
      <4>1. CheckOK(g) /\ job[g].n # N /\ job[g].n <= work' /\ job[g].n \in Checks
        BY <3>2, <2>11, <2>13, RecTypes, JobFacts DEF IInv, RecInv
      <4>2. \A p \in Pairs : job[g].n \notin done[p]
        BY <4>1 DEF CheckOK
      <4>3. \A m \in Checks : job[g].n \notin before'[m]
        BY <4>1, <4>2, <2>2, <2>5 DEF CheckOK
      <4>4. before'[job[g].n] = before[job[g].n]
        BY <4>1, <2>5
      <4>5. QED
        BY <4>1, <4>2, <4>3, <4>4 DEF CheckOK
    <3>3. QED
      BY <3>1, <3>2
  <2>16. HistoryMovesOn'
    <3> SUFFICES ASSUME NEW p \in Pairs, history[p] # None, NEW m \in done[p]
                 PROVE  history[p].n \notin before'[m]
      BY <1>1 DEF HistoryMovesOn
    <3>1. m \in Checks \ {N}
      BY <2>10 DEF IInv, TypeOK
    <3>2. QED
      BY <3>1, <2>5 DEF IInv, RecInv, HistoryMovesOn
  <2>17. QED
    BY <2>6, <2>8, <2>9, <2>12, <2>14, <2>15, <2>16 DEF IInv, RecInv
<1>4. CASE ~IsCheck(j)
  <2> DEFINE s == IF j.op = "put" THEN "read" ELSE "db"
  <2>1. j \in TacJobs \cup ImportJobs /\ (j.op = "put" => j \in PutJobs)
    BY <1>4 DEF IsCheck, Jobs, TacJobs, PutJobs, ImportJobs
  <2>2. Goto(h, s, j) /\ before' = before
        /\ crossed' = crossed \cup UNION {Touched(j) \cap Touched(job[g]) : g \in Handlers}
    BY <1>2, <1>4
  <2>3. s \in {"read", "db"} /\ s \in Steps /\ j \in AnyJob /\ (s = "read" => j \in PutJobs)
    BY <2>1, Idling
  <2> HIDE DEF s
  <2>4. /\ pc' \in [Handlers -> Steps] /\ job' \in [Handlers -> AnyJob]
        /\ pc'[h] = s /\ job'[h] = j
        /\ \A g \in Handlers \ {h} : pc'[g] = pc[g] /\ job'[g] = job[g]
    BY <2>2, <2>3, GotoFacts DEF IInv
  <2>5. Touched(j) \subseteq Tacs
    BY <2>1, JobFacts
  <2>6. crossed' \subseteq Tacs /\ crossed \subseteq crossed'
        /\ \A g \in Handlers, t \in Tacs \ crossed' : t \in Touched(j) => t \notin Touched(job[g])
    BY <2>2, <2>5 DEF IInv, TypeOK
  <2>7. TypeOK'
    BY <1>1, <2>2, <2>4, <2>6 DEF IInv, TypeOK
  <2>8. JobOK(h)'
    BY <2>1, <2>3, <2>4 DEF JobOK, CheckSteps
  <2>9. LocalInv'
    BY <2>4, <2>8, LocalKept DEF IInv
  <2>10. CacheInv'
    <3> SUFFICES ASSUME tacOn, NEW t \in Tacs \ crossed' PROVE TacOK(t)'
      BY <1>1 DEF CacheInv
    <3>1. TacOK(t) /\ Touched(job[h]) = {}
      BY <2>6, <1>1, JobFacts DEF IInv, CacheInv
    <3>2. CASE t \notin Touched(j)
      BY <3>1, <3>2, <1>1, <2>4, TacByHandler
    <3>3. CASE t \in Touched(j)
      <4>1. \A g \in Handlers : t \notin Touched(job[g])
        BY <3>3, <2>6
      <4>2. t \notin reverted => cache[t] = tac[t]
        BY <3>1, <4>1 DEF TacOK, Free
      <4>3. \A g \in Handlers : t \in Touched(job'[g]) => g = h
        BY <4>1, <2>4
      <4>4. Alone(t)' /\ (t \notin reverted' => Free(t)')
        BY <4>2, <4>3, <1>1 DEF Alone, Free
      <4>5. t \notin reverted' => \A g \in Handlers : InStep(g, t)'
        BY <4>2, <4>3, <1>1, <2>3, <2>4 DEF InStep
      <4>6. QED
        BY <4>4, <4>5 DEF TacOK
    <3>4. QED
      BY <3>2, <3>3
  <2>11. ~Busy(h)'
    BY <2>3, <2>4 DEF Busy, CheckSteps
  <2>12. RecInv'
    BY <1>1, <2>2, <2>4, <2>11, RecTypes, RecKept DEF IInv, N
  <2>13. QED
    BY <2>7, <2>9, <2>10, <2>12 DEF IInv
<1>5. QED
  BY <1>3, <1>4

-----------------------------------------------------------------------------
(***************************************************************************)
(* Rules, restarts and the beginning.                                      *)
(***************************************************************************)
LEMMA NoHandler ==
    ASSUME IInv, eir' \in Seq(Rule), work' \in {work, work + 1}, work' \in 0 .. MaxWork,
           tac' \in Table, reverted' \subseteq Tacs, logged' \in [Tacs -> SUBSET Entry],
           \A t \in Tacs : t \notin reverted' => tac'[t] = tac[t] /\ t \notin reverted,
           UNCHANGED <<cache, tacOn, crossed, recVars, pc, job>>
    PROVE  IInv'
<1>1. UNCHANGED <<cache, tacOn, crossed, history, done, before, answer, pc, job>>
  BY DEF recVars
<1>2. TypeOK'
  BY <1>1 DEF IInv, TypeOK
<1>3. LocalInv'
  BY <1>1 DEF IInv, LocalInv, JobOK
<1>4. CacheInv'
  BY <1>1 DEF IInv, CacheInv, TacOK, Alone, Free, InStep
<1>5. work \in Nat /\ work <= work' /\ \A n \in Nat : n <= work => n <= work'
  BY RecTypes DEF IInv
<1>6. Numbered'
  BY <1>1, <1>5, RecTypes DEF IInv, RecInv, Numbered
<1>7. Distinct' /\ HistoryMovesOn'
  BY <1>1 DEF IInv, RecInv, Distinct, Busy, HistoryMovesOn
<1>8. ASSUME NEW g \in Handlers PROVE CheckOK(g)'
  <2>1. CheckOK(g) /\ (Busy(g) => job[g].n \in Nat)
    BY RecTypes DEF IInv, RecInv
  <2>2. QED
    BY <2>1, <1>1, <1>5 DEF CheckOK, Busy
<1>9. QED
  BY <1>2, <1>3, <1>4, <1>6, <1>7, <1>8 DEF IInv, RecInv

LEMMA RollbackTacStep ==
    ASSUME IInv, RollbackTac
    PROVE  IInv'
<1>1. PICK t \in Tacs : \E d \in logged[t] :
          /\ tac' = [tac EXCEPT ![t] = d]
          /\ logged' = [logged EXCEPT ![t] = IF d = None THEN {} ELSE @]
          /\ reverted' = reverted \cup {t}
  BY DEF RollbackTac
<1>2. PICK d \in logged[t] :
          /\ tac' = [tac EXCEPT ![t] = d]
          /\ logged' = [logged EXCEPT ![t] = IF d = None THEN {} ELSE @]
          /\ reverted' = reverted \cup {t}
  BY <1>1
<1>3. tac \in Table /\ logged \in [Tacs -> SUBSET Entry] /\ reverted \subseteq Tacs
      /\ eir \in Seq(Rule) /\ d \in Entry
  BY DEF IInv, TypeOK
<1>4. tac' \in Table /\ logged' \in [Tacs -> SUBSET Entry] /\ reverted' \subseteq Tacs
      /\ \A u \in Tacs : u \notin reverted' => tac'[u] = tac[u] /\ u \notin reverted
  BY <1>2, <1>3 DEF Table
<1>5. /\ UNCHANGED <<eir, cache, tacOn, crossed, recVars, pc, job>>
      /\ work' \in {work, work + 1} /\ work' \in 0 .. MaxWork
  BY CodesAssumption DEF RollbackTac, Work, IInv, TypeOK
<1>6. QED
  BY <1>3, <1>4, <1>5, NoHandler

LEMMA EirStepHolds ==
    ASSUME IInv, CreateEir \/ UpdateEir \/ DeleteEir
    PROVE  IInv'
<1>1. eir \in Seq(Rule) /\ Len(eir) \in Nat
  BY DEF IInv, TypeOK
<1>2. eir' \in Seq(Rule)
  <2>1. CASE CreateEir
    <3>1. PICK r \in Rule, i \in 1 .. Len(eir) + 1 :
              eir' = InsertAt(eir, i, [r EXCEPT !.regex = TRUE])
      BY <2>1 DEF CreateEir
    <3> DEFINE r1 == [r EXCEPT !.regex = TRUE]
    <3>2. r1 \in Rule
      BY DEF Rule
    <3>3. eir' = InsertAt(eir, i, r1)
      BY <3>1
    <3> HIDE DEF r1
    <3>4. QED
      BY <1>1, <3>2, <3>3, InsertAtSeq
  <2>2. CASE UpdateEir
    <3>1. PICK k \in 1 .. Len(eir), r \in Rule : \E i \in {k, Len(eir)} :
              eir' = InsertAt(RemoveAt(eir, k), i, r)
      BY <2>2 DEF UpdateEir
    <3>2. PICK i \in {k, Len(eir)} : eir' = InsertAt(RemoveAt(eir, k), i, r)
      BY <3>1
    <3>3. RemoveAt(eir, k) \in Seq(Rule) /\ Len(RemoveAt(eir, k)) = Len(eir) - 1
      BY <1>1, RemoveAtSeq
    <3>4. i \in 1 .. Len(RemoveAt(eir, k)) + 1
      BY <1>1, <3>3
    <3>5. QED
      BY <3>2, <3>3, <3>4, InsertAtSeq
  <2>3. CASE DeleteEir
    BY <1>1, <2>3, RemoveAtSeq DEF DeleteEir
  <2>4. QED
    BY <2>1, <2>2, <2>3
<1>3. EirStep
  BY DEF CreateEir, UpdateEir, DeleteEir
<1>4. work' \in {work, work + 1} /\ work' \in 0 .. MaxWork
  BY <1>3, CodesAssumption DEF EirStep, Work, IInv, TypeOK
<1>5. QED
  BY <1>2, <1>3, <1>4, NoHandler DEF EirStep, tacVars, IInv, TypeOK

LEMMA RestartStep ==
    ASSUME IInv, Restart
    PROVE  IInv'
<1>1. /\ pc' = [h \in Handlers |-> "idle"] /\ job' = [h \in Handlers |-> Idle]
      /\ cache' = tac /\ crossed' = {} /\ reverted' = {} /\ tacOn' \in BOOLEAN
      /\ UNCHANGED <<eir, tac, logged, history, done, before, answer>>
      /\ work \in Nat /\ work' = work + 1 /\ work' \in 0 .. MaxWork
  BY CodesAssumption DEF Restart, Work, recVars, IInv, TypeOK
<1>2. \A h \in Handlers : pc'[h] = "idle" /\ job'[h] = Idle /\ Touched(job'[h]) = {}
  BY <1>1, JobFacts
<1>3. pc' \in [Handlers -> Steps] /\ job' \in [Handlers -> AnyJob]
  BY <1>1, Idling
<1>4. TypeOK'
  BY <1>1, <1>3 DEF IInv, TypeOK
<1>5. LocalInv'
  BY <1>2 DEF LocalInv, JobOK, CheckSteps
<1>6. CacheInv'
  BY <1>1, <1>2 DEF CacheInv, TacOK, Alone, Free, InStep
<1>7. \A h \in Handlers : ~Busy(h)'
  BY <1>2 DEF Busy, CheckSteps
<1>8. Numbered'
  <2>1. \A n \in Nat : n <= work => n <= work'
    BY <1>1
  <2>2. QED
    BY <2>1, <1>1, RecTypes DEF IInv, RecInv, Numbered
<1>9. Distinct' /\ HistoryMovesOn' /\ \A h \in Handlers : CheckOK(h)'
  BY <1>1, <1>7 DEF IInv, RecInv, Distinct, HistoryMovesOn, CheckOK
<1>10. QED
  BY <1>4, <1>5, <1>6, <1>8, <1>9 DEF IInv, RecInv

LEMMA InitHolds == Init => IInv
<1> SUFFICES ASSUME Init PROVE IInv
  OBVIOUS
<1>1. \A h \in Handlers : pc[h] = "idle" /\ job[h] = Idle /\ Touched(job[h]) = {} /\ ~Busy(h)
  BY JobFacts DEF Init, Busy, CheckSteps
<1>2. pc \in [Handlers -> Steps] /\ job \in [Handlers -> AnyJob]
  BY Idling DEF Init
<1>3. TypeOK
  <2>1. /\ tac \in Table /\ cache \in Table /\ crossed \subseteq Tacs /\ tacOn \in BOOLEAN
        /\ reverted \subseteq Tacs /\ logged \in [Tacs -> SUBSET Entry]
    BY DEF Init, Table, Entry
  <2>2. history \in [Pairs -> Row \cup {None}] /\ done \in [Pairs -> SUBSET Checks]
        /\ before \in [Checks -> SUBSET Checks] /\ answer \in [Checks -> Codes]
    BY CodesAssumption DEF Init
  <2>3. eir \in Seq(Rule) /\ work \in 0 .. MaxWork
    BY CodesAssumption DEF Init
  <2>4. QED
    BY <1>2, <2>1, <2>2, <2>3 DEF TypeOK
<1>4. LocalInv
  BY <1>1 DEF LocalInv, JobOK, CheckSteps
<1>5. CacheInv
  BY <1>1 DEF Init, CacheInv, TacOK, Alone, Free, InStep
<1>6. RecInv
  BY <1>1 DEF Init, RecInv, Numbered, Distinct, CheckOK, HistoryMovesOn
<1>7. QED
  BY <1>3, <1>4, <1>5, <1>6 DEF IInv

LEMMA StepHolds == IInv /\ [Next]_vars => IInv'
<1> SUFFICES ASSUME IInv, [Next]_vars PROVE IInv'
  OBVIOUS
<1>1. ASSUME NEW h \in Handlers,
             \/ Receive(h) \/ ReadTac(h) \/ WriteTac(h) \/ CacheTac(h)
             \/ ImportTac(h) \/ ReloadTac(h) \/ LoadTac(h)
             \/ CheckEir(h) \/ FindRecord(h) \/ WriteRecord(h)
      PROVE  IInv'
  BY <1>1, ReceiveStep, ReadTacStep, WriteTacStep, CacheTacStep, ImportTacStep, ReloadTacStep,
     LoadTacStep, CheckEirStep, FindRecordStep, WriteRecordStep
<1>2. CASE CreateEir \/ UpdateEir \/ DeleteEir
  BY <1>2, EirStepHolds
<1>3. CASE Restart
  BY <1>3, RestartStep
<1>4. CASE UNCHANGED vars
  <2>1. eir' \in Seq(Rule) /\ work' = work /\ work' \in 0 .. MaxWork
    BY <1>4 DEF vars, IInv, TypeOK
  <2>2. QED
    BY <1>4, <2>1, NoHandler DEF vars, tacVars, IInv, TypeOK
<1>5. CASE RollbackTac
  BY <1>5, RollbackTacStep
<1>6. QED
  BY <1>1, <1>2, <1>3, <1>4, <1>5 DEF Next

\* The invariant the properties follow from: rules, cache and history.
THEOREM Invariance == Spec => []IInv
<1>1. QED
  BY InitHolds, StepHolds, PTL DEF Spec

-----------------------------------------------------------------------------
(***************************************************************************)
(* The properties.                                                         *)
(***************************************************************************)

\* Every variable keeps its type.
THEOREM TypeCorrect == Spec => []TypeOK
<1>1. IInv => TypeOK
  BY DEF IInv
<1>2. QED
  BY <1>1, Invariance, PTL

\* Device types whose writes did not overlap are the same in the cache and in the
\* table, and the two ways to look an equipment up agree, whatever handlers, imports,
\* reloads and restarts do, but for those rolled back and not written since
\* (taccache/cache.go:41-83, api/tac.go:131-208, api/operation_log.go:84-111).
THEOREM CacheAgrees == Spec => []CacheFollowsTable
<1>1. IInv => CacheFollowsTable
  <2> SUFFICES ASSUME IInv, tacOn PROVE CacheFollowsTable
    BY DEF CacheFollowsTable
  <2>1. ASSUME NEW t \in Quiet PROVE t \in Tacs /\ cache[t] = tac[t]
    <3>1. TacOK(t) /\ \A h \in Handlers : t \notin Touched(job[h])
      BY <2>1 DEF IInv, CacheInv, Quiet, Settled
    <3>2. QED
      BY <2>1, <3>1 DEF TacOK, Free, Quiet, Settled
  <2>2. ASSUME NEW i \in Imeis, {Tac8[i], Tac6[i]} \subseteq Quiet \cup {None}
        PROVE  Lookup(cache, i) = lookupTACByIMEI(i)
    <3>1. /\ Tac8[i] # None => cache[Tac8[i]] = tac[Tac8[i]]
          /\ Tac6[i] # None => cache[Tac6[i]] = tac[Tac6[i]]
      BY <2>1, <2>2
    <3>2. CASE Tac8[i] # None /\ tac[Tac8[i]] # None
      BY <3>1, <3>2 DEF Lookup, lookupTACByIMEI
    <3>3. CASE ~(Tac8[i] # None /\ tac[Tac8[i]] # None) /\ Tac6[i] # None /\ tac[Tac6[i]] # None
      BY <3>1, <3>3 DEF Lookup, lookupTACByIMEI
    <3>4. CASE ~(Tac8[i] # None /\ tac[Tac8[i]] # None) /\ ~(Tac6[i] # None /\ tac[Tac6[i]] # None)
      BY <3>1, <3>4 DEF Lookup, lookupTACByIMEI
    <3>5. QED
      BY <3>2, <3>3, <3>4
  <2>3. QED
    BY <2>1, <2>2 DEF CacheFollowsTable
<1>2. QED
  BY <1>1, Invariance, PTL

\* What a rule matches is what it applies to.
LEMMA MatchesApplying ==
    ASSUME NEW r \in Rule, NEW imei \in Imeis, NEW imsi \in Imsis
    PROVE  Matches(r, imei, imsi) <=> AppliesTo(r, imei, imsi)
<1>1. None # imei /\ None # imsi
  BY NoneAssumption
<1>2. r.regex \in BOOLEAN
  BY DEF Rule
<1>3. CASE r.regex
  BY <1>3 DEF Matches, AppliesTo
<1>4. CASE ~r.regex
  BY <1>1, <1>4 DEF Matches, AppliesTo
<1>5. QED
  BY <1>2, <1>3, <1>4

\* The order of the rules in the database matters only where rules that apply differ,
\* and a rule that names nothing applies to nothing (s13/ecr.go:62-101).
THEOREM OrderDoesNotMatter == Spec => []RulesDecide
<1>1. IInv => RulesDecide
  <2> SUFFICES ASSUME eir \in Seq(Rule), NEW imei \in Imeis, NEW imsi \in Imsis
               PROVE  LET codes == {r.code : r \in {x \in ToSet(eir) : AppliesTo(x, imei, imsi)}}
                      IN /\ codes = {} => Verdict(imei, imsi) = NoMatch
                         /\ Cardinality(codes) = 1 => Verdict(imei, imsi) \in codes
    BY DEF IInv, TypeOK, RulesDecide
  <2> DEFINE codes == {r.code : r \in {x \in ToSet(eir) : AppliesTo(x, imei, imsi)}}
             hits  == {k \in DOMAIN eir : Matches(eir[k], imei, imsi)}
  <2>1. \A k \in DOMAIN eir : eir[k] \in Rule /\ eir[k] \in ToSet(eir)
    BY DEF ToSet
  <2>2. \A k \in hits : eir[k].code \in codes
    BY <2>1, MatchesApplying
  <2>3. codes # {} => hits # {}
    <3> SUFFICES ASSUME NEW r \in ToSet(eir), AppliesTo(r, imei, imsi) PROVE hits # {}
      OBVIOUS
    <3>1. PICK k \in DOMAIN eir : eir[k] = r
      BY DEF ToSet
    <3>2. k \in hits
      BY <3>1, <2>1, MatchesApplying
    <3>3. QED
      BY <3>2
  <2>4. hits \subseteq Nat
    OBVIOUS
  <2>5. Verdict(imei, imsi) = IF hits = {} THEN NoMatch ELSE eir[Min(hits)].code
    BY DEF Verdict
  <2> HIDE DEF codes, hits
  <2>6. hits # {} => Verdict(imei, imsi) \in codes
    BY <2>2, <2>4, <2>5, MinFacts
  <2>7. codes = {} => Verdict(imei, imsi) = NoMatch
    BY <2>5, <2>6
  <2>8. Cardinality(codes) = 1 => codes # {}
    <3>1. Cardinality({}) = 0
      BY FS_EmptySet, Zenon
    <3>2. codes = {} => Cardinality(codes) = 0
      BY <3>1, Zenon
    <3>3. QED
      BY <3>2
  <2>9. QED
    BY <2>3, <2>6, <2>7, <2>8 DEF codes
<1>2. QED
  BY <1>1, Invariance, PTL

\* No check that is over began after the recorded one was over: concurrent checks may
\* lose their record to one another, whichever interface they came in on
\* (store.go:255-276).
THEOREM HistoryNeverGoesBack == Spec => []HistoryMovesOn
<1>1. IInv => HistoryMovesOn
  BY DEF IInv, RecInv
<1>2. QED
  BY <1>1, Invariance, PTL


-----------------------------------------------------------------------------
(***************************************************************************)
(* The REST interface: what rows, schema and log are made of.              *)
(***************************************************************************)
\* The contents of a row that is there.
Filled(r) == [data : {"default", "zero", "other"}, rest : 1 .. 2, key : {"own", "new"},
              spaced : BOOLEAN, refs : SUBSET Refs[r]]

\* What a row holds is nothing, or data, a key and references of the row.
LEMMA ContentFacts ==
    ASSUME NEW r \in Rows
    PROVE  /\ Absent \in Content[r] /\ Absent.refs = {} /\ Absent.key = "own"
           /\ Absent.data = "none" /\ Content[r] \subseteq Contents
           /\ \A c \in Content[r] : c.refs \subseteq Refs[r]
           /\ \A c \in Content[r] : c # Absent => c \in Filled(r)
           /\ \A c \in Filled(r) : c \in Content[r] /\ c # Absent
<1>1. Content[r] = Filled(r) \cup {Absent}
  BY DEF Content, Filled
<1>2. Absent.refs = {} /\ Absent.key = "own" /\ Absent.data = "none"
  BY DEF Absent, Plain
<1>3. Content[r] \subseteq Contents
  BY DEF Contents
<1>4. \A c \in Filled(r) : c.data # "none" /\ c.refs \subseteq Refs[r]
  BY DEF Filled
<1>5. QED
  BY <1>1, <1>2, <1>3, <1>4

\* A plain row is there.
LEMMA PlainFacts ==
    ASSUME NEW r \in Rows, NEW l \in SUBSET Refs[r]
    PROVE  /\ Plain(l) \in Filled(r) /\ Plain(l) \in Content[r] /\ Plain(l) # Absent
           /\ Plain(l).refs = l /\ Plain(l).key = "own"
<1>1. Plain(l) \in Filled(r) /\ Plain(l).refs = l /\ Plain(l).key = "own"
  BY DEF Plain, Filled
<1>2. QED
  BY <1>1, ContentFacts

\* A default for a column left zero: the row is as it was in every other respect.
LEMMA StoredFacts ==
    ASSUME NEW r \in Rows, NEW c \in Content[r]
    PROVE  /\ Stored(c) \in Content[r] /\ (Stored(c) = Absent <=> c = Absent)
           /\ Stored(c).refs = c.refs /\ Stored(c).key = c.key /\ Stored(c).spaced = c.spaced
           /\ Stored(c).data # "zero"
           /\ Stored(Stored(c)) = Stored(c) /\ Seen(Stored(c)) = Seen(c)
<1>1. CASE c.data # "zero"
  <2>1. Stored(c) = c
    BY <1>1 DEF Stored
  <2>2. QED
    BY <1>1, <2>1
<1>2. CASE c.data = "zero"
  <2> DEFINE s == [c EXCEPT !.data = "default"]
  <2>1. c \in Filled(r) /\ c # Absent
    BY <1>2, ContentFacts
  <2>2. s \in Filled(r) /\ s.data = "default" /\ s.refs = c.refs /\ s.key = c.key /\ s.spaced = c.spaced
    BY <2>1 DEF Filled
  <2>3. Stored(c) = s
    BY <1>2 DEF Stored
  <2> HIDE DEF s
  <2>4. Stored(s) = s
    BY <2>2 DEF Stored
  <2>5. Seen(s) = Seen(c)
    BY <2>3, <2>4 DEF Seen
  <2>6. QED
    BY <2>1, <2>2, <2>3, <2>4, <2>5, ContentFacts
<1>3. QED
  BY <1>1, <1>2

\* Rows that look the same have the same key, and are both there or both not.
LEMMA SeenFacts ==
    ASSUME NEW r \in Rows, NEW c \in Content[r], NEW d \in Content[r], Seen(c) = Seen(d)
    PROVE  c.key = d.key /\ (c = Absent <=> d = Absent)
<1>1. /\ Stored(c) \in Content[r] /\ Stored(d) \in Content[r]
      /\ Stored(c).key = c.key /\ Stored(d).key = d.key
      /\ (Stored(c) = Absent <=> c = Absent) /\ (Stored(d) = Absent <=> d = Absent)
  BY StoredFacts
<1>2. Stored(c).data = Stored(d).data /\ Stored(c).key = Stored(d).key
  BY DEF Seen
<1>3. \A e \in Content[r] : e = Absent <=> e.data = "none"
  BY ContentFacts DEF Filled
<1>4. QED
  BY <1>1, <1>2, <1>3

\* The empty database is a database.
LEMMA EmptyFacts == Empty \in Database
<1>1. \A r \in Rows : Absent \in Content[r] /\ Absent \in Contents
  BY ContentFacts
<1>2. QED
  BY <1>1 DEF Empty, Database

\* A reference is by a column of the table to a row of the table the column names.
LEMMA RefsFacts ==
    ASSUME NEW r \in Rows, NEW x \in Refs[r]
    PROVE  x[2] \in Rows /\ <<x[1], x[2].table>> \in API[r.table].columns
  BY DEF Refs

LEMMA TableFacts == DOMAIN API = Tables
  BY DEF API, Tables

LEMMA Handlings ==
    /\ API["algorithm_profile"] = AlgorithmProfiles
    /\ API["apn"] = APNs
    /\ API["charging_rule"] = ChargingRules
    /\ API["tft"] = TFTs
    /\ API["ifc_profile"] = IFCProfiles
    /\ API["eir"] = EIRs
    /\ API["roaming_rules"] = RoamingRules
    /\ API["auc"] = AUCs
    /\ API["subscriber"] = Subscribers
    /\ API["subscriber_routing"] = Routings
    /\ API["subscriber_attributes"] = Attributes
    /\ API["ims_subscriber"] = IMSSubscribers
  BY DEF API

\* Where the DELETE of each table looks.
LEMMA CheckFacts ==
    /\ AlgorithmProfiles.checks = << <<"auc", "algorithm_profile_id">> >>
    /\ APNs.checks = << <<"subscriber", "default_apn">>, <<"subscriber", "apn_list">>,
                        <<"subscriber_routing", "apn_id">> >>
    /\ ChargingRules.checks = << <<"apn", "charging_rule_list">> >>
    /\ TFTs.checks = << <<"charging_rule", "tft_group_id">> >>
    /\ IFCProfiles.checks = << <<"ims_subscriber", "ifc_profile_id">> >>
    /\ EIRs.checks = <<>> /\ RoamingRules.checks = <<>>
    /\ AUCs.checks = << <<"subscriber", "auc_id">> >>
    /\ Subscribers.checks = << <<"ims_subscriber", "imsi">>, <<"subscriber_attributes", "subscriber_id">>,
                               <<"subscriber_routing", "subscriber_id">> >>
    /\ Routings.checks = <<>> /\ Attributes.checks = <<>> /\ IMSSubscribers.checks = <<>>
  BY DEF Handling, AlgorithmProfiles, APNs, ChargingRules, TFTs, IFCProfiles, EIRs, RoamingRules,
         AUCs, Subscribers, Routings, Attributes, IMSSubscribers

\* The columns of each table.
LEMMA ColumnFacts ==
    /\ AlgorithmProfiles.columns = {} /\ TFTs.columns = {} /\ IFCProfiles.columns = {}
    /\ EIRs.columns = {} /\ RoamingRules.columns = {}
    /\ APNs.columns = APNColumns /\ ChargingRules.columns = ChargingRuleColumns
    /\ AUCs.columns = AUCColumns /\ Subscribers.columns = SubscriberColumns
    /\ Routings.columns = RoutingColumns /\ Attributes.columns = AttributeColumns
    /\ IMSSubscribers.columns = IMSColumns
  BY DEF Handling, AlgorithmProfiles, APNs, ChargingRules, TFTs, IFCProfiles, EIRs, RoamingRules,
         AUCs, Subscribers, Routings, Attributes, IMSSubscribers

\* A DELETE looks wherever a column names its table.
LEMMA SchemaFacts ==
    ASSUME NEW t \in Tables
    PROVE  /\ API[t].checks \in Seq(Tables \X Columns)
           /\ \A c \in API[t].columns :
                 \E k \in DOMAIN API[c[2]].checks : API[c[2]].checks[k] = <<t, c[1]>>
<1>1. \A d \in {AlgorithmProfiles, APNs, ChargingRules, TFTs, IFCProfiles, EIRs, RoamingRules,
                AUCs, Subscribers, Routings, Attributes, IMSSubscribers} :
         d.checks \in Seq(Tables \X Columns)
  <2> DEFINE SchemaPairs == Tables \X Columns
  <2>1. /\ {<<"auc", "algorithm_profile_id">>, <<"apn", "charging_rule_list">>,
            <<"charging_rule", "tft_group_id">>, <<"ims_subscriber", "ifc_profile_id">>,
            <<"subscriber", "auc_id">>} \subseteq SchemaPairs
        /\ {<<"subscriber", "default_apn">>, <<"subscriber", "apn_list">>,
            <<"subscriber_routing", "apn_id">>, <<"ims_subscriber", "imsi">>,
            <<"subscriber_attributes", "subscriber_id">>,
            <<"subscriber_routing", "subscriber_id">>} \subseteq SchemaPairs
    BY DEF Tables, Columns
  <2> HIDE DEF SchemaPairs
  <2>2. /\ <<>> \in Seq(SchemaPairs) /\ \A p \in SchemaPairs : <<p>> \in Seq(SchemaPairs)
        /\ \A p, q, r \in SchemaPairs : <<p, q, r>> \in Seq(SchemaPairs)
    OBVIOUS
  <2>3. /\ AlgorithmProfiles.checks \in Seq(SchemaPairs) /\ ChargingRules.checks \in Seq(SchemaPairs)
        /\ TFTs.checks \in Seq(SchemaPairs) /\ IFCProfiles.checks \in Seq(SchemaPairs)
        /\ AUCs.checks \in Seq(SchemaPairs)
    BY <2>1, <2>2, CheckFacts
  <2>4. APNs.checks \in Seq(SchemaPairs) /\ Subscribers.checks \in Seq(SchemaPairs)
    BY <2>1, <2>2, CheckFacts
  <2>5. /\ EIRs.checks \in Seq(SchemaPairs) /\ RoamingRules.checks \in Seq(SchemaPairs)
        /\ Routings.checks \in Seq(SchemaPairs) /\ Attributes.checks \in Seq(SchemaPairs)
        /\ IMSSubscribers.checks \in Seq(SchemaPairs)
    BY <2>2, CheckFacts
  <2>6. QED
    BY <2>3, <2>4, <2>5 DEF SchemaPairs
<1>2. API[t].checks \in Seq(Tables \X Columns)
  BY <1>1, Handlings DEF Tables
<1> DEFINE Covered(c) == \E k \in DOMAIN API[c[2]].checks : API[c[2]].checks[k] = <<t, c[1]>>
<1>3. CASE API[t].columns = {}
  BY <1>2, <1>3
<1>4. CASE t = "apn"
  <2>1. Covered(<<"charging_rule_list", "charging_rule">>)
    <3>1. API["charging_rule"].checks[1] = <<"apn", "charging_rule_list">> /\ 1 \in DOMAIN API["charging_rule"].checks
      BY Handlings, CheckFacts
    <3>2. QED
      BY <1>4, <3>1
  <2>2. API[t].columns = APNColumns
    BY <1>4, Handlings, ColumnFacts
  <2> HIDE DEF Covered
  <2>3. \A c \in API[t].columns : Covered(c)
    BY <2>1, <2>2 DEF APNColumns
  <2>4. QED
    BY <1>2, <2>3 DEF Covered
<1>5. CASE t = "charging_rule"
  <2>1. Covered(<<"tft_group_id", "tft">>)
    <3>1. API["tft"].checks[1] = <<"charging_rule", "tft_group_id">> /\ 1 \in DOMAIN API["tft"].checks
      BY Handlings, CheckFacts
    <3>2. QED
      BY <1>5, <3>1
  <2>2. API[t].columns = ChargingRuleColumns
    BY <1>5, Handlings, ColumnFacts
  <2> HIDE DEF Covered
  <2>3. \A c \in API[t].columns : Covered(c)
    BY <2>1, <2>2 DEF ChargingRuleColumns
  <2>4. QED
    BY <1>2, <2>3 DEF Covered
<1>6. CASE t = "auc"
  <2>1. Covered(<<"algorithm_profile_id", "algorithm_profile">>)
    <3>1. API["algorithm_profile"].checks[1] = <<"auc", "algorithm_profile_id">> /\ 1 \in DOMAIN API["algorithm_profile"].checks
      BY Handlings, CheckFacts
    <3>2. QED
      BY <1>6, <3>1
  <2>2. API[t].columns = AUCColumns
    BY <1>6, Handlings, ColumnFacts
  <2> HIDE DEF Covered
  <2>3. \A c \in API[t].columns : Covered(c)
    BY <2>1, <2>2 DEF AUCColumns
  <2>4. QED
    BY <1>2, <2>3 DEF Covered
<1>7. CASE t = "subscriber"
  <2>1. Covered(<<"auc_id", "auc">>)
    <3>1. API["auc"].checks[1] = <<"subscriber", "auc_id">> /\ 1 \in DOMAIN API["auc"].checks
      BY Handlings, CheckFacts
    <3>2. QED
      BY <1>7, <3>1
  <2>2. Covered(<<"default_apn", "apn">>)
    <3>1. API["apn"].checks[1] = <<"subscriber", "default_apn">> /\ 1 \in DOMAIN API["apn"].checks
      BY Handlings, CheckFacts
    <3>2. QED
      BY <1>7, <3>1
  <2>3. Covered(<<"apn_list", "apn">>)
    <3>1. API["apn"].checks[2] = <<"subscriber", "apn_list">> /\ 2 \in DOMAIN API["apn"].checks
      BY Handlings, CheckFacts
    <3>2. QED
      BY <1>7, <3>1
  <2>4. API[t].columns = SubscriberColumns
    BY <1>7, Handlings, ColumnFacts
  <2> HIDE DEF Covered
  <2>5. \A c \in API[t].columns : Covered(c)
    BY <2>1, <2>2, <2>3, <2>4 DEF SubscriberColumns
  <2>6. QED
    BY <1>2, <2>5 DEF Covered
<1>8. CASE t = "subscriber_routing"
  <2>1. Covered(<<"subscriber_id", "subscriber">>)
    <3>1. API["subscriber"].checks[3] = <<"subscriber_routing", "subscriber_id">> /\ 3 \in DOMAIN API["subscriber"].checks
      BY Handlings, CheckFacts
    <3>2. QED
      BY <1>8, <3>1
  <2>2. Covered(<<"apn_id", "apn">>)
    <3>1. API["apn"].checks[3] = <<"subscriber_routing", "apn_id">> /\ 3 \in DOMAIN API["apn"].checks
      BY Handlings, CheckFacts
    <3>2. QED
      BY <1>8, <3>1
  <2>3. API[t].columns = RoutingColumns
    BY <1>8, Handlings, ColumnFacts
  <2> HIDE DEF Covered
  <2>4. \A c \in API[t].columns : Covered(c)
    BY <2>1, <2>2, <2>3 DEF RoutingColumns
  <2>5. QED
    BY <1>2, <2>4 DEF Covered
<1>9. CASE t = "subscriber_attributes"
  <2>1. Covered(<<"subscriber_id", "subscriber">>)
    <3>1. API["subscriber"].checks[2] = <<"subscriber_attributes", "subscriber_id">> /\ 2 \in DOMAIN API["subscriber"].checks
      BY Handlings, CheckFacts
    <3>2. QED
      BY <1>9, <3>1
  <2>2. API[t].columns = AttributeColumns
    BY <1>9, Handlings, ColumnFacts
  <2> HIDE DEF Covered
  <2>3. \A c \in API[t].columns : Covered(c)
    BY <2>1, <2>2 DEF AttributeColumns
  <2>4. QED
    BY <1>2, <2>3 DEF Covered
<1>10. CASE t = "ims_subscriber"
  <2>1. Covered(<<"imsi", "subscriber">>)
    <3>1. API["subscriber"].checks[1] = <<"ims_subscriber", "imsi">> /\ 1 \in DOMAIN API["subscriber"].checks
      BY Handlings, CheckFacts
    <3>2. QED
      BY <1>10, <3>1
  <2>2. Covered(<<"ifc_profile_id", "ifc_profile">>)
    <3>1. API["ifc_profile"].checks[1] = <<"ims_subscriber", "ifc_profile_id">> /\ 1 \in DOMAIN API["ifc_profile"].checks
      BY Handlings, CheckFacts
    <3>2. QED
      BY <1>10, <3>1
  <2>3. API[t].columns = IMSColumns
    BY <1>10, Handlings, ColumnFacts
  <2> HIDE DEF Covered
  <2>4. \A c \in API[t].columns : Covered(c)
    BY <2>1, <2>2, <2>3 DEF IMSColumns
  <2>5. QED
    BY <1>2, <2>4 DEF Covered
<1>11. QED
  <2>1. t \in {"algorithm_profile", "tft", "ifc_profile", "eir", "roaming_rules"} => API[t].columns = {}
    BY Handlings, ColumnFacts
  <2>2. QED
    BY <1>3, <1>4, <1>5, <1>6, <1>7, <1>8, <1>9, <1>10, <2>1 DEF Tables

\* What a row refers to looks for the reference before it is deleted.
LEMMA ReferenceIsLookedFor ==
    ASSUME NEW q \in Rows, NEW x \in Refs[q]
    PROVE  x[2] \in Rows /\ \E k \in DOMAIN API[x[2].table].checks :
               API[x[2].table].checks[k] = <<q.table, x[1]>>
<1>1. q.table \in Tables
  BY RowsAssumption, TableFacts
<1>2. x[2] \in Rows /\ <<x[1], x[2].table>> \in API[q.table].columns
  BY RefsFacts
<1>3. QED
  BY <1>1, <1>2, SchemaFacts

\* A backup reads every table.
LEMMA OrderFacts ==
    /\ BackupOrder \in Seq(DOMAIN API) /\ BackupOrder # <<>>
    /\ \A t \in DOMAIN API : \E k \in DOMAIN BackupOrder : BackupOrder[k] = t
<1>1. BackupOrder \in Seq(Tables) /\ Len(BackupOrder) = 12
  BY DEF BackupOrder, Tables
<1>2. /\ BackupOrder[1] = "algorithm_profile"
      /\ BackupOrder[2] = "apn"
      /\ BackupOrder[3] = "charging_rule"
      /\ BackupOrder[4] = "tft"
      /\ BackupOrder[5] = "ifc_profile"
      /\ BackupOrder[6] = "eir"
      /\ BackupOrder[7] = "roaming_rules"
      /\ BackupOrder[8] = "auc"
      /\ BackupOrder[9] = "subscriber"
      /\ BackupOrder[10] = "subscriber_routing"
      /\ BackupOrder[11] = "subscriber_attributes"
      /\ BackupOrder[12] = "ims_subscriber"
  BY DEF BackupOrder
<1>3. \A t \in Tables : \E k \in 1 .. 12 : BackupOrder[k] = t
  BY <1>2 DEF Tables
<1>4. DOMAIN BackupOrder = 1 .. 12
  BY <1>1
<1>5. BackupOrder # <<>>
  <2>1. SUFFICES ASSUME BackupOrder = <<>> PROVE FALSE
    OBVIOUS
  <2>2. Len(BackupOrder) = 0
    BY <2>1
  <2>3. QED
    BY <1>1, <2>2
<1>6. BackupOrder \in Seq(DOMAIN API)
  BY <1>1, TableFacts, Zenon
<1>7. \A t \in DOMAIN API : \E k \in DOMAIN BackupOrder : BackupOrder[k] = t
  <2> SUFFICES ASSUME NEW t \in DOMAIN API
               PROVE  \E k \in DOMAIN BackupOrder : BackupOrder[k] = t
    OBVIOUS
  <2>1. t \in Tables
    BY TableFacts, Zenon
  <2>2. QED
    BY <1>3, <1>4, <2>1
<1>8. QED
  BY <1>5, <1>6, <1>7

\* No column of a table names the table itself.
LEMMA OthersReferred ==
    ASSUME NEW r \in Rows, NEW x \in Refs[r]
    PROVE  x[2] # r
<1>1. r.table \in Tables
  BY RowsAssumption, TableFacts, Zenon
<1>2. <<x[1], x[2].table>> \in API[r.table].columns
  BY RefsFacts
<1>3. \A t \in Tables : \A c \in API[t].columns : c[2] # t
  <2> SUFFICES ASSUME NEW t \in Tables, NEW c \in API[t].columns PROVE c[2] # t
    OBVIOUS
  <2>1. CASE t \in {"algorithm_profile", "tft", "ifc_profile", "eir", "roaming_rules"}
    BY <2>1, Handlings, ColumnFacts
  <2>2. CASE t = "apn"
    BY <2>2, Handlings, ColumnFacts DEF APNColumns
  <2>3. CASE t = "charging_rule"
    BY <2>3, Handlings, ColumnFacts DEF ChargingRuleColumns
  <2>4. CASE t = "auc"
    BY <2>4, Handlings, ColumnFacts DEF AUCColumns
  <2>5. CASE t = "subscriber"
    BY <2>5, Handlings, ColumnFacts DEF SubscriberColumns
  <2>6. CASE t = "subscriber_routing"
    BY <2>6, Handlings, ColumnFacts DEF RoutingColumns
  <2>7. CASE t = "subscriber_attributes"
    BY <2>7, Handlings, ColumnFacts DEF AttributeColumns
  <2>8. CASE t = "ims_subscriber"
    BY <2>8, Handlings, ColumnFacts DEF IMSColumns
  <2>9. QED
    BY <2>1, <2>2, <2>3, <2>4, <2>5, <2>6, <2>7, <2>8 DEF Tables
<1>4. QED
  BY <1>1, <1>2, <1>3

\* A DELETE of a row with a key of its own loads the row first.
LEMMA KeyedAreLoaded ==
    ASSUME NEW r \in Rows, r.table \in Keyed
    PROVE  FirstStep("delete", r) = "load"
<1>1. TFTs.loads /\ Subscribers.loads /\ IMSSubscribers.loads
  BY DEF Handling, TFTs, Subscribers, IMSSubscribers
<1>2. API[r.table].loads
  BY <1>1, Handlings DEF Keyed
<1>3. QED
  BY <1>2 DEF FirstStep

\* Of what a peer has and an event, what is assigned at the peer agrees with the event,
\* except for the columns no event carries to a row that is there.
LEMMA AssignedFacts ==
    ASSUME NEW r \in Rows, NEW have \in Content[r], NEW record \in Content[r], record # Absent,
           NEW columns, \A x \in Refs[r] : x[1] \in columns \cup NotCarried
    PROVE  /\ Assigned(have, record, columns) \in Content[r]
           /\ Seen(Assigned(have, record, columns)) = Seen(record)
<1>1. /\ Stored(record) \in Content[r] /\ Stored(record) # Absent
      /\ Stored(record).data # "zero" /\ Seen(Stored(record)) = Seen(record)
  BY StoredFacts
<1>2. CASE have = Absent
  BY <1>1, <1>2 DEF Assigned
<1>3. CASE have # Absent
  <2> DEFINE s == Stored(record)
             refs == {x \in s.refs : x[1] \in columns} \cup {x \in have.refs : x[1] \notin columns}
             a == [s EXCEPT !.rest = have.rest, !.refs = refs]
  <2>1. s \in Filled(r) /\ have \in Filled(r)
    BY <1>1, <1>3, ContentFacts
  <2>2. Assigned(have, record, columns) = a
    BY <1>3 DEF Assigned
  <2>3. refs \subseteq Refs[r] /\ s.refs \subseteq Refs[r]
    BY <2>1 DEF Filled
  <2>4. {x \in refs : x[1] \notin NotCarried} = {x \in s.refs : x[1] \notin NotCarried}
    <3>1. have.refs \subseteq Refs[r]
      BY <2>1 DEF Filled
    <3>2. QED
      BY <2>3, <3>1
  <2>5. s.data # "zero" /\ Stored(s) = s
    BY <1>1 DEF Stored
  <2> HIDE DEF refs, s
  <2>6. /\ a \in Filled(r) /\ a.data = s.data /\ a.key = s.key /\ a.spaced = s.spaced
        /\ a.refs = refs
    BY <2>1, <2>3 DEF Filled
  <2> HIDE DEF a
  <2>7. Stored(a) = a
    BY <2>5, <2>6 DEF Stored
  <2>8. Seen(a) = [data |-> s.data, key |-> s.key, spaced |-> s.spaced,
                   refs |-> {x \in s.refs : x[1] \notin NotCarried}]
    BY <2>4, <2>6, <2>7 DEF Seen
  <2>9. Seen(s) = [data |-> s.data, key |-> s.key, spaced |-> s.spaced,
                   refs |-> {x \in s.refs : x[1] \notin NotCarried}]
    BY <2>5 DEF Seen
  <2>10. QED
    BY <1>1, <2>2, <2>6, <2>8, <2>9, ContentFacts DEF s
<1>4. QED
  BY <1>2, <1>3

\* The tables whose writes are published.
LEMMA PublishedFacts ==
    ASSUME NEW t \in Tables, API[t].published
    PROVE  t \in {"subscriber", "auc", "apn", "ims_subscriber", "eir"}
<1>1. ~AlgorithmProfiles.published /\ ~ChargingRules.published /\ ~TFTs.published
      /\ ~IFCProfiles.published /\ ~RoamingRules.published /\ ~Routings.published
      /\ ~Attributes.published
  BY DEF Handling, AlgorithmProfiles, ChargingRules, TFTs, IFCProfiles, RoamingRules, Routings,
         Attributes
<1>2. QED
  BY <1>1, Handlings DEF Tables

\* A published event leaves at the peers what it carries, if they know the row by its key.
LEMMA AppliedFacts ==
    ASSUME OamTypeOK, NEW r \in Rows, API[r.table].published, NEW record \in Content[r],
           NEW deleted \in BOOLEAN, ~deleted => record # Absent
    PROVE  /\ applyOAMRecord(r, deleted, record) \in Content[r]
           /\ (r.table \in Keyed => ~Unmatched(told[r], record)) =>
                 Seen(applyOAMRecord(r, deleted, record)) = Seen(IF deleted THEN Absent ELSE record)
<1> DEFINE tables == {"subscriber", "auc", "apn", "ims_subscriber", "eir"}
           applied == applyOAMRecord(r, deleted, record)
<1>1. r.table \in tables
  <2>1. r.table \in Tables
    BY RowsAssumption, TableFacts, Zenon
  <2>2. QED
    BY <2>1, PublishedFacts
<1>2. told[r] \in Content[r] /\ Absent \in Content[r]
  BY ContentFacts DEF OamTypeOK, Database
<1>3. CASE r.table \in Keyed /\ Unmatched(told[r], record)
  <2>1. r.table = "subscriber" \/ r.table = "ims_subscriber"
    BY <1>1, <1>3 DEF Keyed
  <2>2. applied = told[r]
    BY <1>3, <2>1 DEF applyOAMRecord, UpsertSubscriber, DeleteSubscriberByIMSI,
                      UpsertIMSSubscriber, DeleteIMSSubscriberByMSISDN
  <2>3. QED
    BY <1>2, <1>3, <2>2
<1>4. CASE deleted /\ (r.table \in Keyed => ~Unmatched(told[r], record))
  <2>1. applied = Absent
    BY <1>1, <1>4 DEF applyOAMRecord, DeleteSubscriberByIMSI, DeleteAUCByID, DeleteAPNByID,
                      DeleteIMSSubscriberByMSISDN, DeleteEIRByID, Keyed
  <2>2. QED
    BY <1>2, <1>4, <2>1
<1>5. CASE ~deleted /\ (r.table \in Keyed => ~Unmatched(told[r], record))
  <2>1. record # Absent
    BY <1>5
  <2>2. \A x \in Refs[r] : <<x[1], x[2].table>> \in API[r.table].columns
    BY RefsFacts
  <2>3. CASE r.table = "subscriber"
    <3>1. API[r.table].columns = SubscriberColumns
      BY <2>3, Handlings, ColumnFacts
    <3>2. \A x \in Refs[r] : x[1] \in {"auc_id", "default_apn", "apn_list"} \cup NotCarried
      BY <2>2, <3>1 DEF SubscriberColumns
    <3>3. applied = Assigned(told[r], record, {"auc_id", "default_apn", "apn_list"})
      BY <1>5, <2>3 DEF applyOAMRecord, UpsertSubscriber, Keyed
    <3> HIDE DEF applied
    <3>4. QED
      BY <1>2, <1>5, <2>1, <3>2, <3>3, AssignedFacts DEF applied
  <2>4. CASE r.table = "auc"
    <3>1. API[r.table].columns = AUCColumns
      BY <2>4, Handlings, ColumnFacts
    <3>2. \A x \in Refs[r] : x[1] \in {} \cup NotCarried
      BY <2>2, <3>1 DEF AUCColumns, NotCarried
    <3>3. applied = Assigned(told[r], record, {})
      BY <1>5, <2>4 DEF applyOAMRecord, UpsertAUC
    <3> HIDE DEF applied
    <3>4. QED
      BY <1>2, <1>5, <2>1, <3>2, <3>3, AssignedFacts DEF applied
  <2>5. CASE r.table = "apn"
    <3>1. API[r.table].columns = APNColumns
      BY <2>5, Handlings, ColumnFacts
    <3>2. \A x \in Refs[r] : x[1] \in {"charging_rule_list"} \cup NotCarried
      BY <2>2, <3>1 DEF APNColumns
    <3>3. applied = Assigned(told[r], record, {"charging_rule_list"})
      BY <1>5, <2>5 DEF applyOAMRecord, UpsertAPN
    <3> HIDE DEF applied
    <3>4. QED
      BY <1>2, <1>5, <2>1, <3>2, <3>3, AssignedFacts DEF applied
  <2>6. CASE r.table = "ims_subscriber"
    <3>1. API[r.table].columns = IMSColumns
      BY <2>6, Handlings, ColumnFacts
    <3>2. \A x \in Refs[r] : x[1] \in {"imsi", "ifc_profile_id"} \cup NotCarried
      BY <2>2, <3>1 DEF IMSColumns
    <3>3. applied = Assigned(told[r], record, {"imsi", "ifc_profile_id"})
      BY <1>5, <2>6 DEF applyOAMRecord, UpsertIMSSubscriber, Keyed
    <3> HIDE DEF applied
    <3>4. QED
      BY <1>2, <1>5, <2>1, <3>2, <3>3, AssignedFacts DEF applied
  <2>7. CASE r.table = "eir"
    <3>1. API[r.table].columns = {}
      BY <2>7, Handlings, ColumnFacts
    <3>2. \A x \in Refs[r] : x[1] \in {} \cup NotCarried
      BY <2>2, <3>1
    <3>3. applied = Assigned(told[r], record, {})
      BY <1>5, <2>7 DEF applyOAMRecord, UpsertEIR
    <3> HIDE DEF applied
    <3>4. QED
      BY <1>2, <1>5, <2>1, <3>2, <3>3, AssignedFacts DEF applied
  <2>8. QED
    BY <1>1, <2>3, <2>4, <2>5, <2>6, <2>7
<1>6. QED
  BY <1>3, <1>4, <1>5

\* Entries go from the front: what is left leads back to what it led back to.
LEMMA PrunedFacts ==
    ASSUME NEW l \in Seq(LogEntries), NEW was, NEW out, Backs(l, was, out)
    PROVE  Pruned(l) \in Seq(LogEntries) /\ Backs(Pruned(l), was, out)
<1>1. MaxLog \in Nat /\ MaxLog >= 1 /\ Len(l) \in Nat /\ DOMAIN l = 1 .. Len(l)
  BY BoundAssumption
<1>2. CASE Len(l) > MaxLog
  <2> DEFINE off == Len(l) - MaxLog
             m == SubSeq(l, off + 1, Len(l))
  <2>1. off \in Nat /\ Pruned(l) = m
    BY <1>1, <1>2 DEF Pruned
  <2>2. /\ m \in Seq(LogEntries) /\ Len(m) = MaxLog /\ DOMAIN m = 1 .. MaxLog
        /\ \A i \in 1 .. MaxLog : m[i] = l[i + off]
    BY <1>1, <1>2, <2>1
  <2>3. Len(l) = MaxLog + off
    BY <1>1
  <2> HIDE DEF m, off
  <2>4. ASSUME NEW i \in DOMAIN m, \A j \in i + 1 .. Len(m) : m[j].row # m[i].row, m[i].row \notin out
        PROVE  RolledBack(m[i]) = was[m[i].row]
    <3>1. i + off \in DOMAIN l /\ m[i] = l[i + off]
      BY <1>1, <2>1, <2>2, <2>3
    <3>2. ASSUME NEW j \in i + off + 1 .. Len(l) PROVE l[j].row # l[i + off].row
      <4>1. j - off \in i + 1 .. Len(m) /\ (j - off) + off = j /\ j - off \in 1 .. MaxLog
        BY <1>1, <2>1, <2>2, <2>3
      <4>2. QED
        BY <2>2, <2>4, <3>1, <4>1
    <3>3. QED
      BY <2>4, <3>1, <3>2 DEF Backs
  <2>5. QED
    BY <2>1, <2>2, <2>4 DEF Backs
<1>3. CASE ~(Len(l) > MaxLog)
  BY <1>3 DEF Pruned
<1>4. QED
  BY <1>2, <1>3

\* An entry is appended: what it is about need not have been known before.
LEMMA AppendedFacts ==
    ASSUME NEW l \in Seq(LogEntries), NEW e \in LogEntries, NEW was, NEW out,
           Backs(l, was, out \cup {e.row}), e.row \notin out => RolledBack(e) = was[e.row]
    PROVE  Append(l, e) \in Seq(LogEntries) /\ Backs(Append(l, e), was, out)
<1> DEFINE m == Append(l, e)
<1>1. /\ m \in Seq(LogEntries) /\ Len(l) \in Nat /\ Len(m) = Len(l) + 1
      /\ DOMAIN l = 1 .. Len(l) /\ DOMAIN m = 1 .. Len(l) + 1
      /\ m[Len(l) + 1] = e /\ \A i \in 1 .. Len(l) : m[i] = l[i]
  OBVIOUS
<1> HIDE DEF m
<1>2. ASSUME NEW i \in DOMAIN m, \A j \in i + 1 .. Len(m) : m[j].row # m[i].row, m[i].row \notin out
      PROVE  RolledBack(m[i]) = was[m[i].row]
  <2>1. CASE i = Len(l) + 1
    BY <1>1, <1>2, <2>1
  <2>2. CASE i # Len(l) + 1
    <3>1. i \in 1 .. Len(l) /\ m[i] = l[i] /\ Len(l) + 1 \in i + 1 .. Len(m)
      BY <1>1, <2>2
    <3>2. l[i].row # e.row
      BY <1>1, <1>2, <3>1
    <3>3. ASSUME NEW j \in i + 1 .. Len(l) PROVE l[j].row # l[i].row
      <4>1. j \in i + 1 .. Len(m) /\ m[j] = l[j]
        BY <1>1, <3>1
      <4>2. QED
        BY <1>2, <3>1, <4>1
    <3>4. QED
      BY <1>1, <1>2, <3>1, <3>2, <3>3 DEF Backs
  <2>3. QED
    BY <2>1, <2>2
<1>3. QED
  BY <1>1, <1>2 DEF Backs, m

\* Fewer rows are known, and of those what they held before is as it was.
LEMMA BacksKept ==
    ASSUME NEW l \in Seq(LogEntries), NEW was, NEW is, NEW out, NEW more, Backs(l, was, out),
           out \subseteq more, \A r \in Rows \ more : is[r] = was[r]
    PROVE  Backs(l, is, more)
<1>1. \A i \in DOMAIN l : l[i].row \in Rows
  BY DEF LogEntries
<1>2. QED
  BY <1>1 DEF Backs

\* An entry of the log.
LEMMA EntryFacts ==
    ASSUME NEW op \in Ops, NEW r \in Rows, NEW was \in Content[r], NEW after \in Content[r],
           op = "create" => was = Absent
    PROVE  /\ LogEntry(op, r, was, after) \in LogEntries
           /\ LogEntry(op, r, was, after).row = r
           /\ RolledBack(LogEntry(op, r, was, after)) = was
<1>1. was \in Contents /\ after \in Contents
  BY ContentFacts
<1>2. QED
  BY <1>1 DEF LogEntry, LogEntries, RolledBack

-----------------------------------------------------------------------------
(***************************************************************************)
(* The REST interface: requests.                                           *)
(***************************************************************************)
\* A goroutine moves and the others stay where they are.
Others(h) == \A g \in Workers \ {h} : at'[g] = at[g] /\ req'[g] = req[g]

LEMMA AdvanceFacts ==
    ASSUME OamTypeOK, NEW h \in Workers, NEW step \in Stages, NEW q \in Job, Advance(h, step, q)
    PROVE  /\ at' \in [Workers -> Stages] /\ req' \in [Workers -> Job \cup {NoJob}]
           /\ at'[h] = step /\ req'[h] = (IF step = "idle" THEN NoJob ELSE q)
           /\ Others(h)
  BY DEF Advance, OamTypeOK, Others

\* A job is no record of nothing to do.
LEMMA NoJobFacts == NoJob \notin Job
<1>1. SUFFICES ASSUME NoJob \in Job PROVE FALSE
  OBVIOUS
<1>2. NoJob.op \in Ops
  BY <1>1 DEF Job
<1>3. NoJob.op = "none"
  BY DEF NoJob
<1>4. QED
  BY <1>2, <1>3 DEF Ops

\* What a goroutine with a request works on.
LEMMA RequestFacts ==
    ASSUME OamTypeOK, RequestsOK, NEW h \in Workers, at[h] # "idle"
    PROVE  /\ req[h] \in Job /\ req[h].op \in Ops /\ req[h].row \in Rows
           /\ req[h].body \in Content[req[h].row] /\ req[h].before \in Content[req[h].row]
           /\ req[h].checks \in Seq(Tables \X Columns)
           /\ req[h].op # "delete" => req[h].body # Absent /\ req[h].checks = <<>>
           /\ rows[req[h].row] \in Content[req[h].row]
<1>1. req[h] \in Job
  BY DEF OamTypeOK, RequestsOK, RequestOK
<1>2. req[h].op # "delete" => req[h].body # Absent /\ req[h].checks = <<>>
  BY DEF RequestsOK, RequestOK
<1>3. \A r \in Rows : rows[r] \in Content[r]
  BY DEF OamTypeOK, Database
<1>4. QED
  BY <1>1, <1>2, <1>3 DEF Job

\* A goroutine that is done.
LEMMA DoneFacts ==
    ASSUME NEW h \in Workers, at'[h] = "idle", req'[h] = NoJob
    PROVE  RequestOK(h)' /\ Knows(h)' /\ DeletionOK(h)'
  BY DEF RequestOK, Knows, DeletionOK, Committed

\* The log and what it is known to lead back to.
LEMMA LogStays ==
    ASSUME OamTypeOK, LogInv, log' = log, Unsure \subseteq Unsure',
           \A r \in Rows \ Unsure' : previous'[r] = previous[r]
    PROVE  LogInv'
<1>1. log \in Seq(LogEntries) /\ Backs(log, previous, Unsure)
  BY DEF OamTypeOK, LogInv
<1>2. Backs(log, previous', Unsure')
  BY <1>1, BacksKept
<1>3. QED
  BY <1>2 DEF LogInv, Backs, RolledBack

\* What does not write the database.
DataKept == UNCHANGED <<rows, told, left, doc, taken, previous, excused, strayed, snapshot, torn>>

\* A goroutine that moves, and neither writes nor publishes, keeps the invariant if it is
\* in order after the move, and the only one about its row unless that is noted.
LEMMA MoveKeeps ==
    ASSUME OamIInv, NEW h \in Workers, Others(h), DataKept,
           at' \in [Workers -> Stages], req' \in [Workers -> Job \cup {NoJob}],
           requests' \in Nat, acts' \in Nat,
           disturbed \subseteq disturbed', disturbed' \subseteq Rows, unlogged' \subseteq Rows,
           log' \in Seq(LogEntries), LogInv',
           Committed(h) <=> Committed(h)', Committed(h) => req'[h] = req[h],
           RequestOK(h)', Knows(h)', DeletionOK(h)',
           at'[h] # "idle" =>
              \A g \in Workers \ {h} :
                 at[g] # "idle" /\ req[g].row = req'[h].row => req'[h].row \in disturbed'
    PROVE  OamIInv'
<1>1. OamTypeOK'
  BY DEF OamIInv, OamTypeOK, DataKept
<1>2. RequestsOK'
  <2> SUFFICES ASSUME NEW g \in Workers PROVE RequestOK(g)'
    BY DEF RequestsOK
  <2>1. CASE g # h
    BY <2>1 DEF OamIInv, RequestsOK, RequestOK, Others
  <2>2. QED
    BY <2>1
<1>3. RowsApart'
  <2> SUFFICES ASSUME NEW g \in Workers, NEW k \in Workers, g # k, at'[g] # "idle",
                      at'[k] # "idle", req'[g].row = req'[k].row
               PROVE  req'[g].row \in disturbed'
    BY DEF RowsApart
  <2>1. CASE g = h
    BY <2>1 DEF Others
  <2>2. CASE k = h
    BY <2>2 DEF Others
  <2>3. CASE g # h /\ k # h
    BY <2>3 DEF OamIInv, RowsApart, Others
  <2>4. QED
    BY <2>1, <2>2, <2>3
<1>4. \A r \in Rows : Known(r)' => Known(r)
  BY DEF Known, DataKept
<1>5. KnowInv'
  <2> SUFFICES ASSUME NEW g \in Workers PROVE Knows(g)'
    BY DEF KnowInv
  <2>1. CASE g # h
    <3>1. Knows(g) /\ at'[g] = at[g] /\ req'[g] = req[g]
      BY <2>1 DEF OamIInv, KnowInv, Others
    <3>2. at[g] # "idle" => req[g].row \in Rows
      BY RequestFacts DEF OamIInv
    <3>3. QED
      BY <1>4, <3>1, <3>2 DEF Knows, Committed, Present, DataKept
  <2>2. QED
    BY <2>1
<1>6. ToldInv'
  <2>1. \A r \in Rows : Publishing(r)' <=> Publishing(r)
    BY DEF Publishing, Committed, Others
  <2>2. QED
    BY <1>4, <2>1 DEF OamIInv, ToldInv, DataKept, Seen
<1>7. LinksInv'
  <2>1. NoDangling'
    BY DEF OamIInv, LinksInv, NoDangling, Holds, Legible, DataKept
  <2>2. ASSUME NEW g \in Workers, g # h PROVE DeletionOK(g)'
    <3>1. DeletionOK(g)
      BY DEF OamIInv, LinksInv
    <3>2. at'[g] = at[g] /\ req'[g] = req[g] /\ rows' = rows /\ excused' = excused
      BY <2>2 DEF Others, DataKept
    <3>3. \A c : Ahead(g, c)' <=> Ahead(g, c)
      BY <3>2 DEF Ahead
    <3>4. QED
      BY <3>1, <3>2, <3>3 DEF DeletionOK, Legible
  <2>3. QED
    BY <2>1, <2>2 DEF LinksInv
<1>8. BackupInv'
  BY DEF OamIInv, BackupInv, DataKept, Legible, Holds
<1>9. QED
  BY <1>1, <1>2, <1>3, <1>5, <1>6, <1>7, <1>8 DEF OamIInv

\* Where a goroutine has not written its row yet.
Before == {"idle", "load", "check", "capture", "write"}

\* A goroutine goes on with its request, up to the write.
LEMMA GoesOn ==
    ASSUME OamIInv, NEW h \in Workers, DataKept, UNCHANGED <<log, disturbed, unlogged, requests, acts>>,
           at[h] # "idle", at[h] \in Before, NEW step \in Before, NEW q \in Job,
           q.row = req[h].row, Advance(h, step, q), RequestOK(h)', Knows(h)', DeletionOK(h)'
    PROVE  OamIInv'
<1>1. OamTypeOK /\ step \in Stages
  BY DEF OamIInv, Before, Stages
<1>2. /\ at' \in [Workers -> Stages] /\ req' \in [Workers -> Job \cup {NoJob}]
      /\ at'[h] = step /\ req'[h] = (IF step = "idle" THEN NoJob ELSE q)
      /\ Others(h)
  BY <1>1, AdvanceFacts
<1>3. /\ requests' \in Nat /\ acts' \in Nat /\ disturbed \subseteq disturbed' /\ disturbed' \subseteq Rows
      /\ unlogged' \subseteq Rows /\ log' \in Seq(LogEntries)
  BY <1>1 DEF OamTypeOK
<1>4. at'[h] # "idle" =>
         \A g \in Workers \ {h} :
            at[g] # "idle" /\ req[g].row = req'[h].row => req'[h].row \in disturbed'
  BY <1>2 DEF OamIInv, RowsApart
<1>5. ~Committed(h) /\ ~Committed(h)'
  BY <1>2 DEF Committed, Before
<1>6. LogInv'
  <2>1. Unsure \subseteq Unsure'
    <3>1. ASSUME NEW r \in Rows, Logging(r) PROVE Logging(r)'
      BY <1>2, <3>1 DEF Logging, Others, Before
    <3>2. QED
      BY <3>1 DEF Unsure
  <2>2. QED
    BY <1>1, <2>1, LogStays DEF OamIInv, DataKept
<1>7. QED
  BY <1>2, <1>3, <1>4, <1>5, <1>6, MoveKeeps

\* A request ends without a write.
LEMMA EndsUnwritten ==
    ASSUME OamIInv, NEW h \in Workers, DataKept, UNCHANGED <<log, disturbed, unlogged, requests, acts>>,
           at[h] # "idle", at[h] \in Before, Continue(h, "idle")
    PROVE  OamIInv'
<1>1. req[h] \in Job
  BY RequestFacts DEF OamIInv
<1>2. "idle" \in Stages /\ "idle" \in Before /\ Advance(h, "idle", req[h])
  BY DEF Stages, Before, Continue
<1>3. at'[h] = "idle" /\ req'[h] = NoJob
  BY <1>1, <1>2, AdvanceFacts DEF OamIInv
<1>4. RequestOK(h)' /\ Knows(h)' /\ DeletionOK(h)'
  BY <1>3, DoneFacts
<1>5. QED
  BY <1>1, <1>2, <1>4, GoesOn

\* A statement fails.
LEMMA FailKeeps ==
    ASSUME OamIInv, NEW h \in Workers, Fail(h)
    PROVE  OamIInv'
<1>1. DataKept /\ UNCHANGED <<log, disturbed, unlogged, requests, acts>>
  BY DEF Fail, DataKept, backup, oamHistory, counts
<1>2. at[h] # "idle" /\ at[h] \in Before /\ Continue(h, "idle")
  BY DEF Fail, Before
<1>3. QED
  BY <1>1, <1>2, EndsUnwritten

\* A request is received.
LEMMA ReceiveKeeps ==
    ASSUME OamIInv, NEW h \in Workers, NEW op \in Ops, NEW r \in Rows, NEW body \in Content[r],
           op = "delete" <=> body = Absent, ReceiveWrite(h, op, r, body)
    PROVE  OamIInv'
<1> DEFINE checks == IF op = "delete" THEN API[r.table].checks ELSE <<>>
           step   == FirstStep(op, r)
           q      == [op |-> op, row |-> r, body |-> body, before |-> Absent, checks |-> checks]
<1>1. OamTypeOK /\ RequestsOK
  BY DEF OamIInv
<1>2. checks \in Seq(Tables \X Columns)
  <2>1. r.table \in Tables
    BY RowsAssumption, TableFacts, Zenon
  <2>2. API[r.table].checks \in Seq(Tables \X Columns)
    BY <2>1, SchemaFacts
  <2>3. <<>> \in Seq(Tables \X Columns)
    OBVIOUS
  <2>4. QED
    BY <2>2, <2>3
<1>3. /\ op = "create" => step = "write"
      /\ op = "update" => step = "load"
      /\ op = "delete" => step \in {"load", "check", "capture"}
      /\ step = "check" => checks # <<>>
      /\ step \in {"capture", "write"} => checks = <<>>
  BY DEF FirstStep, Ops
<1>4. /\ at[h] = "idle" /\ Advance(h, step, q)
      /\ op = "create" => ~Present(r) /\ InHand(r) = {}
      /\ disturbed' = IF InHand(r) # {} THEN disturbed \cup {r} ELSE disturbed
      /\ requests' = requests + 1 /\ UNCHANGED <<log, unlogged, acts>> /\ DataKept
  BY DEF ReceiveWrite, Request, DataKept, backup
<1>5. r.table \in Keyed /\ op = "delete" => step = "load"
  BY KeyedAreLoaded
<1> HIDE DEF checks, step
<1>6. q \in Job
  BY <1>2, ContentFacts DEF Job
<1>7. step \in Stages /\ step \in Before /\ step # "idle"
  BY <1>3 DEF Stages, Before, Ops
<1>8. /\ at' \in [Workers -> Stages] /\ req' \in [Workers -> Job \cup {NoJob}]
      /\ at'[h] = step /\ req'[h] = q /\ Others(h)
  BY <1>1, <1>4, <1>6, <1>7, AdvanceFacts
<1>9. RequestOK(h)'
  <2>1. at'[h] # "idle" /\ req'[h] # NoJob
    BY <1>6, <1>7, <1>8, NoJobFacts
  <2>2. op # "delete" => checks = <<>>
    BY DEF checks
  <2>3. at'[h] # "load" => (at'[h] = "check" <=> checks # <<>>)
    BY <1>3, <1>8 DEF Ops
  <2>4. op = "create" => at'[h] = "write"
    BY <1>3, <1>8
  <2>5. QED
    BY <1>8, <2>1, <2>2, <2>3, <2>4 DEF RequestOK
<1>10. Knows(h)'
  <2>1. op = "create" => rows'[r] = Absent
    BY <1>4 DEF Present, DataKept
  <2>2. /\ req'[h].op = op /\ req'[h].row = r /\ req'[h].before = Absent /\ ~Committed(h)'
        /\ at'[h] = step
    BY <1>7, <1>8 DEF Committed, Before
  <2>3. step = "write" => op = "create"
    BY <1>3 DEF Ops
  <2>4. step \notin {"capture", "write"} \/ op # "update"
    BY <1>3
  <2>5. op = "delete" /\ r.table \in Keyed => step \notin {"check", "capture", "write", "log"}
    BY <1>5
  <2>6. step # "log"
    BY <1>7 DEF Before
  <2>7. QED
    BY <2>1, <2>2, <2>3, <2>4, <2>5, <2>6 DEF Knows
<1>11. DeletionOK(h)'
  <2> SUFFICES ASSUME op = "delete", NEW p \in Rows \ excused', NEW x \in rows'[p].refs, x[2] = r
               PROVE  Ahead(h, <<p.table, x[1]>>)' /\ req'[h].body.key = "own"
    BY <1>8 DEF DeletionOK
  <2>1. x \in Refs[p]
    <3>1. rows[p] \in Content[p] /\ rows' = rows
      BY <1>1, <1>4 DEF OamTypeOK, Database, DataKept
    <3>2. QED
      BY <3>1, ContentFacts
  <2>2. checks = API[r.table].checks
    BY DEF checks
  <2>3. \E k \in DOMAIN checks : checks[k] = <<p.table, x[1]>>
    BY <2>1, <2>2, ReferenceIsLookedFor
  <2>4. req'[h].checks = checks /\ req'[h].body = Absent
    BY <1>8
  <2>5. QED
    BY <2>3, <2>4, ContentFacts DEF Ahead
<1>12. /\ requests' \in Nat /\ acts' \in Nat /\ disturbed \subseteq disturbed'
       /\ disturbed' \subseteq Rows /\ unlogged' \subseteq Rows /\ log' \in Seq(LogEntries)
  BY <1>1, <1>4 DEF OamTypeOK
<1>13. \A g \in Workers \ {h} :
          at[g] # "idle" /\ req[g].row = req'[h].row => req'[h].row \in disturbed'
  <2>1. req'[h].row = r
    BY <1>8
  <2>2. QED
    BY <1>4, <2>1 DEF InHand
<1>14. ~Committed(h) /\ ~Committed(h)'
  BY <1>4, <1>7, <1>8 DEF Committed, Before
<1>15. LogInv'
  <2>1. ASSUME NEW p \in Rows, Logging(p) PROVE Logging(p)'
    BY <1>4, <1>8, <2>1 DEF Logging, Others
  <2>2. Unsure \subseteq Unsure'
    BY <1>4, <1>12, <2>1 DEF Unsure
  <2>3. QED
    BY <1>1, <1>4, <2>2, LogStays DEF OamIInv, DataKept
<1>16. QED
  BY <1>4, <1>8, <1>9, <1>10, <1>11, <1>12, <1>13, <1>14, <1>15, MoveKeeps

\* The row is loaded.
LEMMA LoadKeeps ==
    ASSUME OamIInv, NEW h \in Workers, Load(h)
    PROVE  OamIInv'
<1> DEFINE r == req[h].row
<1>1. /\ DataKept /\ UNCHANGED <<log, disturbed, unlogged, requests, acts>>
      /\ at[h] = "load" /\ at[h] # "idle" /\ at[h] \in Before
  BY DEF Load, DataKept, backup, oamHistory, counts, Before
<1>2. OamTypeOK /\ RequestsOK /\ RequestOK(h) /\ Knows(h) /\ DeletionOK(h) /\ NoDangling
  BY DEF OamIInv, RequestsOK, KnowInv, LinksInv
<1>3. /\ req[h] \in Job /\ req[h].op \in Ops /\ r \in Rows /\ req[h].body \in Content[r]
      /\ req[h].op # "delete" => req[h].body # Absent /\ req[h].checks = <<>>
      /\ rows[r] \in Content[r] /\ rows[r] \in Contents
  BY <1>1, <1>2, RequestFacts, ContentFacts
<1>4. CASE Continue(h, "idle")
  BY <1>1, <1>4, EndsUnwritten
<1>5. ASSUME Present(r), req[h].op = "update", NEW b \in Merged(r, req[h].body),
             Advance(h, "capture", [req[h] EXCEPT !.body = b])
      PROVE  OamIInv'
  <2> DEFINE q == [req[h] EXCEPT !.body = b]
  <2>1. b \in Content[r] /\ b # Absent
    <3>1. req[h].body \in Filled(r) /\ rows[r] \in Filled(r)
      BY <1>3, <1>5, ContentFacts DEF Present
    <3>2. b \in Filled(r)
      <4>1. CASE r.table = "auc"
        <5>1. PICK l \in {req[h].body.refs, rows[r].refs}, n \in {req[h].body.rest, rows[r].rest} :
                 b = [req[h].body EXCEPT !.refs = l, !.rest = n]
          BY <1>5, <4>1 DEF Merged
        <5>2. l \in SUBSET Refs[r] /\ n \in 1 .. 2
          BY <3>1, <5>1 DEF Filled
        <5>3. QED
          BY <3>1, <5>1, <5>2 DEF Filled
      <4>2. CASE r.table # "auc"
        BY <1>5, <3>1, <4>2 DEF Merged
      <4>3. QED
        BY <4>1, <4>2
    <3>3. QED
      BY <1>3, <3>2, ContentFacts
  <2>2. /\ q \in Job /\ q.op = "update" /\ q.row = r /\ q.body = b
        /\ q.checks = req[h].checks
    <3>1. b \in Contents
      BY <1>3, <2>1, ContentFacts
    <3>2. QED
      BY <1>3, <1>5, <2>1, <3>1 DEF Job
  <2>3. "capture" \in Before /\ "capture" \in Stages
    BY DEF Stages, Before
  <2> HIDE DEF q
  <2>4. at'[h] = "capture" /\ req'[h] = q
    BY <1>2, <1>5, <2>2, <2>3, AdvanceFacts DEF q
  <2>5. req[h].checks = <<>>
    BY <1>3, <1>5
  <2>6. RequestOK(h)'
    BY <2>1, <2>2, <2>4, <2>5, NoJobFacts DEF RequestOK
  <2>7. Knows(h)' /\ DeletionOK(h)'
    BY <1>1, <1>5, <2>2, <2>4 DEF Knows, DeletionOK, Committed, Present, DataKept
  <2>8. QED
    BY <1>1, <1>5, <2>2, <2>3, <2>6, <2>7, GoesOn DEF q
<1>6. ASSUME Present(r), req[h].op = "delete", NEW step \in {"capture", "check"},
             step = IF req[h].checks = <<>> THEN "capture" ELSE "check",
             Advance(h, step, [req[h] EXCEPT !.body = rows[r]])
      PROVE  OamIInv'
  <2> DEFINE q == [req[h] EXCEPT !.body = rows[r]]
  <2>1. /\ q \in Job /\ q.op = "delete" /\ q.row = r /\ q.body = rows[r]
        /\ q.checks = req[h].checks /\ q.before = req[h].before
    BY <1>3, <1>6 DEF Job
  <2>2. step \in Stages /\ step \in Before /\ step # "idle"
    BY <1>6 DEF Stages, Before
  <2> HIDE DEF q
  <2>3. at'[h] = step /\ req'[h] = q
    BY <1>2, <1>6, <2>1, <2>2, AdvanceFacts DEF q
  <2>4. RequestOK(h)'
    BY <1>6, <2>1, <2>2, <2>3, NoJobFacts DEF RequestOK
  <2>5. Knows(h)'
    BY <1>1, <1>6, <2>1, <2>3 DEF Knows, Committed, DataKept
  <2>6. DeletionOK(h)'
    <3> SUFFICES ASSUME NEW p \in Rows \ excused, NEW x \in rows[p].refs,
                        Legible(rows[p], x), x[2] = r
                 PROVE  Ahead(h, <<p.table, x[1]>>)' /\ (x[1] \in NaturalColumns => rows[r].key = "own")
      BY <1>1, <2>1, <2>3 DEF DeletionOK, DataKept, Legible
    <3>1. Ahead(h, <<p.table, x[1]>>)
      BY <1>1, <1>2, <1>6 DEF DeletionOK
    <3>2. Ahead(h, <<p.table, x[1]>>)'
      BY <2>1, <2>3, <3>1 DEF Ahead
    <3>3. Holds(rows[r], x)
      BY <1>2 DEF NoDangling
    <3>4. QED
      BY <3>2, <3>3 DEF Holds
  <2>7. QED
    BY <1>1, <1>6, <2>1, <2>2, <2>4, <2>5, <2>6, GoesOn DEF q
<1>7. QED
  BY <1>4, <1>5, <1>6 DEF Load

\* A DELETE looks into a column.
LEMMA CheckKeeps ==
    ASSUME OamIInv, NEW h \in Workers, Check(h)
    PROVE  OamIInv'
<1> DEFINE r == req[h].row
           checks == req[h].checks
           rest == Tail(checks)
           q == [req[h] EXCEPT !.checks = rest]
           step == IF rest = <<>> THEN "capture" ELSE "check"
<1>1. /\ DataKept /\ UNCHANGED <<log, disturbed, unlogged, requests, acts>>
      /\ at[h] = "check" /\ at[h] # "idle" /\ at[h] \in Before
  BY DEF Check, DataKept, backup, oamHistory, counts, Before
<1>2. OamTypeOK /\ RequestsOK /\ RequestOK(h) /\ Knows(h) /\ DeletionOK(h)
  BY DEF OamIInv, RequestsOK, KnowInv, LinksInv
<1>3. /\ req[h] \in Job /\ r \in Rows /\ checks \in Seq(Tables \X Columns)
      /\ req[h].op # "delete" => checks = <<>>
  BY <1>1, <1>2, RequestFacts
<1>4. checks # <<>> /\ req[h].op = "delete"
  BY <1>1, <1>2, <1>3 DEF RequestOK
<1>5. rest \in Seq(Tables \X Columns)
  BY <1>3, <1>4
<1>6. \A k \in DOMAIN checks : checks[k] = Head(checks) \/ \E j \in DOMAIN rest : rest[j] = checks[k]
  <2> SUFFICES ASSUME NEW k \in DOMAIN checks, k # 1 PROVE \E j \in DOMAIN rest : rest[j] = checks[k]
    BY <1>3, <1>4
  <2>1. k \in 2 .. Len(checks) /\ k - 1 \in 1 .. Len(rest) /\ rest[k - 1] = checks[k]
    BY <1>3, <1>4
  <2>2. DOMAIN rest = 1 .. Len(rest)
    BY <1>5
  <2>3. QED
    BY <2>1, <2>2
<1>7. CASE Continue(h, "idle")
  BY <1>1, <1>7, EndsUnwritten
<1>8. ASSUME ~InUse(r, req[h].body, Head(checks)), Advance(h, step, q)
      PROVE  OamIInv'
  <2>1. q \in Job /\ q.op = "delete" /\ q.row = r /\ q.body = req[h].body /\ q.checks = rest
    BY <1>3, <1>4, <1>5 DEF Job
  <2>2. step \in {"capture", "check"} /\ step \in Stages /\ step \in Before
        /\ (step = "check" <=> rest # <<>>)
    BY DEF Stages, Before
  <2> HIDE DEF q, step, rest
  <2>3. at'[h] = step /\ req'[h] = q
    BY <1>2, <1>8, <2>1, <2>2, AdvanceFacts
  <2>4. RequestOK(h)'
    BY <2>1, <2>2, <2>3, NoJobFacts DEF RequestOK
  <2>5. Knows(h)'
    BY <1>1, <1>2, <1>4, <2>1, <2>2, <2>3 DEF Knows, Committed, DataKept
  <2>6. DeletionOK(h)'
    <3> SUFFICES ASSUME NEW p \in Rows \ excused, NEW x \in rows[p].refs,
                        Legible(rows[p], x), x[2] = r
                 PROVE  /\ Ahead(h, <<p.table, x[1]>>)'
                        /\ x[1] \in NaturalColumns => req[h].body.key = "own"
      BY <1>1, <2>1, <2>3 DEF DeletionOK, DataKept, Legible
    <3>1. Ahead(h, <<p.table, x[1]>>) /\ (x[1] \in NaturalColumns => req[h].body.key = "own")
      BY <1>1, <1>2, <1>4 DEF DeletionOK
    <3>2. PICK k \in DOMAIN checks : checks[k] = <<p.table, x[1]>>
      BY <3>1 DEF Ahead
    <3>3. checks[k] # Head(checks)
      <4>1. SUFFICES ASSUME checks[k] = Head(checks) PROVE FALSE
        OBVIOUS
      <4>2. p.table = Head(checks)[1] /\ x[1] = Head(checks)[2]
        BY <3>2, <4>1
      <4>3. x = <<x[1], r>>
        <5>1. rows[p] \in Content[p]
          BY <1>2 DEF OamTypeOK, Database
        <5>2. x \in Refs[p]
          BY <5>1, ContentFacts
        <5>3. QED
          BY <5>2 DEF Refs
      <4>4. <<Head(checks)[2], r>> \in rows[p].refs
        BY <4>2, <4>3
      <4>5. QED
        BY <1>8, <3>1, <4>2, <4>4 DEF InUse, Legible
    <3>4. PICK j \in DOMAIN rest : rest[j] = checks[k]
      BY <1>6, <3>3
    <3>5. req'[h].checks = rest
      BY <2>1, <2>3
    <3>6. QED
      BY <3>1, <3>2, <3>4, <3>5 DEF Ahead
  <2>7. QED
    BY <1>1, <1>8, <2>1, <2>2, <2>4, <2>5, <2>6, GoesOn
<1>9. QED
  BY <1>7, <1>8 DEF Check

\* The state before the write is read.
LEMMA CaptureKeeps ==
    ASSUME OamIInv, NEW h \in Workers, Capture(h)
    PROVE  OamIInv'
<1> DEFINE r == req[h].row
           q == [req[h] EXCEPT !.before = rows[r]]
<1>1. /\ DataKept /\ UNCHANGED <<log, disturbed, unlogged, requests, acts>>
      /\ at[h] = "capture" /\ at[h] # "idle" /\ at[h] \in Before
  BY DEF Capture, DataKept, backup, oamHistory, counts, Before
<1>2. OamTypeOK /\ RequestsOK /\ RequestOK(h) /\ Knows(h) /\ DeletionOK(h)
  BY DEF OamIInv, RequestsOK, KnowInv, LinksInv
<1>3. req[h] \in Job /\ r \in Rows /\ rows[r] \in Content[r]
  BY <1>1, <1>2, RequestFacts
<1>4. /\ q \in Job /\ q.op = req[h].op /\ q.row = r /\ q.body = req[h].body
      /\ q.checks = req[h].checks /\ q.before = rows[r]
  <2>1. rows[r] \in Contents
    BY <1>3, ContentFacts
  <2>2. QED
    BY <1>3, <2>1 DEF Job
<1>5. "write" \in Before /\ "write" \in Stages /\ Advance(h, "write", q)
  BY DEF Stages, Before, Capture
<1> HIDE DEF q
<1>6. at'[h] = "write" /\ req'[h] = q
  BY <1>2, <1>4, <1>5, AdvanceFacts
<1>7. req[h].op # "create"
  BY <1>1, <1>2 DEF RequestOK
<1>8. RequestOK(h)'
  BY <1>1, <1>2, <1>4, <1>6, <1>7, NoJobFacts DEF RequestOK
<1>9. Knows(h)'
  BY <1>1, <1>2, <1>4, <1>6, <1>7 DEF Knows, Committed, Present, DataKept
<1>10. DeletionOK(h)'
  <2>1. \A c : Ahead(h, c)' <=> Ahead(h, c)
    BY <1>4, <1>6 DEF Ahead
  <2>2. rows' = rows /\ excused' = excused
    BY <1>1 DEF DataKept
  <2>3. QED
    BY <1>1, <1>2, <1>4, <1>6, <2>1, <2>2 DEF DeletionOK, Legible
<1>11. QED
  BY <1>1, <1>4, <1>5, <1>8, <1>9, <1>10, GoesOn

-----------------------------------------------------------------------------
(***************************************************************************)
(* The REST interface: what writes the database.                           *)
(***************************************************************************)
\* A row gets other content.  Nothing dangles if what the row refers to is good, and
\* what refers to the row finds it; nor does a deletion in hand miss a reference.
LEMMA LinksKept ==
    ASSUME OamTypeOK, LinksInv, NEW r \in Rows, NEW c \in Content[r],
           rows' = [rows EXCEPT ![r] = c],
           \A p \in Rows \ excused' : p # r => p \notin excused,
           r \notin excused' => \A x \in c.refs : Holds(rows[x[2]], x) /\ ~Deleting(x[2]),
           \A p \in Rows \ excused' : p # r =>
              \A x \in rows[p].refs : Legible(rows[p], x) /\ x[2] = r => Holds(c, x),
           \A g \in Workers : at'[g] \in {"load", "check", "capture", "write"} =>
              at'[g] = at[g] /\ req'[g] = req[g]
    PROVE  LinksInv'
<1>1. rows'[r] = c /\ \A p \in Rows : p # r => rows'[p] = rows[p]
  BY DEF OamTypeOK, Database
<1>2. \A p \in Rows : \A x \in rows[p].refs : x[2] \in Rows
  <2> SUFFICES ASSUME NEW p \in Rows, NEW x \in rows[p].refs PROVE x[2] \in Rows
    OBVIOUS
  <2>1. rows[p] \in Content[p]
    BY DEF OamTypeOK, Database
  <2>2. x \in Refs[p]
    BY <2>1, ContentFacts
  <2>3. QED
    BY <2>2, RefsFacts
<1>3. \A x \in c.refs : x[2] \in Rows /\ x[2] # r
  <2> SUFFICES ASSUME NEW x \in c.refs PROVE x[2] \in Rows /\ x[2] # r
    OBVIOUS
  <2>1. x \in Refs[r]
    BY ContentFacts
  <2>2. QED
    BY <2>1, RefsFacts, OthersReferred
<1>4. NoDangling'
  <2> SUFFICES ASSUME NEW p \in Rows \ excused', NEW x \in rows'[p].refs, Legible(rows'[p], x)
               PROVE  Holds(rows'[x[2]], x)
    BY DEF NoDangling, Legible, Holds
  <2>1. CASE p = r
    <3>1. Holds(rows[x[2]], x) /\ x[2] \in Rows /\ x[2] # r
      BY <1>1, <1>3, <2>1
    <3>2. QED
      BY <1>1, <3>1
  <2>2. CASE p # r
    <3>1. x \in rows[p].refs /\ p \notin excused /\ Legible(rows[p], x)
      BY <1>1, <2>2
    <3>2. Holds(rows[x[2]], x) /\ x[2] \in Rows
      BY <1>2, <3>1 DEF LinksInv, NoDangling
    <3>3. x[2] = r => Holds(c, x)
      BY <2>2, <3>1
    <3>4. QED
      BY <1>1, <3>2, <3>3
  <2>3. QED
    BY <2>1, <2>2
<1>5. ASSUME NEW g \in Workers PROVE DeletionOK(g)'
  <2> SUFFICES ASSUME at'[g] \in {"load", "check", "capture", "write"}, req'[g].op = "delete",
                      NEW p \in Rows \ excused', NEW x \in rows'[p].refs,
                      Legible(rows'[p], x), x[2] = req'[g].row
               PROVE  /\ Ahead(g, <<p.table, x[1]>>)'
                      /\ at'[g] # "load" /\ x[1] \in NaturalColumns => req'[g].body.key = "own"
    BY DEF DeletionOK, Legible
  <2>1. at'[g] = at[g] /\ req'[g] = req[g]
    OBVIOUS
  <2>2. p # r
    <3>1. SUFFICES ASSUME p = r PROVE FALSE
      OBVIOUS
    <3>2. ~Deleting(x[2])
      BY <1>1, <3>1
    <3>3. QED
      BY <2>1, <3>2 DEF Deleting, InHand
  <2>3. /\ Ahead(g, <<p.table, x[1]>>)
        /\ at[g] # "load" /\ x[1] \in NaturalColumns => req[g].body.key = "own"
    <3>1. x \in rows[p].refs /\ p \in Rows \ excused /\ Legible(rows[p], x)
      BY <1>1, <2>2
    <3>2. DeletionOK(g)
      BY DEF LinksInv
    <3>3. QED
      BY <2>1, <3>1, <3>2 DEF DeletionOK
  <2>4. QED
    BY <2>1, <2>3 DEF Ahead
<1>6. QED
  BY <1>4, <1>5 DEF LinksInv

\* The backup in hand is torn by a write, and one that is over is not.
LEMMA BackupKept ==
    ASSUME OamTypeOK, BackupInv, torn' = (torn \/ left # <<>>),
           UNCHANGED <<left, doc, taken, snapshot>>
    PROVE  BackupInv'
<1>1. CASE left # <<>>
  <2>1. torn'
    BY <1>1
  <2>2. QED
    BY <1>1, <2>1 DEF BackupInv, Legible, Holds
<1>2. CASE left = <<>>
  <2>1. torn' = torn
    BY <1>2 DEF OamTypeOK
  <2>2. QED
    BY <1>2, <2>1 DEF BackupInv, Legible, Holds
<1>3. QED
  BY <1>1, <1>2

\* Of a row with one request, before the write, the peers know what the node has.
LEMMA PeersKnow ==
    ASSUME OamIInv, NEW h \in Workers, at[h] = "write", Known(req[h].row)
    PROVE  /\ told[req[h].row].key = rows[req[h].row].key
           /\ (told[req[h].row] = Absent <=> rows[req[h].row] = Absent)
<1>1. OamTypeOK /\ RequestsOK /\ RowsApart /\ ToldInv
  BY DEF OamIInv
<1>2. req[h].row \in Rows
  BY <1>1, RequestFacts
<1>3. ~Publishing(req[h].row)
  BY <1>1 DEF Publishing, Committed, RowsApart, Known
<1>4. Seen(told[req[h].row]) = Seen(rows[req[h].row])
  BY <1>1, <1>2, <1>3 DEF ToldInv
<1>5. told[req[h].row] \in Content[req[h].row] /\ rows[req[h].row] \in Content[req[h].row]
  BY <1>1, <1>2 DEF OamTypeOK, Database
<1>6. QED
  BY <1>2, <1>4, <1>5, SeenFacts

\* A row is written, and logging it is next.
LEMMA WroteKeeps ==
    ASSUME OamIInv, NEW h \in Workers, at[h] = "write", NEW q \in Job,
           q.op = req[h].op, q.row = req[h].row, q.before = req[h].before, q.checks = req[h].checks,
           q.op # "delete" => q.body # Absent,
           Wrote(h, IF q.op = "delete" THEN Absent ELSE q.body), Advance(h, "log", q),
           strayed \subseteq strayed', strayed' \subseteq Rows,
           Known(q.row) /\ q.row \notin strayed' /\ q.row.table \in Keyed => ~Unmatched(told[q.row], q.body)
    PROVE  OamIInv'
<1> DEFINE r == q.row
           c == IF q.op = "delete" THEN Absent ELSE q.body
<1>1. OamTypeOK /\ RequestsOK /\ RequestOK(h) /\ DeletionOK(h) /\ Knows(h)
  BY DEF OamIInv, RequestsOK, LinksInv, KnowInv
<1>2. /\ rows' = [rows EXCEPT ![r] = c] /\ previous' = [previous EXCEPT ![r] = rows[r]]
      /\ excused' = Judged(r, c) \cup (IF c = Absent THEN {} ELSE Orphans(r, c))
      /\ torn' = (torn \/ left # <<>>)
      /\ UNCHANGED <<told, log, left, doc, taken, disturbed, unlogged, snapshot, requests, acts>>
  BY DEF Wrote, backup, counts
<1>3. /\ q.op \in Ops /\ r \in Rows /\ q.body \in Content[r] /\ Absent \in Content[r]
      /\ q.op # "delete" => q.checks = <<>>
      /\ rows[r] \in Content[r]
  BY <1>1, RequestFacts, ContentFacts DEF Job
<1>4. /\ c \in Content[r] /\ c \in Contents /\ rows[r] \in Contents
      /\ q.op = "delete" <=> c = Absent
  BY <1>3, ContentFacts
<1>5. /\ at' \in [Workers -> Stages] /\ req' \in [Workers -> Job \cup {NoJob}]
      /\ at'[h] = "log" /\ req'[h] = q /\ Others(h)
  <2>1. "log" \in Stages
    BY DEF Stages
  <2>2. QED
    BY <1>1, <2>1, AdvanceFacts
<1> HIDE DEF c
<1>6. OamTypeOK'
  <2>1. rows' \in Database /\ previous' \in Database
    BY <1>1, <1>2, <1>3, <1>4 DEF OamTypeOK, Database
  <2>2. excused' \subseteq Rows
    BY <1>1, <1>2, <1>3 DEF Judged, Orphans, OamTypeOK
  <2>3. torn' \in BOOLEAN
    BY <1>1, <1>2 DEF OamTypeOK
  <2>4. QED
    BY <1>1, <1>2, <1>5, <2>1, <2>2, <2>3 DEF OamTypeOK
<1>7. \A g \in Workers : g # h => at'[g] = at[g] /\ req'[g] = req[g]
  BY <1>5 DEF Others
<1>8. RequestsOK'
  <2> SUFFICES ASSUME NEW g \in Workers PROVE RequestOK(g)'
    BY DEF RequestsOK
  <2>1. CASE g # h
    BY <1>1, <1>7, <2>1 DEF RequestsOK, RequestOK
  <2>2. CASE g = h
    BY <1>1, <1>3, <1>5, <2>2, NoJobFacts DEF RequestOK
  <2>3. QED
    BY <2>1, <2>2
<1>9. RowsApart'
  <2>1. \A g \in Workers : at'[g] # "idle" => at[g] # "idle" /\ req'[g].row = req[g].row
    BY <1>5, <1>7
  <2>2. QED
    BY <1>2, <2>1 DEF OamIInv, RowsApart
<1>10. \A g \in Workers \ {h} : at[g] # "idle" /\ req[g].row = r => r \in disturbed
  BY DEF OamIInv, RowsApart
<1>11. \A p \in Rows : Known(p)' => Known(p) /\ p \notin strayed'
  BY <1>2 DEF Known
<1>12. KnowInv'
  <2> SUFFICES ASSUME NEW g \in Workers PROVE Knows(g)'
    BY DEF KnowInv
  <2>1. CASE g = h
    <3>1. rows'[r] = c /\ previous'[r] = rows[r]
      BY <1>1, <1>2, <1>3 DEF OamTypeOK, Database
    <3>2. r \notin disturbed => q.before = rows[r]
      BY <1>1 DEF Knows
    <3>3. Known(r)' /\ r.table \in Keyed => ~Unmatched(told'[r], q.body)
      BY <1>2, <1>3, <1>11 DEF Unmatched
    <3>4. QED
      BY <1>2, <1>5, <2>1, <3>1, <3>2, <3>3 DEF Knows, Committed, Unmatched, c
  <2>2. CASE g # h /\ at[g] # "idle" /\ req[g].row # r
    <3>1. req[g].row \in Rows
      BY <1>1, <2>2, RequestFacts
    <3>2. rows'[req[g].row] = rows[req[g].row] /\ previous'[req[g].row] = previous[req[g].row]
      BY <1>1, <1>2, <2>2, <3>1 DEF OamTypeOK, Database
    <3>3. Knows(g)
      BY DEF OamIInv, KnowInv
    <3>4. QED
      BY <1>2, <1>7, <1>11, <2>2, <3>1, <3>2, <3>3 DEF Knows, Committed, Present, Unmatched
  <2>3. CASE g # h /\ (at[g] = "idle" \/ req[g].row = r)
    BY <1>2, <1>7, <1>10, <2>3 DEF Knows
  <2>4. QED
    BY <2>1, <2>2, <2>3
<1>13. ToldInv'
  <2> SUFFICES ASSUME NEW p \in Rows, Known(p)', ~Publishing(p)'
               PROVE  Seen(told'[p]) = Seen(rows'[p])
    BY DEF ToldInv, Seen, Stored
  <2>1. p # r
    BY <1>5 DEF Publishing, Committed
  <2>2. ~Publishing(p) /\ Known(p)
    BY <1>7, <1>11, <2>1 DEF Publishing, Committed
  <2>3. rows'[p] = rows[p] /\ told'[p] = told[p]
    BY <1>1, <1>2, <2>1 DEF OamTypeOK, Database
  <2>4. QED
    BY <2>2, <2>3 DEF OamIInv, ToldInv
<1>14. LogInv'
  <2>1. ASSUME NEW p \in Rows, Logging(p) PROVE Logging(p)'
    BY <1>7, <2>1 DEF Logging
  <2>2. Unsure \subseteq Unsure' /\ r \in Unsure'
    <3>1. Logging(r)'
      BY <1>5 DEF Logging
    <3>2. QED
      BY <1>2, <1>3, <2>1, <3>1 DEF Unsure
  <2>3. \A p \in Rows \ Unsure' : previous'[p] = previous[p]
    BY <1>1, <1>2, <2>2 DEF OamTypeOK, Database
  <2>4. QED
    BY <1>1, <1>2, <2>2, <2>3, LogStays DEF OamIInv
<1>15. LinksInv'
  <2>1. \A p \in Rows \ excused' : p # r => p \notin excused
    BY <1>2 DEF Judged
  <2>2. r \notin excused' => \A x \in c.refs : Holds(rows[x[2]], x) /\ ~Deleting(x[2])
    BY <1>2 DEF Judged
  <2>3. ASSUME NEW p \in Rows \ excused', p # r, NEW x \in rows[p].refs,
               Legible(rows[p], x), x[2] = r
        PROVE  Holds(c, x)
    <3>1. CASE c = Absent
      <4>1. req[h].op = "delete" /\ req[h].checks = <<>>
        BY <1>1, <1>4, <3>1 DEF RequestOK
      <4>2. ~Ahead(h, <<p.table, x[1]>>)
        BY <4>1 DEF Ahead
      <4>3. QED
        BY <1>1, <2>1, <2>3, <4>1, <4>2 DEF DeletionOK
    <3>2. CASE c # Absent
      BY <1>2, <2>3, <3>2 DEF Orphans
    <3>3. QED
      BY <3>1, <3>2
  <2>4. \A g \in Workers : at'[g] \in {"load", "check", "capture", "write"} =>
           at'[g] = at[g] /\ req'[g] = req[g]
    BY <1>5, <1>7
  <2>5. LinksInv
    BY DEF OamIInv
  <2> HIDE DEF r
  <2>6. QED
    BY <1>1, <1>2, <1>3, <1>4, <2>1, <2>2, <2>3, <2>4, <2>5, LinksKept
<1>16. BackupInv'
  BY <1>1, <1>2, BackupKept DEF OamIInv
<1>17. QED
  BY <1>6, <1>8, <1>9, <1>12, <1>13, <1>14, <1>15, <1>16 DEF OamIInv

\* A row is inserted.
LEMMA CreateKeeps ==
    ASSUME OamIInv, NEW h \in Workers, Create(h)
    PROVE  OamIInv'
<1> DEFINE r == req[h].row
           s == Stored(req[h].body)
           q == [req[h] EXCEPT !.body = s]
<1>1. /\ at[h] = "write" /\ req[h].op = "create" /\ Wrote(h, s)
      /\ Advance(h, "log", q) /\ strayed' = strayed
  BY DEF Create
<1>2. OamTypeOK /\ RequestsOK /\ Knows(h)
  BY DEF OamIInv, KnowInv
<1>3. /\ req[h] \in Job /\ r \in Rows /\ req[h].body \in Content[r] /\ req[h].body # Absent
  BY <1>1, <1>2, RequestFacts
<1>4. s \in Content[r] /\ s # Absent /\ s \in Contents
  BY <1>3, StoredFacts, ContentFacts
<1> HIDE DEF s
<1>5. /\ q \in Job /\ q.op = "create" /\ q.row = r /\ q.before = req[h].before
      /\ q.checks = req[h].checks /\ q.body = s
  BY <1>1, <1>3, <1>4 DEF Job
<1> HIDE DEF q
<1>6. Known(r) => ~Unmatched(told[r], s)
  <2>1. Known(r) => rows[r] = Absent
    BY <1>1, <1>2 DEF Knows, Known
  <2>2. QED
    BY <1>1, <2>1, PeersKnow DEF Unmatched
<1>7. strayed \subseteq strayed' /\ strayed' \subseteq Rows
  BY <1>1, <1>2 DEF OamTypeOK
<1>8. Wrote(h, IF q.op = "delete" THEN Absent ELSE q.body)
  BY <1>1, <1>5
<1>9. QED
  BY <1>1, <1>4, <1>5, <1>6, <1>7, <1>8, WroteKeeps

\* A row is saved.
LEMMA SaveKeeps ==
    ASSUME OamIInv, NEW h \in Workers, Save(h)
    PROVE  OamIInv'
<1> DEFINE r == req[h].row
           q == req[h]
<1>1. /\ at[h] = "write" /\ req[h].op = "update" /\ Wrote(h, req[h].body)
      /\ Advance(h, "log", q)
      /\ strayed' = strayed \cup {x \in {r} : rows[x].key # req[h].body.key}
  BY DEF Save, Continue
<1>2. OamTypeOK /\ RequestsOK
  BY DEF OamIInv
<1>3. q \in Job /\ r \in Rows /\ req[h].body # Absent
  BY <1>1, <1>2, RequestFacts
<1>4. Known(r) /\ r \notin strayed' => ~Unmatched(told[r], req[h].body)
  <2>1. r \notin strayed' => rows[r].key = req[h].body.key
    BY <1>1
  <2>2. QED
    BY <1>1, <2>1, PeersKnow DEF Unmatched
<1>5. strayed \subseteq strayed' /\ strayed' \subseteq Rows
  BY <1>1, <1>2, <1>3 DEF OamTypeOK
<1>6. Wrote(h, IF q.op = "delete" THEN Absent ELSE q.body)
  BY <1>1
<1>7. QED
  BY <1>1, <1>3, <1>4, <1>5, <1>6, WroteKeeps

\* A row is deleted.
LEMMA DeleteKeeps ==
    ASSUME OamIInv, NEW h \in Workers, Delete(h)
    PROVE  OamIInv'
<1> DEFINE r == req[h].row
           q == req[h]
<1>1. /\ at[h] = "write" /\ req[h].op = "delete" /\ Wrote(h, Absent)
      /\ Advance(h, "log", q) /\ strayed' = strayed
  BY DEF Delete, Continue
<1>2. OamTypeOK /\ RequestsOK /\ Knows(h)
  BY DEF OamIInv, KnowInv
<1>3. q \in Job /\ r \in Rows
  BY <1>1, <1>2, RequestFacts
<1>4. Known(r) /\ r.table \in Keyed => ~Unmatched(told[r], req[h].body)
  <2>1. Known(r) /\ r.table \in Keyed => req[h].body = rows[r]
    BY <1>1, <1>2 DEF Knows, Known
  <2>2. QED
    BY <1>1, <2>1, PeersKnow DEF Unmatched
<1>5. strayed \subseteq strayed' /\ strayed' \subseteq Rows
  BY <1>1, <1>2 DEF OamTypeOK
<1>6. Wrote(h, IF q.op = "delete" THEN Absent ELSE q.body)
  BY <1>1
<1>7. QED
  BY <1>1, <1>3, <1>4, <1>5, <1>6, WroteKeeps

\* The UPDATE of a PUT finds no row, because another request took it away.
LEMMA SaveFindsNoneKeeps ==
    ASSUME OamIInv, NEW h \in Workers, SaveFindsNone(h)
    PROVE  OamIInv'
<1> DEFINE r == req[h].row
           q == [req[h] EXCEPT !.op = "create", !.before = Absent]
           e == LogEntry("update", r, req[h].before, Absent)
<1>1. /\ at[h] = "write" /\ req[h].op = "update" /\ ~Present(r)
      /\ log' \in {log, Pruned(Append(log, e))} /\ Advance(h, "write", q) /\ DataKept
      /\ UNCHANGED <<disturbed, unlogged, requests, acts>>
  BY DEF SaveFindsNone, DataKept, backup, oamHistory, counts
<1>2. OamTypeOK /\ RequestsOK /\ RequestOK(h) /\ Knows(h) /\ LogInv
  BY DEF OamIInv, RequestsOK, KnowInv
<1>3. /\ req[h] \in Job /\ r \in Rows /\ req[h].before \in Content[r] /\ Absent \in Content[r]
      /\ Absent \in Contents /\ req[h].body # Absent /\ req[h].checks = <<>>
  BY <1>1, <1>2, RequestFacts, ContentFacts
<1>4. r \in disturbed
  BY <1>1, <1>2 DEF Knows
<1>5. /\ q \in Job /\ q.op = "create" /\ q.row = r /\ q.before = Absent
      /\ q.checks = <<>> /\ q.body = req[h].body
  BY <1>3 DEF Job, Ops
<1>6. e \in LogEntries /\ e.row = r
  BY <1>3, EntryFacts DEF Ops
<1> HIDE DEF q, e
<1>7. /\ at' \in [Workers -> Stages] /\ req' \in [Workers -> Job \cup {NoJob}]
      /\ at'[h] = "write" /\ req'[h] = q /\ Others(h)
  <2>1. "write" \in Stages
    BY DEF Stages
  <2>2. QED
    BY <1>1, <1>2, <1>5, <2>1, AdvanceFacts
<1>8. RequestOK(h)'
  BY <1>3, <1>5, <1>7, NoJobFacts DEF RequestOK
<1>9. Knows(h)' /\ DeletionOK(h)'
  BY <1>1, <1>4, <1>5, <1>7 DEF Knows, DeletionOK
<1>10. log' \in Seq(LogEntries) /\ Backs(log', previous, Unsure)
  <2>1. log \in Seq(LogEntries) /\ Backs(log, previous, Unsure)
    BY <1>2 DEF OamTypeOK, LogInv
  <2>2. Unsure \cup {e.row} = Unsure
    BY <1>4, <1>6 DEF Unsure
  <2>3. Append(log, e) \in Seq(LogEntries) /\ Backs(Append(log, e), previous, Unsure)
    BY <1>4, <1>6, <2>1, <2>2, AppendedFacts DEF Unsure
  <2>4. QED
    BY <1>1, <2>1, <2>3, PrunedFacts
<1>11. LogInv'
  <2>1. Unsure' = Unsure
    <3>1. \A p \in Rows : Logging(p)' <=> Logging(p)
      BY <1>1, <1>7 DEF Logging, Others
    <3>2. QED
      BY <1>1, <3>1 DEF Unsure
  <2>2. QED
    BY <1>1, <1>10, <2>1 DEF LogInv, Backs, RolledBack, DataKept
<1>12. /\ requests' \in Nat /\ acts' \in Nat /\ disturbed \subseteq disturbed' /\ disturbed' \subseteq Rows
       /\ unlogged' \subseteq Rows
  BY <1>1, <1>2 DEF OamTypeOK
<1>13. ~Committed(h) /\ ~Committed(h)'
  BY <1>1, <1>7 DEF Committed
<1>14. req'[h].row \in disturbed'
  BY <1>1, <1>4, <1>5, <1>7
<1>15. QED
  BY <1>1, <1>7, <1>8, <1>9, <1>10, <1>11, <1>12, <1>13, <1>14, MoveKeeps

\* A write is recorded in the log, or it is not.
LEMMA WriteLogKeeps ==
    ASSUME OamIInv, NEW h \in Workers, WriteLog(h)
    PROVE  OamIInv'
<1> DEFINE r == req[h].row
           after == IF req[h].op = "delete" THEN Absent ELSE rows[r]
           e == LogEntry(req[h].op, r, req[h].before, after)
<1>1. /\ at[h] = "log" /\ Continue(h, "publish") /\ DataKept
      /\ UNCHANGED <<disturbed, requests, acts>>
      /\ \/ \E l \in {Append(log, e)} : log' \in {l, Pruned(l)} /\ unlogged' = unlogged \ {r}
         \/ log' \in {log, Pruned(log)} /\ unlogged' = unlogged \cup {r}
  BY DEF WriteLog, DataKept, backup, counts
<1>2. OamTypeOK /\ RequestsOK /\ RequestOK(h) /\ Knows(h) /\ LogInv
  BY DEF OamIInv, RequestsOK, KnowInv
<1>3. /\ req[h] \in Job /\ r \in Rows /\ req[h].op \in Ops /\ req[h].before \in Content[r]
      /\ after \in Content[r]
  BY <1>1, <1>2, RequestFacts, ContentFacts
<1>4. /\ at' \in [Workers -> Stages] /\ req' \in [Workers -> Job \cup {NoJob}]
      /\ at'[h] = "publish" /\ req'[h] = req[h] /\ Others(h)
  <2>1. "publish" \in Stages /\ Advance(h, "publish", req[h])
    BY <1>1 DEF Stages, Continue
  <2>2. QED
    BY <1>2, <1>3, <2>1, AdvanceFacts
<1>5. RequestOK(h)' /\ DeletionOK(h)'
  BY <1>1, <1>2, <1>4 DEF RequestOK, DeletionOK
<1>6. Knows(h)'
  <2>1. \A p \in Rows : Known(p)' => Known(p)
    BY <1>1 DEF Known, DataKept
  <2>2. QED
    BY <1>1, <1>2, <1>3, <1>4, <2>1 DEF Knows, Committed, Unmatched, DataKept
<1>7. req[h].op = "create" => req[h].before = Absent
  BY <1>1, <1>2 DEF RequestOK
<1> HIDE DEF after
<1>8. e \in LogEntries /\ e.row = r /\ RolledBack(e) = req[h].before
  BY <1>3, <1>7, EntryFacts
<1> HIDE DEF e
<1>9. r \notin disturbed => RolledBack(e) = previous[r]
  BY <1>1, <1>2, <1>8 DEF Knows
<1>10. /\ log \in Seq(LogEntries) /\ Backs(log, previous, Unsure)
       /\ requests' \in Nat /\ acts' \in Nat /\ disturbed \subseteq disturbed' /\ disturbed' \subseteq Rows
       /\ unlogged' \subseteq Rows /\ r \in Unsure
  BY <1>1, <1>2, <1>3 DEF OamTypeOK, LogInv, Unsure, Logging
<1>11. \A p \in Rows : p # r => (Logging(p)' <=> Logging(p))
  BY <1>1, <1>4 DEF Logging, Others
<1>12. /\ log' \in Seq(LogEntries) /\ Backs(log', previous, Unsure')
  <2>1. CASE \E l \in {Append(log, e)} : log' \in {l, Pruned(l)} /\ unlogged' = unlogged \ {r}
    <3>1. log' \in {Append(log, e), Pruned(Append(log, e))} /\ unlogged' = unlogged \ {r}
      BY <2>1
    <3>2. Unsure \subseteq Unsure' \cup {e.row}
      BY <1>1, <1>8, <1>11, <3>1 DEF Unsure
    <3>3. Backs(log, previous, Unsure' \cup {e.row})
      BY <1>10, <3>2, BacksKept
    <3>4. e.row \notin Unsure' => RolledBack(e) = previous[e.row]
      BY <1>1, <1>8, <1>9 DEF Unsure
    <3>5. Append(log, e) \in Seq(LogEntries) /\ Backs(Append(log, e), previous, Unsure')
      BY <1>8, <1>10, <3>3, <3>4, AppendedFacts
    <3>6. QED
      BY <3>1, <3>5, PrunedFacts
  <2>2. CASE log' \in {log, Pruned(log)} /\ unlogged' = unlogged \cup {r}
    <3>1. Unsure \subseteq Unsure'
      BY <1>1, <1>3, <1>11, <2>2 DEF Unsure
    <3>2. Backs(log, previous, Unsure')
      BY <1>10, <3>1, BacksKept
    <3>3. QED
      BY <1>10, <2>2, <3>2, PrunedFacts
  <2>3. QED
    BY <1>1, <2>1, <2>2
<1>13. LogInv'
  BY <1>1, <1>12 DEF LogInv, Backs, RolledBack, DataKept
<1>14. Committed(h) /\ Committed(h)'
  BY <1>1, <1>4 DEF Committed
<1>15. \A g \in Workers \ {h} :
          at[g] # "idle" /\ req[g].row = req'[h].row => req'[h].row \in disturbed'
  BY <1>1, <1>4 DEF OamIInv, RowsApart
<1>16. QED
  BY <1>1, <1>4, <1>5, <1>6, <1>10, <1>12, <1>13, <1>14, <1>15, MoveKeeps

\* A write is published, and the request is over.
LEMMA PublishKeeps ==
    ASSUME OamIInv, NEW h \in Workers, PublishOAM(h)
    PROVE  OamIInv'
<1> DEFINE r == req[h].row
           carried == API[r.table].published
           applied == applyOAMRecord(r, req[h].op = "delete", req[h].body)
           wrote   == IF req[h].op = "delete" THEN Absent ELSE req[h].body
<1>1. /\ at[h] = "publish" /\ Continue(h, "idle")
      /\ told' = IF carried THEN [told EXCEPT ![r] = applied] ELSE told
      /\ UNCHANGED <<rows, log, left, doc, taken, previous, excused, disturbed, unlogged, strayed,
                     snapshot, torn, requests, acts>>
  BY DEF PublishOAM, backup, oamHistory, counts
<1>2. OamTypeOK /\ RequestsOK
  BY DEF OamIInv
<1>3. /\ req[h] \in Job /\ r \in Rows /\ req[h].body \in Content[r]
      /\ req[h].op # "delete" => req[h].body # Absent
  BY <1>1, <1>2, RequestFacts
<1>4. /\ at' \in [Workers -> Stages] /\ req' \in [Workers -> Job \cup {NoJob}]
      /\ at'[h] = "idle" /\ req'[h] = NoJob /\ Others(h)
  <2>1. "idle" \in Stages /\ Advance(h, "idle", req[h])
    BY <1>1 DEF Stages, Continue
  <2>2. QED
    BY <1>2, <1>3, <2>1, AdvanceFacts
<1>5. carried => /\ applied \in Content[r]
                 /\ (r.table \in Keyed => ~Unmatched(told[r], req[h].body)) => Seen(applied) = Seen(wrote)
  <2> DEFINE deleted == req[h].op = "delete"
  <2>1. deleted \in BOOLEAN /\ (~deleted => req[h].body # Absent)
    BY <1>3
  <2> HIDE DEF deleted
  <2>2. carried => /\ applyOAMRecord(r, deleted, req[h].body) \in Content[r]
                   /\ (r.table \in Keyed => ~Unmatched(told[r], req[h].body)) =>
                         Seen(applyOAMRecord(r, deleted, req[h].body))
                            = Seen(IF deleted THEN Absent ELSE req[h].body)
    BY <1>2, <1>3, <2>1, AppliedFacts
  <2>3. QED
    BY <2>2 DEF deleted
<1>6. Known(r) => /\ rows[r] = wrote
                  /\ r.table \in Keyed => ~Unmatched(told[r], req[h].body)
  BY <1>1 DEF OamIInv, KnowInv, Knows, Known, Committed
<1> HIDE DEF r, carried, applied, wrote
<1>7. told' \in Database /\ (\A p \in Rows : p # r => told'[p] = told[p])
      /\ (carried => told'[r] = applied)
  <2>1. told \in [Rows -> Contents] /\ \A p \in Rows : told[p] \in Content[p]
    BY <1>2 DEF OamTypeOK, Database
  <2>2. CASE carried
    <3>1. applied \in Content[r] /\ applied \in Contents
      BY <1>3, <1>5, <2>2, ContentFacts
    <3>2. QED
      BY <1>1, <1>3, <2>1, <2>2, <3>1 DEF Database
  <2>3. CASE ~carried
    BY <1>1, <1>2, <2>3 DEF OamTypeOK
  <2>4. QED
    BY <2>2, <2>3
<1>8. OamTypeOK'
  BY <1>1, <1>2, <1>4, <1>7 DEF OamTypeOK
<1>9. RequestOK(h)' /\ Knows(h)' /\ DeletionOK(h)'
  BY <1>4, DoneFacts
<1>10. RequestsOK'
  <2> SUFFICES ASSUME NEW g \in Workers, g # h PROVE RequestOK(g)'
    BY <1>9 DEF RequestsOK
  <2>1. QED
    BY <1>2, <1>4 DEF RequestsOK, RequestOK, Others
<1>11. RowsApart'
  BY <1>1, <1>4 DEF OamIInv, RowsApart, Others
<1>12. \A p \in Rows : Known(p)' <=> Known(p)
  BY <1>1 DEF Known
<1>13. KnowInv'
  <2> SUFFICES ASSUME NEW g \in Workers, g # h PROVE Knows(g)'
    BY <1>9 DEF KnowInv
  <2>1. Knows(g) /\ at'[g] = at[g] /\ req'[g] = req[g]
    BY <1>4 DEF OamIInv, KnowInv, Others
  <2>2. CASE at[g] = "idle" \/ req[g].row \in disturbed
    BY <1>1, <2>1, <2>2 DEF Knows
  <2>3. CASE at[g] # "idle" /\ req[g].row \notin disturbed
    <3>1. req[g].row # r /\ req[g].row \in Rows
      BY <1>1, <1>2, <2>3, RequestFacts DEF OamIInv, RowsApart, r
    <3>2. told'[req[g].row] = told[req[g].row]
      BY <1>7, <3>1
    <3>3. QED
      BY <1>1, <1>12, <2>1, <3>1, <3>2 DEF Knows, Committed, Present, Unmatched
  <2>4. QED
    BY <2>2, <2>3
<1>14. ToldInv'
  <2> SUFFICES ASSUME NEW p \in Rows, Known(p), ~Publishing(p)'
               PROVE  Seen(told'[p]) = Seen(rows[p])
    BY <1>1, <1>12 DEF ToldInv, Seen
  <2>1. CASE p = r
    <3>1. carried
      BY <2>1 DEF carried, Known
    <3>2. QED
      BY <1>5, <1>6, <1>7, <2>1, <3>1
  <2>2. CASE p # r
    <3>1. ~Publishing(p)
      BY <1>4, <2>2 DEF Publishing, Committed, Others, r
    <3>2. QED
      BY <1>7, <2>2, <3>1 DEF OamIInv, ToldInv
  <2>3. QED
    BY <2>1, <2>2
<1>15. LogInv'
  <2>1. \A p \in Rows : Logging(p)' <=> Logging(p)
    BY <1>1, <1>4 DEF Logging, Others
  <2>2. Unsure' = Unsure
    BY <1>1, <2>1 DEF Unsure
  <2>3. QED
    BY <1>1, <1>2, <2>2, LogStays DEF OamIInv
<1>16. LinksInv'
  <2>1. NoDangling'
    BY <1>1 DEF OamIInv, LinksInv, NoDangling, Legible, Holds
  <2>2. ASSUME NEW g \in Workers, g # h PROVE DeletionOK(g)'
    <3>1. DeletionOK(g)
      BY DEF OamIInv, LinksInv
    <3>2. at'[g] = at[g] /\ req'[g] = req[g] /\ rows' = rows /\ excused' = excused
      BY <1>1, <1>4, <2>2 DEF Others
    <3>3. \A c : Ahead(g, c)' <=> Ahead(g, c)
      BY <3>2 DEF Ahead
    <3>4. QED
      BY <3>1, <3>2, <3>3 DEF DeletionOK, Legible
  <2>3. QED
    BY <1>9, <2>1, <2>2 DEF LinksInv
<1>17. BackupInv'
  BY <1>1 DEF OamIInv, BackupInv, Legible, Holds
<1>18. QED
  BY <1>8, <1>10, <1>11, <1>13, <1>14, <1>15, <1>16, <1>17 DEF OamIInv

-----------------------------------------------------------------------------
(***************************************************************************)
(* The REST interface: rollback, backup, restore and restart.              *)
(***************************************************************************)
\* A row is rolled back.
LEMMA RollbackKeeps ==
    ASSUME OamIInv, NEW i \in DOMAIN log, Rollback(i)
    PROVE  OamIInv'
<1> DEFINE r == log[i].row
           c == RolledBack(log[i])
<1>1. OamTypeOK
  BY DEF OamIInv
<1>2. log[i] \in LogEntries /\ r \in Rows /\ c \in Content[r] /\ rows[r] \in Content[r]
  <2>1. log[i] \in LogEntries
    BY <1>1 DEF OamTypeOK
  <2>2. r \in Rows /\ log[i].before \in Content[r]
    BY <2>1 DEF LogEntries
  <2>3. QED
    BY <1>1, <2>1, <2>2, ContentFacts DEF RolledBack, OamTypeOK, Database
<1>3. /\ rows' = [rows EXCEPT ![r] = c]
      /\ excused' = Judged(r, rows'[r]) \cup Orphans(r, rows'[r])
      /\ disturbed' = disturbed \cup {r} /\ torn' = (torn \/ left # <<>>)
      /\ UNCHANGED <<told, log, at, req, left, doc, taken, previous, unlogged, strayed, snapshot, requests>>
      /\ acts' = acts + 1
  BY DEF Rollback, Act, backup
<1> HIDE DEF r, c
<1>4. rows'[r] = c /\ \A p \in Rows : p # r => rows'[p] = rows[p]
  BY <1>1, <1>2, <1>3 DEF OamTypeOK, Database
<1>5. OamTypeOK'
  <2>1. rows' \in Database
    <3>1. c \in Contents
      BY <1>2, ContentFacts
    <3>2. QED
      BY <1>1, <1>2, <1>3, <3>1 DEF OamTypeOK, Database
  <2>2. excused' \subseteq Rows
    BY <1>1, <1>2, <1>3 DEF Judged, Orphans, OamTypeOK
  <2>3. disturbed' \subseteq Rows /\ torn' \in BOOLEAN /\ acts' \in Nat
    BY <1>1, <1>2, <1>3 DEF OamTypeOK
  <2>4. QED
    BY <1>1, <1>3, <2>1, <2>2, <2>3 DEF OamTypeOK
<1>6. RequestsOK' /\ RowsApart'
  BY <1>3 DEF OamIInv, RequestsOK, RequestOK, RowsApart
<1>7. \A p \in Rows : Known(p)' => Known(p) /\ p # r
  BY <1>3 DEF Known
<1>8. KnowInv'
  <2> SUFFICES ASSUME NEW g \in Workers PROVE Knows(g)'
    BY DEF KnowInv
  <2>1. CASE at[g] # "idle" /\ req[g].row # r
    <3>1. req[g].row \in Rows
      BY <1>1, <2>1, RequestFacts DEF OamIInv
    <3>2. rows'[req[g].row] = rows[req[g].row]
      BY <1>4, <2>1, <3>1
    <3>3. Knows(g)
      BY DEF OamIInv, KnowInv
    <3>4. QED
      BY <1>3, <1>7, <3>1, <3>2, <3>3 DEF Knows, Committed, Present
  <2>2. CASE at[g] = "idle" \/ req[g].row = r
    BY <1>3, <2>2 DEF Knows
  <2>3. QED
    BY <2>1, <2>2
<1>9. ToldInv'
  <2> SUFFICES ASSUME NEW p \in Rows, Known(p)', ~Publishing(p)
               PROVE  Seen(told[p]) = Seen(rows'[p])
    BY <1>3 DEF ToldInv, Seen, Publishing, Committed
  <2>1. p # r /\ Known(p)
    BY <1>7
  <2>2. QED
    BY <1>4, <2>1 DEF OamIInv, ToldInv
<1>10. LogInv'
  <2>1. Unsure \subseteq Unsure'
    BY <1>3 DEF Unsure, Logging
  <2>2. QED
    BY <1>1, <1>3, <2>1, LogStays DEF OamIInv
<1>11. LinksInv'
  <2>1. \A p \in Rows \ excused' : p # r => p \notin excused
    BY <1>3 DEF Judged
  <2>2. r \notin excused' => \A x \in c.refs : Holds(rows[x[2]], x) /\ ~Deleting(x[2])
    BY <1>3, <1>4 DEF Judged
  <2>3. \A p \in Rows \ excused' : p # r =>
           \A x \in rows[p].refs : Legible(rows[p], x) /\ x[2] = r => Holds(c, x)
    BY <1>3, <1>4 DEF Orphans
  <2>4. \A g \in Workers : at'[g] = at[g] /\ req'[g] = req[g]
    BY <1>3
  <2>5. LinksInv
    BY DEF OamIInv
  <2>6. QED
    BY <1>1, <1>2, <1>3, <2>1, <2>2, <2>3, <2>4, <2>5, LinksKept
<1>12. BackupInv'
  BY <1>1, <1>3, BackupKept DEF OamIInv
<1>13. QED
  BY <1>5, <1>6, <1>8, <1>9, <1>10, <1>11, <1>12 DEF OamIInv

\* What the goroutines, the rows and the log say of each other, when none of them moves.
LEMMA StillKeeps ==
    ASSUME OamIInv,
           UNCHANGED <<rows, told, log, at, req, previous, excused, disturbed, unlogged, strayed>>
    PROVE  RequestsOK' /\ RowsApart' /\ KnowInv' /\ ToldInv' /\ LogInv' /\ LinksInv'
<1>1. RequestsOK' /\ RowsApart'
  BY DEF OamIInv, RequestsOK, RequestOK, RowsApart
<1>2. \A g \in Workers : Known(req[g].row)' <=> Known(req[g].row)
  BY DEF Known
<1>3. KnowInv'
  BY <1>2 DEF OamIInv, KnowInv, Knows, Committed, Present, Unmatched
<1>4. ToldInv'
  <2>1. \A r \in Rows : (Publishing(r)' <=> Publishing(r)) /\ (Known(r)' <=> Known(r))
    BY DEF Publishing, Committed, Known
  <2>2. QED
    BY <2>1 DEF OamIInv, ToldInv, Seen
<1>5. LogInv'
  <2>1. Unsure' = Unsure
    BY DEF Unsure, Logging
  <2>2. QED
    BY <2>1, LogStays DEF OamIInv
<1>6. LinksInv'
  <2>1. NoDangling'
    BY DEF OamIInv, LinksInv, NoDangling, Legible, Holds
  <2>2. ASSUME NEW g \in Workers PROVE DeletionOK(g)'
    <3>1. \A c : Ahead(g, c)' <=> Ahead(g, c)
      BY DEF Ahead
    <3>2. QED
      BY <3>1 DEF OamIInv, LinksInv, DeletionOK, Legible
  <2>3. QED
    BY <2>1, <2>2 DEF LinksInv
<1>7. QED
  BY <1>1, <1>3, <1>4, <1>5, <1>6

\* A backup begins.
LEMMA ExportKeeps ==
    ASSUME OamIInv, Export
    PROVE  OamIInv'
<1>1. OamTypeOK /\ NoDangling
  BY DEF OamIInv, LinksInv
<1>2. /\ UNCHANGED <<rows, told, log, at, req, previous, excused, disturbed, unlogged, strayed, acts>>
      /\ requests' = requests + 1
      /\ left' = BackupOrder /\ doc' = Empty /\ taken' = TRUE /\ torn' = FALSE
      /\ snapshot' = [rows |-> rows, excused |-> excused]
  BY DEF Export, Request
<1>3. OamTypeOK'
  <2>1. snapshot' \in [rows : Database, excused : SUBSET Rows]
    BY <1>1, <1>2 DEF OamTypeOK
  <2>2. left' \in Seq(DOMAIN API) /\ doc' \in Database
    <3>1. BackupOrder \in Seq(DOMAIN API)
      BY OrderFacts
    <3>2. left' = BackupOrder /\ doc' = Empty
      BY <1>2
    <3>3. doc' \in Database
      BY <3>2, EmptyFacts
    <3>4. left' \in Seq(DOMAIN API)
      BY <3>1, <3>2, Zenon
    <3>5. QED
      BY <3>3, <3>4
  <2>3. /\ rows' \in Database /\ told' \in Database /\ previous' \in Database
        /\ log' \in Seq(LogEntries)
        /\ at' \in [Workers -> Stages] /\ req' \in [Workers -> Job \cup {NoJob}]
        /\ excused' \subseteq Rows /\ disturbed' \subseteq Rows
        /\ unlogged' \subseteq Rows /\ strayed' \subseteq Rows
        /\ requests' \in Nat /\ acts' \in Nat
    BY <1>1, <1>2 DEF OamTypeOK
  <2>4. taken' \in BOOLEAN /\ torn' \in BOOLEAN
    BY <1>2
  <2>5. QED
    BY <2>1, <2>2, <2>3, <2>4, Zenon DEF OamTypeOK
<1>4. RequestsOK' /\ RowsApart' /\ KnowInv' /\ ToldInv' /\ LogInv' /\ LinksInv'
  BY <1>2, StillKeeps
<1>5. BackupInv'
  <2>1. snapshot'.rows = rows /\ snapshot'.excused = excused
    BY <1>2
  <2>2. \A r \in Rows : r.table \in DOMAIN API
    BY RowsAssumption
  <2>3. \A r \in Rows : \E k \in DOMAIN left' : left'[k] = r.table
    BY <1>2, <2>2, OrderFacts
  <2>4. \A r \in Rows \ snapshot'.excused : \A x \in snapshot'.rows[r].refs :
           Legible(snapshot'.rows[r], x) => Holds(snapshot'.rows[x[2]], x)
    BY <1>1, <2>1 DEF NoDangling
  <2>5. QED
    BY <1>2, <2>1, <2>3, <2>4 DEF BackupInv, Legible, Holds
<1>6. QED
  BY <1>3, <1>4, <1>5 DEF OamIInv

\* A table is read into the document.
LEMMA BuildBackupKeeps ==
    ASSUME OamIInv, BuildBackup
    PROVE  OamIInv'
<1>1. OamTypeOK /\ BackupInv
  BY DEF OamIInv
<1>2. /\ UNCHANGED <<rows, told, log, at, req, previous, excused, disturbed, unlogged, strayed,
                     taken, snapshot, torn, requests, acts>>
      /\ left # <<>> /\ left' = Tail(left)
      /\ doc' = [r \in Rows |-> IF r.table = Head(left) THEN rows[r] ELSE doc[r]]
  BY DEF BuildBackup, oamHistory, counts
<1>3. OamTypeOK'
  <2>1. left' \in Seq(DOMAIN API)
    <3> DEFINE tables == DOMAIN API
    <3>1. left \in Seq(tables)
      BY <1>1 DEF OamTypeOK
    <3> HIDE DEF tables
    <3>2. left' \in Seq(tables)
      BY <1>2, <3>1
    <3>3. QED
      BY <3>2 DEF tables
  <2>2. doc' \in Database
    BY <1>1, <1>2 DEF OamTypeOK, Database
  <2>3. QED
    BY <1>1, <1>2, <2>1, <2>2 DEF OamTypeOK
<1>4. RequestsOK' /\ RowsApart' /\ KnowInv' /\ ToldInv' /\ LogInv' /\ LinksInv'
  BY <1>2, StillKeeps
<1>5. BackupInv'
  <2>1. ASSUME ~torn, NEW r \in Rows, \A k \in DOMAIN left' : left'[k] # r.table
        PROVE  doc'[r] = snapshot.rows[r]
    <3>1. taken /\ rows = snapshot.rows
      BY <1>1, <1>2, <2>1 DEF BackupInv
    <3>2. CASE r.table = Head(left)
      BY <1>2, <3>1, <3>2
    <3>3. CASE r.table # Head(left)
      <4> DEFINE tables == DOMAIN API
      <4>1. left \in Seq(tables)
        BY <1>1 DEF OamTypeOK
      <4> HIDE DEF tables
      <4>2. ASSUME NEW k \in DOMAIN left PROVE left[k] # r.table
        <5>1. CASE k = 1
          BY <1>2, <3>3, <4>1, <5>1
        <5>2. CASE k # 1
          <6>1. k - 1 \in 1 .. Len(Tail(left)) /\ Tail(left)[k - 1] = left[k]
            BY <1>2, <4>1, <5>2
          <6>2. DOMAIN Tail(left) = 1 .. Len(Tail(left))
            BY <1>2, <4>1
          <6>3. QED
            BY <1>2, <2>1, <6>1, <6>2
        <5>3. QED
          BY <5>1, <5>2
      <4>3. doc[r] = snapshot.rows[r]
        BY <1>1, <2>1, <3>1, <4>2 DEF BackupInv
      <4>4. QED
        BY <1>2, <3>3, <4>3
    <3>4. QED
      BY <3>2, <3>3
  <2>2. QED
    BY <1>1, <1>2, <2>1 DEF BackupInv, Legible, Holds
<1>6. QED
  BY <1>3, <1>4, <1>5 DEF OamIInv

\* A document is restored.
LEMMA ApplyRestoreKeeps ==
    ASSUME OamIInv, ApplyRestore
    PROVE  OamIInv'
<1>1. OamTypeOK /\ BackupInv /\ RequestsOK
  BY DEF OamIInv
<1>2. /\ taken /\ left = <<>> /\ rows' = Restored /\ disturbed' = Rows
      /\ excused' = IF torn THEN Rows
                    ELSE snapshot.excused \cup {r \in Rows : \E x \in doc[r].refs : Deleting(x[2])}
      /\ UNCHANGED <<told, log, at, req, left, doc, taken, previous, unlogged, strayed, snapshot,
                     torn, requests, acts>>
  BY DEF ApplyRestore, backup, counts
<1>3. \A r \in Rows : doc[r] \in Content[r]
  BY <1>1 DEF OamTypeOK, Database
<1>4. \A r \in Rows : /\ rows'[r] \in Content[r] /\ (rows'[r] = Absent <=> doc[r] = Absent)
                      /\ rows'[r].refs = doc[r].refs /\ rows'[r].key = doc[r].key
                      /\ rows'[r].spaced = doc[r].spaced
  BY <1>2, <1>3, StoredFacts DEF Restored
<1>5. OamTypeOK'
  <2>1. excused' \subseteq Rows
    BY <1>1, <1>2 DEF OamTypeOK
  <2>2. rows' \in Database
    <3>1. \A r \in Rows : rows'[r] \in Contents
      BY <1>4, ContentFacts
    <3>2. rows' = [r \in Rows |-> Stored(doc[r])]
      BY <1>2 DEF Restored
    <3>3. rows' \in [Rows -> Contents]
      BY <3>1, <3>2
    <3>4. QED
      BY <1>4, <3>3 DEF Database
  <2>3. QED
    BY <1>1, <1>2, <2>1, <2>2 DEF OamTypeOK
<1>6. RequestsOK'
  BY <1>2 DEF OamIInv, RequestsOK, RequestOK
<1>7. \A g \in Workers : at[g] # "idle" => req[g].row \in Rows
  BY <1>1, RequestFacts
<1>8. RowsApart' /\ KnowInv' /\ ToldInv'
  BY <1>2, <1>7 DEF RowsApart, KnowInv, Knows, ToldInv, Known
<1>9. LogInv'
  <2>1. Unsure' = Rows /\ Unsure \subseteq Rows
    BY <1>1, <1>2 DEF Unsure, OamTypeOK
  <2>2. QED
    BY <1>1, <1>2, <2>1, LogStays DEF OamIInv
<1>10. LinksInv'
  <2>1. CASE torn
    BY <1>2, <2>1 DEF LinksInv, NoDangling, DeletionOK
  <2>2. CASE ~torn
    <3>1. \A r \in Rows : doc[r] = snapshot.rows[r]
      BY <1>1, <1>2, <2>2 DEF BackupInv
    <3>2. \A r \in Rows : \A x \in doc[r].refs : x[2] \in Rows
      <4> SUFFICES ASSUME NEW r \in Rows, NEW x \in doc[r].refs PROVE x[2] \in Rows
        OBVIOUS
      <4>1. x \in Refs[r]
        BY <1>3, ContentFacts
      <4>2. QED
        BY <4>1, RefsFacts
    <3>3. NoDangling'
      <4> SUFFICES ASSUME NEW p \in Rows \ excused', NEW x \in rows'[p].refs, Legible(rows'[p], x)
                   PROVE  Holds(rows'[x[2]], x)
        BY DEF NoDangling, Legible, Holds
      <4>1. p \notin snapshot.excused /\ x \in doc[p].refs /\ Legible(doc[p], x)
        BY <1>2, <1>4, <2>2 DEF Legible
      <4>2. x[2] \in Rows /\ Holds(snapshot.rows[x[2]], x)
        BY <1>1, <3>1, <3>2, <4>1 DEF BackupInv
      <4>3. Holds(doc[x[2]], x)
        BY <3>1, <4>2
      <4>4. QED
        BY <1>4, <4>2, <4>3 DEF Holds
    <3>4. ASSUME NEW g \in Workers PROVE DeletionOK(g)'
      <4> SUFFICES ASSUME at[g] # "idle", req[g].op = "delete", NEW p \in Rows \ excused',
                          NEW x \in doc[p].refs, x[2] = req[g].row
                   PROVE  FALSE
        BY <1>2, <1>4 DEF DeletionOK
      <4>1. Deleting(x[2])
        BY DEF Deleting, InHand
      <4>2. QED
        BY <1>2, <2>2, <4>1
    <3>5. QED
      BY <3>3, <3>4 DEF LinksInv
  <2>3. QED
    BY <2>1, <2>2
<1>11. BackupInv'
  BY <1>1, <1>2 DEF BackupInv, Legible, Holds
<1>12. QED
  BY <1>5, <1>6, <1>8, <1>9, <1>10, <1>11 DEF OamIInv

\* The process is restarted.
LEMMA OamRestartKeeps ==
    ASSUME OamIInv, OamRestart
    PROVE  OamIInv'
<1>1. OamTypeOK /\ RequestsOK
  BY DEF OamIInv
<1>2. /\ disturbed' = disturbed \cup {req[h].row : h \in {g \in Workers : at[g] \in {"log", "publish"}}}
      /\ at' = [h \in Workers |-> "idle"] /\ req' = [h \in Workers |-> NoJob]
      /\ UNCHANGED <<rows, told, log, left, doc, taken, previous, excused, unlogged, strayed,
                     snapshot, torn, requests>>
      /\ acts' = acts + 1
  BY DEF OamRestart, Act, backup
<1>3. \A h \in Workers : at'[h] = "idle" /\ req'[h] = NoJob
  BY <1>2
<1>4. disturbed \subseteq disturbed' /\ disturbed' \subseteq Rows
  <2>1. \A h \in Workers : at[h] \in {"log", "publish"} => req[h].row \in Rows
    BY <1>1, RequestFacts
  <2>2. QED
    BY <1>1, <1>2, <2>1 DEF OamTypeOK
<1>5. OamTypeOK'
  <2>1. at' \in [Workers -> Stages]
    BY <1>2 DEF Stages
  <2>2. req' \in [Workers -> Job \cup {NoJob}]
    BY <1>2
  <2>3. acts' \in Nat
    BY <1>1, <1>2 DEF OamTypeOK
  <2>4. QED
    BY <1>1, <1>2, <1>4, <2>1, <2>2, <2>3 DEF OamTypeOK
<1>6. \A h \in Workers : RequestOK(h)' /\ Knows(h)' /\ DeletionOK(h)'
  BY <1>3, DoneFacts
<1>7. RequestsOK' /\ KnowInv' /\ RowsApart'
  BY <1>3, <1>6 DEF RequestsOK, KnowInv, RowsApart
<1>8. ToldInv'
  <2> SUFFICES ASSUME NEW p \in Rows, Known(p)'
               PROVE  Seen(told[p]) = Seen(rows[p])
    BY <1>2 DEF ToldInv, Seen
  <2>1. Known(p) /\ ~Publishing(p)
    BY <1>2 DEF Known, Publishing, Committed
  <2>2. QED
    BY <2>1 DEF OamIInv, ToldInv
<1>9. LogInv'
  <2>1. ASSUME NEW p \in Rows, Logging(p) PROVE p \in disturbed'
    BY <1>2, <2>1 DEF Logging
  <2>2. Unsure \subseteq Unsure'
    BY <1>2, <1>4, <2>1 DEF Unsure
  <2>3. QED
    BY <1>1, <1>2, <2>2, LogStays DEF OamIInv
<1>10. LinksInv'
  <2>1. NoDangling'
    BY <1>2 DEF OamIInv, LinksInv, NoDangling, Legible, Holds
  <2>2. QED
    BY <1>6, <2>1 DEF LinksInv
<1>11. BackupInv'
  BY <1>2 DEF OamIInv, BackupInv, Legible, Holds
<1>12. QED
  BY <1>5, <1>7, <1>8, <1>9, <1>10, <1>11 DEF OamIInv

-----------------------------------------------------------------------------
(***************************************************************************)
(* The REST interface: the theorems.                                       *)
(***************************************************************************)
\* A database of two rows, one referring to the other, is one, and nothing dangles in it.
LEMMA LinkedFacts ==
    ASSUME NEW r \in Rows, NEW x \in Refs[r]
    PROVE  /\ Linked(r, x) \in Database
           /\ \A p \in Rows : \A y \in Linked(r, x)[p].refs : Holds(Linked(r, x)[y[2]], y)
<1> DEFINE full  == Plain({x})
           plain == Plain({})
<1>1. full \in Content[r] /\ full # Absent /\ full \in Contents /\ full.refs = {x}
  BY PlainFacts, ContentFacts
<1>2. \A q \in Rows : /\ plain \in Content[q] /\ plain # Absent /\ plain \in Contents
                      /\ plain.refs = {} /\ plain.key = "own"
  BY PlainFacts, ContentFacts
<1>3. \A q \in Rows : Absent \in Content[q] /\ Absent \in Contents /\ Absent.refs = {}
  BY ContentFacts
<1>4. Linked(r, x) = [q \in Rows |-> IF q = r THEN full ELSE IF q = x[2] THEN plain ELSE Absent]
  BY DEF Linked
<1>5. x[2] \in Rows /\ x[2] # r
  BY RefsFacts, OthersReferred
<1> HIDE DEF full, plain
<1>6. Linked(r, x) \in Database
  BY <1>1, <1>2, <1>3, <1>4 DEF Database
<1>7. ASSUME NEW p \in Rows, NEW y \in Linked(r, x)[p].refs
      PROVE  Holds(Linked(r, x)[y[2]], y)
  <2>1. y = x
    BY <1>1, <1>2, <1>3, <1>4, <1>7
  <2>2. QED
    BY <1>2, <1>4, <1>5, <2>1 DEF Holds
<1>8. QED
  BY <1>6, <1>7

LEMMA OamInitHolds == OamInit => OamIInv
<1> SUFFICES ASSUME OamInit PROVE OamIInv
  OBVIOUS
<1>1. \A r \in Rows : Empty[r] = Absent /\ Absent.refs = {}
  BY ContentFacts DEF Empty
<1>2. rows \in Database /\ \A p \in Rows : \A y \in rows[p].refs : Holds(rows[y[2]], y)
  <2>1. CASE rows = Empty
    BY <1>1, <2>1, EmptyFacts
  <2>2. ASSUME NEW r \in Rows, NEW x \in Refs[r], rows = Linked(r, x)
        PROVE  rows \in Database /\ \A p \in Rows : \A y \in rows[p].refs : Holds(rows[y[2]], y)
    BY <2>2, LinkedFacts
  <2>3. QED
    BY <2>1, <2>2 DEF OamInit
<1>3. OamTypeOK
  <2>1. snapshot \in [rows : Database, excused : SUBSET Rows]
    BY EmptyFacts DEF OamInit
  <2>2. "idle" \in Stages
    BY DEF Stages
  <2>3. at \in [Workers -> Stages] /\ req \in [Workers -> Job \cup {NoJob}]
    BY <2>2 DEF OamInit
  <2>4. log \in Seq(LogEntries)
    BY DEF OamInit
  <2>5. left \in Seq(DOMAIN API)
    BY DEF OamInit
  <2>6. QED
    BY <1>2, <2>1, <2>3, <2>4, <2>5, EmptyFacts DEF OamTypeOK, OamInit
<1>4. \A h \in Workers : at[h] = "idle" /\ req[h] = NoJob
  BY DEF OamInit
<1>5. RequestsOK /\ RowsApart /\ KnowInv /\ \A h \in Workers : DeletionOK(h)
  BY <1>4 DEF RequestsOK, RequestOK, RowsApart, KnowInv, Knows, DeletionOK
<1>6. ToldInv
  BY DEF OamInit, ToldInv
<1>7. LogInv
  <2>1. DOMAIN log = {}
    BY DEF OamInit
  <2>2. QED
    BY <2>1 DEF LogInv, Backs
<1>8. NoDangling
  BY <1>2 DEF NoDangling
<1>9. BackupInv
  <2>1. \A r \in Rows : snapshot.rows[r].refs = {}
    BY <1>1 DEF OamInit
  <2>2. QED
    BY <2>1 DEF OamInit, BackupInv
<1>10. QED
  BY <1>3, <1>5, <1>6, <1>7, <1>8, <1>9 DEF OamIInv, LinksInv

\* The bodies of requests.
LEMMA BodyFacts ==
    ASSUME NEW r \in Rows, NEW b \in Bodies[r]
    PROVE  b \in Content[r] /\ b # Absent
<1>1. \A l \in SUBSET Refs[r] : Plain(l) \in Filled(r)
  BY PlainFacts
<1>2. Plain({}) \in Filled(r) /\ Plain(Refs[r]) \in Filled(r)
  BY <1>1
<1>3. \A d \in {"zero", "other"}, n \in 1 .. 2 :
         [Plain({}) EXCEPT !.data = d, !.rest = n] \in Filled(r)
  BY <1>2 DEF Filled
<1>4. [Plain({}) EXCEPT !.key = "new"] \in Filled(r)
  BY <1>2 DEF Filled
<1>5. ASSUME NEW l \in SUBSET Refs[r] PROVE [Plain(l) EXCEPT !.spaced = TRUE] \in Filled(r)
  <2>1. Plain(l) \in Filled(r)
    BY <1>1
  <2>2. QED
    BY <2>1 DEF Filled
<1>6. b \in Filled(r)
  <2> DEFINE zero == IF r.table \in Defaulted THEN "zero" ELSE "other"
             rest == IF r.table \in Uncarried THEN 2 ELSE 1
             list == {x \in Refs[r] : x[1] \in ListColumns}
  <2>1. \/ b \in {Plain({}), Plain(Refs[r])}
        \/ b = [Plain({}) EXCEPT !.data = zero, !.rest = rest]
        \/ b = [Plain({}) EXCEPT !.key = "new"]
        \/ b = [Plain(list) EXCEPT !.spaced = TRUE]
    BY DEF Bodies
  <2>2. zero \in {"zero", "other"} /\ rest \in 1 .. 2 /\ list \in SUBSET Refs[r]
    OBVIOUS
  <2> HIDE DEF zero, rest, list
  <2>3. QED
    BY <1>2, <1>3, <1>4, <1>5, <2>1, <2>2
<1>7. QED
  BY <1>6, ContentFacts

LEMMA OamStepHolds == OamIInv /\ [OamNext]_oamVars => OamIInv'
<1> SUFFICES ASSUME OamIInv, [OamNext]_oamVars PROVE OamIInv'
  OBVIOUS
<1>1. ASSUME NEW h \in Workers, NEW r \in Rows, NEW op \in {"create", "update"}, NEW b \in Bodies[r],
             ReceiveWrite(h, op, r, b)
      PROVE  OamIInv'
  <2>1. b \in Content[r] /\ b # Absent
    BY BodyFacts
  <2>2. op \in Ops /\ op # "delete"
    BY DEF Ops
  <2>3. QED
    BY <1>1, <2>1, <2>2, ReceiveKeeps
<1>2. ASSUME NEW h \in Workers, NEW r \in Rows, ReceiveWrite(h, "delete", r, Absent)
      PROVE  OamIInv'
  <2>1. "delete" \in Ops /\ Absent \in Content[r]
    BY ContentFacts DEF Ops
  <2>2. QED
    BY <1>2, <2>1, ReceiveKeeps
<1>3. ASSUME NEW h \in Workers,
             \/ Load(h) \/ Check(h) \/ Fail(h) \/ Capture(h) \/ Create(h) \/ Save(h)
             \/ SaveFindsNone(h) \/ Delete(h) \/ WriteLog(h) \/ PublishOAM(h)
      PROVE  OamIInv'
  BY <1>3, LoadKeeps, CheckKeeps, FailKeeps, CaptureKeeps, CreateKeeps, SaveKeeps, SaveFindsNoneKeeps,
     DeleteKeeps, WriteLogKeeps, PublishKeeps
<1>4. ASSUME NEW i \in DOMAIN log, Rollback(i) PROVE OamIInv'
  BY <1>4, RollbackKeeps
<1>5. CASE Export \/ BuildBackup \/ ApplyRestore \/ OamRestart
  BY <1>5, ExportKeeps, BuildBackupKeeps, ApplyRestoreKeeps, OamRestartKeeps
<1>6. CASE UNCHANGED oamVars
  <2>1. /\ UNCHANGED <<rows, told, log, at, req, previous, excused, disturbed, unlogged, strayed>>
        /\ UNCHANGED <<left, doc, taken, snapshot, torn, requests, acts>>
    BY <1>6 DEF oamVars, backup, oamHistory, counts
  <2>2. OamTypeOK' /\ BackupInv'
    BY <2>1 DEF OamIInv, OamTypeOK, BackupInv, Legible, Holds
  <2>3. QED
    BY <2>1, <2>2, StillKeeps DEF OamIInv
<1>7. QED
  BY <1>1, <1>2, <1>3, <1>4, <1>5, <1>6 DEF OamNext

\* The invariant holds in every reachable state: what the rows, the goroutines, the log
\* and the backup say of each other (internal/api).
THEOREM OamInvariance == OamSpec => []OamIInv
  BY OamInitHolds, OamStepHolds, PTL DEF OamSpec

\* The state of the REST interface has its types.
THEOREM OamTypeCorrect == OamSpec => []OamTypeOK
<1>1. OamIInv => OamTypeOK
  BY DEF OamIInv
<1>2. QED
  BY <1>1, OamInvariance, PTL

\* What a row refers to is there, under the key it names: no DELETE, in any table and
\* however the requests interleave, takes away a row in use (apn.go:84-109, auc.go:241-254,
\* subscriber.go:178-212, charging.go:79-90, 155-172).  Not covered are references written
\* when they were not good, references to a row that a rollback took away or a PUT or a
\* rollback gave another IMSI or TFT group, and lists written with spaces.
THEOREM ReferencesHold == OamSpec => []NoDangling
<1>1. OamIInv => NoDangling
  BY DEF OamIInv, LinksInv
<1>2. QED
  BY <1>1, OamInvariance, PTL

\* When no request about a row of a replicated table is in hand, the peers have it if the
\* node does, with the same references and the same data in the columns their statements
\* carry, a column left zero by its default (store.go:583-651); not the columns no
\* statement carries, and not a row whose key a PUT changed.
THEOREM PeersHearOfRows == OamSpec => []PeersTold
<1>1. OamIInv => PeersTold
  <2> SUFFICES ASSUME OamIInv, NEW r \in Rows, Known(r), InHand(r) = {}
               PROVE  Seen(told[r]) = Seen(rows[r])
    BY DEF PeersTold
  <2>1. ~Publishing(r)
    BY DEF Publishing, Committed, InHand
  <2>2. QED
    BY <2>1 DEF OamIInv, ToldInv
<1>2. QED
  BY <1>1, OamInvariance, PTL

\* A backup nothing was written during is the database it began with (backup.go:115-143).
THEOREM BackupsAreWhole == OamSpec => []BackupWhole
<1>1. OamIInv => BackupWhole
  <2> SUFFICES ASSUME OamIInv, taken, left = <<>>, ~torn PROVE doc = snapshot.rows
    BY DEF BackupWhole
  <2>1. \A r \in Rows : doc[r] = snapshot.rows[r]
    BY DEF OamIInv, BackupInv
  <2>2. doc \in [Rows -> Contents] /\ snapshot.rows \in [Rows -> Contents]
    BY DEF OamIInv, OamTypeOK, Database
  <2>3. QED
    BY <2>1, <2>2
<1>2. QED
  BY <1>1, OamInvariance, PTL

\* Rolling back the newest entry of a row puts back the content before that write, if the
\* log has an entry of the write (audit.go:61-197, operation_log.go:56-117).
THEOREM RollbackUndoes == OamSpec => RollbackRestores
<1> DEFINE Undone == \A i \in DOMAIN log :
                        Newest(i) /\ log[i].row \notin disturbed \cup unlogged
                           /\ InHand(log[i].row) = {} /\ Rollback(i)
                           => rows'[log[i].row] = previous[log[i].row]
<1>1. OamIInv /\ [OamNext]_oamVars => [Undone]_oamVars
  <2> SUFFICES ASSUME OamIInv, NEW i \in DOMAIN log, Newest(i),
                      log[i].row \notin disturbed \cup unlogged, InHand(log[i].row) = {}, Rollback(i)
               PROVE  rows'[log[i].row] = previous[log[i].row]
    OBVIOUS
  <2>1. log[i].row \in Rows /\ rows \in [Rows -> Contents]
    BY DEF OamIInv, OamTypeOK, LogEntries, Database
  <2>2. rows' = [rows EXCEPT ![log[i].row] = RolledBack(log[i])]
    BY DEF Rollback
  <2>3. rows'[log[i].row] = RolledBack(log[i])
    BY <2>1, <2>2
  <2>4. log[i].row \notin Unsure
    BY DEF Unsure, Logging, InHand
  <2>5. QED
    BY <2>3, <2>4 DEF OamIInv, LogInv, Backs, Newest
<1>2. QED
  BY <1>1, OamInvariance, PTL DEF OamSpec, RollbackRestores

-----------------------------------------------------------------------------

USE NFsAssumption, SettingsAssumption, BoundsAssumption

-----------------------------------------------------------------------------
(***************************************************************************)
(* Connections: what steps have in common.                                 *)
(***************************************************************************)
Slots == Servers \X Addrs

\* A step leaves a place it is not about as it is.
SameSlot(l, a) ==
    /\ conn'[l][a] = conn[l][a] /\ late'[l][a] = late[l][a]
    /\ a \in listed'[l] <=> a \in listed[l]
    /\ <<l, a>> \in reused' <=> <<l, a>> \in reused
    /\ l = "Diameter" =>
          /\ watched \subseteq watched' /\ (a \in ghosts => a \in ghosts')
          /\ \A m \in notices' : m.addr = a => m \in notices
          /\ \A m \in notices : m.n = conn[l][a].n => m \in notices'

LEMMA SlotElsewhere ==
    ASSUME NEW l \in Servers, NEW a \in Addrs, ListedOK(l, a), EnteredOK(l, a),
           SameSlot(l, a), cfg' = cfg
    PROVE  ListedOK(l, a)' /\ EnteredOK(l, a)'
<1>1. State(l, a)' = State(l, a) /\ (Ends(l)' <=> Ends(l))
  BY DEF SameSlot, State, Ends
<1>2. ListedOK(l, a)'
  BY <1>1 DEF ListedOK, Kept, SameSlot
<1>3. Entered(l, a)' => Entered(l, a)
  BY <1>1 DEF Entered, SameSlot
<1>4. EnteredOK(l, a)'
  BY <1>1, <1>3 DEF EnteredOK, SameSlot
<1>5. QED
  BY <1>2, <1>4

\* A change at one place of a function of servers and addresses.
LEMMA PlaceFacts ==
    ASSUME NEW D, NEW f \in [Servers -> [Addrs -> D]], NEW l \in Servers, NEW a \in Addrs,
           NEW d \in D
    PROVE  LET g == [f EXCEPT ![l][a] = d] IN
           /\ g \in [Servers -> [Addrs -> D]] /\ g[l][a] = d
           /\ \A k \in Servers, b \in Addrs : k # l \/ b # a => g[k][b] = f[k][b]
<1> DEFINE g == [f EXCEPT ![l][a] = d]
<1>1. f[l] \in [Addrs -> D]
  OBVIOUS
<1>2. [f[l] EXCEPT ![a] = d] \in [Addrs -> D]
  BY <1>1
<1>3. g = [f EXCEPT ![l] = [f[l] EXCEPT ![a] = d]]
  OBVIOUS
<1>4. g \in [Servers -> [Addrs -> D]]
  BY <1>2, <1>3
<1>5. g[l] = [f[l] EXCEPT ![a] = d] /\ \A k \in Servers \ {l} : g[k] = f[k]
  BY <1>3
<1>6. g[l][a] = d /\ \A b \in Addrs \ {a} : g[l][b] = f[l][b]
  BY <1>1, <1>5
<1>7. QED
  BY <1>4, <1>5, <1>6

\* The state of one connection changes.
LEMMA SetConnFacts ==
    ASSUME ConnsTypeOK, NEW l \in Servers, NEW a \in Addrs, NEW s \in States, SetConn(l, a, s)
    PROVE  /\ conn' \in [Servers -> [Addrs -> [n : Nat, state : States]]]
           /\ conn'[l][a].n = conn[l][a].n /\ conn'[l][a].state = s
           /\ \A k \in Servers, b \in Addrs : k # l \/ b # a => conn'[k][b] = conn[k][b]
           /\ \A k \in Servers, b \in Addrs : conn'[k][b].n = conn[k][b].n
<1> DEFINE r == [n |-> conn[l][a].n, state |-> s]
<1>1. conn[l][a] \in [n : Nat, state : States]
  BY DEF ConnsTypeOK
<1>2. r \in [n : Nat, state : States]
  BY <1>1
<1>3. conn \in [Servers -> [Addrs -> [n : Nat, state : States]]]
  BY DEF ConnsTypeOK
<1>4. conn' = [conn EXCEPT ![l][a] = r]
  BY DEF SetConn
<1> HIDE DEF r
<1>5. /\ conn' \in [Servers -> [Addrs -> [n : Nat, state : States]]] /\ conn'[l][a] = r
      /\ \A k \in Servers, b \in Addrs : k # l \/ b # a => conn'[k][b] = conn[k][b]
  BY <1>2, <1>3, <1>4, PlaceFacts
<1>6. r.n = conn[l][a].n /\ r.state = s
  BY DEF r
<1>7. QED
  BY <1>5, <1>6

\* An address is put on or taken off a list.
LEMMA AddFacts ==
    ASSUME ConnsTypeOK, NEW l \in Servers, NEW a \in Addrs, Add(l, a)
    PROVE  /\ listed' \in [Servers -> SUBSET Addrs] /\ a \in listed'[l]
           /\ \A k \in Servers, b \in Addrs : k # l \/ b # a =>
                 (b \in listed'[k] <=> b \in listed[k])
<1>1. listed \in [Servers -> SUBSET Addrs] /\ listed[l] \cup {a} \subseteq Addrs
  BY DEF ConnsTypeOK
<1>2. listed' = [listed EXCEPT ![l] = listed[l] \cup {a}]
  BY DEF Add
<1>3. /\ listed' \in [Servers -> SUBSET Addrs] /\ listed'[l] = listed[l] \cup {a}
      /\ \A k \in Servers \ {l} : listed'[k] = listed[k]
  BY <1>1, <1>2
<1>4. QED
  BY <1>3

LEMMA RemoveFacts ==
    ASSUME ConnsTypeOK, NEW l \in Servers, NEW a \in Addrs, Unlist(l, a)
    PROVE  /\ listed' \in [Servers -> SUBSET Addrs] /\ a \notin listed'[l]
           /\ \A k \in Servers, b \in Addrs : k # l \/ b # a =>
                 (b \in listed'[k] <=> b \in listed[k])
<1>1. listed \in [Servers -> SUBSET Addrs] /\ listed[l] \ {a} \subseteq Addrs
  BY DEF ConnsTypeOK
<1>2. listed' = [listed EXCEPT ![l] = listed[l] \ {a}]
  BY DEF Unlist
<1>3. /\ listed' \in [Servers -> SUBSET Addrs] /\ listed'[l] = listed[l] \ {a}
      /\ \A k \in Servers \ {l} : listed'[k] = listed[k]
  BY <1>1, <1>2
<1>4. QED
  BY <1>3

\* All but the lists, place by place.
LEMMA ListsByPlace ==
    ASSUME ListsInv, NEW l \in Servers, NEW a \in Addrs, cfg' = cfg,
           \A k \in Servers, b \in Addrs : k # l \/ b # a => SameSlot(k, b),
           ListedOK(l, a)', EnteredOK(l, a)'
    PROVE  ListsInv'
<1> SUFFICES ASSUME NEW k \in Servers, NEW b \in Addrs PROVE ListedOK(k, b)' /\ EnteredOK(k, b)'
  BY DEF ListsInv
<1>1. CASE k = l /\ b = a
  BY <1>1
<1>2. CASE k # l \/ b # a
  BY <1>2, SlotElsewhere DEF ListsInv
<1>3. QED
  BY <1>1, <1>2

\* The hosts, while only connections change.
LEMMA HostsKept ==
    ASSUME HostsInv, UNCHANGED trackerVars
    PROVE  HostsInv'
  BY DEF HostsInv, HostOK, Asking, trackerVars

-----------------------------------------------------------------------------
(***************************************************************************)
(* Connections: the steps of a behaviour.                                  *)
(***************************************************************************)
LEMMA AcceptedStep ==
    ASSUME ConnsOK, NEW l \in Servers, NEW a \in Addrs, Accepted(l, a),
           IF l \in {"Diameter", "GSUP"} THEN UNCHANGED listed ELSE Add(l, a)
    PROVE  ConnsOK'
<1> DEFINE r == [n |-> opened + 1, state |-> "accepted"]
<1>0. /\ conn \in [Servers -> [Addrs -> [n : Nat, state : States]]]
      /\ opened' = opened + 1 /\ opened \in Nat /\ State(l, a) = "closed"
      /\ cfg' = cfg /\ UNCHANGED <<late, trackerVars, handshakeVars>>
  BY DEF ConnsOK, ConnsTypeOK, Accepted
<1>1. r \in [n : Nat, state : States] /\ r.n = opened + 1 /\ r.state = "accepted"
  BY <1>0 DEF States
<1>2. conn' = [conn EXCEPT ![l][a] = r]
  BY <1>0 DEF Accepted
<1> HIDE DEF r
<1>3. /\ conn' \in [Servers -> [Addrs -> [n : Nat, state : States]]] /\ conn'[l][a] = r
      /\ \A k \in Servers, b \in Addrs : k # l \/ b # a => conn'[k][b] = conn[k][b]
  BY <1>0, <1>1, <1>2, PlaceFacts
<1>4. /\ listed' \in [Servers -> SUBSET Addrs]
      /\ \A k \in Servers, b \in Addrs : k # l \/ b # a => (b \in listed'[k] <=> b \in listed[k])
      /\ l \notin {"Diameter", "GSUP"} => a \in listed'[l]
  <2>1. CASE l \in {"Diameter", "GSUP"}
    BY <2>1 DEF ConnsOK, ConnsTypeOK
  <2>2. CASE l \notin {"Diameter", "GSUP"}
    BY <2>2, AddFacts DEF ConnsOK
  <2>3. QED
    BY <2>1, <2>2
<1>4a. /\ reused' \subseteq Servers \X Addrs
       /\ \A k \in Servers, b \in Addrs : k # l \/ b # a => (<<k, b>> \in reused' <=> <<k, b>> \in reused)
  <2>1. reused' = reused \cup {<<l, a>>} \/ reused' = reused \ {<<l, a>>}
    BY DEF Accepted
  <2>2. reused \subseteq Servers \X Addrs
    BY DEF ConnsOK, ConnsTypeOK
  <2>3. QED
    BY <2>1, <2>2
<1>5. ConnsTypeOK'
  BY <1>0, <1>3, <1>4, <1>4a DEF ConnsOK, ConnsTypeOK, trackerVars, handshakeVars
<1>6. NumbersApart'
  <2>1. \A k \in Servers, b \in Addrs :
            conn'[k][b].n <= opened' /\ (State(k, b)' # "closed" => conn'[k][b].n # 0)
    <3> SUFFICES ASSUME NEW k \in Servers, NEW b \in Addrs
                 PROVE  conn'[k][b].n <= opened' /\ (State(k, b)' # "closed" => conn'[k][b].n # 0)
      OBVIOUS
    <3>1. conn[k][b].n \in Nat /\ conn[k][b].n <= opened /\ (conn[k][b].state # "closed" => conn[k][b].n # 0)
      BY <1>0 DEF ConnsOK, NumbersApart, State
    <3>2. CASE k = l /\ b = a
      BY <3>2, <1>0, <1>1, <1>3 DEF State
    <3>3. CASE k # l \/ b # a
      <4>1. conn'[k][b] = conn[k][b]
        BY <3>3, <1>3
      <4>2. QED
        BY <4>1, <3>1, <1>0 DEF State
    <3>4. QED
      BY <3>2, <3>3
  <2>2. \A k \in Servers, b \in Addrs : conn[k][b].n # opened + 1
    <3> SUFFICES ASSUME NEW k \in Servers, NEW b \in Addrs PROVE conn[k][b].n # opened + 1
      OBVIOUS
    <3>1. conn[k][b].n \in Nat /\ conn[k][b].n <= opened
      BY <1>0 DEF ConnsOK, NumbersApart
    <3>2. QED
      BY <3>1, <1>0
  <2>3. "Diameter" \in Servers
    BY DEF Servers
  <2>4. \A b, c \in Addrs : conn'["Diameter"][b].n = conn'["Diameter"][c].n =>
            b = c \/ conn'["Diameter"][b].n = 0
    BY <1>1, <1>3, <2>2, <2>3 DEF ConnsOK, NumbersApart
  <2>5. ASSUME NEW m \in notices
        PROVE  /\ m.n # 0 /\ m.n <= opened'
               /\ \A b \in Addrs : conn'["Diameter"][b].n = m.n =>
                     b = m.addr /\ State("Diameter", b)' \in {"open", "closed"}
    <3>1. m.n \in Nat /\ m.n # 0 /\ m.n <= opened
      BY DEF ConnsOK, ConnsTypeOK, NumbersApart
    <3>2. m.n # opened + 1 /\ m.n <= opened'
      BY <3>1, <1>0
    <3>3. QED
      BY <3>1, <3>2, <1>1, <1>3, <2>3 DEF ConnsOK, NumbersApart, State
  <2>6. notices' = notices
    BY <1>0 DEF handshakeVars
  <2>7. QED
    BY <2>1, <2>4, <2>5, <2>6 DEF NumbersApart
<1>7. ListsInv'
  <2>1. \A k \in Servers, b \in Addrs : k # l \/ b # a => SameSlot(k, b)
    BY <1>0, <1>3, <1>4, <1>4a DEF SameSlot, handshakeVars
  <2>2. ListedOK(l, a) /\ State(l, a)' = "accepted"
    BY <1>1, <1>3 DEF ConnsOK, ListsInv, State
  <2>3. ListedOK(l, a)'
    <3>1. CASE l = "Diameter"
      BY <3>1, <2>2, <1>0 DEF ListedOK, Kept, Ends, handshakeVars
    <3>2. CASE l # "Diameter"
      BY <3>2, <2>2 DEF ListedOK, Kept
    <3>3. QED
      BY <3>1, <3>2
  <2>4. EnteredOK(l, a)'
    <3>1. <<l, a>> \notin reused' => late[l][a] = 0 /\ (l = "Diameter" => \A m \in notices : m.addr # a)
      BY DEF Accepted, ConnsOK, ConnsTypeOK
    <3>2. Entered(l, a)' => a \in listed'[l]
      BY <2>2, <1>4 DEF Entered
    <3>3. QED
      BY <3>1, <3>2, <1>0 DEF EnteredOK, handshakeVars
  <2>5. QED
    BY <2>1, <2>3, <2>4, <1>0, ListsByPlace DEF ConnsOK
<1>8. HostsInv'
  BY <1>0, HostsKept DEF ConnsOK
<1>9. QED
  BY <1>5, <1>6, <1>7, <1>8 DEF ConnsOK

\* Every connection keeps its number while one changes its state.
LEMMA NumbersKept ==
    ASSUME ConnsOK, NEW l \in Servers, NEW a \in Addrs, NEW s \in States, SetConn(l, a, s),
           State(l, a) # "closed", s = "accepted" => l # "Diameter",
           l = "Diameter" => s \in {"open", "closed"}, UNCHANGED <<opened, notices>>
    PROVE  NumbersApart'
<1>1. /\ conn'[l][a].n = conn[l][a].n /\ conn'[l][a].state = s
      /\ \A k \in Servers, b \in Addrs : k # l \/ b # a => conn'[k][b] = conn[k][b]
      /\ \A k \in Servers, b \in Addrs : conn'[k][b].n = conn[k][b].n
  BY SetConnFacts DEF ConnsOK
<1>2. "Diameter" \in Servers
  BY DEF Servers
<1>3. \A k \in Servers, b \in Addrs :
          conn'[k][b].n <= opened' /\ (State(k, b)' # "closed" => conn'[k][b].n # 0)
  BY <1>1 DEF ConnsOK, NumbersApart, State
<1>4. \A b, c \in Addrs : conn'["Diameter"][b].n = conn'["Diameter"][c].n =>
          b = c \/ conn'["Diameter"][b].n = 0
  BY <1>1, <1>2 DEF ConnsOK, NumbersApart
<1>5. \A m \in notices : \A b \in Addrs : conn'["Diameter"][b].n = m.n =>
          b = m.addr /\ State("Diameter", b)' \in {"open", "closed"}
  BY <1>1, <1>2 DEF ConnsOK, NumbersApart, State
<1>6. QED
  BY <1>3, <1>4, <1>5 DEF ConnsOK, NumbersApart

\* A connection is taken over or used: HTTP and GSUP.
LEMMA MovedStep ==
    ASSUME ConnsOK, NEW l \in Servers, NEW a \in Addrs, NEW s \in States \ {"closed"},
           l # "Diameter", State(l, a) # "closed", SetConn(l, a, s),
           Add(l, a) \/ (Unlist(l, a) /\ s = "hijacked"),
           UNCHANGED <<late, reused>>, Untouched
    PROVE  ConnsOK'
<1>1. /\ conn' \in [Servers -> [Addrs -> [n : Nat, state : States]]]
      /\ conn'[l][a].state = s
      /\ \A k \in Servers, b \in Addrs : k # l \/ b # a => conn'[k][b] = conn[k][b]
  BY SetConnFacts DEF ConnsOK
<1>2. /\ listed' \in [Servers -> SUBSET Addrs]
      /\ s # "hijacked" => a \in listed'[l]
      /\ \A k \in Servers, b \in Addrs : k # l \/ b # a => (b \in listed'[k] <=> b \in listed[k])
  BY AddFacts, RemoveFacts DEF ConnsOK
<1>3. UNCHANGED <<cfg, opened, notices, watched, ghosts, trackerVars>>
  BY DEF Untouched, handshakeVars
<1>4. ConnsTypeOK'
  BY <1>1, <1>2, <1>3 DEF ConnsOK, ConnsTypeOK, trackerVars
<1>5. NumbersApart'
  BY <1>3, NumbersKept
<1>6. ListsInv'
  <2>1. \A k \in Servers, b \in Addrs : k # l \/ b # a => SameSlot(k, b)
    BY <1>1, <1>2, <1>3 DEF SameSlot
  <2>2. State(l, a)' = s /\ EnteredOK(l, a)
    BY <1>1 DEF State, ConnsOK, ListsInv
  <2>3. ListedOK(l, a)'
    BY <2>2 DEF ListedOK, Kept
  <2>4. EnteredOK(l, a)'
    BY <2>2, <1>2 DEF EnteredOK, Entered
  <2>5. QED
    BY <2>1, <2>3, <2>4, <1>3, ListsByPlace DEF ConnsOK
<1>7. HostsInv'
  BY <1>3, HostsKept DEF ConnsOK
<1>8. QED
  BY <1>4, <1>5, <1>6, <1>7 DEF ConnsOK

LEMMA EndedStep ==
    ASSUME ConnsOK, NEW l \in Servers, NEW a \in Addrs, NEW awaited \in BOOLEAN,
           State(l, a) # "closed", Ended(l, a, awaited), Ends(l) /\ Kept(l, a) => awaited
    PROVE  ConnsOK'
<1>0. "closed" \in States
  BY DEF States
<1>1. /\ conn' \in [Servers -> [Addrs -> [n : Nat, state : States]]]
      /\ conn'[l][a].state = "closed"
      /\ \A k \in Servers, b \in Addrs : k # l \/ b # a => conn'[k][b] = conn[k][b]
  BY <1>0, SetConnFacts DEF ConnsOK, Ended
<1>2. /\ late' \in [Servers -> [Addrs -> Nat]]
      /\ late'[l][a] = IF awaited THEN late[l][a] + 1 ELSE late[l][a]
      /\ \A k \in Servers, b \in Addrs : k # l \/ b # a => late'[k][b] = late[k][b]
  <2>1. late \in [Servers -> [Addrs -> Nat]] /\ late[l][a] + 1 \in Nat
    BY DEF ConnsOK, ConnsTypeOK
  <2>2. CASE awaited
    <3>1. late' = [late EXCEPT ![l][a] = late[l][a] + 1]
      BY <2>2 DEF Ended
    <3>2. QED
      BY <2>1, <2>2, <3>1, PlaceFacts
  <2>3. CASE ~awaited
    BY <2>1, <2>3 DEF Ended
  <2>4. QED
    BY <2>2, <2>3
<1>3. UNCHANGED <<listed, reused, cfg, opened, notices, watched, ghosts, trackerVars>>
  BY DEF Ended, Untouched, handshakeVars
<1>4. ConnsTypeOK'
  BY <1>1, <1>2, <1>3 DEF ConnsOK, ConnsTypeOK, trackerVars
<1>5. NumbersApart'
  BY <1>0, <1>3, NumbersKept DEF Ended
<1>6. ListsInv'
  <2>1. \A k \in Servers, b \in Addrs : k # l \/ b # a => SameSlot(k, b)
    BY <1>1, <1>2, <1>3 DEF SameSlot
  <2>2. State(l, a)' = "closed" /\ ListedOK(l, a) /\ late[l][a] \in Nat
    BY <1>1 DEF State, ConnsOK, ListsInv, ConnsTypeOK
  <2>3. ListedOK(l, a)'
    BY <2>2, <1>2, <1>3 DEF ListedOK, Ends
  <2>4. EnteredOK(l, a)'
    BY <2>2 DEF EnteredOK
  <2>5. QED
    BY <2>1, <2>3, <2>4, <1>3, ListsByPlace DEF ConnsOK
<1>7. HostsInv'
  BY <1>3, HostsKept DEF ConnsOK
<1>8. QED
  BY <1>4, <1>5, <1>6, <1>7 DEF ConnsOK

LEMMA HandshakeStep ==
    ASSUME ConnsOK, NEW a \in Addrs, Handshake(a)
    PROVE  ConnsOK'
<1> DEFINE N == conn["Diameter"][a].n
           new == [addr |-> a, n |-> N]
<1>0. "Diameter" \in Servers /\ "open" \in States
  BY DEF Servers, States
<1>1. /\ conn' \in [Servers -> [Addrs -> [n : Nat, state : States]]]
      /\ conn'["Diameter"][a].n = N /\ conn'["Diameter"][a].state = "open"
      /\ \A k \in Servers, b \in Addrs : k # "Diameter" \/ b # a => conn'[k][b] = conn[k][b]
      /\ \A k \in Servers, b \in Addrs : conn'[k][b].n = conn[k][b].n
  BY <1>0, SetConnFacts DEF ConnsOK, Handshake
<1>2. /\ N \in Nat /\ N # 0 /\ N <= opened
      /\ State("Diameter", a) = "accepted"
  BY <1>0 DEF ConnsOK, ConnsTypeOK, NumbersApart, Handshake
<1>3. /\ UNCHANGED <<cfg, late, listed, watched, ghosts, trackerVars, reused, opened>>
      /\ notices' = notices \cup {new}
  BY DEF Handshake
<1>4. new \in [addr : Addrs, n : Nat] /\ new.addr = a /\ new.n = N
  BY <1>2
<1> HIDE DEF new, N
<1>5. ConnsTypeOK'
  BY <1>1, <1>3, <1>4 DEF ConnsOK, ConnsTypeOK, trackerVars
<1>6. NumbersApart'
  <2>1. \A k \in Servers, b \in Addrs :
            conn'[k][b].n <= opened' /\ (State(k, b)' # "closed" => conn'[k][b].n # 0)
    BY <1>1, <1>2, <1>3 DEF ConnsOK, NumbersApart, State
  <2>2. \A b, c \in Addrs : conn'["Diameter"][b].n = conn'["Diameter"][c].n =>
            b = c \/ conn'["Diameter"][b].n = 0
    BY <1>0, <1>1 DEF ConnsOK, NumbersApart
  <2>3. ASSUME NEW m \in notices
        PROVE  /\ m.n # 0 /\ m.n <= opened'
               /\ \A b \in Addrs : conn'["Diameter"][b].n = m.n =>
                     b = m.addr /\ State("Diameter", b)' \in {"open", "closed"}
    BY <1>0, <1>1, <1>3 DEF ConnsOK, NumbersApart, State
  <2>4. /\ new.n # 0 /\ new.n <= opened'
        /\ \A b \in Addrs : conn'["Diameter"][b].n = new.n =>
              b = new.addr /\ State("Diameter", b)' \in {"open", "closed"}
    BY <2>2, <1>1, <1>2, <1>3, <1>4 DEF State
  <2>5. QED
    BY <2>1, <2>2, <2>3, <2>4, <1>3 DEF NumbersApart
<1>7. ListsInv'
  <2>1. \A k \in Servers, b \in Addrs : k # "Diameter" \/ b # a => SameSlot(k, b)
    BY <1>1, <1>3, <1>4 DEF SameSlot
  <2>2. /\ State("Diameter", a)' = "open" /\ conn'["Diameter"][a].n = N
        /\ ListedOK("Diameter", a) /\ EnteredOK("Diameter", a) /\ conn["Diameter"][a].n = N
    BY <1>0, <1>1 DEF State, ConnsOK, ListsInv, N
  <2>3. ListedOK("Diameter", a)'
    BY <2>2, <1>2, <1>3 DEF ListedOK, Kept, Ends
  <2>4. EnteredOK("Diameter", a)'
    BY <2>2, <1>2, <1>3, <1>4 DEF EnteredOK, Entered
  <2>5. QED
    BY <2>1, <2>3, <2>4, <1>0, <1>3, ListsByPlace DEF ConnsOK
<1>8. HostsInv'
  BY <1>3, HostsKept DEF ConnsOK
<1>9. QED
  BY <1>5, <1>6, <1>7, <1>8 DEF ConnsOK

LEMMA HandshakeNotifyStep ==
    ASSUME ConnsOK, NEW m \in notices, HandshakeNotify(m)
    PROVE  ConnsOK'
<1> DEFINE a == m.addr
           here == conn["Diameter"][m.addr]
<1>0. "Diameter" \in Servers /\ a \in Addrs /\ m.n \in Nat /\ here \in [n : Nat, state : States]
  BY DEF Servers, ConnsOK, ConnsTypeOK
<1>1. /\ listed' \in [Servers -> SUBSET Addrs] /\ a \in listed'["Diameter"]
      /\ \A k \in Servers, b \in Addrs : k # "Diameter" \/ b # a =>
            (b \in listed'[k] <=> b \in listed[k])
  BY <1>0, AddFacts DEF ConnsOK, HandshakeNotify
<1>2. late["Diameter"][a] \in Nat /\ late["Diameter"][a] + 1 \in Nat
  BY <1>0 DEF ConnsOK, ConnsTypeOK
<1>3. \/ /\ here.n = m.n /\ here.state = "open"
         /\ watched' = watched \cup {m.n} /\ late' = late /\ ghosts' = ghosts
      \/ /\ here.n # m.n \/ here.state # "open"
         /\ late' = [late EXCEPT !["Diameter"][a] = late["Diameter"][a] + 1]
         /\ ghosts' = ghosts /\ watched' = watched
      \/ /\ here.n # m.n \/ here.state # "open"
         /\ ghosts' = ghosts \cup {a} /\ late' = late /\ watched' = watched
  BY DEF HandshakeNotify
<1>4. /\ UNCHANGED <<cfg, conn, trackerVars, reused, opened>> /\ notices' = notices \ {m}
  BY DEF HandshakeNotify
<1>5. /\ late' \in [Servers -> [Addrs -> Nat]]
      /\ \A k \in Servers, b \in Addrs : k # "Diameter" \/ b # a => late'[k][b] = late[k][b]
      /\ \/ /\ here.n = m.n /\ here.state = "open" /\ m.n \in watched' /\ late' = late
         \/ /\ here.n # m.n \/ here.state # "open"
            /\ late'["Diameter"][a] > 0 \/ a \in ghosts'
  <2>1. CASE late' = late
    <3>1. late' # [late EXCEPT !["Diameter"][a] = late["Diameter"][a] + 1]
      <4> DEFINE d == late["Diameter"][a] + 1
      <4>1. late \in [Servers -> [Addrs -> Nat]] /\ d \in Nat /\ d # late["Diameter"][a]
        BY <1>2 DEF ConnsOK, ConnsTypeOK
      <4> HIDE DEF d, a
      <4>2. [late EXCEPT !["Diameter"][a] = d]["Diameter"][a] = d
        BY <4>1, <1>0, PlaceFacts
      <4>3. QED
        BY <4>1, <4>2, <2>1 DEF d
    <3>2. QED
      BY <2>1, <3>1, <1>0, <1>3 DEF ConnsOK, ConnsTypeOK
  <2>2. CASE late' # late
    <3> DEFINE d == late["Diameter"][a] + 1
    <3>1. /\ late \in [Servers -> [Addrs -> Nat]] /\ d \in Nat /\ d > 0
          /\ late' = [late EXCEPT !["Diameter"][a] = d]
      BY <2>2, <1>2, <1>3 DEF ConnsOK, ConnsTypeOK
    <3>2. here.n # m.n \/ here.state # "open"
      BY <2>2, <1>3
    <3> HIDE DEF d, a, here
    <3>3. /\ late' \in [Servers -> [Addrs -> Nat]] /\ late'["Diameter"][a] = d
          /\ \A k \in Servers, b \in Addrs : k # "Diameter" \/ b # a => late'[k][b] = late[k][b]
      BY <3>1, <1>0, PlaceFacts
    <3>4. QED
      BY <3>1, <3>2, <3>3
  <2>3. QED
    BY <2>1, <2>2
<1>7. watched \subseteq watched' /\ ghosts \subseteq ghosts'
      /\ watched' \subseteq Nat /\ ghosts' \subseteq Addrs
  <2>1. watched \subseteq Nat /\ ghosts \subseteq Addrs
    BY DEF ConnsOK, ConnsTypeOK
  <2>2. watched' = watched \/ watched' = watched \cup {m.n}
    BY <1>3
  <2>3. ghosts' = ghosts \/ ghosts' = ghosts \cup {a}
    BY <1>3
  <2>4. QED
    BY <2>1, <2>2, <2>3, <1>0
<1> HIDE DEF a, here
<1>8. ConnsTypeOK'
  BY <1>1, <1>4, <1>5, <1>7 DEF ConnsOK, ConnsTypeOK, trackerVars
<1>9. NumbersApart'
  BY <1>4 DEF ConnsOK, NumbersApart, State
<1>10. ListsInv'
  <2>1. \A k \in Servers, b \in Addrs : k # "Diameter" \/ b # a => SameSlot(k, b)
    <3> SUFFICES ASSUME NEW k \in Servers, NEW b \in Addrs, k # "Diameter" \/ b # a
                 PROVE  SameSlot(k, b)
      OBVIOUS
    <3>1. k = "Diameter" => conn["Diameter"][b].n # m.n
      BY DEF ConnsOK, NumbersApart, a
    <3>2. QED
      BY <3>1, <1>1, <1>4, <1>5, <1>7 DEF SameSlot
  <2>2. /\ ListedOK("Diameter", a) /\ EnteredOK("Diameter", a)
        /\ here = conn["Diameter"][a] /\ m.addr = a
    BY <1>0 DEF ConnsOK, ListsInv, here, a
  <2>3. ListedOK("Diameter", a)'
    BY <2>2, <1>4, <1>5 DEF ListedOK, Kept, State
  <2>4. EnteredOK("Diameter", a)'
    <3> SUFFICES ASSUME here.state # "closed", <<"Diameter", a>> \notin reused
                 PROVE  /\ late'["Diameter"][a] = 0
                        /\ \A x \in notices' : x.addr = a => x.n = here.n
                        /\ a \in listed'["Diameter"]
      BY <2>2, <1>4 DEF EnteredOK, State
    <3>1. late["Diameter"][a] = 0 /\ \A x \in notices : x.addr = a => x.n = here.n
      BY <2>2 DEF EnteredOK, State
    <3>2. here.n = m.n
      BY <3>1, <2>2
    <3>3. here.state \in {"open", "closed"}
      BY <3>2, <2>2, <1>0 DEF ConnsOK, NumbersApart, State
    <3>4. late' = late
      BY <3>2, <3>3, <1>5
    <3>5. QED
      BY <3>1, <3>4, <1>1, <1>4
  <2>5. QED
    BY <2>1, <2>3, <2>4, <1>0, <1>4, ListsByPlace DEF ConnsOK
<1>11. HostsInv'
  BY <1>4, HostsKept DEF ConnsOK
<1>12. QED
  BY <1>8, <1>9, <1>10, <1>11 DEF ConnsOK

LEMMA RemovedStep ==
    ASSUME ConnsOK, NEW l \in Servers, NEW a \in Addrs, Removed(l, a)
    PROVE  ConnsOK'
<1>1. /\ listed' \in [Servers -> SUBSET Addrs] /\ a \notin listed'[l]
      /\ \A k \in Servers, b \in Addrs : k # l \/ b # a => (b \in listed'[k] <=> b \in listed[k])
  BY RemoveFacts DEF ConnsOK, Removed
<1>2. /\ late' \in [Servers -> [Addrs -> Nat]]
      /\ \A k \in Servers, b \in Addrs : k # l \/ b # a => late'[k][b] = late[k][b]
  <2> DEFINE d == late[l][a] - 1
  <2>1. late[l][a] \in Nat /\ late[l][a] > 0
    BY DEF ConnsOK, ConnsTypeOK, Removed
  <2>2. /\ late \in [Servers -> [Addrs -> Nat]] /\ d \in Nat
        /\ late' = [late EXCEPT ![l][a] = d]
    BY <2>1 DEF ConnsOK, ConnsTypeOK, Removed
  <2> HIDE DEF d
  <2>3. QED
    BY <2>2, PlaceFacts
<1>3. UNCHANGED <<cfg, conn, reused, opened, notices, watched, ghosts, trackerVars>>
  BY DEF Removed, Untouched, handshakeVars
<1>4. ConnsTypeOK'
  BY <1>1, <1>2, <1>3 DEF ConnsOK, ConnsTypeOK, trackerVars
<1>5. NumbersApart'
  BY <1>3 DEF ConnsOK, NumbersApart, State
<1>6. ListsInv'
  <2>1. \A k \in Servers, b \in Addrs : k # l \/ b # a => SameSlot(k, b)
    BY <1>1, <1>2, <1>3 DEF SameSlot
  <2>2. EnteredOK(l, a) /\ late[l][a] # 0
    BY DEF ConnsOK, ListsInv, Removed, ConnsTypeOK
  <2>3. ListedOK(l, a)'
    BY <1>1 DEF ListedOK
  <2>4. EnteredOK(l, a)'
    BY <2>2, <1>3 DEF EnteredOK, State
  <2>5. QED
    BY <2>1, <2>3, <2>4, <1>3, ListsByPlace DEF ConnsOK
<1>7. HostsInv'
  BY <1>3, HostsKept DEF ConnsOK
<1>8. QED
  BY <1>4, <1>5, <1>6, <1>7 DEF ConnsOK

\* Requests: the connections and lists stay as they are.
LEMMA ConnsKept ==
    ASSUME NumbersApart, ListsInv,
           UNCHANGED <<cfg, conn, late, listed, handshakeVars, reused, opened>>
    PROVE  NumbersApart' /\ ListsInv'
<1>1. UNCHANGED <<notices, watched, ghosts>>
  BY DEF handshakeVars
<1>2. NumbersApart'
  BY <1>1 DEF NumbersApart, State
<1>3. \A l \in Servers, a \in Addrs : SameSlot(l, a)
  BY <1>1 DEF SameSlot
<1>4. QED
  BY <1>2, <1>3, SlotElsewhere DEF ListsInv

LEMMA ArriveStep ==
    ASSUME ConnsOK, NEW h \in Hosts, NEW a \in Addrs, Arrive(h, a)
    PROVE  ConnsOK'
<1> DEFINE N == conn["Diameter"][a].n
           new == [host |-> h, n |-> N, k |-> asked + 1]
           others == {r \in inwork : r.host = h}
<1>1. N \in Nat /\ asked \in Nat /\ asked + 1 \in Nat
  BY DEF ConnsOK, ConnsTypeOK, Servers
<1>2. new \in [host : Hosts, n : Nat, k : Nat] /\ new.host = h /\ new.n = N
  BY <1>1
<1>3. /\ asked' = asked + 1 /\ inwork' = inwork \cup {new}
      /\ latest' = [latest EXCEPT ![h] = N]
      /\ crossing' = IF others = {} THEN crossing \ {h}
                     ELSE IF \E r \in others : r.n # N THEN crossing \cup {h} ELSE crossing
      /\ UNCHANGED <<cfg, conn, late, listed, handshakeVars, tracked, reused, opened>>
  BY DEF Arrive
<1> HIDE DEF N, new
<1>4. /\ latest' \in [Hosts -> Nat] /\ latest'[h] = N
      /\ \A g \in Hosts \ {h} : latest'[g] = latest[g]
  BY <1>1, <1>3 DEF ConnsOK, ConnsTypeOK
<1>5. ConnsTypeOK'
  <2>1. crossing' \subseteq Hosts
    BY <1>3 DEF ConnsOK, ConnsTypeOK
  <2>2. inwork' \subseteq [host : Hosts, n : Nat, k : Nat] /\ asked' \in Nat
    BY <1>1, <1>2, <1>3 DEF ConnsOK, ConnsTypeOK
  <2>3. QED
    BY <2>1, <2>2, <1>3, <1>4 DEF ConnsOK, ConnsTypeOK, handshakeVars
<1>6. HostsInv'
  <2> SUFFICES ASSUME NEW g \in Hosts, g \notin crossing' PROVE HostOK(g)'
    BY DEF HostsInv
  <2>1. CASE g = h
    <3>1. \A r \in others : r.n = N
      BY <2>1, <1>3
    <3>2. \A r \in inwork' : r.host = h => r.n = N
      BY <3>1, <1>2, <1>3
    <3>3. Asking(h)'
      BY <1>2, <1>3 DEF Asking
    <3>4. QED
      BY <2>1, <3>2, <3>3, <1>4 DEF HostOK
  <2>2. CASE g # h
    <3>1. g \notin crossing
      BY <2>2, <1>3
    <3>2. HostOK(g)
      BY <3>1 DEF ConnsOK, HostsInv
    <3>3. /\ \A r \in inwork' : r.host = g => r \in inwork
          /\ inwork \subseteq inwork'
      BY <2>2, <1>2, <1>3
    <3>4. latest'[g] = latest[g] /\ tracked' = tracked
      BY <2>2, <1>3, <1>4
    <3>5. QED
      BY <3>2, <3>3, <3>4 DEF HostOK, Asking
  <2>3. QED
    BY <2>1, <2>2
<1>7. NumbersApart' /\ ListsInv'
  BY <1>3, ConnsKept DEF ConnsOK
<1>8. QED
  BY <1>5, <1>6, <1>7 DEF ConnsOK

LEMMA WrapStep ==
    ASSUME ConnsOK, NEW r \in inwork, Wrap(r)
    PROVE  ConnsOK'
<1> DEFINE h == r.host
<1>1. h \in Hosts /\ r.n \in Nat
  BY DEF ConnsOK, ConnsTypeOK
<1>2. /\ tracked' = [tracked EXCEPT ![h] = r.n] /\ inwork' = inwork \ {r}
      /\ UNCHANGED <<cfg, conn, late, listed, handshakeVars, latest, crossing, asked, reused, opened>>
  BY DEF Wrap, Set
<1>3. /\ tracked' \in [Hosts -> Nat] /\ tracked'[h] = r.n
      /\ \A g \in Hosts \ {h} : tracked'[g] = tracked[g]
  BY <1>1, <1>2 DEF ConnsOK, ConnsTypeOK
<1>4. ConnsTypeOK'
  BY <1>2, <1>3 DEF ConnsOK, ConnsTypeOK, handshakeVars
<1>5. HostsInv'
  <2> SUFFICES ASSUME NEW g \in Hosts, g \notin crossing PROVE HostOK(g)'
    BY <1>2 DEF HostsInv
  <2>0. HostOK(g)
    BY DEF ConnsOK, HostsInv
  <2>1. CASE g = h
    BY <2>0, <2>1, <1>2, <1>3 DEF HostOK
  <2>2. CASE g # h
    BY <2>0, <2>2, <1>2, <1>3 DEF HostOK, Asking
  <2>3. QED
    BY <2>1, <2>2
<1>6. NumbersApart' /\ ListsInv'
  BY <1>2, ConnsKept DEF ConnsOK
<1>7. QED
  BY <1>4, <1>5, <1>6 DEF ConnsOK

\* The process begins, or begins again.
LEMMA ConnsStart ==
    ASSUME opened \in Nat, asked \in Nat
    PROVE  ConnsRestart => ConnsOK'
<1> SUFFICES ASSUME ConnsRestart PROVE ConnsOK'
  OBVIOUS
<1>1. NoConn \in [n : Nat, state : States] /\ NoConn.n = 0 /\ NoConn.state = "closed"
  BY DEF NoConn, States
<1>2. conn' \in [Servers -> [Addrs -> [n : Nat, state : States]]]
  BY <1>1 DEF ConnsRestart
<1>3. \A l \in Servers, a \in Addrs : conn'[l][a].n = 0 /\ conn'[l][a].state = "closed"
  BY <1>1 DEF ConnsRestart
<1>4. ConnsTypeOK'
  BY <1>2 DEF ConnsTypeOK, ConnsRestart
<1>5. NumbersApart'
  BY <1>3 DEF NumbersApart, ConnsRestart, State, Servers
<1>6. ListsInv'
  BY <1>3 DEF ListsInv, ListedOK, EnteredOK, State, ConnsRestart
<1>7. HostsInv'
  BY DEF HostsInv, HostOK, Asking, ConnsRestart
<1>8. QED
  BY <1>4, <1>5, <1>6, <1>7 DEF ConnsOK

LEMMA ConnsBegin ==
    ASSUME ConnsInit
    PROVE  ConnsOK
<1>1. NoConn \in [n : Nat, state : States] /\ NoConn.n = 0 /\ NoConn.state = "closed"
  BY DEF NoConn, States
<1>2. conn \in [Servers -> [Addrs -> [n : Nat, state : States]]]
  BY <1>1 DEF ConnsInit
<1>3. \A l \in Servers, a \in Addrs : conn[l][a].n = 0 /\ conn[l][a].state = "closed"
  BY <1>1 DEF ConnsInit
<1>4. ConnsTypeOK
  BY <1>2 DEF ConnsTypeOK, ConnsInit
<1>5. NumbersApart
  BY <1>3 DEF NumbersApart, ConnsInit, State, Servers
<1>6. ListsInv
  BY <1>3 DEF ListsInv, ListedOK, EnteredOK, State, ConnsInit
<1>7. HostsInv
  BY DEF HostsInv, HostOK, Asking, ConnsInit
<1>8. QED
  BY <1>4, <1>5, <1>6, <1>7 DEF ConnsOK

LEMMA ServerFacts ==
    ASSUME cfg \in Settings
    PROVE  /\ Listeners \subseteq Servers \ {"Diameter", "GSUP"}
           /\ Endpoints \subseteq Servers /\ {"Diameter", "GSUP"} \subseteq Servers
           /\ cfg.tls \in BOOLEAN /\ cfg.shared \in BOOLEAN /\ cfg.nrf \in BOOLEAN
           /\ \A nf \in NFs : Tracker(nf) \in Servers
<1>1. Listeners \subseteq Servers \ {"Diameter", "GSUP"} /\ {"Diameter", "GSUP"} \subseteq Servers
  BY DEF Listeners, Servers
<1>2. Endpoints \subseteq Servers
  BY <1>1 DEF Endpoints
<1>3. \A nf \in NFs : Tracker(nf) \in Servers
  BY DEF Tracker, Servers
<1>4. QED
  BY <1>1, <1>2, <1>3

LEMMA HttpStep ==
    ASSUME cfg \in Settings, ConnsOK, NEW l \in Listeners, NEW a \in Addrs,
           Connect(l, a) \/ Hijack(l, a) \/ Active(l, a) \/ Close(l, a)
    PROVE  ConnsOK'
<1>1. l \in Servers /\ l \notin {"Diameter", "GSUP"} /\ cfg.tls \in BOOLEAN
  BY ServerFacts
<1>2. "hijacked" \in States \ {"closed"} /\ "active" \in States \ {"closed"}
  BY DEF States
<1>3. CASE Connect(l, a)
  BY <1>1, <1>3, AcceptedStep DEF Connect
<1>4. CASE Hijack(l, a)
  <2>1. /\ State(l, a) # "closed" /\ SetConn(l, a, "hijacked") /\ Unlist(l, a)
        /\ UNCHANGED <<late, reused>> /\ Untouched
    BY <1>4 DEF Hijack
  <2>2. QED
    BY <2>1, <1>1, <1>2, MovedStep
<1>5. CASE Active(l, a)
  <2>1. /\ State(l, a) # "closed" /\ SetConn(l, a, "active") /\ Add(l, a)
        /\ UNCHANGED <<late, reused>> /\ Untouched
    BY <1>5, <1>1 DEF Active
  <2>2. QED
    BY <2>1, <1>1, <1>2, MovedStep
<1>6. CASE Close(l, a)
  <2> DEFINE awaited == cfg.tls \/ State(l, a) = "accepted"
  <2>1. awaited \in BOOLEAN /\ State(l, a) # "closed" /\ Ended(l, a, awaited)
    BY <1>6, <1>1 DEF Close
  <2>2. Ends(l) => awaited
    BY <1>1 DEF Ends
  <2> HIDE DEF awaited
  <2>3. QED
    BY <2>1, <2>2, <1>1, EndedStep
<1>7. QED
  BY <1>3, <1>4, <1>5, <1>6

LEMMA GsupStep ==
    ASSUME cfg \in Settings, ConnsOK, NEW a \in Addrs, Start(a) \/ handleConn(a) \/ HangUp(a)
    PROVE  ConnsOK'
<1>1. "GSUP" \in Servers /\ "active" \in States \ {"closed"}
  BY ServerFacts DEF States
<1>2. CASE Start(a)
  BY <1>1, <1>2, AcceptedStep DEF Start
<1>3. CASE handleConn(a)
  <2>1. /\ State("GSUP", a) # "closed" /\ SetConn("GSUP", a, "active") /\ Add("GSUP", a)
        /\ UNCHANGED <<late, reused>> /\ Untouched
    BY <1>3 DEF handleConn
  <2>2. QED
    BY <2>1, <1>1, MovedStep
<1>4. CASE HangUp(a)
  <2>1. State("GSUP", a) # "closed" /\ Ended("GSUP", a, TRUE)
    BY <1>4 DEF HangUp
  <2>2. QED
    BY <2>1, <1>1, EndedStep
<1>5. QED
  BY <1>2, <1>3, <1>4

LEMMA DiameterStep ==
    ASSUME cfg \in Settings, ConnsOK, NEW a \in Addrs,
           serveNetwork(a) \/ Handshake(a) \/ Disconnect(a) \/ \E h \in Hosts : Arrive(h, a)
    PROVE  ConnsOK'
<1>1. "Diameter" \in Servers
  BY ServerFacts
<1>2. CASE serveNetwork(a)
  BY <1>1, <1>2, AcceptedStep DEF serveNetwork
<1>3. CASE Handshake(a)
  BY <1>3, HandshakeStep
<1>4. CASE Disconnect(a)
  <2> DEFINE awaited == conn["Diameter"][a].n \in watched
  <2>1. /\ awaited \in BOOLEAN /\ State("Diameter", a) # "closed"
        /\ Ended("Diameter", a, awaited) /\ (Kept("Diameter", a) => awaited)
    BY <1>4 DEF Disconnect, Kept
  <2> HIDE DEF awaited
  <2>2. QED
    BY <2>1, <1>1, EndedStep
<1>5. CASE \E h \in Hosts : Arrive(h, a)
  BY <1>5, ArriveStep
<1>6. QED
  BY <1>2, <1>3, <1>4, <1>5

\* What the NRF does leaves the connections alone.
LEMMA ConnsUntouched ==
    ASSUME ConnsOK, UNCHANGED <<cfg, connVars>>
    PROVE  ConnsOK'
<1>1. UNCHANGED <<cfg, conn, late, listed, notices, watched, tracked, inwork, latest, crossing,
                  reused, ghosts, opened, asked>>
  BY DEF connVars
<1>2. ConnsTypeOK'
  BY <1>1 DEF ConnsOK, ConnsTypeOK
<1>3. NumbersApart' /\ ListsInv'
  BY <1>1, ConnsKept DEF ConnsOK, handshakeVars
<1>4. HostsInv'
  BY <1>1, HostsKept DEF ConnsOK, trackerVars
<1>5. QED
  BY <1>2, <1>3, <1>4 DEF ConnsOK

-----------------------------------------------------------------------------
(***************************************************************************)
(* The network functions and the NRF.                                      *)
(***************************************************************************)
PCs     == {"off", "register", "beat", "again"}
Answers == {"none", "ok", "notfound", "silent", "refused"}

\* What Exchange changes.
LEMMA ExchangeFacts ==
    ASSUME NrfTypeOK, NEW nf \in NFs, NEW a \in {"ok", "notfound"}, NEW known \in SUBSET NFs,
           Exchange(nf, a, known)
    PROVE  /\ reply' \in [NFs -> Answers] /\ registered' \subseteq NFs /\ faults' \in Nat
           /\ reply'[nf] \in {a, "silent", "refused"}
           /\ \A k \in NFs \ {nf} : reply'[k] = reply[k]
<1>1. reply \in [NFs -> Answers] /\ registered \subseteq NFs /\ faults \in Nat
  BY DEF NrfTypeOK, Answers
<1>2. PICK b \in {a, "silent", "refused"} : reply' = [reply EXCEPT ![nf] = b]
  BY DEF Exchange
<1>3. b \in Answers
  BY DEF Answers
<1>4. /\ reply' \in [NFs -> Answers] /\ reply'[nf] = b
      /\ \A k \in NFs \ {nf} : reply'[k] = reply[k]
  BY <1>1, <1>2, <1>3
<1>5. registered' \subseteq NFs /\ faults' \in Nat
  <2>1. registered' \in {known, registered} /\ faults' \in {faults, faults + 1}
    BY DEF Exchange, Fault
  <2>2. registered' \subseteq NFs
    BY <2>1, <1>1
  <2>3. faults' \in Nat
    <3>1. faults + 1 \in Nat
      BY <1>1
    <3>2. QED
      BY <2>1, <1>1, <3>1, Zenon
  <2>4. QED
    BY <2>2, <2>3
<1>6. QED
  BY <1>4, <1>5

\* A request of a network function that is on its way to the NRF.
LEMMA RequestStep ==
    ASSUME NrfOK, NEW nf \in NFs, NEW a \in {"ok", "notfound"}, NEW known \in SUBSET NFs,
           Exchange(nf, a, known), stage[nf] # "off", a = "notfound" => stage[nf] = "beat",
           UNCHANGED <<cfg, stage, fetch, jwks, up, published, ever, rotations, nrfListed>>
    PROVE  NrfOK'
<1>1. /\ reply' \in [NFs -> Answers] /\ registered' \subseteq NFs /\ faults' \in Nat
      /\ reply'[nf] \in {a, "silent", "refused"}
      /\ \A k \in NFs \ {nf} : reply'[k] = reply[k]
  BY ExchangeFacts DEF NrfOK
<1>2. NrfTypeOK'
  BY <1>1 DEF NrfOK, NrfTypeOK, Answers
<1>3. KeysInv'
  BY DEF NrfOK, KeysInv
<1>4. ProgressInv'
  BY <1>1 DEF NrfOK, ProgressInv
<1>5. QED
  BY <1>2, <1>3, <1>4 DEF NrfOK

LEMMA RegisterStep ==
    ASSUME NrfOK, NEW nf \in NFs, Register(nf)
    PROVE  NrfOK'
<1>1. registered \cup {nf} \in SUBSET NFs
  BY DEF NrfOK, NrfTypeOK
<1>2. QED
  BY <1>1, RequestStep DEF Register

LEMMA HeartbeatStep ==
    ASSUME NrfOK, NEW nf \in NFs, Heartbeat(nf)
    PROVE  NrfOK'
<1> DEFINE a == IF nf \in registered THEN "ok" ELSE "notfound"
<1>1. registered \in SUBSET NFs /\ a \in {"ok", "notfound"}
  BY DEF NrfOK, NrfTypeOK
<1>2. Exchange(nf, a, registered) /\ stage[nf] = "beat"
      /\ UNCHANGED <<cfg, stage, fetch, jwks, up, published, ever, rotations, nrfListed>>
  BY DEF Heartbeat
<1> HIDE DEF a
<1>3. QED
  BY <1>1, <1>2, RequestStep

LEMMA HearStep ==
    ASSUME cfg \in Settings, NrfOK, NEW nf \in NFs, Hear(nf)
    PROVE  NrfOK'
<1>1. /\ stage \in [NFs -> PCs] /\ reply \in [NFs -> Answers]
      /\ fetch \in [NFs -> {"no", "due", "done"}] /\ Tracker(nf) \in Servers
  BY ServerFacts DEF NrfOK, NrfTypeOK, PCs, Answers
<1>2. stage[nf] # "off" /\ reply[nf] # "none" /\ After(nf) \in PCs \ {"off"}
  BY <1>1 DEF NrfOK, ProgressInv, Hear, After, PCs
<1>3. PICK f \in {"no", "due", "done"} :
          /\ fetch' = [fetch EXCEPT ![nf] = f]
          /\ f = IF stage[nf] = "register" /\ reply[nf] = "ok" THEN "due" ELSE fetch[nf]
  <2>1. fetch = [fetch EXCEPT ![nf] = fetch[nf]] /\ fetch[nf] \in {"no", "due", "done"}
    BY <1>1
  <2>2. QED
    BY <2>1 DEF Hear
<1>4. /\ stage' = [stage EXCEPT ![nf] = After(nf)] /\ reply' = [reply EXCEPT ![nf] = "none"]
      /\ nrfListed' \in {nrfListed \cup {Tracker(nf)}, nrfListed \ {Tracker(nf)}}
      /\ UNCHANGED <<cfg, jwks, nrfVars, faults>>
  BY DEF Hear
<1>5. /\ stage' \in [NFs -> PCs] /\ stage'[nf] = After(nf) /\ \A k \in NFs \ {nf} : stage'[k] = stage[k]
      /\ reply' \in [NFs -> Answers] /\ reply'[nf] = "none"
      /\ \A k \in NFs \ {nf} : reply'[k] = reply[k]
      /\ fetch' \in [NFs -> {"no", "due", "done"}] /\ fetch'[nf] = f
      /\ \A k \in NFs \ {nf} : fetch'[k] = fetch[k]
  <2>1. "none" \in Answers /\ After(nf) \in PCs
    BY <1>2 DEF Answers
  <2>2. QED
    BY <2>1, <1>1, <1>3, <1>4
<1>6. NrfTypeOK'
  BY <1>1, <1>4, <1>5 DEF NrfOK, NrfTypeOK, PCs, Answers, nrfVars
<1>7. KeysInv'
  BY <1>4 DEF NrfOK, KeysInv, nrfVars
<1>8. ProgressInv'
  <2> SUFFICES ASSUME NEW k \in NFs
               PROVE  /\ stage'[k] = "off" <=> ~cfg.nrf
                      /\ stage'[k] \in {"off", "register"} <=> fetch'[k] = "no"
                      /\ jwks[k] # {} => fetch'[k] = "done"
                      /\ reply'[k] # "none" => stage'[k] # "off"
                      /\ reply'[k] = "notfound" => stage'[k] = "beat"
    BY <1>4 DEF ProgressInv
  <2>1. /\ stage[k] = "off" <=> ~cfg.nrf
        /\ stage[k] \in {"off", "register"} <=> fetch[k] = "no"
        /\ jwks[k] # {} => fetch[k] = "done"
        /\ reply[k] # "none" => stage[k] # "off"
        /\ reply[k] = "notfound" => stage[k] = "beat"
    BY DEF NrfOK, ProgressInv
  <2>2. CASE k = nf
    BY <2>1, <2>2, <1>1, <1>2, <1>3, <1>5 DEF After, PCs, Answers
  <2>3. CASE k # nf
    BY <2>1, <2>3, <1>5
  <2>4. QED
    BY <2>2, <2>3
<1>9. QED
  BY <1>6, <1>7, <1>8 DEF NrfOK

LEMMA FetchStep ==
    ASSUME NrfOK, NEW nf \in NFs, Fetch(nf)
    PROVE  NrfOK'
<1>1. /\ fetch' = [fetch EXCEPT ![nf] = "done"] /\ fetch[nf] = "due"
      /\ jwks' \in {[jwks EXCEPT ![nf] = Parsed(published)], jwks}
      /\ faults' \in {faults, faults + 1}
      /\ UNCHANGED <<cfg, stage, reply, nrfVars, nrfListed>>
  BY DEF Fetch, Fault
<1>2. Parsed(published) \subseteq published \ Broken
  BY DEF Parsed
<1>3. /\ published \subseteq ever /\ jwks \in [NFs -> SUBSET ever]
      /\ fetch \in [NFs -> {"no", "due", "done"}] /\ faults \in Nat
  BY DEF NrfOK, NrfTypeOK
<1>4. /\ jwks' \in [NFs -> SUBSET ever] /\ jwks'[nf] \in {Parsed(published), jwks[nf]}
      /\ \A k \in NFs \ {nf} : jwks'[k] = jwks[k]
  BY <1>1, <1>2, <1>3
<1>5. /\ fetch' \in [NFs -> {"no", "due", "done"}] /\ fetch'[nf] = "done"
      /\ \A k \in NFs \ {nf} : fetch'[k] = fetch[k]
  BY <1>1, <1>3
<1>6. UNCHANGED <<cfg, stage, reply, up, registered, published, ever, rotations, nrfListed>>
      /\ faults' \in Nat
  BY <1>1, <1>3 DEF nrfVars
<1>7. NrfTypeOK'
  BY <1>4, <1>5, <1>6 DEF NrfOK, NrfTypeOK
<1>8. KeysInv'
  BY <1>2, <1>3, <1>4, <1>6 DEF NrfOK, KeysInv
<1>9. ProgressInv'
  BY <1>1, <1>4, <1>5, <1>6 DEF NrfOK, ProgressInv
<1>10. QED
  BY <1>7, <1>8, <1>9 DEF NrfOK

\* What the NRF does by itself.
LEMMA NrfStep ==
    ASSUME NrfOK, NrfStop \/ NrfStart \/ (\E nf \in NFs : NrfForget(nf)) \/ Rotate
    PROVE  NrfOK'
<1>1. UNCHANGED <<cfg, stage, reply, fetch, jwks, nrfListed>>
  BY DEF NrfStop, NrfStart, NrfForget, Rotate, nfVars
<1>2. /\ up' \in BOOLEAN /\ registered' \subseteq NFs /\ faults' \in Nat /\ rotations' \in Nat
      /\ published' \subseteq ever' /\ ever \subseteq ever'
  <2>1. /\ up \in BOOLEAN /\ registered \subseteq NFs /\ faults \in Nat /\ rotations \in Nat
        /\ published \subseteq ever
    BY DEF NrfOK, NrfTypeOK
  <2>2. CASE NrfStop
    <3>1. /\ up' = FALSE /\ faults' = faults + 1
          /\ UNCHANGED <<registered, published, ever, rotations>>
      BY <2>2 DEF NrfStop, Fault
    <3>2. up' \in BOOLEAN
      BY <3>1
    <3>3. QED
      BY <2>1, <3>1, <3>2
  <2>3. CASE NrfStart
    BY <2>1, <2>3 DEF NrfStart
  <2>4. CASE \E nf \in NFs : NrfForget(nf)
    BY <2>1, <2>4 DEF NrfForget, Fault
  <2>5. CASE Rotate
    BY <2>1, <2>5 DEF Rotate
  <2>6. QED
    BY <2>2, <2>3, <2>4, <2>5
<1>3. jwks \in [NFs -> SUBSET ever']
  BY <1>2 DEF NrfOK, NrfTypeOK
<1>4. NrfTypeOK'
  BY <1>1, <1>2, <1>3 DEF NrfOK, NrfTypeOK
<1>5. KeysInv'
  BY <1>1, <1>2 DEF NrfOK, KeysInv
<1>6. ProgressInv'
  BY <1>1 DEF NrfOK, ProgressInv
<1>7. QED
  BY <1>4, <1>5, <1>6 DEF NrfOK

LEMMA FreshStep ==
    ASSUME cfg \in Settings, NrfOK, SbiRestart
    PROVE  NrfOK'
<1>1. /\ stage' = [nf \in NFs |-> IF cfg.nrf THEN "register" ELSE "off"]
      /\ reply' = [nf \in NFs |-> "none"] /\ fetch' = [nf \in NFs |-> "no"]
      /\ jwks' = [nf \in NFs |-> {}] /\ nrfListed' = {} /\ faults' = faults + 1
      /\ UNCHANGED <<cfg, up, registered, published, ever, rotations>>
  BY DEF SbiRestart, Fresh, Fault, nrfVars
<1>2. NrfTypeOK'
  BY <1>1 DEF NrfOK, NrfTypeOK
<1>3. KeysInv'
  BY <1>1 DEF KeysInv
<1>4. ProgressInv'
  BY <1>1, ServerFacts DEF ProgressInv
<1>5. QED
  BY <1>2, <1>3, <1>4 DEF NrfOK

-----------------------------------------------------------------------------
(***************************************************************************)
(* The invariant.                                                          *)
(***************************************************************************)
LEMMA SbiInitHolds == SbiInit => SbiIInv
<1> SUFFICES ASSUME SbiInit PROVE SbiIInv
  OBVIOUS
<1>1. cfg \in Settings /\ ConnsOK
  BY ConnsBegin DEF SbiInit
<1>2. cfg.nrf \in BOOLEAN
  BY <1>1, ServerFacts
<1>3. NrfTypeOK
  BY <1>2 DEF SbiInit, NrfTypeOK
<1>4. KeysInv
  BY DEF SbiInit, KeysInv
<1>5. ProgressInv
  BY <1>2 DEF SbiInit, ProgressInv
<1>6. QED
  BY <1>1, <1>3, <1>4, <1>5 DEF SbiIInv, NrfOK

LEMMA NrfUntouched ==
    ASSUME NrfOK, Apart, cfg' = cfg
    PROVE  NrfOK'
<1>1. UNCHANGED <<stage, reply, fetch, jwks, up, registered, published, ever, rotations, nrfListed, faults>>
  BY DEF Apart, nfVars, nrfVars
<1>2. QED
  BY <1>1 DEF NrfOK, NrfTypeOK, KeysInv, ProgressInv

LEMMA SbiStepHolds == SbiIInv /\ [SbiNext]_sbiVars => SbiIInv'
<1> SUFFICES ASSUME SbiIInv, [SbiNext]_sbiVars PROVE SbiIInv'
  OBVIOUS
<1> USE DEF SbiIInv
<1>1. ASSUME NEW nf \in NFs, Register(nf) \/ Heartbeat(nf) \/ Hear(nf) \/ Fetch(nf) PROVE SbiIInv'
  <2>1. UNCHANGED <<cfg, connVars>>
    BY <1>1 DEF Register, Heartbeat, Hear, Fetch
  <2>2. NrfOK'
    BY <1>1, RegisterStep, HeartbeatStep, HearStep, FetchStep
  <2>3. QED
    BY <2>1, <2>2, ConnsUntouched
<1>2. CASE NrfStop \/ NrfStart \/ (\E nf \in NFs : NrfForget(nf)) \/ Rotate
  <2>1. UNCHANGED <<cfg, connVars>>
    BY <1>2 DEF NrfStop, NrfStart, NrfForget, Rotate
  <2>2. QED
    BY <1>2, <2>1, NrfStep, ConnsUntouched
<1>3. ASSUME Apart, NEW l \in Listeners, NEW a \in Addrs,
             Connect(l, a) \/ Hijack(l, a) \/ Active(l, a) \/ Close(l, a)
      PROVE  SbiIInv'
  <2>1. cfg' = cfg
    BY <1>3 DEF Connect, Hijack, Active, Close, Accepted, Ended, Untouched
  <2>2. QED
    BY <1>3, <2>1, HttpStep, NrfUntouched
<1>4. ASSUME Apart, NEW a \in Addrs, Start(a) \/ handleConn(a) \/ HangUp(a) PROVE SbiIInv'
  <2>1. cfg' = cfg
    BY <1>4 DEF Start, handleConn, HangUp, Accepted, Ended, Untouched
  <2>2. QED
    BY <1>4, <2>1, GsupStep, NrfUntouched
<1>5. ASSUME Apart, NEW a \in Addrs,
             serveNetwork(a) \/ Handshake(a) \/ Disconnect(a) \/ \E h \in Hosts : Arrive(h, a)
      PROVE  SbiIInv'
  <2>1. cfg' = cfg
    BY <1>5 DEF serveNetwork, Handshake, Disconnect, Arrive, Accepted, Ended, Untouched
  <2>2. QED
    BY <1>5, <2>1, DiameterStep, NrfUntouched
<1>6. ASSUME Apart, NEW l \in Endpoints, NEW a \in Addrs, Removed(l, a) PROVE SbiIInv'
  <2>1. cfg' = cfg /\ l \in Servers
    BY <1>6, ServerFacts DEF Removed, Untouched
  <2>2. QED
    BY <1>6, <2>1, RemovedStep, NrfUntouched
<1>7. ASSUME Apart, NEW m \in notices, HandshakeNotify(m) PROVE SbiIInv'
  <2>1. cfg' = cfg
    BY <1>7 DEF HandshakeNotify
  <2>2. QED
    BY <1>7, <2>1, HandshakeNotifyStep, NrfUntouched
<1>8. ASSUME Apart, NEW r \in inwork, Wrap(r) PROVE SbiIInv'
  <2>1. cfg' = cfg
    BY <1>8 DEF Wrap
  <2>2. QED
    BY <1>8, <2>1, WrapStep, NrfUntouched
<1>9. CASE SbiRestart
  <2>1. cfg' = cfg /\ ConnsRestart /\ opened \in Nat /\ asked \in Nat
    BY <1>9 DEF SbiRestart, ConnsOK, ConnsTypeOK
  <2>2. QED
    BY <1>9, <2>1, ConnsStart, FreshStep
<1>10. CASE UNCHANGED sbiVars
  <2>1. UNCHANGED <<cfg, connVars>> /\ Apart
    BY <1>10 DEF sbiVars, Apart
  <2>2. QED
    BY <2>1, ConnsUntouched, NrfUntouched
<1>11. QED
  BY <1>1, <1>2, <1>3, <1>4, <1>5, <1>6, <1>7, <1>8, <1>9, <1>10 DEF SbiNext

\* The invariant the properties follow from: connections, lists, tracker and NRF.
THEOREM SbiInvariance == SbiSpec => []SbiIInv
<1>1. QED
  BY SbiInitHolds, SbiStepHolds, PTL DEF SbiSpec

-----------------------------------------------------------------------------
(***************************************************************************)
(* The properties.                                                         *)
(***************************************************************************)

\* Every variable keeps its type.
THEOREM SbiTypeCorrect == SbiSpec => []SbiTypeOK
<1>1. SbiIInv => SbiTypeOK
  BY DEF SbiIInv, SbiTypeOK, ConnsOK, NrfOK
<1>2. QED
  BY <1>1, SbiInvariance, PTL

\* The lists the REST interface shows hold the open connections, and no other but
\* those whose removal is about to run: whatever the order in which sockets are
\* reused, handshakes heard of and removals run (server.go:293-326,
\* gsup/server.go:74-82, connState).
THEOREM ListsShowWhoIsThere == SbiSpec => []ListedAreOpen
<1>1. SbiIInv => ListedAreOpen
  <2> SUFFICES ASSUME SbiIInv, NEW l \in Endpoints, NEW a \in Addrs
               PROVE  /\ Ends(l) /\ (l = "Diameter" => a \notin ghosts) /\ a \in listed[l]
                            => State(l, a) # "closed" \/ late[l][a] > 0
                      /\ Entered(l, a) /\ <<l, a>> \notin reused => a \in listed[l]
    BY DEF ListedAreOpen
  <2>1. l \in Servers
    BY ServerFacts DEF SbiIInv
  <2>2. ListedOK(l, a) /\ EnteredOK(l, a)
    BY <2>1 DEF SbiIInv, ConnsOK, ListsInv
  <2>3. Entered(l, a) => State(l, a) # "closed"
    BY DEF Entered
  <2>4. Kept(l, a) => State(l, a) # "closed"
    BY DEF Kept
  <2>5. QED
    BY <2>2, <2>3, <2>4 DEF ListedOK, EnteredOK
<1>2. QED
  BY <1>1, SbiInvariance, PTL

\* What the HSS sends to a host goes over the connection the host last sent a
\* request on, across reconnections and behind agents (server.go:170-178,
\* conntrack.go).
THEOREM TrackerFollows == SbiSpec => []PeersReached
<1>1. SbiIInv => PeersReached
  BY DEF SbiIInv, ConnsOK, HostsInv, HostOK, Asking, PeersReached, GetConn
<1>2. QED
  BY <1>1, SbiInvariance, PTL

\* With OAuth on, what the middleware of UDM and PCF lets pass carries a token that
\* a key of the NRF signed, whatever the NRF publishes, and when (auth.go).
THEOREM TokensAreChecked == SbiSpec => []ServedAreIssued
<1>1. SbiIInv => ServedAreIssued
  <2> SUFFICES ASSUME SbiIInv, NEW nf \in NFs, NEW t \in Tokens \cup {Missing, Blank},
                      NEW scope \in Services(nf), cfg.oauth = "on",
                      TokenVerdict(nf, scope, t) = "served"
               PROVE  t \in Tokens /\ t.signer \in ever \ Broken /\ t.when = "now"
                      /\ scope \in t.scopes
    BY DEF ServedAreIssued
  <2>1. t \notin {Missing, Blank} /\ Valid(jwks[nf], t, scope)
    BY DEF TokenVerdict
  <2>2. PICK key \in Selected(jwks[nf], t.kid) : Signed(t, key)
    BY <2>1 DEF Valid
  <2>3. Selected(jwks[nf], t.kid) \subseteq jwks[nf]
    BY DEF Selected, SelectedByKid
  <2>4. jwks[nf] \subseteq ever \ Broken
    BY DEF SbiIInv, NrfOK, KeysInv
  <2>5. QED
    BY <2>1, <2>2, <2>3, <2>4 DEF Signed, Valid, HasScope
<1>2. QED
  BY <1>1, SbiInvariance, PTL
================================================================================
