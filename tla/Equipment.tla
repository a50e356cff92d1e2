--------------------------------- MODULE Equipment -------------------------------
(***************************************************************************)
(* The equipment identity register: the EIR rules, the table of device     *)
(* types (TAC) and its cache, and the history of the equipment seen with   *)
(* each subscriber (internal/diameter/s13/ecr.go, udm/uecm.go,             *)
(* internal/api/eir.go and tac.go, internal/taccache).                     *)
(*                                                                         *)
(* MMEs check an equipment with an ECR; the UDM checks the one an AMF      *)
(* names when it registers.  Both read all rules and take the first that   *)
(* matches, look the device up in the cache, and record the check.  The    *)
(* REST interface changes rules and device types: the table first, then    *)
(* the cache, without a lock over the two.  A roll-back from the           *)
(* operation log (internal/api/operation_log.go) changes the table only.   *)
(*                                                                         *)
(* Abstracted: an IMEI or IMSI is a value; a pattern is the set of IMEIs   *)
(* it matches; an IMEI's prefixes are given by functions.  The database    *)
(* returns rules in an order of its own.  History rows are never deleted.  *)
(* A log entry is what it puts back, and goes with the row it is about:    *)
(* rows have ids, and an entry of a row that was deleted finds none.       *)
(***************************************************************************)
EXTENDS Naturals, Sequences, FiniteSets, SequencesExt

CONSTANTS
    Handlers,      \* request goroutines of all interfaces
    Imeis, Imsis,
    Patterns,      \* regular expressions, besides the IMEIs themselves
    MatchedBy,     \* per IMEI or pattern the IMEIs it matches as an expression
    Tacs, Tac8, Tac6, \* prefixes of IMEIs; an IMEI's prefixes of 8 and 6 digits
    Devices,       \* make and model
    None,          \* no rule field, no row, no entry
    Unknown,       \* the device recorded when the cache has none
    NoMatch,       \* eirNoMatchResp
    MaxWork,       \* bound: requests, changes of rules, failures and restarts
    MaxRules       \* bound: rules at a time

Codes == 0 .. 2    \* whitelisted, blacklisted, greylisted

Checks == 1 .. MaxWork
\* What is on record of a pair: the check, its code and the device.
Row    == [n : Checks, code : Codes, device : Devices \cup {None, Unknown}]

ASSUME CodesAssumption == NoMatch \in Codes /\ MaxWork \in Nat
ASSUME PrefixAssumption ==
    /\ Tac8 \in [Imeis -> Tacs \cup {None}] /\ Tac6 \in [Imeis -> Tacs \cup {None}]
    /\ MatchedBy \in [Imeis \cup Patterns -> SUBSET Imeis]
ASSUME NoneAssumption == None \notin Imeis \cup Patterns \cup Imsis \cup Row

VARIABLES
    eir,       \* the rules, in the order the database returns them
    tac,       \* the table of device types
    cache,     \* the TAC cache
    tacOn,     \* there is a cache: it is enabled and was loaded at the start
    logged,    \* per device type what the operation log can put back
    history,   \* per IMSI and IMEI the check recorded last
    pc, job,   \* per handler where it stands and what it works on
    done,      \* history: per IMSI and IMEI the checks that got to their record
    before,    \* history: per check those of its pair done before it began
    answer,    \* history: per check the code it found
    crossed,   \* history: device types whose writes overlapped or reload failed
    reverted,  \* history: device types rolled back and not written since
    work

tacVars  == <<tac, cache, tacOn, logged, crossed, reverted>>
recVars  == <<history, done, before, answer>>
vars     == <<eir, tacVars, recVars, pc, job, work>>

Rule     == [imei : Imeis \cup Patterns \cup {None}, imsi : Imsis \cup {None},
             regex : BOOLEAN, code : Codes]
Entry    == Devices \cup {None}
Table    == [Tacs -> Entry]
Pairs    == Imsis \X Imeis
Jobs     == [op : {"post", "put"}, tac : Tacs, device : Devices]
       \cup [op : {"delete"}, tac : Tacs]
       \cup [op : {"import"}, rows : Table]
       \cup [op : {"ecr", "pei"}, imsi : Imsis, imei : Imeis]
Pair(j)  == <<j.imsi, j.imei>>
Idle     == [op |-> "none"]

Init ==
    /\ eir = <<>> /\ tac = [t \in Tacs |-> None] /\ cache = tac
    /\ tacOn \in BOOLEAN
    /\ history = [p \in Pairs |-> None]
    /\ pc = [h \in Handlers |-> "idle"] /\ job = [h \in Handlers |-> Idle]
    /\ done = [p \in Pairs |-> {}] /\ before = [n \in Checks |-> {}]
    /\ answer = [n \in Checks |-> NoMatch]
    /\ crossed = {} /\ reverted = {} /\ logged = [t \in Tacs |-> {}]
    /\ work = 0

Work == work < MaxWork /\ work' = work + 1

-----------------------------------------------------------------------------
(* The check.                                                              *)

\* Mutant of Matches: a rule without fields matches everything.
MatchesEmpty(r, imei, imsi) ==
    IF r.regex THEN r.imei # None /\ imei \in MatchedBy[r.imei]
    ELSE r.imei \in {None, imei} /\ r.imsi \in {None, imsi}
Matches(r, imei, imsi) ==
    IF r.regex THEN r.imei # None /\ imei \in MatchedBy[r.imei]
    ELSE /\ r.imei \in {None, imei} /\ r.imsi \in {None, imsi}
         /\ r.imei # None \/ r.imsi # None

\* The first rule that matches, in the order of the database.
Verdict(imei, imsi) ==
    LET hits == {k \in DOMAIN eir : Matches(eir[k], imei, imsi)}
    IN IF hits = {} THEN NoMatch ELSE eir[Min(hits)].code

\* The device of an IMEI in a table: its prefix of 8 digits, or else of 6.
Lookup(table, imei) ==
    IF Tac8[imei] # None /\ table[Tac8[imei]] # None THEN table[Tac8[imei]]
    ELSE IF Tac6[imei] # None THEN table[Tac6[imei]] ELSE None

\* The REST lookup: the same prefixes, in the table.
lookupTACByIMEI(imei) ==
    LET found == {t \in {Tac8[imei], Tac6[imei]} \ {None} : tac[t] # None}
    IN IF found = {} THEN None
       ELSE tac[IF Tac8[imei] \in found THEN Tac8[imei] ELSE Tac6[imei]]

\* The cache as a history record shows it.
Device(j) ==
    IF ~tacOn THEN IF j.op = "ecr" THEN Unknown ELSE None
    ELSE IF Lookup(cache, j.imei) = None THEN Unknown ELSE Lookup(cache, j.imei)

-----------------------------------------------------------------------------
(* Requests.                                                               *)

IsCheck(j)    == j.op \in {"ecr", "pei"}
IsTacWrite(j) == j.op \in {"post", "put", "delete", "import"}
Touched(j)    == IF j.op = "import" THEN Tacs ELSE IF IsTacWrite(j) THEN {j.tac} ELSE {}

Goto(h, step, j) == pc' = [pc EXCEPT ![h] = step] /\ job' = [job EXCEPT ![h] = j]
Finish(h)        == Goto(h, "idle", Idle)

Receive(h) ==
    /\ pc[h] = "idle" /\ Work
    /\ \E j \in Jobs :
          IF IsCheck(j)
          THEN /\ Goto(h, "check", [op |-> j.op, imsi |-> j.imsi, imei |-> j.imei,
                                    n |-> work', code |-> NoMatch, device |-> None])
               /\ before' = [before EXCEPT ![work'] = done[Pair(j)]]
               /\ UNCHANGED crossed
          ELSE /\ Goto(h, IF j.op = "put" THEN "read" ELSE "db", j)
               /\ crossed' = crossed \cup UNION {Touched(j) \cap Touched(job[g]) : g \in Handlers}
               /\ UNCHANGED before
    /\ UNCHANGED <<eir, tac, cache, tacOn, logged, reverted, history, done, answer>>

-----------------------------------------------------------------------------
(* Device types: the table, then the cache.                                *)

TacStep == UNCHANGED <<eir, recVars, tacOn>>

\* PUT: the row must be there; saved afterwards, whether it still is or not.
ReadTac(h) ==
    /\ pc[h] = "read"
    /\ IF tac[job[h].tac] = None THEN Finish(h) ELSE Goto(h, "db", job[h])
    /\ UNCHANGED <<tac, cache, logged, crossed, reverted, work>> /\ TacStep

\* The operation log keeps the row as it was before a POST or a PUT; a deletion,
\* which names the row by its code, is logged without it.
WriteTac(h) ==
    LET j == job[h] IN
    /\ pc[h] = "db" /\ j.op \in {"post", "put", "delete"}
    /\ IF j.op = "post" /\ tac[j.tac] # None
       THEN Finish(h) /\ UNCHANGED <<tac, logged, reverted>>
       ELSE /\ tac' = [tac EXCEPT ![j.tac] = IF j.op = "delete" THEN None ELSE j.device]
            /\ logged' = [logged EXCEPT ![j.tac] = IF j.op = "delete" THEN {}
                                                   ELSE @ \cup {tac[j.tac]}]
            /\ reverted' = reverted \ {j.tac}
            /\ Goto(h, "cache", j)
    /\ UNCHANGED <<cache, crossed, work>> /\ TacStep

\* Mutant of CacheTac: a deletion leaves the cache alone.
CacheTacPutsOnly(h) ==
    LET j == job[h] IN
    /\ pc[h] = "cache"
    /\ cache' = IF ~tacOn \/ j.op = "delete" THEN cache
                ELSE [cache EXCEPT ![j.tac] = j.device]
    /\ Finish(h)
    /\ UNCHANGED <<tac, logged, crossed, reverted, work>> /\ TacStep
CacheTac(h) ==
    LET j == job[h] IN
    /\ pc[h] = "cache"
    /\ cache' = IF ~tacOn THEN cache
                ELSE [cache EXCEPT ![j.tac] = IF j.op = "delete" THEN None ELSE j.device]
    /\ Finish(h)
    /\ UNCHANGED <<tac, logged, crossed, reverted, work>> /\ TacStep

\* A batch is written, unlogged, or fails; the import goes on either way.
ImportTac(h) ==
    LET rows == job[h].rows IN
    /\ pc[h] = "db" /\ job[h].op = "import"
    /\ \/ /\ tac' = [t \in Tacs |-> IF rows[t] = None THEN tac[t] ELSE rows[t]]
          /\ UNCHANGED work
       \/ Work /\ UNCHANGED tac
    /\ Goto(h, "reload", job[h])
    /\ UNCHANGED <<cache, logged, crossed, reverted>> /\ TacStep

ReloadTac(h) ==
    /\ pc[h] = "reload"
    /\ \/ /\ tacOn /\ Goto(h, "load", [job[h] EXCEPT !.rows = tac])
          /\ reverted' = {} /\ UNCHANGED <<crossed, work>>
       \/ ~tacOn /\ Finish(h) /\ UNCHANGED <<crossed, reverted, work>>
       \/ tacOn /\ Work /\ Finish(h) /\ crossed' = Tacs /\ UNCHANGED reverted
    /\ UNCHANGED <<tac, cache, logged>> /\ TacStep

LoadTac(h) ==
    /\ pc[h] = "load" /\ cache' = job[h].rows /\ Finish(h)
    /\ UNCHANGED <<tac, logged, crossed, reverted, work>> /\ TacStep

\* A roll-back deletes the row an entry created, or gives it the fields it had, by a
\* statement of its own: the cache does not hear of it.
RollbackTac ==
    /\ Work
    /\ \E t \in Tacs : \E d \in logged[t] :
          /\ tac' = [tac EXCEPT ![t] = d]
          /\ logged' = [logged EXCEPT ![t] = IF d = None THEN {} ELSE @]
          /\ reverted' = reverted \cup {t}
    /\ UNCHANGED <<eir, cache, tacOn, crossed, recVars, pc, job>>

-----------------------------------------------------------------------------
(* Rules: one statement each.  GORM stores the default, 1, for a zero      *)
(* regex_mode when it creates a row, and what it is given when it saves    *)
(* one; a new row may take the place of one that is gone.                  *)

EirStep == Work /\ UNCHANGED <<tacVars, recVars, pc, job>>

CreateEir ==
    /\ Len(eir) < MaxRules
    /\ \E r \in Rule, i \in 1 .. Len(eir) + 1 :
          eir' = InsertAt(eir, i, [r EXCEPT !.regex = TRUE])
    /\ EirStep
UpdateEir ==
    /\ \E k \in 1 .. Len(eir), r \in Rule : \E i \in {k, Len(eir)} :
          eir' = InsertAt(RemoveAt(eir, k), i, r)
    /\ EirStep
DeleteEir ==
    /\ \E k \in 1 .. Len(eir) : eir' = RemoveAt(eir, k)
    /\ EirStep

-----------------------------------------------------------------------------
(* A check: the rules, the cache, the record (select, then update or       *)
(* insert).  An ECR fails with the rules; the UDM takes the default.       *)

CheckStep == UNCHANGED <<eir, tacVars, before>>

CheckEir(h) ==
    LET j == job[h] IN
    /\ pc[h] = "check"
    /\ \/ LET code == Verdict(j.imei, j.imsi)
          IN /\ Goto(h, "find", [j EXCEPT !.code = code])
             /\ answer' = [answer EXCEPT ![j.n] = code] /\ UNCHANGED work
       \/ /\ Work /\ UNCHANGED answer
          /\ IF j.op = "ecr" THEN Finish(h) ELSE Goto(h, "find", j)
    /\ UNCHANGED <<history, done>> /\ CheckStep

FindRecord(h) ==
    LET j == job[h] IN
    /\ pc[h] = "find"
    /\ \/ /\ Goto(h, IF history[Pair(j)] = None THEN "insert" ELSE "update",
                  [j EXCEPT !.device = Device(j)])
          /\ UNCHANGED work
       \/ Work /\ Finish(h)
    /\ UNCHANGED <<history, done, answer>> /\ CheckStep

\* Mutant of Recorded: a pair is recorded once and never updated.
RecordedOnce(row, step, j) ==
    IF row # None THEN row ELSE [n |-> j.n, code |-> j.code, device |-> j.device]
\* What FirstOrCreate leaves of a row: an insert finds the unique index taken
\* when another check was faster, and is refused; an update sets the fields of
\* the assigned struct that are not zero.
Recorded(row, step, j) ==
    IF row = None THEN [n |-> j.n, code |-> j.code, device |-> j.device]
    ELSE IF step = "insert" THEN row
    ELSE [n      |-> j.n,
          code   |-> IF j.code = 0 THEN row.code ELSE j.code,
          device |-> IF j.device = None THEN row.device ELSE j.device]

WriteRecord(h) ==
    LET j == job[h] IN
    /\ pc[h] \in {"insert", "update"}
    /\ \/ /\ history' = [history EXCEPT ![Pair(j)] = Recorded(@, pc[h], j)]
          /\ done' = [done EXCEPT ![Pair(j)] = @ \cup {j.n}] /\ UNCHANGED work
       \/ Work /\ UNCHANGED <<history, done>>
    /\ Finish(h) /\ UNCHANGED answer /\ CheckStep

-----------------------------------------------------------------------------
\* The cache is loaded at the start; without it when that fails.
Restart ==
    /\ Work
    /\ pc' = [h \in Handlers |-> "idle"] /\ job' = [h \in Handlers |-> Idle]
    /\ cache' = tac /\ crossed' = {} /\ reverted' = {}
    /\ tacOn' \in BOOLEAN
    /\ UNCHANGED <<eir, tac, logged, recVars>>

Next ==
    \/ \E h \in Handlers :
          \/ Receive(h)
          \/ ReadTac(h) \/ WriteTac(h) \/ CacheTac(h)
          \/ ImportTac(h) \/ ReloadTac(h) \/ LoadTac(h)
          \/ CheckEir(h) \/ FindRecord(h) \/ WriteRecord(h)
    \/ RollbackTac
    \/ CreateEir \/ UpdateEir \/ DeleteEir
    \/ Restart

Spec == Init /\ [][Next]_vars

-----------------------------------------------------------------------------
(* Properties.                                                             *)

\* Device types whose writes did not overlap are the same in the cache and in
\* the table once the writes are finished, so that a check, which reads the
\* cache, and the REST lookup, which reads the table, name the same device
\* for an equipment (taccache/cache.go:41-83, api/tac.go:131-208).  A roll-back
\* parts the two, until the device type is written or imported again.
Settled == {t \in Tacs \ crossed : \A h \in Handlers : t \notin Touched(job[h])}
Quiet   == Settled \ reverted
CacheFollowsTable ==
    tacOn => /\ \A t \in Quiet : cache[t] = tac[t]
             /\ \A i \in Imeis : {Tac8[i], Tac6[i]} \subseteq Quiet \cup {None}
                                 => Lookup(cache, i) = lookupTACByIMEI(i)

\* What a rule says by itself: a pattern is about the IMEI, an exact rule about
\* all it names, and a rule that names nothing is about nothing.
AppliesTo(r, imei, imsi) ==
    \/ r.regex /\ r.imei # None /\ imei \in MatchedBy[r.imei]
    \/ ~r.regex /\ r.imei = imei /\ r.imsi = imsi
    \/ ~r.regex /\ r.imei = imei /\ r.imsi = None
    \/ ~r.regex /\ r.imei = None /\ r.imsi = imsi

\* When the rules that apply agree, the order the database returns them in does
\* not matter: the answer is theirs, and the default without any.
RulesDecide ==
    \A imei \in Imeis, imsi \in Imsis :
        LET codes == {r.code : r \in {x \in ToSet(eir) : AppliesTo(x, imei, imsi)}}
        IN /\ codes = {} => Verdict(imei, imsi) = NoMatch
           /\ Cardinality(codes) = 1 => Verdict(imei, imsi) \in codes

\* The record of a pair is never older than a check of the pair that began when
\* the recorded one was over, on whichever interface: concurrent checks may lose
\* their record to one another, later ones not to earlier ones.
HistoryMovesOn ==
    \A p \in Pairs : history[p] # None => \A m \in done[p] : history[p].n \notin before[m]

\* The documented record: the row of a pair holds the response code of the check
\* it was last updated by ("recorded once and updated (timestamp, response
\* code) on subsequent checks").
HistoryHasLastCode ==
    \A p \in Pairs : history[p] # None => history[p].code = answer[history[p].n]
==================================================================================
