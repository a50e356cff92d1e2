# Formal model of VectorCore HSS

TLA+ modules, TLC configurations and TLAPS proofs for the HSS in this repository
(`src/`, Go). The modules model what is hard to test in this program: many
handlers that read a subscriber through a cache, decide, and write a shared
database row in several statements; alerts that are matched with late answers;
events that travel to other nodes through bounded queues; a lock held while another
network function is asked; a registration that has to survive the failures of its registry. Line numbers below are
those of the sources at the modelled commit; `PROJECT.json` maps every definition
to the lines it stands for.

## 1. Inventory of the system

One process (`cmd/hss/main.go`) runs a Diameter server, a GSUP server, the 5G
services UDM and PCF, the OAM API and, if configured, GeoRed. All of them share one
SQL database behind `internal/repository` (GORM on PostgreSQL), which keeps two
read caches in memory. There is no lock between handlers: every Diameter request,
HTTP request and GSUP message runs in a goroutine of its own.

| Component | State | Operations | Interacts with | Hard behaviour | What makes it correct | Module |
|---|---|---|---|---|---|---|
| **Authentication vectors** (S6a AIR, Cx/SWx/Zh MAR, GSUP SendAuthInfo, Nudm_UEAuthentication) | `auc.sqn`; AUC cache (60 s) | load AUC, resynchronise after AUTS, lock-increment-commit, generate, publish | repository, GeoRed, crypto | concurrent increments, stale cache, failure between commit and answer, lost resyncs | no SQN is used twice; vectors of an answer ascend; what is published is not ahead of the row | `AuthVectors` |
| **Mobility** (ULR, PUR, CLR, GSUP UpdateLocation/PurgeMS, AMF registration, subscriber PUT, SRI-SM) | serving-node columns of the subscriber; subscriber cache | load, check, pick the old MME, invalidate, update, publish, send CLR | repository, connection tracker, GeoRed, S6c | decisions on stale copies, invalidate-before-write, whole-row saves, goroutines that outlive the request | old MME is cancelled; MT-SMS routing follows the MME; cache agrees with row; a disabled subscriber stays out | `Mobility` |
| **S6c SMS** (SRI-SM, RDR, ALR/ALA) | `message_waiting_data`; `pendingALR` map | report, alert, answer | Mobility (ULR triggers), S6a NOR | two-statement upsert without unique index, late and lost answers, limit checked before insert | a reported failure is on record until its SMS-SC is cleared; one record per SMS-SC; bounded list | `SmsWaiting` |
| **GeoRed** | per peer: channel, batch, post under way; pulled snapshots | publish, gather, push, apply, resync | every writer of dynamic state | overflow, failing and late posts, overlapping publishers, restarts, snapshots | last write wins at the peers; no event twice; nothing stuck | `GeoRed` |
| **Gx / Rx** | `serving_apn` and `emergency_subscriber` rows; `sessions` map of Rx; bearer rules at the PGW | CCR-I/U/T; AAR, STR, RAR | subscriber data, GeoRed | sessions that replace one another, late CCR-U/T, second AAR, failed RAR, name collisions | a row for every session that is up; no rule left after STR; a call keeps its own rules | `Sessions` |
| **PDU sessions** (Nudm_UECM) | `serving_pdu_session` | PUT, DELETE, list | SMF | two-statement upsert, DELETE by the wrong SMF, session 0 | the listed SMF is the one that serves | `Sessions` |
| **Cx / Sh registration** | S-CSCF of the IMS subscriber, round-robin counter | UAR, SAR, LIR, Sh UDR, provisioning | GeoRed | registrations that overlap, deregistration of another's, lost answers | one S-CSCF serves, LIR/UAR/Sh name it, peers hear | `ImsRegistration` |
| **S13 / N5g-EIR, TAC cache** | `eir`, `tac`, `imsi_imei_history`; TAC cache | ECR, equipment status, CRUD, import | OAM | table and cache written apart, reload past writes, upsert of the history | cache follows table; rules that agree decide; records move on | `Equipment` |
| **PCF** | SM policy associations, one RW lock | create, get, update, delete, notify | SMF | lock held over a notification, update against delete | SMF and PCF agree; one deletion terminates; everybody served | `SmPolicy` |
| **SBI / NRF** | registration loop, JWKS, peer trackers | register, heartbeat, re-register, fetch keys, verify, connection hooks | NRF, UDM, PCF | NRF restarts, forgets, rotates keys; late hooks | registered while the NRF is up; only tokens of the NRF pass; the list of peers is true | `Sbi`, `Peers` |
| **OAM API** | twelve provisioning tables, operation log, backups | CRUD with interlocks, rollback, export, restore | repository, GeoRed | check and delete in separate statements, rollback of older states, torn backups | no dangling reference; rollback restores; peers are told | `Oam` |
| **Repository** | all tables, `aucCache`, `subCache` | CRUD, `AtomicGetAndIncrementSQN`, `ResyncSQN`, `UpdateServing*`, upserts | everything | cache coherence, non-atomic upserts | see the components using it | in each of them |
| **UDM** | AMF and SMF registrations, PEI history | UECM, SDM, UDR, UEAU | repository, EIR | unconditional deletes | see Mobility, PDU sessions, S13 | `Mobility`, `Sessions`, `Equipment`, `AuthVectors`, `Sbi` |
| **Diameter and GSUP servers** | connection tracker, peer tracker | accept, dispatch, forward | all handlers | one goroutine per request; requests of a peer on two connections; ends of connections heard of late | the lists are those of the open connections; a peer is reached over the connection of its last request | `Peers`; the interleaving of the modules |
| **SLh, crypto, config, models, metrics, UI, test client** | none of their own, or read-only | | | | | section 6 |

Interactions that matter: every handler and the caches (shared memory), every handler
and the row it updates (shared table), ULR/NOR -> S6c alerts and API PUT -> CLR
(goroutines), handlers -> GeoRed -> the peer's repository (messages), AAR -> the
`serving_apn` row of a Gx session -> its PGW (calls), PCF -> SMF -> PCF (a notification
answered only after a call back), registration -> fetch of keys -> verdict on every
inbound request (a chain of goroutines).

`PROJECT.json` lists the hazards of the code, each at the line where it bites, with the
properties that cover it.

## 2. Modules

| Module | Role |
|---|---|
| `AuthVectors` | every writer of `auc.sqn` as concurrent handlers, the AUC cache, the row lock |
| `SqnDispenser` | abstract specification: ranges of SQNs reserved in one step |
| `AuthVectorsInv`, `AuthVectorsProofs` | inductive invariant and refinement mapping; proofs |
| `Mobility`, `MobilityInv`, `MobilityProofs` | serving nodes of a subscriber; invariant; proofs |
| `SmsWaiting`, `SmsWaitingInv`, `SmsWaitingProofs` | message waiting data and alerts; invariant; proofs |
| `GeoRed`, `GeoRedInv`, `GeoRedProofs` | queues, batches, posts, snapshots between nodes; invariant; proofs |
| `Sessions`, `SessionsInv`, `SessionsProofs` | Gx sessions composed with Rx calls over the `serving_apn` rows; PDU sessions; invariant; proofs |
| `SmPolicy`, `SmPolicyInv`, `SmPolicyProofs` | SM policy associations of the PCF and their lock; invariant; proofs |
| `ImsRegistration`, `ImsRegistrationInv`, `ImsRegistrationProofs` | the S-CSCF of an IMS user; invariant; proofs |
| `Oam`, `OamInv` | provisioning, interlocks, operation log, backup, publication; invariant |
| `Peers` | inbound connections of Diameter, GSUP and HTTP, the lists of peers, the tracker of Diameter peers |
| `Sbi` | NRF registration, keys and tokens; extends `Peers` |
| `SbiInv` | invariant of `Peers` and of `Sbi` with it |
| `Equipment`, `EquipmentInv` | EIR rules, device types and their cache, equipment history; invariant |
| `EquipmentOamSbiProofs` | proofs about `Equipment`, `Oam` and `Peers` with `Sbi`, in that order |
| `MC*` | the instances TLC checks |

The `*Inv` modules exist so that TLC and the proofs use the same text of the invariant.
Three components have their proofs in one module, whose parts share no name: that is why
the specifications are `Spec`, `OamSpec` and `SbiSpec`, and why `Oam` and `Sbi` name
the step of a goroutine `at` and `stage` where the others say `pc`.
Operators whose comment starts with "Mutant", and those that stand directly before the
definition they resemble and are used by no specification (`AfterNotFoundIsAnError`,
`RecordedOnce`, ...), are plausible bugs: each is a changed form of its neighbour, and with
it in place the run named in `PROJECT.json` finds the property violated.

### 2.1 Common shape

A handler is a member of `Handlers` with a program counter `pc[h]`, the request it serves
`req[h]` and the values it has loaded (`Workers`, `at[h]` in `Oam`). A step is one database statement, one cache access, one
critical section of a lock, or one hand-over to another goroutine or peer; what lies between is
local and part of the step. A statement may fail, and the handler then goes where its error path
goes. `Restart` drops memory (caches, handlers, maps) and keeps committed rows.

**History variables.** Most claims about read-decide-write handlers can only hold while no
other handler writes between the read and the write. Each module records when this has
happened and what it has happened to: `overlap` (`Mobility`, `SmsWaiting`), `lowered`
(`AuthVectors`, some write moved `auc.sqn` back), `contested` (`GeoRed`), `raced`, `displaced`,
`failed`, `troubled`, `muddled` (`Sessions`), `crossed` (`SmPolicy`, `ImsRegistration`, `Equipment`),
`edited`, `faulted` (`ImsRegistration`), `reverted` (`Equipment`), `excused`, `disturbed`, `unlogged`, `strayed`,
`torn` (`Oam`), `reused`, `ghosts`, `crossing` (`Peers`). A property guarded by one
says: the user, row or session to which that has not happened is right, however requests are
ordered, whatever else fails, and whatever the others do. They are set by the steps, never
assumed, and per object wherever the code keeps objects apart. A property without a guard holds
for every interleaving.

A guarded property does not catch the race its guard excludes: the code has that race. Each hazard of `PROJECT.json` whose race is excluded says so in its
note, and section 4 lists what was met.

### 2.2 AuthVectors

State: `sqn` (the committed column), `rowLock` (SELECT FOR UPDATE), `cache`. Kinds of
handler: `air` (`diameter/s6a/air.go`), `aka` (one vector: the MARs and `udm/auth.go`),
`gsup` (`gsup/handlers.go`, a loop of increments), `geored` (`geored/handlers.go:95-101`,
`manager.go:183-191`: compare, then write), `api` (`api/auc.go`: read, save every column).
`LoadCached/LoadRow/FillCache` is `GetAUCByIMSI`; `LockRow, CommitIncrement, PurgeCache` is
`AtomicGetAndIncrementSQN` (`store.go:113-137`); `ResyncPurge, ResyncWrite` is `ResyncSQN`
(`store.go:143-146`), which empties the cache *before* it writes.

`PostImage`. `AtomicGetAndIncrementSQN` selects the row into `before`, runs
`tx.Model(&before).Update("sqn", before.SQN+delta)` and returns `&before`. GORM assigns an
updated column to the model it is given, so the struct returned holds the SQN *after* the
increment, while the callers use it as the SQN before it. The constant `PostImage` chooses
between the two: TRUE is what the program does, FALSE is what its callers mean. With one
vector per request the difference is harmless (each vector just carries the upper end of
its range), with several it is not: finding 1.

`SqnDispenser` is the promise without locks, caches or transactions. `Dispenser` in
`AuthVectorsInv` maps the row to its counter and a handler between commit and generation to the
holder of a range.

### 2.3 Mobility

State: one row, `serving[column]` for `mme, sms, sgsn, vlr, msc, amf` and `enabled`; the cache;
`outbox`, the CLR goroutines that have not run (`ulr.go:76`). ULR and PUR update the
columns of the MME and of MT SMS in one statement (`store.go:193-228`), GSUP updates VLR
and MSC in two whose errors are only logged, an AMF registration its own column. A PUT
reads the row, overwrites the serving nodes of its body with those read, saves the whole row
and invalidates the cache (`api/subscriber.go:107-176`). The body is assumed to carry no
serving node of its own, as the repository's web client sends it
(`web/src/pages/Subscribers.jsx:301-315`); a client that sends
`mme_number_for_mt_sms` itself would break `SmsFollowsMme`. Two writers of the row are left out because
they leave the caches alone and are no request about serving nodes: the roll-back of an operation
(`api/operation_log.go:87-110`, raw SQL past both caches), and a PUT that changes the IMSI, which invalidates
the entry of the new IMSI only (`api/subscriber.go:136`). After either, a cached subscriber or AUC is stale for up
to 60 s, and `CacheCoherent` does not speak of it. `SRISR` is what SRI-SM makes of
the subscriber it reads, from the cache or from the row (`diameter/s6c/srisr.go`).

### 2.4 SmsWaiting

State: `table` without a unique index, `sent` (ALRs in flight), `pending` (the map
`pendingALR`). `Find` and `Store` are the two statements of `FirstOrCreate` in `StoreMWD`
(`store.go:655-677`). An alert writes the ALR, stores the row again and only then enters
the alert in `pendingALR` (`alsc.go:112-134`): the answer may come before. Session ids are
nanosecond timestamps and taken to be unique, and an SMS-SC answers an alert at most once.

### 2.5 GeoRed

A write is known by its number, which stands for its payload and timestamp. `Commit` is any
handler's write with its `Publish`; `Send, Full, Drain, Retry` are `enqueue`
(`client.go:78-99`), non-blocking and not atomic; `Take, Tick, PushDone, PushFails` are the
worker loop (`client.go:103-174`); `Apply, ApplyFails, Abort` are the events handler
of the peer, which may go on with a post its sender has given up; `Fetch, ApplySnapshot` are the
resync, also run at startup (`main.go:250`). `Removals` are the writes that purge a
location or delete a session: they are replicated as events and left out of snapshots
(`snapshot.go:62,79,86,93`). The other modules take an event as heard when it is published.

### 2.6 Sessions

Two components that meet in one table. `rows` is `serving_apn` in the order of its primary
key, at most one row per subscriber and APN (the unique index), where an APN missing from the
database counts as id 0. A row that is deleted leaves a gap (`Gone`), so that the position of a
row is its primary key for good; the PDU table does the same with `Gap`. A CCR is `ReceiveCCR` (with the address lookup), `Lookup`,
`Upsert`, `Announce` or, for CCR-T, `Delete`, `Retract`, `Clear` (`gx/ccr.go`); an unprovisioned IMSI
goes through `WriteEmergency`. A failed lookup of the subscriber is treated like an unknown
IMSI, as in the code. A failed lookup of the APN is only logged (`gx/ccr.go:116`): the session is filed under
id 0, where it may take the row of a session on an APN that is not configured; a failed lookup of the row
before (`gx/ccr.go:41`) leaves the address out, and a CCR-U erases the one recorded. `Home(s)` is the key a session
belongs under, `Filed` the row a request writes, `displaced` the sessions whose row another has taken, and `TakenBy`
says who may have: a session of the subscriber with the same key, or one whose lookups failed. The instance
has a session on an APN that is not configured. An AAR picks the first row of the subscriber, of whatever APN
(`ReceiveAAR`), installs its rules by one RAR whose answer is not looked at (`Install`) and then
overwrites what is remembered of the call (`StoreCall`). `installed` is the PGWs' side,
external to the code, modelled as PGWs that carry out what they are told.
PDU sessions are three actions per request type on `serving_pdu_session`: `FindPdu`, `WritePdu` are
the `FirstOrCreate` of the PUT and `ErasePdu` the DELETE. `Matching` carries a trait of GORM:
the condition is a struct, of which zero fields are left out, so that session 0 matches any
session of the subscriber. Each SMF's own account (`smfOf`) is what the list is compared with.

### 2.7 SmPolicy

`associations` is the map of `pcf/smpolicy.go`, an association being the set of requests whose
changes its context carries. The write lock is `holder`; only a deletion holds it across a step,
because the others take and release it within one. `posts` are the notifications an SMF has
received: it may answer in time, after the 10 s of the HTTP client, never, or only once the PCF has
answered a request of its own (`CallBack`), which is how a waiting cycle could close.

### 2.8 ImsRegistration

`row[u]` is the `scscf` column. The I-CSCF's question and the S-CSCF's claim are separate requests
(`Authorize`, then `ReceiveSAR .. Answer`), tied only by the row; `routed` and `serves` are the
network's side. `Recommended` is the choice of the UAA with the pool and its round-robin counter.

### 2.9 Oam

`API` is the schema as the handlers know it: which columns refer where, which columns the DELETE looks into,
whether writes are published, whether DELETE loads first. The content of a row is what the properties tell
apart: its data in the columns the peers' statements carry, where "zero" stands for columns left zero that have
a default (`Defaulted`); the `rest`, which those statements leave alone (`Uncarried`: a subscriber's NSSAI, an AUC's
PINs, an APN's NIDD columns); whether it has its own natural key (an IMSI, an MSISDN, a TFT group) or a new one, which
a PUT may give it (`Keyed`); whether its CSV list is written with spaces; and its references. The columns
`imsi` and `tft_group_id` refer to a key (`NaturalColumns`): a reference holds while the row exists under that key
(`Holds`). Each TFT has a group of its own, where the code lets TFTs share one, and the last to go leaves it empty.
`charging_rule_list` holds ids, as `gx/ccr.go:250` reads it and the interlock looks for them, where
`docs/api.md:928` speaks of names.

A write is `Capture` (the state before, `api/audit.go`), then the statement that writes and commits (`Create`, `Save`,
`Delete`), then `WriteLog`, whose statements
come after the commit and whose errors nobody sees, then `PublishOAM`. A `Save` that finds no row inserts it
(`SaveFindsNone`). `Create` and a restore store defaults for columns left zero, as GORM does; a PUT saves what it is
given. `InUse` finds an id in a list only if it is written without spaces. `told` is the peers' tables: `applyOAMRecord`
and the `Upsert*`/`Delete*` operators say what the store of a peer makes of an event, column list by column list; an
event under a key the peer does not know (`Unmatched`) fails on the id, or deletes nothing.
`Export`/`BuildBackup` read one table per step.

`NoDangling` excuses rows written when a reference did not hold or its target was being deleted, and rows whose
target was rolled away or given another key, by a roll-back or a PUT (`excused`); it does not speak of lists with
spaces. `PeersTold` excuses rows that requests overlapped on, that were rolled back or restored (`disturbed`), and
rows a PUT gave another key (`strayed`). `RollbackRestores` excuses rows that are `disturbed`, and those whose last
write is not in the log (`unlogged`).

### 2.10 Sbi

A configuration is chosen at the start (`Settings`): shared or separate listeners, TLS, NRF,
OAuth. An exchange with the NRF takes effect there when it is sent and is heard later, so an answer
may be lost after the NRF has acted on it. `TokenVerdict` is the middleware in front of every route;
`Selected` the choice of the key by its id; `Parsed` what a JWKS document yields.

`Sbi` extends `Peers` and composes with it: the same process, the same configuration, a restart ends
both. `Peers` has three kinds of server. HTTP calls `connState` as the Go server does (`Connect`, `Hijack`,
`Active`, `Close`, then `Removed` after the socket is free); in clear text the HTTP/2 server takes the
connection over and never reports its end. GSUP keeps a connection listed from the start of
`handleConn` to its deferred removal. Diameter lists a peer when its handshake is heard of
(`HandshakeNotify`) and takes it off in a goroutine that waits for the end. In all three a new connection
may come from the same address while the removal of the old one has yet to run. `Arrive` and `Wrap` are a
request and the start of the goroutine that handles it, which enters the connection under the
Origin-Host (`Set`); in between requests of the same host may come in elsewhere.

### 2.11 Equipment

`Verdict` takes the first rule that `Matches` in the order the database returns them. Writes of
device types go to the table, then to the cache (`WriteTac`, `CacheTac`); an import reloads the
cache in two steps (`ReloadTac`, `LoadTac`). `RollbackTac` is the roll-back of an entry of the operation log: it
writes the table and leaves the cache (`api/operation_log.go:84-111`), and `reverted` are the device types it has
left apart, until they are written or imported again. `logged` is what the log can lead back to. A check reads the rules, then looks for its
history row, then updates or inserts it; `Recorded` is what `FirstOrCreate` with `Assign` leaves,
zero fields skipped.

## 3. Runs

All runs are exhaustive for their bounds. `CHECK_DEADLOCK FALSE` throughout: behaviours
end when the bounded number of requests has been served, so the system really may stop.

| Run | Bounds | What it shows |
|---|---|---|
| `auth_built` | 2 handlers, all kinds, 1 vector per AIR, 2 tuples, 3 requests, as built | `NoReuseUnlessLowered`, `TuplesAscend`, `PublishedNotAhead`; the inductive invariant `IInv` (with it that every issued vector is below the row); `ImplementsDispenser` |
| `auth_overlap` | 2 handlers, 2 AIRs | violation of `NoSqnReuse` (finding 1) |
| `mobility_all` | 2 handlers, 10 kinds, 2 nodes, 3 requests; 1.4 million states | `SmsFollowsMme` always; `CacheCoherent`, `DisabledStaysOut`, `CancelsOldMmeAlone` without overlap; `IInv` |
| `sms_all` | 2 handlers, 2 SMS-SCs, list of 1, 4 requests | `NoWaitingLost` always; `RecordsAgree`, `ListBounded` without overlap; `IInv` |
| `geored_all` | 2 nodes, 2 handlers, queue 1, batch 2, 3 writes (the second a removal), 1 resync | `LastWriteReaches`, `DeliveredOnce`, `NothingStuck` |
| `sessions_all` | 2 handlers; 4 Gx sessions, two of them rivals for a row, one on an APN that is not configured and one unprovisioned; 2 calls; 3 PDU sessions, 2 SMFs; 4 requests, 1 fault; 2.8 million states | `SessionHasRow`, `PeersAgree`, `AddressKept`, `EmergencyAgrees`, `CallsOwnRules`, `PduSessionsListed` |
| `smpolicy_all` | 3 handlers, 4 requests, 1 failing notification | `SmfAgrees`, `TerminatedOnce`, `EveryoneServed` |
| `ims_all` | 2 handlers, 2 users, 2 S-CSCFs in the pool, 5 requests, 1 fault, 2 OAM writes | `OneServing`, `PeersHear` |
| `oam_all` | one row in each of the 12 tables, 2 handlers, 2 requests on a database that may start with two linked rows, 2 rollbacks or restarts, a log of 2, POSTs into at most one other row; 0.85 million states | `NoDangling`, `PeersTold`, `BackupWhole`, `RollbackRestores` |
| `sbi_all` | UDM and PCF on one listener and on two, 3 JWKS documents, 1 rotation, 2 faults; 2 remote addresses and 3 connections to each kind of server; 2 hosts, 3 requests on 2 Diameter connections; 1 million states | `ServedAreIssued`, `ListedAreOpen`, `PeersReached`, `CalmNrfIsTrusted`, `StaysRegistered` |
| `equipment_all` | 2 handlers, 2 IMEIs, 1 IMSI, 2 TACs (one of 8 digits, one of 6), 2 rules, 3 units of work | `CacheFollowsTable`, `RulesDecide`, `HistoryMovesOn` |
| `equipment_history` | the same | violation of `HistoryHasLastCode` (finding 2) |

Why the bounds are enough. Two handlers make every pair of steps interleave, and the hazards
listed are pairs: a reader and a writer, a publisher and another. A third request lets one
handler finish and come back with what an earlier one left in the row or the cache. In
`smpolicy_all` a third handler is needed: the deletion, the SMF's call back, and a bystander that
waits with it. Two nodes (MMEs, SMS-SCs, S-CSCFs, SMFs) are the least that can be confused. The SQN
constants are the code's own (step 32, margin 100); `Reports` and `PeerSqns` are chosen so that a
resync lands below, on and above the row. A list of one record is full with one, as the code's list
of ten is with ten; a log of two is pruned by the third entry, as that of a hundred by the next. A
queue of one overflows with the second event, and the third, from another handler, takes the room
that was made (`Retry`); a batch of two is posted by size and by age. Four requests let a Gx session
open, be replaced, and terminate late while a call is set up. PDU session 0 is the one GORM's zero
rule is about. The keys of `sbi_all` include two with the same id, one without id and one that does
not parse. The servers of `Peers` share nothing but the restart, so each configuration calls those of one
kind; three connections let an address be reused while another one is open, two with three requests let
a host's requests cross. In `equipment_all` TAC entries, rules and checks share three units of work, which is
enough for an import, a write and a check, or two checks and a change of rule. The proved safety
properties (section 5) do not rest on these bounds at all: `geored_all` has two nodes, and a write goes out on one
link only, while the theorems hold for any mesh.

**Fairness.** Four properties are about what must happen.
- `NothingStuck`: goroutines that can run do run (the publisher, the worker of a link, the handlers
  of its posts), the ticker ticks (`client.go:108`), and a post ends, by an answer or by the 10 s limit
  of the HTTP client (`client.go:71,148`).
- `EveryoneServed`: weak fairness of `Timeout`, which is the 10 s of the SBI client
  (`sbi/client.go:98,107`), and strong fairness of the steps of a handler, since they wait for an
  `RWMutex`, which Go hands on in turn: a waiting writer holds back new readers, and a goroutine that has
  waited 1 ms is given the lock. SMFs are not fair: they may never answer.
- `CalmNrfIsTrusted`, `StaysRegistered`: weak fairness of each network function's own steps: the loop and
  its ticker (`sbi/nrf.go`), the end of each exchange by the same HTTP limit, and the fetch
  of the keys. The NRF is not fair; the properties say what follows *if* it stays up, or down.

Requests, resyncs, failures and restarts are never fair. The other modules state safety only.

## 4. Findings

With a run of their own:

1. `store.go:127` - the increment returns the SQN after it; AIRs for several vectors reach
   into the next range and two vectors carry the same SQN (`README.md:15` promises otherwise).
2. `store.go:268` - the history of an IMSI and IMEI is updated through a struct of which GORM leaves
   out zero fields: code 0 (whitelisted) does not replace an earlier code (`docs/api.md:1570`
   promises it does).

Met while modelling. Each is the reason a property has the exception its comment names, or is
outside the properties; none has a run:

- `air.go:116`, `gsup/handlers.go:115`: the replicated SQN counts from the AUC loaded at the start of
  the request and falls behind what was issued. `manager.go:188`, `geored/handlers.go:99`: it is compared
  and written in two statements; an increment in between is lost (`lowered`), where the comment at
  `manager.go:181` promises the maximum.
- `ulr.go:69`: whether a CLR is due is decided on a copy; overlapping ULRs leave an MME without one
  (`overlap`), where the comment above it promises one for every other MME.
- `api/subscriber.go:119-133`: a PUT clears the SMS registration, and undoes registrations made meanwhile.
- `alsc.go:134`: an acknowledgement that arrives before its alert is entered is dropped, and the record stays
  (`overlap`), where `alsc.go:164` promises its deletion.
- `manager.go:192-212`: a snapshot is applied without comparing timestamps, though the comment above it
  says that the timestamp wins (`contested`).
- `rx/aar.go:209`: a second AAR overwrites what is remembered of the call, and the STR leaves the first one's
  rules at the PGW (`troubled`), where `rx/aar.go:223` promises their removal; `rx/aar.go:117`: calls with the same
  prefix share rule names (`Clash`).
- `gx/ccr.go:116`: a session whose APN lookup fails is filed under APN 0 and may take another's row (`TakenBy`);
  `gx/ccr.go:41`: a lookup that fails lets a CCR-U erase the recorded address (`failed`).
- `udm/uecm.go:246`: the DELETE of a PDU session does not look who asks; `store.go:231`: a PUT for session 0
  falls on any row; the table has no unique index (`muddled`).
- `pcf/smpolicy.go:193`: an update that overlaps the deletion of its association brings it back (`crossed`).
- `store.go:588`, `:605`, `:618`: the peers' upserts assign part of the columns of a row they have (`Uncarried`, `NotCarried`),
  and their inserts turn zeros into defaults (`models.go:306`, `Defaulted`), so that a peer may keep or get other values
  than the node, where `docs/api.md:1835,1839` list the events as the tables' creates and updates.
- `interlocks.go:19`: an id in a list with spaces is not found, though readers trim them: an APN in use is deleted
  (`Legible`), where `docs/usermanual.md:269` says that it is not.
- `subscriber.go:133`, `charging.go:149`: a PUT changes an IMSI or a TFT group that other rows name, without an interlock
  (`excused`), and peers go on with the old key (`strayed`).
- `audit.go:187`: the log entry is written after the commit and its errors are ignored (`unlogged`).
- `operation_log.go:84`: a roll-back of a device type leaves the TAC cache as it is (`reverted`), where `docs/api.md:1606`
  says that every write of the API updates it.
- `docs/api.md:928` says that `charging_rule_list` holds names; the code takes ids.
- `api/auc.go:105`: the id a node gives a row is published with it, and peers that create rows of their own
  may use it already; `Oam` has one writing node.
- `diameter/s13/ecr.go:63`: the first rule in database order decides, not the most specific; `models.go:306`:
  a rule created with `regex_mode` 0 is stored as 1 (`docs/api.md:1526`), which `CreateEir` models.
- `docs/api.md:1579` has empty make and model for an unknown device, the code stores "Unknown".
- `policy/pcf.go:163`, `udm/sdm.go:13`, `docs/usermanual.md:253`: bit rates are kbit/s in one place and bit/s
  in another; Gx and the PCF choose opposite pre-emption vulnerabilities for a missing ARP.
- `diameter/conntrack.go:9-11` says that any MME that has sent a message is reachable. The tracker keeps the
  connection of the request that got to it last: of two requests that are in work on an old and a new
  connection it may be that of the old one (`crossing`), and no entry is ever removed. What is sent
  there is one of the messages the modules let be lost.
- `fivegc/server.go:130`: a connection from an address that is still to be taken off the list is taken off
  with it (`reused`); connections in clear text stay listed when they end; a Diameter connection that
  ended before its handshake was heard of may stay listed (`ghosts`). Only the lists shown are affected.

## 5. Proofs

`tlapm` checks every leaf. All theorems are about the specification TLC runs (`Spec`, `OamSpec`, `SbiSpec`)
and hold for every set of handlers and nodes and every bound; the assumptions are those named in the modules (types of the constants,
`Nobody \notin Handlers`, and so on).

**AuthVectors.** `LockCorrect` needs nothing about what the increment returns: the program counter
determines the locals (`LocalInv`) and the row lock is held by exactly the handler inside
its transaction, whose `base` is the committed SQN (`LockInv`). From this and
`ReturnsFreshRange` (the increment returns what callers take it for, or an AIR asks for one vector)
follows `Invariance`: the range a handler has *claimed* by its commit lies below what the row hands out
next, is disjoint from every other claimed range, and does not meet an SQN in use (`ClaimInv`);
requests are numbered apart (`RequestInv`); what a handler or the cache has loaded, plus its own
increments, is at most the row (`CopyInv`). `NoSqnReuse` alone is not inductive: it says nothing of the
vectors about to be made. `NoReuse`, `RowAhead`, `Ascending`, `NotAhead` and the
refinement `Implements` follow. `ReturnsFreshRange` is a hypothesis of these theorems and not of
the specification: it is false for the program as built with more than one vector per AIR
(finding 1); `auth_built` satisfies it with one vector per AIR.

**Mobility.** `SmsFollowsMme` is about what SRI-SM answers from the row and from the cache. Both columns
are written by one statement, but copies of the row travel through the cache and through handlers that
write them back; so the invariant (`SmsInv`) says of the row, the cache and every copy held that the two
columns go together. It needs no `overlap`. The rest is `~overlap => AloneInv`: a loaded row is the
committed one until it has been used, the cache is empty whenever a row is about to be written, and nobody
who may still register came after the subscriber was disabled. The conditional is inductive because the
only steps that change what others have read set `overlap`.

**SmsWaiting.** `NoWaitingLost` holds for every interleaving. Its strengthening is `TargetInv`: the row a
report is about to update is still there, or its SMS-SC was cleared after the report came in.
`RecordsAgree` and `ListBounded` come from `AloneInv`: what a handler has read of the table is still true
when it writes, unless `overlap`.

**SmPolicy.** Of an association that is `crossed` by nothing, `CalmInv` says that an update is alone with it and
a deletion meets other deletions only, that every notification about to be sent, under way or late is true of
what the PCF keeps, and that without any, so is what the SMF heard: the last case is `SmfAgrees`. It also says
that while the association is there no deletion has found it, and that one at most ever does: `TerminatedOnce`.
What carries it over a creation is `IdInv`: an id the SMF was not told of is nobody's but that of one creation,
although the id is taken in one step and the association stored in another. `PostInv` tells a notification that is awaited
from a late one by its request's number; `LockInv`, which says that the write lock over a step means one
deletion's notification, is a theorem of its own; `CountInv` keeps the ids taken within the bound.

**ImsRegistration.** `CalmInv` is about a user whose requests did not cross. One SAR at most is in work for
him (`Alone`); a registration the I-CSCF has routed goes to the S-CSCF of the row or finds the row empty
(`RoutedByRow`); while no SAR is in work, who serves is who is in the row (`ServedByRow`), and while one is, its
step says by how much the two may differ (`AllInStep`, `RowServed`). `RowHeard` adds the peers to the same
accounting. `OneServing` and `PeersHear` are the cases without a SAR in work.

**Peers and Sbi.** Three invariants. *Lists* (`ListsInv`): what is listed is open or has a removal on the way;
for Diameter "open" does not suffice, the goroutine that waits for the end must be there (`Kept`), because the
library tells only those who wait. A connection whose address was free of remains has no removal on the
way and no other's handshake to be heard of (`EnteredOK`), so nothing takes it off. Both rest on `NumbersApart`:
a handshake is heard for the connection that made it and changes nothing at any other address. *Hosts*
(`HostsInv`): as long as the requests of a host did not cross, those in work came in on its latest connection,
and with none in work that is the tracker's; the first request after a quiet moment starts afresh. *Keys*
(`KeysInv`, `ProgressInv`): what a network function holds was published by the NRF and parsed, and it asks once,
after a registration; with it `ServedAreIssued` says the middleware serves nothing that such a key did not sign.

**Equipment.** A device type whose writes did not overlap has one writer at most (`Alone`), and the invariant
follows it: it has yet to begin, or the table holds what it is about to put in the cache (`InStep`); without a
writer table and cache agree (`Free`), unless a roll-back has come last (`reverted`). For the history, numbers of checks at work are in no record and
before no other check (`CheckOK`), and a handler about to insert knows of no earlier check, since a missing row
means that no check was over when it looked. That rows are never deleted is what this rests on. `RulesDecide`
needs only that every rule is one, and that the first of the matching positions exists (`MinFacts`, from the
well-foundedness of finite sets: the provers have no induction over numbers here).

**GeoRed.** `OnceInv` says that an event is on a link in one place - with its handler, in the queue, in the batch or
in one post - where a post counts with all the events it was made of, since those it has applied must not
come again either; `DeliveredOnce` follows. The order on a link (`OrderInv`) is stated for the items that are not
contested: posts nobody waits for, then the awaited one, then the batch, then the queue, each ascending. It is
inductive because only the last write to such an item may still be being published, and only one node's
writes to it are on the way (`AloneInv`). `ReachInv` is `LastWriteReaches` with one addition: a peer that has
the last write is also safe from what is still in line behind it (`Settled`). A post that timed out may
still bring an earlier one, but that contests the item. What a
step does to a link is in few lemmas: steps that only lose events (`LossKeeps`), a peer that goes on to the next
event (`AdvanceKeeps`), a queue that loses its head or takes an event (`DrainKeeps`, `EnqueueKeeps`), a batch cut from what
waits (`Cut`, `StepGather`, `StepPush`); they rest on lemmas about `Head`, `Tail`, `Append` and concatenation.

**Sessions.** The invariant has three regions that share the handlers and the status of a session and nothing
else, so that each step disturbs few of them. *Rows* (`GxInv`): of a Gx session whose CCRs did not
overlap (`raced`) or fail, `SessionOK` says for each step of the one CCR in work what row, peers,
address and emergency record are: `RowAgrees` alone is not inductive, because whether a missing row is right depends
on whether the CCR-I has reached its upsert (`Opening`), whether the CCR-T has deleted, and whether another session of
the subscriber has taken the row over (`displaced`); `DisplacedInv` says who can have, because rows and requests are
under the key the session belongs to unless a fault has hit it (`RowsInv`, `LocalInv`). *Calls* (`RxInv`): while a request of a call
is in work nothing is remembered of it, and the PGW has the rules of the names installed so far or still to be
removed (`CallOK`); that other calls leave them alone rests on `NamesInv`, every rule being under a name of its
own call, unless two calls have the same prefix (`Clash`). *PDU sessions* (`PduInv`): the row a PUT has found is that of its
session when it writes, which is where a gap instead of a shorter table matters (`FoundOK`). `LocalInv` ties the
step of a handler to the type of its request. The proofs take one lemma per region for the steps that leave it
alone, and one per step for the region it is about.

**Oam.** `NoDangling` is kept by DELETE handlers alone, and each looks into one column at a time while other requests
write. `DeletionOK` says what is true in between: where a row that is not `excused` legibly refers to the one to be
deleted, it does so in a column the handler has yet to look into, and under the key the handler has loaded; a reference
in a column it has passed was written while the deletion was under way, which is what `excused` notes. It holds at the
start because of the schema: `ReferenceIsLookedFor` shows of all twelve tables that every column that refers to a table
is among the checks of that table's DELETE, which is where a forgotten column would fail. `KnowInv` says what the one
request about a row knows of it, by its step: before the write, the row; between commit and log entry, what the row held
before; until it publishes, what the row holds, and that the peers know it by the key of the event. `ToldInv` says that
with nothing to publish the peers have what they can see of the row (`Seen`): what the column lists of their `UPDATE`
carry, with defaults in place of zeros. `LogInv` is the invariant of the log: the newest entry of a row leads back
to what the row held before its last write, unless that write is still to be logged or was not; appending and pruning
keep it, and the action property `RollbackRestores` follows from it in one step. `BackupInv` compares the document
with the database the export began with, table by table as far as it has read.

The invariants of all proved modules were checked by TLC on the instances of section 3 before they were
proved. `PROJECT.json` lists, under `mutants`, for each property a changed definition with which TLC refutes it.

**What the theorems assume.** Besides the types of the constants: a value that stands for "none" is none of the
values it is told from (`NoneAssumption`), the shared listener is no other server (`NFsAssumption`), the rows of `Oam` are of the twelve
tables (`RowsAssumption`), and the configurations have the shape of the configuration file (`SettingsAssumption`). TLC evaluates them in every run. Beyond that a theorem assumes what its property's guard says
(section 2.1): `SessionsHaveRows` that the session's requests neither overlapped nor failed, `ReferencesHold` that a
row was written with good references which nobody renamed or rolled away, in a list without spaces, `PeersHearOfRows`
that the row's writes did not overlap, were not lost, and kept its key, and then about what the peers' statements carry
only, `CacheAgrees` that writes of a device type did not overlap and no roll-back came last.

**Model-checked only:** the two violation runs, which prove nothing beyond their instance, and everything about what must
happen: `NothingStuck`, `EveryoneServed`, `CalmNrfIsTrusted`, `StaysRegistered`. Liveness under
fairness, ENABLED, and induction over recursive definitions are beyond the prover and stay with TLC. Every other
property of the runs, the refinement and the action property included, is also a theorem.

## 6. Not modelled, and why

- **Pure translations**: resolution of a policy from its tables, TFT and flow rewriting, normalisation of
  identities, bit rates, profiles of Cx, Sh and SDM. Each maps a row to an answer in one function and keeps
  no state.
- **Read-only services**: SDM, UDR, SLh. They answer one row, and that row is modelled by its writers.
- **AM policies** (`pcf/ampolicy.go`): a map with one statement per request and nothing that waits.
- **Server-initiated requests.** Nothing in the program calls the senders of RTR, PPR, PNR, DSR and RSR. The
  IDR that follows a PUT of a subscriber changes no state of the HSS; its answer is only logged.
- **Encoding and transport**: AVPs, XML, JSON, CSV, TLS, DSCP, SCTP, the capability exchange, the
  names of the CCM handshake, SCP routing headers.
- **Cryptography**: Milenage, key derivation, SUCI deconcealment, signatures - bit-level arithmetic, covered by
  the repository's test vectors. SQNs are not reduced to 48 bits in the code either: a row would need 2^43
  increments.
- **Configuration, logging, metrics, the web and test clients.**

## 7. What would come next

1. `GeoRed` composed with the writers: the other modules take an event as heard when it is published, and the
   theorems on both sides meet only in the reader's mind.
2. More than one writing node in `Oam`: ids given by two nodes collide (`api/auc.go:105`).
3. The remaining columns of a subscriber that a PUT and a resync write (`store.go:583`), if they get readers whose
   decisions depend on them.
