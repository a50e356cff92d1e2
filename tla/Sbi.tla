------------------------------------ MODULE Sbi ----------------------------------
(***************************************************************************)
(* The service-based interface of UDM and PCF: registration at the NRF and *)
(* the keys tokens are checked with (internal/sbi, udm/nrf.go, pcf/nrf.go).*)
(*                                                                         *)
(* Each network function registers at the NRF in a loop, then sends a      *)
(* heartbeat every minute and registers again, once, when the NRF no       *)
(* longer knows it.  After the first registration it fetches the NRF's     *)
(* keys, once.  Inbound requests carry a token that is checked with those  *)
(* keys.  The NRF and the inbound connections are kept in a peer tracker,  *)
(* which UDM and PCF share when they share a listener; the connections of  *)
(* this process are those of Peers.                                        *)
(*                                                                         *)
(* Abstracted: an exchange with the NRF takes effect there when it is sent *)
(* and is heard later; cryptography is the fact that a signature verifies  *)
(* with the key that made it; the clock is where a token stands in its     *)
(* validity.  The list of peers behind an SCP only expires, and is left    *)
(* out, and so is a client configuration that can build no request.        *)
(***************************************************************************)
EXTENDS Peers

CONSTANTS
    Settings,      \* the configurations explored
    Keys,          \* the NRF's signing keys over time
    KidOf,         \* their key ids; "" for a JWK without one
    Broken,        \* keys whose JWK does not parse
    Documents,     \* the documents the NRF may publish, each a set of keys
    Tokens,        \* what a bearer token may be, as far as its check can tell
    Missing, Blank,\* no bearer token; a bearer token that is empty
    Unsigned,      \* the signer of a token with algorithm none
    MaxFaults,     \* bound: answers lost or refused, outages, restarts
    MaxRotations   \* bound: rotations of the NRF's keys

ASSUME SettingsAssumption ==
    \A s \in Settings : /\ s.shared \in BOOLEAN /\ s.tls \in BOOLEAN /\ s.nrf \in BOOLEAN
                        /\ s.oauth \in {"on", "off", "bypass"}
                        /\ s.called \subseteq Servers      \* bounds: servers called,
                        /\ s.conns \in Nat /\ s.requests \in Nat   \* connections, requests
ASSUME KidsAssumption ==
    \A d \in Documents : \A k, l \in d : KidOf[k] = KidOf[l] /\ KidOf[k] # "" => k = l
ASSUME BoundsAssumption == MaxFaults \in Nat /\ MaxRotations \in Nat

VARIABLES
    stage,         \* per network function: registering, beating, registering again
    reply,         \* what its last request to the NRF comes back with
    fetch,         \* its fetch of the keys: not yet, due, done
    jwks,          \* the keys it holds, {} while it has none
    up, registered,\* the NRF answers; the network functions it knows
    published,     \* the document it publishes
    ever,          \* history: the keys it has published
    nrfListed,     \* the trackers that list the NRF
    faults, rotations

nfVars   == <<stage, reply, fetch, jwks>>
nrfVars  == <<up, registered, published, ever, rotations>>
sbiVars  == <<cfg, nfVars, nrfVars, connVars, nrfListed, faults>>

Tracker(nf) == IF cfg.shared THEN FiveGC ELSE nf

\* The services of a network function.  A service is the scope its routes ask
\* for; the health check asks for none.
Services(nf) == CASE nf = "UDM" -> {"nudm-ueau", "nudm-sdm", "nudm-uecm", "nudr-dr"}
                  [] nf = "PCF" -> {"npcf-smpolicycontrol", "npcf-am-policy-control"}

\* What a process starts with: server.New of UDM, PCF and the shared listener.
Fresh ==
    /\ stage'  = [nf \in NFs |-> IF cfg.nrf THEN "register" ELSE "off"]
    /\ reply' = [nf \in NFs |-> "none"]
    /\ fetch'  = [nf \in NFs |-> "no"] /\ jwks' = [nf \in NFs |-> {}]
    /\ nrfListed' = {}

SbiInit ==
    /\ cfg \in Settings
    /\ stage = [nf \in NFs |-> IF cfg.nrf THEN "register" ELSE "off"]
    /\ reply = [nf \in NFs |-> "none"]
    /\ fetch = [nf \in NFs |-> "no"] /\ jwks = [nf \in NFs |-> {}]
    /\ up \in {TRUE, cfg.nrf} /\ registered = {}
    /\ published \in (IF cfg.nrf THEN Documents ELSE {{}}) /\ ever = published
    /\ nrfListed = {} /\ ConnsInit
    /\ faults = 0 /\ rotations = 0

-----------------------------------------------------------------------------
(* Tokens.  The code lines are those of sbi/auth.go.                       *)

\* The keys a document yields: entries without an id are skipped, and one
\* entry that does not parse spoils the document.
Parsed(doc) ==
    LET named == {k \in doc : KidOf[k] # ""}
    IN IF named \cap Broken = {} THEN named ELSE {}

\* The key a token's id selects.  As a mutant of Selected: nothing else.
SelectedByKid(held, kid) == {k \in held : KidOf[k] = kid}
\* A token without an id may do with a single key.
Selected(held, kid) ==
    IF SelectedByKid(held, kid) = {} /\ kid = "" /\ Cardinality(held) = 1
    THEN held ELSE SelectedByKid(held, kid)

Signed(t, key)     == t.signer # Unsigned /\ t.signer = key
HasScope(t, scope) == scope \in t.scopes

Valid(held, t, scope) ==
    /\ \E key \in Selected(held, t.kid) : Signed(t, key)
    /\ t.when = "now"
    /\ HasScope(t, scope)

\* Mutant of TokenVerdict: everything passes until the keys are there.
VerdictOpenUntilKeys(nf, scope, t) ==
    IF cfg.oauth # "on" \/ (t # Missing /\ jwks[nf] = {}) THEN "served"
    ELSE IF t \notin {Missing, Blank} /\ Valid(jwks[nf], t, scope) THEN "served" ELSE "401"

\* The middleware in front of every handler but the health check.
TokenVerdict(nf, scope, t) ==
    IF cfg.oauth # "on"    THEN "served"
    ELSE IF t = Missing    THEN "401"
    ELSE IF jwks[nf] = {}  THEN "503"
    ELSE IF t # Blank /\ Valid(jwks[nf], t, scope) THEN "served"
    ELSE "401"

-----------------------------------------------------------------------------
(* A network function and the NRF.                                         *)

Fault == faults < MaxFaults /\ faults' = faults + 1

\* What comes back for a request the NRF answers with a when all goes well.
Exchange(nf, a, known) ==
    \/ /\ up /\ reply' = [reply EXCEPT ![nf] = a] /\ registered' = known
       /\ UNCHANGED faults
    \/ /\ ~up /\ reply' = [reply EXCEPT ![nf] = "silent"]
       /\ UNCHANGED <<registered, faults>>
    \/ /\ up /\ Fault /\ reply' = [reply EXCEPT ![nf] = "refused"] /\ UNCHANGED registered
    \/ /\ up /\ Fault /\ reply' = [reply EXCEPT ![nf] = "silent"] /\ registered' = known

Register(nf) ==
    /\ stage[nf] \in {"register", "again"} /\ reply[nf] = "none"
    /\ Exchange(nf, "ok", registered \cup {nf})
    /\ UNCHANGED <<cfg, stage, fetch, jwks, up, published, ever, rotations, connVars, nrfListed>>

Heartbeat(nf) ==
    /\ stage[nf] = "beat" /\ reply[nf] = "none"
    /\ Exchange(nf, IF nf \in registered THEN "ok" ELSE "notfound", registered)
    /\ UNCHANGED <<cfg, stage, fetch, jwks, up, published, ever, rotations, connVars, nrfListed>>

\* Mutant of After: an NRF that does not know the function is a failed heartbeat.
AfterNotFoundIsAnError(nf) ==
    IF stage[nf] = "register" /\ reply[nf] # "ok" THEN "register" ELSE "beat"
\* Where a network function goes when it has heard the reply.
After(nf) ==
    IF stage[nf] = "register" /\ reply[nf] # "ok" THEN "register"
    ELSE IF stage[nf] = "beat" /\ reply[nf] = "notfound" THEN "again"
    ELSE "beat"

Hear(nf) ==
    /\ reply[nf] # "none"
    /\ nrfListed' = IF reply[nf] = "ok" THEN nrfListed \cup {Tracker(nf)}
                                         ELSE nrfListed \ {Tracker(nf)}
    /\ stage' = [stage EXCEPT ![nf] = After(nf)]
    /\ fetch' = IF stage[nf] = "register" /\ reply[nf] = "ok"
                THEN [fetch EXCEPT ![nf] = "due"] ELSE fetch
    /\ reply' = [reply EXCEPT ![nf] = "none"]
    /\ UNCHANGED <<cfg, jwks, nrfVars, connVars, faults>>

\* The keys are asked for once, whatever comes back.
Fetch(nf) ==
    /\ fetch[nf] = "due"
    /\ fetch' = [fetch EXCEPT ![nf] = "done"]
    /\ \/ /\ up /\ jwks' = [jwks EXCEPT ![nf] = Parsed(published)]
          /\ UNCHANGED faults
       \/ ~up /\ UNCHANGED <<jwks, faults>>
       \/ up /\ Fault /\ UNCHANGED jwks
    /\ UNCHANGED <<cfg, stage, reply, nrfVars, connVars, nrfListed>>

\* The NRF stops, comes back, drops a registration it heard no heartbeat of
\* in time, rotates its keys.  All that matters only to those who use it.
NrfStop ==
    /\ cfg.nrf /\ up /\ Fault /\ up' = FALSE
    /\ UNCHANGED <<cfg, nfVars, registered, published, ever, rotations, connVars, nrfListed>>
NrfStart ==
    /\ ~up /\ up' = TRUE
    /\ UNCHANGED <<cfg, nfVars, registered, published, ever, rotations, connVars, nrfListed, faults>>
NrfForget(nf) ==
    /\ nf \in registered /\ Fault /\ registered' = registered \ {nf}
    /\ UNCHANGED <<cfg, nfVars, up, published, ever, rotations, connVars, nrfListed>>
Rotate ==
    /\ cfg.nrf /\ rotations < MaxRotations /\ rotations' = rotations + 1
    /\ \E d \in Documents \ {published} : published' = d /\ ever' = ever \cup d
    /\ UNCHANGED <<cfg, nfVars, up, registered, connVars, nrfListed, faults>>

-----------------------------------------------------------------------------
SbiRestart ==
    /\ Fault /\ Fresh /\ ConnsRestart
    /\ UNCHANGED <<cfg, nrfVars>>

-----------------------------------------------------------------------------
\* What the connections do concerns nothing else here.
Apart == UNCHANGED <<nfVars, nrfVars, nrfListed, faults>>

SbiNext ==
    \/ \E nf \in NFs : Register(nf) \/ Heartbeat(nf) \/ Hear(nf) \/ Fetch(nf)
    \/ NrfStop \/ NrfStart \/ (\E nf \in NFs : NrfForget(nf)) \/ Rotate
    \/ Apart /\ \/ \E l \in Listeners, a \in Addrs :
                    Connect(l, a) \/ Hijack(l, a) \/ Active(l, a) \/ Close(l, a)
                \/ \E a \in Addrs :
                    \/ Start(a) \/ handleConn(a) \/ HangUp(a)
                    \/ serveNetwork(a) \/ Handshake(a) \/ Disconnect(a)
                    \/ \E h \in Hosts : Arrive(h, a)
                \/ \E l \in Endpoints, a \in Addrs : Removed(l, a)
                \/ \E m \in notices : HandshakeNotify(m)
                \/ \E r \in inwork : Wrap(r)
    \/ SbiRestart

SbiSpec == SbiInit /\ [][SbiNext]_sbiVars

\* The goroutines of a network function keep running, and every request to the
\* NRF ends within the 10 s of the HTTP client.  Nothing is asked of the NRF.
SbiFairSpec ==
    SbiSpec /\ \A nf \in NFs : /\ WF_sbiVars(Register(nf)) /\ WF_sbiVars(Heartbeat(nf))
                            /\ WF_sbiVars(Hear(nf)) /\ WF_sbiVars(Fetch(nf))

-----------------------------------------------------------------------------
(* Properties.                                                             *)

\* With OAuth enforced, a request is served only for a token that a key of the
\* NRF signed, in its validity and for the service: before the keys are there,
\* after rotations that give an old id to a new key, for tokens without an id.
\* A document with a broken key leaves the service closed, not open.
ServedAreIssued ==
    \A nf \in NFs, t \in Tokens \cup {Missing, Blank} : \A scope \in Services(nf) :
        cfg.oauth = "on" /\ TokenVerdict(nf, scope, t) = "served" =>
            /\ t \in Tokens
            /\ t.signer \in ever \ Broken
            /\ t.when = "now" /\ scope \in t.scopes

\* The NRF signs a token with a key it publishes, which the token names, or
\* need not name when it is the only one.
Issued(t, scope) ==
    LET usable == {k \in published : KidOf[k] # ""}
    IN /\ t.signer \in usable
       /\ t.kid = KidOf[t.signer] \/ (t.kid = "" /\ usable = {t.signer})
       /\ t.when = "now" /\ scope \in t.scopes

\* Against an NRF that neither fails nor rotates and whose document parses, every
\* network function comes to serve exactly the tokens the NRF issues for it:
\* registration leads to the fetch, the fetch to keys, the keys to the verdicts.
CalmNrfIsTrusted ==
    [](cfg.nrf /\ cfg.oauth = "on" /\ up /\ faults = 0 /\ rotations = 0
         /\ Parsed(published) # {})
    => <>[](\A nf \in NFs, t \in Tokens : \A scope \in Services(nf) :
               TokenVerdict(nf, scope, t) = "served" <=> Issued(t, scope))

\* Once the NRF stays up, every network function is registered there and stays
\* so, and the NRF is listed as a peer, though its answers were lost, it forgot
\* registrations, or two functions share the entry.  Once it stays down it is
\* no longer listed.
StaysRegistered ==
    /\ cfg.nrf /\ <>[]up => <>[](registered = NFs /\ nrfListed = Listeners)
    /\ <>[]~up => <>[](nrfListed = {})
==================================================================================
