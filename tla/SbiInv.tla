---------------------------------- MODULE SbiInv ---------------------------------
(***************************************************************************)
(* The inductive invariant behind the safety properties of Peers and Sbi,  *)
(* for TLC (MCSbi) and for the proofs (SbiProofs).                         *)
(***************************************************************************)
EXTENDS Sbi

-----------------------------------------------------------------------------
(* Connections and the lists of them.                                      *)

States == {"closed", "accepted", "hijacked", "active", "open"}

ConnsTypeOK ==
    /\ conn \in [Servers -> [Addrs -> [n : Nat, state : States]]]
    /\ late \in [Servers -> [Addrs -> Nat]]
    /\ listed \in [Servers -> SUBSET Addrs]
    /\ notices \subseteq [addr : Addrs, n : Nat]
    /\ watched \subseteq Nat /\ ghosts \subseteq Addrs
    /\ tracked \in [Hosts -> Nat] /\ latest \in [Hosts -> Nat]
    /\ inwork \subseteq [host : Hosts, n : Nat, k : Nat]
    /\ crossing \subseteq Hosts /\ reused \subseteq Servers \X Addrs
    /\ opened \in Nat /\ asked \in Nat

\* A connection has a number of its own, which the notice of its handshake carries.
NumbersApart ==
    /\ \A l \in Servers, a \in Addrs :
          conn[l][a].n <= opened /\ (State(l, a) # "closed" => conn[l][a].n # 0)
    /\ \A a, b \in Addrs :
          conn["Diameter"][a].n = conn["Diameter"][b].n => a = b \/ conn["Diameter"][a].n = 0
    /\ \A m \in notices :
          /\ m.n # 0 /\ m.n <= opened
          /\ \A a \in Addrs : conn["Diameter"][a].n = m.n =>
                a = m.addr /\ State("Diameter", a) \in {"open", "closed"}

\* What is listed is open or about to be taken off; that a Diameter connection is
\* open is not enough, its end must be waited for.
Kept(l, a) ==
    IF l = "Diameter" THEN State(l, a) = "open" /\ conn[l][a].n \in watched
                      ELSE State(l, a) # "closed"
ListedOK(l, a) ==
    Ends(l) /\ a \in listed[l] /\ (l = "Diameter" => a \notin ghosts) =>
        late[l][a] > 0 \/ Kept(l, a)

\* A connection whose address was free of what an earlier one left behind stays so,
\* and is listed once it was entered.
EnteredOK(l, a) ==
    State(l, a) # "closed" /\ <<l, a>> \notin reused =>
        /\ late[l][a] = 0
        /\ l = "Diameter" => \A m \in notices : m.addr = a => m.n = conn[l][a].n
        /\ Entered(l, a) => a \in listed[l]

ListsInv == \A l \in Servers, a \in Addrs : ListedOK(l, a) /\ EnteredOK(l, a)

\* The requests of a host in work have come in on the connection of the last one,
\* and while there is none the tracker has that connection.
Asking(h) == \E r \in inwork : r.host = h
HostOK(h) ==
    /\ \A r \in inwork : r.host = h => r.n = latest[h]
    /\ Asking(h) \/ tracked[h] = latest[h]
HostsInv == \A h \in Hosts \ crossing : HostOK(h)

ConnsOK == ConnsTypeOK /\ NumbersApart /\ ListsInv /\ HostsInv

-----------------------------------------------------------------------------
(* The network functions and the NRF.                                      *)

NrfTypeOK ==
    /\ stage \in [NFs -> {"off", "register", "beat", "again"}]
    /\ reply \in [NFs -> {"none", "ok", "notfound", "silent", "refused"}]
    /\ fetch \in [NFs -> {"no", "due", "done"}]
    /\ jwks \in [NFs -> SUBSET ever]
    /\ up \in BOOLEAN /\ registered \subseteq NFs /\ published \subseteq ever
    /\ nrfListed \subseteq Servers
    /\ faults \in Nat /\ rotations \in Nat

\* No key is held that the NRF has not published, or that does not parse.
KeysInv == \A nf \in NFs : jwks[nf] \subseteq ever \ Broken

\* A network function is on its way to the NRF only where there is one, and asks for
\* the keys once, after it was registered.
ProgressInv ==
    \A nf \in NFs :
        /\ stage[nf] = "off" <=> ~cfg.nrf
        /\ stage[nf] \in {"off", "register"} <=> fetch[nf] = "no"
        /\ jwks[nf] # {} => fetch[nf] = "done"
        /\ reply[nf] # "none" => stage[nf] # "off"
        /\ reply[nf] = "notfound" => stage[nf] = "beat"

NrfOK == NrfTypeOK /\ KeysInv /\ ProgressInv

SbiTypeOK == cfg \in Settings /\ ConnsTypeOK /\ NrfTypeOK
SbiIInv   == cfg \in Settings /\ ConnsOK /\ NrfOK
==================================================================================
