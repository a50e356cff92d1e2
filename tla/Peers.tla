----------------------------------- MODULE Peers ---------------------------------
(***************************************************************************)
(* Who is connected: the inbound connections of the Diameter server, the   *)
(* GSUP server and the HTTP servers of UDM and PCF, the lists of them the  *)
(* REST interface shows, and the tracker by which the HSS finds the        *)
(* connection of a Diameter peer (internal/diameter, gsup, fivegc, udm,    *)
(* pcf, peertracker).                                                      *)
(*                                                                         *)
(* Each list goes by remote address, which a new connection may have as    *)
(* soon as the socket of the old one is closed; what takes a connection    *)
(* off its list runs after that, in a goroutine of its own.  A Diameter    *)
(* peer is known by the Origin-Host of its requests.  An agent sends those *)
(* of several hosts on one connection, and every request is handled by a   *)
(* goroutine of its own, which first enters the connection.                *)
(*                                                                         *)
(* Abstracted: messages and names; a connection is known by a number.      *)
(***************************************************************************)
EXTENDS Naturals, FiniteSets

CONSTANTS
    NFs,      \* the network functions, of UDM and PCF
    FiveGC,   \* the listener they share when their configurations allow it
    Addrs,    \* remote addresses
    Hosts     \* Origin-Hosts of Diameter peers

ASSUME NFsAssumption == /\ NFs \subseteq {"UDM", "PCF"}
                        /\ FiveGC \notin {"UDM", "PCF", "Diameter", "GSUP"}

VARIABLES
    cfg,      \* the configuration of the process, and bounds: the servers that are
              \* called (they share nothing here), conns and requests
    conn,     \* per server and address the connection, 0 when there is none yet,
              \* and how far it is
    late,     \* per server and address the removals from the list yet to run
    listed,   \* per server the addresses it lists
    notices,  \* Diameter handshakes its notification goroutine has yet to hear of
    watched,  \* Diameter connections whose end is waited for
    tracked,  \* ConnTracker: per host a connection, 0 for none
    inwork,   \* Diameter requests received and not yet at the tracker
    latest,   \* history: per host the connection its last request came in on
    crossing, \* history: hosts with requests in work on more than one connection
    reused,   \* history: connections accepted before their address was off the list
    ghosts,   \* history: addresses of Diameter connections that ended unnoticed
    opened, asked

connVars == <<conn, late, listed, notices, watched, tracked, inwork, latest, crossing,
              reused, ghosts, opened, asked>>

Servers   == NFs \cup {FiveGC, "Diameter", "GSUP"}
Listeners == IF cfg.shared THEN {FiveGC} ELSE NFs
Endpoints == Listeners \cup {"Diameter", "GSUP"}
NoConn    == [n |-> 0, state |-> "closed"]

ConnsInit ==
    /\ conn = [l \in Servers |-> [a \in Addrs |-> NoConn]]
    /\ late = [l \in Servers |-> [a \in Addrs |-> 0]]
    /\ listed = [l \in Servers |-> {}]
    /\ notices = {} /\ watched = {} /\ inwork = {}
    /\ tracked = [h \in Hosts |-> 0] /\ latest = [h \in Hosts |-> 0]
    /\ crossing = {} /\ reused = {} /\ ghosts = {}
    /\ opened = 0 /\ asked = 0

\* The process ends, and its connections with it.
ConnsRestart ==
    /\ conn' = [l \in Servers |-> [a \in Addrs |-> NoConn]]
    /\ late' = [l \in Servers |-> [a \in Addrs |-> 0]]
    /\ listed' = [l \in Servers |-> {}]
    /\ notices' = {} /\ watched' = {} /\ inwork' = {}
    /\ tracked' = [h \in Hosts |-> 0] /\ latest' = [h \in Hosts |-> 0]
    /\ crossing' = {} /\ reused' = {} /\ ghosts' = {}
    /\ UNCHANGED <<opened, asked>>

-----------------------------------------------------------------------------
State(l, a)       == conn[l][a].state
SetConn(l, a, s)  == conn' = [conn EXCEPT ![l][a] = [n |-> conn[l][a].n, state |-> s]]
Add(l, a)         == listed' = [listed EXCEPT ![l] = @ \cup {a}]
Unlist(l, a)      == listed' = [listed EXCEPT ![l] = @ \ {a}]
trackerVars       == <<tracked, inwork, latest, crossing, asked>>
handshakeVars     == <<notices, watched, ghosts>>
Untouched         == UNCHANGED <<cfg, trackerVars, handshakeVars, opened>>

\* A connection is accepted on an address that has none.
Accepted(l, a) ==
    /\ l \in cfg.called /\ State(l, a) = "closed" /\ opened < cfg.conns
    /\ opened' = opened + 1
    /\ conn' = [conn EXCEPT ![l][a] = [n |-> opened', state |-> "accepted"]]
    /\ reused' = IF late[l][a] > 0 \/ \E m \in notices : l = "Diameter" /\ m.addr = a
                 THEN reused \cup {<<l, a>>} ELSE reused \ {<<l, a>>}
    /\ UNCHANGED <<cfg, late, trackerVars, handshakeVars>>

\* A connection ends; if somebody waits for that, its removal will follow.
Ended(l, a, awaited) ==
    /\ SetConn(l, a, "closed")
    /\ late' = IF awaited THEN [late EXCEPT ![l][a] = @ + 1] ELSE late
    /\ UNCHANGED <<listed, reused>> /\ Untouched

\* Mutant of Removed: the connection stays listed.
RemovedNever(l, a) ==
    /\ late[l][a] > 0 /\ late' = [late EXCEPT ![l][a] = @ - 1]
    /\ UNCHANGED <<listed, conn, reused>> /\ Untouched
Removed(l, a) ==
    /\ late[l][a] > 0 /\ late' = [late EXCEPT ![l][a] = @ - 1]
    /\ Unlist(l, a)
    /\ UNCHANGED <<conn, reused>> /\ Untouched

-----------------------------------------------------------------------------
(***************************************************************************)
(* HTTP.  The server calls connState; with TLS it reports a closed         *)
(* connection, after the socket is free.  In clear text a connection is    *)
(* taken over by the HTTP/2 server, which reports it active but never      *)
(* closed.                                                                 *)
(***************************************************************************)
Connect(l, a) == Accepted(l, a) /\ Add(l, a)

Hijack(l, a) ==
    /\ ~cfg.tls /\ State(l, a) = "accepted"
    /\ SetConn(l, a, "hijacked") /\ Unlist(l, a)
    /\ UNCHANGED <<late, reused>> /\ Untouched

Active(l, a) ==
    /\ State(l, a) \in IF cfg.tls THEN {"accepted", "active"} ELSE {"hijacked", "active"}
    /\ SetConn(l, a, "active") /\ Add(l, a)
    /\ UNCHANGED <<late, reused>> /\ Untouched

Close(l, a) ==
    /\ State(l, a) # "closed"
    /\ Ended(l, a, cfg.tls \/ State(l, a) = "accepted")

-----------------------------------------------------------------------------
(* GSUP: a goroutine per connection, from its entry to its removal.        *)

Start(a) == Accepted("GSUP", a) /\ UNCHANGED listed

handleConn(a) ==
    /\ State("GSUP", a) = "accepted"
    /\ SetConn("GSUP", a, "active") /\ Add("GSUP", a)
    /\ UNCHANGED <<late, reused>> /\ Untouched

\* The identity request cannot be written, or reading ends or times out.
HangUp(a) == State("GSUP", a) = "active" /\ Ended("GSUP", a, TRUE)

-----------------------------------------------------------------------------
(* Diameter.                                                               *)

serveNetwork(a) == Accepted("Diameter", a) /\ UNCHANGED listed

Handshake(a) ==
    /\ State("Diameter", a) = "accepted"
    /\ SetConn("Diameter", a, "open")
    /\ notices' = notices \cup {[addr |-> a, n |-> conn["Diameter"][a].n]}
    /\ UNCHANGED <<cfg, late, listed, watched, ghosts, trackerVars, reused, opened>>

\* The peer is listed, and a goroutine waits for the end of the connection.  If it
\* has ended by now, the library may or may not say so.
HandshakeNotify(m) ==
    LET here == conn["Diameter"][m.addr] IN
    /\ notices' = notices \ {m}
    /\ Add("Diameter", m.addr)
    /\ \/ /\ here.n = m.n /\ here.state = "open"
          /\ watched' = watched \cup {m.n} /\ UNCHANGED <<late, ghosts>>
       \/ /\ here.n # m.n \/ here.state # "open"
          /\ \/ late' = [late EXCEPT !["Diameter"][m.addr] = @ + 1] /\ UNCHANGED ghosts
             \/ ghosts' = ghosts \cup {m.addr} /\ UNCHANGED late
          /\ UNCHANGED watched
    /\ UNCHANGED <<cfg, conn, trackerVars, reused, opened>>

Disconnect(a) ==
    /\ State("Diameter", a) # "closed"
    /\ Ended("Diameter", a, conn["Diameter"][a].n \in watched)

\* A request arrives, to be handled by a goroutine of its own.
Arrive(h, a) ==
    LET n == conn["Diameter"][a].n
        others == {r \in inwork : r.host = h}
    IN /\ State("Diameter", a) = "open" /\ asked < cfg.requests
       /\ asked' = asked + 1
       /\ inwork' = inwork \cup {[host |-> h, n |-> n, k |-> asked']}
       /\ latest' = [latest EXCEPT ![h] = n]
       /\ crossing' = IF others = {} THEN crossing \ {h}
                      ELSE IF \E r \in others : r.n # n THEN crossing \cup {h} ELSE crossing
       /\ UNCHANGED <<cfg, conn, late, listed, handshakeVars, tracked, reused, opened>>

\* Mutant of Set: the first connection of a host is kept.
SetOnce(h, n) == IF tracked[h] = 0 THEN [tracked EXCEPT ![h] = n] ELSE tracked
Set(h, n) == [tracked EXCEPT ![h] = n]
GetConn(h) == tracked[h]

\* The wrapper around every handler, before it calls the handler.
Wrap(r) ==
    /\ tracked' = Set(r.host, r.n)
    /\ inwork' = inwork \ {r}
    /\ UNCHANGED <<cfg, conn, late, listed, handshakeVars, latest, crossing, asked, reused, opened>>

-----------------------------------------------------------------------------
(* Properties.                                                             *)

Ends(l) == l \in {"Diameter", "GSUP"} \/ cfg.tls    \* somebody waits for the end
Entered(l, a) ==
    \/ l = "Diameter" /\ State(l, a) = "open" /\ \A m \in notices : m.n # conn[l][a].n
    \/ l = "GSUP" /\ State(l, a) = "active"
    \/ l \notin {"Diameter", "GSUP"} /\ State(l, a) \in {"accepted", "active"}

\* Each list is that of the open connections: it holds no other but those whose
\* removal is about to run, although the ends of connections are heard of late, and
\* every connection that was entered, unless it was accepted while its address was
\* still to be taken off the list.  Excused are HTTP in clear text, whose server
\* does not report the end, and Diameter connections that ended before the
\* handshake was heard of (server.go:293-326, gsup/server.go:74-82, connState).
ListedAreOpen ==
    \A l \in Endpoints, a \in Addrs :
        /\ Ends(l) /\ (l = "Diameter" => a \notin ghosts) /\ a \in listed[l]
              => State(l, a) # "closed" \/ late[l][a] > 0
        /\ Entered(l, a) /\ <<l, a>> \notin reused => a \in listed[l]

\* What the HSS sends to a Diameter peer goes over the connection the last request
\* of the peer came in on, across reconnections and for each host behind an agent,
\* unless requests of the peer were in work on two connections at once
\* (server.go:170-178, conntrack.go).
PeersReached ==
    \A h \in Hosts \ crossing :
        (\A r \in inwork : r.host # h) => GetConn(h) = latest[h]
==================================================================================
