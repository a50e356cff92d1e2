--------------------------- MODULE ImsRegistrationInv ---------------------------
(***************************************************************************)
(* The inductive invariant behind the safety properties of                 *)
(* ImsRegistration, for TLC (MCImsRegistration) and for the proofs         *)
(* (ImsRegistrationProofs).                                                *)
(***************************************************************************)
EXTENDS ImsRegistration

PCs    == {"idle", "lookup", "update", "publish", "answer"}
Values == Cscfs \cup {None, Unknown}

TypeOK ==
    /\ row \in [Users -> Values] /\ heard \in [Users -> Values]
    /\ next \in Nat
    /\ pc \in [Handlers -> PCs] /\ req \in [Handlers -> Request]
    /\ routed \subseteq Users \X Cscfs /\ serves \subseteq Users \X Cscfs
    /\ crossed \subseteq Users /\ edited \subseteq Users /\ faulted \subseteq Users
    /\ requests \in Nat /\ faults \in Nat /\ edits \in Nat

\* Where a SAR may stand, and that it names a user and an S-CSCF.
LocalOK(h) ==
    /\ pc[h] = "idle" <=> req[h].type = "none"
    /\ req[h].type # "none" => req[h].user \in Users /\ req[h].server \in Cscfs
    /\ req[h].type = "unregistered" => pc[h] \in {"lookup", "answer"}
LocalInv == \A h \in Handlers : LocalOK(h)

\* The SARs that assign the user, or end its assignment.
Working(h, u) == req[h].user = u /\ req[h].type \in {"register", "reregister", "deregister"}

\* The one who serves is the one in the row, and a registration on its way goes there
\* or finds the row empty.
ServedByRow(u) ==
    /\ row[u] # Unknown
    /\ \A c \in Cscfs : <<u, c>> \in serves => row[u] = c
RoutedByRow(u) ==
    \A c \in Cscfs : <<u, c>> \in routed =>
        /\ row[u] \in {None, c}
        /\ \A d \in Cscfs : <<u, d>> \in routed => d = c

\* A SAR works alone, and what it has not yet done is still to be done.
Alone(u) == \A g, h \in Handlers : Working(g, u) /\ Working(h, u) => g = h
InStep(h, u) ==
    /\ pc[h] \in {"lookup", "update"} =>
          row[u] = req[h].server \/ (req[h].type = "register" /\ row[u] = None)
    /\ pc[h] \in {"publish", "answer"} => row[u] = Assigned(h)
    /\ req[h].type = "register" => \A c \in Cscfs : <<u, c>> \notin routed
    /\ req[h].type = "deregister" => \A c \in Cscfs : <<u, c>> \notin serves
AllInStep(u) == \A h \in Handlers : Working(h, u) => InStep(h, u)

\* Without faults, what the row says is served and was published, but for the SAR at work.
Undone(h) == \/ req[h].type = "deregister" /\ pc[h] \in {"lookup", "update"}
             \/ req[h].type = "register" /\ pc[h] \in {"publish", "answer"}
RowServed(u) == \/ row[u] \in Cscfs => <<u, row[u]>> \in serves
                \/ \E h \in Handlers : Working(h, u) /\ Undone(h)
RowHeard(u)  == \/ heard[u] = row[u]
                \/ \E h \in Handlers : Working(h, u) /\ pc[h] = "publish"

Calm(u) ==
    /\ ServedByRow(u) /\ RoutedByRow(u) /\ Alone(u) /\ AllInStep(u)
    /\ u \notin faulted => RowServed(u) /\ RowHeard(u)
CalmInv == \A u \in Users \ (crossed \cup edited) : Calm(u)

IInv == TypeOK /\ LocalInv /\ CalmInv
=============================================================================
