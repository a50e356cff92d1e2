----------------------------- MODULE SqnDispenser -----------------------------
(***************************************************************************)
(* What the authentication of one subscriber promises, whatever the number *)
(* of requests, failures and restarts: a dispenser of sequence numbers.    *)
(* A request reserves the next range of SQNs in one step; later it gives   *)
(* out exactly that range, or loses it.  A range is never reserved again   *)
(* unless the counter has been set back.                                   *)
(***************************************************************************)
EXTENDS Integers

CONSTANTS Holders,  \* the requests
          MaxRange  \* most SQNs reserved at once

Step == 32

VARIABLES
    next,    \* the first SQN of the next range
    held,    \* the range each request has reserved and not given out
    given,   \* the SQNs given out
    rewound  \* the counter has been set back

vars == <<next, held, given, rewound>>

NoRange == [from |-> -1, count |-> 0]
Range(h) == {held[h].from + i * Step : i \in 0 .. held[h].count - 1}

Init ==
    /\ next \in Nat
    /\ held = [h \in Holders |-> NoRange]
    /\ given = {}
    /\ rewound = FALSE

Reserve(h, n) ==
    /\ held[h] = NoRange
    /\ held' = [held EXCEPT ![h] = [from |-> next, count |-> n]]
    /\ next' = next + n * Step
    /\ UNCHANGED <<given, rewound>>

Give(h) ==
    /\ held[h] # NoRange
    /\ given' = given \cup Range(h)
    /\ held' = [held EXCEPT ![h] = NoRange]
    /\ UNCHANGED <<next, rewound>>

\* Requests that fail, or all of them in a restart, take their ranges with them.
Lose(H) ==
    /\ held' = [h \in Holders |-> IF h \in H THEN NoRange ELSE held[h]]
    /\ UNCHANGED <<next, given, rewound>>

Advance == next' > next /\ UNCHANGED <<held, given, rewound>>

Rewind == next' < next /\ rewound' /\ UNCHANGED <<held, given>>

Next ==
    \/ \E h \in Holders : Give(h) \/ \E n \in 1..MaxRange : Reserve(h, n)
    \/ \E H \in SUBSET Holders : Lose(H)
    \/ Advance
    \/ Rewind

Spec == Init /\ [][Next]_vars
=============================================================================
