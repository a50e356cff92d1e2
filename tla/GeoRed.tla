--------------------------------- MODULE GeoRed ---------------------------------
(***************************************************************************)
(* Replication between the HSS nodes of a GeoRed mesh (internal/geored).   *)
(*                                                                         *)
(* A handler of a node commits a change and publishes it: the event is put *)
(* into one bounded queue per peer.  One worker per queue gathers events   *)
(* into a batch, which it posts when it is full or old enough; the peer    *)
(* applies its events one by one.  A node may also pull a snapshot of a    *)
(* peer.  Pushes fail and time out, queues overflow, nodes restart.        *)
(*                                                                         *)
(* Abstracted: what is replicated is a set of items - the location of a    *)
(* subscriber, a Gx session - that are written as a whole.  A write is     *)
(* known by its number, which stands for its payload and its timestamp.    *)
(* SQNs merge by max() and are in AuthVectors.  Health flags and depth     *)
(* counters only feed the status page.                                     *)
(***************************************************************************)
EXTENDS Naturals, Sequences, Functions

CONSTANTS
    Nodes,      \* the HSS nodes
    PeersOf,    \* the peers each is configured with, in order
    Items,      \* what is replicated
    Removals,   \* the numbers of the writes that purge or delete their item
    Handlers,   \* request goroutines, of any node
    QueueSize,  \* capacity of a peer queue (the code: 50000)
    BatchMax,   \* events that make a batch full (the code: 500)
    MaxWrites,  \* bound: changes committed in a behaviour
    MaxSyncs    \* bound: snapshots pulled in a behaviour

ASSUME NodesAssumption == Nodes # {}
ASSUME PeersAssumption ==
    /\ PeersOf \in [Nodes -> Seq(Nodes)]
    /\ \A n \in Nodes : IsInjective(PeersOf[n]) /\ n \notin Range(PeersOf[n])
ASSUME SizesAssumption  == QueueSize \in Nat \ {0} /\ BatchMax \in Nat \ {0}
ASSUME BoundsAssumption == MaxWrites \in Nat /\ MaxSyncs \in Nat /\ Removals \subseteq Nat

Links == {l \in Nodes \X Nodes : l[2] \in Range(PeersOf[l[1]])}

VARIABLES
    writes,    \* the changes committed by handlers, in order
    row,       \* per node and item the write its database holds, or 0
    pc,        \* where each handler stands
    req,       \* the write it publishes, and the peers still to be given it
    queue,     \* per link the channel of the peer client
    batch,     \* per link the events its worker has gathered
    sending,   \* per link the events its worker is posting, or <<>>
    flight,    \* the posts a peer is working on
    snap,      \* per link the writes of a pulled snapshot still to be applied
    syncs,     \* snapshots pulled so far
    dropped,   \* history: which write was lost on the way to which node
    contested  \* history: the items whose writes have overlapped (see Overlaps)

history == <<dropped, contested>>
vars == <<writes, row, pc, req, queue, batch, sending, flight, snap, syncs,
          dropped, contested>>

Numbers == 0 .. MaxWrites
Change    == [node : Nodes, item : Items]
Request   == [node : Nodes, write : Numbers, todo : Seq(Nodes)]
Delivery  == [link : Links, events : Seq(Numbers), left : Seq(Numbers)]
NoRequest == [node |-> CHOOSE n \in Nodes : TRUE, write |-> 0, todo |-> <<>>]

Init ==
    /\ writes = <<>>
    /\ row = [n \in Nodes |-> [i \in Items |-> 0]]
    /\ pc  = [h \in Handlers |-> "idle"]
    /\ req = [h \in Handlers |-> NoRequest]
    /\ queue   = [l \in Links |-> <<>>]
    /\ batch   = [l \in Links |-> <<>>]
    /\ sending = [l \in Links |-> <<>>]
    /\ flight = {}
    /\ snap = [l \in Links |-> {}]
    /\ syncs = 0
    /\ dropped = {}
    /\ contested = {}

-----------------------------------------------------------------------------
(***************************************************************************)
(* Where a write is.                                                       *)
(***************************************************************************)
Publishing(h, k) == pc[h] # "idle" /\ req[h].write = k

\* Write k has not reached node m yet and is not lost.
OnTheWay(k, m) ==
    \/ \E h \in Handlers : Publishing(h, k) /\ m \in Range(req[h].todo)
    \/ \E l \in Links : l[2] = m /\ k \in Range(queue[l]) \cup Range(batch[l])
    \/ \E d \in flight : d.link[2] = m /\ k \in Range(d.left)

Item(k)      == writes[k].item
WritesTo(i)  == {k \in DOMAIN writes : Item(k) = i}
Lost(s, m)   == Range(s) \X {m}
Awaited(d)   == sending[d.link] = d.events
Set(n, i, k) == [row EXCEPT ![n] = [row[n] EXCEPT ![i] = k]]

\* A write to item i at node n overlaps an earlier one: another handler is still
\* publishing it, or it is on the way from another node.
Overlaps(n, i) ==
    \E k \in WritesTo(i) :
        \/ \E h \in Handlers : Publishing(h, k)
        \/ writes[k].node # n /\ \E m \in Nodes : OnTheWay(k, m)

-----------------------------------------------------------------------------
(***************************************************************************)
(* Publishing.                                                             *)
(***************************************************************************)
Turn(h, n, k, todo) ==
    /\ pc'  = [pc EXCEPT ![h] = IF todo = <<>> THEN "idle" ELSE "publish"]
    /\ req' = [req EXCEPT ![h] =
                  IF todo = <<>> THEN NoRequest
                  ELSE [node |-> n, write |-> k, todo |-> todo]]

\* A handler has written its change to the database of its node.
Commit(h) ==
    /\ pc[h] = "idle"
    /\ Len(writes) < MaxWrites
    /\ \E c \in Change :
          LET k == Len(writes) + 1 IN
          /\ writes' = Append(writes, c)
          /\ row' = Set(c.node, c.item, k)
          /\ Turn(h, c.node, k, PeersOf[c.node])
          /\ contested' = contested \cup
                 (IF Overlaps(c.node, c.item) THEN {c.item} ELSE {})
    /\ UNCHANGED <<queue, batch, sending, flight, snap, syncs, dropped>>

Target(h)   == <<req[h].node, Head(req[h].todo)>>
HasRoom(l)  == Len(queue[l]) < QueueSize
Enqueue(h)  == queue' = [queue EXCEPT ![Target(h)] = Append(queue[Target(h)], req[h].write)]
NextPeer(h) == Turn(h, req[h].node, req[h].write, Tail(req[h].todo))

Send(h) ==
    /\ pc[h] = "publish"
    /\ HasRoom(Target(h))
    /\ Enqueue(h)
    /\ NextPeer(h)
    /\ UNCHANGED <<writes, row, batch, sending, flight, snap, syncs, history>>

Full(h) ==
    /\ pc[h] = "publish"
    /\ ~HasRoom(Target(h))
    /\ pc' = [pc EXCEPT ![h] = "drain"]
    /\ UNCHANGED <<writes, row, req, queue, batch, sending, flight, snap, syncs, history>>

\* The oldest event makes room, if the worker has not emptied the queue meanwhile.
Drain(h) ==
    /\ pc[h] = "drain"
    /\ LET l == Target(h) IN
       IF queue[l] = <<>>
       THEN UNCHANGED <<queue, dropped>>
       ELSE /\ queue' = [queue EXCEPT ![l] = Tail(queue[l])]
            /\ dropped' = dropped \cup {<<Head(queue[l]), l[2]>>}
    /\ pc' = [pc EXCEPT ![h] = "retry"]
    /\ UNCHANGED <<writes, row, req, batch, sending, flight, snap, syncs, contested>>

\* Where another handler has taken the room, the new event is lost as well.
Retry(h) ==
    /\ pc[h] = "retry"
    /\ \/ HasRoom(Target(h)) /\ Enqueue(h) /\ UNCHANGED dropped
       \/ /\ ~HasRoom(Target(h))
          /\ dropped' = dropped \cup {<<req[h].write, Target(h)[2]>>}
          /\ UNCHANGED queue
    /\ NextPeer(h)
    /\ UNCHANGED <<writes, row, batch, sending, flight, snap, syncs, contested>>

-----------------------------------------------------------------------------
(***************************************************************************)
(* The worker of a peer client.                                            *)
(***************************************************************************)
\* The batch is handed to a post; the worker gathers nothing until that ends.
Push(l, events) ==
    /\ sending' = [sending EXCEPT ![l] = events]
    /\ flight' = flight \cup {[link |-> l, events |-> events, left |-> events]}
    /\ batch' = [batch EXCEPT ![l] = <<>>]

\* Mutant: an event goes to the front of the batch.
TakeReversed(l) ==
    /\ sending[l] = <<>> /\ queue[l] # <<>>
    /\ queue' = [queue EXCEPT ![l] = Tail(queue[l])]
    /\ LET events == <<Head(queue[l])>> \o batch[l] IN
       IF Len(events) >= BatchMax
       THEN Push(l, events)
       ELSE batch' = [batch EXCEPT ![l] = events] /\ UNCHANGED <<sending, flight>>
    /\ UNCHANGED <<writes, row, pc, req, snap, syncs, history>>

Take(l) ==
    /\ sending[l] = <<>> /\ queue[l] # <<>>
    /\ queue' = [queue EXCEPT ![l] = Tail(queue[l])]
    /\ LET events == Append(batch[l], Head(queue[l])) IN
       IF Len(events) >= BatchMax
       THEN Push(l, events)
       ELSE batch' = [batch EXCEPT ![l] = events] /\ UNCHANGED <<sending, flight>>
    /\ UNCHANGED <<writes, row, pc, req, snap, syncs, history>>

\* Mutant: the ticker only flushes while events keep coming.
TickBusy(l) ==
    /\ sending[l] = <<>> /\ batch[l] # <<>> /\ queue[l] # <<>>
    /\ Push(l, batch[l])
    /\ UNCHANGED <<writes, row, pc, req, queue, snap, syncs, history>>

Tick(l) ==
    /\ sending[l] = <<>> /\ batch[l] # <<>>
    /\ Push(l, batch[l])
    /\ UNCHANGED <<writes, row, pc, req, queue, snap, syncs, history>>

\* The peer has answered with a 2xx.
PushDone(l) ==
    /\ sending[l] # <<>>
    /\ \E d \in flight :
          /\ d.link = l /\ Awaited(d) /\ d.left = <<>>
          /\ flight' = flight \ {d}
    /\ sending' = [sending EXCEPT ![l] = <<>>]
    /\ UNCHANGED <<writes, row, pc, req, queue, batch, snap, syncs, history>>

\* Mutant: a failed batch is posted again.
PushRetried(l) ==
    /\ sending[l] # <<>>
    /\ sending' = [sending EXCEPT ![l] = <<>>]
    /\ batch' = [batch EXCEPT ![l] = sending[l]]
    /\ UNCHANGED <<writes, row, pc, req, queue, flight, snap, syncs, history>>

\* The peer is not reached, refuses, or does not answer in 10 s.  The batch is not
\* posted again; a peer that has it may still be working on it.
PushFails(l) ==
    /\ sending[l] # <<>>
    /\ sending' = [sending EXCEPT ![l] = <<>>]
    /\ UNCHANGED <<writes, row, pc, req, queue, batch, flight, snap, syncs, history>>

-----------------------------------------------------------------------------
(***************************************************************************)
(* The receiving node.                                                     *)
(***************************************************************************)
Advance(d) ==
    flight' = (flight \ {d}) \cup
        {[link |-> d.link, events |-> d.events, left |-> Tail(d.left)]}

\* Whatever the row holds, the event overwrites it.
Apply(d) ==
    /\ d.left # <<>>
    /\ LET m == d.link[2]
           k == Head(d.left)
       IN /\ row' = Set(m, Item(k), k)
          /\ contested' = contested \cup
                 (IF ~Awaited(d) /\ k < row[m][Item(k)] THEN {Item(k)} ELSE {})
    /\ Advance(d)
    /\ UNCHANGED <<writes, pc, req, queue, batch, sending, snap, syncs, dropped>>

\* The database call fails; the error is ignored.
ApplyFails(d) ==
    /\ d.left # <<>>
    /\ dropped' = dropped \cup {<<Head(d.left), d.link[2]>>}
    /\ Advance(d)
    /\ UNCHANGED <<writes, row, pc, req, queue, batch, sending, snap, syncs, contested>>

\* The context of a post nobody waits for is cancelled, or it never arrived.
Abort(d) ==
    /\ ~Awaited(d)
    /\ flight' = flight \ {d}
    /\ dropped' = dropped \cup Lost(d.left, d.link[2])
    /\ UNCHANGED <<writes, row, pc, req, queue, batch, sending, snap, syncs, contested>>

-----------------------------------------------------------------------------
(***************************************************************************)
(* Resynchronisation: node l[1] pulls the items peer l[2] has.             *)
(***************************************************************************)
\* What the node answers with: its rows.  A snapshot does not say what was removed.
BuildSnapshot(n) == {k \in DOMAIN writes : row[n][Item(k)] = k /\ k \notin Removals}

Fetch(l) ==
    /\ snap[l] = {}
    /\ syncs < MaxSyncs
    /\ syncs' = syncs + 1
    /\ snap' = [snap EXCEPT ![l] = BuildSnapshot(l[2])]
    /\ UNCHANGED <<writes, row, pc, req, queue, batch, sending, flight, history>>

ApplySnapshot(l) ==
    /\ \E k \in snap[l] :
          /\ snap' = [snap EXCEPT ![l] = snap[l] \ {k}]
          /\ \/ /\ row' = Set(l[1], Item(k), k)
                /\ contested' = contested \cup
                       (IF k < row[l[1]][Item(k)] THEN {Item(k)} ELSE {})
             \/ UNCHANGED <<row, contested>>  \* the database call fails
    /\ UNCHANGED <<writes, pc, req, queue, batch, sending, flight, syncs, dropped>>

-----------------------------------------------------------------------------
\* Node n is restarted: its handlers, queues, batches and the requests it was
\* serving are gone.  It must have had something to lose.
Volatile(n) ==
    \/ \E h \in Handlers : pc[h] # "idle" /\ req[h].node = n
    \/ \E l \in Links : l[1] = n /\ (queue[l] \o batch[l] \o sending[l] # <<>> \/ snap[l] # {})
    \/ \E d \in flight : d.link[2] = n
Restart(n) ==
    LET mine(l)  == l[1] = n
        down     == {h \in Handlers : pc[h] # "idle" /\ req[h].node = n}
        inbound  == {d \in flight : d.link[2] = n}
    IN /\ Volatile(n)
       /\ pc'  = [h \in Handlers |-> IF h \in down THEN "idle" ELSE pc[h]]
       /\ req' = [h \in Handlers |-> IF h \in down THEN NoRequest ELSE req[h]]
       /\ queue'   = [l \in Links |-> IF mine(l) THEN <<>> ELSE queue[l]]
       /\ batch'   = [l \in Links |-> IF mine(l) THEN <<>> ELSE batch[l]]
       /\ sending' = [l \in Links |-> IF mine(l) THEN <<>> ELSE sending[l]]
       /\ snap'    = [l \in Links |-> IF mine(l) THEN {} ELSE snap[l]]
       /\ flight'  = flight \ inbound
       /\ dropped' = dropped
              \cup (UNION {{req[h].write} \X Range(req[h].todo) : h \in down})
              \cup (UNION {Lost(queue[l] \o batch[l], l[2]) : l \in {x \in Links : mine(x)}})
              \cup (UNION {Lost(d.left, n) : d \in inbound})
       /\ UNCHANGED <<writes, row, syncs, contested>>

Publisher(h) == Send(h) \/ Full(h) \/ Drain(h) \/ Retry(h)
Worker(l)    == Take(l) \/ Tick(l) \/ PushDone(l) \/ PushFails(l)
Receiver(l)  == \E d \in flight : d.link = l /\ (Apply(d) \/ ApplyFails(d) \/ Abort(d))

Next ==
    \/ \E h \in Handlers : Commit(h) \/ Publisher(h)
    \/ \E l \in Links : Worker(l) \/ Receiver(l) \/ Fetch(l) \/ ApplySnapshot(l)
    \/ \E n \in Nodes : Restart(n)

Spec == Init /\ [][Next]_vars

\* Goroutines are scheduled, the ticker keeps ticking, and a post ends after 10 s
\* at the latest.  Nothing else is fair: requests need not come, nor syncs.
Fairness ==
    /\ \A h \in Handlers : WF_vars(Publisher(h))
    /\ \A l \in Links : WF_vars(Worker(l)) /\ WF_vars(Receiver(l))

FairSpec == Spec /\ Fairness

-----------------------------------------------------------------------------
(***************************************************************************)
(* Properties.                                                             *)
(***************************************************************************)
\* The last write to an item, unless its writes have overlapped, is what its node
\* has, and every peer either has it, is about to get it, or has lost that very
\* write: neither the queues, their overflow, the batches nor failed posts let an
\* earlier write win (README.md:140).
LastWriteReaches ==
    \A i \in Items \ contested : \A k \in WritesTo(i) :
        (\A j \in WritesTo(i) : j <= k) =>
            LET n == writes[k].node IN
            /\ row[n][i] = k
            /\ \A m \in Range(PeersOf[n]) :
                  row[m][i] = k \/ OnTheWay(k, m) \/ <<k, m>> \in dropped

\* An event on a link is in one place, so that no peer is given it twice: a post
\* whose outcome is unknown is not made again.
DeliveredOnce ==
    \A l \in Links :
        LET waiting == batch[l] \o queue[l]
            posts   == {d \in flight : d.link = l}
        IN /\ IsInjective(waiting)
           /\ \A d \in posts : Range(d.left) \cap Range(waiting) = {}
           /\ \A d, e \in posts : d # e => Range(d.left) \cap Range(e.left) = {}

\* Whatever is published arrives at each peer or is lost, within the age of a batch
\* and the time limit of a post: nothing stays behind in a queue or a batch that
\* does not fill up (README.md:139).
NothingStuck ==
    \A k \in 1 .. MaxWrites :
        (\E m \in Nodes : OnTheWay(k, m)) ~> (\A m \in Nodes : ~OnTheWay(k, m))
=============================================================================
