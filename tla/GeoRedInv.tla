-------------------------------- MODULE GeoRedInv -------------------------------
(***************************************************************************)
(* The inductive invariant behind the safety properties of GeoRed, for TLC *)
(* (MCGeoRed) and for the proofs (GeoRedProofs).                           *)
(***************************************************************************)
EXTENDS GeoRed

TypeOK ==
    /\ writes \in Seq(Change) /\ Len(writes) <= MaxWrites
    /\ row \in [Nodes -> [Items -> Numbers]]
    /\ pc \in [Handlers -> {"idle", "publish", "drain", "retry"}]
    /\ req \in [Handlers -> Request]
    /\ queue \in [Links -> Seq(Numbers)]
    /\ batch \in [Links -> Seq(Numbers)]
    /\ sending \in [Links -> Seq(Numbers)]
    /\ flight \subseteq Delivery
    /\ snap \in [Links -> SUBSET Numbers]
    /\ syncs \in 0 .. MaxSyncs
    /\ dropped \subseteq Numbers \X Nodes
    /\ contested \subseteq Items

\* The writes node n has committed.
Of(n) == {k \in DOMAIN writes : writes[k].node = n}

\* A handler publishes a write of its node to the rest of its peers.
HandlerOK(h) ==
    /\ req[h].write \in Of(req[h].node)
    /\ req[h].todo # <<>> /\ IsInjective(req[h].todo)
    /\ Range(req[h].todo) \subseteq Range(PeersOf[req[h].node])
HandlersInv ==
    /\ \A h \in Handlers : pc[h] # "idle" => HandlerOK(h)
    /\ \A g, h \in Handlers :
          pc[g] # "idle" /\ pc[h] # "idle" /\ req[g].write = req[h].write => g = h

\* A link carries the writes of its node, and a post the rest of its events.
PostOK(d) ==
    /\ d.events # <<>> /\ Range(d.events) \subseteq Of(d.link[1])
    /\ Range(d.left) \subseteq Range(d.events)
CarriesInv ==
    /\ \A l \in Links : Range(queue[l]) \cup Range(batch[l]) \subseteq Of(l[1])
    /\ \A d \in flight : PostOK(d)
    /\ \A l \in Links : snap[l] \subseteq DOMAIN writes

\* On a link an event is yet to be queued, or is queued, or in the batch, or was
\* posted once.
Queues(h, l) == pc[h] # "idle" /\ req[h].node = l[1] /\ l[2] \in Range(req[h].todo)
Waiting(l)   == Range(queue[l]) \cup Range(batch[l])
OnceInv ==
    /\ \A l \in Links : /\ IsInjective(queue[l]) /\ IsInjective(batch[l])
                        /\ Range(queue[l]) \cap Range(batch[l]) = {}
    /\ \A h \in Handlers, l \in Links : Queues(h, l) => req[h].write \notin Waiting(l)
    /\ \A d \in flight : Range(d.events) \cap Waiting(d.link) = {}
    /\ \A h \in Handlers, d \in flight :
          Queues(h, d.link) => req[h].write \notin Range(d.events)
    /\ \A d, e \in flight : d.link = e.link /\ d # e => Range(d.events) \cap Range(e.events) = {}

\* The writes to an item that has not been contested leave in order on each link, the
\* posts nobody waits for before the one that is awaited.
Sorted(W, s) ==
    \A p, q \in DOMAIN s : p < q /\ s[p] \in W /\ s[q] \in W => s[p] < s[q]
Before(W, S, T) == \A j \in S \cap W, k \in T \cap W : j < k
LineSorted(W, l) ==
    /\ Sorted(W, queue[l]) /\ Sorted(W, batch[l])
    /\ Before(W, Range(batch[l]), Range(queue[l]))
PostSorted(W, d) == Sorted(W, d.left) /\ Before(W, Range(d.left), Waiting(d.link))
PostsSorted(W, d, e) ==
    d.link = e.link /\ ~Awaited(d) /\ Awaited(e) => Before(W, Range(d.left), Range(e.left))
OrderInv ==
    \A i \in Items \ contested :
        /\ \A l \in Links : LineSorted(WritesTo(i), l)
        /\ \A d \in flight : PostSorted(WritesTo(i), d)
        /\ \A d, e \in flight : PostsSorted(WritesTo(i), d, e)

\* Only its last write may be being published, and only writes of the same node are on
\* the way.
IsLast(i, k) == k \in WritesTo(i) /\ \A j \in WritesTo(i) : j <= k
AloneInv ==
    \A i \in Items \ contested :
        /\ \A h \in Handlers : pc[h] # "idle" /\ Item(req[h].write) = i => IsLast(i, req[h].write)
        /\ \A k \in WritesTo(i) : IsLast(i, k) =>
              \A j \in WritesTo(i), m \in Nodes : OnTheWay(j, m) => writes[j].node = writes[k].node

\* What link l will still bring without a timeout: nothing in it comes before write k
\* to item i once its node has that.
InLine(l) ==
    Waiting(l) \cup UNION {Range(d.left) : d \in {e \in flight : e.link = l /\ Awaited(e)}}
Settled(i, k, l) ==
    row[l[2]][i] = k /\ \A j \in WritesTo(i) \cap InLine(l) : k <= j
ReachInv ==
    \A i \in Items \ contested : \A k \in WritesTo(i) : IsLast(i, k) =>
        LET n == writes[k].node IN
        /\ row[n][i] = k
        /\ \A m \in Range(PeersOf[n]) :
              OnTheWay(k, m) \/ <<k, m>> \in dropped \/ Settled(i, k, <<n, m>>)

IInv == /\ TypeOK /\ HandlersInv /\ CarriesInv /\ OnceInv
        /\ OrderInv /\ AloneInv /\ ReachInv
=============================================================================
