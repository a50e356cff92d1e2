------------------------------ MODULE GeoRedProofs ------------------------------
(***************************************************************************)
(* Proofs that the safety properties of GeoRed hold for any mesh, whatever *)
(* the capacities of queues and batches.                                   *)
(***************************************************************************)
EXTENDS GeoRedInv, SequenceTheorems, TLAPS

-----------------------------------------------------------------------------
(***************************************************************************)
(* Sequences: what a queue and a batch hold after one of their operations. *)
(***************************************************************************)
LEMMA RangeFacts ==
    ASSUME NEW S, NEW s \in Seq(S)
    PROVE  /\ Range(s) \subseteq S
           /\ \A x \in Range(s) : \E p \in 1 .. Len(s) : s[p] = x
           /\ \A p \in 1 .. Len(s) : s[p] \in Range(s)
           /\ DOMAIN s = 1 .. Len(s) /\ Len(s) \in Nat
  BY DEF Range

LEMMA EmptyFacts ==
    ASSUME NEW W
    PROVE  Range(<<>>) = {} /\ IsInjective(<<>>) /\ Sorted(W, <<>>)
  BY DEF Range, IsInjective, Sorted

\* A received event leaves the rest of the sequence, in which all of its order is kept.
LEMMA TailFacts ==
    ASSUME NEW S, NEW s \in Seq(S), s # <<>>
    PROVE  /\ Head(s) \in S /\ Tail(s) \in Seq(S)
           /\ Range(s) = {Head(s)} \cup Range(Tail(s))
           /\ IsInjective(s) => IsInjective(Tail(s)) /\ Head(s) \notin Range(Tail(s))
<1>1. /\ Head(s) = s[1] /\ Tail(s) \in Seq(S) /\ Len(Tail(s)) = Len(s) - 1
      /\ Len(s) \in Nat \ {0}
      /\ \A p \in 1 .. Len(Tail(s)) : Tail(s)[p] = s[p + 1]
  BY HeadTailProperties, EmptySeq
<1>2. Head(s) \in S
  BY HeadTailProperties
<1>3. Range(s) = {Head(s)} \cup Range(Tail(s))
  <2>1. ASSUME NEW x \in Range(s) PROVE x \in {Head(s)} \cup Range(Tail(s))
    <3>1. PICK p \in 1 .. Len(s) : s[p] = x
      BY RangeFacts
    <3>2. CASE p = 1
      BY <3>1, <3>2, <1>1
    <3>3. CASE p # 1
      <4>1. p - 1 \in 1 .. Len(Tail(s)) /\ Tail(s)[p - 1] = x
        BY <3>1, <3>3, <1>1
      <4>2. QED
        BY <4>1, <1>1, RangeFacts
    <3>4. QED
      BY <3>2, <3>3
  <2>2. ASSUME NEW x \in Range(Tail(s)) PROVE x \in Range(s)
    <3>1. PICK p \in 1 .. Len(Tail(s)) : Tail(s)[p] = x
      BY <1>1, RangeFacts
    <3>2. p + 1 \in 1 .. Len(s) /\ s[p + 1] = x
      BY <3>1, <1>1
    <3>3. QED
      BY <3>2, RangeFacts
  <2>3. Head(s) \in Range(s)
    BY <1>1, RangeFacts
  <2>4. QED
    BY <2>1, <2>2, <2>3
<1>4. ASSUME IsInjective(s) PROVE IsInjective(Tail(s)) /\ Head(s) \notin Range(Tail(s))
  <2>1. \A p, q \in 1 .. Len(s) : s[p] = s[q] => p = q
    BY <1>4, RangeFacts DEF IsInjective
  <2>2. ASSUME NEW p \in 1 .. Len(Tail(s)), NEW q \in 1 .. Len(Tail(s)), Tail(s)[p] = Tail(s)[q]
        PROVE  p = q
    <3>1. s[p + 1] = s[q + 1] /\ p + 1 \in 1 .. Len(s) /\ q + 1 \in 1 .. Len(s)
      BY <2>2, <1>1
    <3>2. QED
      BY <3>1, <2>1
  <2>3. ASSUME Head(s) \in Range(Tail(s)) PROVE FALSE
    <3>1. PICK p \in 1 .. Len(Tail(s)) : Tail(s)[p] = Head(s)
      BY <2>3, <1>1, RangeFacts
    <3>2. s[p + 1] = s[1] /\ p + 1 \in 1 .. Len(s) /\ 1 \in 1 .. Len(s) /\ p + 1 # 1
      BY <3>1, <1>1
    <3>3. QED
      BY <3>2, <2>1
  <2>4. DOMAIN Tail(s) = 1 .. Len(Tail(s))
    BY <1>1, RangeFacts
  <2>5. QED
    BY <2>2, <2>3, <2>4 DEF IsInjective
<1>5. QED
  BY <1>1, <1>2, <1>3, <1>4

LEMMA TailSorted ==
    ASSUME NEW S, NEW s \in Seq(S), s # <<>>, NEW W, Sorted(W, s)
    PROVE  Sorted(W, Tail(s)) /\ Before(W, {Head(s)}, Range(Tail(s)))
<1>1. /\ Head(s) = s[1] /\ Tail(s) \in Seq(S) /\ Len(Tail(s)) = Len(s) - 1
      /\ Len(s) \in Nat \ {0} /\ DOMAIN s = 1 .. Len(s) /\ DOMAIN Tail(s) = 1 .. Len(Tail(s))
      /\ \A p \in 1 .. Len(Tail(s)) : Tail(s)[p] = s[p + 1]
  BY HeadTailProperties, EmptySeq, LenProperties
<1>2. ASSUME NEW p \in 1 .. Len(Tail(s)), NEW q \in 1 .. Len(Tail(s)), p < q,
             Tail(s)[p] \in W, Tail(s)[q] \in W
      PROVE  Tail(s)[p] < Tail(s)[q]
  <2>1. p + 1 \in DOMAIN s /\ q + 1 \in DOMAIN s /\ p + 1 < q + 1
    BY <1>1, <1>2
  <2>2. QED
    BY <2>1, <1>1, <1>2 DEF Sorted
<1>3. ASSUME NEW k \in Range(Tail(s)), k \in W, Head(s) \in W
      PROVE  Head(s) < k
  <2>1. PICK p \in 1 .. Len(Tail(s)) : Tail(s)[p] = k
    BY <1>1, RangeFacts
  <2>2. s[p + 1] = k /\ p + 1 \in DOMAIN s /\ 1 \in DOMAIN s /\ 1 < p + 1
    BY <2>1, <1>1
  <2>3. QED
    BY <2>2, <1>1, <1>3 DEF Sorted
<1>4. QED
  BY <1>1, <1>2, <1>3 DEF Sorted, Before

LEMMA AppendFacts ==
    ASSUME NEW S, NEW s \in Seq(S), NEW x \in S
    PROVE  /\ Append(s, x) \in Seq(S) /\ Append(s, x) # <<>>
           /\ Range(Append(s, x)) = Range(s) \cup {x}
           /\ IsInjective(s) /\ x \notin Range(s) => IsInjective(Append(s, x))
<1> DEFINE t == Append(s, x)
<1>1. /\ t \in Seq(S) /\ Len(t) = Len(s) + 1 /\ Len(s) \in Nat
      /\ t[Len(s) + 1] = x /\ \A p \in 1 .. Len(s) : t[p] = s[p]
      /\ DOMAIN s = 1 .. Len(s) /\ DOMAIN t = 1 .. Len(s) + 1
  OBVIOUS
<1> HIDE DEF t
<1>2. Range(t) = Range(s) \cup {x}
  BY <1>1 DEF Range
<1>3. IsInjective(s) /\ x \notin Range(s) => IsInjective(t)
  BY <1>1 DEF IsInjective, Range
<1>4. t # <<>>
  BY <1>1
<1>5. QED
  BY <1>1, <1>2, <1>3, <1>4 DEF t

LEMMA AppendSorted ==
    ASSUME NEW S, NEW s \in Seq(S), NEW x \in S, NEW W, Sorted(W, s), Before(W, Range(s), {x})
    PROVE  Sorted(W, Append(s, x))
<1> DEFINE t == Append(s, x)
<1>1. /\ t \in Seq(S) /\ Len(t) = Len(s) + 1 /\ Len(s) \in Nat
      /\ t[Len(s) + 1] = x /\ \A p \in 1 .. Len(s) : t[p] = s[p] /\ s[p] \in Range(s)
      /\ DOMAIN s = 1 .. Len(s) /\ DOMAIN t = 1 .. Len(s) + 1
  BY DEF Range
<1> HIDE DEF t
<1>2. ASSUME NEW p \in 1 .. Len(s) + 1, NEW q \in 1 .. Len(s) + 1, p < q, t[p] \in W, t[q] \in W
      PROVE  t[p] < t[q]
  <2>1. CASE q = Len(s) + 1
    BY <2>1, <1>1, <1>2 DEF Before
  <2>2. CASE q \in 1 .. Len(s)
    BY <2>2, <1>1, <1>2 DEF Sorted
  <2>3. QED
    BY <2>1, <2>2, <1>1
<1>3. QED
  BY <1>1, <1>2 DEF t, Sorted

LEMMA ConcatFacts ==
    ASSUME NEW S, NEW s \in Seq(S), NEW t \in Seq(S)
    PROVE  /\ s \o t \in Seq(S) /\ Range(s \o t) = Range(s) \cup Range(t)
           /\ IsInjective(s) /\ IsInjective(t) /\ Range(s) \cap Range(t) = {}
                 => IsInjective(s \o t)
<1> DEFINE u == s \o t
<1>1. /\ u \in Seq(S) /\ Len(u) = Len(s) + Len(t) /\ Len(s) \in Nat /\ Len(t) \in Nat
      /\ DOMAIN u = 1 .. Len(s) + Len(t) /\ DOMAIN s = 1 .. Len(s) /\ DOMAIN t = 1 .. Len(t)
      /\ \A p \in 1 .. Len(s) : u[p] = s[p]
      /\ \A p \in 1 .. Len(t) : u[Len(s) + p] = t[p]
  <2>1. /\ u \in Seq(S) /\ Len(u) = Len(s) + Len(t)
        /\ \A p \in 1 .. Len(s) + Len(t) :
              u[p] = IF p <= Len(s) THEN s[p] ELSE t[p - Len(s)]
    BY ConcatProperties
  <2>2. DOMAIN u = 1 .. Len(u) /\ DOMAIN s = 1 .. Len(s) /\ DOMAIN t = 1 .. Len(t)
        /\ Len(s) \in Nat /\ Len(t) \in Nat
    BY <2>1, LenProperties
  <2> HIDE DEF u
  <2>3. DOMAIN u = 1 .. Len(s) + Len(t)
    BY <2>1, <2>2
  <2>4. ASSUME NEW p \in 1 .. Len(s) PROVE u[p] = s[p]
    <3>1. p \in 1 .. Len(s) + Len(t) /\ p <= Len(s)
      BY <2>2
    <3>2. QED
      BY <2>1, <3>1
  <2>5. ASSUME NEW p \in 1 .. Len(t) PROVE u[Len(s) + p] = t[p]
    <3>1. /\ Len(s) + p \in 1 .. Len(s) + Len(t)
          /\ ~(Len(s) + p <= Len(s)) /\ (Len(s) + p) - Len(s) = p
      BY <2>2
    <3>2. QED
      BY <2>1, <3>1
  <2>6. QED
    BY <2>1, <2>2, <2>3, <2>4, <2>5
<1> HIDE DEF u
<1>2. \A p \in 1 .. Len(u) : p \in 1 .. Len(s) \/ \E q \in 1 .. Len(t) : p = Len(s) + q
  <2>1. TAKE p \in 1 .. Len(u)
  <2>2. CASE p <= Len(s)
    BY <2>2, <1>1
  <2>3. CASE p > Len(s)
    <3>1. p - Len(s) \in 1 .. Len(t) /\ p = Len(s) + (p - Len(s))
      BY <2>3, <1>1
    <3>2. QED
      BY <3>1
  <2>4. QED
    BY <2>2, <2>3, <1>1
<1>3. Range(u) = Range(s) \cup Range(t)
  <2>1. ASSUME NEW x \in Range(u) PROVE x \in Range(s) \cup Range(t)
    <3>1. PICK p \in 1 .. Len(u) : u[p] = x
      BY <1>1 DEF Range
    <3>2. CASE p \in 1 .. Len(s)
      BY <3>1, <3>2, <1>1 DEF Range
    <3>3. ASSUME NEW q \in 1 .. Len(t), p = Len(s) + q PROVE x \in Range(t)
      BY <3>1, <3>3, <1>1 DEF Range
    <3>4. QED
      BY <3>2, <3>3, <1>2
  <2>2. Range(s) \subseteq Range(u)
    BY <1>1 DEF Range
  <2>3. Range(t) \subseteq Range(u)
    <3>1. \A q \in 1 .. Len(t) : Len(s) + q \in DOMAIN u
      BY <1>1
    <3>2. QED
      BY <3>1, <1>1 DEF Range
  <2>4. QED
    BY <2>1, <2>2, <2>3
<1>4. ASSUME IsInjective(s), IsInjective(t), Range(s) \cap Range(t) = {}
      PROVE  IsInjective(u)
  <2>1. SUFFICES ASSUME NEW p \in 1 .. Len(u), NEW q \in 1 .. Len(u), u[p] = u[q] PROVE p = q
    BY <1>1 DEF IsInjective
  <2>2. \A a \in 1 .. Len(s), b \in 1 .. Len(t) : s[a] # t[b]
    BY <1>1, <1>4 DEF Range
  <2>3. CASE p \in 1 .. Len(s) /\ q \in 1 .. Len(s)
    BY <2>1, <2>3, <1>1, <1>4 DEF IsInjective
  <2>4. ASSUME NEW a \in 1 .. Len(t), p = Len(s) + a, NEW b \in 1 .. Len(t), q = Len(s) + b
        PROVE  p = q
    <3>1. t[a] = t[b]
      BY <2>1, <2>4, <1>1
    <3>2. a = b
      BY <3>1, <1>1, <1>4 DEF IsInjective
    <3>3. QED
      BY <3>2, <2>4
  <2>5. ASSUME NEW a \in 1 .. Len(t), p = Len(s) + a, q \in 1 .. Len(s) PROVE FALSE
    BY <2>1, <2>2, <2>5, <1>1
  <2>6. ASSUME NEW a \in 1 .. Len(t), q = Len(s) + a, p \in 1 .. Len(s) PROVE FALSE
    BY <2>1, <2>2, <2>6, <1>1
  <2>7. QED
    BY <2>3, <2>4, <2>5, <2>6, <1>2
<1>5. QED
  BY <1>1, <1>3, <1>4 DEF u

-----------------------------------------------------------------------------
(***************************************************************************)
(* Links, requests and what is on the way.                                 *)
(***************************************************************************)
LEMMA LinkFacts ==
    ASSUME NEW l \in Links
    PROVE  /\ l[1] \in Nodes /\ l[2] \in Nodes /\ l = <<l[1], l[2]>>
           /\ l[2] \in Range(PeersOf[l[1]]) /\ l[1] # l[2]
  BY PeersAssumption DEF Links

LEMMA DeliveryFacts ==
    ASSUME NEW d \in Delivery
    PROVE  /\ d.link \in Links /\ d.events \in Seq(Numbers) /\ d.left \in Seq(Numbers)
           /\ d = [link |-> d.link, events |-> d.events, left |-> d.left]
           /\ Range(d.events) \subseteq Numbers /\ Range(d.left) \subseteq Numbers
  BY RangeFacts DEF Delivery

LEMMA PublishFacts ==
    ASSUME TypeOK, HandlersInv, NEW h \in Handlers, pc[h] # "idle"
    PROVE  /\ Target(h) \in Links
           /\ Target(h)[1] = req[h].node /\ Target(h)[2] = Head(req[h].todo)
           /\ req[h].node \in Nodes /\ req[h].write \in Numbers
           /\ req[h].write \in DOMAIN writes
           /\ req[h].todo \in Seq(Nodes) /\ req[h].todo # <<>> /\ IsInjective(req[h].todo)
           /\ Range(req[h].todo) = {Head(req[h].todo)} \cup Range(Tail(req[h].todo))
           /\ Head(req[h].todo) \notin Range(Tail(req[h].todo))
           /\ Queues(h, Target(h))
<1>1. req[h] \in Request /\ HandlerOK(h)
  BY DEF TypeOK, HandlersInv
<1>2. /\ req[h].node \in Nodes /\ req[h].write \in Numbers /\ req[h].todo \in Seq(Nodes)
      /\ req[h].todo # <<>> /\ IsInjective(req[h].todo) /\ req[h].write \in DOMAIN writes
  BY <1>1 DEF Request, HandlerOK, Of
<1>3. /\ Range(req[h].todo) = {Head(req[h].todo)} \cup Range(Tail(req[h].todo))
      /\ Head(req[h].todo) \notin Range(Tail(req[h].todo))
      /\ Head(req[h].todo) \in Nodes
  BY <1>2, TailFacts
<1>4. Target(h) \in Links
  BY <1>1, <1>2, <1>3 DEF Target, Links, HandlerOK
<1>5. QED
  BY <1>1, <1>2, <1>3, <1>4 DEF Target, Queues

\* The step to the next peer takes the target off the list, and nothing else.
LEMMA NextPeerFacts ==
    ASSUME TypeOK, HandlersInv, NEW h \in Handlers, pc[h] # "idle", NextPeer(h), writes' = writes
    PROVE  /\ pc' \in [Handlers -> {"idle", "publish", "drain", "retry"}]
           /\ req' \in [Handlers -> Request]
           /\ HandlersInv'
           /\ \A g \in Handlers : pc'[g] # "idle" =>
                 pc[g] # "idle" /\ req'[g].write = req[g].write /\ req'[g].node = req[g].node
           /\ \A g \in Handlers, l \in Links :
                 Queues(g, l)' <=> Queues(g, l) /\ ~(g = h /\ l = Target(h))
           /\ \A g \in Handlers : \A k, m : Publishing(g, k) /\ m \in Range(req[g].todo) =>
                 \/ g = h /\ m = Target(h)[2]
                 \/ Publishing(g, k)' /\ m \in Range(req'[g].todo)
           /\ \A g \in Handlers : \A k, m : Publishing(g, k)' /\ m \in Range(req'[g].todo) =>
                 Publishing(g, k) /\ m \in Range(req[g].todo)
<1> DEFINE todo == Tail(req[h].todo)
           next == IF todo = <<>> THEN NoRequest
                   ELSE [node |-> req[h].node, write |-> req[h].write, todo |-> todo]
           where == IF todo = <<>> THEN "idle" ELSE "publish"
<1>1. /\ Target(h) \in Links
      /\ Target(h)[1] = req[h].node /\ Target(h)[2] = Head(req[h].todo)
      /\ req[h].node \in Nodes /\ req[h].write \in Numbers
      /\ req[h].todo \in Seq(Nodes) /\ req[h].todo # <<>> /\ IsInjective(req[h].todo)
      /\ Range(req[h].todo) = {Head(req[h].todo)} \cup Range(Tail(req[h].todo))
      /\ Head(req[h].todo) \notin Range(Tail(req[h].todo))
  BY PublishFacts
<1>2. todo \in Seq(Nodes) /\ IsInjective(todo) /\ Range(todo) \subseteq Range(req[h].todo)
  BY <1>1, TailFacts
<1>3. next \in Request
  <2>1. NoRequest \in Request
    BY NodesAssumption, BoundsAssumption, EmptySeq DEF NoRequest, Request, Numbers
  <2>2. QED
    BY <1>1, <1>2, <2>1 DEF Request
<1>4. /\ pc' = [pc EXCEPT ![h] = where] /\ req' = [req EXCEPT ![h] = next]
      /\ pc \in [Handlers -> {"idle", "publish", "drain", "retry"}]
      /\ req \in [Handlers -> Request]
  BY DEF NextPeer, Turn, TypeOK
<1>5. /\ pc' \in [Handlers -> {"idle", "publish", "drain", "retry"}]
      /\ req' \in [Handlers -> Request]
      /\ pc'[h] = where /\ req'[h] = next
      /\ \A g \in Handlers : g # h => pc'[g] = pc[g] /\ req'[g] = req[g]
  BY <1>3, <1>4
<1>6. where # "idle" => /\ next.node = req[h].node /\ next.write = req[h].write
                        /\ next.todo = todo /\ todo # <<>>
  OBVIOUS
<1>7. where = "idle" => Range(todo) = {}
  BY EmptyFacts
<1> HIDE DEF next, where
<1>8. HandlersInv'
  <2>1. HandlerOK(h)
    BY DEF HandlersInv
  <2>2. ASSUME NEW g \in Handlers, pc'[g] # "idle" PROVE HandlerOK(g)'
    <3>1. CASE g = h
      <4>1. /\ req'[h].node = req[h].node /\ req'[h].write = req[h].write
            /\ req'[h].todo = todo /\ todo # <<>>
        BY <2>2, <3>1, <1>5, <1>6
      <4> HIDE DEF todo
      <4>2. QED
        BY <3>1, <4>1, <2>1, <1>2 DEF HandlerOK, Of
    <3>2. CASE g # h
      BY <2>2, <3>2, <1>5 DEF HandlersInv, HandlerOK, Of
    <3>3. QED
      BY <3>1, <3>2
  <2>3. ASSUME NEW f \in Handlers, NEW g \in Handlers, pc'[f] # "idle", pc'[g] # "idle",
               req'[f].write = req'[g].write
        PROVE  f = g
    BY <2>3, <1>5, <1>6 DEF HandlersInv
  <2>4. QED
    BY <2>2, <2>3 DEF HandlersInv
<1>9. ASSUME NEW g \in Handlers, NEW l \in Links
      PROVE  Queues(g, l)' <=> Queues(g, l) /\ ~(g = h /\ l = Target(h))
  <2>1. CASE g # h
    BY <2>1, <1>5 DEF Queues
  <2>2. CASE g = h
    <3>1. l = <<l[1], l[2]>> /\ Target(h) = <<req[h].node, Head(req[h].todo)>>
      BY LinkFacts DEF Target
    <3>2. Queues(h, l)' <=> req[h].node = l[1] /\ l[2] \in Range(todo)
      <4>1. CASE where = "idle"
        BY <4>1, <1>5, <1>7 DEF Queues
      <4>2. CASE where # "idle"
        BY <4>2, <1>5, <1>6 DEF Queues
      <4>3. QED
        BY <4>1, <4>2
    <3>3. QED
      BY <2>2, <3>1, <3>2, <1>1 DEF Queues
  <2>3. QED
    BY <2>1, <2>2
<1>10. ASSUME NEW g \in Handlers, NEW k, NEW m
       PROVE  /\ Publishing(g, k) /\ m \in Range(req[g].todo) =>
                    \/ g = h /\ m = Target(h)[2]
                    \/ Publishing(g, k)' /\ m \in Range(req'[g].todo)
              /\ Publishing(g, k)' /\ m \in Range(req'[g].todo) =>
                    Publishing(g, k) /\ m \in Range(req[g].todo)
  <2>1. CASE g # h
    BY <2>1, <1>5 DEF Publishing
  <2>2. CASE g = h /\ where = "idle"
    BY <2>2, <1>1, <1>5, <1>7 DEF Publishing
  <2>3. CASE g = h /\ where # "idle"
    BY <2>3, <1>1, <1>5, <1>6 DEF Publishing
  <2>4. QED
    BY <2>1, <2>2, <2>3
<1>11. QED
  BY <1>5, <1>6, <1>8, <1>9, <1>10

-----------------------------------------------------------------------------
(***************************************************************************)
(* What holds of the items when nothing is written to them.                *)
(***************************************************************************)
LEMMA MovesAlone ==
    ASSUME AloneInv, writes' = writes, contested \subseteq contested',
           \A h \in Handlers : pc'[h] # "idle" =>
               pc[h] # "idle" /\ req'[h].write = req[h].write,
           \A k \in DOMAIN writes, m \in Nodes : OnTheWay(k, m)' => OnTheWay(k, m)
    PROVE  AloneInv'
<1>1. \A i, k : (k \in WritesTo(i))' <=> k \in WritesTo(i)
  BY DEF WritesTo, Item
<1>2. \A i, k : IsLast(i, k)' <=> IsLast(i, k)
  BY <1>1 DEF IsLast
<1>3. ASSUME NEW i \in Items \ contested', NEW h \in Handlers, pc'[h] # "idle",
             Item(req[h].write)' = i
      PROVE  IsLast(i, req[h].write)'
  <2>1. pc[h] # "idle" /\ req'[h].write = req[h].write /\ Item(req[h].write) = i
    BY <1>3 DEF Item
  <2>2. IsLast(i, req[h].write)
    BY <2>1 DEF AloneInv
  <2>3. QED
    BY <1>1, <2>1, <2>2 DEF IsLast
<1>4. ASSUME NEW i \in Items \ contested', NEW k \in WritesTo(i), IsLast(i, k),
             NEW j \in WritesTo(i), NEW m \in Nodes, OnTheWay(j, m)'
      PROVE  writes[j].node = writes[k].node
  BY <1>4 DEF AloneInv, WritesTo
<1>5. QED
  BY <1>1, <1>2, <1>3, <1>4 DEF AloneInv

LEMMA MovesReach ==
    ASSUME TypeOK, HandlersInv, AloneInv, ReachInv,
           writes' = writes, row' = row, contested' = contested, dropped \subseteq dropped',
           \A l \in Links : \A j \in InLine(l)' :
               j \in InLine(l) \/ \E h \in Handlers : Publishing(h, j),
           \A k \in DOMAIN writes, m \in Nodes :
               OnTheWay(k, m) => OnTheWay(k, m)' \/ <<k, m>> \in dropped'
    PROVE  ReachInv'
<1>1. \A i, k : (k \in WritesTo(i))' <=> k \in WritesTo(i)
  BY DEF WritesTo, Item
<1>2. \A i, k : IsLast(i, k)' <=> IsLast(i, k)
  BY <1>1 DEF IsLast
<1>3. SUFFICES ASSUME NEW i \in Items \ contested, NEW k \in WritesTo(i), IsLast(i, k),
                      NEW n, n = writes[k].node, NEW m \in Range(PeersOf[n])
               PROVE  OnTheWay(k, m)' \/ <<k, m>> \in dropped'
                         \/ Settled(i, k, <<n, m>>)'
  BY <1>1, <1>2 DEF ReachInv
<1>4. k \in DOMAIN writes /\ n \in Nodes /\ m \in Nodes
      /\ <<n, m>> \in Links
  <2>1. k \in DOMAIN writes
    BY DEF WritesTo
  <2>2. writes[k] \in Change
    BY <2>1 DEF TypeOK
  <2>3. n \in Nodes
    BY <1>3, <2>2 DEF Change
  <2>4. PeersOf[n] \in Seq(Nodes)
    BY <2>3, PeersAssumption
  <2>5. m \in Nodes
    BY <2>4, RangeFacts
  <2>6. QED
    BY <2>1, <2>3, <2>5 DEF Links
<1>5. CASE OnTheWay(k, m) \/ <<k, m>> \in dropped
  BY <1>4, <1>5
<1>6. CASE Settled(i, k, <<n, m>>)
  <2> DEFINE l == <<n, m>>
  <2>1. row[l[2]][i] = k /\ \A j \in WritesTo(i) \cap InLine(l) : k <= j
    BY <1>6 DEF Settled
  <2>2. ASSUME NEW j \in WritesTo(i), j \in InLine(l)' PROVE k <= j
    <3>1. CASE j \in InLine(l)
      BY <3>1, <2>1
    <3>2. CASE \E h \in Handlers : Publishing(h, j)
      BY <3>2, <2>2, <1>3 DEF AloneInv, Publishing, WritesTo, IsLast
    <3>3. QED
      BY <3>1, <3>2, <2>2, <1>4
  <2> HIDE DEF l
  <2>3. row'[l[2]][i] = k /\ \A j \in WritesTo(i)' \cap InLine(l)' : k <= j
    BY <2>1, <2>2, <1>1
  <2>4. Settled(i, k, l)'
    BY <2>3 DEF Settled
  <2>5. QED
    BY <2>4 DEF l
<1>7. QED
  BY <1>3, <1>5, <1>6 DEF ReachInv

-----------------------------------------------------------------------------
(***************************************************************************)
(* Steps that only lose events: PushDone, PushFails, Abort and Restart.    *)
(***************************************************************************)
LEMMA LossKeeps ==
    ASSUME TypeOK, HandlersInv, CarriesInv, OnceInv, OrderInv,
           writes' = writes, contested' = contested,
           \A h \in Handlers : pc'[h] # "idle" => pc[h] # "idle" /\ req'[h] = req[h],
           \A l \in Links : /\ queue'[l] = queue[l] \/ queue'[l] = <<>>
                            /\ batch'[l] = batch[l] \/ batch'[l] = <<>>
                            /\ sending'[l] = sending[l] \/ sending'[l] = <<>>
                            /\ snap'[l] = snap[l] \/ snap'[l] = {},
           flight' \subseteq flight
    PROVE  /\ HandlersInv' /\ CarriesInv' /\ OnceInv' /\ OrderInv'
           /\ \A l \in Links : InLine(l)' \subseteq InLine(l)
           /\ \A k \in DOMAIN writes, m \in Nodes : OnTheWay(k, m)' => OnTheWay(k, m)
<1>1. \A n : Of(n)' = Of(n)
  BY DEF Of
<1>2. HandlersInv'
  BY <1>1 DEF HandlersInv, HandlerOK
<1>3. /\ Range(<<>>) = {} /\ IsInjective(<<>>)
      /\ \A W : Sorted(W, <<>>)
  BY EmptyFacts
<1>4. \A l \in Links : /\ Range(queue'[l]) \subseteq Range(queue[l])
                       /\ Range(batch'[l]) \subseteq Range(batch[l])
                       /\ IsInjective(queue[l]) => IsInjective(queue'[l])
                       /\ IsInjective(batch[l]) => IsInjective(batch'[l])
                       /\ Waiting(l)' \subseteq Waiting(l)
                       /\ snap'[l] \subseteq snap[l]
  BY <1>3 DEF Waiting
<1>5. \A d \in flight : d \in Delivery /\ d.link \in Links /\ d.events # <<>>
  BY DeliveryFacts DEF TypeOK, CarriesInv, PostOK
<1>6. CarriesInv'
  <2>1. \A l \in Links : Range(queue'[l]) \cup Range(batch'[l]) \subseteq Of(l[1])
    BY <1>4 DEF CarriesInv
  <2>2. \A d \in flight' : PostOK(d)'
    BY <1>1 DEF CarriesInv, PostOK
  <2>3. \A l \in Links : snap'[l] \subseteq DOMAIN writes
    BY <1>4 DEF CarriesInv
  <2>4. QED
    BY <1>1, <2>1, <2>2, <2>3 DEF CarriesInv
<1>7. \A h \in Handlers, l \in Links :
          Queues(h, l)' => Queues(h, l) /\ req'[h].write = req[h].write
  BY DEF Queues
<1>8. OnceInv'
  <2>1. \A l \in Links : /\ IsInjective(queue'[l]) /\ IsInjective(batch'[l])
                         /\ Range(queue'[l]) \cap Range(batch'[l]) = {}
    BY <1>4 DEF OnceInv
  <2>2. \A h \in Handlers, l \in Links : Queues(h, l)' => req'[h].write \notin Waiting(l)'
    BY <1>4, <1>7 DEF OnceInv
  <2>3. \A d \in flight' : Range(d.events) \cap Waiting(d.link)' = {}
    BY <1>4, <1>5 DEF OnceInv
  <2>4. \A h \in Handlers, d \in flight' : Queues(h, d.link)' => req'[h].write \notin Range(d.events)
    BY <1>5, <1>7 DEF OnceInv
  <2>5. \A d, e \in flight' : d.link = e.link /\ d # e => Range(d.events) \cap Range(e.events) = {}
    BY DEF OnceInv
  <2>6. QED
    BY <2>1, <2>2, <2>3, <2>4, <2>5 DEF OnceInv
<1>9. \A d \in flight : Awaited(d)' =>
          Awaited(d) /\ \A e \in flight : e.link = d.link /\ ~Awaited(e)' => ~Awaited(e)
  BY <1>5 DEF Awaited
<1>10. OrderInv'
  <2>1. ASSUME NEW i \in Items \ contested PROVE WritesTo(i)' = WritesTo(i)
    BY DEF WritesTo, Item
  <2>2. ASSUME NEW i \in Items \ contested, NEW l \in Links PROVE LineSorted(WritesTo(i), l)'
    BY <2>1, <1>3, <1>4 DEF OrderInv, LineSorted, Before
  <2>3. ASSUME NEW i \in Items \ contested, NEW d \in flight' PROVE PostSorted(WritesTo(i), d)'
    BY <2>1, <1>4, <1>5 DEF OrderInv, PostSorted, Before
  <2>4. ASSUME NEW i \in Items \ contested, NEW d \in flight', NEW e \in flight'
        PROVE  PostsSorted(WritesTo(i), d, e)'
    <3>1. PostsSorted(WritesTo(i), d, e)
      BY DEF OrderInv
    <3>2. d \in flight /\ e \in flight
      OBVIOUS
    <3>3. QED
      BY <2>1, <3>1, <3>2, <1>9 DEF PostsSorted
  <2>5. QED
    BY <2>2, <2>3, <2>4 DEF OrderInv
<1>11. \A l \in Links : InLine(l)' \subseteq InLine(l)
  BY <1>4, <1>9 DEF InLine
<1>12. ASSUME NEW k \in DOMAIN writes, NEW m \in Nodes, OnTheWay(k, m)' PROVE OnTheWay(k, m)
  <2>1. CASE \E h \in Handlers : Publishing(h, k)' /\ m \in Range(req'[h].todo)
    BY <2>1 DEF Publishing, OnTheWay
  <2>2. CASE \E l \in Links : l[2] = m /\ k \in Range(queue'[l]) \cup Range(batch'[l])
    BY <2>2, <1>4 DEF OnTheWay
  <2>3. CASE \E d \in flight' : d.link[2] = m /\ k \in Range(d.left)
    BY <2>3 DEF OnTheWay
  <2>4. QED
    BY <1>12, <2>1, <2>2, <2>3 DEF OnTheWay
<1>13. QED
  BY <1>2, <1>6, <1>8, <1>10, <1>11, <1>12

LEMMA StepPushFails ==
    ASSUME IInv, NEW l \in Links, PushFails(l)
    PROVE  IInv'
<1>1. /\ sending' = [sending EXCEPT ![l] = <<>>]
      /\ UNCHANGED <<writes, row, pc, req, queue, batch, flight, snap, syncs, dropped, contested>>
  BY DEF PushFails, history
<1>2. TypeOK'
  BY <1>1, EmptySeq DEF IInv, TypeOK
<1>3. \A x \in Links : sending'[x] = sending[x] \/ sending'[x] = <<>>
  BY <1>1 DEF IInv, TypeOK
<1>4. /\ HandlersInv' /\ CarriesInv' /\ OnceInv' /\ OrderInv'
      /\ \A x \in Links : InLine(x)' \subseteq InLine(x)
      /\ \A k \in DOMAIN writes, m \in Nodes : OnTheWay(k, m)' => OnTheWay(k, m)
  BY <1>1, <1>3, LossKeeps DEF IInv
<1>5. \A k \in DOMAIN writes, m \in Nodes : OnTheWay(k, m) => OnTheWay(k, m)'
  BY <1>1 DEF OnTheWay, Publishing
<1>6. AloneInv'
  BY <1>1, <1>4, MovesAlone DEF IInv
<1>7. ReachInv'
  BY <1>1, <1>4, <1>5, MovesReach DEF IInv
<1>8. QED
  BY <1>2, <1>4, <1>6, <1>7 DEF IInv

LEMMA StepPushDone ==
    ASSUME IInv, NEW l \in Links, PushDone(l)
    PROVE  IInv'
<1>1. PICK d \in flight : d.link = l /\ Awaited(d) /\ d.left = <<>> /\ flight' = flight \ {d}
  BY DEF PushDone
<1>2. /\ sending' = [sending EXCEPT ![l] = <<>>]
      /\ UNCHANGED <<writes, row, pc, req, queue, batch, snap, syncs, dropped, contested>>
  BY DEF PushDone, history
<1>3. TypeOK'
  BY <1>1, <1>2, EmptySeq DEF IInv, TypeOK
<1>4. \A x \in Links : sending'[x] = sending[x] \/ sending'[x] = <<>>
  BY <1>2 DEF IInv, TypeOK
<1>5. /\ HandlersInv' /\ CarriesInv' /\ OnceInv' /\ OrderInv'
      /\ \A x \in Links : InLine(x)' \subseteq InLine(x)
      /\ \A k \in DOMAIN writes, m \in Nodes : OnTheWay(k, m)' => OnTheWay(k, m)
  BY <1>1, <1>2, <1>4, LossKeeps DEF IInv
<1>6. \A k \in DOMAIN writes, m \in Nodes : OnTheWay(k, m) => OnTheWay(k, m)'
  BY <1>1, <1>2, EmptyFacts DEF OnTheWay, Publishing
<1>7. AloneInv'
  BY <1>2, <1>5, MovesAlone DEF IInv
<1>8. ReachInv'
  BY <1>2, <1>5, <1>6, MovesReach DEF IInv
<1>9. QED
  BY <1>3, <1>5, <1>7, <1>8 DEF IInv

LEMMA StepAbort ==
    ASSUME IInv, NEW d \in flight, Abort(d)
    PROVE  IInv'
<1>1. /\ flight' = flight \ {d} /\ dropped' = dropped \cup Range(d.left) \X {d.link[2]}
      /\ UNCHANGED <<writes, row, pc, req, queue, batch, sending, snap, syncs, contested>>
  BY DEF Abort, Lost
<1>2. d \in Delivery /\ d.link[2] \in Nodes /\ Range(d.left) \subseteq Numbers
  BY DeliveryFacts, LinkFacts DEF IInv, TypeOK
<1>3. TypeOK'
  BY <1>1, <1>2 DEF IInv, TypeOK
<1>4. /\ HandlersInv' /\ CarriesInv' /\ OnceInv' /\ OrderInv'
      /\ \A x \in Links : InLine(x)' \subseteq InLine(x)
      /\ \A k \in DOMAIN writes, m \in Nodes : OnTheWay(k, m)' => OnTheWay(k, m)
  BY <1>1, LossKeeps DEF IInv
<1>5. \A k \in DOMAIN writes, m \in Nodes :
          OnTheWay(k, m) => OnTheWay(k, m)' \/ <<k, m>> \in dropped'
  BY <1>1 DEF OnTheWay, Publishing
<1>6. AloneInv'
  BY <1>1, <1>4, MovesAlone DEF IInv
<1>7. ReachInv'
  BY <1>1, <1>4, <1>5, MovesReach DEF IInv
<1>8. QED
  BY <1>3, <1>4, <1>6, <1>7 DEF IInv

LEMMA StepRestart ==
    ASSUME IInv, NEW n \in Nodes, Restart(n)
    PROVE  IInv'
<1> DEFINE down    == {h \in Handlers : pc[h] # "idle" /\ req[h].node = n}
           mine    == {l \in Links : l[1] = n}
           inbound == {d \in flight : d.link[2] = n}
           Unsent  == UNION {{req[h].write} \X Range(req[h].todo) : h \in down}
           Unmade  == UNION {Range(queue[l] \o batch[l]) \X {l[2]} : l \in mine}
           Undone  == UNION {Range(d.left) \X {n} : d \in inbound}
<1>1. /\ pc'  = [h \in Handlers |-> IF h \in down THEN "idle" ELSE pc[h]]
      /\ req' = [h \in Handlers |-> IF h \in down THEN NoRequest ELSE req[h]]
      /\ queue'   = [l \in Links |-> IF l[1] = n THEN <<>> ELSE queue[l]]
      /\ batch'   = [l \in Links |-> IF l[1] = n THEN <<>> ELSE batch[l]]
      /\ sending' = [l \in Links |-> IF l[1] = n THEN <<>> ELSE sending[l]]
      /\ snap'    = [l \in Links |-> IF l[1] = n THEN {} ELSE snap[l]]
      /\ flight'  = flight \ inbound
      /\ UNCHANGED <<writes, row, syncs, contested>>
  BY DEF Restart
<1>2. dropped' = dropped \cup Unsent \cup Unmade \cup Undone
  BY DEF Restart, Lost
<1>3. \A l \in Links : /\ queue[l] \in Seq(Numbers) /\ batch[l] \in Seq(Numbers)
                       /\ Range(queue[l] \o batch[l]) = Waiting(l)
                       /\ Waiting(l) \subseteq Numbers /\ l[2] \in Nodes
  BY ConcatFacts, RangeFacts, LinkFacts DEF IInv, TypeOK, Waiting
<1>4. dropped' \subseteq Numbers \X Nodes
  <2>1. ASSUME NEW h \in down PROVE {req[h].write} \X Range(req[h].todo) \subseteq Numbers \X Nodes
    <3>1. req[h].write \in Numbers /\ req[h].todo \in Seq(Nodes)
      BY DEF IInv, TypeOK, Request
    <3>2. QED
      BY <3>1, RangeFacts
  <2>2. ASSUME NEW l \in mine PROVE Range(queue[l] \o batch[l]) \X {l[2]} \subseteq Numbers \X Nodes
    BY <1>3
  <2>3. ASSUME NEW d \in inbound PROVE Range(d.left) \X {n} \subseteq Numbers \X Nodes
    BY DeliveryFacts DEF IInv, TypeOK
  <2>4. dropped \subseteq Numbers \X Nodes
    BY DEF IInv, TypeOK
  <2>5. Unsent \subseteq Numbers \X Nodes
    BY <2>1
  <2>6. Unmade \subseteq Numbers \X Nodes
    BY <2>2
  <2>7. Undone \subseteq Numbers \X Nodes
    BY <2>3
  <2> HIDE DEF Unsent, Unmade, Undone
  <2>8. QED
    BY <1>2, <2>4, <2>5, <2>6, <2>7
<1>5. TypeOK'
  <2>1. NoRequest \in Request
    BY NodesAssumption, BoundsAssumption, EmptySeq DEF NoRequest, Request, Numbers
  <2>2. <<>> \in Seq(Numbers)
    BY EmptySeq
  <2>3. QED
    BY <1>1, <1>4, <2>1, <2>2 DEF IInv, TypeOK
<1>6. /\ \A h \in Handlers : pc'[h] # "idle" => pc[h] # "idle" /\ req'[h] = req[h]
      /\ \A x \in Links : /\ queue'[x] = queue[x] \/ queue'[x] = <<>>
                          /\ batch'[x] = batch[x] \/ batch'[x] = <<>>
                          /\ sending'[x] = sending[x] \/ sending'[x] = <<>>
                          /\ snap'[x] = snap[x] \/ snap'[x] = {}
  BY <1>1
<1>7. /\ HandlersInv' /\ CarriesInv' /\ OnceInv' /\ OrderInv'
      /\ \A x \in Links : InLine(x)' \subseteq InLine(x)
      /\ \A k \in DOMAIN writes, m \in Nodes : OnTheWay(k, m)' => OnTheWay(k, m)
  BY <1>1, <1>6, LossKeeps DEF IInv
<1>8. ASSUME NEW k \in DOMAIN writes, NEW m \in Nodes, OnTheWay(k, m)
      PROVE  OnTheWay(k, m)' \/ <<k, m>> \in dropped'
  <2>1. ASSUME NEW h \in Handlers, Publishing(h, k), m \in Range(req[h].todo)
        PROVE  OnTheWay(k, m)' \/ <<k, m>> \in dropped'
    <3>1. CASE h \in down
      <4>1. <<k, m>> \in {req[h].write} \X Range(req[h].todo)
        BY <2>1 DEF Publishing
      <4>2. <<k, m>> \in Unsent
        BY <3>1, <4>1
      <4> HIDE DEF Unsent, Unmade, Undone
      <4>3. QED
        BY <1>2, <4>2
    <3>2. CASE h \notin down
      BY <2>1, <3>2, <1>1 DEF OnTheWay, Publishing
    <3>3. QED
      BY <3>1, <3>2
  <2>2. ASSUME NEW l \in Links, l[2] = m, k \in Waiting(l)
        PROVE  OnTheWay(k, m)' \/ <<k, m>> \in dropped'
    <3>1. CASE l \in mine
      <4>1. <<k, m>> \in Range(queue[l] \o batch[l]) \X {l[2]}
        BY <2>2, <1>3
      <4>2. <<k, m>> \in Unmade
        BY <3>1, <4>1
      <4> HIDE DEF Unsent, Unmade, Undone
      <4>3. QED
        BY <1>2, <4>2
    <3>2. CASE l \notin mine
      BY <2>2, <3>2, <1>1 DEF OnTheWay, Waiting
    <3>3. QED
      BY <3>1, <3>2
  <2>3. ASSUME NEW d \in flight, d.link[2] = m, k \in Range(d.left)
        PROVE  OnTheWay(k, m)' \/ <<k, m>> \in dropped'
    <3>1. CASE d \in inbound
      <4>1. <<k, m>> \in Range(d.left) \X {n}
        BY <2>3, <3>1
      <4>2. <<k, m>> \in Undone
        BY <3>1, <4>1
      <4> HIDE DEF Unsent, Unmade, Undone
      <4>3. QED
        BY <1>2, <4>2
    <3>2. CASE d \notin inbound
      BY <2>3, <3>2, <1>1 DEF OnTheWay
    <3>3. QED
      BY <3>1, <3>2
  <2>4. QED
    BY <1>8, <2>1, <2>2, <2>3 DEF OnTheWay, Waiting
<1>9. AloneInv'
  BY <1>1, <1>6, <1>7, MovesAlone DEF IInv
<1>10. dropped \subseteq dropped'
  BY <1>2
<1>11. ReachInv'
  BY <1>1, <1>7, <1>8, <1>10, MovesReach DEF IInv
<1>12. QED
  BY <1>5, <1>7, <1>9, <1>11 DEF IInv

LEMMA StepFetch ==
    ASSUME IInv, NEW l \in Links, Fetch(l)
    PROVE  IInv'
<1>1. /\ snap' = [snap EXCEPT ![l] = BuildSnapshot(l[2])] /\ syncs' = syncs + 1 /\ syncs < MaxSyncs
      /\ UNCHANGED <<writes, row, pc, req, queue, batch, sending, flight, dropped, contested>>
  BY DEF Fetch, history
<1>2. BuildSnapshot(l[2]) \subseteq DOMAIN writes /\ DOMAIN writes \subseteq Numbers
  BY BoundsAssumption DEF IInv, TypeOK, BuildSnapshot, Numbers
<1>3. TypeOK'
  BY <1>1, <1>2, BoundsAssumption DEF IInv, TypeOK
<1>4. HandlersInv'
  BY <1>1 DEF IInv, HandlersInv, HandlerOK, Of
<1>5. CarriesInv'
  <2>1. \A x \in Links : snap'[x] \subseteq DOMAIN writes
    BY <1>1, <1>2 DEF IInv, CarriesInv, TypeOK
  <2>2. \A n : Of(n)' = Of(n)
    BY <1>1 DEF Of
  <2>3. QED
    BY <1>1, <2>1, <2>2 DEF IInv, CarriesInv, PostOK
<1>6. OnceInv'
  BY <1>1 DEF IInv, OnceInv, Queues, Waiting
<1>7. OrderInv'
  <2>1. \A i : WritesTo(i)' = WritesTo(i)
    BY <1>1 DEF WritesTo, Item
  <2>2. QED
    BY <1>1, <2>1 DEF IInv, OrderInv, LineSorted, PostSorted, PostsSorted, Awaited, Waiting
<1>8. \A k \in DOMAIN writes, m \in Nodes : OnTheWay(k, m)' <=> OnTheWay(k, m)
  BY <1>1 DEF OnTheWay, Publishing
<1>9. \A x \in Links : InLine(x)' \subseteq InLine(x)
  BY <1>1 DEF InLine, Waiting, Awaited
<1>10. AloneInv'
  BY <1>1, <1>8, MovesAlone DEF IInv
<1>11. ReachInv'
  BY <1>1, <1>8, <1>9, MovesReach DEF IInv
<1>12. QED
  BY <1>3, <1>4, <1>5, <1>6, <1>7, <1>10, <1>11 DEF IInv

-----------------------------------------------------------------------------
(***************************************************************************)
(* A peer goes on to the next event of a post: Apply and ApplyFails.       *)
(***************************************************************************)
LEMMA AdvanceKeeps ==
    ASSUME TypeOK, HandlersInv, CarriesInv, OnceInv, OrderInv,
           NEW d \in flight, d.left # <<>>, Advance(d), contested \subseteq contested',
           UNCHANGED <<writes, pc, req, queue, batch, sending, snap>>
    PROVE  /\ flight' \subseteq Delivery
           /\ HandlersInv' /\ CarriesInv' /\ OnceInv' /\ OrderInv'
           /\ \A l \in Links : InLine(l)' \subseteq InLine(l)
           /\ \A k \in DOMAIN writes, m \in Nodes : OnTheWay(k, m)' => OnTheWay(k, m)
           /\ \A k \in DOMAIN writes, m \in Nodes :
                 OnTheWay(k, m) => OnTheWay(k, m)' \/ (k = Head(d.left) /\ m = d.link[2])
<1> DEFINE next == [link |-> d.link, events |-> d.events, left |-> Tail(d.left)]
<1>1. /\ flight' = (flight \ {d}) \cup {next}
      /\ next.link = d.link /\ next.events = d.events /\ next.left = Tail(d.left)
  BY DEF Advance
<1>2. \A e \in flight : e \in Delivery /\ e.link \in Links /\ e.left \in Seq(Numbers)
  BY DeliveryFacts DEF TypeOK
<1>3. /\ Tail(d.left) \in Seq(Numbers)
      /\ Range(d.left) = {Head(d.left)} \cup Range(Tail(d.left))
  BY <1>2, TailFacts
<1>4. next \in Delivery
  BY <1>2, <1>3, DeliveryFacts DEF Delivery
<1> HIDE DEF next
<1>5. /\ \A n : Of(n)' = Of(n)
      /\ \A l : Waiting(l)' = Waiting(l)
      /\ \A h, l : Queues(h, l)' <=> Queues(h, l)
      /\ \A i : WritesTo(i)' = WritesTo(i)
      /\ \A e : Awaited(e)' <=> Awaited(e)
  BY DEF Of, Waiting, Queues, WritesTo, Item, Awaited
<1>6. Awaited(next) <=> Awaited(d)
  BY <1>1 DEF Awaited
<1>7. HandlersInv'
  BY <1>5 DEF HandlersInv, HandlerOK
<1>8. CarriesInv'
  <2>1. \A e \in flight : PostOK(e)
    BY DEF CarriesInv
  <2>2. PostOK(next)
    BY <1>1, <1>3, <2>1 DEF PostOK
  <2>3. \A e \in flight' : PostOK(e)'
    BY <1>1, <1>5, <2>1, <2>2 DEF PostOK
  <2>4. QED
    BY <1>5, <2>3 DEF CarriesInv
<1>9. OnceInv'
  <2>1. \A e \in flight' : Range(e.events) \cap Waiting(e.link) = {}
    BY <1>1 DEF OnceInv
  <2>2. \A h \in Handlers, e \in flight' : Queues(h, e.link) => req[h].write \notin Range(e.events)
    BY <1>1 DEF OnceInv
  <2>3. \A e, f \in flight' : e.link = f.link /\ e # f => Range(e.events) \cap Range(f.events) = {}
    <3>1. \A e \in flight : e.link = d.link /\ e # d => Range(e.events) \cap Range(d.events) = {}
      BY DEF OnceInv
    <3>2. ASSUME NEW e \in flight, NEW f \in flight, e.link = f.link, e # f
          PROVE  Range(e.events) \cap Range(f.events) = {}
      BY <3>2 DEF OnceInv
    <3>3. QED
      BY <1>1, <3>1, <3>2
  <2>4. QED
    BY <1>5, <2>1, <2>2, <2>3 DEF OnceInv
<1>10. OrderInv'
  <2>1. ASSUME NEW i \in Items \ contested', NEW l \in Links PROVE LineSorted(WritesTo(i), l)'
    BY <1>5 DEF OrderInv, LineSorted
  <2>2. ASSUME NEW i \in Items \ contested', NEW e \in flight' PROVE PostSorted(WritesTo(i), e)'
    <3>1. \A f \in flight : PostSorted(WritesTo(i), f)
      BY DEF OrderInv
    <3>2. PostSorted(WritesTo(i), next)
      <4>1. Sorted(WritesTo(i), Tail(d.left))
        BY <3>1, <1>2, TailSorted DEF PostSorted
      <4>2. QED
        BY <4>1, <3>1, <1>1, <1>3 DEF PostSorted, Before
    <3>3. QED
      BY <3>1, <3>2, <1>1, <1>5 DEF PostSorted
  <2>3. ASSUME NEW i \in Items \ contested', NEW e \in flight', NEW f \in flight'
        PROVE  PostsSorted(WritesTo(i), e, f)'
    <3>1. \A x, y \in flight : PostsSorted(WritesTo(i), x, y)
      BY DEF OrderInv
    <3>2. \A y \in flight : PostsSorted(WritesTo(i), next, y) /\ PostsSorted(WritesTo(i), y, next)
      BY <3>1, <1>1, <1>3, <1>6 DEF PostsSorted, Before
    <3>3. PostsSorted(WritesTo(i), next, next)
      BY DEF PostsSorted
    <3>4. QED
      BY <3>1, <3>2, <3>3, <1>1, <1>5 DEF PostsSorted
  <2>4. QED
    BY <2>1, <2>2, <2>3 DEF OrderInv
<1>11. \A l \in Links : InLine(l)' \subseteq InLine(l)
  BY <1>1, <1>3, <1>5, <1>6 DEF InLine
<1>12. ASSUME NEW k \in DOMAIN writes, NEW m \in Nodes
       PROVE  /\ OnTheWay(k, m)' => OnTheWay(k, m)
              /\ OnTheWay(k, m) => OnTheWay(k, m)' \/ (k = Head(d.left) /\ m = d.link[2])
  <2>1. (\E h \in Handlers : Publishing(h, k) /\ m \in Range(req[h].todo))'
            <=> \E h \in Handlers : Publishing(h, k) /\ m \in Range(req[h].todo)
    BY DEF Publishing
  <2>2. (\E l \in Links : l[2] = m /\ k \in Range(queue[l]) \cup Range(batch[l]))'
            <=> \E l \in Links : l[2] = m /\ k \in Range(queue[l]) \cup Range(batch[l])
    OBVIOUS
  <2>3. (\E e \in flight' : e.link[2] = m /\ k \in Range(e.left))
            => \E e \in flight : e.link[2] = m /\ k \in Range(e.left)
    BY <1>1, <1>3
  <2>4. ASSUME NEW e \in flight, e.link[2] = m, k \in Range(e.left),
               ~(k = Head(d.left) /\ m = d.link[2])
        PROVE  \E f \in flight' : f.link[2] = m /\ k \in Range(f.left)
    <3>1. CASE e = d
      BY <2>4, <3>1, <1>1, <1>3
    <3>2. CASE e # d
      BY <2>4, <3>2, <1>1
    <3>3. QED
      BY <3>1, <3>2
  <2>5. QED
    BY <2>1, <2>2, <2>3, <2>4 DEF OnTheWay
<1>13. QED
  BY <1>1, <1>4, <1>7, <1>8, <1>9, <1>10, <1>11, <1>12 DEF TypeOK

LEMMA StepApplyFails ==
    ASSUME IInv, NEW d \in flight, ApplyFails(d)
    PROVE  IInv'
<1>1. /\ d.left # <<>> /\ Advance(d) /\ dropped' = dropped \cup {<<Head(d.left), d.link[2]>>}
      /\ UNCHANGED <<writes, row, pc, req, queue, batch, sending, snap, syncs, contested>>
  BY DEF ApplyFails
<1>2. /\ flight' \subseteq Delivery
      /\ HandlersInv' /\ CarriesInv' /\ OnceInv' /\ OrderInv'
      /\ \A l \in Links : InLine(l)' \subseteq InLine(l)
      /\ \A k \in DOMAIN writes, m \in Nodes : OnTheWay(k, m)' => OnTheWay(k, m)
      /\ \A k \in DOMAIN writes, m \in Nodes :
            OnTheWay(k, m) => OnTheWay(k, m)' \/ (k = Head(d.left) /\ m = d.link[2])
  BY <1>1, AdvanceKeeps DEF IInv
<1>3. Head(d.left) \in Numbers /\ d.link[2] \in Nodes
  BY <1>1, DeliveryFacts, TailFacts, LinkFacts DEF IInv, TypeOK
<1>4. TypeOK'
  BY <1>1, <1>2, <1>3 DEF IInv, TypeOK
<1>5. AloneInv'
  BY <1>1, <1>2, MovesAlone DEF IInv
<1>6. ReachInv'
  BY <1>1, <1>2, MovesReach DEF IInv
<1>7. QED
  BY <1>2, <1>4, <1>5, <1>6 DEF IInv

\* An event that replaces the last write to its item at a peer was no longer awaited,
\* and contests the item.
LEMMA StepApply ==
    ASSUME IInv, NEW d \in flight, Apply(d)
    PROVE  IInv'
<1> DEFINE m == d.link[2]
           j == Head(d.left)
<1>1. /\ d.left # <<>> /\ Advance(d) /\ row' = Set(m, Item(j), j)
      /\ contested' = contested \cup
             (IF ~Awaited(d) /\ j < row[m][Item(j)] THEN {Item(j)} ELSE {})
      /\ UNCHANGED <<writes, pc, req, queue, batch, sending, snap, syncs, dropped>>
  BY DEF Apply
<1>2. contested \subseteq contested'
  BY <1>1
<1>3. /\ flight' \subseteq Delivery
      /\ HandlersInv' /\ CarriesInv' /\ OnceInv' /\ OrderInv'
      /\ \A l \in Links : InLine(l)' \subseteq InLine(l)
      /\ \A k \in DOMAIN writes, n \in Nodes : OnTheWay(k, n)' => OnTheWay(k, n)
      /\ \A k \in DOMAIN writes, n \in Nodes :
            OnTheWay(k, n) => OnTheWay(k, n)' \/ (k = j /\ n = m)
  BY <1>1, <1>2, AdvanceKeeps DEF IInv
<1>4. /\ d.link \in Links /\ m \in Nodes /\ d.link[1] \in Nodes /\ d.link[1] # m
      /\ j \in Numbers /\ j \in Range(d.left) /\ d.link = <<d.link[1], m>>
      /\ Range(d.left) = {j} \cup Range(Tail(d.left))
  BY <1>1, DeliveryFacts, TailFacts, LinkFacts DEF IInv, TypeOK
<1>5. j \in DOMAIN writes /\ writes[j].node = d.link[1] /\ Item(j) \in Items
  <2>1. j \in Of(d.link[1])
    BY <1>4 DEF IInv, CarriesInv, PostOK
  <2>2. j \in DOMAIN writes /\ writes[j] \in Change
    BY <2>1 DEF Of, IInv, TypeOK
  <2>3. QED
    BY <2>1, <2>2 DEF Of, Item, Change
<1> HIDE DEF m, j
<1>6. /\ row' \in [Nodes -> [Items -> Numbers]]
      /\ row'[m][Item(j)] = j
      /\ \A n \in Nodes, i \in Items : n # m \/ i # Item(j) => row'[n][i] = row[n][i]
  BY <1>1, <1>4, <1>5 DEF IInv, TypeOK, Set
<1>7. TypeOK'
  BY <1>1, <1>3, <1>5, <1>6 DEF IInv, TypeOK
<1>8. AloneInv'
  BY <1>1, <1>2, <1>3, MovesAlone DEF IInv
<1>9. ReachInv'
  <2>1. /\ \A i : WritesTo(i)' = WritesTo(i) /\ WritesTo(i) \subseteq DOMAIN writes
        /\ \A i, k : IsLast(i, k)' <=> IsLast(i, k)
    BY <1>1 DEF WritesTo, Item, IsLast
  <2>2. SUFFICES ASSUME NEW i \in Items \ contested', NEW k \in WritesTo(i), IsLast(i, k),
                        NEW n \in Nodes, n = writes[k].node
                 PROVE  /\ row'[n][i] = k
                        /\ \A p \in Range(PeersOf[n]) :
                              OnTheWay(k, p)' \/ <<k, p>> \in dropped' \/ Settled(i, k, <<n, p>>)'
    <3>1. \A k \in DOMAIN writes : writes[k].node \in Nodes
      <4>1. \A k \in DOMAIN writes : writes[k] \in Change
        BY DEF IInv, TypeOK
      <4>2. QED
        BY <4>1 DEF Change
    <3>2. QED
      BY <1>1, <2>1, <2>2, <3>1 DEF ReachInv
  <2>3. i \in Items \ contested /\ k \in DOMAIN writes /\ k \in Nat
    BY <1>2, <2>1 DEF IInv, TypeOK
  <2>4. /\ row[n][i] = k
        /\ \A p \in Range(PeersOf[n]) :
              OnTheWay(k, p) \/ <<k, p>> \in dropped \/ Settled(i, k, <<n, p>>)
    BY <2>2, <2>3 DEF IInv, ReachInv
  <2>5. \A p \in Range(PeersOf[n]) : p \in Nodes /\ p # n /\ <<n, p>> \in Links
    <3>1. PeersOf[n] \in Seq(Nodes) /\ n \notin Range(PeersOf[n])
      BY PeersAssumption
    <3>2. QED
      BY <3>1, RangeFacts DEF Links
  <2>6. CASE i # Item(j)
    <3>1. \A p \in Nodes : row'[p][i] = row[p][i]
      BY <1>6, <2>3, <2>6
    <3>2. ASSUME NEW p \in Range(PeersOf[n])
          PROVE  OnTheWay(k, p)' \/ <<k, p>> \in dropped' \/ Settled(i, k, <<n, p>>)'
      <4>1. CASE OnTheWay(k, p) \/ <<k, p>> \in dropped
        <5>1. k # j
          BY <2>2, <2>6 DEF WritesTo
        <5>2. QED
          BY <4>1, <5>1, <1>1, <1>3, <2>3, <2>5
      <4>2. CASE Settled(i, k, <<n, p>>)
        BY <4>2, <3>1, <2>1, <2>5, <1>3 DEF Settled
      <4>3. QED
        BY <4>1, <4>2, <2>4
    <3>3. QED
      BY <3>1, <3>2, <2>4
  <2>7. CASE i = Item(j)
    <3>1. j \in WritesTo(i) /\ j \in Nat /\ j <= k
      BY <2>2, <2>7, <1>5, <2>3 DEF WritesTo, IsLast, IInv, TypeOK
    <3>2. n = d.link[1]
      <4>1. OnTheWay(j, m)
        BY <1>4 DEF OnTheWay, m
      <4>2. QED
        BY <4>1, <3>1, <1>4, <1>5, <2>2, <2>3 DEF IInv, AloneInv
    <3>3. row'[n][i] = k
      BY <3>2, <1>4, <1>6, <2>3, <2>4
    <3>4. ASSUME NEW p \in Range(PeersOf[n]), p # m
          PROVE  OnTheWay(k, p)' \/ <<k, p>> \in dropped' \/ Settled(i, k, <<n, p>>)'
      <4>1. CASE OnTheWay(k, p) \/ <<k, p>> \in dropped
        BY <4>1, <3>4, <1>1, <1>3, <2>3, <2>5
      <4>2. CASE Settled(i, k, <<n, p>>)
        <5>1. row'[p][i] = row[p][i]
          BY <3>4, <1>6, <2>3, <2>5
        <5>2. QED
          BY <4>2, <5>1, <2>1, <2>5, <1>3 DEF Settled
      <4>3. QED
        BY <4>1, <4>2, <2>4
    <3>5. ASSUME j # k, NEW p \in Range(PeersOf[n]), p = m
          PROVE  OnTheWay(k, p)' \/ <<k, p>> \in dropped' \/ Settled(i, k, <<n, p>>)'
      <4>1. j < k
        BY <3>1, <3>5, <2>3
      <4>2. CASE OnTheWay(k, p) \/ <<k, p>> \in dropped
        BY <4>2, <3>5, <1>1, <1>3, <2>3, <2>5
      <4>3. CASE Settled(i, k, <<n, p>>)
        <5>1. row[m][i] = k /\ \A x \in WritesTo(i) \cap InLine(d.link) : k <= x
          BY <4>3, <3>2, <3>5, <1>4 DEF Settled
        <5>2. CASE Awaited(d)
          <6>1. j \in InLine(d.link)
            BY <5>2, <1>4 DEF InLine
          <6>2. QED
            BY <5>1, <6>1, <3>1, <4>1, <2>3
        <5>3. CASE ~Awaited(d)
          BY <5>1, <5>3, <4>1, <2>2, <2>7, <1>1
        <5>4. QED
          BY <5>2, <5>3
      <4>4. QED
        BY <4>2, <4>3, <2>4
    <3>6. ASSUME j = k, NEW p \in Range(PeersOf[n]), p = m
          PROVE  OnTheWay(k, p)' \/ <<k, p>> \in dropped' \/ Settled(i, k, <<n, p>>)'
      <4>1. row'[m][i] = k
        BY <3>6, <2>7, <1>6
      <4>2. ASSUME NEW x \in WritesTo(i), x \in InLine(d.link)' PROVE k <= x
        \* What comes after j on the link was committed after it.
        <5>1. Before(WritesTo(i), {j}, Waiting(d.link))
          BY <1>4, <2>3 DEF IInv, OrderInv, PostSorted, Before
        <5>2. CASE x \in Waiting(d.link)
          <6>1. j < x
            BY <5>1, <5>2, <3>1, <4>2 DEF Before
          <6>2. QED
            BY <6>1, <3>6, <2>1, <2>3, <4>2 DEF IInv, TypeOK
        <5>3. ASSUME NEW e \in flight', e.link = d.link, Awaited(e)', x \in Range(e.left)
              PROVE  k <= x
          <6> DEFINE next == [link |-> d.link, events |-> d.events, left |-> Tail(d.left)]
          <6>1. flight' = (flight \ {d}) \cup {next}
            BY <1>1 DEF Advance
          <6>2. Awaited(e) /\ (Awaited(next) <=> Awaited(d))
            BY <5>3, <1>1 DEF Awaited
          <6>3. CASE e = next
            <7>1. Sorted(WritesTo(i), d.left) /\ d.left \in Seq(Numbers)
              BY <2>3, DeliveryFacts DEF IInv, OrderInv, PostSorted, TypeOK
            <7>2. Before(WritesTo(i), {j}, Range(Tail(d.left)))
              BY <7>1, <1>1, TailSorted DEF j
            <7>3. j < x
              BY <7>2, <6>3, <5>3, <4>2, <3>1 DEF Before
            <7>4. QED
              BY <7>3, <3>6, <2>1, <2>3, <4>2 DEF IInv, TypeOK
          <6>4. CASE e \in flight \ {d}
            <7>1. ~Awaited(d)
              <8>1. CASE Awaited(d)
                <9>1. d.events = e.events /\ d.events # <<>> /\ d.events \in Seq(Numbers)
                  BY <6>2, <6>4, <8>1, <5>3, DeliveryFacts
                     DEF Awaited, IInv, CarriesInv, PostOK, TypeOK
                <9>2. Range(d.events) # {}
                  BY <9>1, TailFacts
                <9>3. QED
                  BY <9>1, <9>2, <6>4, <5>3 DEF IInv, OnceInv
              <8>2. QED
                BY <8>1
            <7>2. Before(WritesTo(i), Range(d.left), Range(e.left))
              BY <7>1, <6>2, <6>4, <5>3, <2>3 DEF IInv, OrderInv, PostsSorted
            <7>3. j < x
              BY <7>2, <5>3, <4>2, <3>1, <1>4 DEF Before
            <7>4. QED
              BY <7>3, <3>6, <2>1, <2>3, <4>2 DEF IInv, TypeOK
          <6>5. QED
            BY <6>1, <6>3, <6>4
        <5>4. x \in Waiting(d.link)
                \/ \E e \in flight' : e.link = d.link /\ Awaited(e)' /\ x \in Range(e.left)
          BY <4>2, <1>1 DEF InLine, Waiting
        <5>5. QED
          BY <5>2, <5>3, <5>4
      <4>3. <<n, p>> = d.link
        BY <3>2, <3>6, <1>4
      <4>4. QED
        BY <4>1, <4>2, <4>3, <3>6, <2>1, <2>5 DEF Settled
    <3>7. QED
      BY <3>3, <3>4, <3>5, <3>6
  <2>8. QED
    BY <2>6, <2>7
<1>10. QED
  BY <1>3, <1>7, <1>8, <1>9 DEF IInv

-----------------------------------------------------------------------------
(***************************************************************************)
(* A row of a snapshot: where it replaces a later write, it contests the   *)
(* item.                                                                   *)
(***************************************************************************)
LEMMA StepApplySnapshot ==
    ASSUME IInv, NEW l \in Links, ApplySnapshot(l)
    PROVE  IInv'
<1>1. PICK j \in snap[l] :
          /\ snap' = [snap EXCEPT ![l] = snap[l] \ {j}]
          /\ \/ /\ row' = Set(l[1], Item(j), j)
                /\ contested' = contested \cup
                       (IF j < row[l[1]][Item(j)] THEN {Item(j)} ELSE {})
             \/ UNCHANGED <<row, contested>>
  BY DEF ApplySnapshot
<1>2. UNCHANGED <<writes, pc, req, queue, batch, sending, flight, syncs, dropped>>
  BY DEF ApplySnapshot
<1>3. /\ j \in DOMAIN writes /\ j \in Numbers /\ Item(j) \in Items /\ l[1] \in Nodes
  <2>1. j \in DOMAIN writes /\ j \in Numbers
    BY <1>1 DEF IInv, CarriesInv, TypeOK
  <2>2. writes[j] \in Change
    BY <2>1 DEF IInv, TypeOK
  <2>3. QED
    BY <2>1, <2>2, LinkFacts DEF Item, Change
<1>4. row' \in [Nodes -> [Items -> Numbers]] /\ contested' \subseteq Items
  <2>1. Set(l[1], Item(j), j) \in [Nodes -> [Items -> Numbers]]
    BY <1>3 DEF IInv, TypeOK, Set
  <2>2. row \in [Nodes -> [Items -> Numbers]] /\ contested \subseteq Items
    BY DEF IInv, TypeOK
  <2>3. row' \in [Nodes -> [Items -> Numbers]]
    BY <1>1, <2>1, <2>2
  <2>4. contested' \subseteq Items
    BY <1>1, <1>3, <2>2
  <2>5. QED
    BY <2>3, <2>4
<1>5. contested \subseteq contested'
  BY <1>1
<1>6. TypeOK'
  BY <1>1, <1>2, <1>4 DEF IInv, TypeOK
<1>7. /\ \A n : Of(n)' = Of(n)
      /\ \A x : Waiting(x)' = Waiting(x)
      /\ \A x : InLine(x)' = InLine(x)
      /\ \A i : WritesTo(i)' = WritesTo(i)
      /\ \A k, m : OnTheWay(k, m)' <=> OnTheWay(k, m)
  BY <1>2 DEF Of, Waiting, InLine, Awaited, WritesTo, Item, OnTheWay, Publishing
<1>8. HandlersInv'
  BY <1>2, <1>7 DEF IInv, HandlersInv, HandlerOK
<1>9. CarriesInv'
  <2>1. \A x \in Links : snap'[x] \subseteq snap[x]
    BY <1>1 DEF IInv, TypeOK
  <2>2. QED
    BY <1>2, <1>7, <2>1 DEF IInv, CarriesInv, PostOK
<1>10. OnceInv'
  BY <1>2 DEF IInv, OnceInv, Queues, Waiting
<1>11. OrderInv'
  BY <1>2, <1>5, <1>7 DEF IInv, OrderInv, LineSorted, PostSorted, PostsSorted, Awaited
<1>12. AloneInv'
  BY <1>2, <1>5, <1>7, MovesAlone DEF IInv
<1>13. ReachInv'
  <2>1. \A i, k : IsLast(i, k)' <=> IsLast(i, k)
    BY <1>7 DEF IsLast
  <2>2. SUFFICES ASSUME NEW i \in Items \ contested', NEW k \in WritesTo(i), IsLast(i, k),
                        NEW n \in Nodes, n = writes[k].node
                 PROVE  /\ row'[n][i] = k
                        /\ \A p \in Range(PeersOf[n]) :
                              OnTheWay(k, p)' \/ <<k, p>> \in dropped' \/ Settled(i, k, <<n, p>>)'
    <3>1. \A k \in DOMAIN writes : writes[k].node \in Nodes
      <4>1. \A k \in DOMAIN writes : writes[k] \in Change
        BY DEF IInv, TypeOK
      <4>2. QED
        BY <4>1 DEF Change
    <3>2. \A i : WritesTo(i) \subseteq DOMAIN writes
      BY DEF WritesTo
    <3>3. QED
      BY <1>2, <1>7, <2>1, <2>2, <3>1, <3>2 DEF ReachInv
  <2>3. /\ row[n][i] = k
        /\ \A p \in Range(PeersOf[n]) :
              OnTheWay(k, p) \/ <<k, p>> \in dropped \/ Settled(i, k, <<n, p>>)
    BY <2>2, <1>5 DEF IInv, ReachInv
  <2>4. ASSUME NEW m \in Nodes, row[m][i] = k PROVE row'[m][i] = k
    <3>1. CASE m = l[1] /\ i = Item(j) /\ row' = Set(l[1], Item(j), j)
      <4>1. j \in WritesTo(i) /\ j <= k
        BY <3>1, <1>3, <2>2 DEF WritesTo, IsLast
      <4>2. ~(j < k)
        <5>1. CASE row' = row /\ contested' = contested
          <6>1. row'[l[1]][Item(j)] = j
            BY <3>1, <1>3 DEF IInv, TypeOK, Set
          <6>2. j = k
            BY <6>1, <5>1, <2>4, <3>1
          <6>3. QED
            BY <6>2, <1>3, BoundsAssumption DEF Numbers
        <5>2. QED
          BY <5>1, <3>1, <2>2, <2>4, <1>1
      <4>3. j \in Nat /\ k \in Nat
        BY <1>3, <2>2, BoundsAssumption DEF WritesTo, IInv, TypeOK, Numbers
      <4>4. j = k
        BY <4>1, <4>2, <4>3
      <4>5. QED
        BY <3>1, <4>4, <1>3 DEF IInv, TypeOK, Set
    <3>2. CASE ~(m = l[1] /\ i = Item(j)) /\ row' = Set(l[1], Item(j), j)
      BY <3>2, <2>4, <1>3 DEF IInv, TypeOK, Set
    <3>3. CASE row' = row
      BY <3>3, <2>4
    <3>4. QED
      BY <3>1, <3>2, <3>3, <1>1
  <2>5. ASSUME NEW p \in Range(PeersOf[n])
        PROVE  OnTheWay(k, p)' \/ <<k, p>> \in dropped' \/ Settled(i, k, <<n, p>>)'
    <3>1. p \in Nodes
      BY PeersAssumption, RangeFacts
    <3>2. Settled(i, k, <<n, p>>) => Settled(i, k, <<n, p>>)'
      BY <3>1, <2>4, <1>7 DEF Settled
    <3>3. QED
      BY <3>2, <2>3, <1>2, <1>7
  <2>6. QED
    BY <2>3, <2>4, <2>5
<1>14. QED
  BY <1>6, <1>8, <1>9, <1>10, <1>11, <1>12, <1>13 DEF IInv

-----------------------------------------------------------------------------
(***************************************************************************)
(* Publishing: an event goes into the queue of the next peer, or is lost.  *)
(***************************************************************************)
LEMMA StepFull ==
    ASSUME IInv, NEW h \in Handlers, Full(h)
    PROVE  IInv'
<1>1. /\ pc[h] = "publish" /\ pc' = [pc EXCEPT ![h] = "drain"]
      /\ UNCHANGED <<writes, row, req, queue, batch, sending, flight, snap, syncs,
                     dropped, contested>>
  BY DEF Full, history
<1>2. TypeOK'
  BY <1>1 DEF IInv, TypeOK
<1>3. \A g \in Handlers : pc'[g] # "idle" <=> pc[g] # "idle"
  BY <1>1 DEF IInv, TypeOK
<1>4. /\ HandlersInv' /\ CarriesInv' /\ OnceInv' /\ OrderInv'
      /\ \A x \in Links : InLine(x)' \subseteq InLine(x)
      /\ \A k \in DOMAIN writes, m \in Nodes : OnTheWay(k, m)' => OnTheWay(k, m)
  BY <1>1, <1>3, LossKeeps DEF IInv
<1>5. \A k \in DOMAIN writes, m \in Nodes : OnTheWay(k, m) => OnTheWay(k, m)'
  BY <1>1, <1>3 DEF OnTheWay, Publishing
<1>6. AloneInv'
  BY <1>1, <1>3, <1>4, MovesAlone DEF IInv
<1>7. ReachInv'
  BY <1>1, <1>4, <1>5, MovesReach DEF IInv
<1>8. QED
  BY <1>2, <1>4, <1>6, <1>7 DEF IInv

\* A queue may lose its head: the rest is as it was.
LEMMA DrainKeeps ==
    ASSUME TypeOK, HandlersInv, CarriesInv, OnceInv, OrderInv,
           UNCHANGED <<writes, req, batch, sending, flight, snap, contested>>,
           \A g \in Handlers : pc'[g] # "idle" <=> pc[g] # "idle",
           NEW l \in Links, queue[l] # <<>>, queue' = [queue EXCEPT ![l] = Tail(queue[l])]
    PROVE  /\ queue' \in [Links -> Seq(Numbers)] /\ Head(queue[l]) \in Numbers
           /\ HandlersInv' /\ CarriesInv' /\ OnceInv' /\ OrderInv'
           /\ \A x \in Links : InLine(x)' \subseteq InLine(x)
           /\ \A k \in DOMAIN writes, m \in Nodes : OnTheWay(k, m)' => OnTheWay(k, m)
           /\ \A k \in DOMAIN writes, m \in Nodes :
                 OnTheWay(k, m) => OnTheWay(k, m)' \/ (k = Head(queue[l]) /\ m = l[2])
<1>1. /\ Head(queue[l]) \in Numbers /\ Tail(queue[l]) \in Seq(Numbers)
      /\ Range(queue[l]) = {Head(queue[l])} \cup Range(Tail(queue[l]))
      /\ IsInjective(queue[l]) => IsInjective(Tail(queue[l]))
  BY TailFacts DEF TypeOK
<1>2. /\ queue' \in [Links -> Seq(Numbers)] /\ queue'[l] = Tail(queue[l])
      /\ \A x \in Links : x # l => queue'[x] = queue[x]
  BY <1>1 DEF TypeOK
<1>3. \A x \in Links : /\ Range(queue'[x]) \subseteq Range(queue[x])
                       /\ Waiting(x)' \subseteq Waiting(x)
                       /\ IsInjective(queue[x]) => IsInjective(queue'[x])
  BY <1>1, <1>2 DEF Waiting
<1>4. /\ \A n : Of(n)' = Of(n)
      /\ \A g \in Handlers, x \in Links : Queues(g, x)' <=> Queues(g, x)
      /\ \A i : WritesTo(i)' = WritesTo(i)
      /\ \A e : Awaited(e)' <=> Awaited(e)
  BY DEF Of, Queues, WritesTo, Item, Awaited
<1>5. \A d \in flight : d.link \in Links
  BY DeliveryFacts DEF TypeOK
<1>6. HandlersInv'
  BY <1>4 DEF HandlersInv, HandlerOK
<1>7. CarriesInv'
  BY <1>3, <1>4 DEF CarriesInv, PostOK
<1>8. OnceInv'
  <2>1. \A x \in Links : IsInjective(queue'[x]) /\ IsInjective(batch[x])
                         /\ Range(queue'[x]) \cap Range(batch[x]) = {}
    BY <1>3 DEF OnceInv
  <2>2. \A g \in Handlers, x \in Links : Queues(g, x) => req[g].write \notin Waiting(x)'
    BY <1>3 DEF OnceInv
  <2>3. \A d \in flight : Range(d.events) \cap Waiting(d.link)' = {}
    BY <1>3, <1>5 DEF OnceInv
  <2>4. QED
    BY <1>4, <1>5, <2>1, <2>2, <2>3 DEF OnceInv
<1>9. OrderInv'
  <2>1. ASSUME NEW i \in Items \ contested, NEW x \in Links PROVE LineSorted(WritesTo(i), x)'
    <3>1. LineSorted(WritesTo(i), x)
      BY DEF OrderInv
    <3>2. Sorted(WritesTo(i), queue'[x])
      BY <3>1, <1>2, TailSorted DEF LineSorted, TypeOK
    <3>3. QED
      BY <3>1, <3>2, <1>3, <1>4 DEF LineSorted, Before
  <2>2. ASSUME NEW i \in Items \ contested, NEW d \in flight PROVE PostSorted(WritesTo(i), d)'
    BY <1>3, <1>4, <1>5 DEF OrderInv, PostSorted, Before
  <2>3. \A i \in Items \ contested : \A d, e \in flight : PostsSorted(WritesTo(i), d, e)'
    BY <1>4 DEF OrderInv, PostsSorted
  <2>4. QED
    BY <2>1, <2>2, <2>3 DEF OrderInv
<1>10. \A x \in Links : InLine(x)' \subseteq InLine(x)
  BY <1>3, <1>4 DEF InLine
<1>11. ASSUME NEW k \in DOMAIN writes, NEW m \in Nodes
       PROVE  /\ OnTheWay(k, m)' => OnTheWay(k, m)
              /\ OnTheWay(k, m) => OnTheWay(k, m)' \/ (k = Head(queue[l]) /\ m = l[2])
  <2>1. \A g \in Handlers : Publishing(g, k)' <=> Publishing(g, k)
    BY DEF Publishing
  <2>2. QED
    BY <2>1, <1>1, <1>2 DEF OnTheWay
<1>12. QED
  BY <1>1, <1>2, <1>6, <1>7, <1>8, <1>9, <1>10, <1>11

LEMMA StepDrain ==
    ASSUME IInv, NEW h \in Handlers, Drain(h)
    PROVE  IInv'
<1> DEFINE l == Target(h)
<1>1. /\ pc[h] = "drain" /\ pc' = [pc EXCEPT ![h] = "retry"]
      /\ UNCHANGED <<writes, row, req, batch, sending, flight, snap, syncs, contested>>
      /\ \/ queue[l] = <<>> /\ queue' = queue /\ dropped' = dropped
         \/ /\ queue[l] # <<>> /\ queue' = [queue EXCEPT ![l] = Tail(queue[l])]
            /\ dropped' = dropped \cup {<<Head(queue[l]), l[2]>>}
  BY DEF Drain
<1>2. l \in Links /\ l[2] \in Nodes
  <2>1. Target(h) \in Links
    BY <1>1, PublishFacts DEF IInv
  <2>2. QED
    BY <2>1, LinkFacts
<1> HIDE DEF l
<1>3. /\ pc' \in [Handlers -> {"idle", "publish", "drain", "retry"}]
      /\ \A g \in Handlers : pc'[g] # "idle" <=> pc[g] # "idle"
  BY <1>1 DEF IInv, TypeOK
<1>4. CASE queue' = queue /\ dropped' = dropped
  <2>1. TypeOK'
    BY <1>1, <1>3, <1>4 DEF IInv, TypeOK
  <2>2. /\ HandlersInv' /\ CarriesInv' /\ OnceInv' /\ OrderInv'
        /\ \A x \in Links : InLine(x)' \subseteq InLine(x)
        /\ \A k \in DOMAIN writes, m \in Nodes : OnTheWay(k, m)' => OnTheWay(k, m)
    BY <1>1, <1>3, <1>4, LossKeeps DEF IInv
  <2>3. \A k \in DOMAIN writes, m \in Nodes : OnTheWay(k, m) => OnTheWay(k, m)'
    BY <1>1, <1>3, <1>4 DEF OnTheWay, Publishing
  <2>4. AloneInv'
    BY <1>1, <1>3, <2>2, MovesAlone DEF IInv
  <2>5. ReachInv'
    BY <1>1, <1>4, <2>2, <2>3, MovesReach DEF IInv
  <2>6. QED
    BY <2>1, <2>2, <2>4, <2>5 DEF IInv
<1>5. CASE /\ queue[l] # <<>> /\ queue' = [queue EXCEPT ![l] = Tail(queue[l])]
           /\ dropped' = dropped \cup {<<Head(queue[l]), l[2]>>}
  <2>1. /\ queue' \in [Links -> Seq(Numbers)] /\ Head(queue[l]) \in Numbers
        /\ HandlersInv' /\ CarriesInv' /\ OnceInv' /\ OrderInv'
        /\ \A x \in Links : InLine(x)' \subseteq InLine(x)
        /\ \A k \in DOMAIN writes, m \in Nodes : OnTheWay(k, m)' => OnTheWay(k, m)
        /\ \A k \in DOMAIN writes, m \in Nodes :
              OnTheWay(k, m) => OnTheWay(k, m)' \/ (k = Head(queue[l]) /\ m = l[2])
    BY <1>1, <1>2, <1>3, <1>5, DrainKeeps DEF IInv
  <2>2. TypeOK'
    BY <1>1, <1>2, <1>3, <1>5, <2>1 DEF IInv, TypeOK
  <2>3. AloneInv'
    BY <1>1, <1>3, <2>1, MovesAlone DEF IInv
  <2>4. /\ dropped \subseteq dropped'
        /\ \A k \in DOMAIN writes, m \in Nodes :
              OnTheWay(k, m) => OnTheWay(k, m)' \/ <<k, m>> \in dropped'
    BY <1>5, <2>1
  <2>5. ReachInv'
    BY <1>1, <2>1, <2>4, MovesReach DEF IInv
  <2>6. QED
    BY <2>1, <2>2, <2>3, <2>5 DEF IInv
<1>6. QED
  BY <1>1, <1>4, <1>5

LEMMA EnqueueKeeps ==
    ASSUME TypeOK, HandlersInv, CarriesInv, OnceInv, OrderInv, AloneInv,
           NEW h \in Handlers, pc[h] # "idle", Enqueue(h), NextPeer(h),
           UNCHANGED <<writes, batch, sending, flight, snap, contested>>
    PROVE  /\ pc' \in [Handlers -> {"idle", "publish", "drain", "retry"}]
           /\ req' \in [Handlers -> Request]
           /\ queue' \in [Links -> Seq(Numbers)]
           /\ HandlersInv' /\ CarriesInv' /\ OnceInv' /\ OrderInv' /\ AloneInv'
           /\ \A l \in Links : \A j \in InLine(l)' :
                 j \in InLine(l) \/ \E g \in Handlers : Publishing(g, j)
           /\ \A k \in DOMAIN writes, m \in Nodes : OnTheWay(k, m) => OnTheWay(k, m)'
<1>0. PICK l \in Links, k \in DOMAIN writes : l = Target(h) /\ k = req[h].write
  BY PublishFacts
<1>1. /\ l \in Links /\ k \in Numbers /\ k \in DOMAIN writes /\ Queues(h, l)
      /\ l[1] = req[h].node
  BY <1>0, PublishFacts
<1>2. /\ pc' \in [Handlers -> {"idle", "publish", "drain", "retry"}]
      /\ req' \in [Handlers -> Request]
      /\ HandlersInv'
      /\ \A g \in Handlers : pc'[g] # "idle" =>
            pc[g] # "idle" /\ req'[g].write = req[g].write /\ req'[g].node = req[g].node
      /\ \A g \in Handlers, x \in Links :
            Queues(g, x)' <=> Queues(g, x) /\ ~(g = h /\ x = Target(h))
      /\ \A g \in Handlers : \A j, m : Publishing(g, j) /\ m \in Range(req[g].todo) =>
            \/ g = h /\ m = Target(h)[2]
            \/ Publishing(g, j)' /\ m \in Range(req'[g].todo)
      /\ \A g \in Handlers : \A j, m : Publishing(g, j)' /\ m \in Range(req'[g].todo) =>
            Publishing(g, j) /\ m \in Range(req[g].todo)
  BY NextPeerFacts
<1>3. queue' = [queue EXCEPT ![l] = Append(queue[l], k)]
  BY <1>0 DEF Enqueue
<1>4. k \in Of(l[1])
  BY <1>0, <1>1 DEF HandlersInv, HandlerOK
<1>5. Publishing(h, k)
  BY <1>0 DEF Publishing
<1>6. /\ Append(queue[l], k) \in Seq(Numbers)
      /\ Range(Append(queue[l], k)) = Range(queue[l]) \cup {k}
      /\ IsInjective(queue[l]) /\ k \notin Range(queue[l]) => IsInjective(Append(queue[l], k))
  BY <1>1, AppendFacts DEF TypeOK
<1>7. /\ queue' \in [Links -> Seq(Numbers)] /\ queue'[l] = Append(queue[l], k)
      /\ \A x \in Links : x # l => queue'[x] = queue[x]
  BY <1>1, <1>3, <1>6 DEF TypeOK
<1>8. /\ Waiting(l)' = Waiting(l) \cup {k}
      /\ \A x \in Links : x # l => Waiting(x)' = Waiting(x)
  BY <1>6, <1>7 DEF Waiting
<1>9. /\ \A n : Of(n)' = Of(n)
      /\ \A i : WritesTo(i)' = WritesTo(i)
      /\ \A e : Awaited(e)' <=> Awaited(e)
  BY DEF Of, WritesTo, Item, Awaited
<1>10. \A d \in flight : d.link \in Links
  BY DeliveryFacts DEF TypeOK
<1>11. CarriesInv'
  <2>1. \A x \in Links : Range(queue'[x]) \cup Range(batch[x]) \subseteq Of(x[1])
    BY <1>4, <1>6, <1>7 DEF CarriesInv
  <2>2. QED
    BY <1>9, <2>1 DEF CarriesInv, PostOK
<1>12. k \notin Waiting(l) /\ \A d \in flight : d.link = l => k \notin Range(d.events)
  BY <1>0, <1>1 DEF OnceInv
<1>13. OnceInv'
  <2>1. \A x \in Links : IsInjective(queue'[x]) /\ IsInjective(batch[x])
                         /\ Range(queue'[x]) \cap Range(batch[x]) = {}
    <3>1. CASE TRUE
      BY <1>6, <1>7, <1>12 DEF OnceInv, Waiting
    <3>2. QED
      BY <3>1
  <2>2. ASSUME NEW g \in Handlers, NEW x \in Links, Queues(g, x)'
        PROVE  req'[g].write \notin Waiting(x)'
    <3>1. /\ Queues(g, x) /\ ~(g = h /\ x = l) /\ pc'[g] # "idle"
          /\ req'[g].write = req[g].write
      BY <2>2, <1>0, <1>2 DEF Queues
    <3>2. req[g].write \notin Waiting(x)
      BY <3>1 DEF OnceInv
    <3>3. x = l => req[g].write # k
      BY <3>1, <1>0 DEF HandlersInv, Queues
    <3>4. QED
      BY <3>1, <3>2, <3>3, <1>8
  <2>3. \A d \in flight : Range(d.events) \cap Waiting(d.link)' = {}
    BY <1>8, <1>10, <1>12 DEF OnceInv
  <2>4. ASSUME NEW g \in Handlers, NEW d \in flight, Queues(g, d.link)'
        PROVE  req'[g].write \notin Range(d.events)
    BY <2>4, <1>2, <1>10 DEF OnceInv, Queues
  <2>5. QED
    BY <2>1, <2>2, <2>3, <2>4 DEF OnceInv
<1>14. \* What was committed before it has been queued before it.
       ASSUME NEW i \in Items \ contested, k \in WritesTo(i), NEW j \in WritesTo(i), j # k
       PROVE  j < k
  <2>1. IsLast(i, k)
    BY <1>14, <1>5 DEF AloneInv, Publishing, WritesTo
  <2>2. j \in Nat /\ k \in Nat /\ j <= k
    BY <2>1, <1>14 DEF IsLast, WritesTo, TypeOK
  <2>3. QED
    BY <2>2, <1>14
<1>15. OrderInv'
  <2>1. ASSUME NEW i \in Items \ contested, NEW x \in Links PROVE LineSorted(WritesTo(i), x)'
    <3>1. LineSorted(WritesTo(i), x)
      BY DEF OrderInv
    <3>2. CASE x # l
      BY <3>1, <3>2, <1>7, <1>9 DEF LineSorted
    <3>3. CASE x = l
      <4>1. Before(WritesTo(i), Waiting(l), {k})
        BY <1>12, <1>14 DEF Before
      <4>2. Sorted(WritesTo(i), Append(queue[l], k))
        <5>1. Before(WritesTo(i), Range(queue[l]), {k})
          BY <4>1 DEF Before, Waiting
        <5>2. Sorted(WritesTo(i), queue[l]) /\ queue[l] \in Seq(Numbers)
          BY <1>1, <3>1, <3>3 DEF LineSorted, TypeOK
        <5>3. QED
          BY <5>1, <5>2, <1>1, AppendSorted
      <4>3. Before(WritesTo(i), Range(batch[l]), Range(queue'[l]))
        BY <4>1, <3>1, <3>3, <1>6, <1>7 DEF LineSorted, Before, Waiting
      <4>4. QED
        BY <3>1, <3>3, <4>2, <4>3, <1>7, <1>9 DEF LineSorted
    <3>4. QED
      BY <3>2, <3>3
  <2>2. ASSUME NEW i \in Items \ contested, NEW d \in flight PROVE PostSorted(WritesTo(i), d)'
    <3>1. PostSorted(WritesTo(i), d) /\ PostOK(d)
      BY DEF OrderInv, CarriesInv
    <3>2. CASE d.link # l
      BY <3>1, <3>2, <1>8, <1>9, <1>10 DEF PostSorted
    <3>3. CASE d.link = l
      <4>1. Before(WritesTo(i), Range(d.left), {k})
        BY <3>1, <3>3, <1>12, <1>14 DEF Before, PostOK
      <4>2. QED
        BY <3>1, <3>3, <4>1, <1>8, <1>9 DEF PostSorted, Before
    <3>4. QED
      BY <3>2, <3>3
  <2>3. \A i \in Items \ contested : \A d, e \in flight : PostsSorted(WritesTo(i), d, e)'
    BY <1>9 DEF OrderInv, PostsSorted
  <2>4. QED
    BY <2>1, <2>2, <2>3 DEF OrderInv
<1>16. ASSUME NEW x \in Links, NEW j \in InLine(x)'
       PROVE  j \in InLine(x) \/ \E g \in Handlers : Publishing(g, j)
  <2>1. j \in Waiting(x)' \/ \E d \in flight : d.link = x /\ Awaited(d) /\ j \in Range(d.left)
    BY <1>9, <1>16 DEF InLine
  <2>2. QED
    BY <2>1, <1>5, <1>8 DEF InLine
<1>17. \A x \in Links : Range(queue[x]) \cup Range(batch[x]) = Waiting(x)
                       /\ Range(queue'[x]) \cup Range(batch'[x]) = Waiting(x)'
  BY DEF Waiting
<1>18. ASSUME NEW j \in DOMAIN writes, NEW m \in Nodes, OnTheWay(j, m)
       PROVE  OnTheWay(j, m)'
  <2>1. ASSUME NEW g \in Handlers, Publishing(g, j), m \in Range(req[g].todo)
        PROVE  OnTheWay(j, m)'
    <3>1. CASE g = h /\ m = l[2]
      <4>1. j \in Waiting(l)'
        BY <2>1, <3>1, <1>0, <1>8 DEF Publishing
      <4>2. QED
        BY <3>1, <4>1, <1>1, <1>17 DEF OnTheWay
    <3>2. CASE Publishing(g, j)' /\ m \in Range(req'[g].todo)
      BY <3>2 DEF OnTheWay
    <3>3. QED
      BY <2>1, <3>1, <3>2, <1>0, <1>2
  <2>2. ASSUME NEW x \in Links, x[2] = m, j \in Waiting(x) PROVE OnTheWay(j, m)'
    <3>1. j \in Waiting(x)'
      BY <2>2, <1>8
    <3>2. QED
      BY <2>2, <3>1, <1>17 DEF OnTheWay
  <2>3. ASSUME NEW d \in flight, d.link[2] = m, j \in Range(d.left) PROVE OnTheWay(j, m)'
    BY <2>3 DEF OnTheWay
  <2>4. QED
    BY <1>18, <2>1, <2>2, <2>3, <1>17 DEF OnTheWay
<1>19. ASSUME NEW j \in DOMAIN writes, NEW m \in Nodes, OnTheWay(j, m)'
       PROVE  OnTheWay(j, m)
  <2>1. ASSUME NEW g \in Handlers, Publishing(g, j)', m \in Range(req'[g].todo)
        PROVE  OnTheWay(j, m)
    BY <2>1, <1>2 DEF OnTheWay
  <2>2. ASSUME NEW x \in Links, x[2] = m, j \in Waiting(x)' PROVE OnTheWay(j, m)
    <3>1. CASE j \in Waiting(x)
      BY <2>2, <3>1, <1>17 DEF OnTheWay
    <3>2. CASE x = l /\ j = k
      <4>1. Publishing(h, j) /\ m \in Range(req[h].todo)
        BY <2>2, <3>2, <1>1, <1>5 DEF Queues
      <4>2. QED
        BY <4>1 DEF OnTheWay
    <3>3. QED
      BY <2>2, <3>1, <3>2, <1>8
  <2>3. ASSUME NEW d \in flight', d.link[2] = m, j \in Range(d.left) PROVE OnTheWay(j, m)
    BY <2>3 DEF OnTheWay
  <2>4. QED
    BY <1>19, <2>1, <2>2, <2>3, <1>17 DEF OnTheWay
<1>20. AloneInv'
  BY <1>2, <1>19, MovesAlone
<1>21. QED
  BY <1>2, <1>7, <1>11, <1>13, <1>15, <1>16, <1>18, <1>20

\* The event is in the queue: Send, and Retry where there is room.
LEMMA StepEnqueue ==
    ASSUME IInv, NEW h \in Handlers, pc[h] # "idle", Enqueue(h), NextPeer(h),
           UNCHANGED <<writes, row, batch, sending, flight, snap, syncs, dropped, contested>>
    PROVE  IInv'
<1>1. /\ pc' \in [Handlers -> {"idle", "publish", "drain", "retry"}]
      /\ req' \in [Handlers -> Request]
      /\ queue' \in [Links -> Seq(Numbers)]
      /\ HandlersInv' /\ CarriesInv' /\ OnceInv' /\ OrderInv' /\ AloneInv'
      /\ \A l \in Links : \A j \in InLine(l)' :
            j \in InLine(l) \/ \E g \in Handlers : Publishing(g, j)
      /\ \A k \in DOMAIN writes, m \in Nodes : OnTheWay(k, m) => OnTheWay(k, m)'
  BY EnqueueKeeps DEF IInv
<1>2. TypeOK'
  BY <1>1 DEF IInv, TypeOK
<1>3. ReachInv'
  BY <1>1, MovesReach DEF IInv
<1>4. QED
  BY <1>1, <1>2, <1>3 DEF IInv

\* The queue is full again: the new event is lost.
LEMMA StepNoRoom ==
    ASSUME IInv, NEW h \in Handlers, pc[h] # "idle", NextPeer(h),
           dropped' = dropped \cup {<<req[h].write, Target(h)[2]>>},
           UNCHANGED <<writes, row, queue, batch, sending, flight, snap, syncs, contested>>
    PROVE  IInv'
<1>1. /\ pc' \in [Handlers -> {"idle", "publish", "drain", "retry"}]
      /\ req' \in [Handlers -> Request]
      /\ HandlersInv'
      /\ \A g \in Handlers : pc'[g] # "idle" =>
            pc[g] # "idle" /\ req'[g].write = req[g].write /\ req'[g].node = req[g].node
      /\ \A g \in Handlers, x \in Links :
            Queues(g, x)' <=> Queues(g, x) /\ ~(g = h /\ x = Target(h))
      /\ \A g \in Handlers : \A j, m : Publishing(g, j) /\ m \in Range(req[g].todo) =>
            \/ g = h /\ m = Target(h)[2]
            \/ Publishing(g, j)' /\ m \in Range(req'[g].todo)
      /\ \A g \in Handlers : \A j, m : Publishing(g, j)' /\ m \in Range(req'[g].todo) =>
            Publishing(g, j) /\ m \in Range(req[g].todo)
  BY NextPeerFacts DEF IInv
<1>2. req[h].write \in Numbers /\ Target(h)[2] \in Nodes
  BY PublishFacts, LinkFacts DEF IInv
<1>3. TypeOK'
  BY <1>1, <1>2 DEF IInv, TypeOK
<1>4. /\ \A n : Of(n)' = Of(n)
      /\ \A x : Waiting(x)' = Waiting(x)
      /\ \A x : InLine(x)' = InLine(x)
      /\ \A i : WritesTo(i)' = WritesTo(i)
      /\ \A e : Awaited(e)' <=> Awaited(e)
  BY DEF Of, Waiting, InLine, Awaited, WritesTo, Item
<1>5. \A d \in flight : d.link \in Links
  BY DeliveryFacts DEF IInv, TypeOK
<1>6. CarriesInv'
  BY <1>4 DEF IInv, CarriesInv, PostOK
<1>7. OnceInv'
  <2>1. \A g \in Handlers, x \in Links :
            Queues(g, x)' => Queues(g, x) /\ req'[g].write = req[g].write
    BY <1>1 DEF Queues
  <2>2. QED
    BY <2>1, <1>4, <1>5 DEF IInv, OnceInv
<1>8. OrderInv'
  BY <1>4 DEF IInv, OrderInv, LineSorted, PostSorted, PostsSorted
<1>9. \A j \in DOMAIN writes, m \in Nodes : OnTheWay(j, m)' => OnTheWay(j, m)
  BY <1>1 DEF OnTheWay
<1>10. \A j \in DOMAIN writes, m \in Nodes :
           OnTheWay(j, m) => OnTheWay(j, m)' \/ <<j, m>> \in dropped'
  <2>1. ASSUME NEW j \in DOMAIN writes, NEW m \in Nodes, NEW g \in Handlers,
               Publishing(g, j), m \in Range(req[g].todo)
        PROVE  OnTheWay(j, m)' \/ <<j, m>> \in dropped'
    <3>1. CASE g = h /\ m = Target(h)[2]
      BY <2>1, <3>1 DEF Publishing
    <3>2. CASE Publishing(g, j)' /\ m \in Range(req'[g].todo)
      BY <3>2 DEF OnTheWay
    <3>3. QED
      BY <2>1, <3>1, <3>2, <1>1
  <2>2. QED
    BY <2>1 DEF OnTheWay
<1>11. AloneInv'
  BY <1>1, <1>9, MovesAlone DEF IInv
<1>12. ReachInv'
  BY <1>4, <1>10, MovesReach DEF IInv
<1>13. QED
  BY <1>1, <1>3, <1>6, <1>7, <1>8, <1>11, <1>12 DEF IInv

-----------------------------------------------------------------------------
(***************************************************************************)
(* The worker: events of the queue go to the batch, and the batch is       *)
(* posted.                                                                 *)
(***************************************************************************)
\* What waits on link l is first the events, then the rest of the queue.
Cut(l, rest, events) ==
    /\ rest \in Seq(Numbers) /\ events \in Seq(Numbers) /\ events # <<>>
    /\ Range(events) \cup Range(rest) = Waiting(l)
    /\ Range(events) \cap Range(rest) = {}
    /\ IsInjective(rest) /\ IsInjective(events)
    /\ \A i \in Items \ contested :
          /\ Sorted(WritesTo(i), rest) /\ Sorted(WritesTo(i), events)
          /\ Before(WritesTo(i), Range(events), Range(rest))

LEMMA TickCut ==
    ASSUME TypeOK, OnceInv, OrderInv, NEW l \in Links, batch[l] # <<>>
    PROVE  Cut(l, queue[l], batch[l])
<1>1. queue[l] \in Seq(Numbers) /\ batch[l] \in Seq(Numbers)
  BY DEF TypeOK
<1>2. QED
  BY <1>1 DEF Cut, OnceInv, OrderInv, LineSorted, Waiting

LEMMA TakeCut ==
    ASSUME TypeOK, OnceInv, OrderInv, NEW l \in Links, queue[l] # <<>>
    PROVE  Cut(l, Tail(queue[l]), Append(batch[l], Head(queue[l])))
<1> DEFINE j      == Head(queue[l])
           rest   == Tail(queue[l])
           events == Append(batch[l], j)
<1>1. /\ queue[l] \in Seq(Numbers) /\ batch[l] \in Seq(Numbers)
      /\ IsInjective(queue[l]) /\ IsInjective(batch[l])
      /\ Range(queue[l]) \cap Range(batch[l]) = {}
  BY DEF TypeOK, OnceInv
<1>2. /\ j \in Numbers /\ rest \in Seq(Numbers)
      /\ Range(queue[l]) = {j} \cup Range(rest)
      /\ IsInjective(rest) /\ j \notin Range(rest)
  BY <1>1, TailFacts
<1>3. /\ events \in Seq(Numbers) /\ events # <<>>
      /\ Range(events) = Range(batch[l]) \cup {j}
      /\ IsInjective(batch[l]) /\ j \notin Range(batch[l]) => IsInjective(events)
  BY <1>1, <1>2, AppendFacts
<1>4. ASSUME NEW i \in Items \ contested
      PROVE  /\ Sorted(WritesTo(i), rest) /\ Sorted(WritesTo(i), events)
             /\ Before(WritesTo(i), Range(events), Range(rest))
  <2>1. /\ Sorted(WritesTo(i), queue[l]) /\ Sorted(WritesTo(i), batch[l])
        /\ Before(WritesTo(i), Range(batch[l]), Range(queue[l]))
    BY DEF OrderInv, LineSorted
  <2>2. Sorted(WritesTo(i), rest) /\ Before(WritesTo(i), {j}, Range(rest))
    BY <1>1, <2>1, TailSorted
  <2>3. Before(WritesTo(i), Range(batch[l]), {j})
    BY <2>1, <1>2 DEF Before
  <2>4. Sorted(WritesTo(i), events)
    BY <2>1, <2>3, <1>1, <1>2, AppendSorted
  <2> HIDE DEF j, rest, events
  <2>5. Before(WritesTo(i), Range(events), Range(rest))
    BY <2>1, <2>2, <1>2, <1>3 DEF Before
  <2>6. QED
    BY <2>2, <2>4, <2>5
<1> HIDE DEF j, rest, events
<1>5. /\ Range(events) \cup Range(rest) = Waiting(l) /\ Range(events) \cap Range(rest) = {}
      /\ IsInjective(events)
  BY <1>1, <1>2, <1>3 DEF Waiting
<1>6. Cut(l, rest, events)
  BY <1>2, <1>3, <1>4, <1>5 DEF Cut
<1>7. QED
  BY <1>6 DEF j, rest, events

LEMMA StepGather ==
    ASSUME IInv, NEW l \in Links, NEW rest, NEW events, Cut(l, rest, events),
           queue' = [queue EXCEPT ![l] = rest], batch' = [batch EXCEPT ![l] = events],
           UNCHANGED <<writes, row, pc, req, sending, flight, snap, syncs, dropped, contested>>
    PROVE  IInv'
<1>1. /\ queue' \in [Links -> Seq(Numbers)] /\ batch' \in [Links -> Seq(Numbers)]
      /\ queue'[l] = rest /\ batch'[l] = events
      /\ \A x \in Links : x # l => queue'[x] = queue[x] /\ batch'[x] = batch[x]
  BY DEF Cut, IInv, TypeOK
<1>2. TypeOK'
  BY <1>1 DEF IInv, TypeOK
<1>3. \A x \in Links : Waiting(x)' = Waiting(x)
  BY <1>1 DEF Waiting, Cut
<1>4. \A d \in flight : d.link \in Links
  BY DeliveryFacts DEF IInv, TypeOK
<1>5. /\ \A n : Of(n)' = Of(n)
      /\ \A i : WritesTo(i)' = WritesTo(i)
      /\ \A e : Awaited(e)' <=> Awaited(e)
      /\ \A g \in Handlers, x \in Links : Queues(g, x)' <=> Queues(g, x)
  BY DEF Of, WritesTo, Item, Awaited, Queues
<1>6. \A x \in Links : InLine(x)' = InLine(x)
  BY <1>3, <1>5 DEF InLine
<1>7. \A k, m : OnTheWay(k, m)' <=> OnTheWay(k, m)
  <2>1. \A x \in Links : Range(queue'[x]) \cup Range(batch'[x]) = Range(queue[x]) \cup Range(batch[x])
    BY <1>3 DEF Waiting
  <2>2. QED
    BY <2>1 DEF OnTheWay, Publishing
<1>8. HandlersInv'
  BY <1>5 DEF IInv, HandlersInv, HandlerOK
<1>9. CarriesInv'
  <2>1. \A x \in Links : Waiting(x) \subseteq Of(x[1])
    BY DEF IInv, CarriesInv, Waiting
  <2>2. \A x \in Links : Range(queue'[x]) \cup Range(batch'[x]) \subseteq Of(x[1])
    BY <2>1, <1>3 DEF Waiting
  <2>3. QED
    BY <2>2, <1>5 DEF IInv, CarriesInv, PostOK
<1>10. OnceInv'
  <2>1. \A x \in Links : IsInjective(queue'[x]) /\ IsInjective(batch'[x])
                         /\ Range(queue'[x]) \cap Range(batch'[x]) = {}
    BY <1>1 DEF IInv, OnceInv, Cut
  <2>2. QED
    BY <2>1, <1>3, <1>4, <1>5 DEF IInv, OnceInv
<1>11. OrderInv'
  <2>1. ASSUME NEW i \in Items \ contested, NEW x \in Links PROVE LineSorted(WritesTo(i), x)'
    BY <1>1, <1>5 DEF IInv, OrderInv, LineSorted, Cut
  <2>2. \A i \in Items \ contested : \A d \in flight : PostSorted(WritesTo(i), d)'
    BY <1>3, <1>4, <1>5 DEF IInv, OrderInv, PostSorted
  <2>3. \A i \in Items \ contested : \A d, e \in flight : PostsSorted(WritesTo(i), d, e)'
    BY <1>5 DEF IInv, OrderInv, PostsSorted
  <2>4. QED
    BY <2>1, <2>2, <2>3 DEF OrderInv
<1>12. AloneInv'
  BY <1>7, MovesAlone DEF IInv
<1>13. ReachInv'
  BY <1>6, <1>7, MovesReach DEF IInv
<1>14. QED
  BY <1>2, <1>8, <1>9, <1>10, <1>11, <1>12, <1>13 DEF IInv

\* The posts of the link are ones nobody waits for any more when the next is made.
LEMMA StepPush ==
    ASSUME IInv, NEW l \in Links, NEW rest, NEW events, Cut(l, rest, events),
           sending[l] = <<>>, Push(l, events), queue' = [queue EXCEPT ![l] = rest],
           UNCHANGED <<writes, row, pc, req, snap, syncs, dropped, contested>>
    PROVE  IInv'
<1>1. PICK post : post = [link |-> l, events |-> events, left |-> events]
  OBVIOUS
<1>2. /\ sending' = [sending EXCEPT ![l] = events]
      /\ flight' = flight \cup {post}
      /\ batch' = [batch EXCEPT ![l] = <<>>]
  BY <1>1 DEF Push
<1>3. /\ post.link = l /\ post.events = events /\ post.left = events
      /\ post \in Delivery
      /\ rest \in Seq(Numbers) /\ events \in Seq(Numbers) /\ events # <<>>
  BY <1>1 DEF Delivery, Cut
<1>4. /\ queue' \in [Links -> Seq(Numbers)] /\ batch' \in [Links -> Seq(Numbers)]
      /\ sending' \in [Links -> Seq(Numbers)]
      /\ queue'[l] = rest /\ batch'[l] = <<>> /\ sending'[l] = events
      /\ \A x \in Links : x # l =>
            queue'[x] = queue[x] /\ batch'[x] = batch[x] /\ sending'[x] = sending[x]
  BY <1>2, <1>3, EmptySeq DEF IInv, TypeOK
<1>5. TypeOK'
  BY <1>2, <1>3, <1>4 DEF IInv, TypeOK
<1>6. /\ Waiting(l)' = Range(rest) /\ Waiting(l) = Range(events) \cup Range(rest)
      /\ \A x \in Links : x # l => Waiting(x)' = Waiting(x)
      /\ \A x \in Links : Waiting(x)' \subseteq Waiting(x)
  BY <1>4, EmptyFacts DEF Waiting, Cut
<1>7. \A d \in flight : /\ d \in Delivery /\ d.link \in Links /\ d.events # <<>>
                        /\ Range(d.left) \subseteq Range(d.events)
                        /\ Range(d.events) \cap Waiting(d.link) = {}
  <2>1. \A d \in flight : d \in Delivery /\ d.link \in Links
    BY DeliveryFacts DEF IInv, TypeOK
  <2>2. \A d \in flight : d.events # <<>> /\ Range(d.left) \subseteq Range(d.events)
    BY DEF IInv, CarriesInv, PostOK
  <2>3. \A d \in flight : Range(d.events) \cap Waiting(d.link) = {}
    BY DEF IInv, OnceInv
  <2>4. QED
    BY <2>1, <2>2, <2>3
<1>8. Range(events) # {}
  <2>1. Range(events) = {Head(events)} \cup Range(Tail(events))
    BY <1>3, TailFacts
  <2>2. QED
    BY <2>1
<1>9. /\ Awaited(post)'
      /\ \A d \in flight : d.link = l => ~Awaited(d) /\ ~Awaited(d)'
      /\ \A d \in flight : d.link # l => (Awaited(d)' <=> Awaited(d))
  <2>1. \A d \in flight : d.link = l => d.events # events
    BY <1>6, <1>7, <1>8
  <2>2. QED
    BY <2>1, <1>3, <1>4, <1>7 DEF Awaited
<1>10. /\ \A n : Of(n)' = Of(n)
       /\ \A i : WritesTo(i)' = WritesTo(i)
       /\ \A g \in Handlers, x \in Links : Queues(g, x)' <=> Queues(g, x)
  BY DEF Of, WritesTo, Item, Queues
<1>11. HandlersInv'
  BY <1>10 DEF IInv, HandlersInv, HandlerOK
<1>12. CarriesInv'
  <2>1. \A x \in Links : Waiting(x) \subseteq Of(x[1])
    BY DEF IInv, CarriesInv, Waiting
  <2>2. \A x \in Links : Range(queue'[x]) \cup Range(batch'[x]) \subseteq Of(x[1])
    BY <2>1, <1>6 DEF Waiting
  <2>3. PostOK(post)
    BY <1>3, <1>6, <2>1 DEF PostOK
  <2>4. \A d \in flight' : PostOK(d)'
    BY <1>2, <1>10, <2>3 DEF IInv, CarriesInv, PostOK
  <2>5. QED
    BY <2>2, <2>4, <1>10 DEF IInv, CarriesInv
<1>13. OnceInv'
  <2>1. \A x \in Links : IsInjective(queue'[x]) /\ IsInjective(batch'[x])
                         /\ Range(queue'[x]) \cap Range(batch'[x]) = {}
    BY <1>4, EmptyFacts DEF IInv, OnceInv, Cut
  <2>2. \A g \in Handlers, x \in Links : Queues(g, x) => req[g].write \notin Waiting(x)
    BY DEF IInv, OnceInv
  <2>3. \A d \in flight' : Range(d.events) \cap Waiting(d.link)' = {}
    <3>1. Range(events) \cap Range(rest) = {}
      BY DEF Cut
    <3>2. QED
      BY <3>1, <1>2, <1>3, <1>6, <1>7
  <2>4. \A g \in Handlers, d \in flight' : Queues(g, d.link) => req[g].write \notin Range(d.events)
    BY <2>2, <1>2, <1>3, <1>6 DEF IInv, OnceInv
  <2>5. \A d, e \in flight' : d.link = e.link /\ d # e => Range(d.events) \cap Range(e.events) = {}
    <3>1. \A d \in flight : d.link = l => Range(d.events) \cap Range(events) = {}
      BY <1>6, <1>7
    <3>2. QED
      BY <3>1, <1>2, <1>3 DEF IInv, OnceInv
  <2>6. \A d \in flight' : d.link \in Links
    BY <1>2, <1>3, <1>7
  <2>7. QED
    BY <2>1, <2>2, <2>3, <2>4, <2>5, <2>6, <1>6, <1>10 DEF OnceInv
<1>14. OrderInv'
  <2>1. ASSUME NEW i \in Items \ contested
        PROVE  /\ Sorted(WritesTo(i), rest) /\ Sorted(WritesTo(i), events)
               /\ Before(WritesTo(i), Range(events), Range(rest))
               /\ \A d \in flight : PostSorted(WritesTo(i), d)
    BY DEF IInv, OrderInv, Cut
  <2>2. ASSUME NEW i \in Items \ contested, NEW x \in Links PROVE LineSorted(WritesTo(i), x)'
    BY <2>1, <1>4, <1>10, EmptyFacts DEF IInv, OrderInv, LineSorted, Before
  <2>3. ASSUME NEW i \in Items \ contested, NEW d \in flight' PROVE PostSorted(WritesTo(i), d)'
    <3>1. CASE d = post
      BY <3>1, <2>1, <1>3, <1>6, <1>10 DEF PostSorted
    <3>2. CASE d \in flight
      BY <3>2, <2>1, <1>6, <1>7, <1>10 DEF PostSorted, Before
    <3>3. QED
      BY <3>1, <3>2, <1>2
  <2>4. ASSUME NEW i \in Items \ contested, NEW d \in flight', NEW e \in flight',
               d.link = e.link, ~Awaited(d)', Awaited(e)'
        PROVE  Before(WritesTo(i), Range(d.left), Range(e.left))
    <3>1. d \in flight
      BY <2>4, <1>2, <1>9
    <3>2. CASE e = post
      <4>1. Before(WritesTo(i), Range(d.left), Waiting(l))
        BY <3>1, <3>2, <2>1, <2>4, <1>3 DEF PostSorted
      <4>2. QED
        BY <4>1, <3>2, <1>3, <1>6 DEF Before
    <3>3. CASE e \in flight
      <4>1. ~Awaited(d) /\ Awaited(e)
        BY <2>4, <3>1, <3>3, <1>9
      <4>2. QED
        BY <4>1, <3>1, <3>3, <2>4 DEF IInv, OrderInv, PostsSorted
    <3>4. QED
      BY <3>2, <3>3, <1>2
  <2>5. QED
    BY <2>2, <2>3, <2>4, <1>10 DEF OrderInv, PostsSorted
<1>15. ASSUME NEW x \in Links, NEW j \in InLine(x)' PROVE j \in InLine(x)
  <2>1. \/ j \in Waiting(x)'
        \/ \E d \in flight' : d.link = x /\ Awaited(d)' /\ j \in Range(d.left)
    BY <1>15 DEF InLine
  <2>2. ASSUME NEW d \in flight', d.link = x, Awaited(d)', j \in Range(d.left)
        PROVE  j \in InLine(x)
    <3>1. CASE d = post
      BY <3>1, <2>2, <1>3, <1>6 DEF InLine
    <3>2. CASE d \in flight
      <4>1. Awaited(d)
        BY <2>2, <3>2, <1>9
      <4>2. QED
        BY <4>1, <2>2, <3>2 DEF InLine
    <3>3. QED
      BY <3>1, <3>2, <1>2
  <2>3. QED
    BY <2>1, <2>2, <1>6 DEF InLine
<1>16. ASSUME NEW k \in DOMAIN writes, NEW m \in Nodes
       PROVE  OnTheWay(k, m)' <=> OnTheWay(k, m)
  <2>1. \A x \in Links : /\ Range(queue[x]) \cup Range(batch[x]) = Waiting(x)
                         /\ Range(queue'[x]) \cup Range(batch'[x]) = Waiting(x)'
    BY DEF Waiting
  <2>2. (\E g \in Handlers : Publishing(g, k) /\ m \in Range(req[g].todo))'
            <=> \E g \in Handlers : Publishing(g, k) /\ m \in Range(req[g].todo)
    BY DEF Publishing
  <2>3. ASSUME NEW x \in Links, x[2] = m, k \in Waiting(x)
        PROVE  \/ \E y \in Links : y[2] = m /\ k \in Waiting(y)'
               \/ \E d \in flight' : d.link[2] = m /\ k \in Range(d.left)
    BY <2>3, <1>2, <1>3, <1>6
  <2>4. ASSUME NEW d \in flight', d.link[2] = m, k \in Range(d.left)
        PROVE  \/ \E x \in Links : x[2] = m /\ k \in Waiting(x)
               \/ \E e \in flight : e.link[2] = m /\ k \in Range(e.left)
    BY <2>4, <1>2, <1>3, <1>6
  <2>5. \A d \in flight : d \in flight'
    BY <1>2
  <2>6. QED
    BY <2>1, <2>2, <2>3, <2>4, <2>5, <1>6 DEF OnTheWay
<1>17. AloneInv'
  BY <1>16, MovesAlone DEF IInv
<1>18. ReachInv'
  BY <1>15, <1>16, MovesReach DEF IInv
<1>19. QED
  BY <1>5, <1>11, <1>12, <1>13, <1>14, <1>17, <1>18 DEF IInv

-----------------------------------------------------------------------------
(***************************************************************************)
(* A change: unless the item is contested by it, its earlier writes have   *)
(* all been published, and what of them is on the way is on its links.     *)
(***************************************************************************)
LEMMA StepCommit ==
    ASSUME IInv, NEW h \in Handlers, Commit(h)
    PROVE  IInv'
<1>1. PICK c \in Change, k \in Nat :
          /\ k = Len(writes) + 1 /\ writes' = Append(writes, c)
          /\ row' = Set(c.node, c.item, k) /\ Turn(h, c.node, k, PeersOf[c.node])
          /\ contested' = contested \cup
                 (IF Overlaps(c.node, c.item) THEN {c.item} ELSE {})
  BY DEF Commit, IInv, TypeOK
<1>2. /\ pc[h] = "idle" /\ Len(writes) < MaxWrites
      /\ UNCHANGED <<queue, batch, sending, flight, snap, syncs, dropped>>
  BY DEF Commit
<1> DEFINE n    == c.node
           todo == PeersOf[c.node]
           next == IF todo = <<>> THEN NoRequest
                   ELSE [node |-> n, write |-> k, todo |-> todo]
           where == IF todo = <<>> THEN "idle" ELSE "publish"
<1>3. /\ n \in Nodes /\ c.item \in Items /\ c = [node |-> n, item |-> c.item]
      /\ todo \in Seq(Nodes) /\ IsInjective(todo) /\ Range(todo) \subseteq Nodes
      /\ k \in Numbers
  <2>1. /\ n \in Nodes /\ c.item \in Items /\ c = [node |-> n, item |-> c.item]
    BY DEF Change
  <2>2. todo \in Seq(Nodes) /\ IsInjective(todo) /\ Range(todo) \subseteq Nodes
    BY <2>1, PeersAssumption, RangeFacts
  <2>3. k \in Numbers
    BY <1>1, <1>2, BoundsAssumption DEF IInv, TypeOK, Numbers
  <2>4. QED
    BY <2>1, <2>2, <2>3
<1>4. /\ writes' \in Seq(Change) /\ Len(writes') = k /\ DOMAIN writes' = DOMAIN writes \cup {k}
      /\ k \notin DOMAIN writes /\ writes'[k] = c
      /\ \A j \in DOMAIN writes : writes'[j] = writes[j] /\ j \in Nat /\ j < k
      /\ k <= MaxWrites
  BY <1>1, <1>2, BoundsAssumption DEF IInv, TypeOK
<1>5. next \in Request
  <2>1. NoRequest \in Request
    BY NodesAssumption, BoundsAssumption, EmptySeq DEF NoRequest, Request, Numbers
  <2>2. QED
    BY <1>3, <2>1 DEF Request
<1>6. /\ pc' \in [Handlers -> {"idle", "publish", "drain", "retry"}]
      /\ req' \in [Handlers -> Request]
      /\ pc'[h] = where /\ req'[h] = next
      /\ \A g \in Handlers : g # h => pc'[g] = pc[g] /\ req'[g] = req[g]
  BY <1>1, <1>5 DEF Turn, IInv, TypeOK
<1>7. where # "idle" => /\ next.node = n /\ next.write = k /\ next.todo = todo /\ todo # <<>>
  OBVIOUS
<1>8. where = "idle" => Range(todo) = {}
  BY EmptyFacts
<1> HIDE DEF next, where
<1>9. /\ row' \in [Nodes -> [Items -> Numbers]] /\ row'[n][c.item] = k
      /\ \A m \in Nodes, i \in Items : m # n \/ i # c.item => row'[m][i] = row[m][i]
  <2>1. row \in [Nodes -> [Items -> Numbers]]
    BY DEF IInv, TypeOK
  <2>2. row' = [row EXCEPT ![n] = [row[n] EXCEPT ![c.item] = k]]
    BY <1>1 DEF Set
  <2>3. row[n] \in [Items -> Numbers]
    BY <1>3, <2>1
  <2>4. PICK f : f = [row[n] EXCEPT ![c.item] = k]
    OBVIOUS
  <2>5. /\ f \in [Items -> Numbers] /\ f[c.item] = k
        /\ \A i \in Items : i # c.item => f[i] = row[n][i]
    BY <1>3, <2>3, <2>4
  <2>6. row' = [row EXCEPT ![n] = f]
    BY <2>2, <2>4
  <2>7. QED
    BY <1>3, <2>1, <2>5, <2>6
<1>10. contested \subseteq contested' /\ contested' \subseteq Items
  BY <1>1, <1>3 DEF IInv, TypeOK
<1>11. TypeOK'
  <2>1. UNCHANGED <<queue, batch, sending, flight, snap, syncs, dropped>>
    BY <1>2
  <2>2. Len(writes') <= MaxWrites
    BY <1>4
  <2>3. QED
    BY <1>4, <1>6, <1>9, <1>10, <2>1, <2>2 DEF IInv, TypeOK
<1>12. /\ \A m : Of(m) \subseteq Of(m)'
       /\ k \in Of(n)'
       /\ \A i : WritesTo(i) = WritesTo(i)' \ {k}
       /\ \A i \in Items : k \in WritesTo(i)' <=> i = c.item
  <2>1. \A m : Of(m) \subseteq Of(m)'
    BY <1>4 DEF Of
  <2>2. k \in Of(n)'
    BY <1>4 DEF Of
  <2>3. \A i : WritesTo(i) = WritesTo(i)' \ {k}
    BY <1>4 DEF WritesTo, Item
  <2>4. \A i \in Items : k \in WritesTo(i)' <=> i = c.item
    BY <1>4 DEF WritesTo, Item
  <2>5. QED
    BY <2>1, <2>2, <2>3, <2>4
<1>13. /\ \A x : Waiting(x)' = Waiting(x)
       /\ \A x : InLine(x)' = InLine(x)
       /\ \A e : Awaited(e)' <=> Awaited(e)
  BY <1>2 DEF Waiting, InLine, Awaited
<1>14. \* Nothing knows of the new write yet.
       /\ \A x \in Links : k \notin Waiting(x)
       /\ \A d \in flight : k \notin Range(d.events) /\ k \notin Range(d.left) /\ d.link \in Links
       /\ \A g \in Handlers : pc[g] # "idle" => req[g].write \in DOMAIN writes
  <2>1. \A x \in Links : Waiting(x) \subseteq DOMAIN writes
    BY DEF IInv, CarriesInv, Of, Waiting
  <2>2. \A d \in flight : /\ Range(d.events) \subseteq DOMAIN writes
                          /\ Range(d.left) \subseteq DOMAIN writes
    BY DEF IInv, CarriesInv, PostOK, Of
  <2>3. \A g \in Handlers : pc[g] # "idle" => req[g].write \in DOMAIN writes
    BY DEF IInv, HandlersInv, HandlerOK, Of
  <2>4. \A d \in flight : d.link \in Links
    BY DeliveryFacts DEF IInv, TypeOK
  <2>5. QED
    BY <1>4, <2>1, <2>2, <2>3, <2>4
<1>15. HandlersInv'
  <2>1. ASSUME NEW g \in Handlers, pc'[g] # "idle" PROVE HandlerOK(g)'
    <3>1. CASE g = h
      <4>1. req'[h].node = n /\ req'[h].write = k /\ req'[h].todo = todo /\ todo # <<>>
        BY <2>1, <3>1, <1>6, <1>7
      <4>2. QED
        BY <3>1, <4>1, <1>3, <1>12 DEF HandlerOK
    <3>2. CASE g # h
      <4>1. pc[g] # "idle" /\ req'[g] = req[g]
        BY <2>1, <3>2, <1>6
      <4>2. HandlerOK(g)
        BY <4>1 DEF IInv, HandlersInv
      <4>3. QED
        BY <4>1, <4>2, <1>12 DEF HandlerOK
    <3>3. QED
      BY <3>1, <3>2
  <2>2. ASSUME NEW f \in Handlers, NEW g \in Handlers, pc'[f] # "idle", pc'[g] # "idle",
               req'[f].write = req'[g].write
        PROVE  f = g
    BY <2>2, <1>4, <1>6, <1>7, <1>14 DEF IInv, HandlersInv
  <2>3. QED
    BY <2>1, <2>2 DEF HandlersInv
<1>16. CarriesInv'
  <2>1. \A x \in Links : Range(queue'[x]) \cup Range(batch'[x]) \subseteq Of(x[1])'
    BY <1>2, <1>12 DEF IInv, CarriesInv
  <2>2. \A d \in flight' : PostOK(d)'
    BY <1>2, <1>12 DEF IInv, CarriesInv, PostOK
  <2>3. \A x \in Links : snap'[x] \subseteq DOMAIN writes'
    BY <1>2, <1>4 DEF IInv, CarriesInv
  <2>4. QED
    BY <2>1, <2>2, <2>3 DEF CarriesInv
<1>17. OnceInv'
  <2>1. ASSUME NEW g \in Handlers, NEW x \in Links, Queues(g, x)'
        PROVE  \/ req'[g].write = k
               \/ Queues(g, x) /\ req'[g].write = req[g].write
    <3>1. CASE g = h
      BY <2>1, <3>1, <1>6, <1>7 DEF Queues
    <3>2. CASE g # h
      BY <2>1, <3>2, <1>6 DEF Queues
    <3>3. QED
      BY <3>1, <3>2
  <2>2. \A g \in Handlers, x \in Links : Queues(g, x)' => req'[g].write \notin Waiting(x)
    BY <2>1, <1>14 DEF IInv, OnceInv
  <2>3. \A g \in Handlers, d \in flight : Queues(g, d.link)' => req'[g].write \notin Range(d.events)
    BY <2>1, <1>14 DEF IInv, OnceInv
  <2>4. QED
    BY <2>2, <2>3, <1>2, <1>13 DEF IInv, OnceInv
<1>18. OrderInv'
  <2>1. ASSUME NEW i \in Items \ contested', NEW x \in Links PROVE LineSorted(WritesTo(i), x)'
    <3>1. LineSorted(WritesTo(i), x)
      BY <1>10 DEF IInv, OrderInv
    <3>2. k \notin Range(queue[x]) /\ k \notin Range(batch[x])
      BY <1>14 DEF Waiting
    <3>3. /\ \A p \in DOMAIN queue[x] : queue[x][p] # k
          /\ \A p \in DOMAIN batch[x] : batch[x][p] # k
      BY <3>2 DEF Range
    <3>4. /\ Sorted(WritesTo(i)', queue[x]) /\ Sorted(WritesTo(i)', batch[x])
      BY <3>1, <3>3, <1>12 DEF LineSorted, Sorted
    <3>5. Before(WritesTo(i)', Range(batch[x]), Range(queue[x]))
      BY <3>1, <3>2, <1>12 DEF LineSorted, Before
    <3>6. QED
      BY <3>4, <3>5, <1>2 DEF LineSorted
  <2>2. ASSUME NEW i \in Items \ contested', NEW d \in flight PROVE PostSorted(WritesTo(i), d)'
    <3>1. PostSorted(WritesTo(i), d)
      BY <1>10 DEF IInv, OrderInv
    <3>2. \A p \in DOMAIN d.left : d.left[p] # k
      BY <1>14 DEF Range
    <3>3. Sorted(WritesTo(i)', d.left)
      BY <3>1, <3>2, <1>12 DEF PostSorted, Sorted
    <3>4. Before(WritesTo(i)', Range(d.left), Waiting(d.link))
      BY <3>1, <1>12, <1>14 DEF PostSorted, Before
    <3>5. QED
      BY <3>3, <3>4, <1>13 DEF PostSorted
  <2>3. ASSUME NEW i \in Items \ contested', NEW d \in flight, NEW e \in flight
        PROVE  PostsSorted(WritesTo(i), d, e)'
    <3>1. PostsSorted(WritesTo(i), d, e)
      BY <1>10 DEF IInv, OrderInv
    <3>2. QED
      BY <3>1, <1>12, <1>13, <1>14 DEF PostsSorted, Before
  <2>4. QED
    BY <2>1, <2>2, <2>3, <1>2 DEF OrderInv
<1>19. \A j \in DOMAIN writes, m \in Nodes : OnTheWay(j, m)' <=> OnTheWay(j, m)
  <2>1. \A g \in Handlers, j \in DOMAIN writes : Publishing(g, j)' <=> Publishing(g, j) /\ g # h
    BY <1>2, <1>4, <1>6, <1>7 DEF Publishing
  <2>2. \A g \in Handlers : \A j : Publishing(g, j) => g # h
    BY <1>2 DEF Publishing
  <2>3. \A g \in Handlers : g # h => req'[g] = req[g]
    BY <1>6
  <2>4. QED
    BY <2>1, <2>2, <2>3, <1>2 DEF OnTheWay
<1>20. \* The new write is the last one to its item.
       /\ \A j : IsLast(c.item, j)' <=> j = k
       /\ \A i \in Items : i # c.item =>
             WritesTo(i)' = WritesTo(i) /\ \A j : IsLast(i, j)' <=> IsLast(i, j)
  <2>1. \A j \in WritesTo(c.item) : j \in Nat /\ j < k
    BY <1>4 DEF WritesTo
  <2>2. WritesTo(c.item)' = WritesTo(c.item) \cup {k}
    BY <1>3, <1>12
  <2>3. \A j : IsLast(c.item, j)' <=> j = k
    BY <2>1, <2>2, <1>1 DEF IsLast
  <2>4. \A i \in Items : i # c.item => WritesTo(i)' = WritesTo(i)
    BY <1>12
  <2>5. QED
    BY <2>3, <2>4 DEF IsLast
<1>21. /\ \A j \in DOMAIN writes : Item(j)' = Item(j)
       /\ Item(k)' = c.item
  BY <1>4 DEF Item
<1>22. c.item \notin contested' => ~Overlaps(n, c.item)
  BY <1>1
<1>23. AloneInv'
  <2>1. ASSUME NEW i \in Items \ contested', NEW g \in Handlers, pc'[g] # "idle",
               Item(req[g].write)' = i
        PROVE  IsLast(i, req[g].write)'
    <3>1. CASE g = h
      <4>1. req'[h].write = k
        BY <2>1, <3>1, <1>6, <1>7
      <4>2. i = c.item
        BY <2>1, <3>1, <4>1, <1>21 DEF Item
      <4>3. QED
        BY <3>1, <4>1, <4>2, <1>20 DEF IsLast
    <3>2. CASE g # h
      <4>1. /\ pc[g] # "idle" /\ req'[g] = req[g] /\ req[g].write \in DOMAIN writes
            /\ Item(req[g].write) = i
        BY <2>1, <3>2, <1>6, <1>14, <1>21 DEF Item
      <4>2. i # c.item
        <5>1. CASE i = c.item
          BY <4>1, <5>1, <2>1, <1>22 DEF Overlaps, Publishing, WritesTo
        <5>2. QED
          BY <5>1
      <4>3. IsLast(i, req[g].write)
        BY <4>1, <2>1, <1>10 DEF IInv, AloneInv
      <4>4. QED
        BY <4>1, <4>2, <4>3, <1>20 DEF IsLast
    <3>3. QED
      BY <3>1, <3>2
  <2>2. ASSUME NEW i \in Items \ contested', NEW l \in WritesTo(i)', IsLast(i, l)',
               NEW j \in WritesTo(i)', NEW m \in Nodes, OnTheWay(j, m)'
        PROVE  writes'[j].node = writes'[l].node
    <3>1. CASE i # c.item
      <4>1. l \in WritesTo(i) /\ j \in WritesTo(i) /\ IsLast(i, l)
        BY <2>2, <3>1, <1>20
      <4>2. j \in DOMAIN writes /\ l \in DOMAIN writes
        BY <4>1 DEF WritesTo
      <4>3. writes[j].node = writes[l].node
        BY <4>1, <4>2, <2>2, <1>10, <1>19 DEF IInv, AloneInv
      <4>4. QED
        BY <4>2, <4>3, <1>4
    <3>2. CASE i = c.item
      <4>1. l = k /\ writes'[l].node = n
        BY <2>2, <3>2, <1>4, <1>20
      <4>2. CASE j = k
        BY <4>1, <4>2
      <4>3. CASE j # k
        <5>1. j \in WritesTo(c.item) /\ j \in DOMAIN writes
          BY <4>3, <2>2, <3>2, <1>12 DEF WritesTo
        <5>2. OnTheWay(j, m)
          BY <5>1, <2>2, <1>19
        <5>3. writes[j].node = n
          BY <5>1, <5>2, <2>2, <3>2, <1>22 DEF Overlaps
        <5>4. QED
          BY <4>1, <5>1, <5>3, <1>4
      <4>4. QED
        BY <4>2, <4>3
    <3>3. QED
      BY <3>1, <3>2
  <2>3. QED
    BY <2>1, <2>2 DEF AloneInv
<1>24. ReachInv'
  <2>1. SUFFICES ASSUME NEW i \in Items \ contested', NEW l \in WritesTo(i)', IsLast(i, l)',
                        NEW o \in Nodes, o = writes'[l].node
                 PROVE  /\ row'[o][i] = l
                        /\ \A p \in Range(PeersOf[o]) :
                              OnTheWay(l, p)' \/ <<l, p>> \in dropped' \/ Settled(i, l, <<o, p>>)'
    <3>1. \A j \in DOMAIN writes' : writes'[j] \in Change
      BY <1>4
    <3>2. \A j \in DOMAIN writes' : writes'[j].node \in Nodes
      BY <3>1 DEF Change
    <3>3. \A i : WritesTo(i)' \subseteq DOMAIN writes'
      BY DEF WritesTo
    <3>4. QED
      BY <2>1, <3>2, <3>3 DEF ReachInv
  <2>2. CASE i = c.item
    <3>1. l = k /\ o = n
      BY <2>1, <2>2, <1>4, <1>20
    <3>2. row'[o][i] = l
      BY <3>1, <2>2, <1>9
    <3>3. ASSUME NEW p \in Range(PeersOf[o]) PROVE OnTheWay(l, p)'
      <4>1. p \in Range(todo)
        BY <3>1, <3>3
      <4>2. where # "idle"
        BY <4>1, <1>8
      <4>3. Publishing(h, k)' /\ p \in Range(req'[h].todo)
        BY <4>1, <4>2, <1>6, <1>7 DEF Publishing
      <4>4. QED
        BY <3>1, <4>3 DEF OnTheWay
    <3>4. QED
      BY <3>2, <3>3
  <2>3. CASE i # c.item
    <3>1. l \in WritesTo(i) /\ IsLast(i, l) /\ i \in Items \ contested
      BY <2>1, <2>3, <1>10, <1>20
    <3>2. l \in DOMAIN writes /\ o = writes[l].node
      BY <3>1, <2>1, <1>4 DEF WritesTo
    <3>3. /\ row[o][i] = l
          /\ \A p \in Range(PeersOf[o]) :
                OnTheWay(l, p) \/ <<l, p>> \in dropped \/ Settled(i, l, <<o, p>>)
      BY <3>1, <3>2 DEF IInv, ReachInv
    <3>4. \A m \in Nodes : row'[m][i] = row[m][i]
      BY <2>3, <1>9
    <3>5. ASSUME NEW p \in Range(PeersOf[o])
          PROVE  OnTheWay(l, p)' \/ <<l, p>> \in dropped' \/ Settled(i, l, <<o, p>>)'
      <4>1. p \in Nodes
        BY PeersAssumption, RangeFacts
      <4>2. Settled(i, l, <<o, p>>) => Settled(i, l, <<o, p>>)'
        BY <4>1, <3>4, <2>3, <1>13, <1>20 DEF Settled
      <4>3. QED
        BY <3>2, <3>3, <4>1, <4>2, <1>2, <1>19
    <3>6. QED
      BY <3>3, <3>4, <3>5
  <2>4. QED
    BY <2>2, <2>3
<1>25. QED
  BY <1>11, <1>15, <1>16, <1>17, <1>18, <1>23, <1>24 DEF IInv

-----------------------------------------------------------------------------
(***************************************************************************)
(* The theorems.                                                           *)
(***************************************************************************)
LEMMA InitHolds == Init => IInv
<1> SUFFICES ASSUME Init PROVE IInv
  OBVIOUS
<1>1. DOMAIN writes = {} /\ writes \in Seq(Change) /\ Len(writes) = 0
  BY EmptySeq DEF Init
<1>2. TypeOK
  <2>1. NoRequest \in Request /\ 0 \in Numbers /\ 0 <= MaxWrites /\ 0 \in 0 .. MaxSyncs
    BY NodesAssumption, BoundsAssumption, EmptySeq DEF NoRequest, Request, Numbers
  <2>2. <<>> \in Seq(Numbers)
    BY EmptySeq
  <2>3. QED
    BY <1>1, <2>1, <2>2 DEF Init, TypeOK
<1>3. /\ \A l \in Links : queue[l] = <<>> /\ batch[l] = <<>> /\ snap[l] = {}
      /\ \A h \in Handlers : pc[h] = "idle"
      /\ flight = {}
  BY DEF Init
<1>4. Range(<<>>) = {} /\ IsInjective(<<>>) /\ \A W : Sorted(W, <<>>)
  BY EmptyFacts
<1>5. HandlersInv /\ CarriesInv
  BY <1>3, <1>4 DEF HandlersInv, CarriesInv
<1>6. OnceInv
  BY <1>3, <1>4 DEF OnceInv, Queues, Waiting
<1>7. OrderInv
  BY <1>3, <1>4 DEF OrderInv, LineSorted, Before
<1>8. \A i : WritesTo(i) = {}
  BY <1>1 DEF WritesTo
<1>9. AloneInv /\ ReachInv
  BY <1>3, <1>8 DEF AloneInv, ReachInv
<1>10. QED
  BY <1>2, <1>5, <1>6, <1>7, <1>9 DEF IInv

LEMMA Step == IInv /\ [Next]_vars => IInv'
<1> SUFFICES ASSUME IInv, [Next]_vars PROVE IInv'
  OBVIOUS
<1>1. ASSUME NEW h \in Handlers, Commit(h) PROVE IInv'
  BY <1>1, StepCommit
<1>2. ASSUME NEW h \in Handlers, Publisher(h) PROVE IInv'
  <2>1. CASE Send(h)
    <3>1. /\ pc[h] # "idle" /\ Enqueue(h) /\ NextPeer(h)
          /\ UNCHANGED <<writes, row, batch, sending, flight, snap, syncs, dropped, contested>>
      BY <2>1 DEF Send, history
    <3>2. QED
      BY <3>1, StepEnqueue
  <2>2. CASE Full(h)
    BY <2>2, StepFull
  <2>3. CASE Drain(h)
    BY <2>3, StepDrain
  <2>4. CASE Retry(h) /\ Enqueue(h) /\ dropped' = dropped
    <3>1. /\ pc[h] # "idle" /\ NextPeer(h)
          /\ UNCHANGED <<writes, row, batch, sending, flight, snap, syncs, dropped, contested>>
      BY <2>4 DEF Retry
    <3>2. QED
      BY <2>4, <3>1, StepEnqueue
  <2>5. CASE /\ Retry(h) /\ queue' = queue
             /\ dropped' = dropped \cup {<<req[h].write, Target(h)[2]>>}
    <3>1. /\ pc[h] # "idle" /\ NextPeer(h)
          /\ UNCHANGED <<writes, row, queue, batch, sending, flight, snap, syncs, contested>>
      BY <2>5 DEF Retry
    <3>2. QED
      BY <2>5, <3>1, StepNoRoom
  <2>6. QED
    BY <1>2, <2>1, <2>2, <2>3, <2>4, <2>5 DEF Publisher, Retry
<1>3. ASSUME NEW l \in Links, Worker(l) PROVE IInv'
  <2>1. CASE Take(l)
    <3> DEFINE events == Append(batch[l], Head(queue[l]))
    <3>1. /\ sending[l] = <<>> /\ queue[l] # <<>>
          /\ queue' = [queue EXCEPT ![l] = Tail(queue[l])]
          /\ \/ Push(l, events)
             \/ batch' = [batch EXCEPT ![l] = events] /\ UNCHANGED <<sending, flight>>
          /\ UNCHANGED <<writes, row, pc, req, snap, syncs, dropped, contested>>
      BY <2>1 DEF Take, history
    <3>2. Cut(l, Tail(queue[l]), events)
      BY <3>1, TakeCut DEF IInv
    <3> HIDE DEF events
    <3>3. CASE Push(l, events)
      BY <3>1, <3>2, <3>3, StepPush
    <3>4. CASE batch' = [batch EXCEPT ![l] = events] /\ UNCHANGED <<sending, flight>>
      BY <3>1, <3>2, <3>4, StepGather
    <3>5. QED
      BY <3>1, <3>3, <3>4
  <2>2. CASE Tick(l)
    <3>1. /\ sending[l] = <<>> /\ batch[l] # <<>> /\ Push(l, batch[l])
          /\ UNCHANGED <<writes, row, pc, req, queue, snap, syncs, dropped, contested>>
      BY <2>2 DEF Tick, history
    <3>2. Cut(l, queue[l], batch[l])
      BY <3>1, TickCut DEF IInv
    <3>3. queue' = [queue EXCEPT ![l] = queue[l]]
      BY <3>1 DEF IInv, TypeOK
    <3>4. QED
      BY <3>1, <3>2, <3>3, StepPush
  <2>3. CASE PushDone(l)
    BY <2>3, StepPushDone
  <2>4. CASE PushFails(l)
    BY <2>4, StepPushFails
  <2>5. QED
    BY <1>3, <2>1, <2>2, <2>3, <2>4 DEF Worker
<1>4. ASSUME NEW d \in flight, Apply(d) \/ ApplyFails(d) \/ Abort(d) PROVE IInv'
  BY <1>4, StepApply, StepApplyFails, StepAbort
<1>5. ASSUME NEW l \in Links, Fetch(l) \/ ApplySnapshot(l) PROVE IInv'
  BY <1>5, StepFetch, StepApplySnapshot
<1>6. ASSUME NEW n \in Nodes, Restart(n) PROVE IInv'
  BY <1>6, StepRestart
<1>7. CASE UNCHANGED vars
  <2>1. UNCHANGED <<writes, row, pc, req, queue, batch, sending, flight, snap, syncs,
                    dropped, contested>>
    BY <1>7 DEF vars
  <2>2. TypeOK'
    BY <2>1 DEF IInv, TypeOK
  <2>3. /\ HandlersInv' /\ CarriesInv' /\ OnceInv' /\ OrderInv'
        /\ \A x \in Links : InLine(x)' \subseteq InLine(x)
        /\ \A k \in DOMAIN writes, m \in Nodes : OnTheWay(k, m)' => OnTheWay(k, m)
    BY <2>1, LossKeeps DEF IInv
  <2>4. \A k \in DOMAIN writes, m \in Nodes : OnTheWay(k, m) => OnTheWay(k, m)'
    BY <2>1 DEF OnTheWay, Publishing
  <2>5. AloneInv'
    BY <2>1, <2>3, MovesAlone DEF IInv
  <2>6. ReachInv'
    BY <2>1, <2>3, <2>4, MovesReach DEF IInv
  <2>7. QED
    BY <2>2, <2>3, <2>5, <2>6 DEF IInv
<1>8. QED
  BY <1>1, <1>2, <1>3, <1>4, <1>5, <1>6, <1>7 DEF Next, Receiver

\* Whatever is lost, delayed or restarted, the invariant of replication holds
\* (internal/geored).
THEOREM Invariance == Spec => []IInv
<1>1. Init => IInv
  BY InitHolds
<1>2. IInv /\ [Next]_vars => IInv'
  BY Step
<1>3. QED
  BY <1>1, <1>2, PTL DEF Spec

\* Queues, batches and posts exist for the configured links and carry writes; what is
\* lost is a write and a node.
THEOREM TypeCorrect == Spec => []TypeOK
<1>1. IInv => TypeOK
  BY DEF IInv
<1>2. QED
  BY <1>1, Invariance, PTL

\* The last write to an item whose writes have not overlapped is what its node has, and
\* each peer has it, is about to get it, or has lost that very write: full queues,
\* batches, failed or late posts, restarts and snapshots never let an earlier one win
\* (geored/client.go, geored/handlers.go).
THEOREM LastWriteWins == Spec => []LastWriteReaches
<1>1. IInv => LastWriteReaches
  <2> SUFFICES ASSUME IInv, NEW i \in Items \ contested, NEW k \in WritesTo(i),
                      \A j \in WritesTo(i) : j <= k,
                      NEW n, n = writes[k].node
               PROVE  /\ row[n][i] = k
                      /\ \A m \in Range(PeersOf[n]) :
                            row[m][i] = k \/ OnTheWay(k, m) \/ <<k, m>> \in dropped
    BY DEF LastWriteReaches
  <2>1. IsLast(i, k)
    BY DEF IsLast
  <2>2. /\ row[n][i] = k
        /\ \A m \in Range(PeersOf[n]) :
              OnTheWay(k, m) \/ <<k, m>> \in dropped \/ Settled(i, k, <<n, m>>)
    BY <2>1 DEF IInv, ReachInv
  <2>3. QED
    BY <2>2 DEF Settled
<1>2. QED
  BY <1>1, Invariance, PTL

\* An event on a link is in one place: no peer is given it twice, for a post whose
\* outcome is unknown is not made again (geored/client.go).
THEOREM GivenOnce == Spec => []DeliveredOnce
<1>1. IInv => DeliveredOnce
  <2> SUFFICES ASSUME IInv, NEW l \in Links
               PROVE  /\ IsInjective(batch[l] \o queue[l])
                      /\ \A d \in {x \in flight : x.link = l} :
                            Range(d.left) \cap Range(batch[l] \o queue[l]) = {}
                      /\ \A d, e \in {x \in flight : x.link = l} :
                            d # e => Range(d.left) \cap Range(e.left) = {}
    BY DEF DeliveredOnce
  <2>1. queue[l] \in Seq(Numbers) /\ batch[l] \in Seq(Numbers)
    BY DEF IInv, TypeOK
  <2>2. /\ IsInjective(queue[l]) /\ IsInjective(batch[l])
        /\ Range(batch[l]) \cap Range(queue[l]) = {}
    BY DEF IInv, OnceInv
  <2>3. /\ IsInjective(batch[l] \o queue[l])
        /\ Range(batch[l] \o queue[l]) = Waiting(l)
    BY <2>1, <2>2, ConcatFacts DEF Waiting
  <2>4. \A d \in flight : Range(d.left) \subseteq Range(d.events)
    BY DEF IInv, CarriesInv, PostOK
  <2>5. /\ \A d \in flight : d.link = l => Range(d.events) \cap Waiting(l) = {}
        /\ \A d, e \in flight : d.link = l /\ e.link = l /\ d # e =>
              Range(d.events) \cap Range(e.events) = {}
    BY DEF IInv, OnceInv
  <2>6. \A d \in flight : d.link = l => Range(d.left) \cap Waiting(l) = {}
    BY <2>4, <2>5
  <2>7. \A d, e \in flight : d.link = l /\ e.link = l /\ d # e =>
            Range(d.left) \cap Range(e.left) = {}
    BY <2>4, <2>5
  <2>8. QED
    BY <2>3, <2>6, <2>7
<1>2. QED
  BY <1>1, Invariance, PTL

\* The writes to an item that no other write to it has overlapped are on each link in
\* the order they were committed in: in a post, then in the batch, then in the queue, and
\* in posts nobody waits for before the awaited one.
THEOREM InOrder == Spec => []OrderInv
<1>1. IInv => OrderInv
  BY DEF IInv
<1>2. QED
  BY <1>1, Invariance, PTL
=============================================================================
