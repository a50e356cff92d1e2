----------------------------- MODULE MobilityProofs -----------------------------
(***************************************************************************)
(* Proofs about Mobility, for every number of handlers, nodes and requests.*)
(***************************************************************************)
EXTENDS MobilityInv, TLAPS

USE KindsAssumption, NodesAssumption, RequestsAssumption

-----------------------------------------------------------------------------
(***************************************************************************)
(* Types.                                                                  *)
(***************************************************************************)
\* The columns a request updates, at least one of them when it attaches or purges.
LEMMA UpdatesFacts ==
    /\ <<>> \in ColumnLists
    /\ \A kind \in AllKinds : \A columns \in Updates(kind) :
          /\ columns \in ColumnLists
          /\ kind \in AllKinds \ {"put", "clr"} => columns # <<>>
          /\ kind = "ulr" => columns = <<"mme">>
<1>1. /\ <<>> \in ColumnLists
      /\ <<"mme">> \in ColumnLists /\ <<"mme">> # <<>>
      /\ <<"sgsn">> \in ColumnLists /\ <<"sgsn">> # <<>>
      /\ <<"vlr">> \in ColumnLists /\ <<"vlr">> # <<>>
      /\ <<"msc">> \in ColumnLists /\ <<"msc">> # <<>>
      /\ <<"amf">> \in ColumnLists /\ <<"amf">> # <<>>
      /\ <<"vlr", "msc">> \in ColumnLists /\ <<"vlr", "msc">> # <<>>
  BY DEF ColumnLists, Columns
<1>2. QED
  BY <1>1 DEF Updates, AllKinds

LEMMA ColumnSeqs == ColumnLists \subseteq Seq(Columns)
  BY DEF ColumnLists

\* A handler that returns leaves its locals typed.
LEMMA FinishTyped ==
    ASSUME TypeOK, NEW h \in Handlers, Finish(h)
    PROVE  /\ pc' \in [Handlers -> PCs]
           /\ req' \in [Handlers -> Request]
           /\ copy' \in [Handlers -> Rows \cup {None}]
           /\ left' \in [Handlers -> Seq(Columns)]
<1>1. NoRequest \in Request
  BY DEF NoRequest, Request, AllKinds
<1>2. <<>> \in Seq(Columns) /\ "idle" \in PCs
  BY DEF PCs
<1>3. QED
  BY <1>1, <1>2 DEF Finish, Goto, TypeOK

\* After an UPDATE, a handler goes on to the next column, to publishing, or home.
LEMMA AfterWriteTyped ==
    ASSUME TypeOK, NEW h \in Handlers, AfterWrite(h), left[h] # <<>>
    PROVE  /\ pc' \in [Handlers -> PCs]
           /\ req' \in [Handlers -> Request]
           /\ copy' \in [Handlers -> Rows \cup {None}]
           /\ left' \in [Handlers -> Seq(Columns)]
<1>1. left[h] \in Seq(Columns) /\ Tail(left[h]) \in Seq(Columns)
  BY DEF TypeOK
<1>2. QED
  BY <1>1, FinishTyped DEF AfterWrite, Goto, PCs, TypeOK

\* Every step keeps the types.
LEMMA TypeStep ==
    ASSUME TypeOK, LocalInv, [Next]_vars
    PROVE  TypeOK'
<1>1. ASSUME NEW h \in Handlers, Receive(h) PROVE TypeOK'
  <2>1. PICK kind \in Kinds :
            /\ \E node \in Senders(kind), on \in Flags(kind) :
                  req' = [req EXCEPT ![h] =
                             [id |-> requests', kind |-> kind, node |-> node, on |-> on]]
            /\ \E columns \in Updates(kind) : left' = [left EXCEPT ![h] = columns]
            /\ Goto(h, Entry(kind))
    BY <1>1 DEF Receive
  <2>2. req' \in [Handlers -> Request]
    <3>1. PICK node \in Senders(kind), on \in Flags(kind) :
              req' = [req EXCEPT ![h] =
                         [id |-> requests', kind |-> kind, node |-> node, on |-> on]]
      BY <2>1
    <3>2. node \in Nodes \cup {Nobody} /\ on \in BOOLEAN
      BY DEF Senders, Flags
    <3>3. requests' \in Nat /\ kind \in AllKinds
      BY <1>1 DEF Receive, TypeOK
    <3>4. [id |-> requests', kind |-> kind, node |-> node, on |-> on] \in Request
      BY <3>2, <3>3 DEF Request
    <3>5. QED
      BY <3>1, <3>4 DEF TypeOK
  <2>3. left' \in [Handlers -> Seq(Columns)]
    <3>1. PICK columns \in Updates(kind) : left' = [left EXCEPT ![h] = columns]
      BY <2>1
    <3>2. columns \in Seq(Columns)
      BY UpdatesFacts, ColumnSeqs
    <3>3. QED
      BY <3>1, <3>2 DEF TypeOK
  <2>4. Entry(kind) \in PCs
    BY DEF Entry, PCs
  <2>5. QED
    BY <2>1, <2>2, <2>3, <2>4, <1>1 DEF Receive, Goto, TypeOK
<1>2. ASSUME NEW h \in Handlers, LoadCached(h) PROVE TypeOK'
  BY <1>2 DEF LoadCached, Goto, PCs, TypeOK, rest, locals
<1>3. ASSUME NEW h \in Handlers, LoadRow(h) PROVE TypeOK'
  BY <1>3 DEF LoadRow, Goto, PCs, TypeOK, rest, locals
<1>4. ASSUME NEW h \in Handlers, FillCache(h) PROVE TypeOK'
  <2>1. copy[h] \in Rows
    BY <1>4 DEF FillCache, LocalInv, LocalOK
  <2>2. overlap' \in BOOLEAN
    BY <1>4 DEF FillCache
  <2>3. QED
    BY <1>4, <2>1, <2>2 DEF FillCache, Goto, PCs, TypeOK
<1>5. ASSUME NEW h \in Handlers, Refuse(h) PROVE TypeOK'
  BY <1>5, FinishTyped DEF Refuse, TypeOK, rest
<1>6. ASSUME NEW h \in Handlers, Admit(h) PROVE TypeOK'
  <2>1. ClrDue(h) => NoticeOf(h) \in Notice
    <3> SUFFICES ASSUME ClrDue(h) PROVE NoticeOf(h) \in Notice
      OBVIOUS
    <3>1. copy[h] \in Rows
      BY <1>6 DEF Admit, LocalInv, LocalOK
    <3>2. OldMme(h) \in Nodes
      BY <3>1 DEF ClrDue, OldMme, Rows, Columns
    <3>3. req[h].id \in Nat
      BY DEF TypeOK, Request
    <3>4. QED
      BY <3>2, <3>3 DEF NoticeOf, Notice
  <2>2. noticed' \subseteq Notice /\ outbox' \subseteq Notice
    BY <1>6, <2>1 DEF Admit, TypeOK
  <2>3. QED
    BY <1>6, <2>2 DEF Admit, Goto, PCs, TypeOK
<1>7. ASSUME NEW h \in Handlers, Cancel(h) PROVE TypeOK'
  BY <1>7, FinishTyped DEF Cancel, TypeOK, rest
<1>8. ASSUME NEW h \in Handlers, Invalidate(h) PROVE TypeOK'
  BY <1>8 DEF Invalidate, Goto, PCs, TypeOK, rest, locals
<1>9. ASSUME NEW h \in Handlers, Write(h) PROVE TypeOK'
  <2>1. /\ pc' \in [Handlers -> PCs]
        /\ req' \in [Handlers -> Request]
        /\ copy' \in [Handlers -> Rows \cup {None}]
        /\ left' \in [Handlers -> Seq(Columns)]
    BY <1>9, AfterWriteTyped, FinishTyped DEF Write, LocalInv, LocalOK, Updating
  <2>2. row' \in Rows
    <3>1. req[h].node \in Nodes \cup {Nobody}
      BY DEF TypeOK, Request
    <3>2. Written(h) \in [Columns -> Nodes \cup {Nobody}]
      BY <3>1 DEF Written, TypeOK, Rows
    <3>3. row.enabled \in BOOLEAN
      BY DEF TypeOK, Rows
    <3>4. QED
      BY <1>9, <3>2, <3>3 DEF Write, Rows
  <2>3. overlap' \in BOOLEAN
    BY <1>9 DEF Write
  <2>4. QED
    BY <1>9, <2>1, <2>2, <2>3 DEF Write, TypeOK
<1>10. ASSUME NEW h \in Handlers, WriteFails(h) PROVE TypeOK'
  <2>1. /\ pc' \in [Handlers -> PCs]
        /\ req' \in [Handlers -> Request]
        /\ copy' \in [Handlers -> Rows \cup {None}]
        /\ left' \in [Handlers -> Seq(Columns)]
    BY <1>10, AfterWriteTyped, FinishTyped DEF WriteFails, LocalInv, LocalOK, Updating
  <2>2. QED
    BY <1>10, <2>1 DEF WriteFails, TypeOK, rest
<1>11. ASSUME NEW h \in Handlers, Publish(h) PROVE TypeOK'
  <2>1. PICK columns \in Updates(req[h].kind) :
            published' = [c \in Columns |->
                IF \E i \in DOMAIN columns : columns[i] = c THEN req[h].node ELSE published[c]]
    BY <1>11 DEF Publish
  <2>2. req[h].node \in Nodes \cup {Nobody}
    BY DEF TypeOK, Request
  <2>3. published' \in [Columns -> Nodes \cup {Nobody}]
    BY <2>1, <2>2 DEF TypeOK
  <2>4. QED
    BY <1>11, <2>3, FinishTyped DEF Publish, TypeOK
<1>12. ASSUME NEW h \in Handlers, ApiRead(h) PROVE TypeOK'
  BY <1>12 DEF ApiRead, Goto, PCs, TypeOK, rest, locals
<1>13. ASSUME NEW h \in Handlers, ApiSave(h) PROVE TypeOK'
  <2>1. copy[h] \in Rows /\ req[h].on \in BOOLEAN
    BY <1>13 DEF ApiSave, LocalInv, LocalOK, TypeOK, Request
  <2>2. [c \in Columns |-> IF c \in Kept THEN copy[h].serving[c] ELSE Nobody]
           \in [Columns -> Nodes \cup {Nobody}]
    BY <2>1 DEF Rows
  <2>3. row' \in Rows
    BY <1>13, <2>1, <2>2 DEF ApiSave, Rows
  <2>4. overlap' \in BOOLEAN
    BY <1>13 DEF ApiSave
  <2>5. QED
    BY <1>13, <2>3, <2>4 DEF ApiSave, Goto, PCs, TypeOK
<1>14. ASSUME NEW h \in Handlers, ApiPurge(h) PROVE TypeOK'
  <2>1. [id |-> req[h].id, kind |-> "clr", node |-> Nobody, on |-> FALSE] \in Request
    BY DEF TypeOK, Request, AllKinds
  <2>2. /\ pc' \in [Handlers -> PCs]
        /\ req' \in [Handlers -> Request]
        /\ copy' \in [Handlers -> Rows \cup {None}]
        /\ left' \in [Handlers -> Seq(Columns)]
    <3>1. CASE Finish(h)
      BY <3>1, FinishTyped
    <3>2. CASE ~Finish(h)
      <4>1. /\ pc' = [pc EXCEPT ![h] = "load"] /\ UNCHANGED left
            /\ req' = [req EXCEPT ![h] =
                          [id |-> req[h].id, kind |-> "clr", node |-> Nobody, on |-> FALSE]]
            /\ copy' = [copy EXCEPT ![h] = None]
        BY <1>14, <3>2 DEF ApiPurge, Goto
      <4>2. "load" \in PCs
        BY DEF PCs
      <4>3. QED
        BY <2>1, <4>1, <4>2 DEF TypeOK
    <3>3. QED
      BY <3>1, <3>2
  <2>3. QED
    BY <1>14, <2>2 DEF ApiPurge, TypeOK
<1>15. ASSUME NEW h \in Handlers, Fail(h) PROVE TypeOK'
  BY <1>15, FinishTyped DEF Fail, TypeOK, rest
<1>16. ASSUME NEW n \in outbox, SendClr(n) PROVE TypeOK'
  BY <1>16 DEF SendClr, TypeOK, locals
<1>17. ASSUME CacheExpire PROVE TypeOK'
  BY <1>17 DEF CacheExpire, TypeOK, locals, rest
<1>18. ASSUME Restart PROVE TypeOK'
  <2>1. NoRequest \in Request /\ <<>> \in Seq(Columns) /\ "idle" \in PCs
    BY DEF NoRequest, Request, AllKinds, PCs
  <2>2. QED
    BY <1>18, <2>1 DEF Restart, TypeOK
<1>19. ASSUME UNCHANGED vars PROVE TypeOK'
  BY <1>19 DEF vars, TypeOK
<1>20. QED
  BY <1>1, <1>2, <1>3, <1>4, <1>5, <1>6, <1>7, <1>8, <1>9, <1>10, <1>11, <1>12, <1>13, <1>14, <1>15, <1>16, <1>17, <1>18, <1>19 DEF Next

-----------------------------------------------------------------------------
(***************************************************************************)
(* The locals of the handlers.                                             *)
(***************************************************************************)
\* A step of one handler leaves the locals of the others alone.
OthersKeep(h) ==
    \A k \in Handlers \ {h} :
       pc'[k] = pc[k] /\ req'[k] = req[k] /\ copy'[k] = copy[k] /\ left'[k] = left[k]

LEMMA OneMoves ==
    ASSUME TypeOK, NEW h \in Handlers,
           \/ Receive(h) \/ LoadCached(h) \/ LoadRow(h) \/ FillCache(h) \/ Refuse(h)
           \/ Admit(h) \/ Cancel(h) \/ Invalidate(h) \/ Write(h) \/ WriteFails(h)
           \/ Publish(h) \/ ApiRead(h) \/ ApiSave(h) \/ ApiPurge(h) \/ Fail(h)
    PROVE  OthersKeep(h) /\ requests' >= requests
<1>1. Receive(h) => OthersKeep(h) /\ requests' >= requests
  <2>1. ASSUME Receive(h) PROVE OthersKeep(h)
    BY <2>1 DEF Receive, Goto, OthersKeep, TypeOK
  <2>2. ASSUME Receive(h) PROVE requests' >= requests
    BY <2>2 DEF Receive, TypeOK
  <2>3. QED
    BY <2>1, <2>2
<1>2. Finish(h) => OthersKeep(h)
  BY DEF Finish, Goto, OthersKeep, TypeOK
<1>3. AfterWrite(h) => OthersKeep(h)
  BY <1>2 DEF AfterWrite, Goto, OthersKeep, TypeOK
<1>4. \/ LoadCached(h) \/ LoadRow(h) \/ FillCache(h) \/ Admit(h) \/ Invalidate(h) \/ ApiRead(h)
      \/ ApiSave(h)
      => OthersKeep(h) /\ requests' = requests
  BY DEF LoadCached, LoadRow, FillCache, Admit, Invalidate, ApiRead, ApiSave,
     Goto, OthersKeep, TypeOK, rest
<1>5. ApiPurge(h) => OthersKeep(h) /\ requests' = requests
  BY <1>2 DEF ApiPurge, Goto, OthersKeep, TypeOK
<1>6. Refuse(h) \/ Cancel(h) \/ Fail(h) \/ Publish(h)
      => OthersKeep(h) /\ requests' = requests
  BY <1>2 DEF Refuse, Cancel, Fail, Publish, rest
<1>7. Write(h) \/ WriteFails(h) => OthersKeep(h) /\ requests' = requests
  BY <1>2, <1>3 DEF Write, WriteFails, rest
<1>8. requests \in Nat
  BY DEF TypeOK
<1>9. QED
  BY <1>1, <1>4, <1>5, <1>6, <1>7, <1>8

\* It is enough to look at the handler that moves.
LEMMA LocalFrame ==
    ASSUME TypeOK, TypeOK', LocalInv, NEW h \in Handlers,
           OthersKeep(h), requests' >= requests, LocalOK(h)'
    PROVE  LocalInv'
<1> SUFFICES ASSUME NEW k \in Handlers, k # h PROVE LocalOK(k)'
  BY DEF LocalInv
<1>1. pc'[k] = pc[k] /\ req'[k] = req[k] /\ copy'[k] = copy[k] /\ left'[k] = left[k]
  BY DEF OthersKeep
<1>2. requests \in Nat /\ requests' \in Nat /\ req[k].id \in Nat
  BY DEF TypeOK, Request
<1>3. req[k].id <= requests' <=> req'[k].id <= requests'
  BY <1>1
<1>4. req[k].id <= requests
  BY DEF LocalInv, LocalOK
<1>5. QED
  BY <1>1, <1>2, <1>3, <1>4 DEF LocalInv, LocalOK, Attaches

\* A list of two columns or more, and what is left of it.
LEMMA LongLists ==
    ASSUME NEW s \in ColumnLists, Len(s) > 1
    PROVE  s # <<"mme">> /\ Tail(s) \in ColumnLists /\ Tail(s) # <<>>
<1>1. Len(<<"mme">>) = 1 /\ Len(<<>>) = 0
  OBVIOUS
<1>2. s = <<"mme">> => Len(s) = 1
  BY <1>1, Zenon
<1>3. s \in Seq(Columns \ {"sms"})
  BY DEF ColumnLists
<1>4. Tail(s) \in Seq(Columns \ {"sms"}) /\ Len(Tail(s)) = Len(s) - 1 /\ Len(s) \in Nat
  BY <1>3
<1>5. Tail(s) = <<>> => Len(Tail(s)) = 0
  BY <1>1, Zenon
<1>6. s # <<"mme">>
  <2>1. Len(s) # 1
    BY <1>4
  <2>2. QED
    BY <2>1, <1>2, Zenon
<1>7. Tail(s) # <<>>
  <2>1. Len(Tail(s)) # 0
    BY <1>4
  <2>2. QED
    BY <2>1, <1>5, Zenon
<1>8. QED
  BY <1>4, <1>6, <1>7, Zenon DEF ColumnLists

\* A handler that returns.
LEMMA FinishLocal ==
    ASSUME TypeOK, TypeOK', NEW h \in Handlers, Finish(h)
    PROVE  LocalOK(h)' /\ pc'[h] = "idle" /\ req'[h] = NoRequest /\ copy'[h] = None
<1>1. pc'[h] = "idle" /\ req'[h] = NoRequest /\ copy'[h] = None /\ left'[h] = <<>>
  BY DEF Finish, Goto, TypeOK
<1>2. 0 <= requests'
  BY DEF TypeOK
<1>3. QED
  BY <1>1, <1>2, UpdatesFacts DEF LocalOK, NoRequest, Updating, Putting, Attaches

\* Every step keeps what the program counters say.
LEMMA LocalStep ==
    ASSUME TypeOK, TypeOK', LocalInv, [Next]_vars
    PROVE  LocalInv'
<1>1. ASSUME NEW h \in Handlers, Receive(h) PROVE LocalInv'
  <2>1. PICK kind \in Kinds :
            /\ \E node \in Senders(kind), on \in Flags(kind) :
                  req' = [req EXCEPT ![h] =
                             [id |-> requests', kind |-> kind, node |-> node, on |-> on]]
            /\ \E columns \in Updates(kind) : left' = [left EXCEPT ![h] = columns]
            /\ Goto(h, Entry(kind))
    BY <1>1 DEF Receive
  <2>2. PICK node \in Senders(kind), on \in Flags(kind) :
            req' = [req EXCEPT ![h] =
                       [id |-> requests', kind |-> kind, node |-> node, on |-> on]]
    BY <2>1
  <2>3. PICK columns \in Updates(kind) : left' = [left EXCEPT ![h] = columns]
    BY <2>1
  <2>4. /\ pc'[h] = Entry(kind)
        /\ req'[h] = [id |-> requests', kind |-> kind, node |-> node, on |-> on]
        /\ left'[h] = columns
    BY <2>1, <2>2, <2>3 DEF Goto, TypeOK
  <2>5. /\ columns \in ColumnLists
        /\ kind \in AllKinds \ {"put", "clr"} => columns # <<>>
        /\ kind = "ulr" => columns = <<"mme">>
    BY UpdatesFacts
  <2>6. kind \in AllKinds /\ req'[h].id = requests' /\ requests' <= requests'
    BY <2>4 DEF TypeOK
  <2>7. LocalOK(h)'
    BY <2>4, <2>5, <2>6 DEF Entry, Senders, LocalOK, Updating, Putting, Attaches, AllKinds
  <2>8. QED
    BY <2>7, OneMoves, LocalFrame, <1>1
<1>2. ASSUME NEW h \in Handlers, LoadCached(h) PROVE LocalInv'
  <2>1. /\ pc[h] = "load" /\ pc'[h] = "decide"
        /\ req'[h] = req[h] /\ left'[h] = left[h] /\ requests' = requests
        /\ copy'[h] = cache /\ cache # None
    BY <1>2 DEF LoadCached, Goto, TypeOK, rest
  <2>2. LocalOK(h)
    BY DEF LocalInv
  <2>3. copy[h] \in Rows \cup {None} /\ row \in Rows /\ cache \in Rows \cup {None}
    BY DEF TypeOK
  <2>4. LocalOK(h)'
    BY <2>1, <2>2, <2>3 DEF LocalOK, Updating, Putting, Attaches
  <2>5. QED
    BY <2>4, OneMoves, LocalFrame, <1>2
<1>3. ASSUME NEW h \in Handlers, LoadRow(h) PROVE LocalInv'
  <2>1. /\ pc[h] = "load" /\ pc'[h] = "fill"
        /\ req'[h] = req[h] /\ left'[h] = left[h] /\ requests' = requests
        /\ copy'[h] = row
    BY <1>3 DEF LoadRow, Goto, TypeOK, rest
  <2>2. LocalOK(h)
    BY DEF LocalInv
  <2>3. copy[h] \in Rows \cup {None} /\ row \in Rows /\ cache \in Rows \cup {None}
    BY DEF TypeOK
  <2>4. LocalOK(h)'
    BY <2>1, <2>2, <2>3 DEF LocalOK, Updating, Putting, Attaches
  <2>5. QED
    BY <2>4, OneMoves, LocalFrame, <1>3
<1>4. ASSUME NEW h \in Handlers, FillCache(h) PROVE LocalInv'
  <2>1. /\ pc[h] = "fill" /\ pc'[h] = "decide"
        /\ req'[h] = req[h] /\ left'[h] = left[h] /\ requests' = requests
        /\ copy'[h] = copy[h]
    BY <1>4 DEF FillCache, Goto, TypeOK, rest
  <2>2. LocalOK(h)
    BY DEF LocalInv
  <2>3. copy[h] \in Rows \cup {None} /\ row \in Rows /\ cache \in Rows \cup {None}
    BY DEF TypeOK
  <2>4. LocalOK(h)'
    BY <2>1, <2>2, <2>3 DEF LocalOK, Updating, Putting, Attaches
  <2>5. QED
    BY <2>4, OneMoves, LocalFrame, <1>4
<1>5. ASSUME NEW h \in Handlers, Refuse(h) PROVE LocalInv'
  <2>1. LocalOK(h)'
    BY <1>5, FinishLocal DEF Refuse
  <2>2. QED
    BY <2>1, OneMoves, LocalFrame, <1>5
<1>6. ASSUME NEW h \in Handlers, Admit(h) PROVE LocalInv'
  <2>1. /\ pc[h] = "decide" /\ pc'[h] = "invalidate"
        /\ req'[h] = req[h] /\ left'[h] = left[h] /\ requests' = requests
        /\ copy'[h] = copy[h] /\ req[h].kind # "clr"
    BY <1>6 DEF Admit, Goto, TypeOK, Attaches
  <2>2. LocalOK(h)
    BY DEF LocalInv
  <2>3. copy[h] \in Rows \cup {None} /\ row \in Rows /\ cache \in Rows \cup {None}
    BY DEF TypeOK
  <2>4. LocalOK(h)'
    BY <2>1, <2>2, <2>3 DEF LocalOK, Updating, Putting, Attaches
  <2>5. QED
    BY <2>4, OneMoves, LocalFrame, <1>6
<1>7. ASSUME NEW h \in Handlers, Cancel(h) PROVE LocalInv'
  <2>1. LocalOK(h)'
    BY <1>7, FinishLocal DEF Cancel
  <2>2. QED
    BY <2>1, OneMoves, LocalFrame, <1>7
<1>8. ASSUME NEW h \in Handlers, Invalidate(h) PROVE LocalInv'
  <2>1. /\ pc[h] = "invalidate" /\ pc'[h] = "write"
        /\ req'[h] = req[h] /\ left'[h] = left[h] /\ requests' = requests
        /\ copy'[h] = copy[h]
    BY <1>8 DEF Invalidate, Goto, TypeOK, rest
  <2>2. LocalOK(h)
    BY DEF LocalInv
  <2>3. copy[h] \in Rows \cup {None} /\ row \in Rows /\ cache \in Rows \cup {None}
    BY DEF TypeOK
  <2>4. LocalOK(h)'
    BY <2>1, <2>2, <2>3 DEF LocalOK, Updating, Putting, Attaches
  <2>5. QED
    BY <2>4, OneMoves, LocalFrame, <1>8
<1>9. ASSUME NEW h \in Handlers, Write(h) PROVE LocalInv'
  <2>1. LocalOK(h) /\ pc[h] = "write" /\ left[h] # <<>>
    BY <1>9 DEF Write, LocalInv, LocalOK, Updating
  <2>2. CASE Finish(h)
    <3>1. LocalOK(h)'
      BY <2>2, FinishLocal
    <3>2. QED
      BY <3>1, OneMoves, LocalFrame, <1>9
  <2>3. CASE AfterWrite(h) /\ ~Finish(h)
    <3>1. CASE Len(left[h]) > 1
      <4>1. /\ pc'[h] = "invalidate" /\ left'[h] = Tail(left[h])
            /\ req'[h] = req[h] /\ copy'[h] = copy[h] /\ requests' = requests
        BY <1>9, <2>3, <3>1 DEF Write, AfterWrite, Goto, TypeOK
      <4>2. left[h] \in ColumnLists /\ left[h] # <<"mme">>
        <5>1. left[h] \in ColumnLists
          BY <2>1 DEF LocalOK
        <5>2. QED
          BY <3>1, <5>1, LongLists
      <4>3. Tail(left[h]) \in ColumnLists /\ Tail(left[h]) # <<>>
        BY <3>1, <4>2, LongLists
      <4>4. LocalOK(h)'
        BY <2>1, <4>1, <4>2, <4>3 DEF LocalOK, Updating, Putting, Attaches
      <4>5. QED
        BY <4>4, OneMoves, LocalFrame, <1>9
    <3>2. CASE ~(Len(left[h]) > 1)
      <4>1. /\ pc'[h] = "publish" /\ left'[h] = left[h]
            /\ req'[h] = req[h] /\ copy'[h] = copy[h] /\ requests' = requests
        BY <1>9, <2>3, <3>2 DEF Write, AfterWrite, Goto, TypeOK
      <4>2. LocalOK(h)'
        BY <2>1, <4>1 DEF LocalOK, Updating, Putting, Attaches
      <4>3. QED
        BY <4>2, OneMoves, LocalFrame, <1>9
    <3>3. QED
      BY <3>1, <3>2
  <2>4. QED
    BY <1>9, <2>2, <2>3 DEF Write
<1>10. ASSUME NEW h \in Handlers, WriteFails(h) PROVE LocalInv'
  <2>1. LocalOK(h) /\ pc[h] = "write" /\ left[h] # <<>>
    BY <1>10 DEF WriteFails, LocalInv, LocalOK, Updating
  <2>2. CASE Finish(h)
    <3>1. LocalOK(h)'
      BY <2>2, FinishLocal
    <3>2. QED
      BY <3>1, OneMoves, LocalFrame, <1>10
  <2>3. CASE AfterWrite(h) /\ ~Finish(h)
    <3>1. CASE Len(left[h]) > 1
      <4>1. /\ pc'[h] = "invalidate" /\ left'[h] = Tail(left[h])
            /\ req'[h] = req[h] /\ copy'[h] = copy[h] /\ requests' = requests
        BY <1>10, <2>3, <3>1 DEF WriteFails, AfterWrite, Goto, TypeOK, rest
      <4>2. left[h] \in ColumnLists /\ left[h] # <<"mme">>
        <5>1. left[h] \in ColumnLists
          BY <2>1 DEF LocalOK
        <5>2. QED
          BY <3>1, <5>1, LongLists
      <4>3. Tail(left[h]) \in ColumnLists /\ Tail(left[h]) # <<>>
        BY <3>1, <4>2, LongLists
      <4>4. LocalOK(h)'
        BY <2>1, <4>1, <4>2, <4>3 DEF LocalOK, Updating, Putting, Attaches
      <4>5. QED
        BY <4>4, OneMoves, LocalFrame, <1>10
    <3>2. CASE ~(Len(left[h]) > 1)
      <4>1. /\ pc'[h] = "publish" /\ left'[h] = left[h]
            /\ req'[h] = req[h] /\ copy'[h] = copy[h] /\ requests' = requests
        BY <1>10, <2>3, <3>2 DEF WriteFails, AfterWrite, Goto, TypeOK, rest
      <4>2. LocalOK(h)'
        BY <2>1, <4>1 DEF LocalOK, Updating, Putting, Attaches
      <4>3. QED
        BY <4>2, OneMoves, LocalFrame, <1>10
    <3>3. QED
      BY <3>1, <3>2
  <2>4. QED
    BY <1>10, <2>2, <2>3 DEF WriteFails
<1>11. ASSUME NEW h \in Handlers, Publish(h) PROVE LocalInv'
  <2>1. LocalOK(h)'
    BY <1>11, FinishLocal DEF Publish
  <2>2. QED
    BY <2>1, OneMoves, LocalFrame, <1>11
<1>12. ASSUME NEW h \in Handlers, ApiRead(h) PROVE LocalInv'
  <2>1. /\ pc[h] = "read" /\ pc'[h] = "save"
        /\ req'[h] = req[h] /\ left'[h] = left[h] /\ requests' = requests
        /\ copy'[h] = row
    BY <1>12 DEF ApiRead, Goto, TypeOK, rest
  <2>2. LocalOK(h)
    BY DEF LocalInv
  <2>3. copy[h] \in Rows \cup {None} /\ row \in Rows /\ cache \in Rows \cup {None}
    BY DEF TypeOK
  <2>4. LocalOK(h)'
    BY <2>1, <2>2, <2>3 DEF LocalOK, Updating, Putting, Attaches
  <2>5. QED
    BY <2>4, OneMoves, LocalFrame, <1>12
<1>13. ASSUME NEW h \in Handlers, ApiSave(h) PROVE LocalInv'
  <2>1. /\ pc[h] = "save" /\ pc'[h] = "purge"
        /\ req'[h] = req[h] /\ left'[h] = left[h] /\ requests' = requests
        /\ copy'[h] = copy[h]
    BY <1>13 DEF ApiSave, Goto, TypeOK, rest
  <2>2. LocalOK(h)
    BY DEF LocalInv
  <2>3. copy[h] \in Rows \cup {None} /\ row \in Rows /\ cache \in Rows \cup {None}
    BY DEF TypeOK
  <2>4. LocalOK(h)'
    BY <2>1, <2>2, <2>3 DEF LocalOK, Updating, Putting, Attaches
  <2>5. QED
    BY <2>4, OneMoves, LocalFrame, <1>13
<1>14. ASSUME NEW h \in Handlers, ApiPurge(h) PROVE LocalInv'
  <2>1. CASE Finish(h)
    <3>1. LocalOK(h)'
      BY <2>1, FinishLocal
    <3>2. QED
      BY <3>1, OneMoves, LocalFrame, <1>14
  <2>2. CASE ~Finish(h)
    <3>1. /\ pc'[h] = "load" /\ left'[h] = left[h] /\ requests' = requests
          /\ req'[h] = [id |-> req[h].id, kind |-> "clr", node |-> Nobody, on |-> FALSE]
      BY <1>14, <2>2 DEF ApiPurge, Goto, TypeOK
    <3>2. LocalOK(h)
      BY DEF LocalInv
    <3>3. LocalOK(h)'
      BY <3>1, <3>2 DEF LocalOK, Updating, Putting, Attaches
    <3>4. QED
      BY <3>3, OneMoves, LocalFrame, <1>14
  <2>3. QED
    BY <2>1, <2>2
<1>15. ASSUME NEW h \in Handlers, Fail(h) PROVE LocalInv'
  <2>1. LocalOK(h)'
    BY <1>15, FinishLocal DEF Fail
  <2>2. QED
    BY <2>1, OneMoves, LocalFrame, <1>15
<1>16. ASSUME NEW n \in outbox, SendClr(n) PROVE LocalInv'
  BY <1>16 DEF SendClr, LocalInv, LocalOK, Attaches, locals, rest
<1>17. ASSUME CacheExpire PROVE LocalInv'
  BY <1>17 DEF CacheExpire, LocalInv, LocalOK, Attaches, locals, rest
<1>18. ASSUME Restart PROVE LocalInv'
  <2>1. ASSUME NEW h \in Handlers PROVE LocalOK(h)'
    <3>1. pc'[h] = "idle" /\ req'[h] = NoRequest /\ left'[h] = <<>> /\ 0 <= requests'
      BY <1>18 DEF Restart, TypeOK
    <3>2. QED
      BY <3>1, UpdatesFacts DEF LocalOK, NoRequest, Updating, Putting, Attaches
  <2>2. QED
    BY <2>1 DEF LocalInv
<1>19. ASSUME UNCHANGED vars PROVE LocalInv'
  BY <1>19 DEF vars, LocalInv, LocalOK, Attaches
<1>20. QED
  BY <1>1, <1>2, <1>3, <1>4, <1>5, <1>6, <1>7, <1>8, <1>9, <1>10, <1>11, <1>12, <1>13, <1>14, <1>15, <1>16, <1>17, <1>18, <1>19 DEF Next
-----------------------------------------------------------------------------
(***************************************************************************)
(* The SMS registration, and the MMEs to be cancelled.                     *)
(***************************************************************************)
\* A step that takes what it caches and what it loads from what is there keeps the
\* SMS registration together with the MME everywhere, if it does so in the row.
LEMMA SmsFrame ==
    ASSUME SmsInv, Together(row'),
           cache' \in {None, cache} \cup {copy[h] : h \in Handlers},
           \A h \in Handlers : copy'[h] \in {None, row, cache, copy[h]}
    PROVE  SmsInv'
BY DEF SmsInv, Together

\* Every step keeps the SMS registration with the serving MME.
LEMMA SmsStep ==
    ASSUME TypeOK, LocalInv, SmsInv, [Next]_vars
    PROVE  SmsInv'
<1> USE DEF TypeOK
<1>0. Together(row)
  BY DEF SmsInv
<1>1. ASSUME NEW h \in Handlers, Receive(h) PROVE SmsInv'
  <2>1. /\ row' = row /\ cache' \in {None, cache} \cup {copy[g] : g \in Handlers}
        /\ \A g \in Handlers : copy'[g] \in {None, row, cache, copy[g]}
    BY <1>1 DEF Receive
  <2>2. QED
    BY <1>0, <2>1, SmsFrame
<1>2. ASSUME NEW h \in Handlers, LoadCached(h) PROVE SmsInv'
  <2>1. /\ row' = row /\ cache' \in {None, cache} \cup {copy[g] : g \in Handlers}
        /\ \A g \in Handlers : copy'[g] \in {None, row, cache, copy[g]}
    BY <1>2 DEF LoadCached, rest
  <2>2. QED
    BY <1>0, <2>1, SmsFrame
<1>3. ASSUME NEW h \in Handlers, LoadRow(h) PROVE SmsInv'
  <2>1. /\ row' = row /\ cache' \in {None, cache} \cup {copy[g] : g \in Handlers}
        /\ \A g \in Handlers : copy'[g] \in {None, row, cache, copy[g]}
    BY <1>3 DEF LoadRow, rest
  <2>2. QED
    BY <1>0, <2>1, SmsFrame
<1>4. ASSUME NEW h \in Handlers, FillCache(h) PROVE SmsInv'
  <2>1. /\ row' = row /\ cache' \in {None, cache} \cup {copy[g] : g \in Handlers}
        /\ \A g \in Handlers : copy'[g] \in {None, row, cache, copy[g]}
    BY <1>4 DEF FillCache
  <2>2. QED
    BY <1>0, <2>1, SmsFrame
<1>5. ASSUME NEW h \in Handlers, Refuse(h) PROVE SmsInv'
  <2>1. /\ row' = row /\ cache' \in {None, cache} \cup {copy[g] : g \in Handlers}
        /\ \A g \in Handlers : copy'[g] \in {None, row, cache, copy[g]}
    BY <1>5 DEF Refuse, Finish, rest
  <2>2. QED
    BY <1>0, <2>1, SmsFrame
<1>6. ASSUME NEW h \in Handlers, Admit(h) PROVE SmsInv'
  <2>1. /\ row' = row /\ cache' \in {None, cache} \cup {copy[g] : g \in Handlers}
        /\ \A g \in Handlers : copy'[g] \in {None, row, cache, copy[g]}
    BY <1>6 DEF Admit
  <2>2. QED
    BY <1>0, <2>1, SmsFrame
<1>7. ASSUME NEW h \in Handlers, Cancel(h) PROVE SmsInv'
  <2>1. /\ row' = row /\ cache' \in {None, cache} \cup {copy[g] : g \in Handlers}
        /\ \A g \in Handlers : copy'[g] \in {None, row, cache, copy[g]}
    BY <1>7 DEF Cancel, Finish, rest
  <2>2. QED
    BY <1>0, <2>1, SmsFrame
<1>8. ASSUME NEW h \in Handlers, Invalidate(h) PROVE SmsInv'
  <2>1. /\ row' = row /\ cache' \in {None, cache} \cup {copy[g] : g \in Handlers}
        /\ \A g \in Handlers : copy'[g] \in {None, row, cache, copy[g]}
    BY <1>8 DEF Invalidate, rest
  <2>2. QED
    BY <1>0, <2>1, SmsFrame
<1>9. ASSUME NEW h \in Handlers, Write(h) PROVE SmsInv'
  <2>1. Head(left[h]) \in Columns \ {"sms"}
    <3>1. left[h] \in Seq(Columns \ {"sms"}) /\ left[h] # <<>>
      BY <1>9 DEF Write, LocalInv, LocalOK, Updating, ColumnLists
    <3>2. QED
      BY <3>1
  <2>2. row'.serving = Written(h)
    BY <1>9 DEF Write
  <2>3. /\ Written(h)["mme"] = IF Head(left[h]) = "mme" THEN req[h].node ELSE row.serving["mme"]
        /\ Written(h)["sms"] \in IF Head(left[h]) = "mme" THEN {req[h].node, Nobody}
                                 ELSE {row.serving["sms"]}
    BY <2>1 DEF Written, Columns
  <2>4. Together(row')
    BY <1>0, <2>2, <2>3 DEF Together
  <2>5. cache' = cache /\ \A g \in Handlers : copy'[g] \in {None, copy[g]}
    BY <1>9 DEF Write, AfterWrite, Finish
  <2>6. QED
    BY <2>4, <2>5, SmsFrame
<1>10. ASSUME NEW h \in Handlers, WriteFails(h) PROVE SmsInv'
  <2>1. /\ row' = row /\ cache' \in {None, cache} \cup {copy[g] : g \in Handlers}
        /\ \A g \in Handlers : copy'[g] \in {None, row, cache, copy[g]}
    BY <1>10 DEF WriteFails, AfterWrite, Finish, rest
  <2>2. QED
    BY <1>0, <2>1, SmsFrame
<1>11. ASSUME NEW h \in Handlers, Publish(h) PROVE SmsInv'
  <2>1. /\ row' = row /\ cache' \in {None, cache} \cup {copy[g] : g \in Handlers}
        /\ \A g \in Handlers : copy'[g] \in {None, row, cache, copy[g]}
    BY <1>11 DEF Publish, Finish
  <2>2. QED
    BY <1>0, <2>1, SmsFrame
<1>12. ASSUME NEW h \in Handlers, ApiRead(h) PROVE SmsInv'
  <2>1. /\ row' = row /\ cache' \in {None, cache} \cup {copy[g] : g \in Handlers}
        /\ \A g \in Handlers : copy'[g] \in {None, row, cache, copy[g]}
    BY <1>12 DEF ApiRead, rest
  <2>2. QED
    BY <1>0, <2>1, SmsFrame
<1>13. ASSUME NEW h \in Handlers, ApiSave(h) PROVE SmsInv'
  <2>1. row'.serving["sms"] = Nobody /\ cache' = cache /\ copy' = copy
    BY <1>13 DEF ApiSave, Kept, Columns
  <2>2. Together(row')
    BY <2>1 DEF Together
  <2>3. QED
    BY <2>1, <2>2, SmsFrame
<1>14. ASSUME NEW h \in Handlers, ApiPurge(h) PROVE SmsInv'
  <2>1. /\ row' = row /\ cache' \in {None, cache} \cup {copy[g] : g \in Handlers}
        /\ \A g \in Handlers : copy'[g] \in {None, row, cache, copy[g]}
    BY <1>14 DEF ApiPurge, Finish
  <2>2. QED
    BY <1>0, <2>1, SmsFrame
<1>15. ASSUME NEW h \in Handlers, Fail(h) PROVE SmsInv'
  <2>1. /\ row' = row /\ cache' \in {None, cache} \cup {copy[g] : g \in Handlers}
        /\ \A g \in Handlers : copy'[g] \in {None, row, cache, copy[g]}
    BY <1>15 DEF Fail, Finish, rest
  <2>2. QED
    BY <1>0, <2>1, SmsFrame
<1>16. ASSUME NEW n \in outbox, SendClr(n) PROVE SmsInv'
  <2>1. /\ row' = row /\ cache' \in {None, cache} \cup {copy[g] : g \in Handlers}
        /\ \A g \in Handlers : copy'[g] \in {None, row, cache, copy[g]}
    BY <1>16 DEF SendClr, locals
  <2>2. QED
    BY <1>0, <2>1, SmsFrame
<1>17. ASSUME CacheExpire PROVE SmsInv'
  <2>1. /\ row' = row /\ cache' \in {None, cache} \cup {copy[g] : g \in Handlers}
        /\ \A g \in Handlers : copy'[g] \in {None, row, cache, copy[g]}
    BY <1>17 DEF CacheExpire, locals, rest
  <2>2. QED
    BY <1>0, <2>1, SmsFrame
<1>18. ASSUME Restart PROVE SmsInv'
  <2>1. /\ row' = row /\ cache' \in {None, cache} \cup {copy[g] : g \in Handlers}
        /\ \A g \in Handlers : copy'[g] \in {None, row, cache, copy[g]}
    BY <1>18 DEF Restart
  <2>2. QED
    BY <1>0, <2>1, SmsFrame
<1>19. ASSUME UNCHANGED vars PROVE SmsInv'
  <2>1. /\ row' = row /\ cache' \in {None, cache} \cup {copy[g] : g \in Handlers}
        /\ \A g \in Handlers : copy'[g] \in {None, row, cache, copy[g]}
    BY <1>19 DEF vars
  <2>2. QED
    BY <1>0, <2>1, SmsFrame
<1>20. QED
  BY <1>1, <1>2, <1>3, <1>4, <1>5, <1>6, <1>7, <1>8, <1>9, <1>10, <1>11, <1>12, <1>13, <1>14, <1>15, <1>16, <1>17, <1>18, <1>19 DEF Next

\* It is enough to look at the handler that moves.
LEMMA NoticeFrame ==
    ASSUME NoticeInv, NEW h \in Handlers, OthersKeep(h), noticed \subseteq noticed', NoticeOK(h)'
    PROVE  NoticeInv'
<1> SUFFICES ASSUME NEW k \in Handlers, k # h PROVE NoticeOK(k)'
  BY DEF NoticeInv
<1>1. pc'[k] = pc[k] /\ req'[k] = req[k] /\ copy'[k] = copy[k]
  BY DEF OthersKeep
<1>2. NoticeOK(k)
  BY DEF NoticeInv
<1>3. QED
  BY <1>1, <1>2 DEF NoticeOK, ClrDue, NoticeOf, OldMme

\* After an UPDATE, a handler is done, or publishes, or is no ULR.
LEMMA WriteGoesOn ==
    ASSUME TypeOK, TypeOK', LocalInv, NEW h \in Handlers, AfterWrite(h) \/ Finish(h)
    PROVE  /\ pc'[h] \in {"idle", "publish", "invalidate"}
           /\ pc'[h] \in {"idle", "publish"} \/ req'[h].kind # "ulr"
           /\ pc'[h] # "idle" => req'[h] = req[h]
<1>1. CASE Finish(h)
  BY <1>1, FinishLocal
<1>2. CASE AfterWrite(h) /\ ~Finish(h)
  <2>1. CASE Len(left[h]) > 1
    <3>1. left[h] \in ColumnLists /\ (req[h].kind = "ulr" => left[h] = <<"mme">>)
      BY DEF LocalInv, LocalOK
    <3>2. left[h] # <<"mme">>
      BY <2>1, <3>1, LongLists
    <3>3. pc'[h] = "invalidate" /\ req'[h] = req[h]
      BY <1>2, <2>1 DEF AfterWrite, Goto, TypeOK
    <3>4. QED
      BY <3>1, <3>2, <3>3
  <2>2. CASE ~(Len(left[h]) > 1)
    <3>1. pc'[h] = "publish" /\ req'[h] = req[h]
      BY <1>2, <2>2 DEF AfterWrite, Goto, TypeOK
    <3>2. QED
      BY <3>1
  <2>3. QED
    BY <2>1, <2>2
<1>3. QED
  BY <1>1, <1>2

\* Every step keeps the notices of the ULRs on their way to the row.
LEMMA NoticeStep ==
    ASSUME TypeOK, TypeOK', LocalInv, NoticeInv, [Next]_vars
    PROVE  NoticeInv'
<1>1. ASSUME NEW h \in Handlers, Receive(h) PROVE NoticeInv'
  <2>1. noticed \subseteq noticed'
    BY <1>1 DEF Receive
  <2>2. PICK kind \in Kinds :
            /\ \E node \in Senders(kind), on \in Flags(kind) :
                  req' = [req EXCEPT ![h] =
                             [id |-> requests', kind |-> kind, node |-> node, on |-> on]]
            /\ Goto(h, Entry(kind))
    BY <1>1 DEF Receive
  <2>3. pc'[h] = Entry(kind) /\ req'[h].kind = kind
    BY <2>2 DEF Goto, TypeOK
  <2>4. NoticeOK(h)'
    BY <2>3 DEF NoticeOK, ClrDue, Updating, Entry
  <2>5. QED
    BY <2>1, <2>4, OneMoves, NoticeFrame, <1>1
<1>2. ASSUME NEW h \in Handlers, LoadCached(h) PROVE NoticeInv'
  <2>1. noticed \subseteq noticed'
    BY <1>2 DEF LoadCached, rest
  <2>2. pc'[h] = "decide"
    BY <1>2 DEF LoadCached, Goto, TypeOK
  <2>3. NoticeOK(h)'
    BY <2>2 DEF NoticeOK, ClrDue, Updating
  <2>4. QED
    BY <2>1, <2>3, OneMoves, NoticeFrame, <1>2
<1>3. ASSUME NEW h \in Handlers, LoadRow(h) PROVE NoticeInv'
  <2>1. noticed \subseteq noticed'
    BY <1>3 DEF LoadRow, rest
  <2>2. pc'[h] = "fill"
    BY <1>3 DEF LoadRow, Goto, TypeOK
  <2>3. NoticeOK(h)'
    BY <2>2 DEF NoticeOK, ClrDue, Updating
  <2>4. QED
    BY <2>1, <2>3, OneMoves, NoticeFrame, <1>3
<1>4. ASSUME NEW h \in Handlers, FillCache(h) PROVE NoticeInv'
  <2>1. noticed \subseteq noticed'
    BY <1>4 DEF FillCache, rest
  <2>2. pc'[h] = "decide"
    BY <1>4 DEF FillCache, Goto, TypeOK
  <2>3. NoticeOK(h)'
    BY <2>2 DEF NoticeOK, ClrDue, Updating
  <2>4. QED
    BY <2>1, <2>3, OneMoves, NoticeFrame, <1>4
<1>5. ASSUME NEW h \in Handlers, Refuse(h) PROVE NoticeInv'
  <2>1. noticed \subseteq noticed'
    BY <1>5 DEF Refuse, rest
  <2>2. pc'[h] = "idle"
    BY <1>5, FinishLocal DEF Refuse, Goto, TypeOK
  <2>3. NoticeOK(h)'
    BY <2>2 DEF NoticeOK, ClrDue, Updating
  <2>4. QED
    BY <2>1, <2>3, OneMoves, NoticeFrame, <1>5
<1>6. ASSUME NEW h \in Handlers, Admit(h) PROVE NoticeInv'
  <2>1. noticed \subseteq noticed' /\ (ClrDue(h) => NoticeOf(h) \in noticed')
    BY <1>6 DEF Admit
  <2>2. req'[h] = req[h] /\ copy'[h] = copy[h]
    BY <1>6 DEF Admit
  <2>3. NoticeOK(h)'
    BY <2>1, <2>2 DEF NoticeOK, ClrDue, NoticeOf, OldMme
  <2>4. QED
    BY <2>1, <2>3, OneMoves, NoticeFrame, <1>6
<1>7. ASSUME NEW h \in Handlers, Cancel(h) PROVE NoticeInv'
  <2>1. noticed \subseteq noticed'
    BY <1>7 DEF Cancel, rest
  <2>2. pc'[h] = "idle"
    BY <1>7, FinishLocal DEF Cancel, Goto, TypeOK
  <2>3. NoticeOK(h)'
    BY <2>2 DEF NoticeOK, ClrDue, Updating
  <2>4. QED
    BY <2>1, <2>3, OneMoves, NoticeFrame, <1>7
<1>8. ASSUME NEW h \in Handlers, Invalidate(h) PROVE NoticeInv'
  <2>1. noticed' = noticed /\ req'[h] = req[h] /\ copy'[h] = copy[h] /\ pc[h] = "invalidate"
    BY <1>8 DEF Invalidate, rest
  <2>2. NoticeOK(h)
    BY DEF NoticeInv
  <2>3. NoticeOK(h)'
    BY <2>1, <2>2 DEF NoticeOK, ClrDue, NoticeOf, OldMme, Updating
  <2>4. QED
    BY <2>1, <2>3, OneMoves, NoticeFrame, <1>8
<1>9. ASSUME NEW h \in Handlers, Write(h) PROVE NoticeInv'
  <2>1. noticed \subseteq noticed'
    BY <1>9 DEF Write, rest
  <2>2. pc'[h] \in {"idle", "publish"} \/ req'[h].kind # "ulr"
    BY <1>9, WriteGoesOn DEF Write
  <2>3. NoticeOK(h)'
    BY <2>2 DEF NoticeOK, ClrDue, Updating
  <2>4. QED
    BY <2>1, <2>3, OneMoves, NoticeFrame, <1>9
<1>10. ASSUME NEW h \in Handlers, WriteFails(h) PROVE NoticeInv'
  <2>1. noticed \subseteq noticed'
    BY <1>10 DEF WriteFails, rest
  <2>2. pc'[h] \in {"idle", "publish"} \/ req'[h].kind # "ulr"
    BY <1>10, WriteGoesOn DEF WriteFails
  <2>3. NoticeOK(h)'
    BY <2>2 DEF NoticeOK, ClrDue, Updating
  <2>4. QED
    BY <2>1, <2>3, OneMoves, NoticeFrame, <1>10
<1>11. ASSUME NEW h \in Handlers, Publish(h) PROVE NoticeInv'
  <2>1. noticed \subseteq noticed'
    BY <1>11 DEF Publish, rest
  <2>2. pc'[h] = "idle"
    BY <1>11, FinishLocal DEF Publish, Goto, TypeOK
  <2>3. NoticeOK(h)'
    BY <2>2 DEF NoticeOK, ClrDue, Updating
  <2>4. QED
    BY <2>1, <2>3, OneMoves, NoticeFrame, <1>11
<1>12. ASSUME NEW h \in Handlers, ApiRead(h) PROVE NoticeInv'
  <2>1. noticed \subseteq noticed'
    BY <1>12 DEF ApiRead, rest
  <2>2. pc'[h] = "save"
    BY <1>12 DEF ApiRead, Goto, TypeOK
  <2>3. NoticeOK(h)'
    BY <2>2 DEF NoticeOK, ClrDue, Updating
  <2>4. QED
    BY <2>1, <2>3, OneMoves, NoticeFrame, <1>12
<1>13. ASSUME NEW h \in Handlers, ApiSave(h) PROVE NoticeInv'
  <2>1. noticed \subseteq noticed'
    BY <1>13 DEF ApiSave, rest
  <2>2. pc'[h] = "purge"
    BY <1>13 DEF ApiSave, Goto, TypeOK
  <2>3. NoticeOK(h)'
    BY <2>2 DEF NoticeOK, ClrDue, Updating
  <2>4. QED
    BY <2>1, <2>3, OneMoves, NoticeFrame, <1>13
<1>14. ASSUME NEW h \in Handlers, ApiPurge(h) PROVE NoticeInv'
  <2>1. noticed \subseteq noticed'
    BY <1>14 DEF ApiPurge, rest
  <2>2. pc'[h] \in {"idle", "load"}
    BY <1>14, FinishLocal DEF ApiPurge, Goto, TypeOK
  <2>3. NoticeOK(h)'
    BY <2>2 DEF NoticeOK, ClrDue, Updating
  <2>4. QED
    BY <2>1, <2>3, OneMoves, NoticeFrame, <1>14
<1>15. ASSUME NEW h \in Handlers, Fail(h) PROVE NoticeInv'
  <2>1. noticed \subseteq noticed'
    BY <1>15 DEF Fail, rest
  <2>2. pc'[h] = "idle"
    BY <1>15, FinishLocal DEF Fail, Goto, TypeOK
  <2>3. NoticeOK(h)'
    BY <2>2 DEF NoticeOK, ClrDue, Updating
  <2>4. QED
    BY <2>1, <2>3, OneMoves, NoticeFrame, <1>15
<1>16. ASSUME NEW n \in outbox, SendClr(n) PROVE NoticeInv'
  BY <1>16 DEF SendClr, NoticeInv, NoticeOK, ClrDue, NoticeOf, OldMme, locals, rest
<1>17. ASSUME CacheExpire PROVE NoticeInv'
  BY <1>17 DEF CacheExpire, NoticeInv, NoticeOK, ClrDue, NoticeOf, OldMme, locals, rest
<1>18. ASSUME Restart PROVE NoticeInv'
  <2>1. \A h \in Handlers : pc'[h] = "idle"
    BY <1>18 DEF Restart
  <2>2. QED
    BY <2>1 DEF NoticeInv, NoticeOK, Updating
<1>19. ASSUME UNCHANGED vars PROVE NoticeInv'
  BY <1>19 DEF vars, NoticeInv, NoticeOK, ClrDue, NoticeOf, OldMme
<1>20. QED
  BY <1>1, <1>2, <1>3, <1>4, <1>5, <1>6, <1>7, <1>8, <1>9, <1>10, <1>11, <1>12, <1>13, <1>14, <1>15, <1>16, <1>17, <1>18, <1>19 DEF Next

-----------------------------------------------------------------------------
(***************************************************************************)
(* While no write falls into another request.                              *)
(***************************************************************************)
\* A handler with the same locals, before the same row, keeps its part.
LEMMA SameCopy ==
    ASSUME NEW k \in Handlers, CopyOK(k),
           pc'[k] = pc[k], req'[k] = req[k], copy'[k] = copy[k],
           row' = row, cache' \in {cache, None}
    PROVE  CopyOK(k)'
  BY DEF CopyOK

LEMMA SameEntitled ==
    ASSUME NEW k \in Handlers, pc'[k] = pc[k], req'[k] = req[k], copy'[k] = copy[k]
    PROVE  (Entitled(k)' <=> Entitled(k)) /\ req'[k].id = req[k].id
  BY DEF Entitled, Attaches

\* Steps that leave the row alone, fill no cache and end no PUT: it is enough to
\* look at the handler that moves.
LEMMA AloneFrame ==
    ASSUME AloneInv, NEW h \in Handlers, OthersKeep(h),
           row' = row, cache' \in {cache, None}, barred' = barred, pc[h] # "purge",
           CopyOK(h)', barred # None /\ Entitled(h)' => req'[h].id <= barred
    PROVE  AloneInv'
<1>1. ASSUME NEW k \in Handlers, k # h
      PROVE  pc'[k] = pc[k] /\ req'[k] = req[k] /\ copy'[k] = copy[k]
  BY <1>1 DEF OthersKeep
<1>2. CopyInv'
  <2>1. ASSUME NEW k \in Handlers, k # h PROVE CopyOK(k)'
    BY <1>1, <2>1, SameCopy DEF AloneInv, CopyInv
  <2>2. QED
    BY <2>1 DEF CopyInv
<1>3. CacheInv'
  <2>1. (\E k \in Handlers : pc[k] = "purge") => \E k \in Handlers : pc'[k] = "purge"
    BY <1>1
  <2>2. QED
    BY <2>1 DEF AloneInv, CacheInv
<1>4. BarredInv'
  <2>1. ASSUME NEW k \in Handlers, k # h, barred # None, Entitled(k)'
        PROVE  req'[k].id <= barred
    BY <1>1, <2>1, SameEntitled DEF AloneInv, BarredInv
  <2>2. row.enabled => barred = None
    BY DEF AloneInv, BarredInv
  <2>3. barred # None /\ cache # None => ~cache.enabled
    BY DEF AloneInv, BarredInv
  <2>4. QED
    BY <2>1, <2>2, <2>3 DEF BarredInv
<1>5. QED
  BY <1>2, <1>3, <1>4 DEF AloneInv

\* A write that falls into no other request finds nobody with a copy.
LEMMA NobodyReads ==
    ASSUME TypeOK, LocalInv, NEW h \in Handlers, OthersKeep(h), ~OthersReading(h),
           CopyInv, cache' = cache, NEW k \in Handlers, k # h
    PROVE  CopyOK(k)'
<1>1. pc'[k] = pc[k] /\ req'[k] = req[k] /\ copy'[k] = copy[k] /\ copy[k] = None
  BY DEF OthersKeep, OthersReading
<1>2. LocalOK(k) /\ CopyOK(k) /\ None \notin Rows
  BY DEF LocalInv, CopyInv
<1>3. pc[k] \notin {"fill", "decide", "save", "purge"}
  BY <1>1, <1>2 DEF LocalOK
<1>4. ~(pc[k] \in Updating /\ req[k].kind = "ulr")
  BY <1>1, <1>2 DEF LocalOK, Attaches
<1>5. QED
  BY <1>1, <1>2, <1>3, <1>4 DEF CopyOK

\* Every step that does not fall into another request keeps the rest.
LEMMA AloneStep ==
    ASSUME TypeOK, TypeOK', LocalInv, AloneInv, ~overlap', [Next]_vars
    PROVE  AloneInv'
<1>1. ASSUME NEW h \in Handlers, Receive(h) PROVE AloneInv'
  <2>1. row' = row /\ cache' \in {cache, None} /\ barred' = barred /\ pc[h] = "idle"
    BY <1>1 DEF Receive
  <2>2. PICK kind \in Kinds :
            /\ \E node \in Senders(kind), on \in Flags(kind) :
                  req' = [req EXCEPT ![h] =
                             [id |-> requests', kind |-> kind, node |-> node, on |-> on]]
            /\ Goto(h, Entry(kind))
    BY <1>1 DEF Receive
  <2>3. pc'[h] = Entry(kind) /\ req'[h].kind = kind
    BY <2>2 DEF Goto, TypeOK
  <2>4. CopyOK(h)'
    BY <2>3 DEF CopyOK, Entry, Updating
  <2>5. ~Entitled(h)'
    BY <2>3 DEF Entitled, Entry, Attaches, Updating
  <2>6. QED
    BY <2>1, <2>4, <2>5, OneMoves, AloneFrame, <1>1
<1>2. ASSUME NEW h \in Handlers, LoadCached(h) PROVE AloneInv'
  <2>1. /\ row' = row /\ cache' \in {cache, None} /\ barred' = barred
        /\ pc[h] = "load"
    BY <1>2 DEF LoadCached, rest
  <2>2. pc'[h] = "decide" /\ copy'[h] = cache /\ cache # None
    BY <1>2 DEF LoadCached, Goto, TypeOK
  <2>3. CopyOK(h) /\ CacheInv /\ BarredInv
    BY DEF AloneInv, CopyInv
  <2>4. CopyOK(h)'
    BY <2>1, <2>2, <2>3 DEF CopyOK, Updating, CacheInv
  <2>5. barred # None /\ Entitled(h)' => req'[h].id <= barred
    BY <2>1, <2>2, <2>3 DEF Entitled, BarredInv, Attaches, NoRequest, Updating
  <2>6. QED
    BY <2>1, <2>4, <2>5, OneMoves, AloneFrame, <1>2
<1>3. ASSUME NEW h \in Handlers, LoadRow(h) PROVE AloneInv'
  <2>1. /\ row' = row /\ cache' \in {cache, None} /\ barred' = barred
        /\ pc[h] = "load"
    BY <1>3 DEF LoadRow, rest
  <2>2. pc'[h] = "fill" /\ copy'[h] = row
    BY <1>3 DEF LoadRow, Goto, TypeOK
  <2>3. CopyOK(h) /\ CacheInv /\ BarredInv
    BY DEF AloneInv, CopyInv
  <2>4. CopyOK(h)'
    BY <2>1, <2>2, <2>3 DEF CopyOK, Updating
  <2>5. barred # None /\ Entitled(h)' => req'[h].id <= barred
    BY <2>1, <2>2, <2>3 DEF Entitled, BarredInv, Attaches, NoRequest, Updating
  <2>6. QED
    BY <2>1, <2>4, <2>5, OneMoves, AloneFrame, <1>3
<1>4. ASSUME NEW h \in Handlers, FillCache(h) PROVE AloneInv'
  <2>1. /\ pc[h] = "fill" /\ pc'[h] = "decide" /\ copy'[h] = copy[h] /\ req'[h] = req[h]
        /\ row' = row /\ cache' = copy[h] /\ barred' = barred
    BY <1>4 DEF FillCache, Goto, TypeOK
  <2>2. copy[h] = row /\ copy[h] \in Rows
    BY <2>1 DEF AloneInv, CopyInv, CopyOK, LocalInv, LocalOK
  <2>3. ~OthersWriting(h)
    BY <1>4, Zenon DEF FillCache
  <2>4. OthersKeep(h)
    BY <1>4, OneMoves
  <2>5. CopyInv'
    <3>1. ASSUME NEW k \in Handlers, k # h PROVE CopyOK(k)'
      <4>1. pc'[k] = pc[k] /\ req'[k] = req[k] /\ copy'[k] = copy[k] /\ pc[k] # "write"
        BY <2>3, <2>4, <3>1 DEF OthersKeep, OthersWriting
      <4>2. CopyOK(k)
        BY DEF AloneInv, CopyInv
      <4>3. QED
        BY <2>1, <4>1, <4>2 DEF CopyOK
    <3>2. CopyOK(h)'
      BY <2>1, <2>2 DEF CopyOK, Updating
    <3>3. QED
      BY <3>1, <3>2 DEF CopyInv
  <2>6. CacheInv'
    BY <2>1, <2>2 DEF CacheInv
  <2>7. BarredInv'
    <3>1. /\ row.enabled => barred = None
          /\ barred # None => \A k \in Handlers : Entitled(k) => req[k].id <= barred
      BY DEF AloneInv, BarredInv
    <3>2. ASSUME NEW k \in Handlers, k # h, barred # None, Entitled(k)'
          PROVE  req'[k].id <= barred
      BY <2>4, <3>1, <3>2, SameEntitled DEF OthersKeep
    <3>3. barred # None => ~Entitled(h)'
      BY <2>1, <2>2, <3>1 DEF Entitled, Updating
    <3>4. QED
      BY <2>1, <2>2, <3>1, <3>2, <3>3 DEF BarredInv
  <2>8. QED
    BY <2>5, <2>6, <2>7 DEF AloneInv
<1>5. ASSUME NEW h \in Handlers, Refuse(h) PROVE AloneInv'
  <2>1. /\ row' = row /\ cache' \in {cache, None} /\ barred' = barred
        /\ pc[h] = "decide"
    BY <1>5 DEF Refuse, rest
  <2>2. pc'[h] = "idle"
    BY <1>5, FinishLocal DEF Refuse, Goto, TypeOK
  <2>3. CopyOK(h) /\ CacheInv /\ BarredInv
    BY DEF AloneInv, CopyInv
  <2>4. CopyOK(h)'
    BY <2>1, <2>2, <2>3 DEF CopyOK, Updating
  <2>5. barred # None /\ Entitled(h)' => req'[h].id <= barred
    BY <2>1, <2>2, <2>3 DEF Entitled, BarredInv, Attaches, NoRequest, Updating
  <2>6. QED
    BY <2>1, <2>4, <2>5, OneMoves, AloneFrame, <1>5
<1>6. ASSUME NEW h \in Handlers, Admit(h) PROVE AloneInv'
  <2>1. /\ row' = row /\ cache' \in {cache, None} /\ barred' = barred
        /\ pc[h] = "decide"
    BY <1>6 DEF Admit, rest
  <2>2. pc'[h] = "invalidate" /\ copy'[h] = copy[h] /\ req'[h] = req[h] /\ (Attaches(req[h].kind) => copy[h].enabled)
    BY <1>6 DEF Admit, Goto, TypeOK, Attaches
  <2>3. CopyOK(h) /\ CacheInv /\ BarredInv
    BY DEF AloneInv, CopyInv
  <2>4. CopyOK(h)'
    BY <2>1, <2>2, <2>3 DEF CopyOK, Updating
  <2>5. barred # None /\ Entitled(h)' => req'[h].id <= barred
    BY <2>1, <2>2, <2>3 DEF Entitled, BarredInv, Attaches, NoRequest, Updating
  <2>6. QED
    BY <2>1, <2>4, <2>5, OneMoves, AloneFrame, <1>6
<1>7. ASSUME NEW h \in Handlers, Cancel(h) PROVE AloneInv'
  <2>1. /\ row' = row /\ cache' \in {cache, None} /\ barred' = barred
        /\ pc[h] = "decide"
    BY <1>7 DEF Cancel, rest
  <2>2. pc'[h] = "idle"
    BY <1>7, FinishLocal DEF Cancel, Goto, TypeOK
  <2>3. CopyOK(h) /\ CacheInv /\ BarredInv
    BY DEF AloneInv, CopyInv
  <2>4. CopyOK(h)'
    BY <2>1, <2>2, <2>3 DEF CopyOK, Updating
  <2>5. barred # None /\ Entitled(h)' => req'[h].id <= barred
    BY <2>1, <2>2, <2>3 DEF Entitled, BarredInv, Attaches, NoRequest, Updating
  <2>6. QED
    BY <2>1, <2>4, <2>5, OneMoves, AloneFrame, <1>7
<1>8. ASSUME NEW h \in Handlers, Invalidate(h) PROVE AloneInv'
  <2>1. /\ row' = row /\ cache' \in {cache, None} /\ barred' = barred
        /\ pc[h] = "invalidate"
    BY <1>8 DEF Invalidate, rest
  <2>2. pc'[h] = "write" /\ copy'[h] = copy[h] /\ req'[h] = req[h] /\ cache' = None
    BY <1>8 DEF Invalidate, Goto, TypeOK
  <2>3. CopyOK(h) /\ CacheInv /\ BarredInv
    BY DEF AloneInv, CopyInv
  <2>4. CopyOK(h)'
    BY <2>1, <2>2, <2>3 DEF CopyOK, Updating
  <2>5. barred # None /\ Entitled(h)' => req'[h].id <= barred
    BY <2>1, <2>2, <2>3 DEF Entitled, BarredInv, Attaches, NoRequest, Updating
  <2>6. QED
    BY <2>1, <2>4, <2>5, OneMoves, AloneFrame, <1>8
<1>9. ASSUME NEW h \in Handlers, Write(h) PROVE AloneInv'
  <2>1. /\ pc[h] = "write" /\ cache' = cache /\ barred' = barred
        /\ row'.enabled = row.enabled
    BY <1>9 DEF Write
  <2>2. cache = None
    BY <2>1 DEF AloneInv, CopyInv, CopyOK
  <2>3. ~OthersReading(h)
    BY <1>9, Zenon DEF Write
  <2>4. OthersKeep(h)
    BY <1>9, OneMoves
  <2>5. /\ pc'[h] \in {"idle", "publish", "invalidate"}
        /\ pc'[h] \in {"idle", "publish"} \/ req'[h].kind # "ulr"
        /\ pc'[h] # "idle" => req'[h] = req[h]
    BY <1>9, WriteGoesOn DEF Write
  <2>6. CopyInv'
    <3>1. ASSUME NEW k \in Handlers, k # h PROVE CopyOK(k)'
      BY <2>1, <2>3, <2>4, <3>1, NobodyReads DEF AloneInv
    <3>2. CopyOK(h)'
      BY <2>5 DEF CopyOK, Updating
    <3>3. QED
      BY <3>1, <3>2 DEF CopyInv
  <2>7. CacheInv'
    BY <2>1, <2>2 DEF CacheInv
  <2>8. BarredInv'
    <3>1. /\ row.enabled => barred = None
          /\ barred # None => \A k \in Handlers : Entitled(k) => req[k].id <= barred
      BY DEF AloneInv, BarredInv
    <3>2. ASSUME NEW k \in Handlers, k # h, barred # None, Entitled(k)'
          PROVE  req'[k].id <= barred
      BY <2>4, <3>1, <3>2, SameEntitled DEF OthersKeep
    <3>3. ASSUME barred # None, Entitled(h)' PROVE req'[h].id <= barred
      <4>1. Entitled(h) /\ req'[h] = req[h]
        BY <2>1, <2>5, <3>3 DEF Entitled, Updating, Attaches
      <4>2. QED
        BY <3>1, <3>3, <4>1
    <3>4. QED
      BY <2>1, <2>2, <3>1, <3>2, <3>3 DEF BarredInv
  <2>9. QED
    BY <2>6, <2>7, <2>8 DEF AloneInv
<1>10. ASSUME NEW h \in Handlers, WriteFails(h) PROVE AloneInv'
  <2>1. /\ row' = row /\ cache' \in {cache, None} /\ barred' = barred
        /\ pc[h] = "write"
    BY <1>10 DEF WriteFails, rest
  <2>2. /\ pc'[h] \in {"idle", "publish", "invalidate"}
        /\ pc'[h] \in {"idle", "publish"} \/ req'[h].kind # "ulr"
        /\ pc'[h] # "idle" => req'[h] = req[h]
    BY <1>10, WriteGoesOn DEF WriteFails
  <2>3. CopyOK(h) /\ CacheInv /\ BarredInv
    BY DEF AloneInv, CopyInv
  <2>4. CopyOK(h)'
    BY <2>1, <2>2, <2>3 DEF CopyOK, Updating
  <2>5. barred # None /\ Entitled(h)' => req'[h].id <= barred
    BY <2>1, <2>2, <2>3 DEF Entitled, BarredInv, Attaches, Updating
  <2>6. QED
    BY <2>1, <2>4, <2>5, OneMoves, AloneFrame, <1>10
<1>11. ASSUME NEW h \in Handlers, Publish(h) PROVE AloneInv'
  <2>1. /\ row' = row /\ cache' \in {cache, None} /\ barred' = barred
        /\ pc[h] = "publish"
    BY <1>11 DEF Publish, rest
  <2>2. pc'[h] = "idle"
    BY <1>11, FinishLocal DEF Publish, Goto, TypeOK
  <2>3. CopyOK(h) /\ CacheInv /\ BarredInv
    BY DEF AloneInv, CopyInv
  <2>4. CopyOK(h)'
    BY <2>1, <2>2, <2>3 DEF CopyOK, Updating
  <2>5. barred # None /\ Entitled(h)' => req'[h].id <= barred
    BY <2>1, <2>2, <2>3 DEF Entitled, BarredInv, Attaches, NoRequest, Updating
  <2>6. QED
    BY <2>1, <2>4, <2>5, OneMoves, AloneFrame, <1>11
<1>12. ASSUME NEW h \in Handlers, ApiRead(h) PROVE AloneInv'
  <2>1. /\ row' = row /\ cache' \in {cache, None} /\ barred' = barred
        /\ pc[h] = "read"
    BY <1>12 DEF ApiRead, rest
  <2>2. pc'[h] = "save" /\ copy'[h] = row
    BY <1>12 DEF ApiRead, Goto, TypeOK
  <2>3. CopyOK(h) /\ CacheInv /\ BarredInv
    BY DEF AloneInv, CopyInv
  <2>4. CopyOK(h)'
    BY <2>1, <2>2, <2>3 DEF CopyOK, Updating
  <2>5. barred # None /\ Entitled(h)' => req'[h].id <= barred
    BY <2>1, <2>2, <2>3 DEF Entitled, BarredInv, Attaches, NoRequest, Updating
  <2>6. QED
    BY <2>1, <2>4, <2>5, OneMoves, AloneFrame, <1>12
<1>13. ASSUME NEW h \in Handlers, ApiSave(h) PROVE AloneInv'
  <2>1. /\ pc[h] = "save" /\ pc'[h] = "purge" /\ cache' = cache
        /\ req'[h] = req[h] /\ copy'[h] = copy[h]
        /\ row'.enabled = req[h].on /\ barred' = IF req[h].on THEN None ELSE barred
        /\ row'.serving["mme"] = copy[h].serving["mme"]
    BY <1>13 DEF ApiSave, Goto, TypeOK, Kept, Columns
  <2>2. copy[h] = row
    BY <2>1 DEF AloneInv, CopyInv, CopyOK
  <2>3. ~OthersReading(h)
    BY <1>13, Zenon DEF ApiSave
  <2>4. OthersKeep(h)
    BY <1>13, OneMoves
  <2>5. CopyInv'
    <3>1. ASSUME NEW k \in Handlers, k # h PROVE CopyOK(k)'
      BY <2>1, <2>3, <2>4, <3>1, NobodyReads DEF AloneInv
    <3>2. CopyOK(h)'
      BY <2>1 DEF CopyOK, Updating
    <3>3. QED
      BY <3>1, <3>2 DEF CopyInv
  <2>6. CacheInv'
    BY <2>1, <2>2 DEF CacheInv, AloneInv
  <2>7. BarredInv'
    <3>1. barred # None => /\ cache # None => ~cache.enabled
                           /\ \A k \in Handlers : Entitled(k) => req[k].id <= barred
      BY DEF AloneInv, BarredInv
    <3>2. ASSUME NEW k \in Handlers, k # h, barred # None, Entitled(k)'
          PROVE  req'[k].id <= barred
      BY <2>4, <3>1, <3>2, SameEntitled DEF OthersKeep
    <3>3. ~Entitled(h)'
      BY <2>1 DEF Entitled, Updating
    <3>4. CASE req[h].on
      BY <2>1, <3>4 DEF BarredInv
    <3>5. CASE ~req[h].on
      BY <2>1, <3>1, <3>2, <3>3, <3>5 DEF BarredInv
    <3>6. QED
      BY <3>4, <3>5
  <2>8. QED
    BY <2>5, <2>6, <2>7 DEF AloneInv
<1>14. ASSUME NEW h \in Handlers, ApiPurge(h) PROVE AloneInv'
  <2>1. /\ pc[h] = "purge" /\ cache' = None /\ row' = row /\ requests' = requests
        /\ barred' = IF req[h].on THEN barred ELSE requests
    BY <1>14 DEF ApiPurge
  <2>2. pc'[h] \in {"idle", "load"}
    BY <1>14, FinishLocal DEF ApiPurge, Goto, TypeOK
  <2>3. row.enabled = req[h].on
    BY <2>1 DEF AloneInv, CopyInv, CopyOK
  <2>4. OthersKeep(h)
    BY <1>14, OneMoves
  <2>5. CopyInv'
    <3>1. ASSUME NEW k \in Handlers, k # h PROVE CopyOK(k)'
      BY <2>1, <2>4, <3>1, SameCopy DEF OthersKeep, AloneInv, CopyInv
    <3>2. CopyOK(h)'
      BY <2>2 DEF CopyOK, Updating
    <3>3. QED
      BY <3>1, <3>2 DEF CopyInv
  <2>6. CacheInv'
    BY <2>1 DEF CacheInv
  <2>7. BarredInv'
    <3>1. /\ row.enabled => barred = None
          /\ barred # None => \A k \in Handlers : Entitled(k) => req[k].id <= barred
      BY DEF AloneInv, BarredInv
    <3>2. ASSUME NEW k \in Handlers, k # h, barred' # None, Entitled(k)'
          PROVE  req'[k].id <= barred'
      <4>1. pc'[k] = pc[k] /\ req'[k] = req[k] /\ copy'[k] = copy[k] /\ req[k].id <= requests
        BY <2>4, <3>2 DEF OthersKeep, LocalInv, LocalOK
      <4>2. Entitled(k)
        BY <3>2, <4>1, SameEntitled
      <4>3. QED
        BY <2>1, <3>1, <3>2, <4>1, <4>2
    <3>3. ~Entitled(h)'
      BY <2>2 DEF Entitled, Updating
    <3>4. row'.enabled => barred' = None
      BY <2>1, <2>3, <3>1
    <3>5. QED
      BY <2>1, <3>2, <3>3, <3>4 DEF BarredInv
  <2>8. QED
    BY <2>5, <2>6, <2>7 DEF AloneInv
<1>15. ASSUME NEW h \in Handlers, Fail(h) PROVE AloneInv'
  <2>1. /\ row' = row /\ cache' \in {cache, None} /\ barred' = barred
        /\ pc[h] # "purge"
    BY <1>15 DEF Fail, rest
  <2>2. pc'[h] = "idle"
    BY <1>15, FinishLocal DEF Fail, Goto, TypeOK
  <2>3. CopyOK(h) /\ CacheInv /\ BarredInv
    BY DEF AloneInv, CopyInv
  <2>4. CopyOK(h)'
    BY <2>1, <2>2, <2>3 DEF CopyOK, Updating
  <2>5. barred # None /\ Entitled(h)' => req'[h].id <= barred
    BY <2>1, <2>2, <2>3 DEF Entitled, BarredInv, Attaches, NoRequest, Updating
  <2>6. QED
    BY <2>1, <2>4, <2>5, OneMoves, AloneFrame, <1>15
<1>16. ASSUME NEW n \in outbox, SendClr(n) PROVE AloneInv'
  BY <1>16 DEF SendClr, AloneInv, CopyInv, CopyOK, CacheInv, BarredInv, Entitled, locals
<1>17. ASSUME CacheExpire PROVE AloneInv'
  BY <1>17 DEF CacheExpire, AloneInv, CopyInv, CopyOK, CacheInv, BarredInv, Entitled, locals, rest
<1>18. ASSUME Restart PROVE AloneInv'
  <2>1. \A h \in Handlers : pc'[h] = "idle"
    BY <1>18 DEF Restart
  <2>2. row' = row /\ cache' = None /\ barred' = barred
    BY <1>18 DEF Restart
  <2>3. row.enabled => barred = None
    BY DEF AloneInv, BarredInv
  <2>4. QED
    BY <2>1, <2>2, <2>3 DEF AloneInv, CopyInv, CopyOK, CacheInv, BarredInv, Entitled, Updating
<1>19. ASSUME UNCHANGED vars PROVE AloneInv'
  BY <1>19 DEF vars, AloneInv, CopyInv, CopyOK, CacheInv, BarredInv, Entitled
<1>20. QED
  BY <1>1, <1>2, <1>3, <1>4, <1>5, <1>6, <1>7, <1>8, <1>9, <1>10, <1>11, <1>12, <1>13, <1>14, <1>15, <1>16, <1>17, <1>18, <1>19 DEF Next

\* An overlap is not forgotten.
LEMMA OverlapStays ==
    ASSUME overlap, [Next]_vars
    PROVE  overlap'
<1>1. ASSUME NEW h \in Handlers, Receive(h) PROVE overlap'
  BY <1>1 DEF Receive, rest
<1>2. ASSUME NEW h \in Handlers, LoadCached(h) PROVE overlap'
  BY <1>2 DEF LoadCached, rest
<1>3. ASSUME NEW h \in Handlers, LoadRow(h) PROVE overlap'
  BY <1>3 DEF LoadRow, rest
<1>4. ASSUME NEW h \in Handlers, FillCache(h) PROVE overlap'
  BY <1>4, Zenon DEF FillCache
<1>5. ASSUME NEW h \in Handlers, Refuse(h) PROVE overlap'
  BY <1>5 DEF Refuse, rest
<1>6. ASSUME NEW h \in Handlers, Admit(h) PROVE overlap'
  BY <1>6 DEF Admit, rest
<1>7. ASSUME NEW h \in Handlers, Cancel(h) PROVE overlap'
  BY <1>7 DEF Cancel, rest
<1>8. ASSUME NEW h \in Handlers, Invalidate(h) PROVE overlap'
  BY <1>8 DEF Invalidate, rest
<1>9. ASSUME NEW h \in Handlers, Write(h) PROVE overlap'
  BY <1>9, Zenon DEF Write
<1>10. ASSUME NEW h \in Handlers, WriteFails(h) PROVE overlap'
  BY <1>10 DEF WriteFails, rest
<1>11. ASSUME NEW h \in Handlers, Publish(h) PROVE overlap'
  BY <1>11 DEF Publish, rest
<1>12. ASSUME NEW h \in Handlers, ApiRead(h) PROVE overlap'
  BY <1>12 DEF ApiRead, rest
<1>13. ASSUME NEW h \in Handlers, ApiSave(h) PROVE overlap'
  BY <1>13, Zenon DEF ApiSave
<1>14. ASSUME NEW h \in Handlers, ApiPurge(h) PROVE overlap'
  BY <1>14 DEF ApiPurge, rest
<1>15. ASSUME NEW h \in Handlers, Fail(h) PROVE overlap'
  BY <1>15 DEF Fail, rest
<1>16. ASSUME NEW n \in outbox, SendClr(n) PROVE overlap'
  BY <1>16 DEF SendClr, rest
<1>17. ASSUME CacheExpire PROVE overlap'
  BY <1>17 DEF CacheExpire, rest
<1>18. ASSUME Restart PROVE overlap'
  BY <1>18 DEF Restart, rest
<1>19. ASSUME UNCHANGED vars PROVE overlap'
  BY <1>19 DEF vars
<1>20. QED
  BY <1>1, <1>2, <1>3, <1>4, <1>5, <1>6, <1>7, <1>8, <1>9, <1>10, <1>11, <1>12, <1>13, <1>14, <1>15, <1>16, <1>17, <1>18, <1>19 DEF Next

-----------------------------------------------------------------------------
(***************************************************************************)
(* The theorems.                                                           *)
(***************************************************************************)
LEMMA InitHolds == Init => IInv
<1> SUFFICES ASSUME Init PROVE IInv
  OBVIOUS
<1>1. NoRequest \in Request /\ <<>> \in Seq(Columns) /\ "idle" \in PCs
  BY DEF NoRequest, Request, AllKinds, PCs
<1>2. row \in Rows
  BY DEF Init, Rows
<1>3. TypeOK
  BY <1>1, <1>2 DEF Init, TypeOK
<1>4. LocalInv
  <2>1. ASSUME NEW h \in Handlers PROVE LocalOK(h)
    <3>1. pc[h] = "idle" /\ req[h] = NoRequest /\ left[h] = <<>> /\ requests = 0
      BY DEF Init
    <3>2. QED
      BY <3>1, UpdatesFacts DEF LocalOK, NoRequest, Updating, Putting, Attaches
  <2>2. QED
    BY <2>1 DEF LocalInv
<1>5. SmsInv
  BY DEF Init, SmsInv, Together, Columns
<1>6. \A h \in Handlers : pc[h] = "idle"
  BY DEF Init
<1>7. NoticeInv
  BY <1>6 DEF NoticeInv, NoticeOK, Updating
<1>8. AloneInv
  BY <1>6 DEF Init, AloneInv, CopyInv, CopyOK, CacheInv, BarredInv, Entitled, Updating
<1>9. QED
  BY <1>3, <1>4, <1>5, <1>7, <1>8 DEF IInv

LEMMA StepHolds == IInv /\ [Next]_vars => IInv'
<1> SUFFICES ASSUME IInv, [Next]_vars PROVE IInv'
  OBVIOUS
<1>1. TypeOK /\ LocalInv /\ SmsInv /\ NoticeInv
  BY DEF IInv
<1>2. TypeOK'
  BY <1>1, TypeStep
<1>3. LocalInv'
  BY <1>1, <1>2, LocalStep
<1>4. SmsInv'
  BY <1>1, SmsStep
<1>5. NoticeInv'
  BY <1>1, <1>2, NoticeStep
<1>6. ~overlap' => AloneInv'
  <2> SUFFICES ASSUME ~overlap' PROVE AloneInv'
    OBVIOUS
  <2>1. ~overlap
    BY OverlapStays
  <2>2. AloneInv
    BY <2>1 DEF IInv
  <2>3. QED
    BY <1>1, <1>2, <2>2, AloneStep
<1>7. QED
  BY <1>2, <1>3, <1>4, <1>5, <1>6 DEF IInv

\* The invariant of MobilityInv holds in every reachable state.
THEOREM Invariance == Spec => []IInv
<1>1. QED
  BY InitHolds, StepHolds, PTL DEF Spec

\* The state of the handlers, the row and the cache stays well formed.
THEOREM TypeCorrect == Spec => []TypeOK
<1>1. IInv => TypeOK
  BY DEF IInv
<1>2. QED
  BY <1>1, Invariance, PTL

\* A short message is never routed to one MME under the number of another,
\* whatever the interleaving (store.go:278-300, subscriber.go:133, sri_sm.go:60).
THEOREM SmsFollows == Spec => []SmsFollowsMme
<1>1. IInv => SmsFollowsMme
  <2> SUFFICES ASSUME IInv, NEW sub \in {row, cache} \ {None}, NEW node \in SRISR(sub)
               PROVE  node[1] = node[2]
    BY DEF SmsFollowsMme
  <2>1. Together(sub)
    BY DEF IInv, SmsInv
  <2>2. node = <<sub.serving["mme"], sub.serving["sms"]>> /\ node \in Nodes \X Nodes
    BY DEF SRISR
  <2>3. QED
    BY <2>1, <2>2, NodesAssumption DEF Together
<1>2. QED
  BY <1>1, Invariance, PTL

\* A stale subscriber is only cached where a write fell into another request.
THEOREM Coherent == Spec => []CacheCoherent
<1>1. IInv => CacheCoherent
  BY DEF IInv, AloneInv, CacheInv, CacheCoherent
<1>2. QED
  BY <1>1, Invariance, PTL

\* Only then does a disabled subscriber get as far as registering a node.
THEOREM StaysOut == Spec => []DisabledStaysOut
<1>1. IInv => DisabledStaysOut
  BY DEF IInv, AloneInv, BarredInv, Entitled, Updating, DisabledStaysOut
<1>2. QED
  BY <1>1, Invariance, PTL

\* Only then does an MME lose the subscriber without having been picked for a CLR.
THEOREM CancelsAlone == Spec => CancelsOldMmeAlone
<1>1. IInv /\ [Next]_vars =>
         [\A h \in Handlers : TakesOver(h) /\ ~overlap' => NoticeDue(h) \in noticed]_vars
  <2> SUFFICES ASSUME IInv, NEW h \in Handlers, TakesOver(h), ~overlap'
               PROVE  NoticeDue(h) \in noticed
    OBVIOUS
  <2>1. /\ req[h].kind = "ulr" /\ row.serving["mme"] \notin {Nobody, req[h].node}
        /\ pc[h] = "write" /\ ~overlap
    <3>1. ~overlap
      BY Zenon DEF TakesOver, Write
    <3>2. QED
      BY <3>1 DEF TakesOver, Write
  <2>2. copy[h].serving["mme"] = row.serving["mme"] /\ NoticeOK(h)
    BY <2>1 DEF IInv, AloneInv, CopyInv, CopyOK, NoticeInv, Updating
  <2>3. QED
    BY <2>1, <2>2 DEF NoticeOK, ClrDue, NoticeOf, OldMme, NoticeDue, Updating
<1>2. QED
  BY <1>1, Invariance, PTL DEF Spec, CancelsOldMmeAlone
=================================================================================
