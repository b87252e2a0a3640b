------------------------- MODULE RedisClusterFacts -------------------------
(***************************************************************************)
(* What the servers of a cluster and the connections to them keep,         *)
(* whatever the client does in between.                                    *)
(***************************************************************************)
EXTENDS RedisCluster, SequenceFacts

\* An ASK names the node that the slot migrates to.
GoodReply == {r \in Reply : r.type = "ask" => r.to \in Nodes}

GoodLink ==
    [state : {"none", "open", "broken", "err"}, peer : Nodes \cup {None},
     out : Seq(Request), sent : Seq(Request), in : Seq(GoodReply), asking : BOOLEAN]

Entry == [id : Nat, slot : Slots]

ClusterTyped ==
    /\ owner \in [Slots -> Nodes]
    /\ importer \in [Slots -> Nodes \cup {None}]
    /\ seen \in [Nodes -> [Slots -> Nodes]]
    /\ alive \subseteq Nodes
    /\ link \in [Holders -> GoodLink]
    /\ executed \in Seq(Entry)
    /\ faults \in Nat

-----------------------------------------------------------------------------
LEMMA GoodLinkType == GoodLink \subseteq Link
<1> SUFFICES ASSUME NEW l \in GoodLink PROVE l \in Link
  OBVIOUS
<1>1. l.in \in Seq(Reply)
  <2>1. l.in \in Seq(GoodReply) /\ GoodReply \subseteq Reply
    BY DEF GoodLink, GoodReply
  <2>2. \A i \in 1 .. Len(l.in) : l.in[i] \in Reply
    BY <2>1, ElementType
  <2> QED BY <2>1, <2>2
<1> QED BY <1>1 DEF GoodLink, Link

LEMMA ClusterTypes == ClusterTyped => ClusterTypeOK
  BY GoodLinkType DEF ClusterTyped, ClusterTypeOK, Entry

LEMMA NewLinkType ==
    ASSUME NEW st \in {"none", "open", "broken", "err"}, NEW p \in Nodes \cup {None}
    PROVE  NewLink(st, p) \in GoodLink
<1>1. <<>> \in Seq(Request) /\ <<>> \in Seq(GoodReply)
  OBVIOUS
<1> QED BY <1>1 DEF NewLink, GoodLink

LEMMA NoLinkType == NoLink \in GoodLink
  BY NewLinkType DEF NoLink

LEMMA BreakType ==
    ASSUME NEW l \in GoodLink
    PROVE  Break(l) \in GoodLink
<1>1. <<>> \in Seq(Request)
  OBVIOUS
<1> QED BY <1>1 DEF Break, GoodLink

LEMMA ClusterInitTyped == ClusterInit => ClusterTyped
<1>1. <<>> \in Seq(Entry)
  OBVIOUS
<1> QED BY <1>1, NoLinkType, ClusterAssumption DEF ClusterInit, ClusterTyped

\* The reply to the first of the commands that wait takes its place.
Served(l, type, to) ==
    [l EXCEPT !.sent = Tail(l.sent), !.asking = (Head(l.sent).op = "asking"),
              !.in = Append(l.in, [id |-> Head(l.sent).id, slot |-> Head(l.sent).slot,
                                   op |-> Head(l.sent).op, type |-> type, to |-> to])]

LEMMA ServedType ==
    ASSUME NEW l \in GoodLink, l.sent # <<>>, NEW type \in ReplyTypes, NEW to \in Nodes \cup {None},
           type = "ask" => to \in Nodes
    PROVE  Served(l, type, to) \in GoodLink
<1>1. l.sent \in Seq(Request) /\ l.in \in Seq(GoodReply)
  BY DEF GoodLink
<1>2. Head(l.sent) \in Request /\ Tail(l.sent) \in Seq(Request)
  BY <1>1, HeadTailType
<1> DEFINE q == Head(l.sent)
           r == [id |-> q.id, slot |-> q.slot, op |-> q.op, type |-> type, to |-> to]
<1>3. r \in GoodReply
  BY <1>2 DEF Request, Reply, GoodReply
<1>4. Append(l.in, r) \in Seq(GoodReply)
  BY <1>1, <1>3, AppendType
<1>5. (q.op = "asking") \in BOOLEAN
  OBVIOUS
<1> HIDE DEF r
<1>6. [l EXCEPT !.sent = Tail(l.sent), !.asking = (q.op = "asking"), !.in = Append(l.in, r)] \in GoodLink
  BY <1>2, <1>4, <1>5 DEF GoodLink
<1> QED BY <1>6 DEF Served, r

\* What a node does with the next command of a connection.
LEMMA ServeCases ==
    ASSUME ClusterTyped, NEW o \in Holders, Serve(o)
    PROVE  /\ link[o].state = "open" /\ link[o].sent # <<>>
           /\ \E type \in ReplyTypes, to \in Nodes \cup {None} :
                 /\ type = "ask" => to \in Nodes
                 /\ link' = [link EXCEPT ![o] = Served(link[o], type, to)]
                 /\ \/ /\ Head(link[o].sent).op = "cmd" /\ type = "ok"
                       /\ executed' = Append(executed, [id |-> Head(link[o].sent).id,
                                                        slot |-> Head(link[o].sent).slot])
                    \/ /\ Head(link[o].sent).op # "cmd" \/ type # "ok"
                       /\ executed' = executed
           /\ faults' \in Nat
           /\ UNCHANGED <<owner, importer, seen, alive>>
<1> DEFINE l == link[o]
           q == Head(l.sent)
<1>0. l.state = "open" /\ l.sent # <<>> /\ UNCHANGED <<owner, importer, seen, alive>>
  BY DEF Serve
<1>1. CASE /\ q.op # "cmd" /\ link' = [link EXCEPT ![o] = Served(l, "ok", None)]
           /\ UNCHANGED <<executed, faults>>
  BY <1>0, <1>1 DEF ReplyTypes, ClusterTyped
<1>2. CASE /\ q.op = "cmd"
           /\ \E a \in Answers(l.peer, q.slot, l.asking) :
                 /\ link' = [link EXCEPT ![o] = Served(l, a[1], a[2])]
                 /\ executed' = IF a[1] = "ok" THEN Append(executed, [id |-> q.id, slot |-> q.slot])
                                ELSE executed
           /\ UNCHANGED faults
  <2>1. PICK a \in Answers(l.peer, q.slot, l.asking) :
                 /\ link' = [link EXCEPT ![o] = Served(l, a[1], a[2])]
                 /\ executed' = IF a[1] = "ok" THEN Append(executed, [id |-> q.id, slot |-> q.slot])
                                ELSE executed
    BY <1>2
  <2>2. q.slot \in Slots
    <3>1. q \in Request
      BY <1>0, HeadTailType DEF ClusterTyped, GoodLink
    <3> QED BY <3>1 DEF Request
  <2>3. \/ a = <<"ok", None>> \/ a = <<"moved", None>>
        \/ importer[q.slot] # None /\ a = <<"ask", importer[q.slot]>>
    BY <2>1 DEF Answers
  <2>4. /\ a[1] \in ReplyTypes /\ a[2] \in Nodes \cup {None} /\ (a[1] = "ask" => a[2] \in Nodes)
    BY <2>2, <2>3 DEF ReplyTypes, ClusterTyped
  <2> HIDE DEF l
  <2>5. \/ q.op = "cmd" /\ a[1] = "ok" /\ executed' = Append(executed, [id |-> q.id, slot |-> q.slot])
        \/ (q.op # "cmd" \/ a[1] # "ok") /\ executed' = executed
    BY <1>2, <2>1
  <2>6. faults' \in Nat
    BY <1>2 DEF ClusterTyped
  <2> QED BY <1>0, <2>1, <2>4, <2>5, <2>6 DEF l
<1>3. CASE /\ q.op = "cmd" /\ Fault /\ UNCHANGED executed
           /\ \E type \in {"again", "error"} : link' = [link EXCEPT ![o] = Served(l, type, None)]
  <2>1. PICK type \in {"again", "error"} : link' = [link EXCEPT ![o] = Served(l, type, None)]
    BY <1>3
  <2>2. type \in ReplyTypes /\ type # "ask" /\ type # "ok" /\ faults' \in Nat
    BY <1>3 DEF ReplyTypes, ClusterTyped, Fault
  <2> QED BY <1>0, <1>3, <2>1, <2>2
<1> QED BY <1>1, <1>2, <1>3 DEF Serve, Served

\* Nothing but the connections, and what was executed, changes by a step of the
\* cluster as the client sees it.
LEMMA ClusterNextTyped ==
    ASSUME ClusterTyped, ClusterNext
    PROVE  ClusterTyped'
<1> USE DEF ClusterTyped
<1>1. ASSUME NEW s \in Slots, NEW n \in Nodes, Migrate(s, n) PROVE ClusterTyped'
  BY <1>1 DEF Migrate, Fault
<1>2. ASSUME NEW s \in Slots, MigrationEnds(s) PROVE ClusterTyped'
  <2>1. importer[s] \in Nodes
    BY <1>2 DEF MigrationEnds
  <2>2. seen' \in [Nodes -> [Slots -> Nodes]]
    BY <1>2, <2>1 DEF MigrationEnds
  <2> QED BY <1>2, <2>1, <2>2 DEF MigrationEnds
<1>3. ASSUME NEW n \in Nodes, Gossip(n) PROVE ClusterTyped'
  BY <1>3 DEF Gossip
<1>4. ASSUME NEW n \in Nodes, Crash(n) PROVE ClusterTyped'
  <2>1. link' \in [Holders -> GoodLink]
    BY <1>4, BreakType DEF Crash
  <2> QED BY <1>4, <2>1 DEF Crash, Fault
<1>5. ASSUME NEW n \in Nodes, Recover(n) PROVE ClusterTyped'
  BY <1>5 DEF Recover
<1>6. ASSUME NEW n \in Nodes, NEW m \in Nodes, Failover(n, m) PROVE ClusterTyped'
  <2>1. owner' \in [Slots -> Nodes]
    BY <1>6 DEF Failover
  <2>2. seen' \in [Nodes -> [Slots -> Nodes]]
    BY <1>6, <2>1 DEF Failover
  <2>3. importer' \in [Slots -> Nodes \cup {None}]
    BY <1>6 DEF Failover
  <2> QED BY <1>6, <2>1, <2>2, <2>3 DEF Failover
<1>7. ASSUME NEW o \in Holders, Drop(o) PROVE ClusterTyped'
  <2>1. link' \in [Holders -> GoodLink]
    BY <1>7, BreakType DEF Drop
  <2> QED BY <1>7, <2>1 DEF Drop, Fault
<1>8. ASSUME NEW o \in Holders, Serve(o) PROVE ClusterTyped'
  <2>1. PICK type \in ReplyTypes, to \in Nodes \cup {None} :
                 /\ type = "ask" => to \in Nodes
                 /\ link' = [link EXCEPT ![o] = Served(link[o], type, to)]
                 /\ \/ executed' = Append(executed, [id |-> Head(link[o].sent).id,
                                                     slot |-> Head(link[o].sent).slot])
                    \/ executed' = executed
    BY <1>8, ServeCases
  <2>2. link[o].sent # <<>> /\ faults' \in Nat /\ UNCHANGED <<owner, importer, seen, alive>>
    BY <1>8, ServeCases
  <2>3. Served(link[o], type, to) \in GoodLink
    BY <2>1, <2>2, ServedType
  <2>4. link' \in [Holders -> GoodLink]
    BY <2>1, <2>3
  <2>5. Head(link[o].sent) \in Request
    BY <2>2, HeadTailType DEF GoodLink
  <2>6. [id |-> Head(link[o].sent).id, slot |-> Head(link[o].sent).slot] \in Entry
    BY <2>5 DEF Request, Entry
  <2>7. executed' \in Seq(Entry)
    BY <2>1, <2>6, AppendType
  <2> QED BY <2>2, <2>4, <2>7
<1> QED BY <1>1, <1>2, <1>3, <1>4, <1>5, <1>6, <1>7, <1>8 DEF ClusterNext
=============================================================================
