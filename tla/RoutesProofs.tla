---------------------------- MODULE RoutesProofs ----------------------------
(***************************************************************************)
(* What the routes that src/hircluster.c makes are worth, for every reply, *)
(* every cluster and every route there was before.                         *)
(***************************************************************************)
EXTENDS Routes, SequenceFacts, FiniteSetTheorems

-----------------------------------------------------------------------------
(* Lists. *)

LEMMA ListFacts ==
    ASSUME NEW s, IsList(s)
    PROVE  Len(s) \in Nat /\ DOMAIN s = 1 .. Len(s) /\ s = [i \in 1 .. Len(s) |-> s[i]]
<1> DEFINE S == Range(s)
<1>1. s \in Seq(S)
  BY DEF IsList
<1> HIDE DEF S
<1> QED BY <1>1

LEMMA FunctionList ==
    ASSUME NEW n \in Nat, NEW s, DOMAIN s = 1 .. n, s = [i \in 1 .. n |-> s[i]]
    PROVE  IsList(s) /\ Len(s) = n
<1> DEFINE S == Range(s)
<1>1. s \in [1 .. n -> S]
  BY DEF Range
<1> HIDE DEF S
<1>2. s \in Seq(S) /\ Len(s) = n
  BY <1>1
<1> QED BY <1>2 DEF IsList, S

LEMMA ListAppend ==
    ASSUME NEW s, IsList(s), NEW x
    PROVE  /\ IsList(Append(s, x))
           /\ Len(Append(s, x)) = Len(s) + 1
           /\ \A i \in 1 .. Len(s) : Append(s, x)[i] = s[i]
           /\ Append(s, x)[Len(s) + 1] = x
           /\ \A i \in 1 .. Len(s) + 1 : i \in 1 .. Len(s) \/ i = Len(s) + 1
<1> DEFINE S == Range(s) \cup {x}
           t == Append(s, x)
<1>1. Len(s) \in Nat /\ DOMAIN s = 1 .. Len(s) /\ s = [i \in 1 .. Len(s) |-> s[i]]
  BY ListFacts
<1>2. s \in [1 .. Len(s) -> S] /\ x \in S
  BY <1>1 DEF Range
<1> HIDE DEF S
<1>3. s \in Seq(S)
  BY <1>1, <1>2
<1>4. t \in Seq(S)
  BY <1>2, <1>3
<1> HIDE DEF t
<1>5. t = [i \in 1 .. Len(t) |-> t[i]] /\ DOMAIN t = 1 .. Len(t) /\ Len(t) \in Nat
  BY ONLY <1>4
<1>6. IsList(t)
  BY ONLY <1>5, FunctionList
<1> QED BY <1>2, <1>3, <1>6, AppendFacts DEF t

LEMMA ListConcat ==
    ASSUME NEW s, IsList(s), NEW t, IsList(t)
    PROVE  /\ IsList(s \o t)
           /\ Len(s \o t) = Len(s) + Len(t)
           /\ \A i \in 1 .. Len(s) : (s \o t)[i] = s[i]
           /\ \A i \in 1 .. Len(t) : (s \o t)[Len(s) + i] = t[i]
<1> DEFINE S == Range(s) \cup Range(t)
           u == s \o t
<1>1. /\ Len(s) \in Nat /\ DOMAIN s = 1 .. Len(s) /\ s = [i \in 1 .. Len(s) |-> s[i]]
      /\ Len(t) \in Nat /\ DOMAIN t = 1 .. Len(t) /\ t = [i \in 1 .. Len(t) |-> t[i]]
  BY ListFacts
<1>2. s \in [1 .. Len(s) -> S] /\ t \in [1 .. Len(t) -> S]
  BY <1>1 DEF Range
<1> HIDE DEF S
<1>3. s \in Seq(S) /\ t \in Seq(S)
  BY <1>1, <1>2
<1>4. u \in Seq(S)
  BY <1>3, ConcatFacts
<1> HIDE DEF u
<1>5. u = [i \in 1 .. Len(u) |-> u[i]] /\ DOMAIN u = 1 .. Len(u) /\ Len(u) \in Nat
  BY ONLY <1>4
<1>6. IsList(u)
  BY ONLY <1>5, FunctionList
<1> QED BY <1>3, <1>6, ConcatFacts DEF u

\* A list of the elements of a finite set, each once.
LEMMA ListOfSet ==
    ASSUME NEW S, IsFiniteSet(S)
    PROVE  /\ IsList(SetToSeq(S))
           /\ Len(SetToSeq(S)) = Cardinality(S)
           /\ Cardinality(S) \in Nat
           /\ \A i \in 1 .. Cardinality(S) : SetToSeq(S)[i] \in S
           /\ \A i, j \in 1 .. Cardinality(S) : SetToSeq(S)[i] = SetToSeq(S)[j] => i = j
           /\ \A x \in S : \E i \in 1 .. Cardinality(S) : SetToSeq(S)[i] = x
<1> DEFINE n == Cardinality(S)
           f == SetToSeq(S)
<1>1. n \in Nat /\ ExistsBijection(1 .. n, S)
  BY FS_CardinalityType
<1>2. \E g \in [1 .. n -> S] : IsInjective(g)
  BY <1>1 DEF ExistsBijection, Bijection, Injection
<1>3. f \in [1 .. n -> S] /\ IsInjective(f)
  BY <1>2 DEF SetToSeq
<1>4. f \in Injection(1 .. n, S)
  BY <1>3 DEF Injection
<1>5. Cardinality(1 .. n) = n
  BY <1>1, FS_Interval
<1>6. f \in Surjection(1 .. n, S)
  BY <1>4, <1>5, FS_Injection
<1> HIDE DEF f, n
<1>7. IsList(f) /\ Len(f) = n
  <2>1. DOMAIN f = 1 .. n /\ f = [i \in 1 .. n |-> f[i]]
    BY <1>3
  <2> QED BY <1>1, <2>1, FunctionList
<1>8. \A i, j \in 1 .. n : f[i] = f[j] => i = j
  BY <1>3 DEF IsInjective
<1>9. \A x \in S : \E i \in 1 .. n : f[i] = x
  BY <1>6 DEF Surjection
<1> QED BY <1>1, <1>3, <1>7, <1>8, <1>9 DEF f, n
-----------------------------------------------------------------------------
(* The nodes. *)

NodeFields == {"name", "addr", "role", "myself", "slots", "slaves", "migrating", "importing", "con"}

\* A list of nodes.
IsHeap(hp) == IsList(hp) /\ \A id \in 1 .. Len(hp) : DOMAIN hp[id] = NodeFields

\* The same nodes, but for their lists of slaves.
SameNodes(hp, hq) ==
    /\ IsHeap(hq)
    /\ Len(hq) = Len(hp)
    /\ \A id \in 1 .. Len(hp) :
          /\ hq[id].name = hp[id].name
          /\ hq[id].addr = hp[id].addr
          /\ hq[id].role = hp[id].role
          /\ hq[id].slots = hp[id].slots
          /\ hq[id].migrating = hp[id].migrating
          /\ hq[id].importing = hp[id].importing
          /\ hq[id].con = hp[id].con

LEMMA NodeFacts ==
    ASSUME NEW name, NEW addr, NEW role, NEW myself
    PROVE  LET node == Node(name, addr, role, myself)
           IN  /\ DOMAIN node = NodeFields
               /\ node.name = name
               /\ node.addr = addr
               /\ node.role = role
               /\ node.slots = <<>>
               /\ node.slaves = <<>>
               /\ node.migrating = <<>>
               /\ node.importing = <<>>
               /\ node.con = None
  BY DEF Node, NodeFields

\* A heap in which the list of slaves of one node is another.
LEMMA SlavesChange ==
    ASSUME NEW hp, IsHeap(hp), NEW n, NEW list
    PROVE  LET hq == [hp EXCEPT ![n].slaves = list]
           IN  /\ SameNodes(hp, hq)
               /\ \A id \in 1 .. Len(hp) : id # n => hq[id].slaves = hp[id].slaves
               /\ n \in 1 .. Len(hp) => hq[n].slaves = list
<1> DEFINE hq == [hp EXCEPT ![n].slaves = list]
<1>1. Len(hp) \in Nat /\ DOMAIN hp = 1 .. Len(hp) /\ \A id \in 1 .. Len(hp) : DOMAIN hp[id] = NodeFields
  BY ListFacts DEF IsHeap
<1>2. DOMAIN hq = 1 .. Len(hp) /\ hq = [i \in 1 .. Len(hp) |-> hq[i]]
  BY <1>1
<1>3. ASSUME NEW id \in 1 .. Len(hp), id # n PROVE hq[id] = hp[id]
  BY <1>1, <1>3
<1>4. ASSUME n \in 1 .. Len(hp) PROVE hq[n] = [hp[n] EXCEPT !.slaves = list]
  BY <1>1, <1>4
<1> HIDE DEF hq
<1>5. IsList(hq) /\ Len(hq) = Len(hp)
  BY <1>1, <1>2, FunctionList
<1>6. ASSUME NEW id \in 1 .. Len(hp)
      PROVE  /\ DOMAIN hq[id] = NodeFields
             /\ hq[id].name = hp[id].name
             /\ hq[id].addr = hp[id].addr
             /\ hq[id].role = hp[id].role
             /\ hq[id].slots = hp[id].slots
             /\ hq[id].migrating = hp[id].migrating
             /\ hq[id].importing = hp[id].importing
             /\ hq[id].con = hp[id].con
             /\ id # n => hq[id].slaves = hp[id].slaves
             /\ id = n => hq[id].slaves = list
  <2>1. CASE id # n
    BY <1>1, <1>3, <2>1
  <2>2. CASE id = n
    <3>1. hq[id] = [hp[id] EXCEPT !.slaves = list] /\ DOMAIN hp[id] = NodeFields
      BY <1>1, <1>4, <2>2
    <3> QED BY <2>2, <3>1 DEF NodeFields
  <2> QED BY <2>1, <2>2
<1> QED BY <1>5, <1>6 DEF SameNodes, IsHeap, hq

LEMMA SameNodesTwice ==
    ASSUME NEW hp, NEW hq, NEW hr, SameNodes(hp, hq), SameNodes(hq, hr)
    PROVE  SameNodes(hp, hr)
  BY DEF SameNodes

\* cluster_master_slave_mapping_with_name changes lists of slaves only.
LEMMA MappedSame ==
    ASSUME NEW hp, IsHeap(hp), NEW id, NEW master
    PROVE  SameNodes(hp, Mapped(hp, id, master))
<1>1. CASE master \notin DOMAIN nodesName
  BY <1>1 DEF Mapped, SameNodes
<1>2. CASE master \in DOMAIN nodesName /\ hp[id].role = "master"
  <2> DEFINE old == nodesName[master]
             hq == [hp EXCEPT ![id].slaves = <<old>> \o Reverse(hp[old].slaves)]
             hr == [hq EXCEPT ![old].slaves = <<>>]
  <2>1. SameNodes(hp, hq)
    BY SlavesChange
  <2>2. SameNodes(hq, hr)
    <3>1. IsHeap(hq)
      BY <2>1 DEF SameNodes
    <3> HIDE DEF hq
    <3> QED BY <3>1, SlavesChange
  <2>3. Mapped(hp, id, master) = hr
    BY <1>2 DEF Mapped, MapMaster
  <2> HIDE DEF hq, hr
  <2> QED BY <2>1, <2>2, <2>3, SameNodesTwice
<1>3. CASE master \in DOMAIN nodesName /\ hp[id].role # "master"
  <2> DEFINE old == nodesName[master]
             list == Append(hp[old].slaves, id)
  <2>1. SameNodes(hp, [hp EXCEPT ![old].slaves = list])
    <3> HIDE DEF list, old
    <3> QED BY SlavesChange
  <2>2. Mapped(hp, id, master) = [hp EXCEPT ![old].slaves = list]
    BY <1>3 DEF Mapped
  <2> QED BY <2>1, <2>2
<1> QED BY <1>1, <1>2, <1>3

\* A heap with one node more.
LEMMA HeapAppend ==
    ASSUME NEW hp, IsHeap(hp), NEW node, DOMAIN node = NodeFields
    PROVE  /\ IsHeap(Append(hp, node))
           /\ Len(hp) \in Nat
           /\ Len(Append(hp, node)) = Len(hp) + 1
           /\ \A id \in 1 .. Len(hp) : Append(hp, node)[id] = hp[id]
           /\ Append(hp, node)[Len(hp) + 1] = node
<1>1. IsList(hp) /\ Len(hp) \in Nat /\ \A id \in 1 .. Len(hp) : DOMAIN hp[id] = NodeFields
  BY ListFacts DEF IsHeap
<1> DEFINE hq == Append(hp, node)
<1>2. /\ IsList(hq) /\ Len(hq) = Len(hp) + 1
      /\ \A id \in 1 .. Len(hp) : hq[id] = hp[id]
      /\ hq[Len(hp) + 1] = node
      /\ \A i \in 1 .. Len(hp) + 1 : i \in 1 .. Len(hp) \/ i = Len(hp) + 1
  BY <1>1, ListAppend
<1> HIDE DEF hq
<1>3. \A id \in 1 .. Len(hq) : DOMAIN hq[id] = NodeFields
  BY <1>1, <1>2
<1> QED BY <1>1, <1>2, <1>3 DEF IsHeap, hq

-----------------------------------------------------------------------------
(* What the parsers do to the nodes. *)

\* Nodes were made, and none lost its name, its address, its role or its connection.
Grown ==
    /\ IsHeap(heap')
    /\ Len(heap) \in Nat
    /\ Len(heap') \in Nat
    /\ Len(heap) <= Len(heap')
    /\ \A id \in 1 .. Len(heap) :
          /\ heap'[id].name = heap[id].name
          /\ heap'[id].addr = heap[id].addr
          /\ heap'[id].role = heap[id].role
          /\ heap'[id].con = heap[id].con
    /\ \A id \in Len(heap) + 1 .. Len(heap') : heap'[id].con = None

\* The ranges of the nodes there were are the same.
SameSlots ==
    \A id \in 1 .. Len(heap) : heap'[id].slots = heap[id].slots

\* One node was made.
MadeNode(node) ==
    /\ DOMAIN node = NodeFields
    /\ node.con = None
    /\ SameNodes(Append(heap, node), heap')

LEMMA MadeGrows ==
    ASSUME IsHeap(heap), NEW node, MadeNode(node)
    PROVE  /\ Grown
           /\ SameSlots
           /\ Len(heap') = Len(heap) + 1
           /\ heap'[Len(heap) + 1].name = node.name
           /\ heap'[Len(heap) + 1].addr = node.addr
           /\ heap'[Len(heap) + 1].role = node.role
           /\ heap'[Len(heap) + 1].slots = node.slots
<1> DEFINE hp == Append(heap, node)
           n == Len(heap) + 1
<1>1. /\ IsHeap(hp) /\ Len(heap) \in Nat /\ Len(hp) = n
      /\ \A id \in 1 .. Len(heap) : hp[id] = heap[id]
      /\ hp[n] = node
  BY HeapAppend DEF MadeNode
<1>2. SameNodes(hp, heap')
  BY DEF MadeNode
<1> HIDE DEF hp
<1>3. IsHeap(heap') /\ Len(heap') = Len(hp)
  BY <1>2 DEF SameNodes
<1>4. ASSUME NEW id \in 1 .. Len(hp)
      PROVE  /\ heap'[id].name = hp[id].name
             /\ heap'[id].addr = hp[id].addr
             /\ heap'[id].role = hp[id].role
             /\ heap'[id].slots = hp[id].slots
             /\ heap'[id].con = hp[id].con
  BY <1>2 DEF SameNodes
<1>5. \A id \in 1 .. Len(heap) : id \in 1 .. Len(hp)
  BY <1>1
<1>6. n \in 1 .. Len(hp) /\ \A id \in n .. Len(heap') : id = n
  BY <1>1, <1>3
<1>7. /\ heap'[n].name = node.name
      /\ heap'[n].addr = node.addr
      /\ heap'[n].role = node.role
      /\ heap'[n].slots = node.slots
      /\ heap'[n].con = node.con
  BY <1>1, <1>4, <1>6
<1>8. node.con = None
  BY DEF MadeNode
<1>9. SameSlots
  BY <1>1, <1>4, <1>5 DEF SameSlots
<1>10. Grown
  BY <1>1, <1>3, <1>4, <1>5, <1>6, <1>7, <1>8 DEF Grown
<1> QED BY <1>1, <1>3, <1>7, <1>9, <1>10

LEMMA MasterMade ==
    ASSUME IsHeap(heap), MasterLine
    PROVE  \E node :
              /\ MadeNode(node)
              /\ node.name = Line.name
              /\ node.addr = Line.addr
              /\ node.role = "master"
              /\ node.slots = RangesOf(Line.slots)
              /\ node.slaves = <<>>
<1> DEFINE node == [NodeOfLine EXCEPT !.slots = RangesOf(Line.slots),
                                      !.migrating = OpenSlots(Line.slots, "migrating"),
                                      !.importing = OpenSlots(Line.slots, "importing")]
           hp == Append(heap, node)
           id == Len(heap) + 1
<1>1. /\ DOMAIN NodeOfLine = NodeFields /\ NodeOfLine.name = Line.name /\ NodeOfLine.addr = Line.addr
      /\ NodeOfLine.role = Line.role /\ NodeOfLine.slaves = <<>> /\ NodeOfLine.con = None
  BY NodeFacts DEF NodeOfLine
<1>2. /\ DOMAIN node = NodeFields /\ node.name = Line.name /\ node.addr = Line.addr
      /\ node.role = Line.role /\ node.slots = RangesOf(Line.slots) /\ node.slaves = <<>> /\ node.con = None
  BY <1>1 DEF NodeFields
<1>3. Line.role = "master" /\ (heap' = hp \/ heap' = Mapped(hp, id, Line.name))
  BY DEF MasterLine
<1> HIDE DEF node
<1>4. IsHeap(hp)
  BY <1>2, HeapAppend
<1> HIDE DEF hp
<1>5. SameNodes(hp, heap')
  <2>1. SameNodes(hp, hp)
    BY <1>4 DEF SameNodes
  <2>2. SameNodes(hp, Mapped(hp, id, Line.name))
    BY <1>4, MappedSame
  <2> QED BY <1>3, <2>1, <2>2
<1> QED BY <1>2, <1>3, <1>5 DEF MadeNode, hp

LEMMA SlaveMade ==
    ASSUME IsHeap(heap), SlaveLine
    PROVE  \E node :
              /\ MadeNode(node)
              /\ node.name = Line.name
              /\ node.addr = Line.addr
              /\ node.role = "slave"
              /\ node.slots = <<>>
              /\ node.slaves = <<>>
<1> DEFINE hp == Append(heap, NodeOfLine)
           id == Len(heap) + 1
<1>1. /\ DOMAIN NodeOfLine = NodeFields /\ NodeOfLine.name = Line.name /\ NodeOfLine.addr = Line.addr
      /\ NodeOfLine.role = Line.role /\ NodeOfLine.slaves = <<>> /\ NodeOfLine.con = None
      /\ NodeOfLine.slots = <<>>
  BY NodeFacts DEF NodeOfLine
<1>2. Line.role = "slave" /\ heap' = Mapped(hp, id, Line.master)
  BY DEF SlaveLine
<1>3. IsHeap(hp)
  BY <1>1, HeapAppend
<1> HIDE DEF hp
<1>4. SameNodes(hp, heap')
  BY SMTT(30), <1>2, <1>3, MappedSame
<1> QED BY <1>1, <1>2, <1>4 DEF MadeNode, hp

\* A region of a master that is known.
LEMMA KnownGrows ==
    ASSUME IsHeap(heap), KnownMaster, nodes[Hosts[1].addr] \in 1 .. Len(heap)
    PROVE  LET n == nodes[Hosts[1].addr]
           IN  /\ Grown
               /\ Len(heap') = Len(heap)
               /\ \A id \in 1 .. Len(heap) :
                     /\ heap'[id].slaves = heap[id].slaves
                     /\ heap'[id].migrating = heap[id].migrating
                     /\ heap'[id].importing = heap[id].importing
               /\ \A id \in 1 .. Len(heap) : id # n => heap'[id].slots = heap[id].slots
               /\ heap'[n].slots = Append(heap[n].slots, [start |-> Region.start, end |-> Region.end])
<1> DEFINE n == nodes[Hosts[1].addr]
           r == [start |-> Region.start, end |-> Region.end]
           list == Append(heap[n].slots, r)
<1>1. heap' = [heap EXCEPT ![n] = [heap[n] EXCEPT !.slots = list]]
  BY DEF KnownMaster, WithRange
<1> HIDE DEF n, list, r
<1>2. /\ Len(heap) \in Nat /\ DOMAIN heap = 1 .. Len(heap)
      /\ \A id \in 1 .. Len(heap) : DOMAIN heap[id] = NodeFields
      /\ n \in 1 .. Len(heap)
  BY ListFacts DEF IsHeap, n
<1>3. DOMAIN heap' = 1 .. Len(heap) /\ heap' = [i \in 1 .. Len(heap) |-> heap'[i]]
  BY <1>1, <1>2
<1>4. IsList(heap') /\ Len(heap') = Len(heap)
  BY <1>2, <1>3, FunctionList
<1>5. ASSUME NEW id \in 1 .. Len(heap), id # n PROVE heap'[id] = heap[id]
  BY <1>1, <1>2, <1>5
<1>6. heap'[n] = [heap[n] EXCEPT !.slots = list]
  BY <1>1, <1>2
<1>7. /\ DOMAIN heap'[n] = NodeFields
      /\ heap'[n].slots = list
      /\ heap'[n].slaves = heap[n].slaves
      /\ heap'[n].migrating = heap[n].migrating
      /\ heap'[n].importing = heap[n].importing
      /\ heap'[n].name = heap[n].name
      /\ heap'[n].addr = heap[n].addr
      /\ heap'[n].role = heap[n].role
      /\ heap'[n].con = heap[n].con
  BY <1>2, <1>6 DEF NodeFields
<1>8. IsHeap(heap')
  BY <1>2, <1>4, <1>5, <1>7 DEF IsHeap
<1>9. Grown
  BY <1>2, <1>4, <1>5, <1>7, <1>8 DEF Grown
<1> QED BY <1>4, <1>5, <1>7, <1>9 DEF n, list, r

\* The slaves that a region makes.
NewSlaves == IF "ADD_SLAVE" \in flags THEN Len(Hosts) - 1 ELSE 0

\* A region of a master that is not known.
LEMMA NewMasterMade ==
    ASSUME IsHeap(heap), NewMaster, IsList(Hosts)
    PROVE  LET id == Len(heap) + 1
           IN  /\ Grown
               /\ SameSlots
               /\ NewSlaves \in Nat
               /\ Len(heap') = id + NewSlaves
               /\ \A n \in 1 .. Len(heap) : heap'[n] = heap[n]
               /\ heap'[id].addr = Hosts[1].addr
               /\ heap'[id].role = "master"
               /\ heap'[id].slots = <<[start |-> Region.start, end |-> Region.end]>>
               /\ heap'[id].slaves = [k \in 1 .. NewSlaves |-> id + k]
               /\ heap'[id].migrating = <<>>
               /\ heap'[id].importing = <<>>
               /\ \A k \in 1 .. NewSlaves :
                     /\ heap'[id + k].addr = Hosts[k + 1].addr
                     /\ heap'[id + k].role = "slave"
                     /\ heap'[id + k].slots = <<>>
                     /\ heap'[id + k].slaves = <<>>
                     /\ heap'[id + k].migrating = <<>>
                     /\ heap'[id + k].importing = <<>>
<1> DEFINE id == Len(heap) + 1
           r == [start |-> Region.start, end |-> Region.end]
           list == [k \in 1 .. NewSlaves |-> id + k]
           new == NodeOfHost(Hosts[1], "master")
           master == [WithRange(new) EXCEPT !.slaves = list]
           slave == [k \in 1 .. NewSlaves |-> NodeOfHost(Hosts[k + 1], "slave")]
           hp == Append(heap, master)
<1>1. heap' = (heap \o <<master>>) \o slave
  BY DEF NewMaster, NewSlaves
<1>2. Len(heap) \in Nat /\ IsList(heap) /\ \A n \in 1 .. Len(heap) : DOMAIN heap[n] = NodeFields
  BY ListFacts DEF IsHeap
<1>3. NewSlaves \in Nat
  <2>1. Len(Hosts) \in Nat /\ Hosts # <<>> /\ Hosts \in Seq(Range(Hosts))
    BY ListFacts DEF IsList, NewMaster
  <2>2. Len(Hosts) # 0
    BY <2>1, EmptyList
  <2> QED BY <2>1, <2>2 DEF NewSlaves
<1>4. /\ DOMAIN master = NodeFields /\ master.addr = Hosts[1].addr /\ master.role = "master"
      /\ master.slots = <<r>> /\ master.slaves = list /\ master.con = None
      /\ master.migrating = <<>> /\ master.importing = <<>>
  <2>1. /\ DOMAIN new = NodeFields /\ new.addr = Hosts[1].addr /\ new.role = "master"
        /\ new.slots = <<>> /\ new.con = None /\ new.migrating = <<>> /\ new.importing = <<>>
    BY DEF NodeOfHost, Node, NodeFields
  <2>2. WithRange(new) = [new EXCEPT !.slots = Append(new.slots, r)]
    BY DEF WithRange
  <2> HIDE DEF new, list
  <2>3. Append(new.slots, r) = <<r>>
    BY <2>1
  <2> QED BY <2>1, <2>2, <2>3 DEF NodeFields
<1>5. ASSUME NEW k \in 1 .. NewSlaves
      PROVE  /\ DOMAIN slave[k] = NodeFields
             /\ slave[k].addr = Hosts[k + 1].addr
             /\ slave[k].role = "slave"
             /\ slave[k].slots = <<>>
             /\ slave[k].slaves = <<>>
             /\ slave[k].migrating = <<>>
             /\ slave[k].importing = <<>>
             /\ slave[k].con = None
  <2>1. slave[k] = Node(None, Hosts[k + 1].addr, "slave", FALSE)
    BY DEF NodeOfHost
  <2> HIDE DEF slave
  <2> QED BY <2>1 DEF Node, NodeFields
<1>6. IsList(slave) /\ Len(slave) = NewSlaves
  <2>1. DOMAIN slave = 1 .. NewSlaves /\ slave = [i \in 1 .. NewSlaves |-> slave[i]]
    OBVIOUS
  <2> HIDE DEF slave
  <2> QED BY <1>3, <2>1, FunctionList
<1> HIDE DEF master, slave
<1>7. IsList(<<master>>) /\ Len(<<master>>) = 1 /\ <<master>>[1] = master
  <2>1. <<master>> = [i \in 1 .. 1 |-> <<master>>[i]] /\ DOMAIN <<master>> = 1 .. 1
    OBVIOUS
  <2>2. IsList(<<master>>) /\ Len(<<master>>) = 1
    BY <2>1, FunctionList
  <2> QED BY <2>2
<1> DEFINE hq == heap \o <<master>>
<1>8. /\ IsList(hq) /\ Len(hq) = id
      /\ \A n \in 1 .. Len(heap) : hq[n] = heap[n]
      /\ hq[id] = master
  BY <1>2, <1>7, ListConcat
<1> HIDE DEF hq
<1>9. PICK d, m \in Nat : d = id /\ m = NewSlaves
  BY <1>2, <1>3
<1>10. /\ IsList(heap') /\ Len(heap') = d + m
       /\ \A n \in 1 .. d : heap'[n] = hq[n]
       /\ \A k \in 1 .. m : heap'[d + k] = slave[k]
  <2>1. heap' = hq \o slave
    BY <1>1 DEF hq
  <2>2. Len(hq) = d /\ Len(slave) = m
    BY <1>6, <1>8, <1>9
  <2>3. /\ IsList(heap') /\ Len(heap') = Len(hq) + Len(slave)
        /\ \A n \in 1 .. Len(hq) : heap'[n] = hq[n]
        /\ \A k \in 1 .. Len(slave) : heap'[Len(hq) + k] = slave[k]
    <3>1. PICK x, y : x = hq /\ y = slave
      OBVIOUS
    <3>2. IsList(x) /\ IsList(y) /\ heap' = x \o y
      BY <1>6, <1>8, <2>1, <3>1
    <3>3. /\ IsList(x \o y) /\ Len(x \o y) = Len(x) + Len(y)
          /\ \A n \in 1 .. Len(x) : (x \o y)[n] = x[n]
          /\ \A k \in 1 .. Len(y) : (x \o y)[Len(x) + k] = y[k]
      BY ONLY <3>2, ListConcat
    <3> QED BY ONLY <3>1, <3>2, <3>3
  <2> QED BY ONLY <2>2, <2>3
<1>11. /\ Len(heap) = d - 1
       /\ \A n \in 1 .. Len(heap) : n \in 1 .. d
       /\ d \in 1 .. d
  BY <1>2, <1>9
<1>12. /\ \A n \in 1 .. Len(heap) : heap'[n] = heap[n]
       /\ heap'[d] = master
  BY <1>8, <1>9, <1>10, <1>11
<1>13. \A n \in 1 .. d + m : n \in 1 .. Len(heap) \/ n = d \/ \E k \in 1 .. m : n = d + k
  <2>1. ASSUME NEW n \in 1 .. d + m, n > d PROVE \E k \in 1 .. m : n = d + k
    <3>1. n - d \in 1 .. m /\ n = d + (n - d)
      BY <2>1
    <3> QED BY <3>1
  <2>2. ASSUME NEW n \in 1 .. d + m, n < d PROVE n \in 1 .. Len(heap)
    BY <1>11, <2>2
  <2> QED BY <2>1, <2>2
<1>14. \A k \in 1 .. m : DOMAIN slave[k] = NodeFields /\ slave[k].con = None
  BY <1>5, <1>9
<1>15. IsHeap(heap')
  <2> SUFFICES ASSUME NEW n \in 1 .. d + m PROVE DOMAIN heap'[n] = NodeFields
    BY <1>10 DEF IsHeap
  <2>1. CASE \E k \in 1 .. m : n = d + k
    BY <1>10, <1>14, <2>1
  <2> QED BY <1>2, <1>4, <1>12, <1>13, <2>1
<1>16. \A n \in d .. d + m : heap'[n].con = None
  <2> SUFFICES ASSUME NEW n \in d .. d + m PROVE heap'[n].con = None
    OBVIOUS
  <2>1. n \in 1 .. d + m /\ n \notin 1 .. Len(heap)
    BY <1>2, <1>11
  <2>2. CASE \E k \in 1 .. m : n = d + k
    BY <1>10, <1>14, <2>2
  <2> QED BY <1>4, <1>12, <1>13, <2>1, <2>2
<1>17. Grown
  <2>1. Len(heap) + 1 = d /\ Len(heap) <= d + m /\ d + m \in Nat
    BY <1>2, <1>11
  <2> QED BY <1>2, <1>10, <1>12, <1>15, <1>16, <2>1 DEF Grown
<1>18. SameSlots
  BY <1>12 DEF SameSlots
<1>19. ASSUME NEW k \in 1 .. m
       PROVE  /\ heap'[d + k].addr = Hosts[k + 1].addr
              /\ heap'[d + k].role = "slave"
              /\ heap'[d + k].slots = <<>>
              /\ heap'[d + k].slaves = <<>>
              /\ heap'[d + k].migrating = <<>>
              /\ heap'[d + k].importing = <<>>
  BY ZenonT(60), <1>5, <1>9, <1>10
<1>20. /\ heap'[d].addr = Hosts[1].addr
       /\ heap'[d].role = "master"
       /\ heap'[d].slots = <<r>>
       /\ heap'[d].slaves = list
       /\ heap'[d].migrating = <<>>
       /\ heap'[d].importing = <<>>
  BY <1>4, <1>12
<1> QED BY <1>3, <1>9, <1>10, <1>12, <1>17, <1>18, <1>19, <1>20

-----------------------------------------------------------------------------
(* The connections. *)

\* The old nodes have their connections still, and the new ones have none.
Apart ==
    /\ closed = {}
    /\ \A a \in DOMAIN nodes :
          /\ nodes[a] \in 1 .. Len(heap)
          /\ heap[nodes[a]].addr = a
          /\ heap[nodes[a]].role = "master"
          /\ heap[nodes[a]].con = None
    /\ \A a \in DOMAIN cc.nodes :
          /\ cc.nodes[a] \in 1 .. Len(heap)
          /\ heap[cc.nodes[a]].addr = a
          /\ heap[cc.nodes[a]].con = a
          /\ a # None
    /\ \A id \in 1 .. Len(heap) : heap[id].con # None => \E a \in DOMAIN cc.nodes : id = cc.nodes[a]

\* What is parsed.
Placed ==
    /\ reply \in Replies
    /\ pc \in {"parse", "refused", "undefined", "taken"}
    /\ pos \in 1 .. Len(reply.elements) + 1

NodesInv ==
    /\ IsHeap(heap)
    /\ Placed
    /\ pc = "parse" => Apart
    /\ ConnectionsCarried

\* The nodes of an old route.
LEMMA OldNodes ==
    ASSUME NEW old \in OldRoutes
    PROVE  /\ IsHeap(OldHeap(old))
           /\ \A id \in 1 .. Len(OldHeap(old)) :
                 /\ OldHeap(old)[id].addr \in DOMAIN old
                 /\ OldHeap(old)[id].con = OldHeap(old)[id].addr
                 /\ OldHeap(old)[id].slots = old[OldHeap(old)[id].addr]
                 /\ OldHeap(old)[id].slaves = <<>>
                 /\ OldHeap(old)[id].migrating = <<>>
                 /\ OldHeap(old)[id].importing = <<>>
           /\ \A i, j \in 1 .. Len(OldHeap(old)) : OldHeap(old)[i].addr = OldHeap(old)[j].addr => i = j
           /\ \A a \in DOMAIN old : \E id \in 1 .. Len(OldHeap(old)) : OldHeap(old)[id].addr = a
<1>1. PICK addrs : addrs = SetToSeq(DOMAIN old)
  OBVIOUS
<1>2. PICK n \in Nat : /\ IsList(addrs) /\ Len(addrs) = n
                       /\ \A i \in 1 .. n : addrs[i] \in DOMAIN old
                       /\ \A i, j \in 1 .. n : addrs[i] = addrs[j] => i = j
                       /\ \A x \in DOMAIN old : \E i \in 1 .. n : addrs[i] = x
  BY <1>1, ListOfSet, OldRoutesAssumption
<1>3. PICK hp : hp = OldHeap(old)
  OBVIOUS
<1>4. DOMAIN addrs = 1 .. n
  BY <1>2, ListFacts
<1>5. hp = [i \in 1 .. n |-> [Node(addrs[i], addrs[i], "master", FALSE) EXCEPT
                                !.slots = old[addrs[i]], !.con = addrs[i]]]
  BY <1>1, <1>3, <1>4 DEF OldHeap
<1>6. IsList(hp) /\ Len(hp) = n
  BY <1>5, FunctionList
<1>7. ASSUME NEW i \in 1 .. n
      PROVE  /\ DOMAIN hp[i] = NodeFields
             /\ hp[i].addr = addrs[i]
             /\ hp[i].con = addrs[i]
             /\ hp[i].slots = old[addrs[i]]
             /\ hp[i].slaves = <<>>
             /\ hp[i].migrating = <<>>
             /\ hp[i].importing = <<>>
  <2>1. hp[i] = [Node(addrs[i], addrs[i], "master", FALSE) EXCEPT !.slots = old[addrs[i]], !.con = addrs[i]]
    BY <1>5
  <2> QED BY <2>1 DEF Node, NodeFields
<1>8. IsHeap(hp)
  BY <1>6, <1>7 DEF IsHeap
<1>9. /\ \A id \in 1 .. Len(hp) :
            /\ hp[id].addr \in DOMAIN old
            /\ hp[id].con = hp[id].addr
            /\ hp[id].slots = old[hp[id].addr]
            /\ hp[id].slaves = <<>>
            /\ hp[id].migrating = <<>>
            /\ hp[id].importing = <<>>
      /\ \A i, j \in 1 .. Len(hp) : hp[i].addr = hp[j].addr => i = j
      /\ \A a \in DOMAIN old : \E id \in 1 .. Len(hp) : hp[id].addr = a
  BY <1>2, <1>6, <1>7
<1> QED BY <1>3, <1>8, <1>9

LEMMA OldDict ==
    ASSUME NEW old \in OldRoutes
    PROVE  /\ DOMAIN OldRoute(old).nodes = DOMAIN old
           /\ \A a \in DOMAIN old :
                 /\ OldRoute(old).nodes[a] \in 1 .. Len(OldHeap(old))
                 /\ OldHeap(old)[OldRoute(old).nodes[a]].addr = a
<1>1. CASE old = <<>>
  BY <1>1 DEF OldRoute, EmptyRoute
<1>2. CASE old # <<>>
  <2>1. PICK hp : hp = OldHeap(old)
    OBVIOUS
  <2>2. DOMAIN hp = 1 .. Len(hp) /\ \A a \in DOMAIN old : \E id \in 1 .. Len(hp) : hp[id].addr = a
    BY <2>1, OldNodes, ListFacts DEF IsHeap
  <2>3. OldRoute(old).nodes = [a \in DOMAIN old |-> CHOOSE n \in DOMAIN hp : hp[n].addr = a]
    BY <1>2, <2>1 DEF OldRoute
  <2> QED BY <2>1, <2>2, <2>3
<1> QED BY <1>1, <1>2

LEMMA NodesInit == Init => NodesInv
<1> SUFFICES ASSUME Init PROVE NodesInv
  OBVIOUS
<1>1. PICK old \in OldRoutes : heap = OldHeap(old) /\ cc = OldRoute(old)
  BY DEF Init
<1>2. reply \in Replies /\ pc = "parse" /\ pos = 1 /\ nodes = <<>> /\ closed = {}
  BY DEF Init
<1>3. Placed
  <2>1. Len(reply.elements) \in Nat
    BY <1>2, RepliesAssumption, ListFacts
  <2> QED BY <1>2, <2>1 DEF Placed
<1>4. /\ IsHeap(heap)
      /\ \A id \in 1 .. Len(heap) : heap[id].addr \in DOMAIN old /\ heap[id].con = heap[id].addr
      /\ \A i, j \in 1 .. Len(heap) : heap[i].addr = heap[j].addr => i = j
  BY <1>1, OldNodes
<1>5. /\ DOMAIN cc.nodes = DOMAIN old
      /\ \A a \in DOMAIN old : cc.nodes[a] \in 1 .. Len(heap) /\ heap[cc.nodes[a]].addr = a
  BY <1>1, OldDict
<1>6. \A a \in DOMAIN old : a # None
  BY OldRoutesAssumption
<1>7. ASSUME NEW id \in 1 .. Len(heap) PROVE \E a \in DOMAIN cc.nodes : id = cc.nodes[a]
  <2>1. PICK a \in DOMAIN old : heap[id].addr = a
    BY <1>4
  <2>2. cc.nodes[a] = id
    BY <1>4, <1>5, <2>1
  <2> QED BY <1>5, <2>2
<1>8. Apart
  <2>1. DOMAIN nodes = {}
    BY <1>2
  <2> QED BY <1>2, <1>4, <1>5, <1>6, <1>7, <2>1 DEF Apart
<1> QED BY <1>2, <1>3, <1>4, <1>8 DEF NodesInv, ConnectionsCarried

-----------------------------------------------------------------------------
(* The steps of the parsers. *)

\* The dict has the nodes it had, and one that was made, at most.
NodesGrown ==
    \A a \in DOMAIN nodes' :
        \/ a \in DOMAIN nodes /\ nodes'[a] = nodes[a]
        \/ /\ nodes'[a] = Len(heap) + 1
           /\ Len(heap) + 1 <= Len(heap')
           /\ heap'[nodes'[a]].addr = a
           /\ heap'[nodes'[a]].role = "master"

LEMMA GrownApart ==
    ASSUME IsHeap(heap), Apart, Grown, NodesGrown, UNCHANGED <<cc, closed>>
    PROVE  Apart'
<1>1. Len(heap) \in Nat /\ Len(heap') \in Nat /\ Len(heap) <= Len(heap')
  BY DEF Grown
<1>2. ASSUME NEW id \in 1 .. Len(heap)
      PROVE  /\ id \in 1 .. Len(heap')
             /\ heap'[id].addr = heap[id].addr
             /\ heap'[id].role = heap[id].role
             /\ heap'[id].con = heap[id].con
  BY <1>1 DEF Grown
<1>3. ASSUME NEW id \in 1 .. Len(heap'), id \notin 1 .. Len(heap) PROVE heap'[id].con = None
  <2>1. id \in Len(heap) + 1 .. Len(heap')
    BY <1>1, <1>3
  <2> QED BY <2>1 DEF Grown
<1>4. ASSUME NEW a \in DOMAIN nodes'
      PROVE  /\ nodes'[a] \in 1 .. Len(heap')
             /\ heap'[nodes'[a]].addr = a
             /\ heap'[nodes'[a]].role = "master"
             /\ heap'[nodes'[a]].con = None
  <2>1. CASE a \in DOMAIN nodes /\ nodes'[a] = nodes[a]
    BY <1>2, <2>1 DEF Apart
  <2>2. CASE /\ nodes'[a] = Len(heap) + 1
             /\ Len(heap) + 1 <= Len(heap')
             /\ heap'[nodes'[a]].addr = a
             /\ heap'[nodes'[a]].role = "master"
    <3>1. nodes'[a] \in 1 .. Len(heap') /\ nodes'[a] \notin 1 .. Len(heap)
      BY <1>1, <2>2
    <3> QED BY <1>3, <2>2, <3>1
  <2> QED BY <2>1, <2>2 DEF NodesGrown
<1>5. \A id \in 1 .. Len(heap') : heap'[id].con # None => \E a \in DOMAIN cc'.nodes : id = cc'.nodes[a]
  BY <1>2, <1>3 DEF Apart
<1>6. \A a \in DOMAIN cc'.nodes :
          /\ cc'.nodes[a] \in 1 .. Len(heap')
          /\ heap'[cc'.nodes[a]].addr = a
          /\ heap'[cc'.nodes[a]].con = a
          /\ a # None
  BY <1>2 DEF Apart
<1> QED BY <1>4, <1>5, <1>6 DEF Apart

\* The steps that parse a line or a region.
ParserStep == SkipLine \/ MasterLine \/ SlaveLine \/ KnownMaster \/ NewMaster

\* The steps that end the update without a route.
RefusalStep == BadLine \/ BadRegion \/ NoRegions \/ RefuseRoute

\* The line or region that is parsed is one of the reply.
LEMMA ElementParsed ==
    ASSUME Placed, NEW format, Parsing(format)
    PROVE  /\ pos \in DOMAIN reply.elements
           /\ Len(reply.elements) \in Nat
           /\ pos + 1 \in 1 .. Len(reply.elements) + 1
           /\ reply.format = "slots" => IsList(Hosts)
<1>1. /\ IsList(reply.elements)
      /\ reply.format = "slots" => \A i \in DOMAIN reply.elements : IsList(reply.elements[i].hosts)
  BY RepliesAssumption DEF Placed
<1>2. Len(reply.elements) \in Nat /\ DOMAIN reply.elements = 1 .. Len(reply.elements)
  BY <1>1, ListFacts
<1>3. pos \in DOMAIN reply.elements /\ pos + 1 \in 1 .. Len(reply.elements) + 1
  BY <1>2 DEF Placed, Parsing
<1> QED BY <1>1, <1>2, <1>3 DEF Hosts, Region

LEMMA ParserGrows ==
    ASSUME NodesInv, ParserStep
    PROVE  /\ Grown
           /\ NodesGrown
           /\ pc = "parse"
           /\ pos' = pos + 1
           /\ pc' = pc \/ pc' = "undefined"
           /\ UNCHANGED <<flags, reply, cc, closed>>
<1>1. IsHeap(heap) /\ Placed /\ pc = "parse" /\ Apart
  BY DEF NodesInv, ParserStep, SkipLine, MasterLine, SlaveLine, KnownMaster, NewMaster, Parsing
<1>2. CASE SkipLine
  <2>1. UNCHANGED <<flags, reply, pc, heap, nodes, cc, closed>> /\ pos' = pos + 1
    BY <1>2 DEF SkipLine
  <2>2. Len(heap) \in Nat /\ \A id \in Len(heap) + 1 .. Len(heap) : FALSE
    BY <1>1, ListFacts DEF IsHeap
  <2> QED BY <1>1, <2>1, <2>2 DEF Grown, NodesGrown
<1>3. CASE MasterLine
  <2>1. /\ nodes' = With(nodes, Line.addr, Len(heap) + 1)
        /\ pc' = pc \/ pc' = "undefined"
        /\ pos' = pos + 1
        /\ UNCHANGED <<flags, reply, cc, closed>>
    BY <1>3 DEF MasterLine
  <2>2. PICK node : MadeNode(node) /\ node.addr = Line.addr /\ node.role = "master"
    BY <1>1, <1>3, MasterMade
  <2>3. /\ Grown /\ Len(heap') = Len(heap) + 1
        /\ heap'[Len(heap) + 1].addr = Line.addr
        /\ heap'[Len(heap) + 1].role = "master"
    BY <1>1, <2>2, MadeGrows
  <2>4. NodesGrown
    <3>1. Len(heap) + 1 <= Len(heap')
      BY <2>3 DEF Grown
    <3>2. PICK x, n : x = Line.addr /\ n = Len(heap) + 1
      OBVIOUS
    <3>3. nodes' = With(nodes, x, n)
      BY <2>1, <3>2
    <3>4. /\ DOMAIN nodes' = DOMAIN nodes \cup {x} /\ nodes'[x] = n
          /\ \A z \in DOMAIN nodes : z # x => nodes'[z] = nodes[z]
      BY ONLY <3>3 DEF With
    <3> QED BY <2>3, <3>1, <3>2, <3>4 DEF NodesGrown
  <2> QED BY <1>1, <2>1, <2>3, <2>4
<1>4. CASE SlaveLine
  <2>1. UNCHANGED <<flags, reply, pc, nodes, cc, closed>> /\ pos' = pos + 1
    BY <1>4 DEF SlaveLine
  <2>2. PICK node : MadeNode(node)
    BY <1>1, <1>4, SlaveMade
  <2>3. Grown
    BY <1>1, <2>2, MadeGrows
  <2> QED BY <1>1, <2>1, <2>3 DEF NodesGrown
<1>5. CASE KnownMaster
  <2>1. UNCHANGED <<flags, reply, pc, nodes, cc, closed>> /\ pos' = pos + 1
    BY <1>5 DEF KnownMaster
  <2>2. nodes[Hosts[1].addr] \in 1 .. Len(heap)
    BY <1>1, <1>5 DEF KnownMaster, Known, Apart
  <2>3. Grown
    BY <1>1, <1>5, <2>2, KnownGrows
  <2> QED BY <1>1, <2>1, <2>3 DEF NodesGrown
<1>6. CASE NewMaster
  <2>1. /\ nodes' = With(nodes, Hosts[1].addr, Len(heap) + 1)
        /\ pos' = pos + 1
        /\ UNCHANGED <<flags, reply, pc, cc, closed>>
    BY <1>6 DEF NewMaster
  <2>2. IsList(Hosts)
    BY <1>1, <1>6, ElementParsed DEF NewMaster, Parsing
  <2>3. /\ Grown /\ NewSlaves \in Nat /\ Len(heap') = Len(heap) + 1 + NewSlaves
        /\ heap'[Len(heap) + 1].addr = Hosts[1].addr
        /\ heap'[Len(heap) + 1].role = "master"
    BY <1>1, <1>6, <2>2, NewMasterMade
  <2>4. NodesGrown
    <3>1. Len(heap) + 1 <= Len(heap')
      BY <2>3 DEF Grown
    <3>2. PICK x, n : x = Hosts[1].addr /\ n = Len(heap) + 1
      OBVIOUS
    <3>3. nodes' = With(nodes, x, n)
      BY <2>1, <3>2
    <3>4. /\ DOMAIN nodes' = DOMAIN nodes \cup {x} /\ nodes'[x] = n
          /\ \A z \in DOMAIN nodes : z # x => nodes'[z] = nodes[z]
      BY ONLY <3>3 DEF With
    <3> QED BY <2>3, <3>1, <3>2, <3>4 DEF NodesGrown
  <2> QED BY <1>1, <2>1, <2>3, <2>4
<1> QED BY <1>2, <1>3, <1>4, <1>5, <1>6 DEF ParserStep

\* The connections when a route is taken.
LEMMA SwapFacts ==
    ASSUME IsHeap(heap), Apart
    PROVE  LET hp == Swapped(heap, cc.nodes, nodes)
           IN  /\ IsHeap(hp)
               /\ Len(hp) = Len(heap)
               /\ \A id \in 1 .. Len(heap) :
                     /\ hp[id].name = heap[id].name
                     /\ hp[id].addr = heap[id].addr
                     /\ hp[id].role = heap[id].role
                     /\ hp[id].slots = heap[id].slots
                     /\ hp[id].slaves = heap[id].slaves
                     /\ hp[id].migrating = heap[id].migrating
                     /\ hp[id].importing = heap[id].importing
               /\ \A a \in DOMAIN nodes :
                     hp[nodes[a]].con = IF a \in DOMAIN cc.nodes THEN a ELSE None
               /\ \A a \in DOMAIN cc.nodes :
                     hp[cc.nodes[a]].con = IF a \in DOMAIN nodes THEN None ELSE a
               /\ \A id \in 1 .. Len(heap) :
                     hp[id].con # None => (\E a \in DOMAIN nodes : id = nodes[a])
                                       \/ (\E a \in DOMAIN cc.nodes : id = cc.nodes[a])
<1> DEFINE hp == Swapped(heap, cc.nodes, nodes)
           Gets(id) == \E a \in DOMAIN nodes \cap DOMAIN cc.nodes : id = nodes[a] /\ heap[cc.nodes[a]].con # None
           Gives(id) == \E a \in DOMAIN nodes \cap DOMAIN cc.nodes : id = cc.nodes[a]
           Con(id) == IF Gets(id) THEN heap[cc.nodes[heap[id].addr]].con
                      ELSE IF Gives(id) THEN heap[nodes[heap[id].addr]].con ELSE heap[id].con
<1>1. Len(heap) \in Nat /\ DOMAIN heap = 1 .. Len(heap) /\ \A id \in 1 .. Len(heap) : DOMAIN heap[id] = NodeFields
  BY ListFacts DEF IsHeap
<1>2. DOMAIN hp = 1 .. Len(heap) /\ hp = [id \in 1 .. Len(heap) |-> hp[id]]
  BY <1>1 DEF Swapped
<1>3. ASSUME NEW id \in 1 .. Len(heap)
      PROVE  hp[id] = IF Gets(id) THEN [heap[id] EXCEPT !.con = heap[cc.nodes[heap[id].addr]].con]
                      ELSE IF Gives(id) THEN [heap[id] EXCEPT !.con = heap[nodes[heap[id].addr]].con]
                      ELSE heap[id]
  BY <1>1 DEF Swapped
<1> HIDE DEF hp
<1>4. IsList(hp) /\ Len(hp) = Len(heap)
  BY <1>1, <1>2, FunctionList
<1>5. ASSUME NEW id \in 1 .. Len(heap)
      PROVE  /\ DOMAIN hp[id] = NodeFields
             /\ hp[id].name = heap[id].name
             /\ hp[id].addr = heap[id].addr
             /\ hp[id].role = heap[id].role
             /\ hp[id].slots = heap[id].slots
             /\ hp[id].slaves = heap[id].slaves
             /\ hp[id].migrating = heap[id].migrating
             /\ hp[id].importing = heap[id].importing
             /\ hp[id].con = Con(id)
  <2>0. DOMAIN heap[id] = NodeFields
    BY <1>1
  <2> HIDE DEF Gets, Gives
  <2>1. CASE Gets(id)
    <3>1. hp[id] = [heap[id] EXCEPT !.con = heap[cc.nodes[heap[id].addr]].con]
      BY <1>3, <2>1
    <3> QED BY <2>0, <2>1, <3>1 DEF NodeFields
  <2>2. CASE ~Gets(id) /\ Gives(id)
    <3>1. hp[id] = [heap[id] EXCEPT !.con = heap[nodes[heap[id].addr]].con]
      BY <1>3, <2>2
    <3> QED BY <2>0, <2>2, <3>1 DEF NodeFields
  <2>3. CASE ~Gets(id) /\ ~Gives(id)
    BY <1>3, <2>0, <2>3
  <2> QED BY <2>1, <2>2, <2>3
<1>6. IsHeap(hp)
  BY <1>4, <1>5 DEF IsHeap
<1>7. ASSUME NEW a \in DOMAIN nodes PROVE hp[nodes[a]].con = IF a \in DOMAIN cc.nodes THEN a ELSE None
  <2>1. nodes[a] \in 1 .. Len(heap) /\ heap[nodes[a]].addr = a /\ heap[nodes[a]].con = None
    BY DEF Apart
  <2>2. ~Gives(nodes[a])
    BY <2>1 DEF Apart
  <2>3. Gets(nodes[a]) <=> a \in DOMAIN cc.nodes
    BY <2>1 DEF Apart
  <2>4. a \in DOMAIN cc.nodes => heap[cc.nodes[a]].con = a
    BY DEF Apart
  <2> HIDE DEF Gets, Gives
  <2> QED BY <1>5, <2>1, <2>2, <2>3, <2>4
<1>8. ASSUME NEW a \in DOMAIN cc.nodes PROVE hp[cc.nodes[a]].con = IF a \in DOMAIN nodes THEN None ELSE a
  <2>1. cc.nodes[a] \in 1 .. Len(heap) /\ heap[cc.nodes[a]].addr = a /\ heap[cc.nodes[a]].con = a /\ a # None
    BY DEF Apart
  <2>2. ~Gets(cc.nodes[a])
    BY <2>1 DEF Apart
  <2>3. Gives(cc.nodes[a]) <=> a \in DOMAIN nodes
    BY <2>1 DEF Apart
  <2>4. a \in DOMAIN nodes => heap[nodes[a]].con = None
    BY DEF Apart
  <2> HIDE DEF Gets, Gives
  <2> QED BY <1>5, <2>1, <2>2, <2>3, <2>4
<1>9. ASSUME NEW id \in 1 .. Len(heap), hp[id].con # None
      PROVE  (\E a \in DOMAIN nodes : id = nodes[a]) \/ (\E a \in DOMAIN cc.nodes : id = cc.nodes[a])
  <2>1. CASE Gets(id) \/ Gives(id)
    BY <2>1
  <2>2. CASE ~Gets(id) /\ ~Gives(id)
    <3>1. heap[id].con # None
      <4> HIDE DEF Gets, Gives
      <4> QED BY <1>5, <1>9, <2>2
    <3> QED BY <3>1 DEF Apart
  <2> QED BY <2>1, <2>2
<1> QED BY <1>4, <1>5, <1>6, <1>7, <1>8, <1>9 DEF hp

LEMMA NodesTaken ==
    ASSUME NodesInv, TakeRoute
    PROVE  NodesInv'
<1>1. IsHeap(heap) /\ Placed /\ Apart
  BY DEF NodesInv, TakeRoute, Parsed
<1>2. /\ heap' = Swapped(heap, cc.nodes, nodes)
      /\ closed' = closed \cup ({heap'[id].con : id \in Range(cc.nodes)} \ {None})
      /\ cc'.nodes = nodes
      /\ pc' = "taken"
      /\ UNCHANGED <<reply, pos>>
  BY DEF TakeRoute
<1>3. /\ IsHeap(heap')
      /\ Len(heap') = Len(heap)
      /\ \A a \in DOMAIN nodes : heap'[nodes[a]].con = IF a \in DOMAIN cc.nodes THEN a ELSE None
      /\ \A a \in DOMAIN cc.nodes : heap'[cc.nodes[a]].con = IF a \in DOMAIN nodes THEN None ELSE a
      /\ \A id \in 1 .. Len(heap) :
            heap'[id].con # None => (\E a \in DOMAIN nodes : id = nodes[a])
                                 \/ (\E a \in DOMAIN cc.nodes : id = cc.nodes[a])
  BY <1>1, <1>2, SwapFacts
<1>4. closed' \cap DOMAIN cc'.nodes = {}
  <2> SUFFICES ASSUME NEW x \in closed', x \in DOMAIN nodes PROVE FALSE
    BY <1>2
  <2>1. PICK a \in DOMAIN cc.nodes : x = heap'[cc.nodes[a]].con /\ x # None
    BY <1>1, <1>2 DEF Apart, Range
  <2> QED BY <1>3, <2>1
<1>5. \A a \in DOMAIN cc'.nodes : heap'[cc'.nodes[a]].con \in {a, None}
  BY <1>2, <1>3
<1>6. ASSUME NEW id \in DOMAIN heap', heap'[id].con # None
      PROVE  id \in Range(cc'.nodes) \/ heap'[id].con \in closed'
  <2>1. id \in 1 .. Len(heap)
    BY <1>3, <1>6, ListFacts DEF IsHeap
  <2>2. CASE \E a \in DOMAIN nodes : id = nodes[a]
    BY <1>2, <2>2 DEF Range
  <2>3. CASE \E a \in DOMAIN cc.nodes : id = cc.nodes[a]
    BY <1>2, <1>6, <2>3 DEF Range
  <2> QED BY <1>3, <1>6, <2>1, <2>2, <2>3
<1>7. ConnectionsCarried'
  BY <1>4, <1>5, <1>6 DEF ConnectionsCarried
<1>8. Placed'
  BY <1>1, <1>2 DEF Placed
<1> QED BY <1>2, <1>3, <1>7, <1>8 DEF NodesInv

LEMMA NodesStep == NodesInv /\ [Next]_vars => NodesInv'
<1> SUFFICES ASSUME NodesInv, [Next]_vars PROVE NodesInv'
  OBVIOUS
<1>1. CASE ParserStep
  <2>1. /\ Grown /\ NodesGrown /\ pc = "parse" /\ pos' = pos + 1
        /\ pc' \in {"parse", "undefined"}
        /\ UNCHANGED <<flags, reply, cc, closed>>
    BY <1>1, ParserGrows
  <2>2. IsHeap(heap) /\ Apart /\ Placed
    BY <2>1 DEF NodesInv
  <2>3. Apart'
    BY <2>1, <2>2, GrownApart
  <2>4. Placed'
    <3>1. \E format : Parsing(format)
      BY <1>1 DEF ParserStep, SkipLine, MasterLine, SlaveLine, KnownMaster, NewMaster
    <3>2. pos + 1 \in 1 .. Len(reply.elements) + 1
      BY <2>2, <3>1, ElementParsed
    <3> QED BY <2>1, <2>2, <3>2 DEF Placed
  <2>5. ConnectionsCarried'
    BY <2>1 DEF ConnectionsCarried
  <2> QED BY <2>1, <2>3, <2>4, <2>5 DEF NodesInv, Grown
<1>2. CASE RefusalStep
  <2>1. pc' \in {"refused", "undefined"} /\ UNCHANGED <<reply, pos, heap>>
    BY <1>2 DEF RefusalStep, BadLine, BadRegion, NoRegions, RefuseRoute, ParserFails
  <2>2. Placed'
    BY <2>1 DEF NodesInv, Placed
  <2> QED BY <2>1, <2>2 DEF NodesInv, ConnectionsCarried
<1>3. CASE TakeRoute
  BY <1>3, NodesTaken
<1>4. CASE UNCHANGED vars
  BY <1>4 DEF vars, NodesInv, Placed, Apart, ConnectionsCarried
<1> QED BY <1>1, <1>2, <1>3, <1>4 DEF Next, ParserStep, RefusalStep

LEMMA NodesInvariant == Spec => []NodesInv
  BY NodesInit, NodesStep, PTL DEF Spec

\* When a route is taken, each node that stays has the connection it had, none
\* has one that was closed, and those of the nodes that have gone were closed:
\* no connection is lost, shared or used after its end (cluster_nodes_swap_ctx
\* and the dictRelease behind it).
THEOREM NoConnectionLost == Spec => []ConnectionsCarried
<1>1. NodesInv => ConnectionsCarried
  BY DEF NodesInv
<1> QED BY <1>1, NodesInvariant, PTL

\* A connection is that of a node, or it is closed.
LEMMA ConnectionIs ==
    ASSUME NEW x
    PROVE  /\ x \in Connections <=> x \in closed \/ (x # None /\ \E id \in DOMAIN heap : heap[id].con = x)
           /\ x \in Connections' <=> x \in closed' \/ (x # None /\ \E id \in DOMAIN heap' : heap'[id].con = x)
  BY DEF Connections

\* A node that is made has no connection, and the others keep theirs.
LEMMA ParserDropsNone ==
    ASSUME NodesInv, ParserStep
    PROVE  Connections' = Connections
<1>1. Grown /\ UNCHANGED <<cc, closed>> /\ IsHeap(heap)
  BY ParserGrows DEF NodesInv
<1>2. DOMAIN heap = 1 .. Len(heap) /\ DOMAIN heap' = 1 .. Len(heap')
  BY <1>1, ListFacts DEF Grown, IsHeap
<1>3. ASSUME NEW x PROVE x \in Connections' <=> x \in Connections
  <2>1. x # None => ((\E id \in DOMAIN heap' : heap'[id].con = x) <=> (\E id \in DOMAIN heap : heap[id].con = x))
    BY <1>1, <1>2 DEF Grown
  <2> QED BY <1>1, <2>1, ConnectionIs
<1> QED BY <1>3

\* The connections of the old route are those of its nodes: each is handed on or
\* closed.
LEMMA TakeDropsNone ==
    ASSUME NodesInv, TakeRoute
    PROVE  Connections' = Connections
<1>1. IsHeap(heap) /\ Apart
  BY DEF NodesInv, TakeRoute, Parsed
<1>2. /\ heap' = Swapped(heap, cc.nodes, nodes)
      /\ closed' = closed \cup ({heap'[id].con : id \in Range(cc.nodes)} \ {None})
  BY DEF TakeRoute
<1>3. /\ IsHeap(heap') /\ Len(heap') = Len(heap)
      /\ \A a \in DOMAIN nodes : heap'[nodes[a]].con = IF a \in DOMAIN cc.nodes THEN a ELSE None
      /\ \A a \in DOMAIN cc.nodes : heap'[cc.nodes[a]].con = IF a \in DOMAIN nodes THEN None ELSE a
      /\ \A id \in 1 .. Len(heap) :
            heap'[id].con # None => (\E a \in DOMAIN nodes : id = nodes[a])
                                 \/ (\E a \in DOMAIN cc.nodes : id = cc.nodes[a])
  BY <1>1, <1>2, SwapFacts
<1>4. DOMAIN heap = 1 .. Len(heap) /\ DOMAIN heap' = 1 .. Len(heap)
  BY <1>1, <1>3, ListFacts DEF IsHeap
<1>5. \A x : x \in closed' <=> x # None /\ \E a \in DOMAIN cc.nodes : heap'[cc.nodes[a]].con = x
  BY <1>1, <1>2 DEF Apart, Range
<1>6. ASSUME NEW x, x \in Connections PROVE x \in Connections'
  <2>1. x # None /\ \E id \in 1 .. Len(heap) : heap[id].con = x
    BY <1>1, <1>4, <1>6, ConnectionIs DEF Apart
  <2>2. x \in DOMAIN cc.nodes
    BY <1>1, <2>1 DEF Apart
  <2>3. CASE x \in DOMAIN nodes
    <3>1. nodes[x] \in 1 .. Len(heap) /\ heap'[nodes[x]].con = x
      BY <1>1, <1>3, <2>2, <2>3 DEF Apart
    <3> QED BY <1>4, <2>1, <3>1, ConnectionIs
  <2>4. CASE x \notin DOMAIN nodes
    <3>1. heap'[cc.nodes[x]].con = x
      BY <1>3, <2>2, <2>4
    <3> QED BY <1>5, <2>1, <2>2, <3>1, ConnectionIs
  <2> QED BY <2>3, <2>4
<1>7. ASSUME NEW x, x \in Connections' PROVE x \in Connections
  <2>1. x # None /\ \E id \in 1 .. Len(heap) : heap'[id].con = x
    <3>1. CASE x \in closed'
      BY <1>1, <1>5, <3>1 DEF Apart
    <3>2. CASE x \notin closed'
      BY <1>4, <1>7, <3>2, ConnectionIs
    <3> QED BY <3>1, <3>2
  <2>2. x \in DOMAIN cc.nodes
    BY <1>3, <2>1
  <2>3. cc.nodes[x] \in 1 .. Len(heap) /\ heap[cc.nodes[x]].con = x
    BY <1>1, <2>2 DEF Apart
  <2> QED BY <1>4, <2>1, <2>3, ConnectionIs
<1> QED BY <1>6, <1>7

\* No step of an update loses a connection: a refused reply leaves the nodes their
\* connections, and cluster_nodes_swap_ctx and the release of the old nodes hand
\* each one on or close it.
THEOREM NoneIsDropped == Spec => NoneDropped
<1>1. NodesInv /\ [Next]_vars => [Connections' = Connections]_vars
  <2> SUFFICES ASSUME NodesInv, Next PROVE Connections' = Connections
    OBVIOUS
  <2>1. CASE ParserStep
    BY <2>1, ParserDropsNone
  <2>2. CASE RefusalStep
    <3>1. UNCHANGED <<heap, closed>>
      BY <2>2 DEF RefusalStep, BadLine, BadRegion, NoRegions, RefuseRoute, ParserFails
    <3> QED BY <3>1 DEF Connections
  <2>3. CASE TakeRoute
    BY <2>3, TakeDropsNone
  <2> QED BY <2>1, <2>2, <2>3 DEF Next, ParserStep, RefusalStep
<1> QED BY <1>1, NodesInvariant, PTL DEF Spec, NoneDropped

-----------------------------------------------------------------------------
(* The slots: the ranges of the nodes are those the reply speaks of. *)

\* A range of a node is what the reply claims at c.
Stands(c, x) ==
    /\ heap[x[1]].addr = Claim(reply, c).addr
    /\ Start(x) = Claim(reply, c).start
    /\ End(x) = Claim(reply, c).end

\* The ranges are the claims of the lines or regions that have been parsed.
Told ==
    /\ \A x \in Slots : \E c \in Claims(reply) : c[1] < pos /\ Stands(c, x)
    /\ \A c \in Claims(reply) : c[1] < pos => \E x \in Slots : Stands(c, x)
    /\ ~Overlap

\* The names and addresses in the dicts are those of masters that have been read.
Named ==
    reply.format = "nodes" =>
        /\ \A a \in DOMAIN nodes :
              \E i \in MasterLines(reply) : i < pos /\ reply.elements[i].addr = a
        /\ \A m \in DOMAIN nodesName :
              /\ nodesName[m] \in 1 .. Len(heap)
              /\ heap[nodesName[m]].role = "master" =>
                    \E i \in MasterLines(reply) : i < pos /\ reply.elements[i].name = m

\* CLUSTER SLOTS gives its ranges one after the other.
Listed ==
    reply.format = "slots" => \A a \in DOMAIN nodes : IsList(heap[nodes[a]].slots)

RouteInv ==
    /\ pc = "parse" /\ Described => Told /\ Named /\ Listed
    /\ RouteOfCluster

Ref(x) == \E a \in DOMAIN nodes : \E k \in DOMAIN heap[nodes[a]].slots : x = <<nodes[a], k>>

LEMMA RefFacts ==
    /\ \A x : x \in Slots <=> Ref(x)
    /\ \A x : x \in Slots' <=> Ref(x)'
<1>1. \A x : x \in Slots <=> Ref(x)
  BY DEF Slots, Ref, Range
<1>2. \A x : x \in Slots' <=> Ref(x)'
  BY DEF Slots, Ref, Range
<1> QED BY <1>1, <1>2

\* The claims are ranges of slots, and no two have one in common.
LEMMA ClaimFacts ==
    ASSUME NEW r \in Replies, r.cluster # None
    PROVE  /\ \A c \in Claims(r) :
                 /\ c[1] \in DOMAIN r.elements
                 /\ Claim(r, c).start \in Nat
                 /\ Claim(r, c).end \in Nat
                 /\ Claim(r, c).start <= Claim(r, c).end
                 /\ Claim(r, c).end < REDIS_CLUSTER_SLOTS
           /\ \A c, d \in Claims(r) : c # d =>
                 Claim(r, c).end < Claim(r, d).start \/ Claim(r, d).end < Claim(r, c).start
<1>1. r.format \in {"nodes", "slots"} /\ WellFormed(r)
  BY DescribedAssumption
<1>2. ASSUME NEW c \in Claims(r)
      PROVE  /\ c[1] \in DOMAIN r.elements
             /\ Claim(r, c).start \in Nat
             /\ Claim(r, c).end \in Nat
             /\ Claim(r, c).start <= Claim(r, c).end
             /\ Claim(r, c).end < REDIS_CLUSTER_SLOTS
  <2>1. CASE r.format = "nodes"
    <3>0. PICK i \in MasterLines(r) : \E k \in GoodParts(r.elements[i].slots) : c = <<i, k>>
      BY <2>1 DEF Claims
    <3>1. PICK k \in GoodParts(r.elements[i].slots) : c = <<i, k>>
      BY <3>0
    <3>2. i \in DOMAIN r.elements /\ c[1] = i /\ c[2] = k
      BY <3>0, <3>1 DEF MasterLines
    <3> DEFINE part == r.elements[i].slots[k]
    <3>3. Claim(r, c).start = part.start /\ Claim(r, c).end = part.end
      BY <2>1, <3>2 DEF Claim
    <3>4. /\ k \in DOMAIN r.elements[i].slots /\ part.kind = "range"
          /\ part.start <= part.end /\ part.end < REDIS_CLUSTER_SLOTS
      BY <3>1 DEF GoodParts
    <3>5. part.start \in Nat /\ part.end \in Nat
      BY <2>1, <3>2, <3>4, RepliesAssumption
    <3> HIDE DEF part
    <3> QED BY <3>2, <3>3, <3>4, <3>5
  <2>2. CASE r.format = "slots"
    <3>1. PICK i \in DOMAIN r.elements : c = <<i, 0>>
      BY <2>2 DEF Claims
    <3> DEFINE e == r.elements[i]
    <3>2. Claim(r, c).start = e.start /\ Claim(r, c).end = e.end /\ c[1] = i
      BY <2>2, <3>1 DEF Claim
    <3>3. e.start \in Nat /\ e.end \in Nat
      BY <2>2, <3>1, RepliesAssumption
    <3>4. e.start <= e.end /\ e.end < REDIS_CLUSTER_SLOTS
      BY <1>1, <2>2, <3>1 DEF WellFormed
    <3> QED BY <3>1, <3>2, <3>3, <3>4
  <2> QED BY <1>1, <2>1, <2>2
<1>3. \A c, d \in Claims(r) : c # d =>
          Claim(r, c).end < Claim(r, d).start \/ Claim(r, d).end < Claim(r, c).start
  BY <1>1 DEF WellFormed
<1> QED BY <1>2, <1>3

\* A range that a node keeps.
Kept(x) ==
    /\ heap'[x[1]].addr = heap[x[1]].addr
    /\ heap'[x[1]].slots[x[2]] = heap[x[1]].slots[x[2]]

\* A step that adds the ranges that its line or region claims.
AddsClaims ==
    /\ \A x \in Slots : x \in Slots' /\ Kept(x)
    /\ \A x \in Slots' : x \in Slots \/ \E c \in Claims(reply) : c[1] = pos /\ Stands(c, x)'
    /\ \A c \in Claims(reply) : c[1] = pos => \E x \in Slots' : Stands(c, x)'
    /\ \A x, y \in Slots' \ Slots : x # y =>
          \E c, d \in Claims(reply) : c # d /\ Stands(c, x)' /\ Stands(d, y)'

LEMMA ToldStep ==
    ASSUME reply \in Replies, Described, Told, pos \in Nat, DOMAIN reply.elements \subseteq Nat,
           AddsClaims, pos' = pos + 1, reply' = reply
    PROVE  Told'
<1>1. /\ \A c \in Claims(reply) :
            /\ c[1] \in Nat
            /\ Claim(reply, c).start \in Nat
            /\ Claim(reply, c).end \in Nat
      /\ \A c, d \in Claims(reply) : c # d =>
            Claim(reply, c).end < Claim(reply, d).start \/ Claim(reply, d).end < Claim(reply, c).start
  BY ClaimFacts DEF Described
<1>2. ASSUME NEW x \in Slots, NEW c, Stands(c, x) PROVE Stands(c, x)'
  <2>1. Kept(x)
    BY DEF AddsClaims
  <2> QED BY <1>2, <2>1 DEF Kept, Stands, Start, End
<1>3. ASSUME NEW x \in Slots' PROVE \E c \in Claims(reply) : c[1] < pos' /\ Stands(c, x)'
  <2>1. CASE x \in Slots
    <3>1. PICK c \in Claims(reply) : c[1] < pos /\ Stands(c, x)
      BY <2>1 DEF Told
    <3>2. c[1] < pos' /\ Stands(c, x)'
      BY <1>1, <1>2, <2>1, <3>1
    <3> QED BY <3>2
  <2>2. CASE x \notin Slots
    <3>1. PICK c \in Claims(reply) : c[1] = pos /\ Stands(c, x)'
      BY <2>2 DEF AddsClaims
    <3> QED BY <1>1, <3>1
  <2> QED BY <2>1, <2>2
<1>4. ASSUME NEW c \in Claims(reply), c[1] < pos' PROVE \E x \in Slots' : Stands(c, x)'
  <2>1. CASE c[1] = pos
    BY <2>1 DEF AddsClaims
  <2>2. CASE c[1] < pos
    <3>1. PICK x \in Slots : Stands(c, x)
      BY <2>2 DEF Told
    <3> QED BY <1>2, <3>1 DEF AddsClaims
  <2> QED BY <1>1, <1>4, <2>1, <2>2
<1>5. ASSUME NEW x \in Slots', NEW y \in Slots', x # y
      PROVE  \/ x \in Slots /\ y \in Slots
             \/ \E c, d \in Claims(reply) : c # d /\ Stands(c, x)' /\ Stands(d, y)'
  <2>1. CASE x \in Slots /\ y \notin Slots
    <3>1. PICK c \in Claims(reply) : c[1] < pos /\ Stands(c, x)
      BY <2>1 DEF Told
    <3>2. PICK d \in Claims(reply) : d[1] = pos /\ Stands(d, y)'
      BY <2>1 DEF AddsClaims
    <3>3. c # d
      BY <1>1, <3>1, <3>2
    <3> QED BY <1>2, <2>1, <3>1, <3>2, <3>3
  <2>2. CASE x \notin Slots /\ y \in Slots
    <3>1. PICK c \in Claims(reply) : c[1] < pos /\ Stands(c, y)
      BY <2>2 DEF Told
    <3>2. PICK d \in Claims(reply) : d[1] = pos /\ Stands(d, x)'
      BY <2>2 DEF AddsClaims
    <3>3. c # d
      BY <1>1, <3>1, <3>2
    <3> QED BY <1>2, <2>2, <3>1, <3>2, <3>3
  <2>3. CASE x \notin Slots /\ y \notin Slots
    BY <1>5, <2>3 DEF AddsClaims
  <2> QED BY <2>1, <2>2, <2>3
<1>6. ~Overlap'
  <2> SUFFICES ASSUME NEW x \in Slots', NEW y \in Slots', x # y,
                      Start(x)' <= End(y)', Start(y)' <= End(x)'
               PROVE  FALSE
    BY DEF Overlap
  <2>1. CASE x \in Slots /\ y \in Slots
    <3>1. Kept(x) /\ Kept(y)
      BY <2>1 DEF AddsClaims
    <3>2. Start(x)' = Start(x) /\ End(x)' = End(x) /\ Start(y)' = Start(y) /\ End(y)' = End(y)
      BY <3>1 DEF Kept, Start, End
    <3> QED BY <2>1, <3>2 DEF Told, Overlap
  <2>2. CASE \E c, d \in Claims(reply) : c # d /\ Stands(c, x)' /\ Stands(d, y)'
    <3>1. PICK c \in Claims(reply), d \in Claims(reply) : c # d /\ Stands(c, x)' /\ Stands(d, y)'
      BY <2>2
    <3>2. /\ Start(x)' = Claim(reply, c).start /\ End(x)' = Claim(reply, c).end
          /\ Start(y)' = Claim(reply, d).start /\ End(y)' = Claim(reply, d).end
      BY <3>1 DEF Stands
    <3> HIDE DEF Start, End
    <3> QED BY <1>1, <3>1, <3>2
  <2> QED BY <1>5, <2>1, <2>2
<1> QED BY <1>3, <1>4, <1>6 DEF Told

\* A range that is still there: the nodes keep their addresses and their ranges.
LEMMA RefKept ==
    ASSUME IsHeap(heap), Apart, Grown, NEW x \in Slots,
           \A a \in DOMAIN nodes : a \in DOMAIN nodes' /\ nodes'[a] = nodes[a],
           \A a \in DOMAIN nodes : \A k \in DOMAIN heap[nodes[a]].slots :
              k \in DOMAIN heap'[nodes[a]].slots /\ heap'[nodes[a]].slots[k] = heap[nodes[a]].slots[k]
    PROVE  x \in Slots' /\ Kept(x)
<1>1. Ref(x)
  BY RefFacts
<1>2. PICK a \in DOMAIN nodes : \E k \in DOMAIN heap[nodes[a]].slots : x = <<nodes[a], k>>
  BY <1>1 DEF Ref
<1>3. PICK k \in DOMAIN heap[nodes[a]].slots : x = <<nodes[a], k>>
  BY <1>2
<1>4. x[1] = nodes[a] /\ x[2] = k
  BY <1>3
<1>5. nodes[a] \in 1 .. Len(heap)
  BY <1>2 DEF Apart
<1>6. heap'[nodes[a]].addr = heap[nodes[a]].addr
  BY <1>5 DEF Grown
<1>7. /\ a \in DOMAIN nodes' /\ nodes'[a] = nodes[a]
      /\ k \in DOMAIN heap'[nodes[a]].slots
      /\ heap'[nodes[a]].slots[k] = heap[nodes[a]].slots[k]
  BY <1>2, <1>3
<1>8. Ref(x)'
  BY <1>3, <1>7 DEF Ref
<1>9. x \in Slots'
  BY <1>8, RefFacts
<1> QED BY <1>4, <1>6, <1>7, <1>9 DEF Kept

\* Nothing is claimed, and the dict stays.
LEMMA NothingClaimed ==
    ASSUME IsHeap(heap), Apart, Grown, SameSlots, nodes' = nodes,
           \A c \in Claims(reply) : c[1] # pos
    PROVE  AddsClaims
<1>1. ASSUME NEW a \in DOMAIN nodes
      PROVE  /\ nodes[a] \in 1 .. Len(heap)
             /\ heap'[nodes[a]].slots = heap[nodes[a]].slots
  BY DEF Apart, SameSlots
<1>2. ASSUME NEW x \in Slots PROVE x \in Slots' /\ Kept(x)
  BY <1>1, RefKept
<1>3. ASSUME NEW x \in Slots' PROVE x \in Slots
  <2>1. Ref(x)'
    BY RefFacts
  <2>2. Ref(x)
    BY <1>1, <2>1 DEF Ref
  <2> QED BY <2>2, RefFacts
<1> QED BY <1>2, <1>3 DEF AddsClaims

\* A node that was made has the ranges that are claimed: p says which is which.
LEMMA NodeClaims ==
    ASSUME IsHeap(heap), Apart, Grown, SameSlots, reply' = reply,
           NEW addr, addr \notin DOMAIN nodes,
           NEW n, n = Len(heap) + 1, nodes' = With(nodes, addr, n),
           NEW D, D = DOMAIN heap'[n].slots,
           NEW p,
           \A k \in D : p[k] \in Claims(reply) /\ p[k][1] = pos,
           \A k \in D : Stands(p[k], <<n, k>>)',
           \A k, j \in D : k # j => p[k] # p[j],
           \A c \in Claims(reply) : c[1] = pos => \E k \in D : c = p[k]
    PROVE  AddsClaims
<1>1. /\ DOMAIN nodes' = DOMAIN nodes \cup {addr}
      /\ nodes'[addr] = n
      /\ \A a \in DOMAIN nodes : nodes'[a] = nodes[a]
  <2>1. nodes' = With(nodes, addr, n) /\ addr \notin DOMAIN nodes
    OBVIOUS
  <2> QED BY ONLY <2>1 DEF With
<1>2. ASSUME NEW a \in DOMAIN nodes
      PROVE  /\ nodes[a] \in 1 .. Len(heap)
             /\ nodes[a] # n
             /\ heap'[nodes[a]].slots = heap[nodes[a]].slots
  <2>1. nodes[a] \in 1 .. Len(heap) /\ Len(heap) \in Nat
    BY DEF Apart, Grown
  <2> QED BY <2>1 DEF SameSlots
<1>3. ASSUME NEW x \in Slots PROVE x \in Slots' /\ Kept(x)
  BY <1>1, <1>2, RefKept
<1>4. ASSUME NEW k \in D PROVE <<n, k>> \in Slots'
  <2>1. \E a \in DOMAIN nodes' : \E j \in DOMAIN heap'[nodes'[a]].slots : <<n, k>> = <<nodes'[a], j>>
    BY <1>1, <1>4
  <2>2. Ref(<<n, k>>)'
    BY <2>1 DEF Ref
  <2> QED BY <2>2, RefFacts
<1>5. ASSUME NEW x \in Slots', x \notin Slots PROVE \E k \in D : x = <<n, k>>
  <2>1. Ref(x)' /\ ~Ref(x)
    BY <1>5, RefFacts
  <2>2. PICK a \in DOMAIN nodes' : \E k \in DOMAIN heap'[nodes'[a]].slots : x = <<nodes'[a], k>>
    BY <2>1 DEF Ref
  <2>3. a \notin DOMAIN nodes
    BY <1>1, <1>2, <2>1, <2>2 DEF Ref
  <2>4. a = addr
    BY <1>1, <2>2, <2>3
  <2> QED BY <1>1, <2>2, <2>4
<1>6. ASSUME NEW x \in Slots', x \notin Slots
      PROVE  \E c \in Claims(reply) : c[1] = pos /\ Stands(c, x)'
  BY <1>5, <1>6
<1>7. ASSUME NEW c \in Claims(reply), c[1] = pos PROVE \E x \in Slots' : Stands(c, x)'
  <2>1. PICK k \in D : c = p[k]
    BY <1>7
  <2>2. Stands(c, <<n, k>>)'
    BY <2>1
  <2> QED BY <1>4, <2>1, <2>2
<1>8. ASSUME NEW x \in Slots' \ Slots, NEW y \in Slots' \ Slots, x # y
      PROVE  \E c, d \in Claims(reply) : c # d /\ Stands(c, x)' /\ Stands(d, y)'
  <2>1. PICK k \in D, j \in D : x = <<n, k>> /\ y = <<n, j>>
    BY <1>5
  <2>2. k # j
    BY <1>8, <2>1
  <2>3. Stands(p[k], x)' /\ Stands(p[j], y)'
    BY <2>1
  <2> QED BY <2>1, <2>2, <2>3
<1> QED BY <1>3, <1>6, <1>7, <1>8 DEF AddsClaims

\* The node n gets the range r behind those it has, which is the claim c.
RangeAdded(n, r, c) ==
    /\ \E addr \in DOMAIN nodes : n = nodes[addr]
    /\ IsList(heap[n].slots)
    /\ heap'[n].slots = Append(heap[n].slots, r)
    /\ \A id \in 1 .. Len(heap) : id # n => heap'[id].slots = heap[id].slots
    /\ c \in Claims(reply)
    /\ c[1] = pos
    /\ \A d \in Claims(reply) : d[1] = pos => d = c
    /\ heap[n].addr = Claim(reply, c).addr
    /\ r.start = Claim(reply, c).start
    /\ r.end = Claim(reply, c).end

LEMMA RegionClaims ==
    ASSUME IsHeap(heap), Apart, Grown, nodes' = nodes, reply' = reply,
           NEW n, NEW r, NEW c, RangeAdded(n, r, c)
    PROVE  AddsClaims
<1>0. PICK addr \in DOMAIN nodes : n = nodes[addr]
  BY DEF RangeAdded
<1> USE DEF RangeAdded
<1>1. PICK old, new, j : old = heap[n].slots /\ new = heap'[n].slots /\ j = Len(old) + 1
  OBVIOUS
<1>2. /\ IsList(new) /\ Len(new) = j /\ new[j] = r /\ IsList(old)
      /\ \A i \in 1 .. Len(old) : new[i] = old[i]
      /\ \A i \in 1 .. j : i \in 1 .. Len(old) \/ i = j
      /\ j = Len(old) + 1
  <2>1. new = Append(old, r) /\ j = Len(old) + 1 /\ IsList(old)
    BY <1>1
  <2> QED BY ONLY <2>1, ListAppend
<1>3. DOMAIN old = 1 .. Len(old) /\ DOMAIN new = 1 .. j /\ Len(old) \in Nat
  BY <1>2, ListFacts
<1>4. j \in DOMAIN new /\ j \notin DOMAIN old /\ \A i \in DOMAIN old : i \in DOMAIN new
  BY <1>2, <1>3
<1>5. ASSUME NEW a \in DOMAIN nodes
      PROVE  /\ nodes[a] \in 1 .. Len(heap)
             /\ nodes[a] # n => heap'[nodes[a]].slots = heap[nodes[a]].slots
  BY DEF Apart
<1>6. ASSUME NEW a \in DOMAIN nodes, NEW k \in DOMAIN heap[nodes[a]].slots
      PROVE  k \in DOMAIN heap'[nodes[a]].slots /\ heap'[nodes[a]].slots[k] = heap[nodes[a]].slots[k]
  BY <1>1, <1>2, <1>3, <1>4, <1>5
<1>7. ASSUME NEW x \in Slots PROVE x \in Slots' /\ Kept(x)
  BY <1>6, RefKept
<1>8. ASSUME NEW x \in Slots', x \notin Slots PROVE x = <<n, j>>
  <2>1. Ref(x)' /\ ~Ref(x)
    BY <1>8, RefFacts
  <2>2. PICK a \in DOMAIN nodes : \E k \in DOMAIN heap'[nodes[a]].slots : x = <<nodes[a], k>>
    BY <2>1 DEF Ref
  <2>3. PICK k \in DOMAIN heap'[nodes[a]].slots : x = <<nodes[a], k>>
    BY <2>2
  <2>4. k \notin DOMAIN heap[nodes[a]].slots
    BY <2>1, <2>2, <2>3 DEF Ref
  <2>5. nodes[a] = n
    BY <1>5, <2>2, <2>3, <2>4
  <2>6. k \in 1 .. j /\ k \notin 1 .. Len(old)
    BY <1>1, <1>3, <2>3, <2>4, <2>5
  <2> QED BY <1>2, <2>3, <2>5, <2>6
<1>9. <<n, j>> \in Slots'
  <2>1. Ref(<<n, j>>)'
    BY <1>0, <1>1, <1>4 DEF Ref
  <2> QED BY <2>1, RefFacts
<1>10. Stands(c, <<n, j>>)'
  <2>1. n \in 1 .. Len(heap)
    BY <1>0, <1>5
  <2>2. heap'[n].addr = heap[n].addr
    BY <2>1 DEF Grown
  <2>3. PICK x : x = <<n, j>>
    OBVIOUS
  <2>4. x[1] = n /\ x[2] = j
    BY <2>3
  <2>5. Start(x)' = r.start /\ End(x)' = r.end
    BY <1>1, <1>2, <2>4 DEF Start, End
  <2>6. Stands(c, x)'
    BY <2>2, <2>4, <2>5 DEF Stands
  <2> QED BY <2>3, <2>6
<1>11. \A x \in Slots' : x \in Slots \/ \E d \in Claims(reply) : d[1] = pos /\ Stands(d, x)'
  BY <1>8, <1>10
<1>12. \A d \in Claims(reply) : d[1] = pos => \E x \in Slots' : Stands(d, x)'
  BY <1>9, <1>10
<1>13. \A x, y \in Slots' \ Slots : x = y
  BY <1>8
<1> QED BY <1>7, <1>11, <1>12, <1>13 DEF AddsClaims

\* What the line or region that is parsed claims.
LEMMA ClaimsHere ==
    /\ reply.format = "nodes" => \A c :
          c \in Claims(reply) /\ c[1] = pos
             <=> pos \in MasterLines(reply) /\ \E k \in GoodParts(Line.slots) : c = <<pos, k>>
    /\ reply.format = "slots" => \A c :
          c \in Claims(reply) /\ c[1] = pos <=> pos \in DOMAIN reply.elements /\ c = <<pos, 0>>
<1>1. ASSUME reply.format = "nodes", NEW c
      PROVE  c \in Claims(reply) /\ c[1] = pos
                <=> pos \in MasterLines(reply) /\ \E k \in GoodParts(Line.slots) : c = <<pos, k>>
  <2>1. ASSUME c \in Claims(reply), c[1] = pos
        PROVE  pos \in MasterLines(reply) /\ \E k \in GoodParts(Line.slots) : c = <<pos, k>>
    <3>1. PICK i \in MasterLines(reply) : \E k \in GoodParts(reply.elements[i].slots) : c = <<i, k>>
      BY <1>1, <2>1 DEF Claims
    <3>2. i = pos
      BY <2>1, <3>1
    <3> QED BY <3>1, <3>2 DEF Line
  <2>2. ASSUME pos \in MasterLines(reply), NEW k \in GoodParts(Line.slots), c = <<pos, k>>
        PROVE  c \in Claims(reply) /\ c[1] = pos
    BY <1>1, <2>2 DEF Claims, Line
  <2> QED BY <2>1, <2>2
<1>2. ASSUME reply.format = "slots", NEW c
      PROVE  c \in Claims(reply) /\ c[1] = pos <=> pos \in DOMAIN reply.elements /\ c = <<pos, 0>>
  BY <1>2 DEF Claims
<1> QED BY <1>1, <1>2

\* A reply that describes a cluster, and the dicts that are made of it.
Telling == NodesInv /\ RouteInv /\ Described /\ pc = "parse"

LEMMA TellingFacts ==
    ASSUME Telling
    PROVE  /\ IsHeap(heap) /\ Apart /\ Told /\ Named /\ Listed
           /\ reply \in Replies /\ pos \in Nat /\ DOMAIN reply.elements \subseteq Nat
           /\ DOMAIN reply.elements = 1 .. Len(reply.elements)
           /\ Len(reply.elements) \in Nat
           /\ WellFormed(reply) /\ OwnersClaim(reply) /\ reply.format \in {"nodes", "slots"}
<1>1. IsHeap(heap) /\ Apart /\ Told /\ Named /\ Listed /\ Placed
  BY DEF Telling, NodesInv, RouteInv
<1>2. reply \in Replies /\ pos \in 1 .. Len(reply.elements) + 1
  BY <1>1 DEF Placed
<1>3. Len(reply.elements) \in Nat /\ DOMAIN reply.elements = 1 .. Len(reply.elements)
  BY <1>2, RepliesAssumption, ListFacts
<1>4. WellFormed(reply) /\ OwnersClaim(reply) /\ reply.format \in {"nodes", "slots"}
  BY <1>2, DescribedAssumption DEF Telling, Described
<1> QED BY <1>1, <1>2, <1>3, <1>4

\* The names stay good when nodes are made and none takes a name.
LEMMA NamedKept ==
    ASSUME Named, Grown, UNCHANGED <<reply, nodes, nodesName>>, pos \in Nat, pos' = pos + 1,
           DOMAIN reply.elements \subseteq Nat
    PROVE  Named'
<1> SUFFICES ASSUME reply.format = "nodes"
             PROVE  /\ \A a \in DOMAIN nodes :
                          \E i \in MasterLines(reply) : i < pos' /\ reply.elements[i].addr = a
                    /\ \A m \in DOMAIN nodesName :
                          /\ nodesName[m] \in 1 .. Len(heap')
                          /\ heap'[nodesName[m]].role = "master" =>
                                \E i \in MasterLines(reply) : i < pos' /\ reply.elements[i].name = m
  BY DEF Named
<1>1. \A i \in MasterLines(reply) : i < pos => i < pos'
  BY DEF MasterLines
<1>2. ASSUME NEW m \in DOMAIN nodesName
      PROVE  nodesName[m] \in 1 .. Len(heap') /\ heap'[nodesName[m]].role = heap[nodesName[m]].role
  <2>1. nodesName[m] \in 1 .. Len(heap)
    BY DEF Named
  <2> QED BY <2>1 DEF Grown
<1> QED BY <1>1, <1>2 DEF Named

LEMMA SkipTells ==
    ASSUME Telling, SkipLine
    PROVE  Told' /\ Named' /\ Listed' /\ pc' = "parse"
<1>1. /\ IsHeap(heap) /\ Apart /\ Told /\ Named /\ Listed /\ Described
      /\ reply \in Replies /\ pos \in Nat /\ DOMAIN reply.elements \subseteq Nat
  BY TellingFacts DEF Telling
<1>2. UNCHANGED <<reply, pc, heap, nodes, nodesName>> /\ pos' = pos + 1 /\ reply.format = "nodes"
  BY DEF SkipLine, Parsing
<1>3. Grown /\ SameSlots
  <2>1. Len(heap) \in Nat /\ \A id \in Len(heap) + 1 .. Len(heap) : FALSE
    BY <1>1, ListFacts DEF IsHeap
  <2> QED BY <1>1, <1>2, <2>1 DEF Grown, SameSlots
<1>4. pos \notin MasterLines(reply)
  BY DEF SkipLine, MasterLines, Line
<1>5. \A c \in Claims(reply) : c[1] # pos
  BY <1>2, <1>4, ClaimsHere
<1>6. Told'
  <2>1. AddsClaims
    BY <1>1, <1>2, <1>3, <1>5, NothingClaimed
  <2> QED BY <1>1, <1>2, <2>1, ToldStep
<1>7. Named'
  BY <1>1, <1>2, <1>3, NamedKept
<1>8. Listed'
  BY <1>2 DEF Listed
<1> QED BY <1>2, <1>6, <1>7, <1>8 DEF Telling

LEMMA SlaveTells ==
    ASSUME Telling, SlaveLine
    PROVE  Told' /\ Named' /\ Listed' /\ pc' = "parse"
<1>1. /\ IsHeap(heap) /\ Apart /\ Told /\ Named /\ Described
      /\ reply \in Replies /\ pos \in Nat /\ DOMAIN reply.elements \subseteq Nat
  BY TellingFacts DEF Telling
<1>2. /\ UNCHANGED <<reply, pc, nodes>> /\ pos' = pos + 1 /\ reply.format = "nodes"
      /\ Line.role = "slave"
  BY DEF SlaveLine, Parsing
<1>3. PICK node : MadeNode(node) /\ node.role = "slave"
  BY <1>1, SlaveMade
<1>4. Grown /\ SameSlots /\ Len(heap') = Len(heap) + 1 /\ heap'[Len(heap) + 1].role = "slave"
  BY <1>1, <1>3, MadeGrows
<1>5. pos \notin MasterLines(reply)
  BY <1>2 DEF MasterLines, Line
<1>6. \A c \in Claims(reply) : c[1] # pos
  BY <1>2, <1>5, ClaimsHere
<1>7. Told'
  <2>1. AddsClaims
    BY <1>1, <1>2, <1>4, <1>6, NothingClaimed
  <2> QED BY <1>1, <1>2, <2>1, ToldStep
<1>8. Named'
  <2>1. PICK m, n : m = Line.master /\ n = Len(heap) + 1
    OBVIOUS
  <2>2. nodesName' = nodesName \/ nodesName' = With(nodesName, m, n)
    BY <2>1 DEF SlaveLine, MappedName
  <2>3. CASE nodesName' = nodesName
    BY <1>1, <1>2, <1>4, <2>3, NamedKept
  <2>4. CASE nodesName' = With(nodesName, m, n)
    <3>1. /\ DOMAIN nodesName' = DOMAIN nodesName \cup {m} /\ nodesName'[m] = n
          /\ \A z \in DOMAIN nodesName : z # m => nodesName'[z] = nodesName[z]
      BY ONLY <2>4 DEF With
    <3>2. \A i \in MasterLines(reply) : i < pos => i < pos'
      BY <1>1, <1>2 DEF MasterLines
    <3>3. n \in 1 .. Len(heap') /\ heap'[n].role = "slave"
      BY <1>4, <2>1 DEF Grown
    <3>4. ASSUME NEW z \in DOMAIN nodesName
          PROVE  nodesName[z] \in 1 .. Len(heap') /\ heap'[nodesName[z]].role = heap[nodesName[z]].role
      <4>1. nodesName[z] \in 1 .. Len(heap)
        BY <1>1, <1>2 DEF Named
      <4> QED BY <1>4, <4>1 DEF Grown
    <3>5. \A a \in DOMAIN nodes : \E i \in MasterLines(reply) : i < pos' /\ reply.elements[i].addr = a
      BY <1>1, <1>2, <3>2 DEF Named
    <3>6. ASSUME NEW z \in DOMAIN nodesName'
          PROVE  /\ nodesName'[z] \in 1 .. Len(heap')
                 /\ heap'[nodesName'[z]].role = "master" =>
                       \E i \in MasterLines(reply) : i < pos' /\ reply.elements[i].name = z
      <4>1. CASE z = m
        BY <3>1, <3>3, <4>1
      <4>2. CASE z # m
        BY <1>1, <1>2, <3>1, <3>2, <3>4, <4>2 DEF Named
      <4> QED BY <4>1, <4>2
    <3> QED BY <1>2, <3>5, <3>6 DEF Named
  <2> QED BY <2>2, <2>3, <2>4
<1>9. Listed'
  BY <1>2 DEF Listed
<1> QED BY <1>2, <1>7, <1>8, <1>9 DEF Telling

\* No name is given to two masters.
LEMMA NoTwoMasters ==
    ASSUME Telling, MasterLine, NEW node, DOMAIN node = NodeFields
    PROVE  ~TwoMasters(Append(heap, node), Len(heap) + 1, Line.name)
<1> SUFFICES ASSUME TwoMasters(Append(heap, node), Len(heap) + 1, Line.name) PROVE FALSE
  OBVIOUS
<1>1. /\ IsHeap(heap) /\ Named /\ WellFormed(reply) /\ pos \in Nat
  BY TellingFacts
<1>2. /\ reply.format = "nodes" /\ Line.role = "master" /\ Line.addr # None
      /\ pos \in DOMAIN reply.elements
  <2>1. Placed
    BY DEF Telling, NodesInv
  <2> QED BY <2>1, ElementParsed DEF MasterLine, Useful, Parsing
<1>3. pos \in MasterLines(reply)
  BY <1>2 DEF MasterLines, Line
<1>4. PICK m, hp : m = Line.name /\ hp = Append(heap, node)
  OBVIOUS
<1>5. m \in DOMAIN nodesName /\ hp[nodesName[m]].role = "master"
  BY <1>4 DEF TwoMasters
<1>6. nodesName[m] \in 1 .. Len(heap)
  BY <1>1, <1>2, <1>5 DEF Named
<1>7. hp[nodesName[m]] = heap[nodesName[m]]
  BY <1>1, <1>4, <1>6, HeapAppend
<1>8. PICK i \in MasterLines(reply) : i < pos /\ reply.elements[i].name = m
  BY <1>1, <1>2, <1>5, <1>7 DEF Named
<1>9. i # pos
  BY <1>1, <1>8
<1> QED BY <1>1, <1>2, <1>3, <1>4, <1>8, <1>9 DEF WellFormed, Line

LEMMA MasterTells ==
    ASSUME Telling, MasterLine
    PROVE  Told' /\ Named' /\ Listed' /\ pc' = "parse"
<1>1. /\ IsHeap(heap) /\ Apart /\ Told /\ Named /\ Described /\ Placed
      /\ reply \in Replies /\ pos \in Nat /\ DOMAIN reply.elements \subseteq Nat
  BY TellingFacts DEF Telling, NodesInv
<1>2. PICK n, x, m : n = Len(heap) + 1 /\ x = Line.addr /\ m = Line.name
  OBVIOUS
<1>3. /\ UNCHANGED reply /\ pos' = pos + 1 /\ reply.format = "nodes"
      /\ Line.role = "master" /\ x # None /\ x \notin DOMAIN nodes
      /\ nodes' = With(nodes, x, n)
  BY <1>2 DEF MasterLine, Parsing, Useful
<1>4. pos \in MasterLines(reply)
  <2>1. pos \in DOMAIN reply.elements
    BY <1>1, ElementParsed DEF MasterLine
  <2> QED BY <1>2, <1>3, <2>1 DEF MasterLines, Line
<1>5. pc' = pc /\ (nodesName' = nodesName \/ nodesName' = With(nodesName, m, n))
  <2> DEFINE node == [NodeOfLine EXCEPT !.slots = RangesOf(Line.slots),
                                        !.migrating = OpenSlots(Line.slots, "migrating"),
                                        !.importing = OpenSlots(Line.slots, "importing")]
             hp == Append(heap, node)
  <2>1. DOMAIN node = NodeFields
    BY DEF NodeOfLine, Node, NodeFields
  <2>2. \/ UNCHANGED <<nodesName, pc>>
        \/ TwoMasters(hp, Len(heap) + 1, Line.name)
        \/ pc' = pc /\ nodesName' = MappedName(hp, Len(heap) + 1, Line.name)
    BY DEF MasterLine
  <2>3. ~TwoMasters(hp, Len(heap) + 1, Line.name)
    <3> HIDE DEF node
    <3> QED BY <2>1, NoTwoMasters
  <2> HIDE DEF hp
  <2> QED BY <1>2, <2>2, <2>3 DEF MappedName
<1>6. PICK node : MadeNode(node) /\ node.addr = x /\ node.slots = RangesOf(Line.slots)
  BY <1>1, <1>2, MasterMade
<1>7. /\ Grown /\ SameSlots /\ Len(heap') = n
      /\ heap'[n].addr = x /\ heap'[n].slots = RangesOf(Line.slots)
  BY <1>1, <1>2, <1>6, MadeGrows
<1>8. PICK D : D = GoodParts(Line.slots)
  OBVIOUS
<1>9. /\ DOMAIN heap'[n].slots = D
      /\ \A k \in D : heap'[n].slots[k] = [start |-> Line.slots[k].start, end |-> Line.slots[k].end]
  BY <1>7, <1>8 DEF RangesOf
<1>10. PICK p : p = [k \in D |-> <<pos, k>>]
  OBVIOUS
<1>11. ASSUME NEW k \in D PROVE p[k] = <<pos, k>> /\ p[k] \in Claims(reply) /\ p[k][1] = pos
  BY <1>3, <1>4, <1>8, <1>10, ClaimsHere
<1>12. ASSUME NEW k \in D PROVE Stands(p[k], <<n, k>>)'
  <2>1. PICK y, c : y = <<n, k>> /\ c = <<pos, k>>
    OBVIOUS
  <2>2. y[1] = n /\ y[2] = k /\ c[1] = pos /\ c[2] = k
    BY <2>1
  <2>3. Start(y)' = Line.slots[k].start /\ End(y)' = Line.slots[k].end
    <3>1. Start(y)' = heap'[n].slots[k].start /\ End(y)' = heap'[n].slots[k].end
      BY <2>2 DEF Start, End
    <3>2. PICK a, b : a = Line.slots[k].start /\ b = Line.slots[k].end
      OBVIOUS
    <3>3. heap'[n].slots[k] = [start |-> a, end |-> b]
      BY <1>9, <3>2
    <3> QED BY <3>1, <3>2, <3>3
  <2>4. Claim(reply, c) = [addr |-> x, start |-> Line.slots[k].start, end |-> Line.slots[k].end]
    BY <1>2, <1>3, <2>2 DEF Claim, Line
  <2>5. Stands(c, y)'
    BY <1>3, <1>7, <2>2, <2>3, <2>4 DEF Stands
  <2> QED BY <1>11, <2>1, <2>5
<1>13. Told'
  <2>1. \A k, j \in D : k # j => p[k] # p[j]
    BY <1>11
  <2>2. \A c \in Claims(reply) : c[1] = pos => \E k \in D : c = p[k]
    BY <1>3, <1>8, <1>11, ClaimsHere
  <2>3. AddsClaims
    BY <1>1, <1>2, <1>3, <1>7, <1>9, <1>11, <1>12, <2>1, <2>2, NodeClaims
  <2> QED BY <1>1, <1>3, <2>3, ToldStep
<1>14. Named'
  <2>1. /\ DOMAIN nodes' = DOMAIN nodes \cup {x}
    BY ONLY <1>3 DEF With
  <2>2. \A i \in MasterLines(reply) : i < pos => i < pos'
    BY <1>1, <1>3 DEF MasterLines
  <2>3. pos < pos'
    BY <1>1, <1>3
  <2>4. ASSUME NEW a \in DOMAIN nodes'
        PROVE  \E i \in MasterLines(reply) : i < pos' /\ reply.elements[i].addr = a
    <3>1. CASE a = x
      BY <1>2, <1>4, <2>3, <3>1 DEF Line
    <3>2. CASE a \in DOMAIN nodes
      BY <1>1, <1>3, <2>2, <3>2 DEF Named
    <3> QED BY <2>1, <3>1, <3>2
  <2>5. ASSUME NEW z \in DOMAIN nodesName
        PROVE  nodesName[z] \in 1 .. Len(heap') /\ heap'[nodesName[z]].role = heap[nodesName[z]].role
    <3>1. nodesName[z] \in 1 .. Len(heap)
      BY <1>1, <1>3 DEF Named
    <3> QED BY <1>7, <3>1 DEF Grown
  <2>6. ASSUME NEW z \in DOMAIN nodesName
        PROVE  heap[nodesName[z]].role = "master" =>
                   \E i \in MasterLines(reply) : i < pos' /\ reply.elements[i].name = z
    BY <1>1, <1>3, <2>2 DEF Named
  <2>7. n \in 1 .. Len(heap')
    BY <1>2, <1>7 DEF Grown
  <2>8. \E i \in MasterLines(reply) : i < pos' /\ reply.elements[i].name = m
    BY <1>2, <1>4, <2>3 DEF Line
  <2>9. ASSUME NEW z \in DOMAIN nodesName'
        PROVE  /\ nodesName'[z] \in 1 .. Len(heap')
               /\ heap'[nodesName'[z]].role = "master" =>
                     \E i \in MasterLines(reply) : i < pos' /\ reply.elements[i].name = z
    <3>1. CASE nodesName' = nodesName
      BY <2>5, <2>6, <3>1
    <3>2. CASE nodesName' = With(nodesName, m, n)
      <4>1. /\ DOMAIN nodesName' = DOMAIN nodesName \cup {m} /\ nodesName'[m] = n
            /\ \A y \in DOMAIN nodesName : y # m => nodesName'[y] = nodesName[y]
        BY ONLY <3>2 DEF With
      <4>2. CASE z = m
        BY <2>7, <2>8, <4>1, <4>2
      <4>3. CASE z # m
        BY <2>5, <2>6, <4>1, <4>3
      <4> QED BY <4>2, <4>3
    <3> QED BY <1>5, <3>1, <3>2
  <2> QED BY <1>3, <2>4, <2>9 DEF Named
<1>15. Listed'
  BY <1>3 DEF Listed
<1> QED BY <1>5, <1>13, <1>14, <1>15 DEF Telling

LEMMA KnownTells ==
    ASSUME Telling, KnownMaster
    PROVE  Told' /\ Named' /\ Listed' /\ pc' = "parse"
<1>1. /\ IsHeap(heap) /\ Apart /\ Told /\ Listed /\ Described /\ Placed
      /\ reply \in Replies /\ pos \in Nat /\ DOMAIN reply.elements \subseteq Nat
  BY TellingFacts DEF Telling, NodesInv
<1>2. PICK x, n, r : x = Hosts[1].addr /\ n = nodes[x] /\ r = [start |-> Region.start, end |-> Region.end]
  OBVIOUS
<1>3. UNCHANGED <<reply, pc, nodes>> /\ pos' = pos + 1 /\ reply.format = "slots" /\ x \in DOMAIN nodes
  BY <1>2 DEF KnownMaster, Parsing, Known
<1>4. n \in 1 .. Len(heap) /\ heap[n].addr = x
  BY <1>1, <1>2, <1>3 DEF Apart
<1>5. /\ Grown /\ Len(heap') = Len(heap)
      /\ \A id \in 1 .. Len(heap) : id # n => heap'[id].slots = heap[id].slots
      /\ heap'[n].slots = Append(heap[n].slots, r)
  BY <1>1, <1>2, <1>4, KnownGrows
<1>6. IsList(heap[n].slots)
  BY <1>1, <1>2, <1>3 DEF Listed
<1>7. pos \in DOMAIN reply.elements
  BY <1>1, ElementParsed DEF KnownMaster
<1>8. PICK c : c = <<pos, 0>>
  OBVIOUS
<1>9. c \in Claims(reply) /\ c[1] = pos /\ \A d \in Claims(reply) : d[1] = pos => d = c
  BY <1>3, <1>7, <1>8, ClaimsHere
<1>10. Claim(reply, c) = [addr |-> x, start |-> r.start, end |-> r.end]
  BY <1>2, <1>3, <1>8 DEF Claim, Hosts, Region
<1>11. Told'
  <2>1. /\ heap[n].addr = Claim(reply, c).addr
        /\ r.start = Claim(reply, c).start
        /\ r.end = Claim(reply, c).end
    BY SMTT(30), <1>4, <1>10
  <2>2. RangeAdded(n, r, c)
    BY <1>2, <1>3, <1>5, <1>6, <1>9, <2>1 DEF RangeAdded
  <2>3. AddsClaims
    BY <1>1, <1>3, <1>5, <2>2, RegionClaims
  <2> QED BY <1>1, <1>3, <2>3, ToldStep
<1>12. Named'
  BY <1>3 DEF Named
<1>13. Listed'
  <2>1. IsList(heap'[n].slots)
    <3>1. PICK s : s = heap[n].slots
      OBVIOUS
    <3>2. heap'[n].slots = Append(s, r) /\ IsList(s)
      BY <1>5, <1>6, <3>1
    <3> QED BY ONLY <3>2, ListAppend
  <2>2. ASSUME NEW a \in DOMAIN nodes PROVE IsList(heap'[nodes[a]].slots)
    <3>1. nodes[a] \in 1 .. Len(heap) /\ IsList(heap[nodes[a]].slots)
      BY <1>1, <1>3 DEF Apart, Listed
    <3> QED BY <1>5, <2>1, <3>1
  <2> QED BY <1>3, <2>2 DEF Listed
<1> QED BY <1>3, <1>11, <1>12, <1>13 DEF Telling

LEMMA NewTells ==
    ASSUME Telling, NewMaster
    PROVE  Told' /\ Named' /\ Listed' /\ pc' = "parse"
<1>1. /\ IsHeap(heap) /\ Apart /\ Told /\ Listed /\ Described /\ Placed
      /\ reply \in Replies /\ pos \in Nat /\ DOMAIN reply.elements \subseteq Nat
  BY TellingFacts DEF Telling, NodesInv
<1>2. PICK x, n, r : x = Hosts[1].addr /\ n = Len(heap) + 1 /\ r = [start |-> Region.start, end |-> Region.end]
  OBVIOUS
<1>3. /\ UNCHANGED <<reply, pc>> /\ pos' = pos + 1 /\ reply.format = "slots" /\ x \notin DOMAIN nodes
      /\ nodes' = With(nodes, x, n)
  BY <1>2 DEF NewMaster, Parsing, Known
<1>4. pos \in DOMAIN reply.elements /\ IsList(Hosts)
  BY <1>1, <1>3, ElementParsed DEF NewMaster
<1>5. Grown /\ SameSlots /\ heap'[n].addr = x /\ heap'[n].slots = <<r>>
  BY <1>1, <1>2, <1>4, NewMasterMade
<1>6. PICK c, y, p, D : c = <<pos, 0>> /\ y = <<n, 1>> /\ p = <<c>> /\ D = {1}
  OBVIOUS
<1>7. c \in Claims(reply) /\ c[1] = pos /\ \A d \in Claims(reply) : d[1] = pos => d = c
  BY <1>3, <1>4, <1>6, ClaimsHere
<1>8. Claim(reply, c) = [addr |-> x, start |-> r.start, end |-> r.end]
  BY <1>2, <1>3, <1>6 DEF Claim, Hosts, Region
<1>9. Stands(c, y)'
  <2>1. y[1] = n /\ y[2] = 1
    BY <1>6
  <2>2. heap'[n].slots[1] = r
    BY <1>5
  <2>3. Start(y)' = r.start /\ End(y)' = r.end
    BY <2>1, <2>2 DEF Start, End
  <2> QED BY <1>3, <1>5, <1>8, <2>1, <2>3 DEF Stands
<1>10. Told'
  <2>1. DOMAIN heap'[n].slots = D
    BY <1>5, <1>6
  <2>2. \A k \in D : k = 1 /\ p[k] = c
    BY <1>6
  <2>3. \A k \in D : Stands(p[k], <<n, k>>)'
    BY <1>6, <1>9, <2>2
  <2>4. /\ \A k \in D : p[k] \in Claims(reply) /\ p[k][1] = pos
        /\ \A k, j \in D : k # j => p[k] # p[j]
        /\ \A d \in Claims(reply) : d[1] = pos => \E k \in D : d = p[k]
    BY <1>6, <1>7, <2>2
  <2>5. AddsClaims
    BY <1>1, <1>2, <1>3, <1>5, <2>1, <2>3, <2>4, NodeClaims
  <2> QED BY <1>1, <1>3, <2>5, ToldStep
<1>11. Named'
  BY <1>3 DEF Named
<1>12. Listed'
  <2>1. /\ DOMAIN nodes' = DOMAIN nodes \cup {x} /\ nodes'[x] = n
        /\ \A a \in DOMAIN nodes : nodes'[a] = nodes[a]
    BY ONLY <1>3 DEF With
  <2>2. IsList(heap'[n].slots)
    <3>1. <<r>> = [i \in 1 .. 1 |-> <<r>>[i]] /\ DOMAIN <<r>> = 1 .. 1
      OBVIOUS
    <3>2. IsList(<<r>>)
      BY <3>1, FunctionList
    <3> QED BY <1>5, <3>2
  <2>3. ASSUME NEW a \in DOMAIN nodes PROVE IsList(heap'[nodes[a]].slots)
    <3>1. nodes[a] \in 1 .. Len(heap) /\ IsList(heap[nodes[a]].slots)
      BY <1>1, <1>3 DEF Apart, Listed
    <3> QED BY <1>5, <3>1 DEF SameSlots
  <2> QED BY <1>3, <2>1, <2>2, <2>3 DEF Listed
<1> QED BY <1>3, <1>10, <1>11, <1>12 DEF Telling

\* A reply that describes a cluster is refused only if nothing is owned.
LEMMA RefusedTells ==
    ASSUME Telling, RefusalStep
    PROVE  \A s \in SlotNums : reply.cluster.owner[s] = None
<1>1. /\ Told /\ Named /\ WellFormed(reply) /\ OwnersClaim(reply) /\ Placed
      /\ reply \in Replies /\ Described /\ pos \in Nat
  BY TellingFacts DEF Telling, NodesInv
<1>2. ~BadLine
  <2> SUFFICES ASSUME BadLine PROVE FALSE
    OBVIOUS
  <2>1. reply.format = "nodes" /\ pos \in DOMAIN reply.elements
    BY <1>1, ElementParsed DEF BadLine, Parsing
  <2>2. Line.parts >= 8 /\ Line.port
    BY <1>1, <2>1 DEF WellFormed, Line
  <2>3. Line.addr # None /\ Line.role = "master" /\ Line.addr \in DOMAIN nodes
    <3>1. Line.parts < 8 \/ (Useful /\ Line.role = "master" /\ Line.addr \in DOMAIN nodes)
      BY <2>2 DEF BadLine
    <3>2. ~(Line.parts < 8)
      <4>1. Line.parts \in Nat
        BY <1>1, <2>1, RepliesAssumption DEF Line
      <4> QED BY <2>2, <4>1
    <3> QED BY <3>1, <3>2 DEF Useful
  <2>4. PICK i \in MasterLines(reply) : i < pos /\ reply.elements[i].addr = Line.addr
    BY <1>1, <2>1, <2>3 DEF Named
  <2>5. pos \in MasterLines(reply)
    BY <2>1, <2>3 DEF MasterLines, Line
  <2>6. i # pos
    BY <1>1, <2>4
  <2> QED BY <1>1, <2>1, <2>4, <2>5, <2>6 DEF WellFormed, Line
<1>3. ~BadRegion
  <2> SUFFICES ASSUME BadRegion PROVE FALSE
    OBVIOUS
  <2>1. reply.format = "slots" /\ pos \in DOMAIN reply.elements /\ IsList(Hosts)
    BY <1>1, ElementParsed DEF BadRegion, Parsing
  <2>2. /\ Region.start <= Region.end /\ Hosts # <<>>
        /\ \A k \in DOMAIN Hosts : Hosts[k].wellTyped /\ Hosts[k].good
    BY <1>1, <2>1 DEF WellFormed, Hosts, Region
  <2>3. Len(Hosts) \in Nat /\ DOMAIN Hosts = 1 .. Len(Hosts) /\ Hosts \in Seq(Range(Hosts))
    BY <2>1, ListFacts DEF IsList
  <2>4. Len(Hosts) # 0
    BY <2>2, <2>3, EmptyList
  <2>5. 1 \in DOMAIN Hosts /\ \A k \in 2 .. Len(Hosts) : k \in DOMAIN Hosts
    BY <2>3, <2>4
  <2>6. Region.start \in Nat /\ Region.end \in Nat
    BY <1>1, <2>1, RepliesAssumption DEF Region
  <2>7. ~(Region.start > Region.end)
    BY <2>2, <2>6
  <2> QED BY <2>2, <2>5, <2>7 DEF BadRegion
<1>4. ~RefuseRoute
  <2>1. ~BadRange
    <3> SUFFICES ASSUME NEW x \in Slots, Start(x) > End(x) \/ End(x) >= REDIS_CLUSTER_SLOTS PROVE FALSE
      BY DEF BadRange
    <3>1. PICK c \in Claims(reply) : Stands(c, x)
      BY <1>1 DEF Told
    <3>2. /\ Claim(reply, c).start \in Nat
          /\ Claim(reply, c).end \in Nat
          /\ Claim(reply, c).start <= Claim(reply, c).end
          /\ Claim(reply, c).end < REDIS_CLUSTER_SLOTS
      BY <1>1, ClaimFacts DEF Described
    <3>3. Start(x) = Claim(reply, c).start /\ End(x) = Claim(reply, c).end
      BY <3>1 DEF Stands
    <3> HIDE DEF Start, End
    <3> QED BY <3>2, <3>3, RoutesAssumption
  <2> QED BY <1>1, <2>1 DEF RefuseRoute, Told
<1>5. NoRegions
  BY <1>2, <1>3, <1>4 DEF RefusalStep
<1>6. Claims(reply) = {}
  BY <1>5 DEF NoRegions, Claims
<1> QED BY <1>1, <1>6 DEF OwnersClaim

\* The table that is filled.
LEMMA TakenTells ==
    ASSUME Telling, TakeRoute, NEW s \in SlotNums
    PROVE  AddrOf(node_get_by_table(cc, s))' = reply.cluster.owner[s]
<1>1. /\ Told /\ OwnersClaim(reply) /\ IsHeap(heap) /\ Apart
      /\ reply \in Replies /\ Described /\ pos \in Nat /\ DOMAIN reply.elements = 1 .. Len(reply.elements)
      /\ Len(reply.elements) \in Nat
  BY TellingFacts DEF Telling
<1>2. /\ cc'.table = TableOf(Ranges) /\ heap' = Swapped(heap, cc.nodes, nodes)
      /\ pos > Len(reply.elements)
  BY DEF TakeRoute, Parsed
<1>3. \A id \in 1 .. Len(heap) : heap'[id].addr = heap[id].addr
  BY <1>1, <1>2, SwapFacts
<1>4. /\ \A c \in Claims(reply) :
            /\ c[1] \in DOMAIN reply.elements
            /\ Claim(reply, c).start \in Nat
            /\ Claim(reply, c).end \in Nat
      /\ \A c, d \in Claims(reply) : c # d =>
            Claim(reply, c).end < Claim(reply, d).start \/ Claim(reply, d).end < Claim(reply, c).start
  BY <1>1, ClaimFacts DEF Described
<1>5. s \in Nat
  BY RoutesAssumption DEF SlotNums
<1>6. PICK n : n = cc'.table[s]
  OBVIOUS
<1>7. AddrOf(node_get_by_table(cc, s))' = IF n = None THEN None ELSE heap'[n].addr
  BY <1>6 DEF AddrOf, node_get_by_table
<1>8. CASE \E x \in Slots : s \in Start(x) .. End(x)
  <2>1. PICK x \in Slots : s \in Start(x) .. End(x) /\ n = x[1]
    <3>0. PICK y \in Slots : s \in Start(y) .. End(y)
      BY <1>8
    <3>1. \E r \in Ranges : s \in r.start .. r.end
      <4> DEFINE q == [start |-> Start(y), end |-> End(y), node |-> y[1]]
      <4>1. q \in Ranges
        BY <3>0 DEF Ranges
      <4>2. q.start = Start(y) /\ q.end = End(y)
        OBVIOUS
      <4> QED BY <3>0, <4>1, <4>2
    <3>2. PICK r \in Ranges : s \in r.start .. r.end /\ n = r.node
      BY <1>2, <1>6, <3>1 DEF TableOf
    <3> QED BY <3>2 DEF Ranges
  <2>2. PICK c \in Claims(reply) : Stands(c, x)
    BY <1>1, <2>1 DEF Told
  <2>3. s \in Claim(reply, c).start .. Claim(reply, c).end /\ heap[n].addr = Claim(reply, c).addr
    BY <2>1, <2>2 DEF Stands
  <2>4. n \in 1 .. Len(heap)
    BY <1>1, <2>1, RefFacts DEF Ref, Apart
  <2>5. n # None
    <3>1. Len(heap) \in Nat
      BY <1>1, ListFacts DEF IsHeap
    <3> QED BY <2>4, <3>1, RoutesAssumption
  <2>6. PICK d \in Claims(reply) : /\ s \in Claim(reply, d).start .. Claim(reply, d).end
                                   /\ Claim(reply, d).addr = reply.cluster.owner[s]
    BY <1>1, <2>3 DEF OwnersClaim
  <2>7. c = d
    <3>1. ASSUME c # d PROVE FALSE
      <4>1. Claim(reply, c).end < Claim(reply, d).start \/ Claim(reply, d).end < Claim(reply, c).start
        BY <1>4, <3>1
      <4>2. PICK a, b, e, f \in Nat : /\ a = Claim(reply, c).start /\ b = Claim(reply, c).end
                                      /\ e = Claim(reply, d).start /\ f = Claim(reply, d).end
        BY <1>4
      <4> QED BY <1>5, <2>3, <2>6, <4>1, <4>2
    <3> QED BY <3>1
  <2> QED BY <1>3, <1>7, <2>3, <2>4, <2>5, <2>6, <2>7
<1>9. CASE ~\E x \in Slots : s \in Start(x) .. End(x)
  <2>1. n = None
    <3>1. ~\E r \in Ranges : s \in r.start .. r.end
      BY <1>9 DEF Ranges
    <3> QED BY <1>2, <1>6, <3>1 DEF TableOf
  <2>2. ASSUME NEW c \in Claims(reply), s \in Claim(reply, c).start .. Claim(reply, c).end PROVE FALSE
    <3>1. c[1] < pos
      BY <1>1, <1>2, <1>4
    <3>2. PICK x \in Slots : Stands(c, x)
      BY <1>1, <3>1 DEF Told
    <3>3. Start(x) = Claim(reply, c).start /\ End(x) = Claim(reply, c).end
      BY <3>2 DEF Stands
    <3> HIDE DEF Start, End
    <3> QED BY <1>9, <2>2, <3>2, <3>3
  <2>3. reply.cluster.owner[s] = None
    BY <1>1, <2>2 DEF OwnersClaim
  <2> QED BY <1>7, <2>1, <2>3
<1> QED BY <1>8, <1>9

LEMMA RouteInit == Init => RouteInv
<1> SUFFICES ASSUME Init PROVE RouteInv
  OBVIOUS
<1>1. pc = "parse" /\ nodes = <<>> /\ nodesName = <<>> /\ pos = 1 /\ reply \in Replies
  BY DEF Init
<1>2. DOMAIN nodes = {} /\ DOMAIN nodesName = {}
  BY <1>1
<1>3. \A x : x \notin Slots
  BY <1>2, RefFacts DEF Ref
<1>4. ASSUME NEW c \in Claims(reply), Described PROVE ~(c[1] < pos)
  <2>1. c[1] \in DOMAIN reply.elements
    BY <1>1, <1>4, ClaimFacts DEF Described
  <2>2. Len(reply.elements) \in Nat /\ DOMAIN reply.elements = 1 .. Len(reply.elements)
    BY <1>1, RepliesAssumption, ListFacts
  <2> QED BY <1>1, <2>1, <2>2
<1>5. Described => Told
  BY <1>3, <1>4 DEF Told, Overlap
<1> QED BY <1>1, <1>2, <1>5 DEF RouteInv, Named, Listed, RouteOfCluster

LEMMA RouteStep == NodesInv /\ RouteInv /\ [Next]_vars => RouteInv'
<1> SUFFICES ASSUME NodesInv, RouteInv, [Next]_vars PROVE RouteInv'
  OBVIOUS
<1>1. CASE UNCHANGED vars
  BY <1>1 DEF vars, RouteInv, Described, Told, Named, Listed, RouteOfCluster, Slots, Overlap,
              Start, End, Stands, AddrOf, node_get_by_table
<1>2. CASE Next
  <2>1. pc = "parse" /\ reply' = reply
    BY <1>2 DEF Next, SkipLine, BadLine, MasterLine, SlaveLine, BadRegion, KnownMaster, NewMaster,
                NoRegions, RefuseRoute, TakeRoute, Parsing, Parsed, ParserFails
  <2>2. CASE ~Described
    BY <2>1, <2>2 DEF RouteInv, RouteOfCluster, Described
  <2>3. CASE Described /\ ParserStep
    <3>1. Telling
      BY <2>1, <2>3 DEF Telling
    <3>2. Told' /\ Named' /\ Listed' /\ pc' = "parse"
      BY <2>3, <3>1, SkipTells, MasterTells, SlaveTells, KnownTells, NewTells DEF ParserStep
    <3> QED BY <3>2 DEF RouteInv, RouteOfCluster
  <2>4. CASE Described /\ RefusalStep
    <3>1. Telling
      BY <2>1, <2>4 DEF Telling
    <3>2. pc' \in {"refused", "undefined"}
      BY <2>4 DEF RefusalStep, BadLine, BadRegion, NoRegions, RefuseRoute, ParserFails
    <3>3. \A s \in SlotNums : reply.cluster.owner[s] = None
      BY <2>4, <3>1, RefusedTells
    <3> QED BY <2>1, <3>2, <3>3 DEF RouteInv, RouteOfCluster
  <2>5. CASE Described /\ TakeRoute
    <3>1. Telling
      BY <2>1, <2>5 DEF Telling
    <3>2. pc' = "taken"
      BY <2>5 DEF TakeRoute
    <3>3. \A s \in SlotNums : AddrOf(node_get_by_table(cc, s))' = reply.cluster.owner[s]
      BY <2>5, <3>1, TakenTells
    <3> QED BY <2>1, <3>2, <3>3 DEF RouteInv, RouteOfCluster
  <2> QED BY SMTT(30), <1>2, <2>2, <2>3, <2>4, <2>5 DEF Next, ParserStep, RefusalStep
<1> QED BY <1>1, <1>2

\* The table that an update leaves sends every slot to the master that owns it and
\* the others nowhere, for every cluster, every order of lines or regions and both
\* commands; and a reply that describes a cluster is refused, or leads to a double
\* free, only if no slot is owned (parse_cluster_nodes, parse_cluster_slots and
\* cluster_update_route_by_addr).
THEOREM RouteIsRight == Spec => []RouteOfCluster
<1>1. RouteInv => RouteOfCluster
  BY DEF RouteInv
<1>2. Spec => []RouteInv
  BY NodesInvariant, RouteInit, RouteStep, PTL DEF Spec
<1> QED BY <1>1, <1>2, PTL

-----------------------------------------------------------------------------
(* The slaves. *)

\* The list of slaves of the node n has the nodes at the addresses A, each once.
SlavesAre(n, A) ==
    LET list == heap[n].slaves
    IN  /\ IsList(list)
        /\ \A k \in DOMAIN list :
              /\ list[k] \in 1 .. Len(heap)
              /\ heap[list[k]].role = "slave"
              /\ heap[list[k]].slaves = <<>>
              /\ heap[list[k]].addr \in A
        /\ \A k, j \in DOMAIN list : k # j => heap[list[k]].addr # heap[list[j]].addr
        /\ \A x \in A : \E k \in DOMAIN list : heap[list[k]].addr = x

\* The slaves of the master m among the first lines.
SlavesRead(r, m, p) ==
    {r.elements[j].addr : j \in {j \in SlaveLines(r) : j < p /\ r.elements[j].master = m}}

\* The slaves that a master is to have.
SlavesDue(a) ==
    IF "ADD_SLAVE" \in flags
    THEN {x \in DOMAIN reply.cluster.slaveOf : reply.cluster.slaveOf[x] = a}
    ELSE {}

\* The node that has the name m: the master, or the first of its slaves if they
\* came before it.
Holds(m) ==
    LET n == nodesName[m]
    IN  /\ n \in 1 .. Len(heap)
        /\ \/ heap[n].role = "master" /\ heap[n].name = m /\ SlavesAre(n, SlavesRead(reply, m, pos))
           \/ /\ heap[n].role = "slave"
              /\ heap[n].addr \in SlavesRead(reply, m, pos)
              /\ SlavesAre(n, SlavesRead(reply, m, pos) \ {heap[n].addr})

\* CLUSTER NODES: every slave is held under the name of its master.
ByName ==
    /\ \A m \in DOMAIN nodesName : Holds(m)
    /\ \A j \in SlaveLines(reply) : j < pos => reply.elements[j].master \in DOMAIN nodesName
    /\ \A a \in DOMAIN nodes :
          \E i \in MasterLines(reply) :
             /\ i < pos
             /\ reply.elements[i].addr = a
             /\ reply.elements[i].name \in DOMAIN nodesName
             /\ nodesName[reply.elements[i].name] = nodes[a]

\* CLUSTER SLOTS, and CLUSTER NODES without slaves: every master has its own.
ByAddress == \A a \in DOMAIN nodes : SlavesAre(nodes[a], SlavesDue(a))

SlavesInv ==
    /\ pc = "parse" /\ Described =>
          IF reply.format = "nodes" /\ "ADD_SLAVE" \in flags THEN ByName ELSE ByAddress
    /\ SlavesOfMasters

LEMMA NoSlaves ==
    ASSUME NEW n, heap'[n].slaves = <<>>
    PROVE  SlavesAre(n, {})'
<1>1. IsList(<<>>) /\ DOMAIN <<>> = {}
  BY DEF IsList
<1> QED BY <1>1 DEF SlavesAre

LEMMA HoldsNext ==
    ASSUME NEW m, NEW n, NEW A, n = nodesName'[m], A = SlavesRead(reply', m, pos'),
           n \in 1 .. Len(heap'),
           \/ heap'[n].role = "master" /\ heap'[n].name = m /\ SlavesAre(n, A)'
           \/ /\ heap'[n].role = "slave"
              /\ heap'[n].addr \in A
              /\ \E B : B = A \ {heap'[n].addr} /\ SlavesAre(n, B)'
    PROVE  Holds(m)'
<1>1. SlavesRead(reply, m, pos)' = A
  BY SMTT(30) DEF SlavesRead, SlaveLines
<1>2. CASE heap'[n].role = "master" /\ heap'[n].name = m /\ SlavesAre(n, A)'
  BY SMTT(30), <1>1, <1>2 DEF Holds, SlavesAre
<1>3. CASE /\ heap'[n].role = "slave"
           /\ heap'[n].addr \in A
           /\ \E B : B = A \ {heap'[n].addr} /\ SlavesAre(n, B)'
  BY <1>1, <1>3 DEF Holds, SlavesAre
<1> QED BY <1>2, <1>3

\* How the slaves that have been read grow.
LEMMA ReadFacts ==
    ASSUME Telling, pos \in DOMAIN reply.elements, reply.format = "nodes"
    PROVE  /\ \A m, x : m # x => SlavesRead(reply, m, pos) \cap SlavesRead(reply, x, pos) = {}
           /\ pos \notin SlaveLines(reply) =>
                 \A m : SlavesRead(reply, m, pos + 1) = SlavesRead(reply, m, pos)
           /\ pos \in SlaveLines(reply) =>
                 /\ \A m : Line.addr \notin SlavesRead(reply, m, pos)
                 /\ \A m : m # Line.master => SlavesRead(reply, m, pos + 1) = SlavesRead(reply, m, pos)
                 /\ SlavesRead(reply, Line.master, pos + 1) =
                       SlavesRead(reply, Line.master, pos) \cup {Line.addr}
<1>1. reply \in Replies /\ pos \in Nat /\ DOMAIN reply.elements \subseteq Nat
  BY TellingFacts
<1>2. \A i, j \in SlaveLines(reply) : i # j => reply.elements[i].addr # reply.elements[j].addr
  BY <1>1, DescribedAssumption DEF SlavesClaim, Telling, Described
<1>3. \A j \in SlaveLines(reply) : (j < pos => j # pos) /\ (j < pos + 1 <=> j < pos \/ j = pos)
  BY <1>1 DEF SlaveLines
<1>4. \A m, x : m # x => SlavesRead(reply, m, pos) \cap SlavesRead(reply, x, pos) = {}
  BY <1>2 DEF SlavesRead
<1>5. ASSUME pos \notin SlaveLines(reply), NEW m
      PROVE  SlavesRead(reply, m, pos + 1) = SlavesRead(reply, m, pos)
  BY <1>3, <1>5 DEF SlavesRead
<1>6. ASSUME pos \in SlaveLines(reply), NEW m
      PROVE  /\ Line.addr \notin SlavesRead(reply, m, pos)
             /\ m # Line.master => SlavesRead(reply, m, pos + 1) = SlavesRead(reply, m, pos)
             /\ m = Line.master => SlavesRead(reply, m, pos + 1) = SlavesRead(reply, m, pos) \cup {Line.addr}
  BY <1>2, <1>3, <1>6 DEF SlavesRead, Line
<1> QED BY <1>4, <1>5, <1>6

\* Two names are held apart.
LEMMA HeldApart ==
    ASSUME \A m, x : m # x => SlavesRead(reply, m, pos) \cap SlavesRead(reply, x, pos) = {},
           NEW m \in DOMAIN nodesName, NEW x \in DOMAIN nodesName, Holds(m), Holds(x)
    PROVE  /\ m # x => nodesName[m] # nodesName[x]
           /\ \A k \in DOMAIN heap[nodesName[m]].slaves : heap[nodesName[m]].slaves[k] # nodesName[x]
<1>1. PICK n, p, A, B : n = nodesName[m] /\ p = nodesName[x]
                        /\ A = SlavesRead(reply, m, pos) /\ B = SlavesRead(reply, x, pos)
  OBVIOUS
<1>2. /\ m # x => A \cap B = {}
      /\ m = x => A = B /\ n = p
  BY <1>1
<1>3. \/ heap[p].role = "master" /\ heap[p].name = x
      \/ heap[p].role = "slave" /\ heap[p].addr \in B
  BY <1>1 DEF Holds
<1>4. \/ heap[n].role = "master" /\ heap[n].name = m
      \/ heap[n].role = "slave" /\ heap[n].addr \in A
  BY <1>1 DEF Holds
<1>5. m # x => n # p
  BY <1>2, <1>3, <1>4
<1>6. PICK C : /\ SlavesAre(n, C)
               /\ \/ heap[n].role = "master" /\ C = A
                  \/ heap[n].role = "slave" /\ C = A \ {heap[n].addr}
  BY <1>1 DEF Holds
<1>7. ASSUME NEW k \in DOMAIN heap[n].slaves
      PROVE  heap[n].slaves[k] # p
  <2>1. heap[heap[n].slaves[k]].role = "slave" /\ heap[heap[n].slaves[k]].addr \in C
    BY <1>6 DEF SlavesAre
  <2> QED BY <1>2, <1>3, <1>4, <1>6, <2>1
<1> QED BY <1>1, <1>5, <1>7

\* The lists of slaves after a line of a slave.
LEMMA SlaveLists ==
    ASSUME IsHeap(heap), SlaveLine, NEW n, n = Len(heap) + 1, NEW m, m = Line.master,
           m \in DOMAIN nodesName => nodesName[m] \in 1 .. Len(heap)
    PROVE  /\ heap'[n].slaves = <<>>
           /\ \A id \in 1 .. Len(heap) : (m \in DOMAIN nodesName => id # nodesName[m])
                                             => heap'[id].slaves = heap[id].slaves
           /\ m \in DOMAIN nodesName =>
                 /\ heap'[nodesName[m]].slaves = Append(heap[nodesName[m]].slaves, n)
                 /\ nodesName' = nodesName
           /\ m \notin DOMAIN nodesName => nodesName' = With(nodesName, m, n)
<1>1. PICK hp : hp = Append(heap, NodeOfLine)
  OBVIOUS
<1>2. /\ IsHeap(hp) /\ Len(heap) \in Nat /\ Len(hp) = n /\ hp[n] = NodeOfLine
      /\ \A id \in 1 .. Len(heap) : hp[id] = heap[id]
  <2>1. DOMAIN NodeOfLine = NodeFields
    BY NodeFacts DEF NodeOfLine
  <2> QED BY <1>1, <2>1, HeapAppend
<1>3. hp[n].slaves = <<>> /\ hp[n].role = "slave"
  <2>1. NodeOfLine.slaves = <<>> /\ NodeOfLine.role = Line.role /\ Line.role = "slave"
    BY NodeFacts DEF NodeOfLine, SlaveLine
  <2> QED BY <1>2, <2>1
<1>4. n \in 1 .. Len(hp) /\ n \notin 1 .. Len(heap) /\ \A id \in 1 .. Len(heap) : id \in 1 .. Len(hp)
  BY <1>2
<1>5. heap' = Mapped(hp, n, m) /\ nodesName' = MappedName(hp, n, m)
  BY <1>1 DEF SlaveLine
<1>6. CASE m \notin DOMAIN nodesName
  BY SMTT(30), <1>2, <1>3, <1>5, <1>6 DEF Mapped, MappedName
<1>7. CASE m \in DOMAIN nodesName
  <2>1. PICK old, list : old = nodesName[m] /\ list = Append(hp[old].slaves, n)
    OBVIOUS
  <2>2. heap' = [hp EXCEPT ![old].slaves = list] /\ nodesName' = nodesName
    BY <1>3, <1>5, <1>7, <2>1 DEF Mapped, MappedName
  <2>3. old \in 1 .. Len(heap) /\ list = Append(heap[old].slaves, n)
    BY <1>2, <1>7, <2>1
  <2>4. /\ \A id \in 1 .. Len(hp) : id # old => heap'[id].slaves = hp[id].slaves
        /\ old \in 1 .. Len(hp) => heap'[old].slaves = list
    BY <1>2, <2>2, SlavesChange
  <2> QED BY <1>2, <1>3, <1>4, <1>7, <2>1, <2>2, <2>3, <2>4
<1> QED BY <1>6, <1>7

\* The lists of slaves after a line of a master.
LEMMA MasterLists ==
    ASSUME Telling, MasterLine, NEW n, n = Len(heap) + 1, NEW m, m = Line.name
    PROVE  /\ heap'[n].name = m
           /\ heap'[n].role = "master"
           /\ "ADD_SLAVE" \notin flags \/ m \notin DOMAIN nodesName =>
                 /\ heap'[n].slaves = <<>>
                 /\ \A id \in 1 .. Len(heap) : heap'[id].slaves = heap[id].slaves
           /\ "ADD_SLAVE" \in flags /\ m \in DOMAIN nodesName =>
                 /\ heap[nodesName[m]].role # "master"
                 /\ heap'[n].slaves = <<nodesName[m]>> \o Reverse(heap[nodesName[m]].slaves)
                 /\ heap'[nodesName[m]].slaves = <<>>
                 /\ \A id \in 1 .. Len(heap) : id # nodesName[m] => heap'[id].slaves = heap[id].slaves
           /\ "ADD_SLAVE" \in flags => nodesName' = With(nodesName, m, n)
<1>1. IsHeap(heap) /\ Named
  BY TellingFacts
<1> DEFINE new == [NodeOfLine EXCEPT !.slots = RangesOf(Line.slots),
                                     !.migrating = OpenSlots(Line.slots, "migrating"),
                                     !.importing = OpenSlots(Line.slots, "importing")]
<1>2. PICK node, hp : node = new /\ hp = Append(heap, node)
  OBVIOUS
<1>3. DOMAIN node = NodeFields /\ node.slaves = <<>> /\ node.role = "master" /\ node.name = m
  <2>1. /\ DOMAIN NodeOfLine = NodeFields /\ NodeOfLine.slaves = <<>> /\ NodeOfLine.role = Line.role
        /\ Line.role = "master" /\ NodeOfLine.name = m
    BY NodeFacts DEF NodeOfLine, MasterLine
  <2> QED BY <1>2, <2>1 DEF NodeFields
<1>4. ~TwoMasters(hp, n, m)
  BY <1>2, <1>3, NoTwoMasters
<1>5. /\ "ADD_SLAVE" \notin flags => heap' = hp
      /\ "ADD_SLAVE" \in flags => heap' = Mapped(hp, n, m) /\ nodesName' = MappedName(hp, n, m)
  <2>1. hp = Append(heap, new)
    BY <1>2
  <2> HIDE DEF new
  <2> QED BY <1>4, <2>1 DEF MasterLine, new
<1> HIDE DEF new
<1>6. /\ IsHeap(hp) /\ Len(heap) \in Nat /\ Len(hp) = n /\ hp[n] = node
      /\ \A id \in 1 .. Len(heap) : hp[id] = heap[id]
  BY <1>1, <1>2, <1>3, HeapAppend
<1>7. n \in 1 .. Len(hp) /\ n \notin 1 .. Len(heap) /\ \A id \in 1 .. Len(heap) : id \in 1 .. Len(hp)
  BY <1>6
<1>8. "ADD_SLAVE" \in flags => nodesName' = With(nodesName, m, n)
  BY <1>3, <1>5, <1>6 DEF MappedName
<1>9. CASE "ADD_SLAVE" \notin flags \/ m \notin DOMAIN nodesName
  <2>1. heap' = hp
    BY <1>5, <1>9 DEF Mapped
  <2> QED BY <1>3, <1>6, <1>8, <1>9, <2>1
<1>10. CASE "ADD_SLAVE" \in flags /\ m \in DOMAIN nodesName
  <2>1. PICK old, list : old = nodesName[m] /\ list = <<old>> \o Reverse(hp[old].slaves)
    OBVIOUS
  <2>2. PICK hq : hq = [hp EXCEPT ![n].slaves = list]
    OBVIOUS
  <2>3. heap' = [hq EXCEPT ![old].slaves = <<>>]
    <3>1. heap' = MapMaster(hp, n, old)
      BY <1>3, <1>5, <1>6, <1>10, <2>1 DEF Mapped
    <3> QED BY <2>1, <2>2, <3>1 DEF MapMaster
  <2>4. old \in 1 .. Len(heap)
    BY <1>1, <1>10, <2>1 DEF Named, MasterLine, Parsing
  <2>5. list = <<old>> \o Reverse(heap[old].slaves) /\ heap[old].role # "master" /\ old # n
        /\ old \in 1 .. Len(hp)
    BY <1>3, <1>4, <1>6, <1>7, <1>10, <2>1, <2>4 DEF TwoMasters
  <2>6. /\ SameNodes(hp, hq)
        /\ \A id \in 1 .. Len(hp) : id # n => hq[id].slaves = hp[id].slaves
        /\ hq[n].slaves = list
    <3>1. IsHeap(hp) /\ n \in 1 .. Len(hp)
      BY <1>6, <1>7
    <3>2. LET h == [hp EXCEPT ![n].slaves = list]
          IN  /\ SameNodes(hp, h)
              /\ \A id \in 1 .. Len(hp) : id # n => h[id].slaves = hp[id].slaves
              /\ n \in 1 .. Len(hp) => h[n].slaves = list
      BY ONLY <3>1, SlavesChange
    <3> QED BY ONLY <2>2, <3>1, <3>2
  <2>7. IsHeap(hq) /\ Len(hq) = Len(hp) /\ hq[n].name = hp[n].name /\ hq[n].role = hp[n].role
    BY <1>7, <2>6 DEF SameNodes
  <2>8. /\ SameNodes(hq, heap')
        /\ \A id \in 1 .. Len(hq) : id # old => heap'[id].slaves = hq[id].slaves
        /\ heap'[old].slaves = <<>>
    <3>1. PICK none : none = <<>>
      OBVIOUS
    <3>2. IsHeap(hq) /\ old \in 1 .. Len(hq) /\ heap' = [hq EXCEPT ![old].slaves = none]
      BY <2>3, <2>5, <2>7, <3>1
    <3>3. LET h == [hq EXCEPT ![old].slaves = none]
          IN  /\ SameNodes(hq, h)
              /\ \A id \in 1 .. Len(hq) : id # old => h[id].slaves = hq[id].slaves
              /\ old \in 1 .. Len(hq) => h[old].slaves = none
      BY ONLY <3>2, SlavesChange
    <3> QED BY ONLY <3>1, <3>2, <3>3
  <2>9. heap'[n].name = m /\ heap'[n].role = "master"
    BY <1>3, <1>6, <1>7, <2>7, <2>8 DEF SameNodes
  <2>10. ASSUME NEW id \in 1 .. Len(heap), id # old PROVE heap'[id].slaves = heap[id].slaves
    BY <1>6, <1>7, <2>6, <2>7, <2>8, <2>10
  <2>11. heap'[n].slaves = list
    BY <1>7, <2>5, <2>6, <2>7, <2>8
  <2> QED BY <1>8, <1>10, <2>1, <2>5, <2>8, <2>9, <2>10, <2>11
<1> QED BY <1>9, <1>10

\* The nodes of the list of slaves of v, as they are after a step.
LEMMA SlavesLater ==
    ASSUME NEW v, NEW C, SlavesAre(v, C), Grown,
           \A k \in DOMAIN heap[v].slaves : heap'[heap[v].slaves[k]].slaves = heap[heap[v].slaves[k]].slaves
    PROVE  LET list == heap[v].slaves
           IN  /\ IsList(list)
               /\ \A k \in DOMAIN list :
                     /\ list[k] \in 1 .. Len(heap')
                     /\ heap'[list[k]].role = "slave"
                     /\ heap'[list[k]].slaves = <<>>
                     /\ heap'[list[k]].addr \in C
               /\ \A k, j \in DOMAIN list : k # j => heap'[list[k]].addr # heap'[list[j]].addr
               /\ \A x \in C : \E k \in DOMAIN list : heap'[list[k]].addr = x
<1>1. PICK list : list = heap[v].slaves
  OBVIOUS
<1>2. /\ IsList(list)
      /\ \A k \in DOMAIN list :
            /\ list[k] \in 1 .. Len(heap)
            /\ heap[list[k]].role = "slave"
            /\ heap[list[k]].slaves = <<>>
            /\ heap[list[k]].addr \in C
      /\ \A k, j \in DOMAIN list : k # j => heap[list[k]].addr # heap[list[j]].addr
      /\ \A x \in C : \E k \in DOMAIN list : heap[list[k]].addr = x
  BY <1>1 DEF SlavesAre
<1>3. ASSUME NEW k \in DOMAIN list
      PROVE  /\ list[k] \in 1 .. Len(heap')
             /\ heap'[list[k]].role = heap[list[k]].role
             /\ heap'[list[k]].slaves = heap[list[k]].slaves
             /\ heap'[list[k]].addr = heap[list[k]].addr
  <2>1. list[k] \in 1 .. Len(heap)
    BY <1>2
  <2> QED BY <1>1, <2>1 DEF Grown
<1> QED BY <1>1, <1>2, <1>3

LEMMA SlavesKept ==
    ASSUME NEW n, NEW A, SlavesAre(n, A), Grown,
           heap'[n].slaves = heap[n].slaves,
           \A k \in DOMAIN heap[n].slaves : heap'[heap[n].slaves[k]].slaves = heap[heap[n].slaves[k]].slaves
    PROVE  SlavesAre(n, A)'
<1>1. PICK list : list = heap[n].slaves
  OBVIOUS
<1>2. /\ IsList(list) /\ list = heap'[n].slaves
      /\ \A k \in DOMAIN list :
            /\ list[k] \in 1 .. Len(heap')
            /\ heap'[list[k]].role = "slave"
            /\ heap'[list[k]].slaves = <<>>
            /\ heap'[list[k]].addr \in A
      /\ \A k, j \in DOMAIN list : k # j => heap'[list[k]].addr # heap'[list[j]].addr
      /\ \A x \in A : \E k \in DOMAIN list : heap'[list[k]].addr = x
  BY SMTT(30), <1>1, SlavesLater
<1> QED BY <1>2 DEF SlavesAre

\* A slave that comes behind those its master has.
LEMMA SlaveAdded ==
    ASSUME NEW v, NEW C, SlavesAre(v, C), Grown,
           NEW n \in 1 .. Len(heap'), heap'[v].slaves = Append(heap[v].slaves, n),
           heap'[n].role = "slave", heap'[n].slaves = <<>>, heap'[n].addr \notin C,
           \A k \in DOMAIN heap[v].slaves : heap'[heap[v].slaves[k]].slaves = heap[heap[v].slaves[k]].slaves,
           NEW D, D = C \cup {heap'[n].addr}
    PROVE  SlavesAre(v, D)'
<1>1. PICK old, list, q : old = heap[v].slaves /\ list = heap'[v].slaves /\ q = Len(old)
  OBVIOUS
<1>2. /\ IsList(old)
      /\ \A k \in DOMAIN old :
            /\ old[k] \in 1 .. Len(heap')
            /\ heap'[old[k]].role = "slave"
            /\ heap'[old[k]].slaves = <<>>
            /\ heap'[old[k]].addr \in C
      /\ \A k, j \in DOMAIN old : k # j => heap'[old[k]].addr # heap'[old[j]].addr
      /\ \A x \in C : \E k \in DOMAIN old : heap'[old[k]].addr = x
  BY <1>1, SlavesLater
<1>3. /\ IsList(list) /\ Len(list) = q + 1 /\ list[q + 1] = n
      /\ \A i \in 1 .. q : list[i] = old[i]
      /\ \A i \in 1 .. q + 1 : i \in 1 .. q \/ i = q + 1
  <2>1. list = Append(old, n)
    BY <1>1
  <2> QED BY ONLY <1>1, <1>2, <2>1, ListAppend
<1>4. q \in Nat /\ DOMAIN old = 1 .. q /\ DOMAIN list = 1 .. q + 1
  BY <1>1, <1>2, <1>3, ListFacts
<1>5. q + 1 \notin 1 .. q /\ q + 1 \in 1 .. q + 1 /\ \A i \in 1 .. q : i \in 1 .. q + 1
  BY <1>4
<1>6. /\ IsList(list)
      /\ \A k \in DOMAIN list :
            /\ list[k] \in 1 .. Len(heap')
            /\ heap'[list[k]].role = "slave"
            /\ heap'[list[k]].slaves = <<>>
            /\ heap'[list[k]].addr \in D
      /\ \A k, j \in DOMAIN list : k # j => heap'[list[k]].addr # heap'[list[j]].addr
      /\ \A x \in D : \E k \in DOMAIN list : heap'[list[k]].addr = x
  <2>1. ASSUME NEW k \in 1 .. q + 1
        PROVE  /\ list[k] \in 1 .. Len(heap')
               /\ heap'[list[k]].role = "slave"
               /\ heap'[list[k]].slaves = <<>>
               /\ heap'[list[k]].addr \in D
    <3>1. CASE k \in 1 .. q
      <4>1. k \in DOMAIN old /\ list[k] = old[k]
        BY <1>3, <1>4, <3>1
      <4> QED BY <1>2, <4>1
    <3>2. CASE k = q + 1
      BY <1>3, <3>2
    <3> QED BY <1>3, <3>1, <3>2
  <2>2. ASSUME NEW k \in 1 .. q + 1, NEW j \in 1 .. q + 1, k # j
        PROVE  heap'[list[k]].addr # heap'[list[j]].addr
    <3>1. /\ list[k] = n \/ (k \in DOMAIN old /\ list[k] = old[k])
          /\ list[j] = n \/ (j \in DOMAIN old /\ list[j] = old[j])
          /\ (k \in DOMAIN old /\ list[k] = old[k]) \/ (j \in DOMAIN old /\ list[j] = old[j])
      <4>1. k \in 1 .. q \/ k = q + 1
        BY <1>3
      <4>2. j \in 1 .. q \/ j = q + 1
        BY <1>3
      <4> QED BY <1>3, <1>4, <2>2, <4>1, <4>2
    <3> QED BY SMTT(30), <1>2, <2>2, <3>1
  <2>3. ASSUME NEW x \in D PROVE \E k \in 1 .. q + 1 : heap'[list[k]].addr = x
    <3>1. CASE x = heap'[n].addr
      BY <1>3, <1>5, <3>1
    <3>2. CASE x \in C
      <4>1. PICK k \in 1 .. q : heap'[old[k]].addr = x
        BY <1>2, <1>4, <3>2
      <4> QED BY <1>3, <1>5, <4>1
    <3> QED BY <3>1, <3>2
  <2> QED BY <1>3, <1>4, <2>1, <2>2, <2>3
<1> QED BY ZenonT(60), <1>1, <1>6 DEF SlavesAre

\* A master that comes behind its slaves: the first of them had the others.
LEMMA MasterAdded ==
    ASSUME NEW v \in 1 .. Len(heap), NEW C, SlavesAre(v, C), Grown,
           NEW n, heap'[n].slaves = <<v>> \o Reverse(heap[v].slaves),
           heap[v].role = "slave", heap'[v].slaves = <<>>, heap[v].addr \notin C,
           \A k \in DOMAIN heap[v].slaves : heap'[heap[v].slaves[k]].slaves = heap[heap[v].slaves[k]].slaves,
           NEW D, D = C \cup {heap[v].addr}
    PROVE  SlavesAre(n, D)'
<1>1. PICK old, list, q : old = heap[v].slaves /\ list = heap'[n].slaves /\ q = Len(old)
  OBVIOUS
<1>2. /\ IsList(old)
      /\ \A k \in DOMAIN old :
            /\ old[k] \in 1 .. Len(heap')
            /\ heap'[old[k]].role = "slave"
            /\ heap'[old[k]].slaves = <<>>
            /\ heap'[old[k]].addr \in C
      /\ \A k, j \in DOMAIN old : k # j => heap'[old[k]].addr # heap'[old[j]].addr
      /\ \A x \in C : \E k \in DOMAIN old : heap'[old[k]].addr = x
  BY <1>1, SlavesLater
<1>3. q \in Nat /\ DOMAIN old = 1 .. q
  BY <1>1, <1>2, ListFacts
<1>4. PICK one, rev : one = <<v>> /\ rev = Reverse(old)
  OBVIOUS
<1>5. IsList(one) /\ Len(one) = 1 /\ one[1] = v
  <2>1. one = [i \in 1 .. 1 |-> one[i]] /\ DOMAIN one = 1 .. 1
    BY <1>4
  <2>2. IsList(one) /\ Len(one) = 1
    BY <2>1, FunctionList
  <2> QED BY <1>4, <2>2
<1>6. IsList(rev) /\ Len(rev) = q /\ \A i \in 1 .. q : rev[i] = old[q - i + 1]
  <2>1. rev = [i \in 1 .. q |-> old[q - i + 1]]
    BY <1>1, <1>4 DEF Reverse
  <2>2. DOMAIN rev = 1 .. q /\ rev = [i \in 1 .. q |-> rev[i]] /\ \A i \in 1 .. q : rev[i] = old[q - i + 1]
    BY <2>1
  <2> QED BY <1>3, <2>2, FunctionList
<1>7. IsList(list) /\ Len(list) = q + 1 /\ list[1] = v /\ \A i \in 1 .. q : list[1 + i] = rev[i]
  <2>1. list = one \o rev
    BY <1>1, <1>4
  <2>2. /\ IsList(one \o rev) /\ Len(one \o rev) = Len(one) + Len(rev)
        /\ \A i \in 1 .. Len(one) : (one \o rev)[i] = one[i]
        /\ \A i \in 1 .. Len(rev) : (one \o rev)[Len(one) + i] = rev[i]
    <3>1. IsList(one) /\ IsList(rev)
      BY <1>5, <1>6
    <3> QED BY ONLY <3>1, ListConcat
  <2>3. 1 \in 1 .. Len(one) /\ Len(one) + Len(rev) = q + 1
    BY <1>3, <1>5, <1>6
  <2> QED BY <1>5, <1>6, <2>1, <2>2, <2>3
<1>8. DOMAIN list = 1 .. q + 1
  BY <1>7, ListFacts
<1>9. \A i \in 1 .. q + 1 : i = 1 \/ (q + 2 - i \in 1 .. q /\ list[i] = old[q + 2 - i])
  <2> SUFFICES ASSUME NEW i \in 1 .. q + 1, i # 1 PROVE q + 2 - i \in 1 .. q /\ list[i] = old[q + 2 - i]
    OBVIOUS
  <2>0. i \in Nat /\ 1 <= i /\ i <= q + 1 /\ i # 1 /\ q \in Nat
    BY <1>3
  <2>1. i - 1 \in 1 .. q /\ 1 + (i - 1) = i /\ q - (i - 1) + 1 = q + 2 - i
    BY ONLY <2>0
  <2>2. list[i] = rev[i - 1]
    BY <1>7, <2>1
  <2>3. rev[i - 1] = old[q - (i - 1) + 1]
    BY <1>6, <2>1
  <2>4. q + 2 - i \in 1 .. q
    BY <1>3, <2>1
  <2> QED BY <2>1, <2>2, <2>3, <2>4
<1>10. \A j \in 1 .. q : q + 2 - j \in 1 .. q + 1 /\ q + 2 - j # 1 /\ q + 2 - (q + 2 - j) = j
  BY <1>3
<1>11. \A i, j \in 1 .. q + 1 : i # j => q + 2 - i # q + 2 - j
  BY <1>3
<1>12. /\ v \in 1 .. Len(heap') /\ heap'[v].role = "slave" /\ heap'[v].addr = heap[v].addr
  BY DEF Grown
<1>13. 1 \in 1 .. q + 1
  BY <1>3
<1>14. ASSUME NEW k \in 1 .. q + 1
       PROVE  /\ list[k] \in 1 .. Len(heap')
              /\ heap'[list[k]].role = "slave"
              /\ heap'[list[k]].slaves = <<>>
              /\ heap'[list[k]].addr \in D
  <2>1. CASE k = 1
    BY <1>7, <1>12, <2>1
  <2>2. CASE k # 1
    <3>1. q + 2 - k \in DOMAIN old /\ list[k] = old[q + 2 - k]
      BY <1>3, <1>9, <2>2
    <3> QED BY <1>2, <3>1
  <2> QED BY <2>1, <2>2
<1>15. ASSUME NEW k \in 1 .. q + 1, NEW j \in 1 .. q + 1, k # j
       PROVE  heap'[list[k]].addr # heap'[list[j]].addr
  <2>1. PICK a, b : a = q + 2 - k /\ b = q + 2 - j
    OBVIOUS
  <2>2. /\ a # b
        /\ k = 1 \/ (a \in DOMAIN old /\ list[k] = old[a])
        /\ j = 1 \/ (b \in DOMAIN old /\ list[j] = old[b])
    BY <1>3, <1>9, <1>11, <1>15, <2>1
  <2> QED BY <1>2, <1>7, <1>12, <1>15, <2>2
<1>16. ASSUME NEW x \in D PROVE \E k \in 1 .. q + 1 : heap'[list[k]].addr = x
  <2>1. CASE x = heap[v].addr
    BY <1>7, <1>12, <1>13, <2>1
  <2>2. CASE x \in C
    <3>1. PICK j \in 1 .. q : heap'[old[j]].addr = x
      BY <1>2, <1>3, <2>2
    <3>2. PICK i : i = q + 2 - j
      OBVIOUS
    <3>3. i \in 1 .. q + 1 /\ i # 1 /\ q + 2 - i = j
      BY <1>10, <3>2
    <3>4. list[i] = old[j]
      BY <1>9, <3>3
    <3> QED BY <3>1, <3>3, <3>4
  <2> QED BY <2>1, <2>2
<1>17. /\ IsList(list)
       /\ \A k \in DOMAIN list :
             /\ list[k] \in 1 .. Len(heap')
             /\ heap'[list[k]].role = "slave"
             /\ heap'[list[k]].slaves = <<>>
             /\ heap'[list[k]].addr \in D
       /\ \A k, j \in DOMAIN list : k # j => heap'[list[k]].addr # heap'[list[j]].addr
       /\ \A x \in D : \E k \in DOMAIN list : heap'[list[k]].addr = x
  BY <1>7, <1>8, <1>14, <1>15, <1>16
<1> QED BY ONLY <1>1, <1>17 DEF SlavesAre

\* The lists of slaves that a line may change are those under its name m.
ListsKept(m) ==
    \A id \in 1 .. Len(heap) : (m \in DOMAIN nodesName => id # nodesName[m]) => heap'[id].slaves = heap[id].slaves

\* The names of the other masters are held as before.
LEMMA OthersHold ==
    ASSUME \A m, x : m # x => SlavesRead(reply, m, pos) \cap SlavesRead(reply, x, pos) = {},
           \A m \in DOMAIN nodesName : Holds(m), Grown,
           NEW m, ListsKept(m), NEW z \in DOMAIN nodesName, z # m, nodesName'[z] = nodesName[z],
           SlavesRead(reply', z, pos') = SlavesRead(reply, z, pos)
    PROVE  Holds(z)'
<1>1. PICK v, A : v = nodesName[z] /\ A = SlavesRead(reply, z, pos)
  OBVIOUS
<1>2. PICK C : /\ SlavesAre(v, C)
               /\ v \in 1 .. Len(heap)
               /\ \/ heap[v].role = "master" /\ heap[v].name = z /\ C = A
                  \/ heap[v].role = "slave" /\ heap[v].addr \in A /\ C = A \ {heap[v].addr}
  BY <1>1 DEF Holds
<1>3. /\ m \in DOMAIN nodesName => v # nodesName[m]
      /\ \A k \in DOMAIN heap[v].slaves : m \in DOMAIN nodesName => heap[v].slaves[k] # nodesName[m]
  BY <1>1, HeldApart
<1>4. heap'[v].slaves = heap[v].slaves
  BY <1>2, <1>3 DEF ListsKept
<1>5. ASSUME NEW k \in DOMAIN heap[v].slaves
      PROVE  heap'[heap[v].slaves[k]].slaves = heap[heap[v].slaves[k]].slaves
  <2>1. heap[v].slaves[k] \in 1 .. Len(heap)
    BY <1>2 DEF SlavesAre
  <2> QED BY <1>3, <2>1 DEF ListsKept
<1>6. SlavesAre(v, C)'
  BY <1>2, <1>4, <1>5, SlavesKept
<1>7. /\ v \in 1 .. Len(heap') /\ heap'[v].role = heap[v].role /\ heap'[v].name = heap[v].name
      /\ heap'[v].addr = heap[v].addr
  BY <1>2 DEF Grown
<1>8. v = nodesName'[z] /\ A = SlavesRead(reply', z, pos')
  BY <1>1
<1>9. CASE heap[v].role = "master" /\ heap[v].name = z /\ C = A
  BY <1>6, <1>7, <1>8, <1>9, HoldsNext
<1>10. CASE heap[v].role = "slave" /\ heap[v].addr \in A /\ C = A \ {heap[v].addr}
  <2>1. \E B : B = A \ {heap'[v].addr} /\ SlavesAre(v, B)'
    BY <1>6, <1>7, <1>10
  <2> QED BY <1>7, <1>8, <1>10, <2>1, HoldsNext
<1> QED BY <1>2, <1>9, <1>10

\* A name that nobody has is that of nobody's master.
LEMMA NobodyRead ==
    ASSUME ByName, NEW m, m \notin DOMAIN nodesName
    PROVE  SlavesRead(reply, m, pos) = {}
  BY DEF ByName, SlavesRead

LEMMA SlaveNamed ==
    ASSUME Telling, ByName, SlaveLine
    PROVE  ByName'
<1>1. /\ IsHeap(heap) /\ Placed /\ reply \in Replies /\ pos \in Nat /\ DOMAIN reply.elements \subseteq Nat
  BY TellingFacts DEF Telling, NodesInv
<1>2. PICK n, m, s, q : n = Len(heap) + 1 /\ m = Line.master /\ s = Line.addr /\ q = pos + 1
  OBVIOUS
<1>3. /\ UNCHANGED <<reply, nodes>> /\ pos' = q /\ reply.format = "nodes"
      /\ Line.role = "slave" /\ s # None
  BY <1>2 DEF SlaveLine, Parsing, Useful
<1>4. pos \in DOMAIN reply.elements
  BY <1>1, ElementParsed DEF SlaveLine
<1>5. pos \in SlaveLines(reply) /\ pos \notin MasterLines(reply)
  BY <1>2, <1>3, <1>4 DEF SlaveLines, MasterLines, Line
<1>6. /\ \A z, x : z # x => SlavesRead(reply, z, pos) \cap SlavesRead(reply, x, pos) = {}
      /\ \A z : s \notin SlavesRead(reply, z, pos)
      /\ \A z : z # m => SlavesRead(reply, z, q) = SlavesRead(reply, z, pos)
      /\ SlavesRead(reply, m, q) = SlavesRead(reply, m, pos) \cup {s}
  BY <1>2, <1>3, <1>4, <1>5, ReadFacts
<1>7. PICK node : MadeNode(node) /\ node.role = "slave" /\ node.addr = s
  BY <1>1, <1>2, SlaveMade
<1>8. Grown /\ Len(heap') = n /\ heap'[n].role = "slave" /\ heap'[n].addr = s
  BY <1>1, <1>2, <1>7, MadeGrows
<1>9. n \in 1 .. Len(heap') /\ Len(heap) \in Nat
  BY <1>2, <1>8 DEF Grown
<1>10. \A z \in DOMAIN nodesName : Holds(z) /\ nodesName[z] \in 1 .. Len(heap)
  BY DEF ByName, Holds
<1>11. /\ heap'[n].slaves = <<>>
       /\ ListsKept(m)
       /\ m \in DOMAIN nodesName =>
             /\ heap'[nodesName[m]].slaves = Append(heap[nodesName[m]].slaves, n)
             /\ nodesName' = nodesName
       /\ m \notin DOMAIN nodesName => nodesName' = With(nodesName, m, n)
  BY <1>1, <1>2, <1>10, SlaveLists DEF ListsKept
<1>12. /\ DOMAIN nodesName' = DOMAIN nodesName \cup {m}
       /\ \A z \in DOMAIN nodesName : nodesName'[z] = nodesName[z]
       /\ m \notin DOMAIN nodesName => nodesName'[m] = n
  <2>1. CASE m \in DOMAIN nodesName
    BY <1>11, <2>1
  <2>2. CASE m \notin DOMAIN nodesName
    <3>1. nodesName' = With(nodesName, m, n)
      BY <1>11, <2>2
    <3> QED BY ONLY <2>2, <3>1 DEF With
  <2> QED BY <2>1, <2>2
<1>13. PICK A : A = SlavesRead(reply', m, pos')
  OBVIOUS
<1>14. A = SlavesRead(reply, m, pos) \cup {s}
  BY <1>3, <1>6, <1>13
<1>15. ASSUME NEW z \in DOMAIN nodesName, z # m PROVE Holds(z)'
  <2>1. SlavesRead(reply', z, pos') = SlavesRead(reply, z, pos)
    BY <1>3, <1>6, <1>15
  <2> QED BY <1>6, <1>8, <1>10, <1>11, <1>12, <1>15, <2>1, OthersHold
<1>16. Holds(m)'
  <2>1. CASE m \notin DOMAIN nodesName
    <3>1. A = {s}
      BY <1>14, <2>1, NobodyRead
    <3>2. SlavesAre(n, {})'
      BY <1>11, NoSlaves
    <3>3. \E B : B = A \ {heap'[n].addr} /\ SlavesAre(n, B)'
      <4>1. {} = A \ {heap'[n].addr}
        BY <1>8, <3>1
      <4> QED BY <3>2, <4>1
    <3>4. heap'[n].addr \in A /\ n = nodesName'[m]
      BY <1>8, <1>12, <2>1, <3>1
    <3> QED BY <1>8, <1>9, <1>13, <3>3, <3>4, HoldsNext
  <2>2. CASE m \in DOMAIN nodesName
    <3>1. PICK v, R : v = nodesName[m] /\ R = SlavesRead(reply, m, pos)
      OBVIOUS
    <3>2. PICK C : /\ SlavesAre(v, C)
                   /\ v \in 1 .. Len(heap)
                   /\ \/ heap[v].role = "master" /\ heap[v].name = m /\ C = R
                      \/ heap[v].role = "slave" /\ heap[v].addr \in R /\ C = R \ {heap[v].addr}
      BY <1>10, <2>2, <3>1 DEF Holds
    <3>3. ASSUME NEW k \in DOMAIN heap[v].slaves
          PROVE  heap'[heap[v].slaves[k]].slaves = heap[heap[v].slaves[k]].slaves
      <4>1. heap[v].slaves[k] \in 1 .. Len(heap)
        BY <3>2 DEF SlavesAre
      <4>2. heap[v].slaves[k] # v
        BY <1>6, <1>10, <2>2, <3>1, HeldApart
      <4> QED BY <1>11, <3>1, <4>1, <4>2 DEF ListsKept
    <3>4. heap'[n].addr \notin C /\ heap'[v].slaves = Append(heap[v].slaves, n)
      BY <1>6, <1>8, <1>11, <2>2, <3>1, <3>2
    <3>5. PICK D : D = C \cup {heap'[n].addr}
      OBVIOUS
    <3>6. SlavesAre(v, D)'
      BY <1>8, <1>9, <1>11, <3>2, <3>3, <3>4, <3>5, SlaveAdded
    <3>7. /\ v \in 1 .. Len(heap') /\ heap'[v].role = heap[v].role /\ heap'[v].name = heap[v].name
          /\ heap'[v].addr = heap[v].addr
      BY <1>8, <3>2 DEF Grown
    <3>8. v = nodesName'[m]
      BY <1>12, <2>2, <3>1
    <3>9. CASE heap[v].role = "master" /\ heap[v].name = m /\ C = R
      <4>1. D = A
        BY <1>8, <1>14, <3>1, <3>5, <3>9
      <4> QED BY <1>13, <3>6, <3>7, <3>8, <3>9, <4>1, HoldsNext
    <3>10. CASE heap[v].role = "slave" /\ heap[v].addr \in R /\ C = R \ {heap[v].addr}
      <4>1. D = A \ {heap'[v].addr} /\ heap'[v].addr \in A
        <5>1. s # heap[v].addr
          BY <1>6, <3>1, <3>10
        <5> QED BY <1>8, <1>14, <3>1, <3>5, <3>7, <3>10, <5>1
      <4>2. \E B : B = A \ {heap'[v].addr} /\ SlavesAre(v, B)'
        BY <3>6, <4>1
      <4> QED BY <1>13, <3>7, <3>8, <3>10, <4>1, <4>2, HoldsNext
    <3> QED BY <3>2, <3>9, <3>10
  <2> QED BY <2>1, <2>2
<1>17. \A z \in DOMAIN nodesName' : Holds(z)'
  BY <1>12, <1>15, <1>16
<1>18. \A j \in SlaveLines(reply) : j < q => j < pos \/ j = pos
  BY <1>1, <1>2 DEF SlaveLines
<1>19. \A j \in SlaveLines(reply) : j < q => reply.elements[j].master \in DOMAIN nodesName'
  BY <1>2, <1>12, <1>18 DEF ByName, Line
<1>20. \A i \in MasterLines(reply) : i < pos => i < q
  BY <1>1, <1>2 DEF MasterLines
<1>21. ASSUME NEW a \in DOMAIN nodes
       PROVE  \E i \in MasterLines(reply) :
                 /\ i < q
                 /\ reply.elements[i].addr = a
                 /\ reply.elements[i].name \in DOMAIN nodesName'
                 /\ nodesName'[reply.elements[i].name] = nodes[a]
  BY <1>12, <1>20 DEF ByName
<1> QED BY <1>3, <1>17, <1>19, <1>21 DEF ByName

LEMMA MasterNamed ==
    ASSUME Telling, ByName, MasterLine, "ADD_SLAVE" \in flags
    PROVE  ByName'
<1>1. /\ IsHeap(heap) /\ Placed /\ reply \in Replies /\ pos \in Nat /\ DOMAIN reply.elements \subseteq Nat
      /\ WellFormed(reply)
  BY TellingFacts DEF Telling, NodesInv
<1>2. PICK n, m, x, q : n = Len(heap) + 1 /\ m = Line.name /\ x = Line.addr /\ q = pos + 1
  OBVIOUS
<1>3. /\ UNCHANGED reply /\ pos' = q /\ reply.format = "nodes"
      /\ Line.role = "master" /\ x # None
      /\ nodes' = With(nodes, x, n) /\ x \notin DOMAIN nodes
  BY <1>2 DEF MasterLine, Parsing, Useful
<1>4. pos \in DOMAIN reply.elements
  BY <1>1, ElementParsed DEF MasterLine
<1>5. pos \notin SlaveLines(reply) /\ pos \in MasterLines(reply)
  BY <1>2, <1>3, <1>4 DEF SlaveLines, MasterLines, Line
<1>6. /\ \A z, y : z # y => SlavesRead(reply, z, pos) \cap SlavesRead(reply, y, pos) = {}
      /\ \A z : SlavesRead(reply, z, q) = SlavesRead(reply, z, pos)
  BY <1>2, <1>3, <1>4, <1>5, ReadFacts
<1>7. PICK node : MadeNode(node)
  BY <1>1, MasterMade
<1>8. Grown /\ Len(heap') = n
  BY <1>1, <1>2, <1>7, MadeGrows
<1>9. n \in 1 .. Len(heap') /\ Len(heap) \in Nat
  BY <1>2, <1>8 DEF Grown
<1>10. \A z \in DOMAIN nodesName : Holds(z) /\ nodesName[z] \in 1 .. Len(heap)
  BY DEF ByName, Holds
<1>11. /\ heap'[n].name = m
       /\ heap'[n].role = "master"
       /\ m \notin DOMAIN nodesName => heap'[n].slaves = <<>>
       /\ ListsKept(m)
       /\ m \in DOMAIN nodesName =>
             /\ heap[nodesName[m]].role # "master"
             /\ heap'[n].slaves = <<nodesName[m]>> \o Reverse(heap[nodesName[m]].slaves)
             /\ heap'[nodesName[m]].slaves = <<>>
       /\ nodesName' = With(nodesName, m, n)
  BY <1>2, MasterLists DEF ListsKept
<1>12. /\ DOMAIN nodesName' = DOMAIN nodesName \cup {m}
       /\ \A z \in DOMAIN nodesName : z # m => nodesName'[z] = nodesName[z]
       /\ nodesName'[m] = n
  BY ONLY <1>11 DEF With
<1>13. PICK A : A = SlavesRead(reply', m, pos')
  OBVIOUS
<1>14. A = SlavesRead(reply, m, pos)
  BY <1>3, <1>6, <1>13
<1>15. ASSUME NEW z \in DOMAIN nodesName, z # m PROVE Holds(z)'
  <2>1. SlavesRead(reply', z, pos') = SlavesRead(reply, z, pos)
    BY <1>3, <1>6
  <2>2. nodesName'[z] = nodesName[z]
    BY <1>12, <1>15
  <2> QED BY <1>6, <1>8, <1>10, <1>11, <1>15, <2>1, <2>2, OthersHold
<1>16. SlavesAre(n, A)'
  <2>1. CASE m \notin DOMAIN nodesName
    <3>1. A = {}
      BY <1>14, <2>1, NobodyRead
    <3>2. SlavesAre(n, {})'
      BY <1>11, <2>1, NoSlaves
    <3> QED BY <3>1, <3>2
  <2>2. CASE m \in DOMAIN nodesName
    <3>1. PICK v : v = nodesName[m]
      OBVIOUS
    <3>2. PICK C : /\ SlavesAre(v, C)
                   /\ v \in 1 .. Len(heap)
                   /\ heap[v].role = "slave" /\ heap[v].addr \in A /\ C = A \ {heap[v].addr}
      BY <1>10, <1>11, <1>14, <2>2, <3>1 DEF Holds
    <3>3. ASSUME NEW k \in DOMAIN heap[v].slaves
          PROVE  heap'[heap[v].slaves[k]].slaves = heap[heap[v].slaves[k]].slaves
      <4>1. heap[v].slaves[k] \in 1 .. Len(heap)
        BY <3>2 DEF SlavesAre
      <4>2. heap[v].slaves[k] # v
        BY <1>6, <1>10, <2>2, <3>1, HeldApart
      <4> QED BY <1>11, <3>1, <4>1, <4>2 DEF ListsKept
    <3>4. heap'[n].slaves = <<v>> \o Reverse(heap[v].slaves) /\ heap'[v].slaves = <<>>
      BY <1>11, <2>2, <3>1
    <3>5. A = C \cup {heap[v].addr} /\ heap[v].addr \notin C
      BY <3>2
    <3> QED BY <1>8, <3>2, <3>3, <3>4, <3>5, MasterAdded
  <2> QED BY <2>1, <2>2
<1>17. Holds(m)'
  BY <1>9, <1>11, <1>12, <1>13, <1>16, HoldsNext
<1>18. \A z \in DOMAIN nodesName' : Holds(z)'
  BY <1>12, <1>15, <1>17
<1>19. \A j \in SlaveLines(reply) : j < q => j < pos
  <2>1. \A j \in SlaveLines(reply) : j < q => j < pos \/ j = pos
    BY <1>1, <1>2 DEF SlaveLines
  <2> QED BY <1>5, <2>1
<1>20. \A j \in SlaveLines(reply) : j < q => reply.elements[j].master \in DOMAIN nodesName'
  BY <1>12, <1>19 DEF ByName
<1>21. pos < q /\ \A i \in MasterLines(reply) : i < pos => i < q /\ i # pos
  BY <1>1, <1>2 DEF MasterLines
<1>22. ASSUME NEW a \in DOMAIN nodes'
       PROVE  \E i \in MasterLines(reply) :
                 /\ i < q
                 /\ reply.elements[i].addr = a
                 /\ reply.elements[i].name \in DOMAIN nodesName'
                 /\ nodesName'[reply.elements[i].name] = nodes'[a]
  <2>1. /\ DOMAIN nodes' = DOMAIN nodes \cup {x} /\ nodes'[x] = n
        /\ \A b \in DOMAIN nodes : nodes'[b] = nodes[b]
    BY ONLY <1>3 DEF With
  <2>2. CASE a = x
    BY <1>2, <1>5, <1>12, <1>21, <2>1, <2>2 DEF Line
  <2>3. CASE a \in DOMAIN nodes
    <3>1. PICK i \in MasterLines(reply) :
             /\ i < pos
             /\ reply.elements[i].addr = a
             /\ reply.elements[i].name \in DOMAIN nodesName
             /\ nodesName[reply.elements[i].name] = nodes[a]
      BY <2>3 DEF ByName
    <3>2. reply.elements[i].name # m
      BY <1>1, <1>2, <1>3, <1>5, <1>21, <3>1 DEF WellFormed, Line
    <3> QED BY <1>12, <1>21, <2>1, <2>3, <3>1, <3>2
  <2> QED BY <2>1, <2>2, <2>3
<1> QED BY <1>3, <1>18, <1>20, <1>22 DEF ByName

LEMMA SkipNamed ==
    ASSUME Telling, ByName, SkipLine, "ADD_SLAVE" \in flags
    PROVE  ByName'
<1>1. /\ IsHeap(heap) /\ Placed /\ pos \in Nat /\ DOMAIN reply.elements \subseteq Nat
  BY TellingFacts DEF Telling, NodesInv
<1>2. UNCHANGED <<reply, heap, nodes, nodesName>> /\ pos' = pos + 1 /\ reply.format = "nodes"
  BY DEF SkipLine, Parsing
<1>3. pos \in DOMAIN reply.elements
  BY <1>1, ElementParsed DEF SkipLine
<1>4. pos \notin SlaveLines(reply)
  BY DEF SkipLine, SlaveLines, Line
<1>5. /\ \A z, y : z # y => SlavesRead(reply, z, pos) \cap SlavesRead(reply, y, pos) = {}
      /\ \A z : SlavesRead(reply, z, pos + 1) = SlavesRead(reply, z, pos)
  BY <1>2, <1>3, <1>4, ReadFacts
<1>6. Grown
  <2>1. Len(heap) \in Nat /\ \A id \in Len(heap) + 1 .. Len(heap) : FALSE
    BY <1>1, ListFacts DEF IsHeap
  <2> QED BY <1>1, <1>2, <2>1 DEF Grown
<1>7. ASSUME NEW z \in DOMAIN nodesName PROVE Holds(z)'
  <2>1. PICK m : m # z
    <3>1. z # 0 \/ z # 1
      OBVIOUS
    <3> QED BY <3>1
  <2>2. ListsKept(m)
    BY <1>2 DEF ListsKept
  <2>3. SlavesRead(reply', z, pos') = SlavesRead(reply, z, pos)
    BY <1>2, <1>5
  <2>4. \A y \in DOMAIN nodesName : Holds(y)
    BY DEF ByName
  <2> QED BY <1>2, <1>5, <1>6, <2>1, <2>2, <2>3, <2>4, OthersHold
<1>8. \A j \in SlaveLines(reply) : j < pos + 1 => j < pos
  <2>1. \A j \in SlaveLines(reply) : j < pos + 1 => j < pos \/ j = pos
    BY <1>1 DEF SlaveLines
  <2> QED BY <1>4, <2>1
<1>9. \A i \in MasterLines(reply) : i < pos => i < pos + 1
  BY <1>1 DEF MasterLines
<1>10. \A j \in SlaveLines(reply) : j < pos + 1 => reply.elements[j].master \in DOMAIN nodesName
  BY <1>8 DEF ByName
<1>11. \A a \in DOMAIN nodes :
          \E i \in MasterLines(reply) :
             /\ i < pos + 1
             /\ reply.elements[i].addr = a
             /\ reply.elements[i].name \in DOMAIN nodesName
             /\ nodesName[reply.elements[i].name] = nodes[a]
  BY <1>9 DEF ByName
<1> QED BY <1>2, <1>7, <1>10, <1>11 DEF ByName

\* The masters that keep their slaves.
LEMMA AddressKept ==
    ASSUME ByAddress, Apart, Grown,
           \A id \in 1 .. Len(heap) : heap'[id].slaves = heap[id].slaves,
           NEW a \in DOMAIN nodes, NEW n, n = nodes[a], NEW A, A = SlavesDue(a)
    PROVE  SlavesAre(n, A)'
<1>1. n \in 1 .. Len(heap) /\ SlavesAre(n, A)
  BY DEF Apart, ByAddress
<1>2. \A k \in DOMAIN heap[n].slaves : heap[n].slaves[k] \in 1 .. Len(heap)
  BY <1>1 DEF SlavesAre
<1> QED BY <1>1, <1>2, SlavesKept

LEMMA AddressNext ==
    ASSUME UNCHANGED <<flags, reply>>,
           \A a \in DOMAIN nodes' : \A n, A : n = nodes'[a] /\ A = SlavesDue(a) => SlavesAre(n, A)'
    PROVE  ByAddress'
<1> SUFFICES ASSUME NEW a \in DOMAIN nodes' PROVE SlavesAre(nodes[a], SlavesDue(a))'
  BY DEF ByAddress
<1>1. PICK n, A : n = nodes'[a] /\ A = SlavesDue(a)
  OBVIOUS
<1>2. SlavesAre(n, A)'
  BY <1>1
<1>3. A = SlavesDue(a)'
  BY <1>1 DEF SlavesDue
<1> QED BY <1>1, <1>2, <1>3 DEF SlavesAre

\* One master more, and the others keep their slaves.
LEMMA AddressMore ==
    ASSUME ByAddress, Apart, Grown, UNCHANGED <<flags, reply>>,
           \A id \in 1 .. Len(heap) : heap'[id].slaves = heap[id].slaves,
           NEW x, x \notin DOMAIN nodes, NEW n, nodes' = With(nodes, x, n),
           NEW A, A = SlavesDue(x), SlavesAre(n, A)'
    PROVE  ByAddress'
<1>1. /\ DOMAIN nodes' = DOMAIN nodes \cup {x} /\ nodes'[x] = n
      /\ \A b \in DOMAIN nodes : nodes'[b] = nodes[b]
  <2>1. nodes' = With(nodes, x, n) /\ x \notin DOMAIN nodes
    OBVIOUS
  <2> QED BY ONLY <2>1 DEF With
<1>2. ASSUME NEW a \in DOMAIN nodes', NEW v, NEW B, v = nodes'[a], B = SlavesDue(a)
      PROVE  SlavesAre(v, B)'
  <2>1. CASE a = x
    BY <1>1, <1>2, <2>1
  <2>2. CASE a \in DOMAIN nodes
    BY <1>1, <1>2, <2>2, AddressKept
  <2> QED BY <1>1, <2>1, <2>2
<1> QED BY <1>2, AddressNext

\* The same masters with the same slaves.
LEMMA AddressSame ==
    ASSUME ByAddress, Apart, Grown, UNCHANGED <<flags, reply, nodes>>,
           \A id \in 1 .. Len(heap) : heap'[id].slaves = heap[id].slaves
    PROVE  ByAddress'
<1>1. ASSUME NEW a \in DOMAIN nodes', NEW v, NEW B, v = nodes'[a], B = SlavesDue(a)
      PROVE  SlavesAre(v, B)'
  BY <1>1, AddressKept
<1> QED BY <1>1, AddressNext

LEMMA NewAddress ==
    ASSUME Telling, ByAddress, NewMaster
    PROVE  ByAddress'
<1>1. /\ IsHeap(heap) /\ Apart /\ Placed /\ reply \in Replies /\ Described /\ WellFormed(reply)
  BY TellingFacts DEF Telling, NodesInv
<1>2. PICK x, n, list : x = Hosts[1].addr /\ n = Len(heap) + 1 /\ list = [k \in 1 .. NewSlaves |-> n + k]
  OBVIOUS
<1>3. /\ UNCHANGED <<flags, reply>> /\ reply.format = "slots" /\ x \notin DOMAIN nodes
      /\ nodes' = With(nodes, x, n)
  BY <1>2 DEF NewMaster, Parsing, Known
<1>4. pos \in DOMAIN reply.elements /\ IsList(Hosts)
  BY <1>1, <1>3, ElementParsed DEF NewMaster
<1>5. /\ Grown /\ NewSlaves \in Nat /\ Len(heap') = n + NewSlaves
      /\ \A id \in 1 .. Len(heap) : heap'[id].slaves = heap[id].slaves
      /\ heap'[n].slaves = list
      /\ \A k \in 1 .. NewSlaves :
            /\ heap'[n + k].addr = Hosts[k + 1].addr
            /\ heap'[n + k].role = "slave"
            /\ heap'[n + k].slaves = <<>>
  BY <1>1, <1>2, <1>4, NewMasterMade
<1>6. PICK w \in Nat : w = NewSlaves
  BY <1>5
<1>7. n \in Nat /\ Len(heap') = n + w
  BY <1>2, <1>5, <1>6 DEF Grown
<1>8. /\ DOMAIN list = 1 .. w /\ IsList(list)
      /\ \A k \in 1 .. w : list[k] = n + k
  <2>1. list = [k \in 1 .. w |-> n + k]
    BY <1>2, <1>6
  <2>2. DOMAIN list = 1 .. w /\ list = [k \in 1 .. w |-> list[k]] /\ \A k \in 1 .. w : list[k] = n + k
    BY <2>1
  <2> QED BY <2>2, FunctionList
<1>9. PICK A : A = SlavesDue(x)
  OBVIOUS
<1>10. /\ Len(Hosts) \in Nat /\ DOMAIN Hosts = 1 .. Len(Hosts) /\ Len(Hosts) # 0
  <2>1. Len(Hosts) \in Nat /\ DOMAIN Hosts = 1 .. Len(Hosts) /\ Hosts \in Seq(Range(Hosts)) /\ Hosts # <<>>
    BY <1>4, ListFacts DEF IsList, NewMaster
  <2>2. Len(Hosts) # 0
    BY <2>1, EmptyList
  <2> QED BY <2>1, <2>2
<1>11. /\ \A k, j \in DOMAIN Hosts \ {1} : k # j => Hosts[k].addr # Hosts[j].addr
       /\ {y \in DOMAIN reply.cluster.slaveOf : reply.cluster.slaveOf[y] = x}
             = {Hosts[k].addr : k \in DOMAIN Hosts \ {1}}
  <2>1. SlavesClaim(reply)
    BY <1>1, DescribedAssumption DEF Described
  <2> QED BY <1>2, <1>3, <1>4, <2>1 DEF SlavesClaim, Hosts, Region
<1>12. /\ \A k \in 1 .. w : Hosts[k + 1].addr \in A
       /\ \A k, j \in 1 .. w : k # j => Hosts[k + 1].addr # Hosts[j + 1].addr
       /\ \A y \in A : \E k \in 1 .. w : Hosts[k + 1].addr = y
  <2>1. CASE "ADD_SLAVE" \in flags
    <3>1. w = Len(Hosts) - 1
      BY <1>6, <2>1 DEF NewSlaves
    <3>2. A = {Hosts[k].addr : k \in DOMAIN Hosts \ {1}}
      BY <1>9, <1>11, <2>1 DEF SlavesDue
    <3>3. \A k \in 1 .. w : k + 1 \in DOMAIN Hosts \ {1}
      BY <1>10, <3>1
    <3>4. \A k \in DOMAIN Hosts \ {1} : k - 1 \in 1 .. w /\ (k - 1) + 1 = k
      BY <1>10, <3>1
    <3>5. \A k, j \in 1 .. w : k # j => k + 1 # j + 1
      OBVIOUS
    <3>6. ASSUME NEW y \in A PROVE \E k \in 1 .. w : Hosts[k + 1].addr = y
      <4>1. PICK k \in DOMAIN Hosts \ {1} : Hosts[k].addr = y
        BY <3>2
      <4>2. PICK j : j = k - 1
        OBVIOUS
      <4>3. j \in 1 .. w /\ j + 1 = k
        BY <3>4, <4>2
      <4> QED BY <4>1, <4>3
    <3> QED BY <1>11, <3>2, <3>3, <3>5, <3>6
  <2>2. CASE "ADD_SLAVE" \notin flags
    <3>1. w = 0 /\ A = {}
      BY <1>6, <1>9, <2>2 DEF NewSlaves, SlavesDue
    <3>2. \A k \in 1 .. w : FALSE
      BY <3>1
    <3> QED BY <3>1, <3>2
  <2> QED BY <2>1, <2>2
<1>13. \A k \in 1 .. w : n + k \in 1 .. n + w
  BY <1>7
<1>14. PICK new : new = [k \in 1 .. w |-> Hosts[k + 1].addr]
  OBVIOUS
<1>15. /\ \A k \in 1 .. w : new[k] \in A
       /\ \A k, j \in 1 .. w : k # j => new[k] # new[j]
       /\ \A y \in A : \E k \in 1 .. w : new[k] = y
  BY <1>12, <1>14
<1>16. ASSUME NEW k \in 1 .. w
       PROVE  /\ list[k] \in 1 .. Len(heap')
              /\ heap'[list[k]].role = "slave"
              /\ heap'[list[k]].slaves = <<>>
              /\ heap'[list[k]].addr = new[k]
  BY <1>5, <1>6, <1>7, <1>8, <1>13, <1>14
<1>17. SlavesAre(n, A)'
  <2>1. list = heap'[n].slaves
    BY <1>5
  <2>2. \A k \in DOMAIN list :
           /\ list[k] \in 1 .. Len(heap')
           /\ heap'[list[k]].role = "slave"
           /\ heap'[list[k]].slaves = <<>>
           /\ heap'[list[k]].addr \in A
    BY ONLY <1>8, <1>15, <1>16
  <2>3. \A k, j \in DOMAIN list : k # j => heap'[list[k]].addr # heap'[list[j]].addr
    BY ONLY <1>8, <1>15, <1>16
  <2>4. \A y \in A : \E k \in DOMAIN list : heap'[list[k]].addr = y
    BY ONLY <1>8, <1>15, <1>16
  <2> QED BY ONLY <1>8, <2>1, <2>2, <2>3, <2>4 DEF SlavesAre
<1> QED BY <1>1, <1>3, <1>5, <1>9, <1>17, AddressMore

LEMMA AddressStep ==
    ASSUME Telling, ByAddress, ParserStep, ~(reply.format = "nodes" /\ "ADD_SLAVE" \in flags)
    PROVE  ByAddress'
<1>1. IsHeap(heap) /\ Apart /\ UNCHANGED <<flags, reply>> /\ Grown
  BY TellingFacts, ParserGrows DEF Telling
<1>2. CASE SkipLine
  BY <1>1, <1>2, AddressSame DEF SkipLine
<1>3. CASE MasterLine
  <2>1. PICK n, x : n = Len(heap) + 1 /\ x = Line.addr
    OBVIOUS
  <2>2. x \notin DOMAIN nodes /\ nodes' = With(nodes, x, n) /\ "ADD_SLAVE" \notin flags
    BY <1>3, <2>1 DEF MasterLine, Parsing
  <2>3. /\ heap'[n].slaves = <<>>
        /\ \A id \in 1 .. Len(heap) : heap'[id].slaves = heap[id].slaves
    BY <1>3, <2>1, <2>2, MasterLists
  <2>4. SlavesAre(n, {})' /\ {} = SlavesDue(x)
    BY <2>2, <2>3, NoSlaves DEF SlavesDue
  <2>5. PICK A : A = {}
    OBVIOUS
  <2>6. SlavesAre(n, A)' /\ A = SlavesDue(x)
    BY <2>4, <2>5
  <2> QED BY <1>1, <2>2, <2>3, <2>6, AddressMore
<1>4. CASE SlaveLine
  BY <1>4 DEF SlaveLine, Useful, Parsing
<1>5. CASE KnownMaster
  <2>1. nodes[Hosts[1].addr] \in 1 .. Len(heap)
    BY <1>1, <1>5 DEF KnownMaster, Known, Apart
  <2>2. \A id \in 1 .. Len(heap) : heap'[id].slaves = heap[id].slaves
    BY <1>1, <1>5, <2>1, KnownGrows
  <2>3. nodes' = nodes
    BY <1>5 DEF KnownMaster
  <2> QED BY <1>1, <2>2, <2>3, AddressSame
<1>6. CASE NewMaster
  BY <1>6, NewAddress
<1> QED BY <1>2, <1>3, <1>4, <1>5, <1>6 DEF ParserStep

\* When a route is taken, its masters have the slaves they are to have.
LEMMA SlavesDone ==
    ASSUME Telling, SlavesInv, TakeRoute, NEW a \in DOMAIN nodes
    PROVE  SlavesAre(nodes[a], SlavesDue(a))
<1>1. /\ Apart /\ reply \in Replies /\ Described /\ pc = "parse"
      /\ DOMAIN reply.elements = 1 .. Len(reply.elements) /\ Len(reply.elements) \in Nat /\ pos \in Nat
  BY TellingFacts DEF Telling
<1>2. CASE reply.format = "nodes" /\ "ADD_SLAVE" \in flags
  <2>1. ByName
    BY <1>1, <1>2 DEF SlavesInv
  <2>2. PICK i \in MasterLines(reply) :
           /\ reply.elements[i].addr = a
           /\ reply.elements[i].name \in DOMAIN nodesName
           /\ nodesName[reply.elements[i].name] = nodes[a]
    BY <2>1 DEF ByName
  <2>3. PICK m : m = reply.elements[i].name
    OBVIOUS
  <2>4. Holds(m) /\ nodesName[m] = nodes[a]
    BY <2>1, <2>2, <2>3 DEF ByName
  <2>5. heap[nodes[a]].role = "master"
    BY <1>1 DEF Apart
  <2>6. SlavesAre(nodes[a], SlavesRead(reply, m, pos))
    BY <2>4, <2>5 DEF Holds
  <2>7. \A j \in SlaveLines(reply) : j < pos
    <3>1. pos > Len(reply.elements)
      BY DEF TakeRoute, Parsed
    <3> QED BY <1>1, <3>1 DEF SlaveLines
  <2>8. SlavesRead(reply, m, pos) =
          {reply.elements[j].addr : j \in {j \in SlaveLines(reply) : reply.elements[j].master = m}}
    BY <2>7 DEF SlavesRead
  <2>9. SlavesClaim(reply)
    BY <1>1, DescribedAssumption DEF Described
  <2>10. SlavesRead(reply, m, pos) = SlavesDue(a)
    BY <1>2, <2>2, <2>3, <2>8, <2>9 DEF SlavesClaim, SlavesDue
  <2> QED BY <2>6, <2>10
<1>3. CASE ~(reply.format = "nodes" /\ "ADD_SLAVE" \in flags)
  BY SMTT(30), <1>1, <1>3 DEF SlavesInv, ByAddress
<1> QED BY <1>2, <1>3

LEMMA SlavesTaken ==
    ASSUME Telling, SlavesInv, TakeRoute
    PROVE  SlavesOfMasters'
<1>1. IsHeap(heap) /\ Apart
  BY TellingFacts
<1>2. heap' = Swapped(heap, cc.nodes, nodes) /\ cc'.nodes = nodes /\ UNCHANGED <<flags, reply>>
  BY DEF TakeRoute
<1>3. \A id \in 1 .. Len(heap) : heap'[id].addr = heap[id].addr /\ heap'[id].slaves = heap[id].slaves
  BY <1>1, <1>2, SwapFacts
<1>4. ASSUME NEW a \in DOMAIN cc'.nodes
      PROVE  LET list == heap'[cc'.nodes[a]].slaves
                 addrs == {heap'[list[k]].addr : k \in DOMAIN list}
             IN  /\ Cardinality(addrs) = Len(list)
                 /\ addrs = IF "ADD_SLAVE" \in flags'
                            THEN {x \in DOMAIN reply'.cluster.slaveOf : reply'.cluster.slaveOf[x] = a}
                            ELSE {}
                 /\ \A k \in DOMAIN list : heap'[list[k]].slaves = <<>>
  <2> DEFINE L == heap'[cc'.nodes[a]].slaves
             M == {heap'[L[k]].addr : k \in DOMAIN L}
  <2>0. PICK list, addrs, A : list = L /\ addrs = M /\ A = SlavesDue(a)
    OBVIOUS
  <2>1. nodes[a] \in 1 .. Len(heap) /\ SlavesAre(nodes[a], A)
    BY <1>1, <1>2, <2>0, SlavesDone DEF Apart
  <2>2. list = heap[nodes[a]].slaves
    BY <1>2, <1>3, <2>0, <2>1
  <2>3. /\ IsList(list)
        /\ \A k \in DOMAIN list :
              /\ list[k] \in 1 .. Len(heap)
              /\ heap[list[k]].slaves = <<>>
              /\ heap[list[k]].addr \in A
        /\ \A k, j \in DOMAIN list : k # j => heap[list[k]].addr # heap[list[j]].addr
        /\ \A x \in A : \E k \in DOMAIN list : heap[list[k]].addr = x
    BY <2>1, <2>2 DEF SlavesAre
  <2>4. ASSUME NEW k \in DOMAIN list
        PROVE  heap'[list[k]].addr = heap[list[k]].addr /\ heap'[list[k]].slaves = <<>>
    BY <1>3, <2>3
  <2>5. addrs = A
    <3>1. addrs = {heap'[list[k]].addr : k \in DOMAIN list}
      <4>1. list = L /\ addrs = {heap'[L[k]].addr : k \in DOMAIN L}
        BY <2>0
      <4> HIDE DEF L
      <4> QED BY ONLY <4>1
    <3> QED BY ONLY <2>3, <2>4, <3>1
  <2>6. PICK q \in Nat : q = Len(list)
    BY <2>3, ListFacts
  <2>7. DOMAIN list = 1 .. q
    BY <2>3, <2>6, ListFacts
  <2>8. PICK f : f = [k \in 1 .. q |-> heap[list[k]].addr]
    OBVIOUS
  <2>9. f \in Bijection(1 .. q, A)
    <3>1. f \in [1 .. q -> A]
      BY <2>3, <2>7, <2>8
    <3>2. IsInjective(f)
      BY <2>3, <2>7, <2>8 DEF IsInjective
    <3>3. \A x \in A : \E k \in 1 .. q : f[k] = x
      BY <2>3, <2>7, <2>8
    <3> QED BY <3>1, <3>2, <3>3 DEF Bijection, Injection, Surjection
  <2>10. Cardinality(A) = q
    <3>1. IsFiniteSet(1 .. q) /\ Cardinality(1 .. q) = q
      <4>1. 1 \in Int /\ q \in Int /\ q = IF 1 > q THEN 0 ELSE q - 1 + 1
        OBVIOUS
      <4> QED BY ONLY <4>1, FS_Interval
    <3>2. ExistsBijection(1 .. q, A)
      BY <2>9 DEF ExistsBijection
    <3> QED BY <3>1, <3>2, FS_Bijection
  <2>11. A = IF "ADD_SLAVE" \in flags'
             THEN {x \in DOMAIN reply'.cluster.slaveOf : reply'.cluster.slaveOf[x] = a}
             ELSE {}
    BY <1>2, <2>0 DEF SlavesDue
  <2>12. Cardinality(M) = Len(L) /\ M = A /\ \A k \in DOMAIN L : heap'[L[k]].slaves = <<>>
    <3>1. Cardinality(addrs) = Len(list) /\ addrs = A /\ \A k \in DOMAIN list : heap'[list[k]].slaves = <<>>
      BY <2>4, <2>5, <2>6, <2>10
    <3> HIDE DEF L, M
    <3> QED BY <2>0, <3>1
  <2> QED BY ONLY <2>11, <2>12
<1> QED BY <1>4 DEF SlavesOfMasters

LEMMA SlavesInit == Init => SlavesInv
<1> SUFFICES ASSUME Init PROVE SlavesInv
  OBVIOUS
<1>1. pc = "parse" /\ nodes = <<>> /\ nodesName = <<>> /\ pos = 1 /\ reply \in Replies
  BY DEF Init
<1>2. DOMAIN nodes = {} /\ DOMAIN nodesName = {}
  BY <1>1
<1>3. \A j \in SlaveLines(reply) : ~(j < pos)
  <2>1. Len(reply.elements) \in Nat /\ DOMAIN reply.elements = 1 .. Len(reply.elements)
    BY <1>1, RepliesAssumption, ListFacts
  <2> QED BY <1>1, <2>1 DEF SlaveLines
<1> QED BY <1>1, <1>2, <1>3 DEF SlavesInv, ByName, ByAddress, SlavesOfMasters

LEMMA SlavesStep == NodesInv /\ RouteInv /\ SlavesInv /\ [Next]_vars => SlavesInv'
<1> SUFFICES ASSUME NodesInv, RouteInv, SlavesInv, [Next]_vars PROVE SlavesInv'
  OBVIOUS
<1>1. CASE UNCHANGED vars
  <2>1. UNCHANGED <<flags, reply, pc, pos, heap, nodes, nodesName, cc>>
    BY <1>1 DEF vars
  <2>2. SlavesOfMasters' <=> SlavesOfMasters
    BY ONLY <2>1 DEF SlavesOfMasters, Described
  <2>3. ASSUME ByAddress PROVE ByAddress'
    <3>1. ASSUME NEW a \in DOMAIN nodes', NEW n, NEW A, n = nodes'[a], A = SlavesDue(a)
          PROVE  SlavesAre(n, A)'
      <4>1. SlavesAre(n, A)
        BY SMTT(30), <2>1, <2>3, <3>1 DEF ByAddress
      <4> QED BY ONLY <2>1, <4>1 DEF SlavesAre
    <3> QED BY <2>1, <3>1, AddressNext
  <2>4. ByName => ByName'
    <3>1. \A m : Holds(m)' <=> Holds(m)
      BY ONLY <2>1 DEF Holds, SlavesAre, SlavesRead, SlaveLines
    <3> QED BY ONLY <2>1, <3>1 DEF ByName
  <2> QED BY <2>1, <2>2, <2>3, <2>4 DEF SlavesInv, Described
<1>2. CASE Next
  <2>1. pc = "parse" /\ reply' = reply
    BY <1>2 DEF Next, SkipLine, BadLine, MasterLine, SlaveLine, BadRegion, KnownMaster, NewMaster,
                NoRegions, RefuseRoute, TakeRoute, Parsing, Parsed, ParserFails
  <2>2. CASE ~Described
    BY <2>1, <2>2 DEF SlavesInv, SlavesOfMasters, Described
  <2>3. CASE Described /\ ParserStep
    <3>1. Telling
      BY <2>1, <2>3 DEF Telling
    <3>2. flags' = flags /\ pc' = "parse"
      BY <2>3, <3>1, SkipTells, MasterTells, SlaveTells, KnownTells, NewTells, ParserGrows DEF ParserStep
    <3>3. CASE reply.format = "nodes" /\ "ADD_SLAVE" \in flags
      <4>1. ByName
        BY <2>1, <2>3, <3>3 DEF SlavesInv
      <4>2. ~KnownMaster /\ ~NewMaster
        BY <3>3 DEF KnownMaster, NewMaster, Parsing
      <4>3. ByName'
        BY <2>3, <3>1, <3>3, <4>1, <4>2, SkipNamed, MasterNamed, SlaveNamed DEF ParserStep
      <4> QED BY <2>1, <3>2, <3>3, <4>3 DEF SlavesInv, SlavesOfMasters
    <3>4. CASE ~(reply.format = "nodes" /\ "ADD_SLAVE" \in flags)
      <4>1. ByAddress
        BY <2>1, <2>3, <3>4 DEF SlavesInv
      <4>2. ByAddress'
        BY <2>3, <3>1, <3>4, <4>1, AddressStep
      <4> QED BY <2>1, <3>2, <3>4, <4>2 DEF SlavesInv, SlavesOfMasters
    <3> QED BY <3>3, <3>4
  <2>4. CASE RefusalStep
    <3>1. pc' \in {"refused", "undefined"}
      BY <2>4 DEF RefusalStep, BadLine, BadRegion, NoRegions, RefuseRoute, ParserFails
    <3> QED BY <3>1 DEF SlavesInv, SlavesOfMasters
  <2>5. CASE Described /\ TakeRoute
    <3>1. Telling
      BY <2>1, <2>5 DEF Telling
    <3>2. pc' = "taken"
      BY <2>5 DEF TakeRoute
    <3>3. SlavesOfMasters'
      BY <2>5, <3>1, SlavesTaken
    <3> QED BY <3>2, <3>3 DEF SlavesInv
  <2> QED BY <1>2, <2>2, <2>3, <2>4, <2>5 DEF Next, ParserStep, RefusalStep
<1> QED BY <1>1, <1>2

\* When a route is taken, every master has exactly its slaves, each once, whichever
\* of them was read first, for every cluster and every order of the lines
\* (cluster_master_slave_mapping_with_name and the loop over the hosts of a region).
THEOREM SlavesAreMapped == Spec => []SlavesOfMasters
<1>1. SlavesInv => SlavesOfMasters
  BY DEF SlavesInv
<1>2. Spec => []RouteInv
  BY NodesInvariant, RouteInit, RouteStep, PTL DEF Spec
<1>3. Spec => []SlavesInv
  BY <1>2, NodesInvariant, SlavesInit, SlavesStep, PTL DEF Spec
<1> QED BY <1>1, <1>3, PTL

-----------------------------------------------------------------------------
(* The ranges in order. *)

\* Ranges of slots that do not share a slot.
IsRanges(R) ==
    /\ \A r \in R : r.start \in SlotNums /\ r.end \in SlotNums /\ r.start <= r.end
    /\ \A q, r \in R : q # r => q.end < r.start \/ r.end < q.start

\* How many of the ranges R are before r.
Rank(R, r) == Cardinality({q \in R : q.start < r.start})

LEMMA SlotFacts == SlotNums \subseteq Nat /\ IsFiniteSet(SlotNums)
<1>1. 0 \in Int /\ REDIS_CLUSTER_SLOTS - 1 \in Int
  BY RoutesAssumption
<1>2. IsFiniteSet(0 .. REDIS_CLUSTER_SLOTS - 1)
  BY <1>1, FS_Interval
<1> QED BY <1>2, RoutesAssumption DEF SlotNums

\* No two ranges have the same start, so there are finitely many.
LEMMA RangesFinite ==
    ASSUME NEW R, IsRanges(R)
    PROVE  /\ IsFiniteSet(R)
           /\ Cardinality(R) \in Nat
           /\ \A r \in R : r.start \in Nat /\ r.end \in Nat /\ r.start <= r.end
           /\ \A q, r \in R : q.start = r.start => q = r
<1>1. \A r \in R : r.start \in Nat /\ r.end \in Nat /\ r.start <= r.end
  BY SlotFacts DEF IsRanges
<1>2. ASSUME NEW q \in R, NEW r \in R, q.start = r.start PROVE q = r
  <2>1. q = r \/ q.end < r.start \/ r.end < q.start
    BY DEF IsRanges
  <2>2. PICK a, b, c \in Nat : a = q.start /\ b = q.end /\ c = r.end
    BY <1>1
  <2> QED BY <1>1, <1>2, <2>1, <2>2
<1> DEFINE f == [r \in R |-> r.start]
<1>3. f \in [R -> SlotNums]
  BY DEF IsRanges
<1>4. \A q, r \in R : f[q] = f[r] => q = r
  BY <1>2
<1> HIDE DEF f
<1>5. f \in Injection(R, SlotNums)
  BY <1>3, <1>4 DEF Injection, IsInjective
<1>6. IsFiniteSet(R)
  BY <1>5, SlotFacts, FS_Injection
<1> QED BY <1>1, <1>2, <1>6, FS_CardinalityType

\* A range that starts later has more ranges before it.
LEMMA RankFacts ==
    ASSUME NEW R, IsRanges(R), NEW r \in R
    PROVE  /\ Rank(R, r) \in Nat
           /\ Rank(R, r) < Cardinality(R)
           /\ \A q \in R : q.start < r.start => Rank(R, q) < Rank(R, r)
<1> DEFINE B(x) == {q \in R : q.start < x.start}
<1>1. /\ IsFiniteSet(R) /\ Cardinality(R) \in Nat
      /\ \A q \in R : q.start \in Nat
  BY RangesFinite
<1>2. ASSUME NEW x PROVE IsFiniteSet(B(x)) /\ Cardinality(B(x)) \in Nat
  <2>1. B(x) \in SUBSET R
    OBVIOUS
  <2> HIDE DEF B
  <2>2. IsFiniteSet(B(x))
    BY <1>1, <2>1, FS_Subset
  <2> QED BY <2>2, FS_CardinalityType
<1>3. Cardinality(B(r)) < Cardinality(R)
  <2>1. B(r) \in SUBSET R /\ B(r) # R
    BY <1>1
  <2> HIDE DEF B
  <2>2. Cardinality(B(r)) <= Cardinality(R) /\ Cardinality(R) # Cardinality(B(r))
    BY <1>1, <2>1, FS_Subset
  <2> QED BY <1>1, <1>2, <2>2
<1>4. ASSUME NEW q \in R, q.start < r.start PROVE Cardinality(B(q)) < Cardinality(B(r))
  <2>1. B(q) \in SUBSET B(r) /\ q \in B(r) /\ q \notin B(q)
    BY <1>1, <1>4
  <2>2. B(q) # B(r)
    BY <2>1
  <2> HIDE DEF B
  <2>3. Cardinality(B(q)) <= Cardinality(B(r)) /\ Cardinality(B(r)) # Cardinality(B(q))
    BY <1>2, <2>1, <2>2, FS_Subset
  <2> QED BY <1>2, <2>3
<1> QED BY <1>2, <1>3, <1>4 DEF Rank

\* What the search relies on: a list of ranges that follow each other.
Consecutive(slots) ==
    /\ IsList(slots)
    /\ \A j \in 1 .. Len(slots) :
          slots[j].start \in Nat /\ slots[j].end \in Nat /\ slots[j].start <= slots[j].end
    /\ \A i, j \in 1 .. Len(slots) : i < j => slots[i].end < slots[j].start

\* The order of cluster_slot_start_cmp puts every range at one place.
LEMMA InOrderFacts ==
    ASSUME NEW R, IsRanges(R)
    PROVE  /\ Consecutive(InOrder(R))
           /\ \A j \in 1 .. Len(InOrder(R)) : InOrder(R)[j] \in R
           /\ \A r \in R : \E j \in 1 .. Len(InOrder(R)) : InOrder(R)[j] = r
<1> DEFINE n == Cardinality(R)
           s == InOrder(R)
           f == [r \in R |-> Rank(R, r)]
<1>1. /\ IsFiniteSet(R) /\ n \in Nat
      /\ \A r \in R : r.start \in Nat /\ r.end \in Nat /\ r.start <= r.end
      /\ \A q, r \in R : q.start = r.start => q = r
  BY RangesFinite
<1>2. \A r \in R : Rank(R, r) \in Nat /\ Rank(R, r) < n
  BY RankFacts
<1>3. \A q, r \in R : q.start < r.start => Rank(R, q) < Rank(R, r)
  BY RankFacts
<1>4. ASSUME NEW q \in R, NEW r \in R, Rank(R, q) = Rank(R, r) PROVE q = r
  <2>1. ~(q.start < r.start) /\ ~(r.start < q.start)
    BY <1>2, <1>3, <1>4
  <2> QED BY <1>1, <2>1
<1>5. f \in Surjection(R, 0 .. n - 1)
  <2> HIDE DEF n
  <2>1. f \in [R -> 0 .. n - 1]
    BY <1>1, <1>2
  <2>2. \A q, r \in R : f[q] = f[r] => q = r
    BY <1>4
  <2> HIDE DEF f
  <2>3. f \in Injection(R, 0 .. n - 1)
    BY <2>1, <2>2 DEF Injection, IsInjective
  <2>4. 0 \in Int /\ n - 1 \in Int /\ n = IF 0 > n - 1 THEN 0 ELSE n - 1 - 0 + 1
    BY <1>1
  <2>5. IsFiniteSet(0 .. n - 1) /\ Cardinality(0 .. n - 1) = n
    BY <2>4, FS_Interval
  <2> QED BY <2>3, <2>5, FS_Injection DEF n
<1>6. ASSUME NEW j \in 1 .. n PROVE \E r \in R : Rank(R, r) = j - 1
  <2>1. j - 1 \in 0 .. n - 1
    BY <1>1
  <2> QED BY <1>5, <2>1 DEF Surjection
<1>7. DOMAIN s = 1 .. n /\ s = [i \in 1 .. n |-> s[i]]
  <2> DEFINE e(j) == CHOOSE r \in R : Cardinality({q \in R : q.start < r.start}) = j - 1
  <2>1. s = [j \in 1 .. n |-> e(j)]
    BY DEF InOrder
  <2> HIDE DEF e, s, n
  <2> QED BY <2>1
<1>8. ASSUME NEW j \in 1 .. n PROVE s[j] \in R /\ Rank(R, s[j]) = j - 1
  <2>1. s[j] = CHOOSE r \in R : Rank(R, r) = j - 1
    BY DEF InOrder, Rank
  <2> QED BY <1>6, <2>1
<1> HIDE DEF s, n, f
<1>9. IsList(s) /\ Len(s) = n
  BY <1>1, <1>7, FunctionList
<1>10. ASSUME NEW i \in 1 .. n, NEW j \in 1 .. n, i < j PROVE s[i].end < s[j].start
  <2>1. s[i] \in R /\ s[j] \in R /\ Rank(R, s[i]) = i - 1 /\ Rank(R, s[j]) = j - 1
    BY <1>8
  <2>2. PICK q, r \in R : q = s[i] /\ r = s[j]
    BY <2>1
  <2>3. Rank(R, q) < Rank(R, r)
    BY <1>1, <1>10, <2>1, <2>2
  <2>4. q # r /\ ~(r.start < q.start)
    <3>1. Rank(R, q) \in Nat /\ Rank(R, r) \in Nat
      BY <1>2
    <3>2. ~(Rank(R, r) < Rank(R, q)) /\ Rank(R, q) # Rank(R, r)
      BY <2>3, <3>1
    <3> QED BY <1>3, <3>2
  <2>5. q.end < r.start \/ r.end < q.start
    BY <2>4 DEF IsRanges
  <2>6. PICK a, b, c, d \in Nat : a = q.start /\ b = q.end /\ c = r.start /\ d = r.end
    BY <1>1
  <2>7. a <= b /\ c <= d
    BY <1>1, <2>6
  <2> QED BY <2>2, <2>4, <2>5, <2>6, <2>7
<1>11. ASSUME NEW r \in R PROVE \E j \in 1 .. n : s[j] = r
  <2>1. PICK k \in Nat : k = Rank(R, r) /\ k < n
    BY <1>2
  <2>2. k + 1 \in 1 .. n
    BY <1>1, <2>1
  <2>3. s[k + 1] \in R /\ Rank(R, s[k + 1]) = k
    BY <1>8, <2>1, <2>2
  <2> QED BY <1>4, <2>1, <2>2, <2>3
<1> QED BY <1>1, <1>8, <1>9, <1>10, <1>11 DEF Consecutive, s

\* The table has a range's node at each of its slots.
LEMMA TableFacts ==
    ASSUME NEW R, IsRanges(R), NEW s \in SlotNums
    PROVE  /\ \A r \in R : s \in r.start .. r.end => TableOf(R)[s] = r.node
           /\ (\A r \in R : s \notin r.start .. r.end) => TableOf(R)[s] = None
<1>1. s \in Nat /\ \A r \in R : r.start \in Nat /\ r.end \in Nat
  BY SlotFacts, RangesFinite
<1>2. ASSUME NEW r \in R, s \in r.start .. r.end PROVE TableOf(R)[s] = r.node
  <2>1. PICK q \in R : s \in q.start .. q.end /\ TableOf(R)[s] = q.node
    BY <1>2 DEF TableOf
  <2>2. q = r \/ q.end < r.start \/ r.end < q.start
    BY DEF IsRanges
  <2>3. PICK a, b, c, d \in Nat : a = q.start /\ b = q.end /\ c = r.start /\ d = r.end
    BY <1>1
  <2> QED BY <1>1, <1>2, <2>1, <2>2, <2>3
<1>3. ASSUME \A r \in R : s \notin r.start .. r.end PROVE TableOf(R)[s] = None
  BY <1>3 DEF TableOf
<1> QED BY <1>2, <1>3

\* The order and the table of the same ranges.
LEMMA OrderAndTable ==
    ASSUME NEW R, IsRanges(R), NEW slots, slots = InOrder(R), NEW table, table = TableOf(R),
           NEW s \in SlotNums
    PROVE  /\ \A j \in DOMAIN slots : s \in slots[j].start .. slots[j].end => table[s] = slots[j].node
           /\ table[s] # None => \E j \in DOMAIN slots : s \in slots[j].start .. slots[j].end
<1>1. /\ Consecutive(slots)
      /\ \A j \in 1 .. Len(slots) : slots[j] \in R
      /\ \A r \in R : \E j \in 1 .. Len(slots) : slots[j] = r
  BY InOrderFacts
<1>2. DOMAIN slots = 1 .. Len(slots)
  BY <1>1, ListFacts DEF Consecutive
<1>3. /\ \A r \in R : s \in r.start .. r.end => table[s] = r.node
      /\ (\A r \in R : s \notin r.start .. r.end) => table[s] = None
  BY TableFacts
<1> QED BY <1>1, <1>2, <1>3

-----------------------------------------------------------------------------
(* The types of what is built, and the ranges of the route. *)

OpenSlot == [slot_num : Nat, remote_name : STRING]

\* A node among n.
NodeOK(node, n) ==
    /\ IsList(node.slaves)
    /\ \A k \in 1 .. Len(node.slaves) : node.slaves[k] \in 1 .. n
    /\ \A k \in DOMAIN node.slots : node.slots[k] \in [start : Nat, end : Nat]
    /\ \A k \in DOMAIN node.migrating : node.migrating[k] \in OpenSlot
    /\ \A k \in DOMAIN node.importing : node.importing[k] \in OpenSlot

HeapOK(hp) == IsHeap(hp) /\ \A id \in 1 .. Len(hp) : NodeOK(hp[id], Len(hp))

\* The order and the table of the context are of the same ranges, of nodes that were made.
RouteOK(c, n) ==
    IF c.route_version > 0
    THEN \E R : /\ IsRanges(R)
                /\ c.slots = InOrder(R)
                /\ c.table = TableOf(R)
                /\ \A r \in R : r.node \in 1 .. n
    ELSE c.slots = <<>> /\ c.table = [s \in SlotNums |-> None]

\* The nodes that a dict refers to.
DictOK(dict, n) == \A x \in DOMAIN dict : dict[x] \in 1 .. n

RangesInv ==
    /\ HeapOK(heap)
    /\ DictOK(nodes, Len(heap))
    /\ DictOK(nodesName, Len(heap))
    /\ DictOK(cc.nodes, Len(heap))
    /\ pc = "parse" => Listed
    /\ RouteOK(cc, Len(heap))
    /\ cc.route_version \in Nat

\* More nodes make nothing wrong.
LEMMA MoreNodes ==
    ASSUME NEW n \in Nat, NEW p \in Nat, n <= p
    PROVE  /\ \A node : NodeOK(node, n) => NodeOK(node, p)
           /\ \A dict : DictOK(dict, n) => DictOK(dict, p)
           /\ \A c : RouteOK(c, n) => RouteOK(c, p)
<1>1. \A i \in 1 .. n : i \in 1 .. p
  OBVIOUS
<1>2. \A node : NodeOK(node, n) => NodeOK(node, p)
  BY <1>1 DEF NodeOK
<1>3. \A dict : DictOK(dict, n) => DictOK(dict, p)
  BY <1>1 DEF DictOK
<1>4. \A c : RouteOK(c, n) => RouteOK(c, p)
  <2> SUFFICES ASSUME NEW c, RouteOK(c, n) PROVE RouteOK(c, p)
    OBVIOUS
  <2>1. CASE c.route_version > 0
    <3>1. PICK R : /\ IsRanges(R) /\ c.slots = InOrder(R) /\ c.table = TableOf(R)
                   /\ \A r \in R : r.node \in 1 .. n
      BY <2>1 DEF RouteOK
    <3>2. \A r \in R : r.node \in 1 .. p
      BY <1>1, <3>1
    <3> QED BY <2>1, <3>1, <3>2 DEF RouteOK
  <2>2. CASE ~(c.route_version > 0)
    BY <2>2 DEF RouteOK
  <2> QED BY <2>1, <2>2
<1> QED BY <1>2, <1>3, <1>4

\* A heap in which the list of slaves of one node is another.
LEMMA SlavesOK ==
    ASSUME NEW hp, HeapOK(hp), NEW n, NEW list, IsList(list),
           \A k \in 1 .. Len(list) : list[k] \in 1 .. Len(hp)
    PROVE  HeapOK([hp EXCEPT ![n].slaves = list])
<1>1. PICK hq : hq = [hp EXCEPT ![n].slaves = list]
  OBVIOUS
<1>2. IsHeap(hp)
  BY DEF HeapOK
<1>3. LET h == [hp EXCEPT ![n].slaves = list]
      IN  /\ SameNodes(hp, h)
          /\ \A id \in 1 .. Len(hp) : id # n => h[id].slaves = hp[id].slaves
          /\ n \in 1 .. Len(hp) => h[n].slaves = list
  BY ONLY <1>2, SlavesChange
<1>4. /\ SameNodes(hp, hq)
      /\ \A id \in 1 .. Len(hp) : id # n => hq[id].slaves = hp[id].slaves
      /\ n \in 1 .. Len(hp) => hq[n].slaves = list
  BY ONLY <1>1, <1>3
<1>5. /\ IsHeap(hq) /\ Len(hq) = Len(hp)
      /\ \A id \in 1 .. Len(hp) :
            /\ hq[id].slots = hp[id].slots
            /\ hq[id].migrating = hp[id].migrating
            /\ hq[id].importing = hp[id].importing
  BY ONLY <1>4 DEF SameNodes
<1>6. ASSUME NEW id \in 1 .. Len(hp) PROVE NodeOK(hq[id], Len(hp))
  <2>1. NodeOK(hp[id], Len(hp))
    BY DEF HeapOK
  <2>2. CASE id # n
    BY <1>4, <1>5, <2>1, <2>2 DEF NodeOK
  <2>3. CASE id = n
    <3>1. hq[id].slaves = list
      BY <1>4, <2>3
    <3> QED BY <1>5, <2>1, <3>1 DEF NodeOK
  <2> QED BY <2>2, <2>3
<1>7. HeapOK(hq)
  BY <1>5, <1>6 DEF HeapOK
<1> QED BY <1>1, <1>7

LEMMA ListReverse ==
    ASSUME NEW s, IsList(s), NEW n, \A k \in 1 .. Len(s) : s[k] \in 1 .. n
    PROVE  IsList(Reverse(s)) /\ \A k \in 1 .. Len(Reverse(s)) : Reverse(s)[k] \in 1 .. n
<1>1. PICK t, m : t = Reverse(s) /\ m = Len(s)
  OBVIOUS
<1>2. m \in Nat
  BY <1>1, ListFacts
<1>3. t = [i \in 1 .. m |-> s[(m - i) + 1]]
  BY <1>1 DEF Reverse
<1>4. IsList(t) /\ Len(t) = m
  <2>1. DOMAIN t = 1 .. m /\ t = [i \in 1 .. m |-> t[i]]
    BY <1>3
  <2> QED BY <1>2, <2>1, FunctionList
<1>5. ASSUME NEW k \in 1 .. m PROVE t[k] \in 1 .. n
  <2>1. (m - k) + 1 \in 1 .. m /\ t[k] = s[(m - k) + 1]
    BY <1>2, <1>3
  <2> QED BY <1>1, <2>1
<1> QED BY <1>1, <1>4, <1>5

\* cluster_master_slave_mapping_with_name
LEMMA MappedOK ==
    ASSUME NEW hp, HeapOK(hp), NEW id \in 1 .. Len(hp), NEW master, DictOK(nodesName, Len(hp))
    PROVE  HeapOK(Mapped(hp, id, master)) /\ DictOK(MappedName(hp, id, master), Len(hp))
<1>1. DictOK(MappedName(hp, id, master), Len(hp))
  BY DEF DictOK, MappedName, With
<1>2. CASE master \notin DOMAIN nodesName
  BY <1>1, <1>2 DEF Mapped
<1>3. CASE master \in DOMAIN nodesName
  <2>1. PICK old \in 1 .. Len(hp) : old = nodesName[master]
    BY <1>3 DEF DictOK
  <2>2. PICK list : list = hp[old].slaves
    OBVIOUS
  <2>3. IsList(list) /\ \A k \in 1 .. Len(list) : list[k] \in 1 .. Len(hp)
    BY <2>1, <2>2 DEF HeapOK, NodeOK
  <2>4. CASE hp[id].role = "master"
    <3>1. PICK front, back, all, none : front = <<old>> /\ back = Reverse(list) /\ all = front \o back
                                        /\ none = <<>>
      OBVIOUS
    <3>2. IsList(front) /\ Len(front) = 1 /\ front[1] = old
      <4>1. front = [i \in 1 .. 1 |-> front[i]] /\ DOMAIN front = 1 .. 1 /\ front[1] = old
        BY <3>1
      <4> QED BY <4>1, FunctionList
    <3>3. IsList(back) /\ \A k \in 1 .. Len(back) : back[k] \in 1 .. Len(hp)
      BY <2>3, <3>1, ListReverse
    <3>4. /\ IsList(all) /\ Len(all) = Len(front) + Len(back)
          /\ \A i \in 1 .. Len(front) : all[i] = front[i]
          /\ \A i \in 1 .. Len(back) : all[Len(front) + i] = back[i]
      <4>1. /\ IsList(front \o back)
            /\ Len(front \o back) = Len(front) + Len(back)
            /\ \A i \in 1 .. Len(front) : (front \o back)[i] = front[i]
            /\ \A i \in 1 .. Len(back) : (front \o back)[Len(front) + i] = back[i]
        <5>1. IsList(front) /\ IsList(back)
          BY <3>2, <3>3
        <5> QED BY ONLY <5>1, ListConcat
      <4> QED BY ONLY <3>1, <4>1
    <3>5. ASSUME NEW k \in 1 .. Len(all) PROVE all[k] \in 1 .. Len(hp)
      <4>1. Len(back) \in Nat
        BY <3>3, ListFacts
      <4>2. k = 1 \/ (k - 1 \in 1 .. Len(back) /\ k = 1 + (k - 1))
        BY <3>2, <3>4, <4>1
      <4>3. CASE k = 1
        BY <2>1, <3>2, <3>4, <4>3
      <4>4. CASE k - 1 \in 1 .. Len(back) /\ k = 1 + (k - 1)
        <5>1. PICK i \in 1 .. Len(back) : k = 1 + i
          BY <4>4
        <5> QED BY <3>2, <3>3, <3>4, <5>1
      <4> QED BY <4>2, <4>3, <4>4
    <3>6. PICK hq : hq = [hp EXCEPT ![id].slaves = all]
      OBVIOUS
    <3>7. HeapOK(hq) /\ Len(hq) = Len(hp)
      <4>1. HeapOK(hq)
        BY <3>4, <3>5, <3>6, SlavesOK
      <4>2. IsHeap(hp) /\ IsHeap(hq)
        BY <4>1 DEF HeapOK
      <4>3. LET h == [hp EXCEPT ![id].slaves = all]
            IN  /\ SameNodes(hp, h)
                /\ \A i \in 1 .. Len(hp) : i # id => h[i].slaves = hp[i].slaves
                /\ id \in 1 .. Len(hp) => h[id].slaves = all
        BY ONLY <4>2, SlavesChange
      <4>4. SameNodes(hp, hq)
        BY ONLY <3>6, <4>3
      <4> QED BY <4>1, <4>4 DEF SameNodes
    <3>8. IsList(none) /\ Len(none) = 0
      BY <3>1 DEF IsList, Range
    <3>9. HeapOK([hq EXCEPT ![old].slaves = none])
      <4>1. \A k \in 1 .. Len(none) : none[k] \in 1 .. Len(hq)
        BY <3>8
      <4> QED BY <3>7, <3>8, <4>1, SlavesOK
    <3>10. Mapped(hp, id, master) = [hq EXCEPT ![old].slaves = none]
      BY <1>3, <2>1, <2>2, <2>4, <3>1, <3>6 DEF Mapped, MapMaster
    <3> QED BY <1>1, <3>9, <3>10
  <2>5. CASE hp[id].role # "master"
    <3>1. PICK more : more = Append(list, id)
      OBVIOUS
    <3>2. IsList(more) /\ \A k \in 1 .. Len(more) : more[k] \in 1 .. Len(hp)
      BY <2>3, <3>1, ListAppend
    <3>3. HeapOK([hp EXCEPT ![old].slaves = more])
      BY <3>2, SlavesOK
    <3>4. Mapped(hp, id, master) = [hp EXCEPT ![old].slaves = more]
      BY <1>3, <2>1, <2>2, <2>5, <3>1 DEF Mapped
    <3> QED BY <1>1, <3>3, <3>4
  <2> QED BY <2>4, <2>5
<1> QED BY <1>2, <1>3

LEMMA AppendOK ==
    ASSUME NEW hp, HeapOK(hp), NEW node, DOMAIN node = NodeFields, NodeOK(node, Len(hp) + 1)
    PROVE  HeapOK(Append(hp, node)) /\ Len(Append(hp, node)) = Len(hp) + 1 /\ Len(hp) \in Nat
<1>1. PICK hq, n : hq = Append(hp, node) /\ n = Len(hp) + 1
  OBVIOUS
<1>2. /\ IsHeap(hq) /\ Len(hp) \in Nat /\ Len(hq) = n /\ hq[n] = node
      /\ \A id \in 1 .. Len(hp) : hq[id] = hp[id]
  BY <1>1, HeapAppend DEF HeapOK
<1>3. ASSUME NEW id \in 1 .. n PROVE NodeOK(hq[id], n)
  <2>1. id \in 1 .. Len(hp) \/ id = n
    BY <1>1, <1>2
  <2>2. CASE id \in 1 .. Len(hp)
    <3>1. NodeOK(hp[id], Len(hp))
      BY <2>2 DEF HeapOK
    <3>2. Len(hp) <= n /\ n \in Nat
      BY <1>1, <1>2
    <3> QED BY <1>2, <2>2, <3>1, <3>2, MoreNodes
  <2>3. CASE id = n
    BY <1>1, <1>2, <2>3
  <2> QED BY <2>1, <2>2, <2>3
<1> QED BY <1>1, <1>2, <1>3 DEF HeapOK

\* A dict with one more entry.
LEMMA WithOK ==
    ASSUME NEW dict, NEW n, DictOK(dict, n), NEW x, NEW y \in 1 .. n
    PROVE  DictOK(With(dict, x, y), n)
  BY DEF DictOK, With

\* The ranges and open slots that a line lists.
LEMMA LineTypes ==
    ASSUME Placed, Parsing("nodes")
    PROVE  /\ \A k \in DOMAIN RangesOf(Line.slots) : RangesOf(Line.slots)[k] \in [start : Nat, end : Nat]
           /\ \A kind \in {"migrating", "importing"} :
                 \A k \in DOMAIN OpenSlots(Line.slots, kind) : OpenSlots(Line.slots, kind)[k] \in OpenSlot
<1>1. pos \in DOMAIN reply.elements /\ reply.format = "nodes" /\ reply \in Replies
  BY ElementParsed DEF Parsing, Placed
<1>2. PICK parts : parts = Line.slots
  OBVIOUS
<1>3. \A k \in DOMAIN parts :
         /\ parts[k].kind = "range" => {parts[k].start, parts[k].end} \subseteq Nat
         /\ parts[k].kind \in {"migrating", "importing"} => parts[k].slot \in Nat /\ parts[k].remote \in STRING
  BY <1>1, <1>2, RepliesAssumption DEF Line
<1>4. ASSUME NEW k \in DOMAIN RangesOf(parts) PROVE RangesOf(parts)[k] \in [start : Nat, end : Nat]
  BY <1>3, <1>4 DEF RangesOf, GoodParts
<1>5. ASSUME NEW kind \in {"migrating", "importing"}, NEW k \in DOMAIN OpenSlots(parts, kind)
      PROVE  OpenSlots(parts, kind)[k] \in OpenSlot
  <2>1. k \in DOMAIN parts /\ parts[k].kind = kind
    BY <1>5 DEF OpenSlots
  <2>2. OpenSlots(parts, kind)[k] = [slot_num |-> parts[k].slot, remote_name |-> parts[k].remote]
    BY <1>5 DEF OpenSlots
  <2>3. parts[k].slot \in Nat /\ parts[k].remote \in STRING
    BY <1>3, <1>5, <2>1
  <2> QED BY <2>2, <2>3 DEF OpenSlot
<1> QED BY <1>2, <1>4, <1>5

LEMMA NoneListed ==
    ASSUME NEW none, none = <<>>
    PROVE  IsList(none) /\ Len(none) = 0 /\ DOMAIN none = {} /\ \A i : i \notin 1 .. Len(none)
<1>1. DOMAIN none = 1 .. 0 /\ none = [i \in 1 .. 0 |-> none[i]] /\ 0 \in Nat
  OBVIOUS
<1>2. IsList(none) /\ Len(none) = 0
  BY <1>1, FunctionList
<1> QED BY <1>2

\* A line of a master or of a slave.
LEMMA LineOK ==
    ASSUME RangesInv, Placed, MasterLine \/ SlaveLine
    PROVE  HeapOK(heap') /\ DictOK(nodesName', Len(heap')) /\ Len(heap') = Len(heap) + 1
<1>1. HeapOK(heap) /\ DictOK(nodesName, Len(heap))
  BY DEF RangesInv
<1>2. /\ DOMAIN NodeOfLine = NodeFields /\ NodeOfLine.slaves = <<>> /\ NodeOfLine.slots = <<>>
      /\ NodeOfLine.migrating = <<>> /\ NodeOfLine.importing = <<>>
  BY NodeFacts DEF NodeOfLine
<1>3. PICK n : n = Len(heap) + 1
  OBVIOUS
<1> DEFINE Good(node) ==
             /\ DOMAIN node = NodeFields
             /\ NodeOK(node, n)
           Made(hp, name) ==
             /\ heap' = hp \/ heap' = Mapped(hp, n, name)
             /\ nodesName' = nodesName \/ nodesName' = MappedName(hp, n, name)
<1>4. ASSUME NEW node, Good(node), NEW name, Made(Append(heap, node), name)
      PROVE  HeapOK(heap') /\ DictOK(nodesName', Len(heap')) /\ Len(heap') = n
  <2>1. PICK hp : hp = Append(heap, node)
    OBVIOUS
  <2>2. HeapOK(hp) /\ Len(hp) = n /\ Len(heap) \in Nat
    BY <1>1, <1>3, <1>4, <2>1, AppendOK
  <2>3. n \in 1 .. Len(hp) /\ Len(heap) <= n /\ n \in Nat
    BY <1>3, <2>2
  <2>4. DictOK(nodesName, Len(hp))
    BY <1>1, <2>2, <2>3, MoreNodes
  <2>5. HeapOK(Mapped(hp, n, name)) /\ DictOK(MappedName(hp, n, name), Len(hp))
    BY <2>2, <2>3, <2>4, MappedOK
  <2>6. SameNodes(hp, Mapped(hp, n, name))
    BY <2>2, MappedSame DEF HeapOK
  <2>7. Len(Mapped(hp, n, name)) = n
    BY <2>2, <2>6 DEF SameNodes
  <2>8. Made(hp, name)
    BY <1>4, <2>1
  <2> QED BY <2>2, <2>4, <2>5, <2>7, <2>8
<1>5. CASE MasterLine
  <2> DEFINE new == [NodeOfLine EXCEPT !.slots = RangesOf(Line.slots),
                                       !.migrating = OpenSlots(Line.slots, "migrating"),
                                       !.importing = OpenSlots(Line.slots, "importing")]
  <2>1. PICK node : node = new
    OBVIOUS
  <2>2. /\ DOMAIN node = NodeFields /\ node.slaves = <<>> /\ node.slots = RangesOf(Line.slots)
        /\ node.migrating = OpenSlots(Line.slots, "migrating")
        /\ node.importing = OpenSlots(Line.slots, "importing")
    BY <1>2, <2>1 DEF NodeFields
  <2>3. Made(Append(heap, new), Line.name)
    BY <1>3, <1>5 DEF MasterLine
  <2> HIDE DEF new
  <2>4. Parsing("nodes")
    BY <1>5 DEF MasterLine
  <2>5. /\ \A k \in DOMAIN node.slots : node.slots[k] \in [start : Nat, end : Nat]
        /\ \A k \in DOMAIN node.migrating : node.migrating[k] \in OpenSlot
        /\ \A k \in DOMAIN node.importing : node.importing[k] \in OpenSlot
    BY <2>2, <2>4, LineTypes
  <2>6. IsList(node.slaves) /\ \A k \in 1 .. Len(node.slaves) : node.slaves[k] \in 1 .. n
    BY <2>2, NoneListed
  <2>7. Good(node)
    BY <2>2, <2>5, <2>6 DEF NodeOK
  <2>8. Made(Append(heap, node), Line.name)
    BY <2>1, <2>3
  <2> HIDE DEF Good, Made
  <2> QED BY <1>3, <1>4, <2>7, <2>8
<1>6. CASE SlaveLine
  <2>1. Made(Append(heap, NodeOfLine), Line.master)
    BY <1>3, <1>6 DEF SlaveLine
  <2>2. PICK node : node = NodeOfLine
    OBVIOUS
  <2>3. /\ IsList(node.slaves) /\ \A k \in 1 .. Len(node.slaves) : node.slaves[k] \in 1 .. n
        /\ DOMAIN node.slots = {} /\ DOMAIN node.migrating = {} /\ DOMAIN node.importing = {}
    BY <1>2, <2>2, NoneListed
  <2>4. Good(node)
    BY <1>2, <2>2, <2>3 DEF NodeOK
  <2>5. Made(Append(heap, node), Line.master)
    BY <2>1, <2>2
  <2> HIDE DEF Good, Made
  <2> QED BY <1>3, <1>4, <2>4, <2>5
<1> QED BY <1>5, <1>6

\* The range that a region has.
LEMMA RegionTypes ==
    ASSUME Placed, Parsing("slots")
    PROVE  [start |-> Region.start, end |-> Region.end] \in [start : Nat, end : Nat]
<1>1. pos \in DOMAIN reply.elements /\ reply.format = "slots" /\ reply \in Replies
  BY ElementParsed DEF Parsing, Placed
<1>2. Region.start \in Nat /\ Region.end \in Nat
  BY <1>1, RepliesAssumption DEF Region
<1> QED BY <1>2

LEMMA KnownOK ==
    ASSUME RangesInv, Placed, KnownMaster
    PROVE  HeapOK(heap') /\ Listed' /\ Len(heap') = Len(heap)
<1>1. /\ HeapOK(heap) /\ IsHeap(heap) /\ DictOK(nodes, Len(heap)) /\ Listed
      /\ Known /\ Parsing("slots") /\ UNCHANGED <<nodes, reply>>
  BY DEF RangesInv, HeapOK, KnownMaster, Parsing
<1>2. PICK n \in 1 .. Len(heap) : n = nodes[Hosts[1].addr]
  BY <1>1 DEF DictOK, Known
<1>3. PICK r : r = [start |-> Region.start, end |-> Region.end]
  OBVIOUS
<1>4. /\ IsHeap(heap') /\ Len(heap') = Len(heap)
      /\ \A id \in 1 .. Len(heap) :
            /\ heap'[id].slaves = heap[id].slaves
            /\ heap'[id].migrating = heap[id].migrating
            /\ heap'[id].importing = heap[id].importing
      /\ \A id \in 1 .. Len(heap) : id # n => heap'[id].slots = heap[id].slots
      /\ heap'[n].slots = Append(heap[n].slots, r)
  BY <1>1, <1>2, <1>3, KnownGrows DEF Grown
<1>5. r \in [start : Nat, end : Nat]
  BY <1>1, <1>3, RegionTypes
<1>6. IsList(heap[n].slots)
  BY <1>1, <1>2 DEF Listed, Parsing, Known
<1>7. PICK t, u : t = heap[n].slots /\ u = heap'[n].slots
  OBVIOUS
<1>8. /\ IsList(u) /\ Len(u) = Len(t) + 1
      /\ \A i \in 1 .. Len(t) : u[i] = t[i]
      /\ u[Len(t) + 1] = r
      /\ \A i \in 1 .. Len(t) + 1 : i \in 1 .. Len(t) \/ i = Len(t) + 1
  BY <1>4, <1>6, <1>7, ListAppend
<1>9. DOMAIN u = 1 .. Len(u) /\ DOMAIN t = 1 .. Len(t)
  BY <1>6, <1>7, <1>8, ListFacts
<1>10. ASSUME NEW id \in 1 .. Len(heap) PROVE NodeOK(heap'[id], Len(heap))
  <2>1. NodeOK(heap[id], Len(heap))
    BY <1>1 DEF HeapOK
  <2>2. CASE id # n
    BY <1>4, <2>1, <2>2 DEF NodeOK
  <2>3. CASE id = n
    <3>1. \A k \in DOMAIN t : t[k] \in [start : Nat, end : Nat]
      BY <1>7, <2>1, <2>3 DEF NodeOK
    <3>2. \A k \in DOMAIN u : u[k] \in [start : Nat, end : Nat]
      BY <1>5, <1>8, <1>9, <3>1
    <3>3. \A k \in DOMAIN heap'[id].slots : heap'[id].slots[k] \in [start : Nat, end : Nat]
      BY <1>7, <2>3, <3>2
    <3> QED BY <1>4, <2>1, <3>3 DEF NodeOK
  <2> QED BY <2>2, <2>3
<1>11. ASSUME NEW a \in DOMAIN nodes, reply.format = "slots" PROVE IsList(heap'[nodes[a]].slots)
  <2>1. nodes[a] \in 1 .. Len(heap) /\ IsList(heap[nodes[a]].slots)
    BY <1>1, <1>11 DEF DictOK, Listed
  <2>2. CASE nodes[a] = n
    BY <1>7, <1>8, <2>2
  <2>3. CASE nodes[a] # n
    BY <1>4, <2>1, <2>3
  <2> QED BY <2>2, <2>3
<1>12. Listed'
  BY <1>1, <1>11 DEF Listed
<1> QED BY <1>4, <1>10, <1>12 DEF HeapOK

LEMMA NewOK ==
    ASSUME RangesInv, Placed, NewMaster
    PROVE  /\ HeapOK(heap') /\ Listed' /\ Len(heap) \in Nat /\ Len(heap') \in Nat
           /\ Len(heap) < Len(heap')
<1>1. /\ HeapOK(heap) /\ IsHeap(heap) /\ DictOK(nodes, Len(heap)) /\ Listed /\ Parsing("slots")
      /\ nodes' = With(nodes, Hosts[1].addr, Len(heap) + 1) /\ reply' = reply
  BY DEF RangesInv, HeapOK, NewMaster, Parsing
<1>2. IsList(Hosts)
  BY <1>1, ElementParsed DEF Parsing
<1>3. PICK d, m, r : d = Len(heap) + 1 /\ m = NewSlaves /\ r = [start |-> Region.start, end |-> Region.end]
  OBVIOUS
<1>4. /\ Grown /\ m \in Nat
      /\ Len(heap') = d + m
      /\ \A n \in 1 .. Len(heap) : heap'[n] = heap[n]
      /\ heap'[d].slots = <<r>>
      /\ heap'[d].slaves = [k \in 1 .. m |-> d + k]
      /\ heap'[d].migrating = <<>>
      /\ heap'[d].importing = <<>>
      /\ \A k \in 1 .. m :
            /\ heap'[d + k].slots = <<>>
            /\ heap'[d + k].slaves = <<>>
            /\ heap'[d + k].migrating = <<>>
            /\ heap'[d + k].importing = <<>>
  BY <1>1, <1>2, <1>3, NewMasterMade
<1>5. Len(heap) \in Nat /\ d \in Nat /\ IsHeap(heap') /\ Len(heap) < Len(heap') /\ Len(heap') \in Nat
  BY <1>3, <1>4 DEF Grown
<1>6. r \in [start : Nat, end : Nat]
  BY <1>1, <1>3, RegionTypes
<1>7. ASSUME NEW id \in 1 .. Len(heap) PROVE NodeOK(heap'[id], Len(heap'))
  <2>1. NodeOK(heap[id], Len(heap))
    BY <1>1 DEF HeapOK
  <2>2. NodeOK(heap[id], Len(heap'))
    BY <1>5, <2>1, MoreNodes
  <2> QED BY <1>4, <2>2
<1>8. IsList(heap'[d].slots) /\ \A k \in DOMAIN heap'[d].slots : heap'[d].slots[k] \in [start : Nat, end : Nat]
  <2>1. <<r>> = [i \in 1 .. 1 |-> <<r>>[i]] /\ DOMAIN <<r>> = 1 .. 1
    OBVIOUS
  <2>2. IsList(<<r>>)
    BY <2>1, FunctionList
  <2>3. \A k \in 1 .. 1 : <<r>>[k] = r
    OBVIOUS
  <2> QED BY <1>4, <1>6, <2>1, <2>2, <2>3
<1>9. NodeOK(heap'[d], Len(heap'))
  <2>1. PICK list : list = heap'[d].slaves
    OBVIOUS
  <2>2. DOMAIN list = 1 .. m /\ list = [i \in 1 .. m |-> list[i]] /\ \A k \in 1 .. m : list[k] = d + k
    BY <1>4, <2>1
  <2>3. IsList(list) /\ Len(list) = m
    BY <1>4, <2>2, FunctionList
  <2>4. \A k \in 1 .. m : d + k \in 1 .. Len(heap')
    BY <1>4, <1>5
  <2>5. IsList(heap'[d].slaves) /\ \A k \in 1 .. Len(heap'[d].slaves) : heap'[d].slaves[k] \in 1 .. Len(heap')
    BY <2>1, <2>2, <2>3, <2>4
  <2>6. DOMAIN heap'[d].migrating = {} /\ DOMAIN heap'[d].importing = {}
    BY <1>4
  <2> QED BY <1>8, <2>5, <2>6 DEF NodeOK
<1>10. ASSUME NEW k \in 1 .. m PROVE NodeOK(heap'[d + k], Len(heap'))
  <2>1. PICK node : node = heap'[d + k]
    OBVIOUS
  <2>2. /\ IsList(node.slaves) /\ \A i : i \notin 1 .. Len(node.slaves)
        /\ DOMAIN node.slots = {} /\ DOMAIN node.migrating = {} /\ DOMAIN node.importing = {}
    BY <1>4, <2>1, NoneListed
  <2>3. NodeOK(node, Len(heap'))
    BY <2>2 DEF NodeOK
  <2> QED BY <2>1, <2>3
<1>11. ASSUME NEW id \in 1 .. Len(heap') PROVE NodeOK(heap'[id], Len(heap'))
  <2>1. id \in 1 .. Len(heap) \/ id = d \/ (id - d \in 1 .. m /\ id = d + (id - d))
    BY <1>3, <1>4, <1>5
  <2>2. CASE id - d \in 1 .. m /\ id = d + (id - d)
    <3>1. PICK k \in 1 .. m : id = d + k
      BY <2>2
    <3> QED BY <1>10, <3>1
  <2> QED BY <1>7, <1>9, <2>1, <2>2
<1>12. Listed'
  <2>1. PICK x : x = Hosts[1].addr
    OBVIOUS
  <2>2. nodes' = With(nodes, x, d)
    BY <1>1, <1>3, <2>1
  <2>3. /\ DOMAIN nodes' = DOMAIN nodes \cup {x} /\ nodes'[x] = d
        /\ \A z \in DOMAIN nodes : z # x => nodes'[z] = nodes[z]
    BY ONLY <2>2 DEF With
  <2>4. ASSUME NEW a \in DOMAIN nodes', reply.format = "slots" PROVE IsList(heap'[nodes'[a]].slots)
    <3>1. CASE a = x
      BY <1>8, <2>3, <3>1
    <3>2. CASE a # x
      <4>1. a \in DOMAIN nodes /\ nodes'[a] = nodes[a]
        BY <2>3, <3>2
      <4>2. nodes[a] \in 1 .. Len(heap) /\ IsList(heap[nodes[a]].slots)
        BY <1>1, <2>4, <4>1 DEF DictOK, Listed
      <4> QED BY <1>4, <4>1, <4>2
    <3> QED BY <3>1, <3>2
  <2> QED BY <1>1, <2>4 DEF Listed
<1> QED BY <1>5, <1>11, <1>12 DEF HeapOK

\* The ranges of an old route.
LEMMA OldRouteOK ==
    ASSUME NEW old \in OldRoutes
    PROVE  RouteOK(OldRoute(old), Len(OldHeap(old)))
<1>1. PICK hp : hp = OldHeap(old)
  OBVIOUS
<1>2. CASE old = <<>>
  <2>1. OldRoute(old).route_version = 0 /\ OldRoute(old).slots = <<>>
        /\ OldRoute(old).table = [s \in SlotNums |-> None]
    BY <1>2 DEF OldRoute, EmptyRoute
  <2>2. ~(OldRoute(old).route_version > 0)
    BY <2>1
  <2> QED BY <2>1, <2>2 DEF RouteOK
<1>3. CASE old # <<>>
  <2> DEFINE id(a) == CHOOSE n \in DOMAIN hp : hp[n].addr = a
             R == UNION {{[start |-> old[a][k].start, end |-> old[a][k].end, node |-> id(a)] :
                            k \in DOMAIN old[a]} : a \in DOMAIN old}
  <2>1. /\ OldRoute(old).slots = InOrder(R)
        /\ OldRoute(old).table = TableOf(R)
        /\ OldRoute(old).route_version = 1
    BY <1>1, <1>3 DEF OldRoute
  <2>2. \A a \in DOMAIN old : id(a) \in 1 .. Len(hp)
    <3>1. DOMAIN hp = 1 .. Len(hp) /\ \A a \in DOMAIN old : \E n \in 1 .. Len(hp) : hp[n].addr = a
      BY <1>1, OldNodes, ListFacts DEF IsHeap
    <3> QED BY <3>1
  <2>3. \A r \in R : \E a \in DOMAIN old : \E k \in DOMAIN old[a] :
           r = [start |-> old[a][k].start, end |-> old[a][k].end, node |-> id(a)]
    OBVIOUS
  <2> HIDE DEF R, id
  <2>4. ASSUME NEW r \in R
        PROVE  r.start \in SlotNums /\ r.end \in SlotNums /\ r.start <= r.end /\ r.node \in 1 .. Len(hp)
    <3>1. PICK a \in DOMAIN old : \E k \in DOMAIN old[a] :
             r = [start |-> old[a][k].start, end |-> old[a][k].end, node |-> id(a)]
      BY <2>3
    <3>2. PICK k \in DOMAIN old[a] : r = [start |-> old[a][k].start, end |-> old[a][k].end, node |-> id(a)]
      BY <3>1
    <3>3. old[a][k] \in [start : SlotNums, end : SlotNums] /\ old[a][k].start <= old[a][k].end
      BY <3>1, <3>2, OldRoutesAssumption
    <3>4. r.start = old[a][k].start /\ r.end = old[a][k].end /\ r.node = id(a)
      BY <3>2
    <3> QED BY <2>2, <3>1, <3>3, <3>4
  <2>5. ASSUME NEW q \in R, NEW r \in R, q # r PROVE q.end < r.start \/ r.end < q.start
    <3>1. PICK a \in DOMAIN old : \E k \in DOMAIN old[a] :
             q = [start |-> old[a][k].start, end |-> old[a][k].end, node |-> id(a)]
      BY <2>3
    <3>2. PICK k \in DOMAIN old[a] : q = [start |-> old[a][k].start, end |-> old[a][k].end, node |-> id(a)]
      BY <3>1
    <3>3. PICK b \in DOMAIN old : \E j \in DOMAIN old[b] :
             r = [start |-> old[b][j].start, end |-> old[b][j].end, node |-> id(b)]
      BY <2>3
    <3>4. PICK j \in DOMAIN old[b] : r = [start |-> old[b][j].start, end |-> old[b][j].end, node |-> id(b)]
      BY <3>3
    <3>5. ~(a = b /\ k = j)
      BY <2>5, <3>2, <3>4
    <3>6. old[a][k].end < old[b][j].start \/ old[b][j].end < old[a][k].start
      BY <3>1, <3>2, <3>3, <3>4, <3>5, OldRoutesAssumption
    <3>7. /\ q.start = old[a][k].start /\ q.end = old[a][k].end
          /\ r.start = old[b][j].start /\ r.end = old[b][j].end
      BY <3>2, <3>4
    <3> QED BY <3>6, <3>7
  <2>6. IsRanges(R)
    BY <2>4, <2>5 DEF IsRanges
  <2>7. OldRoute(old).route_version > 0
    BY <2>1
  <2> QED BY <1>1, <2>1, <2>4, <2>6, <2>7 DEF RouteOK
<1> QED BY <1>2, <1>3

LEMMA RangesInvInit == Init => RangesInv
<1> SUFFICES ASSUME Init PROVE RangesInv
  OBVIOUS
<1>1. PICK old \in OldRoutes : heap = OldHeap(old) /\ cc = OldRoute(old)
  BY DEF Init
<1>2. nodes = <<>> /\ nodesName = <<>>
  BY DEF Init
<1>3. /\ IsHeap(heap)
      /\ \A id \in 1 .. Len(heap) :
            /\ heap[id].addr \in DOMAIN old
            /\ heap[id].slots = old[heap[id].addr]
            /\ heap[id].slaves = <<>>
            /\ heap[id].migrating = <<>>
            /\ heap[id].importing = <<>>
  BY <1>1, OldNodes
<1>4. ASSUME NEW id \in 1 .. Len(heap) PROVE NodeOK(heap[id], Len(heap))
  <2>1. PICK node, a : node = heap[id] /\ a = node.addr
    OBVIOUS
  <2>2. a \in DOMAIN old /\ node.slots = old[a]
    BY <1>3, <2>1
  <2>3. /\ IsList(node.slaves) /\ \A i : i \notin 1 .. Len(node.slaves)
        /\ DOMAIN node.migrating = {} /\ DOMAIN node.importing = {}
    BY <1>3, <2>1, NoneListed
  <2>4. \A k \in DOMAIN old[a] : old[a][k] \in [start : SlotNums, end : SlotNums]
    BY <2>2, OldRoutesAssumption
  <2>5. \A k \in DOMAIN node.slots : node.slots[k] \in [start : Nat, end : Nat]
    BY <2>2, <2>4, SlotFacts
  <2>6. NodeOK(node, Len(heap))
    BY <2>3, <2>5 DEF NodeOK
  <2> QED BY <2>1, <2>6
<1>5. DOMAIN nodes = {} /\ DOMAIN nodesName = {}
  BY <1>2
<1>6. DictOK(cc.nodes, Len(heap))
  <2>1. /\ DOMAIN cc.nodes = DOMAIN old
        /\ \A a \in DOMAIN old : cc.nodes[a] \in 1 .. Len(heap)
    BY <1>1, OldDict
  <2> QED BY <2>1 DEF DictOK
<1>7. RouteOK(cc, Len(heap))
  BY <1>1, OldRouteOK
<1>8. cc.route_version \in Nat
  <2>1. cc.route_version = 0 \/ cc.route_version = 1
    BY <1>1 DEF OldRoute, EmptyRoute
  <2> QED BY <2>1
<1> QED BY <1>3, <1>4, <1>5, <1>6, <1>7, <1>8 DEF RangesInv, HeapOK, DictOK, Listed

\* The ranges of the route that is taken.
LEMMA RangesTaken ==
    ASSUME RangesInv, ~BadRange, ~Overlap
    PROVE  IsRanges(Ranges) /\ \A r \in Ranges : r.node \in 1 .. Len(heap)
<1>1. HeapOK(heap) /\ DictOK(nodes, Len(heap))
  BY DEF RangesInv
<1>2. ASSUME NEW x \in Slots
      PROVE  /\ Start(x) \in SlotNums /\ End(x) \in SlotNums /\ Start(x) <= End(x)
             /\ x[1] \in 1 .. Len(heap)
  <2>1. Ref(x)
    BY <1>2, RefFacts
  <2>2. PICK a \in DOMAIN nodes : \E k \in DOMAIN heap[nodes[a]].slots : x = <<nodes[a], k>>
    BY <2>1 DEF Ref
  <2>3. PICK k \in DOMAIN heap[nodes[a]].slots : x = <<nodes[a], k>>
    BY <2>2
  <2>4. nodes[a] \in 1 .. Len(heap) /\ x[1] = nodes[a] /\ x[2] = k
    BY <1>1, <2>2, <2>3 DEF DictOK
  <2>5. heap[nodes[a]].slots[k] \in [start : Nat, end : Nat]
    BY <1>1, <2>3, <2>4 DEF HeapOK, NodeOK
  <2>6. Start(x) \in Nat /\ End(x) \in Nat
    BY <2>4, <2>5 DEF Start, End
  <2>7. ~(Start(x) > End(x)) /\ ~(End(x) >= REDIS_CLUSTER_SLOTS)
    BY <1>2 DEF BadRange
  <2>8. PICK i, j \in Nat : i = Start(x) /\ j = End(x)
    BY <2>6
  <2>9. i \in SlotNums /\ j \in SlotNums /\ i <= j
    BY <2>7, <2>8, RoutesAssumption DEF SlotNums
  <2> QED BY <2>4, <2>8, <2>9
<1>3. ASSUME NEW q \in Ranges
      PROVE  \E x \in Slots : q.start = Start(x) /\ q.end = End(x) /\ q.node = x[1]
                                /\ q = [start |-> Start(x), end |-> End(x), node |-> x[1]]
  <2>1. PICK x \in Slots : q = [start |-> Start(x), end |-> End(x), node |-> x[1]]
    BY <1>3 DEF Ranges
  <2> HIDE DEF Start, End
  <2> QED BY <2>1
<1>4. \A r \in Ranges : r.start \in SlotNums /\ r.end \in SlotNums /\ r.start <= r.end
                          /\ r.node \in 1 .. Len(heap)
  <2> SUFFICES ASSUME NEW r \in Ranges
               PROVE  r.start \in SlotNums /\ r.end \in SlotNums /\ r.start <= r.end
                        /\ r.node \in 1 .. Len(heap)
    OBVIOUS
  <2>1. PICK x \in Slots : r.start = Start(x) /\ r.end = End(x) /\ r.node = x[1]
    BY <1>3
  <2> QED BY <1>2, <2>1
<1>5. ASSUME NEW q \in Ranges, NEW r \in Ranges, q # r PROVE q.end < r.start \/ r.end < q.start
  <2>1. PICK x \in Slots : q.start = Start(x) /\ q.end = End(x)
                             /\ q = [start |-> Start(x), end |-> End(x), node |-> x[1]]
    BY <1>3
  <2>2. PICK y \in Slots : r.start = Start(y) /\ r.end = End(y)
                             /\ r = [start |-> Start(y), end |-> End(y), node |-> y[1]]
    BY <1>3
  <2>3. x # y
    BY <1>5, <2>1, <2>2
  <2>4. ~(Start(x) <= End(y) /\ Start(y) <= End(x))
    BY <2>1, <2>2, <2>3 DEF Overlap
  <2>5. PICK a, b, c, d \in Nat : a = Start(x) /\ b = End(x) /\ c = Start(y) /\ d = End(y)
    BY <1>2, <2>1, <2>2, SlotFacts
  <2>6. b < c \/ d < a
    BY <2>4, <2>5
  <2> QED BY <2>1, <2>2, <2>5, <2>6
<1> QED BY <1>4, <1>5 DEF IsRanges

LEMMA RangesInvTaken ==
    ASSUME NodesInv, RangesInv, TakeRoute
    PROVE  RangesInv'
<1>1. IsHeap(heap) /\ Apart
  BY DEF NodesInv, TakeRoute, Parsed
<1>2. /\ heap' = Swapped(heap, cc.nodes, nodes)
      /\ cc'.nodes = nodes /\ cc'.slots = InOrder(Ranges) /\ cc'.table = TableOf(Ranges)
      /\ cc'.route_version = cc.route_version + 1
      /\ pc' = "taken" /\ nodes' = <<>> /\ nodesName' = <<>>
      /\ ~BadRange /\ ~Overlap
  BY DEF TakeRoute
<1>3. /\ IsHeap(heap') /\ Len(heap') = Len(heap)
      /\ \A id \in 1 .. Len(heap) :
            /\ heap'[id].slots = heap[id].slots
            /\ heap'[id].slaves = heap[id].slaves
            /\ heap'[id].migrating = heap[id].migrating
            /\ heap'[id].importing = heap[id].importing
  BY <1>1, <1>2, SwapFacts
<1>4. HeapOK(heap')
  BY <1>3 DEF RangesInv, HeapOK, NodeOK
<1>5. DOMAIN nodes' = {} /\ DOMAIN nodesName' = {}
  BY <1>2
<1>6. DictOK(cc'.nodes, Len(heap'))
  BY <1>2, <1>3 DEF RangesInv
<1>7. PICK R : R = Ranges
  OBVIOUS
<1>8. IsRanges(R) /\ \A r \in R : r.node \in 1 .. Len(heap')
  BY <1>2, <1>3, <1>7, RangesTaken
<1>9. cc'.route_version \in Nat /\ cc'.route_version > 0
  <2>1. cc.route_version \in Nat
    BY DEF RangesInv
  <2> QED BY <1>2, <2>1
<1>10. RouteOK(cc', Len(heap'))
  BY <1>2, <1>7, <1>8, <1>9 DEF RouteOK
<1> QED BY <1>2, <1>4, <1>5, <1>6, <1>9, <1>10 DEF RangesInv, DictOK

LEMMA RangesInvParsed ==
    ASSUME NodesInv, RangesInv, ParserStep
    PROVE  RangesInv'
<1>1. /\ Grown /\ NodesGrown /\ pc = "parse" /\ UNCHANGED <<flags, reply, cc, closed>>
      /\ IsHeap(heap) /\ Apart /\ Placed
  BY ParserGrows DEF NodesInv
<1>2. Apart'
  BY <1>1, GrownApart
<1>3. DictOK(nodes', Len(heap'))
  BY <1>2 DEF Apart, DictOK
<1>4. DictOK(cc'.nodes, Len(heap'))
  BY <1>2 DEF Apart, DictOK
<1>5. Len(heap) \in Nat /\ Len(heap') \in Nat /\ Len(heap) <= Len(heap')
  BY <1>1 DEF Grown
<1>6. RouteOK(cc', Len(heap')) /\ cc'.route_version \in Nat
  <2>1. RouteOK(cc, Len(heap)) /\ cc.route_version \in Nat
    BY DEF RangesInv
  <2>2. RouteOK(cc, Len(heap'))
    BY <1>5, <2>1, MoreNodes
  <2> QED BY <1>1, <2>1, <2>2
<1>7. DictOK(nodesName, Len(heap'))
  BY <1>5, MoreNodes DEF RangesInv
<1>8. HeapOK(heap') /\ DictOK(nodesName', Len(heap')) /\ Listed'
  <2>1. CASE SkipLine
    <3>1. UNCHANGED <<heap, nodes, nodesName, reply>> /\ reply.format = "nodes"
      BY <2>1 DEF SkipLine, Parsing
    <3> QED BY <3>1 DEF RangesInv, Listed
  <2>2. CASE MasterLine \/ SlaveLine
    <3>1. HeapOK(heap') /\ DictOK(nodesName', Len(heap'))
      BY <1>1, <2>2, LineOK
    <3>2. reply'.format = "nodes"
      BY <1>1, <2>2 DEF MasterLine, SlaveLine, Parsing
    <3>3. Listed'
      BY <3>2 DEF Listed
    <3> QED BY <3>1, <3>3
  <2>3. CASE KnownMaster
    <3>1. HeapOK(heap') /\ Listed' /\ nodesName' = nodesName
      BY <1>1, <2>3, KnownOK DEF KnownMaster
    <3> QED BY <1>7, <3>1
  <2>4. CASE NewMaster
    <3>1. HeapOK(heap') /\ Listed' /\ nodesName' = nodesName
      BY <1>1, <2>4, NewOK DEF NewMaster
    <3> QED BY <1>7, <3>1
  <2> QED BY <2>1, <2>2, <2>3, <2>4 DEF ParserStep
<1> QED BY <1>3, <1>4, <1>6, <1>8 DEF RangesInv

LEMMA RangesInvStep == NodesInv /\ RangesInv /\ [Next]_vars => RangesInv'
<1> SUFFICES ASSUME NodesInv, RangesInv, [Next]_vars PROVE RangesInv'
  OBVIOUS
<1>1. CASE ParserStep
  BY <1>1, RangesInvParsed
<1>2. CASE RefusalStep
  <2>1. /\ pc' \in {"refused", "undefined"} /\ UNCHANGED <<heap, cc>>
        /\ nodes' = <<>> /\ nodesName' = <<>>
    BY <1>2 DEF RefusalStep, BadLine, BadRegion, NoRegions, RefuseRoute, ParserFails
  <2>2. DOMAIN nodes' = {} /\ DOMAIN nodesName' = {}
    BY <2>1
  <2> QED BY <2>1, <2>2 DEF RangesInv, DictOK
<1>3. CASE TakeRoute
  BY <1>3, RangesInvTaken
<1>4. CASE UNCHANGED vars
  BY <1>4 DEF vars, RangesInv, Listed
<1> QED BY <1>1, <1>2, <1>3, <1>4 DEF Next, ParserStep, RefusalStep

\* The types of the properties.
LEMMA TypesFollow ==
    ASSUME NodesInv, RangesInv
    PROVE  TypeOK
<1>1. IsHeap(heap) /\ Placed /\ HeapOK(heap)
  BY DEF NodesInv, RangesInv
<1>2. DOMAIN heap = 1 .. Len(heap)
  BY <1>1, ListFacts DEF IsHeap
<1>3. pc \in {"parse", "refused", "undefined", "taken"} /\ pos \in 1 .. Len(reply.elements) + 1
  BY <1>1 DEF Placed
<1>4. Range(nodes) \cup Range(nodesName) \cup Range(cc.nodes) \subseteq DOMAIN heap
  BY <1>2 DEF RangesInv, DictOK, Range
<1>5. Range(cc.table) \subseteq DOMAIN heap \cup {None}
  <2>1. CASE cc.route_version > 0
    <3>1. PICK R : cc.table = TableOf(R) /\ \A r \in R : r.node \in 1 .. Len(heap)
      BY <2>1 DEF RangesInv, RouteOK
    <3>2. ASSUME NEW s \in DOMAIN cc.table PROVE cc.table[s] \in DOMAIN heap \cup {None}
      <4>1. s \in SlotNums
        BY <3>1, <3>2 DEF TableOf
      <4>2. CASE \E r \in R : s \in r.start .. r.end
        <5>1. PICK r \in R : cc.table[s] = r.node
          BY <3>1, <4>1, <4>2 DEF TableOf
        <5> QED BY <1>2, <3>1, <5>1
      <4>3. CASE ~\E r \in R : s \in r.start .. r.end
        BY <3>1, <4>1, <4>3 DEF TableOf
      <4> QED BY <4>2, <4>3
    <3> QED BY <3>2 DEF Range
  <2>2. CASE ~(cc.route_version > 0)
    <3>1. cc.table = [s \in SlotNums |-> None]
      BY <2>2 DEF RangesInv, RouteOK
    <3> QED BY <3>1 DEF Range
  <2> QED BY <2>1, <2>2
<1>6. ASSUME NEW id \in DOMAIN heap
      PROVE  /\ Range(heap[id].slaves) \subseteq DOMAIN heap
             /\ \A k \in DOMAIN heap[id].slots : heap[id].slots[k] \in [start : Nat, end : Nat]
             /\ Range(heap[id].migrating) \cup Range(heap[id].importing)
                   \subseteq [slot_num : Nat, remote_name : STRING]
  <2>1. NodeOK(heap[id], Len(heap))
    BY <1>1, <1>2, <1>6 DEF HeapOK
  <2>2. DOMAIN heap[id].slaves = 1 .. Len(heap[id].slaves)
    BY <2>1, ListFacts DEF NodeOK
  <2>3. Range(heap[id].slaves) \subseteq DOMAIN heap
    BY <1>2, <2>1, <2>2 DEF NodeOK, Range
  <2>4. Range(heap[id].migrating) \cup Range(heap[id].importing) \subseteq OpenSlot
    BY <2>1 DEF NodeOK, Range
  <2> QED BY <2>1, <2>3, <2>4 DEF NodeOK, OpenSlot
<1> QED BY <1>3, <1>4, <1>5, <1>6 DEF TypeOK

LEMMA RangesFollow ==
    ASSUME NodesInv, RangesInv
    PROVE  RangesApart
<1>1. TypeOK
  BY TypesFollow
<1>2. CASE cc.route_version > 0
  <2>1. PICK R : IsRanges(R) /\ cc.slots = InOrder(R) /\ cc.table = TableOf(R)
    BY <1>2 DEF RangesInv, RouteOK
  <2>2. PICK slots, table : slots = cc.slots /\ table = cc.table
    OBVIOUS
  <2>3. Consecutive(slots)
    BY <2>1, <2>2, InOrderFacts
  <2>4. ASSUME NEW j \in 1 .. Len(slots) - 1 PROVE slots[j].end < slots[j + 1].start
    <3>1. Len(slots) \in Nat
      BY <2>3, ListFacts DEF Consecutive
    <3>2. j \in 1 .. Len(slots) /\ j + 1 \in 1 .. Len(slots) /\ j < j + 1
      BY <3>1
    <3> QED BY <2>3, <3>2 DEF Consecutive
  <2>5. \A s \in SlotNums :
           /\ \A j \in DOMAIN slots : s \in slots[j].start .. slots[j].end => table[s] = slots[j].node
           /\ table[s] # None => \E j \in DOMAIN slots : s \in slots[j].start .. slots[j].end
    BY <2>1, <2>2, OrderAndTable
  <2> QED BY <1>1, <2>2, <2>4, <2>5 DEF RangesApart, node_get_by_table
<1>3. CASE ~(cc.route_version > 0)
  <2>1. cc.slots = <<>> /\ cc.table = [s \in SlotNums |-> None]
    BY <1>3 DEF RangesInv, RouteOK
  <2>2. Len(cc.slots) = 0 /\ DOMAIN cc.slots = {}
    BY <2>1
  <2>3. \A j \in 1 .. Len(cc.slots) - 1 : FALSE
    BY <2>2
  <2>4. \A s \in SlotNums : cc.table[s] = None
    BY <2>1
  <2> QED BY <1>1, <2>2, <2>3, <2>4 DEF RangesApart, node_get_by_table
<1> QED BY <1>2, <1>3

\* Whatever a node answered, and even if it gave a slot to two masters, the
\* ranges of the route in use are in order and apart, and the table that the update
\* filled has the node of the range for every slot in it, and none for the others.
THEOREM RangesAreApart == Spec => []RangesApart
<1>1. NodesInv /\ RangesInv => RangesApart
  BY RangesFollow
<1> QED BY <1>1, NodesInvariant, RangesInvInit, RangesInvStep, PTL DEF Spec

=============================================================================
