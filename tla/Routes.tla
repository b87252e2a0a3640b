------------------------------- MODULE Routes -------------------------------
(***************************************************************************)
(* How src/hircluster.c makes a route of what a node says of the cluster:  *)
(* parse_cluster_nodes and parse_cluster_slots, the table that             *)
(* cluster_update_route_by_addr fills, the sorted slot ranges, and the      *)
(* connections that cluster_nodes_swap_ctx carries over.                   *)
(*                                                                         *)
(* A reply is a sequence of lines (CLUSTER NODES) or of regions (CLUSTER   *)
(* SLOTS) whose text is abstracted to the fields that are read.  A step    *)
(* parses one of them.  Memory does not run out.                           *)
(***************************************************************************)
EXTENDS Integers, Sequences, SequencesExt, FiniteSets

CONSTANTS
    REDIS_CLUSTER_SLOTS,
    Replies,       \* what a node may answer: [format, elements, cluster]
    FlagSets,      \* the options of the context, sets of flags
    OldRoutes,     \* the routes there may be before the update: address -> slots
    None

ASSUME RoutesAssumption == REDIS_CLUSTER_SLOTS \in Nat \ {0} /\ None \notin Nat

\* A list of whatever it has.
IsList(s) == s \in Seq(Range(s))

\* A reply is a list of lines, or of regions with their lists of hosts.
ASSUME RepliesAssumption ==
    \A r \in Replies :
        /\ IsList(r.elements)
        /\ r.format = "nodes" => \A i \in DOMAIN r.elements :
              LET parts == r.elements[i].slots
              IN  /\ r.elements[i].parts \in Nat
                  /\ \A k \in DOMAIN parts :
                        /\ parts[k].kind = "range" => {parts[k].start, parts[k].end} \subseteq Nat
                        /\ parts[k].kind \in {"migrating", "importing"} =>
                              parts[k].slot \in Nat /\ parts[k].remote \in STRING
        /\ r.format = "slots" => \A i \in DOMAIN r.elements :
              LET e == r.elements[i] IN IsList(e.hosts) /\ {e.start, e.end} \subseteq Nat

SlotNums == 0 .. REDIS_CLUSTER_SLOTS - 1

\* The nodes of an old route have addresses and ranges, and no two share a slot.
ASSUME OldRoutesAssumption ==
    \A old \in OldRoutes :
        /\ IsFiniteSet(DOMAIN old)
        /\ None \notin DOMAIN old
        /\ \A a \in DOMAIN old : \A k \in DOMAIN old[a] :
              old[a][k] \in [start : SlotNums, end : SlotNums] /\ old[a][k].start <= old[a][k].end
        /\ \A a, b \in DOMAIN old : \A k \in DOMAIN old[a], j \in DOMAIN old[b] :
              \/ a = b /\ k = j
              \/ old[a][k].end < old[b][j].start
              \/ old[b][j].end < old[a][k].start

VARIABLES
    flags,      \* cc->flags
    reply,      \* the reply that is parsed, and the cluster it describes
    pc,
    pos,        \* the line or region that is parsed next
    heap,       \* the nodes that have been made, of this route and the old one
    nodes,      \* the dict that is built: address -> node
    nodesName,  \* nodes_name: name of a master -> node
    cc,         \* [nodes, slots, table, route_version] of the context
    closed      \* the connections that were closed

vars == <<flags, reply, pc, pos, heap, nodes, nodesName, cc, closed>>

EmptyRoute == [nodes |-> <<>>, slots |-> <<>>, table |-> [s \in SlotNums |-> None],
               route_version |-> 0]

\* cluster_node_init, with the fields that come from the reply.
Node(name, addr, role, myself) ==
    [name |-> name, addr |-> addr, role |-> role, myself |-> myself, slots |-> <<>>,
     slaves |-> <<>>, migrating |-> <<>>, importing |-> <<>>, con |-> None]

\* A function with one more argument.
With(f, x, y) == [z \in DOMAIN f \cup {x} |-> IF z = x THEN y ELSE f[z]]

\* The ranges [start, end, node] in the order of cluster_slot_start_cmp.
InOrder(ranges) ==
    [j \in 1 .. Cardinality(ranges) |->
        CHOOSE r \in ranges : Cardinality({q \in ranges : q.start < r.start}) = j - 1]

\* The table that ranges fill.
TableOf(ranges) ==
    [s \in SlotNums |->
        IF \E r \in ranges : s \in r.start .. r.end
        THEN (CHOOSE r \in ranges : s \in r.start .. r.end).node
        ELSE None]

\* An old route: every node has a connection, which is named after it.
OldHeap(old) ==
    LET addrs == SetToSeq(DOMAIN old)
    IN  [n \in DOMAIN addrs |->
            [Node(addrs[n], addrs[n], "master", FALSE) EXCEPT
                !.slots = old[addrs[n]], !.con = addrs[n]]]

OldRoute(old) ==
    LET hp == OldHeap(old)
        id(a) == CHOOSE n \in DOMAIN hp : hp[n].addr = a
        ranges == UNION {{[start |-> old[a][k].start, end |-> old[a][k].end, node |-> id(a)] :
                            k \in DOMAIN old[a]} : a \in DOMAIN old}
    IN  IF old = <<>> THEN EmptyRoute
        ELSE [nodes |-> [a \in DOMAIN old |-> id(a)], slots |-> InOrder(ranges),
              table |-> TableOf(ranges), route_version |-> 1]

Init ==
    /\ flags \in FlagSets
    /\ reply \in Replies
    /\ pc = "parse"
    /\ pos = 1
    /\ \E old \in OldRoutes : heap = OldHeap(old) /\ cc = OldRoute(old)
    /\ nodes = <<>>
    /\ nodesName = <<>>
    /\ closed = {}

-----------------------------------------------------------------------------
(* parse_cluster_nodes.  A line has the name, address, role, master and    *)
(* slots of a node: [parts, name, addr, role, myself, master, slots].      *)

Line == reply.elements[pos]

\* The parts that stand for a range of slots; those that do not are skipped.
GoodParts(parts) ==
    {k \in DOMAIN parts :
        /\ parts[k].kind = "range"
        /\ parts[k].start <= parts[k].end
        /\ parts[k].end < REDIS_CLUSTER_SLOTS}

\* node_get_with_nodes
NodeOfLine == Node(Line.name, Line.addr, Line.role, Line.myself)

\* Mutant: a range of one slot is no range.
RangesOfLong(parts) ==
    [k \in {k \in GoodParts(parts) : parts[k].start < parts[k].end} |->
        [start |-> parts[k].start, end |-> parts[k].end]]

\* The ranges of slots that a line lists, each at the place of its part.
RangesOf(parts) ==
    [k \in GoodParts(parts) |-> [start |-> parts[k].start, end |-> parts[k].end]]

\* The open slots, as cluster_open_slot_create makes them, likewise.
OpenSlots(parts, kind) ==
    [k \in {k \in DOMAIN parts : "ADD_OPENSLOT" \in flags /\ parts[k].kind = kind} |->
        [slot_num |-> parts[k].slot, remote_name |-> parts[k].remote]]

\* Mutant: the slaves that were read before their master are lost, but for one.
MapMasterFirstOnly(hp, id, old) ==
    [hp EXCEPT ![id].slaves = <<old>>, ![old].slaves = <<>>]

\* A master whose slaves were read before it: the first of them has the others.
MapMaster(hp, id, old) ==
    [hp EXCEPT ![id].slaves = <<old>> \o Reverse(hp[old].slaves), ![old].slaves = <<>>]

\* cluster_master_slave_mapping_with_name, for the node id.
TwoMasters(hp, id, master) ==
    /\ master \in DOMAIN nodesName
    /\ hp[id].role = "master"
    /\ hp[nodesName[master]].role = "master"

Mapped(hp, id, master) ==
    IF master \notin DOMAIN nodesName THEN hp
    ELSE IF hp[id].role = "master" THEN MapMaster(hp, id, nodesName[master])
    ELSE [hp EXCEPT ![nodesName[master]].slaves = Append(@, id)]

MappedName(hp, id, master) ==
    IF master \in DOMAIN nodesName /\ hp[id].role = "slave"
    THEN nodesName
    ELSE With(nodesName, master, id)

Parsing(format) ==
    /\ pc = "parse"
    /\ reply.format = format
    /\ pos <= Len(reply.elements)

\* The parser returns NULL, and what it made is freed.
ParserFails ==
    /\ pc' = "refused"
    /\ nodes' = <<>>
    /\ nodesName' = <<>>
    /\ UNCHANGED <<flags, reply, pos, heap, cc, closed>>

\* The address is ":0", or the node is of no use: the next line.
SkipLine ==
    /\ Parsing("nodes")
    /\ Line.parts >= 8
    /\ \/ Line.addr = None
       \/ Line.role \notin {"master", "slave"}
       \/ Line.role = "slave" /\ "ADD_SLAVE" \notin flags
    /\ pos' = pos + 1
    /\ UNCHANGED <<flags, reply, pc, heap, nodes, nodesName, cc, closed>>

Useful ==
    /\ Line.parts >= 8
    /\ Line.addr # None
    /\ \/ Line.role = "master"
       \/ Line.role = "slave" /\ "ADD_SLAVE" \in flags

\* Too few parts, an address without a port, or the address of another master.
BadLine ==
    /\ Parsing("nodes")
    /\ \/ Line.parts < 8
       \/ Useful /\ ~Line.port
       \/ Useful /\ Line.port /\ Line.role = "master" /\ Line.addr \in DOMAIN nodes
    /\ ParserFails

MasterLine ==
    /\ Parsing("nodes")
    /\ Useful
    /\ Line.port
    /\ Line.role = "master"
    /\ Line.addr \notin DOMAIN nodes
    /\ LET id == Len(heap) + 1
           hp == Append(heap, [NodeOfLine EXCEPT !.slots = RangesOf(Line.slots),
                                                 !.migrating = OpenSlots(Line.slots, "migrating"),
                                                 !.importing = OpenSlots(Line.slots, "importing")])
       IN  /\ nodes' = With(nodes, Line.addr, id)
           /\ IF "ADD_SLAVE" \notin flags
              THEN heap' = hp /\ UNCHANGED <<nodesName, pc>>
              \* The master is freed, and freed again with the dict.
              ELSE IF TwoMasters(hp, id, Line.name)
              THEN heap' = hp /\ pc' = "undefined" /\ UNCHANGED nodesName
              ELSE /\ heap' = Mapped(hp, id, Line.name)
                   /\ nodesName' = MappedName(hp, id, Line.name)
                   /\ UNCHANGED pc
    /\ pos' = pos + 1
    /\ UNCHANGED <<flags, reply, cc, closed>>

SlaveLine ==
    /\ Parsing("nodes")
    /\ Useful
    /\ Line.port
    /\ Line.role = "slave"
    /\ LET id == Len(heap) + 1
           hp == Append(heap, NodeOfLine)
       IN  /\ heap' = Mapped(hp, id, Line.master)
           /\ nodesName' = MappedName(hp, id, Line.master)
    /\ pos' = pos + 1
    /\ UNCHANGED <<flags, reply, pc, nodes, cc, closed>>

-----------------------------------------------------------------------------
(* parse_cluster_slots.  A region has its bounds and its nodes, the master *)
(* first: [start, end, hosts], where a host is [addr, good, wellTyped].    *)

Region == reply.elements[pos]

Hosts == Region.hosts

\* node_get_with_slots
NodeOfHost(host, role) == Node(None, host.addr, role, FALSE)

Known == Hosts[1].addr \in DOMAIN nodes

\* Bounds in the wrong order, no node, a node that is no array of an address and
\* a port, a host that is empty or a port that is none.  The slaves of a master
\* that is known already are not looked at, nor their hosts without ADD_SLAVE.
BadRegion ==
    /\ Parsing("slots")
    /\ \/ Region.start > Region.end
       \/ Hosts = <<>>
       \/ Hosts # <<>> /\ ~Hosts[1].wellTyped
       \/ /\ Hosts # <<>>
          /\ ~Known
          /\ \/ ~Hosts[1].good
             \/ \E k \in 2 .. Len(Hosts) :
                   ~Hosts[k].wellTyped \/ ("ADD_SLAVE" \in flags /\ ~Hosts[k].good)
    /\ ParserFails

GoodHosts(from) ==
    \A k \in from .. Len(Hosts) : Hosts[k].wellTyped /\ (Hosts[k].good \/ "ADD_SLAVE" \notin flags)

\* cluster_slot_ref_node
WithRange(node) == [node EXCEPT !.slots = Append(@, [start |-> Region.start, end |-> Region.end])]

KnownMaster ==
    /\ Parsing("slots")
    /\ Region.start <= Region.end
    /\ Hosts # <<>>
    /\ Hosts[1].wellTyped
    /\ Known
    /\ heap' = [heap EXCEPT ![nodes[Hosts[1].addr]] = WithRange(@)]
    /\ pos' = pos + 1
    /\ UNCHANGED <<flags, reply, pc, nodes, nodesName, cc, closed>>

NewMaster ==
    /\ Parsing("slots")
    /\ Region.start <= Region.end
    /\ Hosts # <<>>
    /\ Hosts[1].wellTyped
    /\ ~Known
    /\ Hosts[1].good
    /\ GoodHosts(2)
    /\ LET id == Len(heap) + 1
           slaves == IF "ADD_SLAVE" \in flags THEN Len(Hosts) - 1 ELSE 0
           master == [WithRange(NodeOfHost(Hosts[1], "master")) EXCEPT
                        !.slaves = [k \in 1 .. slaves |-> id + k]]
       IN  /\ heap' = heap \o <<master>>
                        \o [k \in 1 .. slaves |-> NodeOfHost(Hosts[k + 1], "slave")]
           /\ nodes' = With(nodes, Hosts[1].addr, id)
    /\ pos' = pos + 1
    /\ UNCHANGED <<flags, reply, pc, nodesName, cc, closed>>

\* An array without elements is refused; a text without lines is not.
NoRegions ==
    /\ pc = "parse"
    /\ reply.format = "slots"
    /\ reply.elements = <<>>
    /\ ParserFails

-----------------------------------------------------------------------------
(* cluster_update_route_by_addr, behind the parser. *)

\* The ranges of all masters, each as its node and its place in node->slots.
Slots == UNION {{<<id, k>> : k \in DOMAIN heap[id].slots} : id \in Range(nodes)}

Start(x) == heap[x[1]].slots[x[2]].start

End(x) == heap[x[1]].slots[x[2]].end

\* A range that ends before its start, or behind the last slot.
BadRange == \E x \in Slots : Start(x) > End(x) \/ End(x) >= REDIS_CLUSTER_SLOTS

\* Mutant: only the first slots are compared.
OverlapAtStart == \E x, y \in Slots : x # y /\ Start(x) = Start(y)

\* table[k] != NULL when a range is filled in.
Overlap == \E x, y \in Slots : x # y /\ Start(x) <= End(y) /\ Start(y) <= End(x)

\* The array slots, before it is sorted.
Ranges == {[start |-> Start(x), end |-> End(x), node |-> x[1]] : x \in Slots}

\* Mutant: the old nodes lose their connections, and the new ones do not get them.
SwappedDrops(hp, from, to) ==
    [id \in DOMAIN hp |->
        IF \E a \in DOMAIN to \cap DOMAIN from : id = from[a]
        THEN [hp[id] EXCEPT !.con = hp[to[hp[id].addr]].con]
        ELSE hp[id]]

\* Mutant: the new nodes get copies of the connections.
SwappedCopy(hp, from, to) ==
    [id \in DOMAIN hp |->
        IF \E a \in DOMAIN to \cap DOMAIN from : id = to[a]
        THEN [hp[id] EXCEPT !.con = hp[from[hp[id].addr]].con]
        ELSE hp[id]]

\* cluster_nodes_swap_ctx: a node that stays gets the connection it had.
Swapped(hp, from, to) ==
    [id \in DOMAIN hp |->
        IF \E a \in DOMAIN to \cap DOMAIN from : id = to[a] /\ hp[from[a]].con # None
        THEN [hp[id] EXCEPT !.con = hp[from[hp[id].addr]].con]
        ELSE IF \E a \in DOMAIN to \cap DOMAIN from : id = from[a]
        THEN [hp[id] EXCEPT !.con = hp[to[hp[id].addr]].con]
        ELSE hp[id]]

Parsed == pc = "parse" /\ pos > Len(reply.elements) /\ (reply.format = "slots" => pos > 1)

\* The error path: the new nodes are freed; behind the sort the iterators, which
\* were released before, are released again.
RefuseRoute ==
    /\ Parsed
    /\ BadRange \/ Overlap
    /\ pc' = IF BadRange THEN "refused" ELSE "undefined"
    /\ nodes' = <<>>
    /\ nodesName' = <<>>
    /\ UNCHANGED <<flags, reply, pos, heap, cc, closed>>

\* The old nodes are freed with the connections they have then.
TakeRoute ==
    /\ Parsed
    /\ ~BadRange
    /\ ~Overlap
    /\ heap' = Swapped(heap, cc.nodes, nodes)
    /\ closed' = closed \cup ({heap'[id].con : id \in Range(cc.nodes)} \ {None})
    /\ cc' = [nodes |-> nodes, slots |-> InOrder(Ranges), table |-> TableOf(Ranges),
              route_version |-> cc.route_version + 1]
    /\ pc' = "taken"
    /\ nodes' = <<>>
    /\ nodesName' = <<>>
    /\ UNCHANGED <<flags, reply, pos>>

Next ==
    \/ SkipLine
    \/ BadLine
    \/ MasterLine
    \/ SlaveLine
    \/ BadRegion
    \/ KnownMaster
    \/ NewMaster
    \/ NoRegions
    \/ RefuseRoute
    \/ TakeRoute

Spec == Init /\ [][Next]_vars

-----------------------------------------------------------------------------
(* Lookups. *)

node_get_by_table(route, s) == route.table[s]

-----------------------------------------------------------------------------
(* What a reply says of the cluster, [owner, slaveOf], that it describes.  *)

MasterLines(r) ==
    {i \in DOMAIN r.elements : r.elements[i].role = "master" /\ r.elements[i].addr # None}

SlaveLines(r) ==
    {i \in DOMAIN r.elements : r.elements[i].role = "slave" /\ r.elements[i].addr # None}

\* Who is said to own which slots: the parts of the lines, or the regions.
Claims(r) ==
    IF r.format = "nodes"
    THEN UNION {{<<i, k>> : k \in GoodParts(r.elements[i].slots)} : i \in MasterLines(r)}
    ELSE {<<i, 0>> : i \in DOMAIN r.elements}

Claim(r, x) ==
    LET e == r.elements[x[1]]
    IN  IF r.format = "nodes"
        THEN [addr |-> e.addr, start |-> e.slots[x[2]].start, end |-> e.slots[x[2]].end]
        ELSE [addr |-> e.hosts[1].addr, start |-> e.start, end |-> e.end]

\* Every line or region is complete, and no two speak of the same master or slots.
WellFormed(r) ==
    /\ r.format = "nodes" =>
          /\ \A i \in DOMAIN r.elements : r.elements[i].parts >= 8 /\ r.elements[i].port
          /\ \A i, j \in MasterLines(r) : i # j =>
                r.elements[i].addr # r.elements[j].addr /\ r.elements[i].name # r.elements[j].name
    /\ r.format = "slots" =>
          \A i \in DOMAIN r.elements :
             LET e == r.elements[i]
             IN  /\ e.start <= e.end /\ e.end < REDIS_CLUSTER_SLOTS
                 /\ e.hosts # <<>>
                 /\ \A k \in DOMAIN e.hosts : e.hosts[k].wellTyped /\ e.hosts[k].good
    /\ \A x, y \in Claims(r) : x # y =>
          Claim(r, x).end < Claim(r, y).start \/ Claim(r, y).end < Claim(r, x).start

\* A slot is claimed for its owner, and for nobody if it has none.
OwnersClaim(r) ==
    \A s \in SlotNums :
        \/ \E x \in Claims(r) :
              s \in Claim(r, x).start .. Claim(r, x).end /\ Claim(r, x).addr = r.cluster.owner[s]
        \/ /\ r.cluster.owner[s] = None
           /\ \A x \in Claims(r) : s \notin Claim(r, x).start .. Claim(r, x).end

\* A slave is named with its master, and once with each region of it.
SlavesClaim(r) ==
    LET of(a) == {x \in DOMAIN r.cluster.slaveOf : r.cluster.slaveOf[x] = a}
    IN  /\ r.format = "nodes" =>
              /\ \A i, j \in SlaveLines(r) : i # j => r.elements[i].addr # r.elements[j].addr
              /\ \A i \in MasterLines(r) :
                    of(r.elements[i].addr) =
                       {r.elements[j].addr :
                          j \in {j \in SlaveLines(r) : r.elements[j].master = r.elements[i].name}}
        /\ r.format = "slots" => \A i \in DOMAIN r.elements :
              LET hosts == r.elements[i].hosts
              IN  /\ \A k, j \in DOMAIN hosts \ {1} : k # j => hosts[k].addr # hosts[j].addr
                  /\ of(hosts[1].addr) = {hosts[k].addr : k \in DOMAIN hosts \ {1}}

ASSUME DescribedAssumption ==
    \A r \in Replies :
        /\ r.format \in {"nodes", "slots"}
        /\ r.cluster # None => WellFormed(r) /\ OwnersClaim(r) /\ SlavesClaim(r)

-----------------------------------------------------------------------------
(* Properties.  The cluster of a reply is None if it describes none.       *)

\* Every variable holds a value of its C type; a node of the table, of a dict
\* or of a list of slaves is one that was made.
TypeOK ==
    LET Ids == DOMAIN heap
    IN  /\ pc \in {"parse", "refused", "undefined", "taken"}
        /\ pos \in 1 .. Len(reply.elements) + 1
        /\ Range(nodes) \cup Range(nodesName) \cup Range(cc.nodes) \subseteq Ids
        /\ Range(cc.table) \subseteq Ids \cup {None}
        /\ \A id \in Ids :
              /\ Range(heap[id].slaves) \subseteq Ids
              /\ \A k \in DOMAIN heap[id].slots : heap[id].slots[k] \in [start : Nat, end : Nat]
              /\ Range(heap[id].migrating) \cup Range(heap[id].importing)
                    \subseteq [slot_num : Nat, remote_name : STRING]

Described == reply.cluster # None

AddrOf(id) == IF id = None THEN None ELSE heap[id].addr

\* The table that an update leaves sends every slot to the master that owns it,
\* and the others nowhere, whatever the order of the lines or regions and
\* whichever of the two commands was asked; and a reply that describes a cluster
\* in which slots are owned is not refused.
RouteOfCluster ==
    Described =>
        /\ pc = "taken" =>
              \A s \in SlotNums : AddrOf(node_get_by_table(cc, s)) = reply.cluster.owner[s]
        /\ pc \in {"refused", "undefined"} =>
              \A s \in SlotNums : reply.cluster.owner[s] = None

\* Every slave is in the list of its master, once, and in no other list,
\* whichever of them is read first.
SlavesOfMasters ==
    pc = "taken" /\ Described =>
        \A a \in DOMAIN cc.nodes :
            LET list == heap[cc.nodes[a]].slaves
                addrs == {heap[list[k]].addr : k \in DOMAIN list}
            IN  /\ Cardinality(addrs) = Len(list)
                /\ addrs = IF "ADD_SLAVE" \in flags
                           THEN {x \in DOMAIN reply.cluster.slaveOf : reply.cluster.slaveOf[x] = a}
                           ELSE {}
                /\ \A k \in DOMAIN list : heap[list[k]].slaves = <<>>

\* The ranges of the route in use are in order and no two share a slot, even if a
\* reply gives a slot to two masters; and the table has the node of the range for
\* every slot in it, and none for the others.
RangesApart ==
    /\ TypeOK
    /\ \A j \in 1 .. Len(cc.slots) - 1 : cc.slots[j].end < cc.slots[j + 1].start
    /\ \A s \in SlotNums :
          /\ \A j \in DOMAIN cc.slots :
                s \in cc.slots[j].start .. cc.slots[j].end => node_get_by_table(cc, s) = cc.slots[j].node
          /\ node_get_by_table(cc, s) # None =>
                \E j \in DOMAIN cc.slots : s \in cc.slots[j].start .. cc.slots[j].end

\* A node that stays in the cluster keeps its connection; that of a node that
\* has gone is closed; and no node is left with a connection that was closed.
ConnectionsCarried ==
    pc = "taken" =>
        /\ closed \cap DOMAIN cc.nodes = {}
        /\ \A a \in DOMAIN cc.nodes : heap[cc.nodes[a]].con \in {a, None}
        /\ \A id \in DOMAIN heap :
              heap[id].con # None => id \in Range(cc.nodes) \/ heap[id].con \in closed

\* The connections there are, of a node or closed.
Connections == ({heap[id].con : id \in DOMAIN heap} \ {None}) \cup closed

\* No step of an update loses a connection: what a node had is handed to its
\* successor or closed, whether the reply is taken or refused.
NoneDropped == [][Connections' = Connections]_vars
=============================================================================
