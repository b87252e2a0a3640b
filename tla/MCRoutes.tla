------------------------------ MODULE MCRoutes ------------------------------
(***************************************************************************)
(* Routes for TLC: two masters and two slaves, every assignment of slots,  *)
(* every order of lines and regions, and replies that are wrong in each of *)
(* the ways the parsers look for.                                          *)
(***************************************************************************)
EXTENDS Routes, TLC

Masters == {"m1", "m2"}
Slaves == {"s1", "s2"}

Clusters == [owner : [SlotNums -> Masters \cup {None}], slaveOf : [Slaves -> Masters]]

\* The maximal ranges of slots that a master owns.
Runs(c, m) ==
    {r \in [start : SlotNums, end : SlotNums] :
        /\ r.start <= r.end
        /\ \A s \in r.start .. r.end : c.owner[s] = m
        /\ r.start > 0 => c.owner[r.start - 1] # m
        /\ r.end + 1 \in SlotNums => c.owner[r.end + 1] # m}

RangePart(r) == [kind |-> "range", start |-> r.start, end |-> r.end]
Migrating(s, n) == [kind |-> "migrating", slot |-> s, remote |-> n]
Importing(s, n) == [kind |-> "importing", slot |-> s, remote |-> n]
Junk == [kind |-> "junk"]

Parts(c, m) ==
    LET runs == SetToSortSeq(Runs(c, m), LAMBDA x, y : x.start < y.start)
    IN  [k \in DOMAIN runs |-> RangePart(runs[k])]
        \o (IF m = "m1" THEN <<Migrating(0, "m2"), Junk>> ELSE <<Importing(0, "m1")>>)

NodeLine(name, addr, role, master, slots) ==
    [parts |-> 8 + Len(slots), name |-> name, addr |-> addr, port |-> TRUE, role |-> role,
     myself |-> name = "m1", master |-> master, slots |-> slots]

LineOf(c, n) ==
    IF n \in Masters THEN NodeLine(n, n, "master", None, Parts(c, n))
    ELSE NodeLine(n, n, "slave", c.slaveOf[n], <<>>)

NoAddr == NodeLine("x1", None, "master", None, <<>>)
Handshake == NodeLine("x2", "x2", "handshake", None, <<>>)

Orders(S) == {f \in [1 .. Cardinality(S) -> S] : Range(f) = S}

NodesReplies ==
    {[format |-> "nodes", cluster |-> c,
      elements |-> <<NoAddr>> \o [i \in DOMAIN o |-> LineOf(c, o[i])] \o <<Handshake>>] :
        c \in Clusters, o \in Orders(Masters \cup Slaves)}

Host(a) == [addr |-> a, wellTyped |-> TRUE, good |-> TRUE]
BadHost == [addr |-> "x3", wellTyped |-> TRUE, good |-> FALSE]
NoHost == [addr |-> "x4", wellTyped |-> FALSE, good |-> FALSE]

RegionOf(c, m, r) ==
    LET slaves == SetToSeq({x \in Slaves : c.slaveOf[x] = m})
    IN  [start |-> r.start, end |-> r.end,
         hosts |-> <<Host(m)>> \o [k \in DOMAIN slaves |-> Host(slaves[k])]]

SlotsReplies ==
    UNION {{[format |-> "slots", cluster |-> c, elements |-> o] :
              o \in Orders(UNION {{RegionOf(c, m, r) : r \in Runs(c, m)} : m \in Masters})} :
           c \in Clusters}

WrongNodes(lines) == [format |-> "nodes", cluster |-> None, elements |-> lines]
WrongSlots(regions) == [format |-> "slots", cluster |-> None, elements |-> regions]

Master(n, addr, parts) == NodeLine(n, addr, "master", None, parts)
AllSlots == RangePart([start |-> 0, end |-> REDIS_CLUSTER_SLOTS - 1])
LastSlot == RangePart([start |-> REDIS_CLUSTER_SLOTS - 1, end |-> REDIS_CLUSTER_SLOTS - 1])
All(hosts) == [start |-> 0, end |-> REDIS_CLUSTER_SLOTS - 1, hosts |-> hosts]

WrongReplies ==
    {WrongNodes(<<>>),
     WrongNodes(<<Master("m1", "m1", <<AllSlots>>), Master("m2", "m2", <<LastSlot>>)>>),
     WrongNodes(<<Master("m1", "m1", <<AllSlots>>), Master("m2", "m1", <<>>)>>),
     WrongNodes(<<Master("m1", "m1", <<AllSlots>>), Master("m1", "m2", <<>>)>>),
     WrongNodes(<<[Master("m1", "m1", <<>>) EXCEPT !.parts = 7]>>),
     WrongNodes(<<[Master("m1", "m1", <<>>) EXCEPT !.port = FALSE]>>),
     WrongNodes(<<Master("m1", "m1", <<RangePart([start |-> 1, end |-> REDIS_CLUSTER_SLOTS])>>)>>),
     WrongNodes(<<NodeLine("s1", "s1", "slave", "m9", <<>>), Master("m1", "m1", <<AllSlots>>)>>),
     WrongSlots(<<>>),
     WrongSlots(<<All(<<Host("m1")>>), All(<<Host("m2")>>)>>),
     WrongSlots(<<[All(<<Host("m1")>>) EXCEPT !.start = 1, !.end = 0]>>),
     WrongSlots(<<[All(<<Host("m1")>>) EXCEPT !.end = REDIS_CLUSTER_SLOTS]>>),
     WrongSlots(<<All(<<>>)>>),
     WrongSlots(<<All(<<BadHost>>)>>),
     WrongSlots(<<All(<<NoHost>>)>>),
     WrongSlots(<<All(<<Host("m1"), BadHost>>)>>),
     WrongSlots(<<All(<<Host("m1"), NoHost>>)>>)}

MCReplies == NodesReplies \cup SlotsReplies \cup WrongReplies

MCFlagSets == {{}, {"ADD_SLAVE"}, {"ADD_SLAVE", "ADD_OPENSLOT"}}

\* No route, and one whose second node has gone.
MCOldRoutes ==
    {<<>>, "m1" :> <<[start |-> 0, end |-> 1]>> @@ "m0" :> <<[start |-> 2, end |-> 2]>>}
=============================================================================
