---------------------------- MODULE RedisCluster ----------------------------
(***************************************************************************)
(* The servers of a Redis cluster and the TCP connections to them.  None   *)
(* of it is code of the repository; it is modelled from what               *)
(* src/hircluster.c expects:                                               *)
(*                                                                         *)
(*  - a slot has one owner; a command sent to another node is answered     *)
(*    with MOVED and not executed;                                         *)
(*  - while a slot migrates, its owner executes the commands whose key is  *)
(*    still there and answers the others with ASK; the importing node      *)
(*    executes a command that directly follows ASKING on its connection;   *)
(*  - any node may answer TRYAGAIN or CLUSTERDOWN, or an error of its own, *)
(*    without executing the command;                                       *)
(*  - CLUSTER NODES and CLUSTER SLOTS tell what the node that is asked     *)
(*    has seen, which may be out of date;                                  *)
(*  - nodes crash and come back, their slots fail over, and connections    *)
(*    break, which the client notices at its next write or read.           *)
(*                                                                         *)
(* A link is one connection: its state as the client sees it ("broken" is  *)
(* one that the client still believes in), c->obuf, the commands written   *)
(* and not yet served, and the replies not yet read.                       *)
(***************************************************************************)
EXTENDS Naturals, Sequences

CONSTANTS
    Nodes,       \* addresses of the masters
    Slots,       \* hash slots
    None,        \* NULL
    Holders,     \* what has a connection: cluster_nodes, or asynchronous contexts
    FirstOwner,  \* the owner of each slot at first
    MaxFaults    \* bound on migrations, crashes, broken connections and refusals

ASSUME ClusterAssumption ==
    /\ Slots \subseteq Nat
    /\ Nodes \cap Slots = {}
    /\ None \notin Nodes \cup Slots \cup Holders
    /\ FirstOwner \in [Slots -> Nodes]
    /\ MaxFaults \in Nat

\* What a cluster_node is known by: its address, or, after an ASK, the number
\* of a slot.
Keys == Nodes \cup Slots

VARIABLES
    owner,     \* the node that owns a slot
    importer,  \* the node that a slot migrates to, None when it does not
    seen,      \* the owners of the slots as a node has seen them
    alive,     \* nodes that run
    link,      \* the connection of each holder
    executed,  \* history: the commands executed
    faults

clusterVars == <<owner, importer, seen, alive, faults>>

Ops == {"cmd", "ping", "asking"}

\* A command, or the part of it for one slot.
Request == [id : Nat, slot : Slots, op : Ops]

ReplyTypes == {"ok", "error", "moved", "ask", "again"}

Reply == [id : Nat, slot : Slots, op : Ops, type : ReplyTypes, to : Nodes \cup {None}]

Link ==
    [state : {"none", "open", "broken", "err"}, peer : Nodes \cup {None},
     out : Seq(Request), sent : Seq(Request), in : Seq(Reply), asking : BOOLEAN]

NewLink(state, peer) ==
    [state |-> state, peer |-> peer, out |-> <<>>, sent |-> <<>>, in |-> <<>>,
     asking |-> FALSE]

NoLink == NewLink("none", None)

ClusterTypeOK ==
    /\ owner \in [Slots -> Nodes]
    /\ importer \in [Slots -> Nodes \cup {None}]
    /\ seen \in [Nodes -> [Slots -> Nodes]]
    /\ alive \subseteq Nodes
    /\ link \in [Holders -> Link]
    /\ executed \in Seq([id : Nat, slot : Slots])
    /\ faults \in Nat

ClusterInit ==
    /\ owner = FirstOwner
    /\ importer = [s \in Slots |-> None]
    /\ seen = [n \in Nodes |-> FirstOwner]
    /\ alive = Nodes
    /\ link = [o \in Holders |-> NoLink]
    /\ executed = <<>>
    /\ faults = 0

-----------------------------------------------------------------------------
Fault ==
    /\ faults < MaxFaults
    /\ faults' = faults + 1

Migrate(s, n) ==
    /\ Fault
    /\ importer[s] = None
    /\ n # owner[s]
    /\ importer' = [importer EXCEPT ![s] = n]
    /\ UNCHANGED <<owner, seen, alive, link, executed>>

\* The two nodes concerned know; the others hear of it later.
MigrationEnds(s) ==
    /\ importer[s] # None
    /\ owner' = [owner EXCEPT ![s] = importer[s]]
    /\ importer' = [importer EXCEPT ![s] = None]
    /\ seen' = [n \in Nodes |->
                  IF n \in {owner[s], importer[s]}
                  THEN [seen[n] EXCEPT ![s] = importer[s]] ELSE seen[n]]
    /\ UNCHANGED <<alive, link, executed, faults>>

Gossip(n) ==
    /\ seen[n] # owner
    /\ seen' = [seen EXCEPT ![n] = owner]
    /\ UNCHANGED <<owner, importer, alive, link, executed, faults>>

Break(l) == IF l.state = "open" THEN [l EXCEPT !.state = "broken", !.sent = <<>>] ELSE l

Crash(n) ==
    /\ Fault
    /\ n \in alive
    /\ alive' = alive \ {n}
    /\ link' = [o \in Holders |-> IF link[o].peer = n THEN Break(link[o]) ELSE link[o]]
    /\ UNCHANGED <<owner, importer, seen, executed>>

Recover(n) ==
    /\ n \notin alive
    /\ alive' = alive \cup {n}
    /\ UNCHANGED <<owner, importer, seen, link, executed, faults>>

\* The slots of a node that crashed go to another one.
Failover(n, m) ==
    /\ n \notin alive
    /\ m \in alive
    /\ \E s \in Slots : owner[s] = n
    /\ owner' = [s \in Slots |-> IF owner[s] = n THEN m ELSE owner[s]]
    /\ importer' = [s \in Slots |-> IF owner[s] = n \/ importer[s] = n THEN None ELSE importer[s]]
    /\ seen' = [seen EXCEPT ![m] = owner']
    /\ UNCHANGED <<alive, link, executed, faults>>

Drop(o) ==
    /\ Fault
    /\ link[o].state = "open"
    /\ link' = [link EXCEPT ![o] = Break(@)]
    /\ UNCHANGED <<owner, importer, seen, alive, executed>>

\* The answers that node n may give to a command for slot s.
Answers(n, s, asking) ==
    IF owner[s] = n
    THEN {<<"ok", None>>} \cup
         (IF importer[s] # None THEN {<<"ask", importer[s]>>} ELSE {})
    ELSE IF importer[s] = n /\ asking
         THEN {<<"ok", None>>}
         ELSE {<<"moved", None>>}

\* A node serves the next command of a connection.
Serve(o) ==
    LET l == link[o]
        q == Head(l.sent)
        Respond(type, to) ==
            link' = [link EXCEPT ![o] =
                       [l EXCEPT !.sent = Tail(l.sent), !.asking = (q.op = "asking"),
                                 !.in = Append(l.in, [id |-> q.id, slot |-> q.slot, op |-> q.op,
                                                      type |-> type, to |-> to])]]
    IN  /\ l.state = "open"
        /\ l.sent # <<>>
        /\ \/ /\ q.op # "cmd"
              /\ Respond("ok", None)
              /\ UNCHANGED <<executed, faults>>
           \/ /\ q.op = "cmd"
              /\ \E a \in Answers(l.peer, q.slot, l.asking) :
                    /\ Respond(a[1], a[2])
                    /\ executed' = IF a[1] = "ok"
                                   THEN Append(executed, [id |-> q.id, slot |-> q.slot])
                                   ELSE executed
              /\ UNCHANGED faults
           \/ /\ q.op = "cmd"
              /\ Fault
              /\ \E type \in {"again", "error"} : Respond(type, None)
              /\ UNCHANGED executed
        /\ UNCHANGED <<owner, importer, seen, alive>>

ClusterNext ==
    \/ \E s \in Slots, n \in Nodes : Migrate(s, n)
    \/ \E s \in Slots : MigrationEnds(s)
    \/ \E n \in Nodes : Gossip(n) \/ Crash(n) \/ Recover(n)
    \/ \E n, m \in Nodes : Failover(n, m)
    \/ \E o \in Holders : Drop(o) \/ Serve(o)
=============================================================================
