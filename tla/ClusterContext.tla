--------------------------- MODULE ClusterContext ---------------------------
(***************************************************************************)
(* The synchronous cluster API of src/hircluster.c on one                  *)
(* redisClusterContext: redisClusterCommand (with the redirection loop of  *)
(* redis_cluster_command_execute), pipelining with redisClusterAppend-     *)
(* Command, redisClusterGetReply and redisClusterReset, the route update   *)
(* and the connections to the nodes.                                       *)
(*                                                                         *)
(* A command is its sequence of slots: the one slot of its keys, or, for   *)
(* MGET, MSET and DEL, the slots of the sub-commands that it is split      *)
(* into, in ascending order.  The library blocks; the interleavings are    *)
(* those of its reads and writes with what the cluster does.  pc is where  *)
(* the thread is:                                                          *)
(*                                                                         *)
(*   "idle"     in the application                                         *)
(*   "retry"    at the label retry of redis_cluster_command_execute        *)
(*   "scan"     in the loop of node_get_witch_connected                    *)
(*   "ping", "asking", "wait"   blocked for the reply to PING, to ASKING   *)
(*              or to the command, on the connection of cur                *)
(*   "append"   in the loop of redisClusterAppendFormattedCommand          *)
(*   "get"      in redisClusterGetReply, before __redisClusterGetReply     *)
(*   "await"    blocked in __redisClusterGetReply, on the connection of cur *)
(*   "drain", "resetEnd"   in and after the loop of redisClusterReset      *)
(***************************************************************************)
EXTENDS RedisCluster

CONSTANTS
    Orphan,          \* a cluster_node that no table refers to
    Lost,            \* slots that a node may know no owner of
    SlotLists,       \* the commands the application uses, as sequences of slots
    AppCalls,        \* the functions it calls
    Careful,         \* it stops at an error in a pipeline and calls redisClusterReset
    RouteUseSlots,   \* HIRCLUSTER_FLAG_ROUTE_USE_SLOTS
    HasTimeout,      \* redisClusterSetOptionTimeout was called
    MaxRedirect,     \* cc->max_redirect_count
    MaxCalls         \* bound on the commands

ASSUME ContextAssumption ==
    /\ Holders = Keys \cup {Orphan}
    /\ Orphan \notin Keys
    /\ Lost \subseteq Slots
    /\ Lost # Slots
    /\ SlotLists \subseteq Seq(Slots)
    /\ <<>> \notin SlotLists
    /\ AppCalls \subseteq {"command", "append", "getReply", "reset"}
    /\ {Careful, RouteUseSlots, HasTimeout} \subseteq BOOLEAN
    /\ MaxRedirect \in Nat
    /\ MaxCalls \in Nat

\* command_pre_fragment makes one sub-command for each slot.
ASSUME SplitAssumption ==
    \A slots \in SlotLists : \A i, j \in 1 .. Len(slots) : slots[i] = slots[j] => i = j

VARIABLES
    table,       \* cc->table
    nodes,       \* cc->nodes: key -> address of the node, None if absent
    requests,    \* cc->requests, <<>> when there is none
    listed,      \* cc->requests # NULL
    needUpdate,  \* cc->need_update_route
    retryCount,  \* cc->retry_count
    ccErr,       \* cc->err # 0
    pc,
    cur,         \* the cluster_node whose connection is in use
    tried,       \* the nodes that node_get_witch_connected has passed
    todo,        \* slots of the current command that are still to be handled
    got,         \* replies of its sub-commands
    cmd,         \* the current command
    resetting,   \* redisClusterGetReply was called by redisClusterReset
    issued,      \* history: the commands, in order
    sends,       \* history: times the current call sent its command
    results      \* history: what the calls returned

routeVars == <<table, nodes>>
pipeVars == <<requests, listed>>
callVars == <<cur, tried, todo, got, cmd, resetting>>
historyVars == <<issued, results>>
contextVars == <<routeVars, pipeVars, needUpdate, retryCount, ccErr>>
vars == <<clusterVars, link, executed, contextVars, pc, callVars, sends, historyVars>>

PCs == {"idle", "retry", "scan", "ping", "asking", "wait", "append", "get", "await",
        "drain", "resetEnd"}

\* Where the thread is blocked in redisGetReply.
Blocked == pc \in {"ping", "asking", "wait", "await"}

Result == [id : Nat, got : Seq(Reply), err : BOOLEAN]

\* Every variable holds a value of its C type.
TypeOK ==
    /\ ClusterTypeOK
    /\ table \in [Slots -> Nodes \cup {None}]
    /\ nodes \in [Keys -> Nodes \cup {None}]
    /\ requests \in Seq(Nat)
    /\ listed \in BOOLEAN
    /\ needUpdate \in BOOLEAN
    /\ retryCount \in 0 .. MaxRedirect
    /\ ccErr \in BOOLEAN
    /\ pc \in PCs
    /\ cur \in Holders
    /\ tried \subseteq Keys
    /\ todo \in Seq(Slots)
    /\ got \in Seq(Reply)
    /\ cmd \in 0 .. Len(issued)
    /\ resetting \in BOOLEAN
    /\ issued \in Seq(SlotLists)
    /\ sends \in Nat
    /\ results \in Seq(Result)

\* The owners of the slots as node n gives them: of those in lost it knows none.
TableFrom(n, lost) == [s \in Slots |-> IF s \in lost THEN None ELSE seen[n][s]]

\* The masters that its routing information names.
Known(n, lost) == IF RouteUseSlots THEN {seen[n][s] : s \in Slots \ lost} ELSE Nodes

NodesFrom(n, lost) == [k \in Keys |-> IF k \in Known(n, lost) THEN k ELSE None]

\* redisClusterConnect2 has loaded the routes.
Init ==
    /\ ClusterInit
    /\ \E n \in Nodes, lost \in SUBSET Lost :
          table = TableFrom(n, lost) /\ nodes = NodesFrom(n, lost)
    /\ requests = <<>>
    /\ listed = FALSE
    /\ needUpdate = FALSE
    /\ retryCount = 0
    /\ ccErr = FALSE
    /\ pc = "idle"
    /\ cur = Orphan
    /\ tried = {}
    /\ todo = <<>>
    /\ got = <<>>
    /\ cmd = 0
    /\ resetting = FALSE
    /\ issued = <<>>
    /\ sends = 0
    /\ results = <<>>

-----------------------------------------------------------------------------
(* Connections. *)

\* Mutant: the old socket and its buffers are kept.
CtxOfNodeKeepsBuffers(l, peer) ==
    IF l.state \in {"open", "broken"}
    THEN l
    ELSE IF peer \in alive
         THEN [l EXCEPT !.state = "open", !.peer = peer]
         ELSE NewLink("err", peer)

\* ctx_get_by_node: the connection of a node, which is l, made anew when there is
\* none or when it has failed (redisReconnect drops both buffers).
CtxOfNode(l, peer) ==
    IF l.state \in {"open", "broken"}
    THEN l
    ELSE NewLink(IF peer \in alive THEN "open" ELSE "err", peer)

\* __redisAppendCommand
Appended(l, op, id, slot) ==
    [l EXCEPT !.out = Append(l.out, [id |-> id, slot |-> slot, op |-> op])]

\* Mutant: nothing is written.
FlushedNever(l) == l

\* redisBufferWrite until done.  What is written to a broken connection is lost.
Flushed(l) ==
    [l EXCEPT !.out = <<>>, !.sent = IF l.state = "open" THEN l.sent \o l.out ELSE <<>>]

\* How redisGetReply starts: with a reply that the reader holds already, or by
\* flushing the output buffer.
GetReplyStarts(l) == {Flushed(l)} \cup (IF l.in # <<>> THEN {l} ELSE {})

\* The connection of o is l, to which a command is added, and the thread blocks
\* for its reply.
Exchange(o, l, op) ==
    /\ cur' = o
    /\ \E m \in GetReplyStarts(Appended(l, op, cmd, Head(todo))) : link' = [link EXCEPT ![o] = m]
    /\ pc' = CASE op = "ping" -> "ping" [] op = "asking" -> "asking" [] OTHER -> "wait"
    /\ sends' = IF op = "cmd" THEN sends + 1 ELSE sends

\* redisGetReply returns a reply.
Receive(reply) ==
    /\ Blocked
    /\ link[cur].in # <<>>
    /\ reply = Head(link[cur].in)

Received == [link EXCEPT ![cur].in = Tail(@)]

\* redisGetReply returns REDIS_ERR: the connection is broken, or the reply did
\* not come in time.
ReceiveFails ==
    /\ Blocked
    /\ \/ link[cur].state = "broken" /\ UNCHANGED faults
       \/ link[cur].state = "open" /\ link[cur].in = <<>> /\ HasTimeout /\ Fault

\* c->err is set.
Failed == [link EXCEPT ![cur] = [@ EXCEPT !.state = "err"]]

-----------------------------------------------------------------------------
(* Routes. *)

\* Mutant: cc->table keeps the entries of the old nodes.
RouteUpdatedNodesOnly(ls) ==
    \E k \in Keys, lost \in SUBSET Lost :
        LET n == nodes[k]
        IN  /\ n \in alive
            /\ nodes' = NodesFrom(n, lost)
            /\ table' = table
            /\ link' = [o \in Holders |->
                          IF o = Orphan \/ (nodes[o] # None /\ nodes'[o] # None)
                          THEN ls[o] ELSE NoLink]

\* cluster_update_route succeeds: some node that answers gives new nodes and a
\* new table.  cluster_nodes_swap_ctx hands over the connections, ls, of the
\* nodes that stay; those of the others are freed with them.
RouteUpdated(ls) ==
    \E k \in Keys, lost \in SUBSET Lost :
        LET n == nodes[k]
        IN  /\ n \in alive
            /\ nodes' = NodesFrom(n, lost)
            /\ table' = TableFrom(n, lost)
            /\ link' = [o \in Holders |->
                          IF o = Orphan \/ (nodes[o] # None /\ nodes'[o] # None)
                          THEN ls[o] ELSE NoLink]

\* cluster_update_route fails: no node is up, or those that are up refuse the
\* query, do not answer it in time, or answer what is no route.
RouteFails(ls) ==
    /\ link' = ls
    /\ UNCHANGED routeVars

-----------------------------------------------------------------------------
(* redisClusterCommand: redisClusterFormattedCommand and                   *)
(* redis_cluster_command_execute.                                          *)

\* The local variables of the call are gone.
Locals ==
    /\ cur' = Orphan
    /\ tried' = {}
    /\ todo' = <<>>
    /\ got' = <<>>
    /\ cmd' = 0
    /\ resetting' = FALSE
    /\ sends' = 0
    /\ pc' = "idle"

\* The labels done and error of redisClusterFormattedCommand.
CommandReturns(replies, failed) ==
    /\ retryCount' = 0
    /\ results' = Append(results, [id |-> cmd, got |-> replies, err |-> failed])
    /\ Locals

CommandFails ==
    /\ ccErr' = TRUE
    /\ CommandReturns(<<>>, TRUE)

\* An application that uses redisClusterCommand does so outside a pipeline.
Command(slots) ==
    /\ pc = "idle"
    /\ "command" \in AppCalls
    /\ ~listed
    /\ Len(issued) < MaxCalls
    /\ issued' = Append(issued, slots)
    /\ cmd' = Len(issued')
    /\ todo' = slots
    /\ ccErr' = FALSE
    /\ pc' = "retry"
    /\ UNCHANGED <<clusterVars, link, executed, routeVars, pipeVars, needUpdate, retryCount,
                   cur, tried, got, resetting, sends, results>>

\* The label retry: node_get_by_table finds no node for the slot.
RetryFails ==
    /\ pc = "retry"
    /\ table[Head(todo)] = None
    /\ CommandFails
    /\ UNCHANGED <<clusterVars, link, executed, routeVars, pipeVars, needUpdate, issued>>

\* The label retry: the node of the slot, or, when it cannot be reached, any
\* node that answers.
Retry ==
    /\ pc = "retry"
    /\ table[Head(todo)] # None
    /\ LET o == table[Head(todo)]
           l == CtxOfNode(link[o], nodes[o])
       IN  IF l.state = "err"
           THEN /\ link' = [link EXCEPT ![o] = l]
                /\ pc' = "scan"
                /\ tried' = {}
                /\ UNCHANGED <<cur, sends>>
           ELSE /\ Exchange(o, l, "cmd")
                /\ UNCHANGED tried
    /\ UNCHANGED <<clusterVars, executed, contextVars, todo, got, cmd, resetting, historyVars>>

\* Mutant: the iterator is made anew for every node.
ScanRestarts(o) ==
    /\ pc = "scan"
    /\ nodes[o] # None
    /\ o \notin tried
    /\ tried' = {o}
    /\ LET l == CtxOfNode(link[o], nodes[o])
       IN  IF l.state = "err"
           THEN link' = [link EXCEPT ![o] = l] /\ UNCHANGED <<pc, cur, sends>>
           ELSE Exchange(o, l, "ping")
    /\ UNCHANGED <<clusterVars, executed, contextVars, todo, got, cmd, resetting, historyVars>>

\* One turn of the loop of node_get_witch_connected.
Scan(o) ==
    /\ pc = "scan"
    /\ nodes[o] # None
    /\ o \notin tried
    /\ tried' = tried \cup {o}
    /\ LET l == CtxOfNode(link[o], nodes[o])
       IN  IF l.state = "err"
           THEN link' = [link EXCEPT ![o] = l] /\ UNCHANGED <<pc, cur, sends>>
           ELSE Exchange(o, l, "ping")
    /\ UNCHANGED <<clusterVars, executed, contextVars, todo, got, cmd, resetting, historyVars>>

ScanEnds ==
    /\ pc = "scan"
    /\ \A k \in Keys : nodes[k] # None => k \in tried
    /\ CommandFails
    /\ UNCHANGED <<clusterVars, link, executed, routeVars, pipeVars, needUpdate, issued>>

\* cc->retry_count ++, and the test that follows.
TooMany == retryCount + 1 > MaxRedirect

\* The reply to PING: the command goes to this node, or the scan goes on.
Pong(reply) ==
    /\ pc = "ping"
    /\ Receive(reply)
    /\ \/ /\ reply.op = "ping"
          /\ TooMany
          /\ link' = Received
          /\ CommandFails
       \/ /\ reply.op = "ping"
          /\ ~TooMany
          /\ retryCount' = retryCount + 1
          /\ Exchange(cur, Received[cur], "cmd")
          /\ UNCHANGED <<ccErr, tried, todo, got, cmd, resetting, results>>
       \/ /\ reply.op # "ping"
          /\ link' = Received
          /\ pc' = "scan"
          /\ UNCHANGED <<retryCount, ccErr, callVars, sends, results>>
    /\ UNCHANGED <<clusterVars, executed, routeVars, pipeVars, needUpdate, issued>>

\* A reply that is no redirection: an error ends the command, any other reply
\* one sub-command.
SubCommandDone(reply) ==
    /\ reply.type \in {"ok", "error"}
    /\ link' = Received
    /\ IF reply.type = "error" \/ Len(todo) = 1
       THEN /\ CommandReturns(IF reply.type = "error" THEN <<reply>> ELSE Append(got, reply), FALSE)
       ELSE /\ todo' = Tail(todo)
            /\ got' = Append(got, reply)
            /\ pc' = "retry"
            /\ UNCHANGED <<retryCount, cur, tried, cmd, resetting, sends, results>>
    /\ UNCHANGED <<routeVars, ccErr>>

TooManyRedirects(reply) ==
    /\ reply.type \in {"moved", "ask", "again"}
    /\ TooMany
    /\ link' = Received
    /\ CommandFails
    /\ UNCHANGED routeVars

MovedReply(reply) ==
    /\ reply.type = "moved"
    /\ ~TooMany
    /\ \/ /\ RouteUpdated(Received)
          /\ retryCount' = retryCount + 1
          /\ pc' = "retry"
          /\ UNCHANGED <<ccErr, callVars, sends, results>>
       \/ /\ RouteFails(Received)
          /\ CommandFails

\* node_get_by_ask_error_reply: a node that is not known by its address is
\* added under the number of the slot; when there is a node of that name
\* already, dictAdd refuses and nothing refers to the new node.
AskNode(reply) ==
    IF nodes[reply.to] # None THEN reply.to
    ELSE IF nodes[reply.slot] = None THEN reply.slot ELSE Orphan

AskReply(reply) ==
    LET o == AskNode(reply)
        l == IF o = reply.to THEN CtxOfNode(Received[o], reply.to)
             ELSE NewLink(IF reply.to \in alive THEN "open" ELSE "err", reply.to)
    IN  /\ reply.type = "ask"
        /\ ~TooMany
        /\ nodes' = IF o = reply.slot THEN [nodes EXCEPT ![o] = reply.to] ELSE nodes
        /\ UNCHANGED table
        /\ IF l.state = "err"
           THEN /\ link' = [Received EXCEPT ![o] = l]
                /\ CommandFails
           ELSE /\ retryCount' = retryCount + 1
                /\ cur' = o
                /\ \E m \in GetReplyStarts(Appended(l, "asking", cmd, Head(todo))) :
                      link' = [Received EXCEPT ![o] = m]
                /\ pc' = "asking"
                /\ UNCHANGED <<ccErr, tried, todo, got, cmd, resetting, sends, results>>

AgainReply(reply) ==
    /\ reply.type = "again"
    /\ ~TooMany
    /\ retryCount' = retryCount + 1
    /\ link' = Received
    /\ pc' = "retry"
    /\ UNCHANGED <<routeVars, ccErr, callVars, sends, results>>

CommandReply(reply) ==
    /\ pc = "wait"
    /\ Receive(reply)
    /\ \/ SubCommandDone(reply)
       \/ TooManyRedirects(reply)
       \/ MovedReply(reply)
       \/ AskReply(reply)
       \/ AgainReply(reply)
    /\ UNCHANGED <<clusterVars, executed, pipeVars, needUpdate, issued>>

\* Whatever the reply to ASKING is, the command follows it.
AskingReply(reply) ==
    /\ pc = "asking"
    /\ Receive(reply)
    /\ Exchange(cur, Received[cur], "cmd")
    /\ UNCHANGED <<clusterVars, executed, contextVars, tried, todo, got, cmd, resetting,
                   historyVars>>

\* Mutant: the command is sent again after an I/O error.
ExchangeFailsRetry ==
    /\ ReceiveFails
    /\ link' = Failed
    /\ \/ /\ pc = "ping"
          /\ pc' = "scan"
          /\ UNCHANGED <<retryCount, ccErr, callVars, sends, results>>
       \/ /\ pc \in {"wait", "asking"}
          /\ pc' = "retry"
          /\ UNCHANGED <<retryCount, ccErr, callVars, sends, results>>
    /\ UNCHANGED <<owner, importer, seen, alive, executed, routeVars, pipeVars, needUpdate,
                   issued>>

\* No reply to PING: the scan goes on.  No reply to ASKING or to the command:
\* the call fails.
ExchangeFails ==
    /\ ReceiveFails
    /\ link' = Failed
    /\ \/ /\ pc = "ping"
          /\ pc' = "scan"
          /\ UNCHANGED <<retryCount, ccErr, callVars, sends, results>>
       \/ /\ pc \in {"wait", "asking"}
          /\ CommandFails
    /\ UNCHANGED <<owner, importer, seen, alive, executed, routeVars, pipeVars, needUpdate,
                   issued>>

-----------------------------------------------------------------------------
(* Pipelining. *)

\* A careful application calls nothing but redisClusterReset once a call in a
\* pipeline has left an error in cc->err.  The documentation asks for the reset
\* after a pipeline, not for that.
MayPipeline(call) ==
    /\ pc = "idle"
    /\ call \in AppCalls
    /\ Careful => ~(listed /\ ccErr)

\* redisClusterAppendFormattedCommand
AppendCommand(slots) ==
    /\ MayPipeline("append")
    /\ Len(issued) < MaxCalls
    /\ issued' = Append(issued, slots)
    /\ cmd' = Len(issued')
    /\ listed' = TRUE
    /\ todo' = slots
    /\ pc' = "append"
    /\ UNCHANGED <<clusterVars, link, executed, routeVars, requests, needUpdate, retryCount,
                   ccErr, cur, tried, got, resetting, sends, results>>

\* redisClusterAppendFormattedCommand returns REDIS_ERR.  What was appended for
\* other slots stays in the output buffers of their nodes.
AppendReturnsError ==
    /\ ccErr' = TRUE
    /\ results' = Append(results, [id |-> cmd, got |-> <<>>, err |-> TRUE])
    /\ Locals
    /\ UNCHANGED requests

\* __redisClusterAppendCommand finds no node for the slot.
AppendFails ==
    /\ pc = "append"
    /\ table[Head(todo)] = None
    /\ AppendReturnsError
    /\ UNCHANGED <<clusterVars, link, executed, routeVars, listed, needUpdate, retryCount, issued>>

\* __redisClusterAppendCommand for one slot.
AppendSubCommand ==
    /\ pc = "append"
    /\ table[Head(todo)] # None
    /\ LET o == table[Head(todo)]
           l == CtxOfNode(link[o], nodes[o])
       IN  IF l.state = "err"
           THEN /\ link' = [link EXCEPT ![o] = l]
                /\ AppendReturnsError
           ELSE /\ link' = [link EXCEPT ![o] = Appended(l, "cmd", cmd, Head(todo))]
                /\ IF Len(todo) = 1
                   THEN /\ requests' = Append(requests, cmd)
                        /\ Locals
                   ELSE /\ todo' = Tail(todo)
                        /\ UNCHANGED <<requests, pc, cur, tried, got, cmd, resetting, sends>>
                /\ UNCHANGED <<ccErr, results>>
    /\ UNCHANGED <<clusterVars, executed, routeVars, listed, needUpdate, retryCount, issued>>

\* redisClusterGetReply takes the first request.
StartGetReply ==
    /\ requests # <<>>
    /\ cmd' = Head(requests)
    /\ todo' = issued[Head(requests)]
    /\ requests' = Tail(requests)
    /\ ccErr' = FALSE
    /\ pc' = "get"

\* redisClusterGetReply, also when there is no request.
GetReply ==
    /\ MayPipeline("getReply")
    /\ \/ StartGetReply
       \/ /\ requests = <<>>
          /\ ccErr' = FALSE
          /\ UNCHANGED <<requests, cmd, todo, pc>>
    /\ UNCHANGED <<clusterVars, link, executed, routeVars, listed, needUpdate, retryCount,
                   cur, tried, got, resetting, sends, historyVars>>

\* command_post_fragment returns the first error, or one reply made of all.
PostFragment(replies) ==
    LET errors == {i \in 1 .. Len(replies) : replies[i].type # "ok"}
    IN  IF errors = {} THEN replies
        ELSE <<replies[CHOOSE i \in errors : \A j \in errors : i <= j]>>

\* redisClusterGetReply returns to its caller: the application, or
\* redisClusterReset, which frees what it gets and goes on until there is no
\* more reply, or closes all connections on an error.
GetReplyReturns(replies, failed) ==
    /\ results' = Append(results, [id |-> cmd, got |-> PostFragment(replies), err |-> failed])
    /\ IF resetting
       THEN /\ pc' = IF failed THEN "resetEnd" ELSE "drain"
            /\ todo' = <<>>
            /\ got' = <<>>
            /\ UNCHANGED <<cur, tried, cmd, resetting, sends>>
       ELSE Locals

\* redisCLusterClearAll
AllClosed(ls) == [o \in Holders |-> IF o = Orphan THEN ls[o] ELSE NoLink]

\* redisClusterGetReply returns REDIS_ERR; redisClusterReset then closes all
\* connections and clears the error.
GetReplyFails(ls) ==
    /\ link' = IF resetting THEN AllClosed(ls) ELSE ls
    /\ ccErr' = ~resetting
    /\ GetReplyReturns(<<>>, TRUE)

\* __redisClusterGetReply up to redisGetReply.  The slot has no node only if the
\* routes have changed since the command was appended.  A node that cannot be
\* reached again and again asks for new routes.
GetSubReply ==
    /\ pc = "get"
    /\ LET o == table[Head(todo)]
           l == CtxOfNode(link[o], nodes[o])
       IN  IF o = None
           THEN /\ GetReplyFails(link)
                /\ UNCHANGED <<needUpdate, retryCount>>
           ELSE IF l.state = "err"
           THEN /\ retryCount' = IF needUpdate THEN retryCount
                                 ELSE IF TooMany THEN 0 ELSE retryCount + 1
                /\ needUpdate' = (needUpdate \/ TooMany)
                /\ GetReplyFails([link EXCEPT ![o] = l])
           ELSE /\ \E m \in GetReplyStarts(l) : link' = [link EXCEPT ![o] = m]
                /\ cur' = o
                /\ pc' = "await"
                /\ UNCHANGED <<needUpdate, retryCount, ccErr, tried, todo, got, cmd, resetting,
                               sends, results>>
    /\ UNCHANGED <<clusterVars, executed, routeVars, pipeVars, issued>>

\* __redisClusterGetReply has a reply: a MOVED is passed on, and remembered.
SubReply(reply) ==
    /\ pc = "await"
    /\ Receive(reply)
    /\ link' = Received
    /\ needUpdate' = (needUpdate \/ reply.type = "moved")
    /\ IF Len(todo) = 1
       THEN GetReplyReturns(Append(got, reply), FALSE)
       ELSE /\ todo' = Tail(todo)
            /\ got' = Append(got, reply)
            /\ pc' = "get"
            /\ UNCHANGED <<cur, tried, cmd, resetting, sends, results>>
    /\ UNCHANGED <<clusterVars, executed, routeVars, pipeVars, retryCount, ccErr, issued>>

SubReplyFails ==
    /\ pc = "await"
    /\ ReceiveFails
    /\ GetReplyFails(Failed)
    /\ UNCHANGED <<owner, importer, seen, alive, executed, routeVars, pipeVars, needUpdate,
                   retryCount, issued>>

\* redisBufferWrite to node k succeeds, or fails: a broken connection may take
\* what is written to it.
CanWrite(k) == CtxOfNode(link[k], nodes[k]).state # "err"

CannotWrite(k) ==
    LET l == CtxOfNode(link[k], nodes[k])
    IN  l.state = "err" \/ (l.state = "broken" /\ l.out # <<>>)

\* redisCLusterSendAll, up to the first node that fails.
SendAll ==
    LET all == {k \in Keys : nodes[k] # None}
    IN  \E done \in SUBSET all, failed \in SUBSET all :
           /\ \A k \in done : CanWrite(k)
           /\ \/ failed = {} /\ done = all
              \/ \E k \in all \ done : failed = {k} /\ CannotWrite(k)
           /\ link' = [o \in Holders |->
                         IF o \in done THEN Flushed(CtxOfNode(link[o], nodes[o]))
                         ELSE IF o \in failed
                              THEN [CtxOfNode(link[o], nodes[o]) EXCEPT !.state = "err"]
                              ELSE link[o]]

\* Mutant: redisClusterReset keeps the connections after an error.
ResetKeepsLinks ==
    /\ pc = "idle"
    /\ "reset" \in AppCalls
    /\ resetting' = TRUE
    /\ ccErr' = FALSE
    /\ link' = link
    /\ pc' = IF ccErr THEN "resetEnd" ELSE "drain"
    /\ UNCHANGED <<clusterVars, executed, routeVars, pipeVars, needUpdate, retryCount, cur,
                   tried, todo, got, cmd, sends, historyVars>>

\* redisClusterReset: after an error every connection is closed; otherwise what
\* was appended is sent, and every reply read.
Reset ==
    /\ pc = "idle"
    /\ "reset" \in AppCalls
    /\ resetting' = TRUE
    /\ ccErr' = FALSE
    /\ IF ccErr
       THEN link' = AllClosed(link) /\ pc' = "resetEnd"
       ELSE SendAll /\ pc' = "drain"
    /\ UNCHANGED <<clusterVars, executed, routeVars, pipeVars, needUpdate, retryCount, cur,
                   tried, todo, got, cmd, sends, historyVars>>

\* One turn of the loop of redisClusterReset.
Drain ==
    /\ pc = "drain"
    /\ \/ /\ StartGetReply
          /\ UNCHANGED link
       \/ /\ requests = <<>>
          /\ pc' = "resetEnd"
          /\ link' = IF listed THEN link ELSE AllClosed(link)
          /\ ccErr' = FALSE
          /\ UNCHANGED <<requests, todo, cmd>>
    /\ UNCHANGED <<clusterVars, executed, routeVars, listed, needUpdate, retryCount, cur,
                   tried, got, resetting, sends, historyVars>>

\* The rest of redisClusterReset: the list of requests goes, and the routes are
\* updated when a reply or an error asked for it.
ResetEnds ==
    /\ pc = "resetEnd"
    /\ requests' = <<>>
    /\ listed' = FALSE
    /\ \/ /\ ~needUpdate
          /\ UNCHANGED <<link, routeVars, needUpdate, ccErr>>
       \/ /\ needUpdate
          /\ RouteUpdated(link)
          /\ needUpdate' = FALSE
          /\ ccErr' = FALSE
       \/ /\ needUpdate
          /\ RouteFails(link)
          /\ ccErr' = TRUE
          /\ UNCHANGED needUpdate
    /\ Locals
    /\ UNCHANGED <<clusterVars, executed, retryCount, historyVars>>

-----------------------------------------------------------------------------
AppNext ==
    \/ \E slots \in SlotLists : Command(slots) \/ AppendCommand(slots)
    \/ GetReply
    \/ Reset

CallNext ==
    \/ RetryFails
    \/ Retry
    \/ \E o \in Keys : Scan(o)
    \/ ScanEnds
    \/ Blocked /\ link[cur].in # <<>>
         /\ LET reply == Head(link[cur].in)
            IN  Pong(reply) \/ CommandReply(reply) \/ AskingReply(reply) \/ SubReply(reply)
    \/ ExchangeFails
    \/ AppendFails
    \/ AppendSubCommand
    \/ GetSubReply
    \/ SubReplyFails
    \/ Drain
    \/ ResetEnds

Environment ==
    /\ ClusterNext
    /\ UNCHANGED <<contextVars, pc, callVars, sends, historyVars>>

Next == AppNext \/ CallNext \/ Environment

Spec == Init /\ [][Next]_vars

(***************************************************************************)
(* Fairness: the thread runs unless it is blocked, and a node serves what  *)
(* it has received.  Nothing is assumed of migrations, of crashes or of    *)
(* how soon a node hears of a change.                                      *)
(***************************************************************************)
Fairness ==
    /\ WF_vars(CallNext)
    /\ \A o \in Holders : WF_vars(Serve(o) /\ Environment)

FairSpec == Spec /\ Fairness

-----------------------------------------------------------------------------
(* Properties *)

\* No part of a command is executed twice, however it is redirected: a
\* redirection is repeated only when the node did not execute the command,
\* and an I/O error, after which that is unknown, ends the call
\* (redis_cluster_command_execute).  The redirections of a call are bounded by
\* cc->max_redirect_count, for all of the sub-commands of a command together.
AtMostOnce ==
    /\ \A i, j \in 1 .. Len(executed) : executed[i] = executed[j] => i = j
    /\ pc # "idle" /\ cmd # 0 => sends <= MaxRedirect + Len(issued[cmd])

\* A call returns replies to its own command, one for each of its slots in
\* order, unless it returns an error reply; never one that was left on a
\* connection by an earlier command, a late one included.
RightReply ==
    \A i \in 1 .. Len(results) :
        LET r == results[i]
        IN  /\ \A k \in 1 .. Len(r.got) : r.got[k].id = r.id /\ r.got[k].op = "cmd"
            /\ ~r.err /\ (\A k \in 1 .. Len(r.got) : r.got[k].type = "ok") =>
                  [k \in 1 .. Len(r.got) |-> r.got[k].slot] = issued[r.id]

\* Something is unread or unserved, or the connection is broken, and an error comes.
ReplyComes ==
    \/ link[cur].state = "broken"
    \/ link[cur].in # <<>>
    \/ link[cur].sent # <<>>

\* Neither redisClusterCommand nor redisClusterGetReply blocks on a connection from
\* which no reply is to come.  redisClusterReset is left out: see NoVainReset.
NoVainWait == Blocked /\ ~resetting => ReplyComes

\* redisClusterReset blocks for a reply only if one is to come.  The code does not
\* keep this: redisClusterReset ignores a failed write of redisCLusterSendAll, and
\* then waits for the reply to a command that never went out.
NoVainReset == Blocked /\ resetting => ReplyComes

\* Every variable has its type, cc->retry_count stays below its bound, and no
\* entry of cc->table refers to a cluster_node that has been freed.
RoutesValid ==
    /\ TypeOK
    /\ \A s \in Slots : table[s] # None => nodes[table[s]] # None

\* Outside a pipeline and between two calls no connection in use holds a
\* command or a reply: the next command starts on a clean connection.
LinksClean ==
    pc = "idle" /\ ~listed =>
        \A o \in Holders :
            link[o].state = "open" => link[o].out = <<>> /\ link[o].sent = <<>> /\ link[o].in = <<>>

\* Every call outside a pipeline returns, redisClusterCommand first of all,
\* although nodes may redirect to each other for ever.
CallReturns == pc # "idle" /\ ~listed ~> pc = "idle"
=============================================================================
