---------------------------- MODULE ClusterAsync ----------------------------
(***************************************************************************)
(* The asynchronous cluster API of src/hircluster.c on one                 *)
(* redisClusterAsyncContext: redisClusterAsyncCommand, the callback        *)
(* redisClusterAsyncCallback that it puts in front of the application's,   *)
(* with redirections, failure counts and route updates, and                *)
(* redisClusterAsyncFree.                                                  *)
(*                                                                         *)
(* The connections are those of src/async.c.  What matters of them here is *)
(* that replies go to the callbacks in order, that a connection that ends  *)
(* runs its callbacks with NULL and then ac->dataHandler, and that         *)
(* redisAsyncFree waits for the callback that runs.  The rest of it is     *)
(* the subject of RedisAsync.                                              *)
(*                                                                         *)
(* Nothing but the library runs between the steps of one event: the stack  *)
(* of calls is a variable, and the cluster moves when it is empty.  Its    *)
(* frames are                                                              *)
(*                                                                         *)
(*   "cb"        redisClusterAsyncCallback, for a reply or for NULL        *)
(*   "teardown"  __redisAsyncFree                                          *)
(*   "release"   dictRelease of the old cc->nodes                          *)
(*                                                                         *)
(* A cluster_node is named by its key in cc->nodes; one that dictAdd       *)
(* refused is named by its only connection.  A pointer to a node that has  *)
(* been freed is Dangling.                                                 *)
(***************************************************************************)
EXTENDS RedisCluster, FiniteSets

CONSTANTS
    Dangling,     \* a pointer to freed memory
    AppCalls,     \* what the application does, see AppMayCall and below
    RouteModes,   \* the choices of HIRCLUSTER_FLAG_ROUTE_USE_SLOTS
    MaxRedirect,  \* cc->max_redirect_count
    MaxCalls      \* bound on the commands

ASSUME AsyncAssumption ==
    /\ Holders \cap Keys = {}
    /\ Dangling \notin Keys \cup Holders \cup {None}
    /\ AppCalls \subseteq {"nested", "retry", "invalid", "free"}
    /\ RouteModes \subseteq BOOLEAN
    /\ RouteModes # {}
    /\ MaxRedirect \in Nat
    /\ MaxCalls \in Nat

VARIABLES
    useSlots,    \* cc->flags & HIRCLUSTER_FLAG_ROUTE_USE_SLOTS
    table,       \* cc->table
    node,        \* the cluster_nodes
    ac,          \* the redisAsyncContexts
    updateTime,  \* cc->update_route_time # 0
    accErr,      \* acc->err # 0
    retries,     \* cad->retry_count of each command
    stack,
    freed,       \* acc has been freed
    undefined,   \* freed memory has been used
    issued,      \* history: the slots of the commands that were accepted
    sends,       \* history: times each of them was sent
    ran,         \* history: what the callback of each of them was given
    notReached   \* history: NOT_REACHED() was passed

accVars == <<table, updateTime, accErr, retries>>
historyVars == <<issued, sends, ran, notReached>>
vars == <<clusterVars, link, executed, useSlots, accVars, node, ac, stack, freed, undefined,
          historyVars>>

Ids == 1 .. MaxCalls
Pointers == Keys \cup Holders
NodeType ==
    [host : Nodes \cup {None}, acon : Holders \cup {None}, failures : 0 .. MaxRedirect]

NoNode == [host |-> None, acon |-> None, failures |-> 0]

\* queue is ac->replies; 0 is the NULL callback of ASKING.
ActxType ==
    [live : BOOLEAN, err : BOOLEAN, freeing : BOOLEAN,
     data : Pointers \cup {None, Dangling}, queue : Seq(0 .. MaxCalls)]

NoActx == [live |-> FALSE, err |-> FALSE, freeing |-> FALSE, data |-> None, queue |-> <<>>]

NullReply == [id |-> 0, type |-> "null", to |-> None]

\* at is where redisClusterAsyncCallback is: at its beginning, after a route
\* update ("updated" for a NULL reply, "resend" for MOVED), at the label done,
\* or in the callback of the application.
Callback(c, id, reply) ==
    [kind |-> "cb", conn |-> c, id |-> id, reply |-> reply, at |-> "start"]
Teardown(c) == [kind |-> "teardown", conn |-> c]
Release(todo, last) == [kind |-> "release", todo |-> todo, last |-> last]

Answer == [id : 0 .. MaxCalls, type : ReplyTypes \cup {"null"}, to : Nodes \cup {None}]

Frame ==
    [kind : {"cb"}, conn : Holders, id : Ids, reply : Answer,
     at : {"start", "updated", "resend", "done", "user"}]
    \cup [kind : {"teardown"}, conn : Holders]
    \cup [kind : {"release"}, todo : SUBSET Keys, last : BOOLEAN]

\* Every variable holds a value of its C type.
TypeOK ==
    /\ ClusterTypeOK
    /\ useSlots \in BOOLEAN
    /\ table \in [Slots -> Nodes]
    /\ node \in [Pointers -> NodeType]
    /\ ac \in [Holders -> ActxType]
    /\ updateTime \in BOOLEAN
    /\ accErr \in BOOLEAN
    /\ retries \in [Ids -> 0 .. MaxRedirect]
    /\ stack \in Seq(Frame)
    /\ freed \in BOOLEAN
    /\ undefined \in BOOLEAN
    /\ issued \in Seq(Slots)
    /\ sends \in [Ids -> Nat]
    /\ ran \in [Ids -> Seq(Answer)]
    /\ notReached \in BOOLEAN

\* The masters that the routing information of node n names.
Known(n) == IF useSlots THEN {seen[n][s] : s \in Slots} ELSE Nodes

NodeAt(host, acon) == [host |-> host, acon |-> acon, failures |-> 0]

\* redisClusterAsyncConnect has loaded the routes.
Init ==
    /\ ClusterInit
    /\ useSlots \in RouteModes
    /\ table = FirstOwner
    /\ \E n \in Nodes :
          node = [p \in Pointers |-> IF p \in Known(n) THEN NodeAt(p, None) ELSE NoNode]
    /\ ac = [c \in Holders |-> NoActx]
    /\ updateTime = FALSE
    /\ accErr = FALSE
    /\ retries = [i \in Ids |-> 0]
    /\ stack = <<>>
    /\ freed = FALSE
    /\ undefined = FALSE
    /\ issued = <<>>
    /\ sends = [i \in Ids |-> 0]
    /\ ran = [i \in Ids |-> <<>>]
    /\ notReached = FALSE

-----------------------------------------------------------------------------
(* The stack. *)

Top == stack[Len(stack)]
Below == SubSeq(stack, 1, Len(stack) - 1)
Continue(at) == [stack EXCEPT ![Len(stack)] = [@ EXCEPT !.at = at]]

Running(kind) == ~undefined /\ stack # <<>> /\ Top.kind = kind

\* redisClusterAsyncCallback has been called with a reply of one of the types.
Called(types) == Running("cb") /\ Top.at = "start" /\ Top.reply.type \in types

AtPoint(at) == Running("cb") /\ Top.at = at

EventLoop == ~undefined /\ stack = <<>>

\* c->flags & REDIS_IN_CALLBACK
InCallback(c) == \E i \in DOMAIN stack : stack[i].kind = "cb" /\ stack[i].conn = c

\* cc->nodes is being released.
Releasing == \E i \in DOMAIN stack : stack[i].kind = "release"

\* redisClusterAsyncCallback returns, and redisProcessCallbacks, when it called,
\* looks at REDIS_FREEING.
Returned ==
    IF Below = <<>> /\ ac[Top.conn].freeing
    THEN Append(Below, Teardown(Top.conn)) ELSE Below

\* Freed memory is read or written: nothing is known of what follows.
UseFreed ==
    /\ undefined' = TRUE
    /\ UNCHANGED <<clusterVars, link, executed, useSlots, accVars, node, ac, stack, freed, historyVars>>

-----------------------------------------------------------------------------
(* Connections and commands. *)

\* A context that is not in use; the bound on them is that there is one.
Spare == {c \in Holders : ~ac[c].live}
Fresh == CHOOSE c \in Holders : Spare # {} => c \in Spare

\* actx_get_by_node takes a connection with an error for impossible, but its
\* NOT_REACHED() does nothing.
Usable(k) == node[k].acon # None /\ ~ac[node[k].acon].err

\* actx_get_by_node: the connection of a node, or a new one.
ActxOf(k) == IF Usable(k) THEN node[k].acon ELSE Fresh

\* What is added to a connection that has failed is never served.
Added(l, requests) == IF l.state = "open" THEN [l EXCEPT !.sent = @ \o requests] ELSE l

\* redisAsyncFormattedCommand, after redisAsyncCommand for ASKING: what is
\* written to connection l.
Queued(l, id, slot, asking) ==
    Added(l, (IF asking THEN <<[id |-> 0, slot |-> slot, op |-> "asking"]>> ELSE <<>>)
             \o <<[id |-> id, slot |-> slot, op |-> "cmd"]>>)

\* Mutant: no entry for the NULL callback of ASKING.
WaitingSkipsNull(a, id, asking) == [a EXCEPT !.queue = Append(@, id)]

\* ac->replies of context a with the callbacks of the commands.
Waiting(a, id, asking) ==
    [a EXCEPT !.queue = @ \o (IF asking THEN <<0, id>> ELSE <<id>>)]

\* A command goes to the node k, at address host, on the connection that
\* actx_get_by_node finds or makes.
Submit(k, host, id, slot, asking) ==
    LET c == ActxOf(k)
        l == IF Usable(k) THEN link[c]
             ELSE NewLink(IF host \in alive THEN "open" ELSE "broken", host)
        a == IF Usable(k) THEN ac[c] ELSE [NoActx EXCEPT !.live = TRUE, !.data = k]
    IN  /\ Usable(k) \/ Spare # {}
        /\ node' = [node EXCEPT ![k] = [@ EXCEPT !.host = host, !.acon = c]]
        /\ link' = [link EXCEPT ![c] = Queued(l, id, slot, asking)]
        /\ ac' = [ac EXCEPT ![c] = Waiting(a, id, asking)]
        /\ sends' = [sends EXCEPT ![id] = @ + 1]
        /\ notReached' = (notReached \/ (node[k].acon # None /\ ~Usable(k)))

\* redisAsyncConnect fails at once: there is no socket and no event will come,
\* but the context, with its error, is the connection of the node from now on.
\* The command is not sent, and acc->err is set.
SubmitFails(k, host) ==
    /\ ~Usable(k)
    /\ Spare # {}
    /\ node' = [node EXCEPT ![k] = [@ EXCEPT !.host = host, !.acon = Fresh]]
    /\ link' = [link EXCEPT ![Fresh] = NewLink("broken", host)]
    /\ ac' = [ac EXCEPT ![Fresh] = [NoActx EXCEPT !.live = TRUE, !.err = TRUE, !.data = k]]
    /\ notReached' = (notReached \/ node[k].acon # None)
    /\ accErr' = TRUE

\* The application runs: in the event loop, or in one of its callbacks.
AppMayCall ==
    /\ ~freed
    /\ \/ EventLoop
       \/ AtPoint("user") /\ Top.reply.type = "null" /\ "retry" \in AppCalls
       \/ AtPoint("user") /\ Top.reply.type # "null" /\ "nested" \in AppCalls

\* redisClusterAsyncFormattedCommand
Command(s) ==
    /\ AppMayCall
    /\ ~Releasing
    /\ Len(issued) < MaxCalls
    /\ issued' = Append(issued, s)
    /\ Submit(table[s], node[table[s]].host, Len(issued'), s, FALSE)
    /\ accErr' = FALSE
    /\ UNCHANGED <<clusterVars, executed, useSlots, table, updateTime, retries, stack, freed,
                   undefined, ran>>

\* The connection it would go to has failed at once.
CommandRefused(s) ==
    /\ AppMayCall
    /\ ~Releasing
    /\ Len(issued) < MaxCalls
    /\ SubmitFails(table[s], node[table[s]].host)
    /\ UNCHANGED <<clusterVars, executed, useSlots, table, updateTime, retries, stack, freed,
                   undefined, issued, sends, ran>>

\* Its label error: the keys of the command are in several slots, or cc->table
\* has been cleared by redisClusterFree.
CommandFails ==
    /\ AppMayCall
    /\ \/ "invalid" \in AppCalls /\ ~Releasing
       \/ Releasing /\ \E i \in DOMAIN stack : stack[i].kind = "release" /\ stack[i].last
    /\ accErr' = TRUE
    /\ UNCHANGED <<clusterVars, link, executed, useSlots, table, updateTime, retries, node, ac,
                   stack, freed, undefined, historyVars>>

\* A command from a callback that dictRelease runs: cc->table still refers to
\* the nodes that are being freed.
CommandInRelease ==
    /\ AppMayCall
    /\ \E i \in DOMAIN stack : stack[i].kind = "release" /\ ~stack[i].last
    /\ UseFreed

-----------------------------------------------------------------------------
(* Routes. *)

\* Pointers of the connections to the freed nodes ks.
Forget(actxs, ks) ==
    [c \in Holders |-> IF actxs[c].data \in ks THEN [actxs[c] EXCEPT !.data = Dangling]
                       ELSE actxs[c]]

\* cluster_update_route, in the callback on top of the stack, which goes on at
\* next: some node that answers gives new nodes and a new table.
\* cluster_nodes_swap_ctx hands over the connections of the nodes that stay,
\* and points them to the new nodes; the others are freed with their nodes.
RouteUpdated(next) ==
    \E k \in Keys :
        LET n == node[k].host
            old == {j \in Keys : node[j].host # None}
            gone == {j \in old \ Known(n) : node[j].acon # None}
        IN  /\ n \in alive
            /\ node' = [p \in Pointers |->
                          CASE p \in Known(n) -> NodeAt(p, node[p].acon)
                            [] p \in (old \ Known(n)) \ gone -> NoNode
                            [] OTHER -> node[p]]
            /\ ac' = [c \in Holders |->
                        IF ac[c].data \in old /\ node[ac[c].data].acon # c
                        THEN [ac[c] EXCEPT !.data = Dangling] ELSE ac[c]]
            /\ table' = seen[n]
            /\ stack' = Continue(next) \o (IF gone = {} THEN <<>> ELSE <<Release(gone, FALSE)>>)

\* dictRelease and cluster_node_deinit free one node.  Its connection ends
\* first, unless one of its callbacks runs.
ReleaseNode(k) ==
    LET c == node[k].acon
    IN  /\ Running("release")
        /\ k \in Top.todo
        /\ \/ /\ c # None
              /\ ~InCallback(c)
              /\ ac' = [ac EXCEPT ![c].freeing = TRUE]
              /\ stack' = Append(stack, Teardown(c))
              /\ UNCHANGED node
           \/ /\ c # None => InCallback(c)
              /\ ac' = Forget(IF c = None THEN ac ELSE [ac EXCEPT ![c].freeing = TRUE], {k})
              /\ node' = [node EXCEPT ![k] = NoNode]
              /\ stack' = [stack EXCEPT ![Len(stack)].todo = @ \ {k}]
        /\ UNCHANGED <<clusterVars, link, executed, useSlots, accVars, freed, undefined, historyVars>>

\* cc->table is assigned, or acc is freed.
ReleaseEnds ==
    /\ Running("release")
    /\ Top.todo = {}
    /\ stack' = Below
    /\ freed' = Top.last
    /\ UNCHANGED <<clusterVars, link, executed, useSlots, accVars, node, ac, undefined, historyVars>>

\* redisClusterAsyncFree, from the event loop.
Free ==
    /\ EventLoop
    /\ ~freed
    /\ "free" \in AppCalls
    /\ LET gone == {k \in Keys : node[k].acon # None}
       IN  /\ node' = [p \in Pointers |-> IF p \in Keys \ gone THEN NoNode ELSE node[p]]
           /\ ac' = Forget(ac, Keys \ gone)
           /\ stack' = <<Release(gone, TRUE)>>
    /\ UNCHANGED <<clusterVars, link, executed, useSlots, accVars, freed, undefined, historyVars>>

-----------------------------------------------------------------------------
(* Events. *)

\* redisProcessCallbacks takes a reply and the callback at the head of the
\* list.  The callback data of a command refers to acc.
ReadReply(c) ==
    LET id == Head(ac[c].queue)
        r == Head(link[c].in)
    IN  /\ EventLoop
        /\ ac[c].live
        /\ link[c].in # <<>>
        /\ IF freed /\ id # 0
           THEN UseFreed
           ELSE /\ link' = [link EXCEPT ![c].in = Tail(@)]
                /\ ac' = [ac EXCEPT ![c].queue = Tail(@)]
                /\ stack' = IF id = 0 THEN <<>>
                            ELSE <<Callback(c, id, [id |-> r.id, type |-> r.type, to |-> r.to])>>
                /\ UNCHANGED <<clusterVars, executed, useSlots, accVars, node, freed, undefined,
                               historyVars>>

\* A read, a write or a connect(2) in progress fails: __redisAsyncDisconnect.
ConnectionFails(c) ==
    /\ EventLoop
    /\ ac[c].live
    /\ ~ac[c].err
    /\ link[c].state = "broken"
    /\ ac' = [ac EXCEPT ![c].err = TRUE]
    /\ stack' = <<Teardown(c)>>
    /\ UNCHANGED <<clusterVars, link, executed, useSlots, accVars, node, freed, undefined, historyVars>>

\* __redisAsyncFree runs the callbacks that are left with NULL, ...
TeardownCallback ==
    LET c == Top.conn
        id == Head(ac[c].queue)
    IN  /\ Running("teardown")
        /\ ac[c].queue # <<>>
        /\ IF freed /\ id # 0
           THEN UseFreed
           ELSE /\ ac' = [ac EXCEPT ![c].queue = Tail(@)]
                /\ stack' = IF id = 0 THEN stack ELSE Append(stack, Callback(c, id, NullReply))
                /\ UNCHANGED <<clusterVars, link, executed, useSlots, accVars, node, freed,
                               undefined, historyVars>>

\* Mutant: ac->dataHandler is not called.
TeardownEndsLinked ==
    LET c == Top.conn
    IN  /\ Running("teardown")
        /\ ac[c].queue = <<>>
        /\ node' = [node EXCEPT ![c] = NoNode]
        /\ ac' = [ac EXCEPT ![c] = NoActx]
        /\ link' = [link EXCEPT ![c] = NoLink]
        /\ stack' = Below
        /\ UNCHANGED <<clusterVars, executed, useSlots, accVars, freed, undefined, historyVars>>

\* ... then unlinkAsyncContextAndNode, and frees the connection.
TeardownEnds ==
    LET c == Top.conn
    IN  /\ Running("teardown")
        /\ ac[c].queue = <<>>
        /\ IF ac[c].data = Dangling
           THEN UseFreed
           ELSE /\ node' = [p \in Pointers |->
                              CASE p = c -> NoNode
                                [] p = ac[c].data /\ p # c -> [node[p] EXCEPT !.acon = None]
                                [] OTHER -> node[p]]
                /\ ac' = [ac EXCEPT ![c] = NoActx]
                /\ link' = [link EXCEPT ![c] = NoLink]
                /\ stack' = Below
                /\ UNCHANGED <<clusterVars, executed, useSlots, accVars, freed, undefined, historyVars>>

-----------------------------------------------------------------------------
(* redisClusterAsyncCallback *)

\* A NULL reply while a route update is planned: the time for it has come or
\* not, and nodes answer or are down or too slow.  An update inside dictRelease would release cc->nodes twice.
NullPlanned ==
    /\ Called({"null"})
    /\ updateTime
    /\ \/ /\ stack' = Continue("done")
          /\ UNCHANGED <<clusterVars, link, executed, useSlots, accVars, node, ac, freed,
                         undefined, historyVars>>
       \/ /\ ~Releasing
          /\ RouteUpdated("updated")
          /\ UNCHANGED <<clusterVars, link, executed, useSlots, updateTime, accErr, retries, freed,
                         undefined, historyVars>>
       \/ /\ ~Releasing
          /\ stack' = Continue("updated")
          /\ UNCHANGED <<clusterVars, link, executed, useSlots, accVars, node, ac, freed,
                         undefined, historyVars>>
       \/ Releasing /\ UseFreed

\* cc->update_route_time = 0
NullUpdated ==
    /\ AtPoint("updated")
    /\ updateTime' = FALSE
    /\ stack' = Continue("done")
    /\ UNCHANGED <<clusterVars, link, executed, useSlots, table, accErr, retries, node, ac, freed,
                   undefined, historyVars>>

\* Mutant: a command whose connection was lost is sent again.
NullResent ==
    LET s == issued[Top.id]
    IN  /\ Called({"null"})
        /\ ~updateTime
        /\ ~Releasing
        /\ Submit(table[s], node[table[s]].host, Top.id, s, FALSE)
        /\ stack' = Returned
        /\ UNCHANGED <<clusterVars, executed, useSlots, accVars, freed, undefined, issued, ran>>

\* A NULL reply is counted; after too many for one node an update is planned,
\* for a time that cluster_config_get asks a node for.
NullCounted ==
    LET k == ac[Top.conn].data
        many == node[k].failures + 1 > MaxRedirect
    IN  /\ Called({"null"})
        /\ ~updateTime
        /\ IF k = Dangling
           THEN UseFreed
           ELSE /\ many => ~Releasing
                /\ node' = [node EXCEPT ![k].failures = IF many THEN 0 ELSE @ + 1]
                /\ \/ UNCHANGED updateTime
                   \/ /\ many
                      /\ \E j \in Keys : node[j].host \in alive
                      /\ updateTime' = TRUE
                /\ stack' = Continue("done")
                /\ UNCHANGED <<clusterVars, link, executed, useSlots, table, accErr, retries, ac,
                               freed, undefined, historyVars>>

\* cluster_config_get walks through cc->nodes while it is being released.
NullInRelease ==
    /\ Called({"null"})
    /\ ~updateTime
    /\ Releasing
    /\ ac[Top.conn].data # Dangling
    /\ node[ac[Top.conn].data].failures + 1 > MaxRedirect
    /\ UseFreed

\* Any reply that is no redirection goes to the application.
Plain ==
    /\ Called({"ok", "error"})
    /\ stack' = Continue("done")
    /\ UNCHANGED <<clusterVars, link, executed, useSlots, accVars, node, ac, freed, undefined,
                   historyVars>>

\* cad->retry_count ++, and the test that follows.
TooMany(id) == retries[id] + 1 > MaxRedirect

\* Mutant: goto error instead of goto done.
TooManyDropped ==
    /\ Called({"moved", "ask", "again"})
    /\ TooMany(Top.id)
    /\ retries' = [retries EXCEPT ![Top.id] = 0]
    /\ accErr' = TRUE
    /\ stack' = Returned
    /\ UNCHANGED <<clusterVars, link, executed, useSlots, table, updateTime, node, ac, freed,
                   undefined, historyVars>>

TooManyRedirects ==
    /\ Called({"moved", "ask", "again"})
    /\ TooMany(Top.id)
    /\ retries' = [retries EXCEPT ![Top.id] = 0]
    /\ accErr' = TRUE
    /\ stack' = Continue("done")
    /\ UNCHANGED <<clusterVars, link, executed, useSlots, table, updateTime, node, ac, freed,
                   undefined, historyVars>>

Redirected(type) ==
    /\ Called({type})
    /\ ~TooMany(Top.id)
    /\ retries' = [retries EXCEPT ![Top.id] = @ + 1]

\* actx_get_after_update_route_by_slot updates the route, ...
Moved ==
    /\ Redirected("moved")
    /\ \/ /\ RouteUpdated("resend")
          /\ UNCHANGED accErr
       \/ /\ accErr' = TRUE
          /\ stack' = Continue("done")
          /\ UNCHANGED <<table, node, ac>>
    /\ UNCHANGED <<clusterVars, link, executed, useSlots, updateTime, freed, undefined, historyVars>>

\* ... and the command goes to the node that holds the slot now.
Resend ==
    LET s == issued[Top.id]
    IN  /\ AtPoint("resend")
        /\ Submit(table[s], node[table[s]].host, Top.id, s, FALSE)
        /\ stack' = Returned
        /\ UNCHANGED <<clusterVars, executed, useSlots, accVars, freed, undefined, issued, ran>>

ResendFails ==
    LET s == issued[Top.id]
    IN  /\ AtPoint("resend")
        /\ SubmitFails(table[s], node[table[s]].host)
        /\ stack' = Continue("done")
        /\ UNCHANGED <<clusterVars, executed, useSlots, table, updateTime, retries, freed,
                       undefined, issued, sends, ran>>

\* node_get_by_ask_error_reply: the node at the address in the reply, or a new
\* one that is filed under the slot, if there is none already.
AskNode(n, s) ==
    IF node[n].host # None THEN n ELSE IF node[s].host = None THEN s ELSE Fresh

Ask ==
    LET s == issued[Top.id]
        k == AskNode(Top.reply.to, s)
    IN  /\ Redirected("ask")
        /\ k \in Holders => Spare # {}
        /\ Submit(k, Top.reply.to, Top.id, s, TRUE)
        /\ stack' = Returned
        /\ UNCHANGED <<clusterVars, executed, useSlots, table, updateTime, accErr, freed,
                       undefined, issued, ran>>

AskFails ==
    LET s == issued[Top.id]
        k == AskNode(Top.reply.to, s)
    IN  /\ Redirected("ask")
        /\ SubmitFails(k, Top.reply.to)
        /\ stack' = Continue("done")
        /\ UNCHANGED <<clusterVars, executed, useSlots, table, updateTime, freed, undefined,
                       issued, sends, ran>>

\* TRYAGAIN and CLUSTERDOWN: once more on the same connection.
TryAgain ==
    LET c == Top.conn
    IN  /\ Redirected("again")
        /\ link' = [link EXCEPT ![c] = Queued(link[c], Top.id, issued[Top.id], FALSE)]
        /\ ac' = [ac EXCEPT ![c] = Waiting(ac[c], Top.id, FALSE)]
        /\ sends' = [sends EXCEPT ![Top.id] = @ + 1]
        /\ stack' = Returned
        /\ UNCHANGED <<clusterVars, executed, useSlots, table, updateTime, accErr, node, freed,
                       undefined, issued, ran, notReached>>

\* The label done: the application gets the reply, or NULL after an error.
Done ==
    /\ AtPoint("done")
    /\ LET given == IF accErr THEN NullReply ELSE Top.reply
       IN  /\ ran' = [ran EXCEPT ![Top.id] = Append(@, given)]
           /\ stack' = [stack EXCEPT ![Len(stack)] = [@ EXCEPT !.at = "user", !.reply = given]]
    /\ UNCHANGED <<clusterVars, link, executed, useSlots, accVars, node, ac, freed, undefined,
                   issued, sends, notReached>>

\* Its callback returns, and the errors are cleared.
UserReturns ==
    /\ AtPoint("user")
    /\ accErr' = FALSE
    /\ stack' = Returned
    /\ UNCHANGED <<clusterVars, link, executed, useSlots, table, updateTime, retries, node, ac,
                   freed, undefined, historyVars>>

-----------------------------------------------------------------------------
Environment ==
    /\ EventLoop
    /\ ClusterNext
    /\ UNCHANGED <<useSlots, accVars, node, ac, stack, freed, undefined, historyVars>>

Next ==
    \/ Environment
    \/ \E s \in Slots : Command(s) \/ CommandRefused(s)
    \/ CommandFails \/ CommandInRelease \/ Free
    \/ \E k \in Keys : ReleaseNode(k)
    \/ ReleaseEnds
    \/ \E c \in Holders : ReadReply(c) \/ ConnectionFails(c)
    \/ TeardownCallback \/ TeardownEnds
    \/ NullPlanned \/ NullUpdated \/ NullCounted \/ NullInRelease
    \/ Plain \/ TooManyRedirects \/ Moved
    \/ Resend \/ ResendFails \/ Ask \/ AskFails \/ TryAgain
    \/ Done \/ UserReturns

Spec == Init /\ [][Next]_vars

-----------------------------------------------------------------------------
(* Properties. *)

Count(seq, id) == Cardinality({i \in DOMAIN seq : seq[i] = id})

\* Every command that redisClusterAsyncCommand accepted is in one place: its
\* callback has run, or runs, or waits on one live connection.  No redirection,
\* route update, failure or free loses a callback or runs it twice.
Accounted ==
    ~undefined =>
    \A id \in 1 .. Len(issued) :
        Len(ran[id])
        + Cardinality({i \in DOMAIN stack : stack[i].kind = "cb" /\ stack[i].id = id
                                            /\ stack[i].at # "user"})
        + Cardinality({c \in Holders : Count(ac[c].queue, id) = 1})
        = 1

\* A callback gets the reply to its own command, or NULL: the replies of a
\* connection stay in step with its callbacks, those to ASKING and to commands
\* that were sent again included.
OwnReply ==
    \A id \in Ids : \A i \in DOMAIN ran[id] :
        ran[id][i].type # "null" => ran[id][i].id = id

\* A command is executed once at most: it is sent again only after a reply that
\* says it was not executed, and that no more than cc->max_redirect_count times.
AtMostOnce ==
    /\ \A i, j \in DOMAIN executed : executed[i].id = executed[j].id => i = j
    /\ \A id \in Ids : sends[id] <= MaxRedirect + 1

\* Every variable has its type.  In the event loop a node and its connection
\* refer to each other, the connection is to that node, and it accepts commands or
\* failed at once and has no callback that waits for an event; and a connection
\* that is live belongs to a node.  All that unless NOT_REACHED() was passed: then
\* a connection that no node refers to is never freed, and keeps a pointer to a
\* node that is.
LinksAgree ==
    /\ TypeOK
    /\ EventLoop /\ ~notReached =>
          \A p \in Pointers :
             LET c == node[p].acon
             IN  c # None => /\ ac[c].live /\ ~ac[c].freeing
                             /\ ac[c].err => ac[c].queue = <<>>
                             /\ ac[c].data = p
                             /\ link[c].peer = node[p].host
    /\ EventLoop /\ ~notReached =>
          \A c \in Holders : ac[c].live => node[ac[c].data].acon = c

\* The node that redisClusterAsyncCallback and unlinkAsyncContextAndNode take
\* from ac->data exists.
NodeExists == ~undefined

\* actx_get_by_node finds no connection with an error at a node: the code says
\* NOT_REACHED() there.
ErrNotReached == ~notReached
=============================================================================
