------------------------ MODULE ClusterContextProofs ------------------------
(***************************************************************************)
(* What the synchronous cluster API promises for every set of nodes and    *)
(* slots, however slots migrate, nodes crash and connections break: routes *)
(* refer to nodes that exist; and, where the application uses              *)
(* redisClusterCommand alone, its replies are those to its commands, and   *)
(* nothing is executed twice.                                              *)
(***************************************************************************)
EXTENDS ClusterContext, RedisClusterFacts

-----------------------------------------------------------------------------
(* The invariant of routes. *)

\* Where the thread is in a loop over the slots of a command.
Working == {"retry", "scan", "ping", "asking", "wait", "append", "get", "await"}

ContextTyped ==
    /\ table \in [Slots -> Nodes \cup {None}]
    /\ nodes \in [Keys -> Nodes \cup {None}]
    /\ requests \in Seq(Nat)
    /\ listed \in BOOLEAN
    /\ needUpdate \in BOOLEAN
    /\ retryCount \in 0 .. MaxRedirect
    /\ ccErr \in BOOLEAN

CallTyped ==
    /\ pc \in PCs
    /\ pc = "append" => cmd # 0
    /\ cur \in Holders
    /\ tried \subseteq Keys
    /\ todo \in Seq(Slots)
    /\ got \in Seq(GoodReply)
    /\ cmd \in 0 .. Len(issued)
    /\ resetting \in BOOLEAN
    /\ issued \in Seq(SlotLists)
    /\ sends \in Nat
    /\ results \in Seq([id : Nat, got : Seq(GoodReply), err : BOOLEAN])

\* A loop over slots has one left; requests are commands that were appended.
Pending ==
    /\ pc \in Working => todo # <<>>
    /\ \A i \in 1 .. Len(requests) : requests[i] \in 1 .. Len(issued)

Routed == \A s \in Slots : table[s] # None => nodes[table[s]] # None

RouteInv == ClusterTyped /\ ContextTyped /\ CallTyped /\ Pending /\ Routed

-----------------------------------------------------------------------------
(* The invariant of an application that calls redisClusterCommand only. *)

CommandOnly == AppCalls \subseteq {"command"}

Quiet(l) == l.out = <<>> /\ l.sent = <<>> /\ l.in = <<>>

InUse(l) == l.state \in {"open", "broken"}

\* What the thread has sent, and waits for.
Awaited ==
    [id |-> cmd, slot |-> Head(todo),
     op |-> IF pc = "ping" THEN "ping" ELSE IF pc = "asking" THEN "asking" ELSE "cmd"]

\* Request q is on connection l, or its reply, or it was lost; and nothing else.
Carries(l, q) ==
    /\ l.out = <<>>
    /\ \/ l.state = "open" /\ l.sent = <<q>> /\ l.in = <<>>
       \/ /\ InUse(l) /\ l.sent = <<>> /\ Len(l.in) = 1
          /\ l.in[1].id = q.id /\ l.in[1].slot = q.slot /\ l.in[1].op = q.op
       \/ l.state = "broken" /\ l.sent = <<>> /\ l.in = <<>>

Alone ==
    /\ pc \in {"idle", "retry", "scan", "ping", "asking", "wait"}
    /\ ~listed
    /\ requests = <<>>
    /\ Blocked => Carries(link[cur], Awaited)
    /\ \A o \in Holders : InUse(link[o]) => Quiet(link[o]) \/ (Blocked /\ o = cur)

\* The replies got so far, and the slots still to do, make up the command.
Progress ==
    pc # "idle" =>
        /\ cmd \in 1 .. Len(issued)
        /\ Len(got) + Len(todo) = Len(issued[cmd])
        /\ \A k \in 1 .. Len(got) :
              /\ got[k].id = cmd /\ got[k].op = "cmd" /\ got[k].type = "ok"
              /\ got[k].slot = issued[cmd][k]
        /\ \A k \in 1 .. Len(todo) : todo[k] = issued[cmd][Len(got) + k]

\* The replies of the calls that have returned.
Returned ==
    /\ \A i \in 1 .. Len(results) : results[i].id \in 1 .. Len(issued)
    /\ RightReply

\* The sub-command at hand was executed only if the reply that says so is here,
\* and those after it were not.
Unexecuted ==
    /\ \A e \in 1 .. Len(executed) : executed[e].id \in 1 .. Len(issued)
    /\ \A i, j \in 1 .. Len(executed) : executed[i] = executed[j] => i = j
    /\ pc # "idle" =>
          \A e \in 1 .. Len(executed), k \in 1 .. Len(todo) :
             executed[e].id = cmd /\ executed[e].slot = todo[k] =>
                k = 1 /\ pc = "wait" /\ link[cur].in # <<>> /\ link[cur].in[1].type = "ok"

\* Every time that the command is sent is paid for by a sub-command or a retry.
Budget ==
    /\ pc = "idle" => sends = 0 /\ got = <<>>
    /\ pc # "idle" => sends <= retryCount + Len(got) + (IF pc = "wait" THEN 1 ELSE 0)

CommandInv == Alone /\ Progress /\ Returned /\ Unexecuted /\ Budget

-----------------------------------------------------------------------------
(* Connections and routes keep their types. *)

LEMMA CtxOfNodeType ==
    ASSUME NEW l \in GoodLink, NEW peer \in Nodes \cup {None}
    PROVE  CtxOfNode(l, peer) \in GoodLink
  BY NewLinkType DEF CtxOfNode

LEMMA AppendedType ==
    ASSUME NEW l \in GoodLink, NEW op \in Ops, NEW id \in Nat, NEW slot \in Slots
    PROVE  Appended(l, op, id, slot) \in GoodLink
<1> DEFINE q == [id |-> id, slot |-> slot, op |-> op]
<1>1. l.out \in Seq(Request) /\ q \in Request
  BY DEF GoodLink, Request
<1>2. Append(l.out, q) \in Seq(Request)
  BY <1>1, AppendType
<1> HIDE DEF q
<1>3. [l EXCEPT !.out = Append(l.out, q)] \in GoodLink
  BY <1>2 DEF GoodLink
<1> QED BY <1>3 DEF Appended, q

LEMMA FlushedType ==
    ASSUME NEW l \in GoodLink
    PROVE  Flushed(l) \in GoodLink
<1>1. l.out \in Seq(Request) /\ l.sent \in Seq(Request) /\ <<>> \in Seq(Request)
  BY DEF GoodLink
<1>2. l.sent \o l.out \in Seq(Request)
  BY <1>1, ConcatType
<1> QED BY <1>1, <1>2 DEF Flushed, GoodLink

LEMMA StartsType ==
    ASSUME NEW l \in GoodLink, NEW m \in GetReplyStarts(l)
    PROVE  m \in GoodLink
<1>1. Flushed(l) \in GoodLink
  BY FlushedType
<1> QED BY <1>1 DEF GetReplyStarts

LEMMA ReceiveType ==
    ASSUME ClusterTyped, CallTyped, NEW reply, Receive(reply)
    PROVE  reply \in GoodReply /\ Received \in [Holders -> GoodLink]
<1>1. cur \in Holders /\ link[cur] \in GoodLink /\ link[cur].in \in Seq(GoodReply) /\ link[cur].in # <<>>
  BY DEF ClusterTyped, CallTyped, GoodLink, Receive
<1>2. reply \in GoodReply /\ Tail(link[cur].in) \in Seq(GoodReply)
  BY <1>1, HeadTailType DEF Receive
<1>3. [link[cur] EXCEPT !.in = Tail(@)] \in GoodLink
  BY <1>1, <1>2 DEF GoodLink
<1>4. Received = [link EXCEPT ![cur] = [link[cur] EXCEPT !.in = Tail(@)]]
  BY DEF Received
<1> QED BY <1>1, <1>2, <1>3, <1>4 DEF ClusterTyped

LEMMA FailedType ==
    ASSUME ClusterTyped, CallTyped
    PROVE  Failed \in [Holders -> GoodLink]
<1>1. cur \in Holders /\ link[cur] \in GoodLink
  BY DEF ClusterTyped, CallTyped
<1>2. [link[cur] EXCEPT !.state = "err"] \in GoodLink
  BY <1>1 DEF GoodLink
<1>3. Failed = [link EXCEPT ![cur] = [link[cur] EXCEPT !.state = "err"]]
  BY DEF Failed
<1> QED BY <1>1, <1>2, <1>3 DEF ClusterTyped

LEMMA AllClosedType ==
    ASSUME NEW ls \in [Holders -> GoodLink]
    PROVE  AllClosed(ls) \in [Holders -> GoodLink]
  BY NoLinkType DEF AllClosed

\* New routes refer to new nodes, whichever node they come from.
LEMMA RouteUpdatedType ==
    ASSUME ClusterTyped, ContextTyped, NEW ls \in [Holders -> GoodLink], RouteUpdated(ls)
    PROVE  /\ link' \in [Holders -> GoodLink]
           /\ table' \in [Slots -> Nodes \cup {None}]
           /\ nodes' \in [Keys -> Nodes \cup {None}]
           /\ Routed'
<1>1. PICK k \in Keys, lost \in SUBSET Lost :
          /\ nodes[k] \in alive
          /\ nodes' = NodesFrom(nodes[k], lost)
          /\ table' = TableFrom(nodes[k], lost)
          /\ link' = [o \in Holders |->
                        IF o = Orphan \/ (nodes[o] # None /\ nodes'[o] # None) THEN ls[o] ELSE NoLink]
  BY DEF RouteUpdated
<1> DEFINE n == nodes[k]
<1>2. n \in Nodes
  BY <1>1 DEF ClusterTyped
<1>3. link' \in [Holders -> GoodLink]
  BY <1>1, NoLinkType
<1>4. table' \in [Slots -> Nodes \cup {None}]
  BY <1>1, <1>2 DEF ClusterTyped, TableFrom
<1>5. Known(n, lost) \subseteq Nodes
  BY <1>2 DEF Known, ClusterTyped
<1>6. nodes' \in [Keys -> Nodes \cup {None}]
  BY <1>1, <1>5 DEF NodesFrom
<1>7. ASSUME NEW s \in Slots, table'[s] # None PROVE nodes'[table'[s]] # None
  <2>1. s \notin lost /\ table'[s] = seen[n][s]
    BY <1>1, <1>7 DEF TableFrom
  <2>2. table'[s] \in Nodes /\ table'[s] \in Known(n, lost)
    BY <1>2, <2>1 DEF Known, ClusterTyped
  <2>3. table'[s] \in Keys
    BY <2>2 DEF Keys
  <2>4. nodes'[table'[s]] = table'[s]
    BY <1>1, <2>2, <2>3 DEF NodesFrom
  <2> QED BY <2>2, <2>4, ClusterAssumption
<1> QED BY <1>3, <1>4, <1>6, <1>7 DEF Routed

LEMMA NextSlot ==
    ASSUME RouteInv, pc \in Working
    PROVE  Head(todo) \in Slots /\ Tail(todo) \in Seq(Slots)
  BY HeadTailType DEF RouteInv, CallTyped, Pending

\* The connection to the node of the next slot, where it has one.
LEMMA NextNode ==
    ASSUME RouteInv, pc \in Working, table[Head(todo)] # None
    PROVE  /\ table[Head(todo)] \in Keys
           /\ table[Head(todo)] \in Holders
           /\ nodes[table[Head(todo)]] \in Nodes
           /\ CtxOfNode(link[table[Head(todo)]], nodes[table[Head(todo)]]) \in GoodLink
<1>1. Head(todo) \in Slots
  BY NextSlot
<1>2. table[Head(todo)] \in Nodes
  BY <1>1 DEF RouteInv, ContextTyped
<1>3. table[Head(todo)] \in Keys /\ table[Head(todo)] \in Holders
  BY <1>2, ContextAssumption DEF Keys
<1>4. nodes[table[Head(todo)]] \in Nodes
  BY <1>1, <1>3 DEF RouteInv, ContextTyped, Routed
<1>5. CtxOfNode(link[table[Head(todo)]], nodes[table[Head(todo)]]) \in GoodLink
  BY <1>3, <1>4, CtxOfNodeType DEF RouteInv, ClusterTyped
<1> QED BY <1>3, <1>4, <1>5

LEMMA ExchangeType ==
    ASSUME RouteInv, pc \in Working, NEW ls \in [Holders -> GoodLink], NEW o \in Holders,
           NEW l \in GoodLink, NEW op \in Ops,
           NEW m \in GetReplyStarts(Appended(l, op, cmd, Head(todo)))
    PROVE  [ls EXCEPT ![o] = m] \in [Holders -> GoodLink]
<1>1. Head(todo) \in Slots /\ cmd \in Nat
  BY NextSlot DEF RouteInv, CallTyped
<1>2. Appended(l, op, cmd, Head(todo)) \in GoodLink
  BY <1>1, AppendedType
<1>3. m \in GoodLink
  BY <1>2, StartsType
<1> QED BY <1>3

-----------------------------------------------------------------------------
(* The steps of redisClusterCommand keep the invariant of routes. *)

ResultType == [id : Nat, got : Seq(GoodReply), err : BOOLEAN]

LEMMA LocalsTyped ==
    ASSUME RouteInv, Locals, issued' = issued, results' \in Seq(ResultType)
    PROVE  CallTyped' /\ pc' = "idle" /\ pc' \notin Working
<1>1. <<>> \in Seq(Slots) /\ <<>> \in Seq(GoodReply)
  OBVIOUS
<1>2. Orphan \in Holders /\ 0 \in 0 .. Len(issued)
  BY ContextAssumption DEF RouteInv, CallTyped
<1> QED BY <1>1, <1>2 DEF Locals, RouteInv, CallTyped, PCs, ResultType, Working

LEMMA ResultAdded ==
    ASSUME RouteInv, NEW replies \in Seq(GoodReply), NEW failed \in BOOLEAN,
           results' = Append(results, [id |-> cmd, got |-> replies, err |-> failed])
    PROVE  results' \in Seq(ResultType)
<1>1. cmd \in Nat
  BY DEF RouteInv, CallTyped
<1>2. [id |-> cmd, got |-> replies, err |-> failed] \in ResultType
  BY <1>1 DEF ResultType
<1> HIDE DEF ResultType
<1> QED BY <1>2, AppendType DEF RouteInv, CallTyped, ResultType

LEMMA ReturnsTyped ==
    ASSUME RouteInv, NEW replies \in Seq(GoodReply), NEW failed \in BOOLEAN,
           CommandReturns(replies, failed), issued' = issued
    PROVE  CallTyped' /\ pc' = "idle" /\ pc' \notin Working /\ retryCount' \in 0 .. MaxRedirect
<1>1. results' \in Seq(ResultType)
  BY ResultAdded DEF CommandReturns
<1> QED BY <1>1, LocalsTyped, ContextAssumption DEF CommandReturns

LEMMA FailsTyped ==
    ASSUME RouteInv, CommandFails, issued' = issued
    PROVE  CallTyped' /\ pc' = "idle" /\ pc' \notin Working /\ retryCount' \in 0 .. MaxRedirect /\ ccErr' \in BOOLEAN
<1>1. <<>> \in Seq(GoodReply)
  OBVIOUS
<1> QED BY <1>1, ReturnsTyped DEF CommandFails

LEMMA CommandRoute ==
    ASSUME RouteInv, NEW slots \in SlotLists, Command(slots) \/ AppendCommand(slots)
    PROVE  RouteInv'
<1>1. slots \in Seq(Slots) /\ slots # <<>>
  BY ContextAssumption
<1>2. issued' = Append(issued, slots) /\ issued \in Seq(SlotLists)
  BY DEF Command, AppendCommand, RouteInv, CallTyped
<1>3. issued' \in Seq(SlotLists) /\ Len(issued') = Len(issued) + 1 /\ Len(issued) \in Nat
  BY <1>2, AppendType, AppendFacts
<1>4. cmd' = Len(issued') /\ todo' = slots /\ pc' \in {"retry", "append"}
  BY DEF Command, AppendCommand
<1>5. CallTyped'
  BY <1>1, <1>3, <1>4 DEF Command, AppendCommand, RouteInv, CallTyped, PCs
<1>6. Pending'
  BY <1>1, <1>3, <1>4 DEF Command, AppendCommand, RouteInv, Pending, pipeVars
<1>7. ContextTyped' /\ Routed'
  BY DEF Command, AppendCommand, MayPipeline, RouteInv, ContextTyped, Routed, routeVars, pipeVars
<1>8. ClusterTyped'
  BY DEF Command, AppendCommand, RouteInv, ClusterTyped, clusterVars
<1> QED BY <1>5, <1>6, <1>7, <1>8 DEF RouteInv

\* The step leaves the servers and the pipeline alone.
LEMMA CallRoute ==
    ASSUME RouteInv, UNCHANGED <<clusterVars, executed, pipeVars, issued>>,
           link' \in [Holders -> GoodLink], CallTyped', pc' \in Working => todo' # <<>>,
           retryCount' \in 0 .. MaxRedirect, needUpdate' \in BOOLEAN, ccErr' \in BOOLEAN,
           table' \in [Slots -> Nodes \cup {None}], nodes' \in [Keys -> Nodes \cup {None}], Routed'
    PROVE  RouteInv'
<1>1. ClusterTyped'
  BY DEF RouteInv, ClusterTyped, clusterVars
<1>2. ContextTyped'
  BY DEF RouteInv, ContextTyped, pipeVars
<1>3. Pending'
  BY DEF RouteInv, Pending, pipeVars
<1> QED BY <1>1, <1>2, <1>3 DEF RouteInv

LEMMA RetryRoute ==
    ASSUME RouteInv, Retry
    PROVE  RouteInv'
<1> DEFINE o == table[Head(todo)]
           l == CtxOfNode(link[o], nodes[o])
<1>0. pc = "retry" /\ pc \in Working /\ o # None
  BY DEF Retry, Working
<1>1. o \in Holders /\ l \in GoodLink
  BY <1>0, NextNode
<1>2. UNCHANGED <<clusterVars, executed, contextVars, todo, got, cmd, resetting, historyVars>>
  BY DEF Retry
<1>3. todo # <<>>
  BY <1>0 DEF RouteInv, Pending
<1>4. IF l.state = "err"
      THEN link' = [link EXCEPT ![o] = l] /\ pc' = "scan" /\ tried' = {} /\ UNCHANGED <<cur, sends>>
      ELSE Exchange(o, l, "cmd") /\ UNCHANGED tried
  BY DEF Retry
<1> HIDE DEF o, l
<1>5. link' \in [Holders -> GoodLink] /\ CallTyped'
  <2>1. CASE l.state = "err"
    BY <1>1, <1>2, <1>4, <2>1 DEF RouteInv, ClusterTyped, CallTyped, PCs, historyVars
  <2>2. CASE l.state # "err"
    <3>1. Exchange(o, l, "cmd") /\ UNCHANGED tried
      BY <1>4, <2>2
    <3>2. PICK m \in GetReplyStarts(Appended(l, "cmd", cmd, Head(todo))) : link' = [link EXCEPT ![o] = m]
      BY <3>1 DEF Exchange
    <3>3. link' \in [Holders -> GoodLink]
      BY <1>0, <1>1, <3>2, ExchangeType DEF Ops, RouteInv, ClusterTyped
    <3>4. cur' = o /\ pc' = "wait" /\ sends' = sends + 1
      BY <3>1 DEF Exchange
    <3> QED BY <1>1, <1>2, <3>1, <3>3, <3>4 DEF RouteInv, CallTyped, PCs, historyVars
  <2> QED BY <2>1, <2>2
<1>6. ContextTyped' /\ Routed'
  BY <1>2 DEF RouteInv, ContextTyped, Routed, contextVars, routeVars, pipeVars
<1> QED BY <1>2, <1>3, <1>5, <1>6, CallRoute DEF ContextTyped, contextVars, historyVars

LEMMA ScanRoute ==
    ASSUME RouteInv, NEW o \in Keys, Scan(o)
    PROVE  RouteInv'
<1> DEFINE l == CtxOfNode(link[o], nodes[o])
<1>0. pc = "scan" /\ pc \in Working
  BY DEF Scan, Working
<1>1. o \in Holders /\ nodes[o] \in Nodes \cup {None}
  BY ContextAssumption DEF RouteInv, ContextTyped
<1>2. l \in GoodLink
  BY <1>1, CtxOfNodeType DEF RouteInv, ClusterTyped
<1>3. UNCHANGED <<clusterVars, executed, contextVars, todo, got, cmd, resetting, historyVars>>
  BY DEF Scan
<1>4. todo # <<>>
  BY <1>0 DEF RouteInv, Pending
<1>5. tried' = tried \cup {o} /\
      IF l.state = "err" THEN link' = [link EXCEPT ![o] = l] /\ UNCHANGED <<pc, cur, sends>>
      ELSE Exchange(o, l, "ping")
  BY DEF Scan
<1> HIDE DEF l
<1>6. link' \in [Holders -> GoodLink] /\ CallTyped'
  <2>1. CASE l.state = "err"
    BY <1>1, <1>2, <1>3, <1>5, <2>1 DEF RouteInv, ClusterTyped, CallTyped, historyVars
  <2>2. CASE l.state # "err"
    <3>1. Exchange(o, l, "ping")
      BY <1>5, <2>2
    <3>2. PICK m \in GetReplyStarts(Appended(l, "ping", cmd, Head(todo))) : link' = [link EXCEPT ![o] = m]
      BY <3>1 DEF Exchange
    <3>3. link' \in [Holders -> GoodLink]
      BY <1>0, <1>1, <1>2, <3>2, ExchangeType DEF Ops, RouteInv, ClusterTyped
    <3>4. cur' = o /\ pc' = "ping" /\ sends' = sends
      BY <3>1 DEF Exchange
    <3> QED BY <1>1, <1>3, <1>5, <3>3, <3>4 DEF RouteInv, CallTyped, PCs, historyVars
  <2> QED BY <2>1, <2>2
<1>7. ContextTyped' /\ Routed'
  BY <1>3 DEF RouteInv, ContextTyped, Routed, contextVars, routeVars, pipeVars
<1> QED BY <1>3, <1>4, <1>6, <1>7, CallRoute DEF ContextTyped, contextVars, historyVars

LEMMA CommandFailsRoute ==
    ASSUME RouteInv, RetryFails \/ ScanEnds
    PROVE  RouteInv'
<1>1. UNCHANGED <<clusterVars, link, executed, routeVars, pipeVars, needUpdate, issued>> /\ CommandFails
  BY DEF RetryFails, ScanEnds
<1>2. CallTyped' /\ pc' \notin Working /\ retryCount' \in 0 .. MaxRedirect /\ ccErr' \in BOOLEAN
  BY <1>1, FailsTyped
<1>3. /\ link' \in [Holders -> GoodLink] /\ needUpdate' \in BOOLEAN
      /\ table' \in [Slots -> Nodes \cup {None}] /\ nodes' \in [Keys -> Nodes \cup {None}] /\ Routed'
  BY <1>1 DEF RouteInv, ClusterTyped, ContextTyped, Routed, routeVars
<1> QED BY <1>1, <1>2, <1>3, CallRoute

LEMMA PongRoute ==
    ASSUME RouteInv, NEW reply, Pong(reply)
    PROVE  RouteInv'
<1>0. pc = "ping" /\ pc \in Working /\ cur \in Holders /\ todo # <<>> /\ Receive(reply)
  BY DEF Pong, Working, RouteInv, CallTyped, Pending
<1>1. Received \in [Holders -> GoodLink]
  BY <1>0, ReceiveType DEF RouteInv
<1>2. UNCHANGED <<clusterVars, executed, routeVars, pipeVars, needUpdate, issued>>
  BY DEF Pong
<1>3. /\ needUpdate' \in BOOLEAN /\ table' \in [Slots -> Nodes \cup {None}]
      /\ nodes' \in [Keys -> Nodes \cup {None}] /\ Routed'
  BY <1>2 DEF RouteInv, ContextTyped, Routed, routeVars
<1>4. CASE link' = Received /\ CommandFails
  <2>1. CallTyped' /\ pc' \notin Working /\ retryCount' \in 0 .. MaxRedirect /\ ccErr' \in BOOLEAN
    BY <1>2, <1>4, FailsTyped
  <2> QED BY <1>1, <1>2, <1>3, <1>4, <2>1, CallRoute
<1>5. CASE /\ ~TooMany /\ retryCount' = retryCount + 1 /\ Exchange(cur, Received[cur], "cmd")
           /\ UNCHANGED <<ccErr, tried, todo, got, cmd, resetting, results>>
  <2>1. PICK m \in GetReplyStarts(Appended(Received[cur], "cmd", cmd, Head(todo))) :
           link' = [link EXCEPT ![cur] = m]
    BY <1>5 DEF Exchange
  <2>2. link' \in [Holders -> GoodLink]
    BY <1>0, <1>1, <2>1, ExchangeType DEF Ops, RouteInv, ClusterTyped
  <2>3. cur' = cur /\ pc' = "wait" /\ sends' = sends + 1
    BY <1>5 DEF Exchange
  <2>4. CallTyped'
    BY <1>2, <1>5, <2>3 DEF RouteInv, CallTyped, PCs
  <2>5. retryCount' \in 0 .. MaxRedirect /\ ccErr' \in BOOLEAN
    BY <1>5, ContextAssumption DEF TooMany, RouteInv, ContextTyped
  <2> QED BY <1>0, <1>2, <1>3, <1>5, <2>2, <2>4, <2>5, CallRoute
<1>6. CASE link' = Received /\ pc' = "scan" /\ UNCHANGED <<retryCount, ccErr, callVars, sends, results>>
  <2>1. CallTyped' /\ retryCount' \in 0 .. MaxRedirect /\ ccErr' \in BOOLEAN /\ todo' # <<>>
    BY <1>0, <1>2, <1>6 DEF RouteInv, CallTyped, ContextTyped, PCs, callVars
  <2> QED BY <1>1, <1>2, <1>3, <1>6, <2>1, CallRoute
<1> QED BY <1>4, <1>5, <1>6 DEF Pong

LEMMA CommandReplyRoute ==
    ASSUME RouteInv, NEW reply, CommandReply(reply)
    PROVE  RouteInv'
<1>0. pc = "wait" /\ pc \in Working /\ cur \in Holders /\ todo # <<>> /\ Receive(reply)
  BY DEF CommandReply, Working, RouteInv, CallTyped, Pending
<1>1. Received \in [Holders -> GoodLink] /\ reply \in GoodReply
  BY <1>0, ReceiveType DEF RouteInv
<1>2. UNCHANGED <<clusterVars, executed, pipeVars, needUpdate, issued>> /\ needUpdate' \in BOOLEAN
  BY DEF CommandReply, RouteInv, ContextTyped
<1>3. UNCHANGED routeVars => /\ table' \in [Slots -> Nodes \cup {None}]
                             /\ nodes' \in [Keys -> Nodes \cup {None}] /\ Routed'
  BY DEF RouteInv, ContextTyped, Routed, routeVars
<1>4. ASSUME CommandFails
      PROVE  CallTyped' /\ pc' \notin Working /\ retryCount' \in 0 .. MaxRedirect /\ ccErr' \in BOOLEAN
  BY <1>2, <1>4, FailsTyped
<1>5. ~TooMany /\ retryCount' = retryCount + 1 => retryCount' \in 0 .. MaxRedirect
  BY ContextAssumption DEF TooMany, RouteInv, ContextTyped
<1>6. UNCHANGED ccErr => ccErr' \in BOOLEAN
  BY DEF RouteInv, ContextTyped
<1>7. CASE SubCommandDone(reply)
  <2>0. link' = Received /\ UNCHANGED <<routeVars, ccErr>>
    BY <1>7 DEF SubCommandDone
  <2>1. <<reply>> \in Seq(GoodReply) /\ got \in Seq(GoodReply)
    BY <1>1 DEF RouteInv, CallTyped
  <2>2. Append(got, reply) \in Seq(GoodReply)
    BY <1>1, <2>1, AppendType
  <2>3. CASE CommandReturns(IF reply.type = "error" THEN <<reply>> ELSE Append(got, reply), FALSE)
    <3>1. CallTyped' /\ pc' \notin Working /\ retryCount' \in 0 .. MaxRedirect
      BY <1>2, <2>1, <2>2, <2>3, ReturnsTyped
    <3> QED BY <1>1, <1>2, <1>3, <1>6, <2>0, <3>1, CallRoute
  <2>4. CASE /\ Len(todo) # 1 /\ todo' = Tail(todo) /\ got' = Append(got, reply) /\ pc' = "retry"
             /\ UNCHANGED <<retryCount, cur, tried, cmd, resetting, sends, results>>
    <3>1. todo \in Seq(Slots) /\ todo' \in Seq(Slots) /\ todo' # <<>>
      <4>1. todo \in Seq(Slots) /\ Len(todo) # 1 /\ todo # <<>>
        BY <1>0, <2>4 DEF RouteInv, CallTyped
      <4>2. Tail(todo) \in Seq(Slots) /\ Tail(todo) # <<>>
        BY <4>1, TailLeft
      <4> QED BY <2>4, <4>1, <4>2
    <3>2. CallTyped' /\ retryCount' \in 0 .. MaxRedirect
      BY <1>2, <2>2, <2>4, <3>1 DEF RouteInv, CallTyped, ContextTyped, PCs
    <3> QED BY <1>1, <1>2, <1>3, <1>6, <2>0, <3>1, <3>2, CallRoute
  <2> QED BY <1>7, <2>3, <2>4 DEF SubCommandDone
<1>8. CASE TooManyRedirects(reply)
  BY <1>1, <1>2, <1>3, <1>4, <1>8, CallRoute DEF TooManyRedirects
<1>9. CASE MovedReply(reply)
  <2>1. CASE RouteFails(Received) /\ CommandFails
    BY <1>1, <1>2, <1>3, <1>4, <2>1, CallRoute DEF RouteFails
  <2>2. CASE /\ ~TooMany /\ RouteUpdated(Received) /\ retryCount' = retryCount + 1 /\ pc' = "retry"
             /\ UNCHANGED <<ccErr, callVars, sends, results>>
    <3>1. /\ link' \in [Holders -> GoodLink] /\ table' \in [Slots -> Nodes \cup {None}]
          /\ nodes' \in [Keys -> Nodes \cup {None}] /\ Routed'
      BY <1>1, <2>2, RouteUpdatedType DEF RouteInv
    <3>2. CallTyped' /\ todo' # <<>>
      BY <1>0, <1>2, <2>2 DEF RouteInv, CallTyped, PCs, callVars
    <3> QED BY <1>2, <1>5, <1>6, <2>2, <3>1, <3>2, CallRoute
  <2> QED BY <1>9, <2>1, <2>2 DEF MovedReply
<1>10. CASE AskReply(reply)
  <2> DEFINE o == AskNode(reply)
             l == IF o = reply.to THEN CtxOfNode(Received[o], reply.to)
                  ELSE NewLink(IF reply.to \in alive THEN "open" ELSE "err", reply.to)
  <2>1. reply.to \in Nodes /\ reply.slot \in Slots
    BY <1>1, <1>10 DEF AskReply, GoodReply, Reply
  <2>2. reply.to \in Keys /\ reply.slot \in Keys /\ reply.to \in Holders /\ reply.slot \in Holders /\ Orphan \in Holders
    BY <2>1, ContextAssumption DEF Keys
  <2>3. o \in Holders
    BY <2>2 DEF AskNode
  <2>4. l \in GoodLink
    BY <1>1, <2>1, <2>2, <2>3, CtxOfNodeType, NewLinkType
  <2>5. /\ ~TooMany /\ UNCHANGED table
        /\ nodes' = IF o = reply.slot THEN [nodes EXCEPT ![o] = reply.to] ELSE nodes
        /\ IF l.state = "err"
           THEN link' = [Received EXCEPT ![o] = l] /\ CommandFails
           ELSE /\ retryCount' = retryCount + 1
                /\ cur' = o
                /\ \E m \in GetReplyStarts(Appended(l, "asking", cmd, Head(todo))) :
                      link' = [Received EXCEPT ![o] = m]
                /\ pc' = "asking"
                /\ UNCHANGED <<ccErr, tried, todo, got, cmd, resetting, sends, results>>
    BY <1>10 DEF AskReply
  <2> HIDE DEF o, l
  <2>6. nodes' \in [Keys -> Nodes \cup {None}] /\ table' \in [Slots -> Nodes \cup {None}]
    BY <2>1, <2>2, <2>5 DEF RouteInv, ContextTyped
  <2>7. Routed'
    <3>1. None \notin Nodes
      BY ClusterAssumption
    <3>2. \A s \in Slots : table[s] # None => table[s] \in Keys
      BY DEF RouteInv, ContextTyped, Keys
    <3> QED BY <2>1, <2>2, <2>5, <3>1, <3>2 DEF RouteInv, ContextTyped, Routed
  <2>8. CASE l.state = "err"
    <3>1. link' \in [Holders -> GoodLink]
      BY <1>1, <2>3, <2>4, <2>5, <2>8
    <3> QED BY <1>2, <1>4, <2>5, <2>6, <2>7, <2>8, <3>1, CallRoute
  <2>9. CASE l.state # "err"
    <3>1. PICK m \in GetReplyStarts(Appended(l, "asking", cmd, Head(todo))) :
             link' = [Received EXCEPT ![o] = m]
      BY <2>5, <2>9
    <3>2. link' \in [Holders -> GoodLink]
      BY <1>0, <1>1, <2>3, <2>4, <3>1, ExchangeType DEF Ops
    <3>3. CallTyped' /\ todo' # <<>>
      BY <1>0, <1>2, <2>3, <2>5, <2>9 DEF RouteInv, CallTyped, PCs
    <3> QED BY <1>2, <1>5, <1>6, <2>5, <2>6, <2>7, <2>9, <3>2, <3>3, CallRoute
  <2> QED BY <2>8, <2>9
<1>11. CASE AgainReply(reply)
  <2>1. CallTyped' /\ todo' # <<>>
    BY <1>0, <1>2, <1>11 DEF AgainReply, RouteInv, CallTyped, PCs, callVars
  <2> QED BY <1>1, <1>2, <1>3, <1>5, <1>6, <1>11, <2>1, CallRoute DEF AgainReply
<1> QED BY <1>7, <1>8, <1>9, <1>10, <1>11 DEF CommandReply

LEMMA AskingReplyRoute ==
    ASSUME RouteInv, NEW reply, AskingReply(reply)
    PROVE  RouteInv'
<1>0. pc = "asking" /\ pc \in Working /\ cur \in Holders /\ todo # <<>> /\ Receive(reply)
  BY DEF AskingReply, Working, RouteInv, CallTyped, Pending
<1>1. Received \in [Holders -> GoodLink]
  BY <1>0, ReceiveType DEF RouteInv
<1>2. /\ UNCHANGED <<clusterVars, executed, contextVars, tried, todo, got, cmd, resetting, historyVars>>
      /\ Exchange(cur, Received[cur], "cmd")
  BY DEF AskingReply
<1>3. PICK m \in GetReplyStarts(Appended(Received[cur], "cmd", cmd, Head(todo))) :
           link' = [link EXCEPT ![cur] = m]
  BY <1>2 DEF Exchange
<1>4. link' \in [Holders -> GoodLink]
  BY <1>0, <1>1, <1>3, ExchangeType DEF Ops, RouteInv, ClusterTyped
<1>5. cur' = cur /\ pc' = "wait" /\ sends' = sends + 1
  BY <1>2 DEF Exchange
<1>6. CallTyped'
  BY <1>2, <1>5 DEF RouteInv, CallTyped, PCs, historyVars
<1>7. ContextTyped' /\ Routed'
  BY <1>2 DEF RouteInv, ContextTyped, Routed, contextVars, routeVars, pipeVars
<1> QED BY <1>0, <1>2, <1>4, <1>6, <1>7, CallRoute DEF ContextTyped, contextVars, historyVars

\* A timeout is counted among the faults.
LEMMA FaultTyped ==
    ASSUME ClusterTyped, ReceiveFails, link' \in [Holders -> GoodLink],
           UNCHANGED <<owner, importer, seen, alive, executed>>
    PROVE  ClusterTyped'
  BY DEF ClusterTyped, ReceiveFails, Fault

LEMMA ExchangeFailsRoute ==
    ASSUME RouteInv, ExchangeFails
    PROVE  RouteInv'
<1>1. /\ ReceiveFails /\ link' = Failed
      /\ UNCHANGED <<owner, importer, seen, alive, executed, routeVars, pipeVars, needUpdate, issued>>
  BY DEF ExchangeFails
<1>2. ClusterTyped'
  BY <1>1, FailedType, FaultTyped DEF RouteInv
<1>3. CASE pc = "ping" /\ pc' = "scan" /\ UNCHANGED <<retryCount, ccErr, callVars, sends, results>>
  <2>1. CallTyped' /\ ContextTyped'
    BY <1>1, <1>3 DEF RouteInv, CallTyped, ContextTyped, PCs, callVars, routeVars, pipeVars
  <2>2. Pending' /\ Routed'
    BY <1>1, <1>3 DEF RouteInv, Pending, Routed, Working, callVars, routeVars, pipeVars
  <2> QED BY <1>2, <2>1, <2>2 DEF RouteInv
<1>4. CASE CommandFails
  <2>1. CallTyped' /\ pc' \notin Working /\ retryCount' \in 0 .. MaxRedirect /\ ccErr' \in BOOLEAN
    BY <1>1, <1>4, FailsTyped
  <2>2. ContextTyped' /\ Routed' /\ Pending'
    BY <1>1, <2>1 DEF RouteInv, ContextTyped, Pending, Routed, routeVars, pipeVars
  <2> QED BY <1>2, <2>1, <2>2 DEF RouteInv
<1> QED BY <1>3, <1>4 DEF ExchangeFails

-----------------------------------------------------------------------------
(* So do the steps of a pipeline. *)

\* The step leaves the servers alone.
LEMMA PipeRoute ==
    ASSUME RouteInv, UNCHANGED <<clusterVars, executed, issued>>,
           link' \in [Holders -> GoodLink], CallTyped', pc' \in Working => todo' # <<>>,
           ContextTyped', Routed', \A i \in 1 .. Len(requests') : requests'[i] \in 1 .. Len(issued)
    PROVE  RouteInv'
<1>1. ClusterTyped'
  BY DEF RouteInv, ClusterTyped, clusterVars
<1>2. Pending'
  BY DEF Pending
<1> QED BY <1>1, <1>2 DEF RouteInv

\* redisClusterGetReply takes a request from the list.
LEMMA StartTyped ==
    ASSUME RouteInv, StartGetReply, UNCHANGED <<cur, tried, got, issued, sends, results>>, resetting' \in BOOLEAN
    PROVE  /\ CallTyped' /\ todo' # <<>> /\ ccErr' \in BOOLEAN /\ requests' \in Seq(Nat)
           /\ \A i \in 1 .. Len(requests') : requests'[i] \in 1 .. Len(issued)
<1>1. requests \in Seq(Nat) /\ requests # <<>> /\ issued \in Seq(SlotLists)
  BY DEF StartGetReply, RouteInv, ContextTyped, CallTyped
<1>2. /\ Len(requests) \in Nat \ {0} /\ Head(requests) = requests[1]
      /\ Len(Tail(requests)) = Len(requests) - 1
      /\ \A i \in 1 .. Len(requests) - 1 : Tail(requests)[i] = requests[i + 1]
      /\ Tail(requests) \in Seq(Nat)
  BY <1>1, TailFacts, HeadTailType
<1>3. \A i \in 1 .. Len(requests) : requests[i] \in 1 .. Len(issued)
  BY DEF RouteInv, Pending
<1>4. Head(requests) \in 1 .. Len(issued)
  BY <1>2, <1>3
<1>5. issued[Head(requests)] \in SlotLists
  BY <1>1, <1>4, ElementType
<1>6. issued[Head(requests)] \in Seq(Slots) /\ issued[Head(requests)] # <<>>
  BY <1>5, ContextAssumption
<1>7. CallTyped' /\ todo' # <<>> /\ ccErr' \in BOOLEAN
  <2>1. Head(requests) \in 0 .. Len(issued)
    BY <1>1, <1>4
  <2>2. cmd' = Head(requests) /\ todo' = issued[Head(requests)] /\ pc' = "get" /\ ccErr' = FALSE
    BY DEF StartGetReply
  <2> QED BY <1>6, <2>1, <2>2 DEF RouteInv, CallTyped, PCs
<1>8. requests' = Tail(requests)
  BY DEF StartGetReply
<1>9. ASSUME NEW i \in 1 .. Len(requests') PROVE requests'[i] \in 1 .. Len(issued)
  <2>1. i \in 1 .. Len(requests) - 1 /\ i + 1 \in 1 .. Len(requests)
    BY <1>2, <1>8
  <2> QED BY <1>2, <1>3, <1>8, <2>1
<1> QED BY <1>2, <1>7, <1>8, <1>9

LEMMA GetReplyRoute ==
    ASSUME RouteInv, GetReply
    PROVE  RouteInv'
<1>1. UNCHANGED <<clusterVars, link, executed, routeVars, listed, needUpdate, retryCount,
                  cur, tried, got, resetting, sends, historyVars>>
  BY DEF GetReply
<1>2. /\ link' \in [Holders -> GoodLink] /\ Routed'
      /\ resetting' \in BOOLEAN
  BY <1>1 DEF RouteInv, ClusterTyped, CallTyped, Routed, routeVars
<1>3. requests' \in Seq(Nat) /\ ccErr' \in BOOLEAN => ContextTyped'
  BY <1>1 DEF RouteInv, ContextTyped, routeVars
<1>4. CASE StartGetReply
  BY <1>1, <1>2, <1>3, <1>4, StartTyped, PipeRoute DEF historyVars
<1>5. CASE ccErr' = FALSE /\ UNCHANGED <<requests, cmd, todo, pc>>
  <2>1. CallTyped' /\ (pc' \in Working => todo' # <<>>)
    BY <1>1, <1>5 DEF RouteInv, CallTyped, Pending, historyVars
  <2>2. ContextTyped' /\ \A i \in 1 .. Len(requests') : requests'[i] \in 1 .. Len(issued)
    BY <1>3, <1>5 DEF RouteInv, ContextTyped, Pending
  <2> QED BY <1>1, <1>2, <2>1, <2>2, PipeRoute DEF historyVars
<1> QED BY <1>4, <1>5 DEF GetReply

LEMMA AppendErrorRoute ==
    ASSUME RouteInv, AppendReturnsError, link' \in [Holders -> GoodLink],
           UNCHANGED <<clusterVars, executed, routeVars, listed, needUpdate, retryCount, issued>>
    PROVE  RouteInv'
<1>1. /\ ccErr' = TRUE /\ Locals /\ UNCHANGED requests
      /\ results' = Append(results, [id |-> cmd, got |-> <<>>, err |-> TRUE])
  BY DEF AppendReturnsError
<1>2. <<>> \in Seq(GoodReply)
  OBVIOUS
<1>3. results' \in Seq(ResultType)
  BY <1>1, <1>2, ResultAdded
<1>4. CallTyped' /\ pc' \notin Working
  BY <1>1, <1>3, LocalsTyped
<1>5. ContextTyped' /\ Routed'
  BY <1>1 DEF RouteInv, ContextTyped, Routed, routeVars
<1>6. \A i \in 1 .. Len(requests') : requests'[i] \in 1 .. Len(issued)
  BY <1>1 DEF RouteInv, Pending
<1> QED BY <1>4, <1>5, <1>6, PipeRoute

LEMMA AppendFailsRoute ==
    ASSUME RouteInv, AppendFails
    PROVE  RouteInv'
<1>1. link' \in [Holders -> GoodLink]
  BY DEF AppendFails, RouteInv, ClusterTyped
<1> QED BY <1>1, AppendErrorRoute DEF AppendFails

LEMMA AppendSubCommandRoute ==
    ASSUME RouteInv, AppendSubCommand
    PROVE  RouteInv'
<1> DEFINE o == table[Head(todo)]
           l == CtxOfNode(link[o], nodes[o])
<1>0. /\ pc = "append" /\ pc \in Working /\ todo # <<>> /\ todo \in Seq(Slots) /\ cmd \in Nat
      /\ o # None
  BY DEF AppendSubCommand, Working, RouteInv, Pending, CallTyped
<1>1. o \in Holders /\ l \in GoodLink /\ Head(todo) \in Slots
  BY <1>0, NextSlot, NextNode
<1>2. UNCHANGED <<clusterVars, executed, routeVars, listed, needUpdate, retryCount, issued>>
  BY DEF AppendSubCommand
<1>3. Routed' /\ (requests' \in Seq(Nat) /\ ccErr' \in BOOLEAN => ContextTyped')
  BY <1>2 DEF RouteInv, ContextTyped, Routed, routeVars
<1>4. UNCHANGED requests =>
        /\ requests' \in Seq(Nat) /\ \A i \in 1 .. Len(requests') : requests'[i] \in 1 .. Len(issued)
  BY DEF RouteInv, ContextTyped, Pending
<1>5. IF l.state = "err"
      THEN link' = [link EXCEPT ![o] = l] /\ AppendReturnsError
      ELSE /\ link' = [link EXCEPT ![o] = Appended(l, "cmd", cmd, Head(todo))]
           /\ IF Len(todo) = 1
              THEN requests' = Append(requests, cmd) /\ Locals
              ELSE /\ todo' = Tail(todo)
                   /\ UNCHANGED <<requests, pc, cur, tried, got, cmd, resetting, sends>>
           /\ UNCHANGED <<ccErr, results>>
  BY DEF AppendSubCommand
<1> HIDE DEF o, l
<1>6. CASE l.state = "err"
  <2>1. link' \in [Holders -> GoodLink]
    BY <1>1, <1>5, <1>6 DEF RouteInv, ClusterTyped
  <2> QED BY <1>2, <1>5, <1>6, <2>1, AppendErrorRoute
<1>7. CASE l.state # "err"
  <2>1. Appended(l, "cmd", cmd, Head(todo)) \in GoodLink
    BY <1>0, <1>1, AppendedType DEF Ops
  <2>2. link' \in [Holders -> GoodLink]
    BY <1>1, <1>5, <1>7, <2>1 DEF RouteInv, ClusterTyped
  <2>3. ccErr' \in BOOLEAN /\ results' \in Seq(ResultType)
    BY <1>5, <1>7 DEF RouteInv, ContextTyped, CallTyped, ResultType
  <2>4. CASE Len(todo) = 1
    <3>1. requests' = Append(requests, cmd) /\ Locals
      BY <1>5, <1>7, <2>4
    <3>2. CallTyped' /\ pc' \notin Working
      BY <1>2, <2>3, <3>1, LocalsTyped
    <3>3. requests \in Seq(Nat)
      BY DEF RouteInv, ContextTyped
    <3>4. requests' \in Seq(Nat)
      BY <1>0, <3>1, <3>3, AppendType
    <3>5. \A i \in 1 .. Len(requests') : requests'[i] \in 1 .. Len(issued)
      <4>1. cmd \in 1 .. Len(issued)
        BY <1>0 DEF RouteInv, CallTyped
      <4>2. /\ Len(requests') = Len(requests) + 1
            /\ \A i \in 1 .. Len(requests) : requests'[i] = requests[i]
            /\ requests'[Len(requests) + 1] = cmd
            /\ \A i \in 1 .. Len(requests) + 1 : i \in 1 .. Len(requests) \/ i = Len(requests) + 1
        BY <1>0, <3>1, <3>3, AppendFacts
      <4> QED BY <4>1, <4>2 DEF RouteInv, Pending
    <3> QED BY <1>2, <1>3, <2>2, <2>3, <3>2, <3>4, <3>5, PipeRoute
  <2>5. CASE Len(todo) # 1
    <3>1. todo' = Tail(todo) /\ UNCHANGED <<requests, pc, cur, tried, got, cmd, resetting, sends>>
      BY <1>5, <1>7, <2>5
    <3>2. todo' \in Seq(Slots) /\ todo' # <<>>
      BY <1>0, <2>5, <3>1, TailLeft
    <3>3. CallTyped'
      BY <1>2, <2>3, <3>1, <3>2 DEF RouteInv, CallTyped, ResultType
    <3> QED BY <1>2, <1>3, <1>4, <2>2, <2>3, <3>1, <3>2, <3>3, PipeRoute
  <2> QED BY <2>4, <2>5
<1> QED BY <1>6, <1>7

LEMMA PostFragmentType ==
    ASSUME NEW replies \in Seq(GoodReply)
    PROVE  PostFragment(replies) \in Seq(GoodReply)
<1> DEFINE errors == {i \in 1 .. Len(replies) : replies[i].type # "ok"}
<1>1. CASE errors = {}
  BY <1>1 DEF PostFragment
<1>2. CASE errors # {}
  <2> DEFINE i == CHOOSE i \in errors : \A j \in errors : i <= j
  <2>1. errors \in SUBSET Nat
    OBVIOUS
  <2>2. \E k \in errors : \A j \in errors : k <= j
    BY <1>2, <2>1, Least
  <2>3. i \in errors
    BY <2>2
  <2>4. i \in 1 .. Len(replies)
    BY <2>3
  <2>5. replies[i] \in GoodReply
    BY <2>4, ElementType
  <2>6. <<replies[i]>> \in Seq(GoodReply)
    BY <2>5
  <2> QED BY <1>2, <2>6 DEF PostFragment
<1> QED BY <1>1, <1>2

LEMMA GetReplyReturnsTyped ==
    ASSUME RouteInv, NEW replies \in Seq(GoodReply), NEW failed \in BOOLEAN,
           GetReplyReturns(replies, failed), issued' = issued
    PROVE  CallTyped' /\ pc' \notin Working
<1>1. results' \in Seq(ResultType)
  BY PostFragmentType, ResultAdded DEF GetReplyReturns
<1>2. CASE resetting
  <2>1. /\ pc' \in {"resetEnd", "drain"} /\ todo' = <<>> /\ got' = <<>>
        /\ UNCHANGED <<cur, tried, cmd, resetting, sends>>
    BY <1>2 DEF GetReplyReturns
  <2>2. <<>> \in Seq(Slots) /\ <<>> \in Seq(GoodReply)
    OBVIOUS
  <2> QED BY <1>1, <2>1, <2>2 DEF RouteInv, CallTyped, PCs, ResultType, Working
<1>3. CASE ~resetting
  <2>1. Locals
    BY <1>3 DEF GetReplyReturns
  <2> QED BY <1>1, <2>1, LocalsTyped
<1> QED BY <1>2, <1>3

LEMMA GetReplyFailsTyped ==
    ASSUME RouteInv, NEW ls \in [Holders -> GoodLink], GetReplyFails(ls), issued' = issued
    PROVE  CallTyped' /\ pc' \notin Working /\ link' \in [Holders -> GoodLink] /\ ccErr' \in BOOLEAN
<1>1. <<>> \in Seq(GoodReply)
  OBVIOUS
<1>2. CallTyped' /\ pc' \notin Working
  BY <1>1, GetReplyReturnsTyped DEF GetReplyFails
<1>3. link' \in [Holders -> GoodLink]
  BY AllClosedType DEF GetReplyFails
<1>4. ccErr' \in BOOLEAN
  BY DEF GetReplyFails, RouteInv, CallTyped
<1> QED BY <1>2, <1>3, <1>4

LEMMA GetSubReplyRoute ==
    ASSUME RouteInv, GetSubReply
    PROVE  RouteInv'
<1> DEFINE o == table[Head(todo)]
           l == CtxOfNode(link[o], nodes[o])
<1>0. pc = "get" /\ pc \in Working /\ todo # <<>>
  BY DEF GetSubReply, Working, RouteInv, Pending
<1>1. o # None => o \in Holders /\ l \in GoodLink
  BY <1>0, NextNode
<1>2. UNCHANGED <<clusterVars, executed, routeVars, pipeVars, issued>>
  BY DEF GetSubReply
<1>3. table' \in [Slots -> Nodes \cup {None}] /\ nodes' \in [Keys -> Nodes \cup {None}] /\ Routed'
  BY <1>2 DEF RouteInv, ContextTyped, Routed, routeVars
<1>4. IF o = None
      THEN GetReplyFails(link) /\ UNCHANGED <<needUpdate, retryCount>>
      ELSE IF l.state = "err"
      THEN /\ retryCount' = IF needUpdate THEN retryCount
                            ELSE IF TooMany THEN 0 ELSE retryCount + 1
           /\ needUpdate' = (needUpdate \/ TooMany)
           /\ GetReplyFails([link EXCEPT ![o] = l])
      ELSE /\ \E m \in GetReplyStarts(l) : link' = [link EXCEPT ![o] = m]
           /\ cur' = o
           /\ pc' = "await"
           /\ UNCHANGED <<needUpdate, retryCount, ccErr, tried, todo, got, cmd, resetting,
                          sends, results>>
  BY DEF GetSubReply
<1> HIDE DEF o, l
<1>5. CASE o = None
  <2>1. CallTyped' /\ pc' \notin Working /\ link' \in [Holders -> GoodLink] /\ ccErr' \in BOOLEAN
    BY <1>2, <1>4, <1>5, GetReplyFailsTyped DEF RouteInv, ClusterTyped
  <2>2. retryCount' \in 0 .. MaxRedirect /\ needUpdate' \in BOOLEAN
    BY <1>4, <1>5 DEF RouteInv, ContextTyped
  <2> QED BY <1>2, <1>3, <2>1, <2>2, CallRoute
<1>6. CASE o # None /\ l.state = "err"
  <2>1. [link EXCEPT ![o] = l] \in [Holders -> GoodLink]
    BY <1>1, <1>6 DEF RouteInv, ClusterTyped
  <2>2. CallTyped' /\ pc' \notin Working /\ link' \in [Holders -> GoodLink] /\ ccErr' \in BOOLEAN
    BY <1>2, <1>4, <1>6, <2>1, GetReplyFailsTyped
  <2>3. retryCount' \in 0 .. MaxRedirect
    BY <1>4, <1>6, ContextAssumption DEF RouteInv, ContextTyped, TooMany
  <2>4. needUpdate' \in BOOLEAN
    BY <1>4, <1>6 DEF RouteInv, ContextTyped, TooMany
  <2> QED BY <1>2, <1>3, <2>2, <2>3, <2>4, CallRoute
<1>7. CASE o # None /\ l.state # "err"
  <2>1. PICK m \in GetReplyStarts(l) : link' = [link EXCEPT ![o] = m]
    BY <1>4, <1>7
  <2>2. m \in GoodLink
    BY <1>1, <1>7, StartsType
  <2>3. link' \in [Holders -> GoodLink]
    BY <2>1, <2>2 DEF RouteInv, ClusterTyped
  <2>4. CallTyped' /\ todo' # <<>>
    BY <1>0, <1>1, <1>2, <1>4, <1>7 DEF RouteInv, CallTyped, PCs
  <2>5. retryCount' \in 0 .. MaxRedirect /\ needUpdate' \in BOOLEAN /\ ccErr' \in BOOLEAN
    BY <1>4, <1>7 DEF RouteInv, ContextTyped
  <2> QED BY <1>2, <1>3, <2>3, <2>4, <2>5, CallRoute
<1> QED BY <1>5, <1>6, <1>7

LEMMA SubReplyRoute ==
    ASSUME RouteInv, NEW reply, SubReply(reply)
    PROVE  RouteInv'
<1>0. /\ pc = "await" /\ todo # <<>> /\ Receive(reply) /\ todo \in Seq(Slots)
      /\ got \in Seq(GoodReply)
  BY DEF SubReply, Working, RouteInv, CallTyped, Pending
<1>1. Received \in [Holders -> GoodLink] /\ reply \in GoodReply
  BY <1>0, ReceiveType DEF RouteInv
<1>2. /\ UNCHANGED <<clusterVars, executed, routeVars, pipeVars, retryCount, ccErr, issued>>
      /\ link' = Received /\ needUpdate' = (needUpdate \/ reply.type = "moved")
  BY DEF SubReply
<1>3. /\ table' \in [Slots -> Nodes \cup {None}] /\ nodes' \in [Keys -> Nodes \cup {None}] /\ Routed'
      /\ retryCount' \in 0 .. MaxRedirect /\ needUpdate' \in BOOLEAN /\ ccErr' \in BOOLEAN
  BY <1>2 DEF RouteInv, ContextTyped, Routed, routeVars
<1>4. Append(got, reply) \in Seq(GoodReply)
  BY <1>0, <1>1, AppendType
<1>5. CASE Len(todo) = 1
  <2>1. GetReplyReturns(Append(got, reply), FALSE)
    BY <1>5 DEF SubReply
  <2>2. CallTyped' /\ pc' \notin Working
    BY <1>2, <1>4, <2>1, GetReplyReturnsTyped
  <2> QED BY <1>1, <1>2, <1>3, <2>2, CallRoute
<1>6. CASE Len(todo) # 1
  <2>1. /\ todo' = Tail(todo) /\ got' = Append(got, reply) /\ pc' = "get"
        /\ UNCHANGED <<cur, tried, cmd, resetting, sends, results>>
    BY <1>6 DEF SubReply
  <2>2. todo' \in Seq(Slots) /\ todo' # <<>>
    BY <1>0, <1>6, <2>1, TailLeft
  <2>3. CallTyped'
    BY <1>2, <1>4, <2>1, <2>2 DEF RouteInv, CallTyped, PCs
  <2> QED BY <1>1, <1>2, <1>3, <2>2, <2>3, CallRoute
<1> QED BY <1>5, <1>6

LEMMA SubReplyFailsRoute ==
    ASSUME RouteInv, SubReplyFails
    PROVE  RouteInv'
<1>1. /\ ReceiveFails /\ GetReplyFails(Failed)
      /\ UNCHANGED <<owner, importer, seen, alive, executed, routeVars, pipeVars, needUpdate,
                     retryCount, issued>>
  BY DEF SubReplyFails
<1>2. CallTyped' /\ pc' \notin Working /\ link' \in [Holders -> GoodLink] /\ ccErr' \in BOOLEAN
  BY <1>1, FailedType, GetReplyFailsTyped DEF RouteInv
<1>3. ClusterTyped'
  BY <1>1, <1>2, FaultTyped DEF RouteInv
<1>4. ContextTyped' /\ Routed' /\ Pending'
  BY <1>1, <1>2 DEF RouteInv, ContextTyped, Pending, Routed, routeVars, pipeVars
<1> QED BY <1>2, <1>3, <1>4 DEF RouteInv

LEMMA SendAllType ==
    ASSUME RouteInv, SendAll
    PROVE  link' \in [Holders -> GoodLink]
<1> DEFINE all == {k \in Keys : nodes[k] # None}
<1>1. PICK done \in SUBSET all, failed \in SUBSET all :
           link' = [o \in Holders |->
                      IF o \in done THEN Flushed(CtxOfNode(link[o], nodes[o]))
                      ELSE IF o \in failed
                           THEN [CtxOfNode(link[o], nodes[o]) EXCEPT !.state = "err"]
                           ELSE link[o]]
  BY DEF SendAll
<1>2. ASSUME NEW o \in all
      PROVE  /\ Flushed(CtxOfNode(link[o], nodes[o])) \in GoodLink
             /\ [CtxOfNode(link[o], nodes[o]) EXCEPT !.state = "err"] \in GoodLink
  <2>1. o \in Holders /\ nodes[o] \in Nodes \cup {None}
    BY ContextAssumption DEF RouteInv, ContextTyped
  <2>2. CtxOfNode(link[o], nodes[o]) \in GoodLink
    BY <2>1, CtxOfNodeType DEF RouteInv, ClusterTyped
  <2>3. Flushed(CtxOfNode(link[o], nodes[o])) \in GoodLink
    BY <2>2, FlushedType
  <2>4. [CtxOfNode(link[o], nodes[o]) EXCEPT !.state = "err"] \in GoodLink
    BY <2>2 DEF GoodLink
  <2> QED BY <2>3, <2>4
<1>3. \A o \in done \cup failed : o \in all
  OBVIOUS
<1> HIDE DEF all
<1> QED BY <1>1, <1>2, <1>3 DEF RouteInv, ClusterTyped

LEMMA ResetRoute ==
    ASSUME RouteInv, Reset
    PROVE  RouteInv'
<1>1. /\ UNCHANGED <<clusterVars, executed, routeVars, pipeVars, needUpdate, retryCount, cur,
                     tried, todo, got, cmd, sends, historyVars>>
      /\ resetting' = TRUE /\ ccErr' = FALSE /\ pc' \in {"resetEnd", "drain"}
  BY DEF Reset
<1>2. link' \in [Holders -> GoodLink]
  BY SendAllType, AllClosedType DEF Reset, RouteInv, ClusterTyped
<1>3. CallTyped' /\ pc' \notin Working
  BY <1>1 DEF RouteInv, CallTyped, PCs, Working, historyVars
<1>4. /\ table' \in [Slots -> Nodes \cup {None}] /\ nodes' \in [Keys -> Nodes \cup {None}] /\ Routed'
      /\ retryCount' \in 0 .. MaxRedirect /\ needUpdate' \in BOOLEAN /\ ccErr' \in BOOLEAN
  BY <1>1 DEF RouteInv, ContextTyped, Routed, routeVars
<1> QED BY <1>1, <1>2, <1>3, <1>4, CallRoute DEF historyVars

LEMMA DrainRoute ==
    ASSUME RouteInv, Drain
    PROVE  RouteInv'
<1>1. UNCHANGED <<clusterVars, executed, routeVars, listed, needUpdate, retryCount, cur,
                  tried, got, resetting, sends, historyVars>>
  BY DEF Drain
<1>2. Routed' /\ resetting' \in BOOLEAN /\ (requests' \in Seq(Nat) /\ ccErr' \in BOOLEAN => ContextTyped')
  BY <1>1 DEF RouteInv, ContextTyped, CallTyped, Routed, routeVars
<1>3. CASE StartGetReply /\ UNCHANGED link
  <2>1. link' \in [Holders -> GoodLink]
    BY <1>3 DEF RouteInv, ClusterTyped
  <2> QED BY <1>1, <1>2, <1>3, <2>1, StartTyped, PipeRoute DEF historyVars
<1>4. CASE /\ pc' = "resetEnd" /\ link' = (IF listed THEN link ELSE AllClosed(link))
           /\ ccErr' = FALSE /\ UNCHANGED <<requests, todo, cmd>>
  <2>1. link' \in [Holders -> GoodLink]
    BY <1>4, AllClosedType DEF RouteInv, ClusterTyped
  <2>2. CallTyped' /\ pc' \notin Working
    BY <1>1, <1>4 DEF RouteInv, CallTyped, PCs, Working, historyVars
  <2>3. ContextTyped' /\ \A i \in 1 .. Len(requests') : requests'[i] \in 1 .. Len(issued)
    BY <1>2, <1>4 DEF RouteInv, ContextTyped, Pending
  <2> QED BY <1>1, <1>2, <2>1, <2>2, <2>3, PipeRoute DEF historyVars
<1> QED BY <1>3, <1>4 DEF Drain

LEMMA ResetEndsRoute ==
    ASSUME RouteInv, ResetEnds
    PROVE  RouteInv'
<1>1. /\ requests' = <<>> /\ listed' = FALSE /\ Locals
      /\ UNCHANGED <<clusterVars, executed, retryCount, historyVars>>
  BY DEF ResetEnds
<1>2. results' \in Seq(ResultType) /\ issued' = issued
  BY <1>1 DEF RouteInv, CallTyped, ResultType, historyVars
<1>3. CallTyped' /\ pc' \notin Working
  BY <1>1, <1>2, LocalsTyped
<1>4. /\ link' \in [Holders -> GoodLink] /\ table' \in [Slots -> Nodes \cup {None}]
      /\ nodes' \in [Keys -> Nodes \cup {None}] /\ Routed'
      /\ needUpdate' \in BOOLEAN /\ ccErr' \in BOOLEAN
  <2>1. CASE RouteUpdated(link) /\ needUpdate' = FALSE /\ ccErr' = FALSE
    BY <2>1, RouteUpdatedType DEF RouteInv, ClusterTyped
  <2>2. CASE UNCHANGED <<link, routeVars, needUpdate>> /\ (ccErr' = ccErr \/ ccErr' = TRUE)
    BY <2>2 DEF RouteInv, ClusterTyped, ContextTyped, Routed, routeVars
  <2> QED BY <2>1, <2>2 DEF ResetEnds, RouteFails
<1>5. <<>> \in Seq(Nat) /\ 1 .. Len(<<>>) = {}
  OBVIOUS
<1>6. ContextTyped'
  BY <1>1, <1>4, <1>5 DEF RouteInv, ContextTyped
<1> QED BY <1>1, <1>2, <1>3, <1>4, <1>5, <1>6, PipeRoute

LEMMA RouteNext == RouteInv /\ [Next]_vars => RouteInv'
<1> SUFFICES ASSUME RouteInv, [Next]_vars PROVE RouteInv'
  OBVIOUS
<1>1. CASE AppNext
  BY <1>1, CommandRoute, GetReplyRoute, ResetRoute DEF AppNext
<1>2. CASE CallNext
  BY <1>2, RetryRoute, ScanRoute, CommandFailsRoute, PongRoute, CommandReplyRoute, AskingReplyRoute, SubReplyRoute,
     ExchangeFailsRoute, AppendFailsRoute, AppendSubCommandRoute, GetSubReplyRoute, SubReplyFailsRoute, DrainRoute, ResetEndsRoute
     DEF CallNext
<1>3. CASE Environment
  <2>1. ClusterTyped'
    BY <1>3, ClusterNextTyped DEF Environment, RouteInv
  <2>2. ContextTyped' /\ CallTyped' /\ Pending' /\ Routed'
    BY <1>3 DEF Environment, RouteInv, ContextTyped, CallTyped, Pending, Routed,
                contextVars, routeVars, pipeVars, callVars, historyVars
  <2> QED BY <2>1, <2>2 DEF RouteInv
<1>4. CASE UNCHANGED vars
  BY <1>4 DEF vars, RouteInv, ClusterTyped, ContextTyped, CallTyped, Pending, Routed, clusterVars,
              contextVars, routeVars, pipeVars, callVars, historyVars
<1> QED BY <1>1, <1>2, <1>3, <1>4 DEF Next

LEMMA RouteInit == Init => RouteInv
<1> SUFFICES ASSUME Init PROVE RouteInv
  OBVIOUS
<1>0. <<>> \in Seq(Nat) /\ <<>> \in Seq(Slots) /\ <<>> \in Seq(GoodReply) /\ <<>> \in Seq(SlotLists)
      /\ <<>> \in Seq([id : Nat, got : Seq(GoodReply), err : BOOLEAN]) /\ Len(<<>>) = 0
  OBVIOUS
<1>1. ClusterTyped
  BY ClusterInitTyped DEF Init
<1>2. PICK n \in Nodes, lost \in SUBSET Lost : table = TableFrom(n, lost) /\ nodes = NodesFrom(n, lost)
  BY DEF Init
<1>3. table \in [Slots -> Nodes \cup {None}]
  BY <1>1, <1>2 DEF TableFrom, ClusterTyped
<1>4. Known(n, lost) \subseteq Nodes
  BY <1>1 DEF Known, ClusterTyped
<1>5. nodes \in [Keys -> Nodes \cup {None}]
  BY <1>2, <1>4 DEF NodesFrom
<1>6. Routed
  <2> SUFFICES ASSUME NEW s \in Slots, table[s] # None PROVE nodes[table[s]] # None
    BY DEF Routed
  <2>1. s \notin lost /\ table[s] = seen[n][s]
    BY <1>2 DEF TableFrom
  <2>2. table[s] \in Nodes /\ table[s] \in Known(n, lost) /\ table[s] \in Keys
    BY <1>1, <2>1 DEF Known, Keys, ClusterTyped
  <2> QED BY <1>2, <2>2, ClusterAssumption DEF NodesFrom
<1>7. ContextTyped
  <2>1. /\ requests = <<>> /\ listed = FALSE /\ needUpdate = FALSE
        /\ retryCount = 0 /\ ccErr = FALSE
    BY DEF Init
  <2>2. 0 \in 0 .. MaxRedirect
    BY ContextAssumption
  <2> QED BY <1>0, <1>3, <1>5, <2>1, <2>2 DEF ContextTyped
<1>8. CallTyped
  <2>1. /\ pc = "idle" /\ cur = Orphan /\ tried = {} /\ todo = <<>> /\ got = <<>> /\ cmd = 0
        /\ resetting = FALSE /\ issued = <<>> /\ sends = 0 /\ results = <<>>
    BY DEF Init
  <2>2. Orphan \in Holders /\ 0 \in 0 .. Len(<<>>)
    BY <1>0, ContextAssumption
  <2> QED BY <1>0, <2>1, <2>2 DEF CallTyped, PCs
<1>9. Pending
  BY <1>0 DEF Init, Pending, Working
<1> QED BY <1>1, <1>6, <1>7, <1>8, <1>9 DEF RouteInv

\* The routes of a cluster context refer to nodes that exist, slots that no node
\* is known to own excepted, and every variable has its type, whatever the
\* application calls, and whatever MOVED, ASK and updates, complete or out of date,
\* do to the routes (cluster_update_route, node_get_by_ask_error_reply in
\* src/hircluster.c).
THEOREM RoutesStayValid == Spec => []RoutesValid
<1>1. RouteInv => RoutesValid
  <2> SUFFICES ASSUME RouteInv PROVE RoutesValid
    OBVIOUS
  <2>1. GoodReply \subseteq Reply /\ Seq(GoodReply) \subseteq Seq(Reply)
    <3>1. GoodReply \subseteq Reply
      BY DEF GoodReply
    <3> QED BY <3>1
  <2>2. [id : Nat, got : Seq(GoodReply), err : BOOLEAN] \subseteq Result
    BY <2>1 DEF Result
  <2>3. results \in Seq(Result)
    <3> DEFINE S == [id : Nat, got : Seq(GoodReply), err : BOOLEAN]
    <3>1. results \in Seq(S)
      BY DEF RouteInv, CallTyped
    <3> HIDE DEF S
    <3>2. \A i \in 1 .. Len(results) : results[i] \in S
      BY <3>1, ElementType
    <3>3. \A i \in 1 .. Len(results) : results[i] \in Result
      BY <2>2, <3>2 DEF S
    <3> QED BY <3>1, <3>3
  <2>4. ClusterTypeOK
    BY ClusterTypes DEF RouteInv
  <2>5. TypeOK
    BY <2>1, <2>3, <2>4 DEF RouteInv, ContextTyped, CallTyped, TypeOK
  <2> QED BY <2>5 DEF RouteInv, Routed, RoutesValid
<1> QED BY <1>1, RouteInit, RouteNext, PTL DEF Spec

-----------------------------------------------------------------------------
(* redisClusterCommand alone: what is on the connections. *)

LEMMA CtxQuiet ==
    ASSUME NEW l \in GoodLink, InUse(l) => Quiet(l), NEW peer
    PROVE  /\ Quiet(CtxOfNode(l, peer))
           /\ CtxOfNode(l, peer).state # "err" => InUse(CtxOfNode(l, peer))
<1>1. CASE InUse(l)
  BY <1>1 DEF CtxOfNode, InUse, Quiet
<1>2. CASE ~InUse(l)
  BY <1>2 DEF CtxOfNode, InUse, Quiet, NewLink
<1> QED BY <1>1, <1>2

LEMMA NewQuiet ==
    ASSUME NEW st \in {"open", "err"}, NEW peer
    PROVE  /\ Quiet(NewLink(st, peer)) /\ NewLink(st, peer).state = st
           /\ st # "err" => InUse(NewLink(st, peer))
  BY DEF NewLink, Quiet, InUse

\* A request on a connection that holds nothing is alone there.
LEMMA StartsCarry ==
    ASSUME NEW l \in GoodLink, Quiet(l), InUse(l), NEW op \in Ops, NEW id \in Nat, NEW slot \in Slots,
           NEW m \in GetReplyStarts(Appended(l, op, id, slot))
    PROVE  Carries(m, [id |-> id, slot |-> slot, op |-> op]) /\ m.in = <<>>
<1> DEFINE q == [id |-> id, slot |-> slot, op |-> op]
           a == Appended(l, op, id, slot)
<1>1. q \in Request
  BY DEF Request
<1>2. Append(<<>>, q) = <<q>> /\ <<>> \o <<q>> = <<q>>
  BY <1>1
<1>3. a.state = l.state /\ a.sent = <<>> /\ a.in = <<>> /\ a.out = <<q>> /\ a \in GoodLink
  <2>1. a \in GoodLink
    BY AppendedType
  <2> QED BY <1>2, <2>1 DEF Appended, Quiet, GoodLink
<1> HIDE DEF a, q
<1>4. m = Flushed(a)
  BY <1>3 DEF GetReplyStarts, a
<1>5. m.state = l.state /\ m.in = <<>> /\ m.out = <<>> /\ m.sent = (IF l.state = "open" THEN <<q>> ELSE <<>>)
  BY <1>2, <1>3, <1>4 DEF Flushed, GoodLink
<1>6. Carries(m, q)
  BY <1>5 DEF Carries, InUse
<1> QED BY <1>5, <1>6 DEF q

\* The reply that comes is to the request, and nothing stays behind.
LEMMA ReceiveCarried ==
    ASSUME RouteInv, Alone, NEW reply, Receive(reply)
    PROVE  /\ reply = link[cur].in[1] /\ reply \in GoodReply /\ Received \in [Holders -> GoodLink]
           /\ reply.id = cmd /\ reply.slot = Head(todo) /\ reply.op = Awaited.op
           /\ InUse(Received[cur])
           /\ \A o \in Holders : InUse(Received[o]) => Quiet(Received[o])
<1> DEFINE l == link[cur]
<1>0. reply \in GoodReply /\ Received \in [Holders -> GoodLink] /\ cur \in Holders
  BY ReceiveType DEF RouteInv, CallTyped
<1>1. l \in GoodLink /\ l.in # <<>> /\ reply = Head(l.in) /\ Carries(l, Awaited)
  BY <1>0 DEF Receive, Alone, RouteInv, ClusterTyped
<1>2. Received = [link EXCEPT ![cur] = [l EXCEPT !.in = Tail(@)]]
  BY DEF Received
<1> HIDE DEF l
<1>3. /\ InUse(l) /\ l.out = <<>> /\ l.sent = <<>> /\ Len(l.in) = 1
      /\ l.in[1].id = Awaited.id /\ l.in[1].slot = Awaited.slot /\ l.in[1].op = Awaited.op
  BY <1>1 DEF Carries
<1>4. l.in \in Seq(GoodReply)
  BY <1>1 DEF GoodLink
<1>5. Head(l.in) = l.in[1] /\ Tail(l.in) = <<>>
  <2>1. Head(l.in) = l.in[1] /\ Len(Tail(l.in)) = Len(l.in) - 1 /\ Tail(l.in) \in Seq(GoodReply)
    BY <1>1, <1>4, TailFacts, HeadTailType
  <2>2. Len(Tail(l.in)) = 0
    BY <1>3, <2>1
  <2> QED BY <2>1, <2>2, EmptyList
<1>6. /\ InUse([l EXCEPT !.in = Tail(@)]) /\ Quiet([l EXCEPT !.in = Tail(@)])
  BY <1>1, <1>3, <1>5 DEF InUse, Quiet, GoodLink
<1>7. Received[cur] = [l EXCEPT !.in = Tail(@)] /\ \A o \in Holders \ {cur} : Received[o] = link[o]
  BY <1>0, <1>2 DEF RouteInv, ClusterTyped
<1>8. Awaited.id = cmd /\ Awaited.slot = Head(todo)
  BY DEF Awaited
<1>9. \A o \in Holders : InUse(Received[o]) => Quiet(Received[o])
  BY <1>6, <1>7 DEF Alone
<1> QED BY <1>0, <1>1, <1>3, <1>5, <1>6, <1>7, <1>8, <1>9 DEF l

\* A command is put on a quiet connection, and the thread waits.
LEMMA AloneExchange ==
    ASSUME RouteInv, pc \in Working, ~listed, requests = <<>>,
           NEW ls \in [Holders -> GoodLink], \A o \in Holders : InUse(ls[o]) => Quiet(ls[o]),
           NEW o \in Holders, NEW l \in GoodLink, Quiet(l), InUse(l), NEW op \in Ops,
           NEW m \in GetReplyStarts(Appended(l, op, cmd, Head(todo))), link' = [ls EXCEPT ![o] = m],
           cur' = o, UNCHANGED <<cmd, todo, pipeVars>>,
           pc' = CASE op = "ping" -> "ping" [] op = "asking" -> "asking" [] OTHER -> "wait"
    PROVE  Alone' /\ link'[cur'].in = <<>>
<1>1. Head(todo) \in Slots /\ cmd \in Nat
  BY NextSlot DEF RouteInv, CallTyped
<1>2. Carries(m, [id |-> cmd, slot |-> Head(todo), op |-> op]) /\ m.in = <<>>
  BY <1>1, StartsCarry
<1>3. \/ op = "ping" /\ pc' = "ping"
      \/ op = "asking" /\ pc' = "asking"
      \/ op = "cmd" /\ pc' = "wait"
  BY DEF Ops
<1>4. Awaited' = [id |-> cmd, slot |-> Head(todo), op |-> op]
  BY <1>3 DEF Awaited
<1>5. link'[o] = m /\ \A x \in Holders \ {o} : link'[x] = ls[x]
  OBVIOUS
<1>6. Carries(link'[cur'], Awaited')
  BY <1>2, <1>4, <1>5
<1>7. Blocked'
  BY <1>3 DEF Blocked
<1>8. \A x \in Holders : InUse(link'[x]) => Quiet(link'[x]) \/ x = cur'
  BY <1>5
<1>9. pc' \in {"ping", "asking", "wait"} /\ ~listed' /\ requests' = <<>>
  BY <1>3 DEF pipeVars
<1>10. Alone'
  BY <1>6, <1>7, <1>8, <1>9 DEF Alone
<1> QED BY <1>2, <1>5, <1>10

\* The thread does not wait, and connections hold nothing.
LEMMA AloneQuiet ==
    ASSUME Alone, pc' \in {"idle", "retry", "scan"}, UNCHANGED pipeVars,
           \A o \in Holders : InUse(link'[o]) => Quiet(link'[o])
    PROVE  Alone'
  BY DEF Alone, Blocked, pipeVars

LEMMA NotBlockedQuiet ==
    ASSUME Alone, ~Blocked
    PROVE  \A o \in Holders : InUse(link[o]) => Quiet(link[o])
  BY DEF Alone

-----------------------------------------------------------------------------
(* What a call has done so far. *)

\* Nothing of what is left of the command was executed.
Fresh == \A e \in 1 .. Len(executed), k \in 1 .. Len(todo) : executed[e].id = cmd => executed[e].slot # todo[k]

Work == Progress /\ Returned /\ Unexecuted /\ Budget

LEMMA FreshUnlessOk ==
    ASSUME Unexecuted, pc # "idle", pc = "wait" => link[cur].in # <<>> /\ link[cur].in[1].type # "ok"
    PROVE  Fresh
  BY DEF Unexecuted, Fresh

LEMMA StillReturned ==
    ASSUME Returned, UNCHANGED <<results, issued>>
    PROVE  Returned'
  BY DEF Returned, RightReply

\* The same sub-command goes on.
LEMMA GoesOn ==
    ASSUME Work, pc # "idle", Fresh, UNCHANGED <<todo, got, cmd, issued, results, executed>>,
           pc' # "idle", sends' <= retryCount' + Len(got) + (IF pc' = "wait" THEN 1 ELSE 0)
    PROVE  Work'
<1>1. Progress'
  BY DEF Work, Progress
<1>2. Returned'
  BY StillReturned DEF Work
<1>3. Unexecuted'
  BY DEF Work, Unexecuted, Fresh
<1>4. Budget'
  BY DEF Budget
<1> QED BY <1>1, <1>2, <1>3, <1>4 DEF Work

\* What RightReply says of one result, where iss are the commands.
Right(r, iss) ==
    /\ r.id \in 1 .. Len(iss)
    /\ \A k \in 1 .. Len(r.got) : r.got[k].id = r.id /\ r.got[k].op = "cmd"
    /\ ~r.err /\ (\A k \in 1 .. Len(r.got) : r.got[k].type = "ok") =>
          [k \in 1 .. Len(r.got) |-> r.got[k].slot] = iss[r.id]

LEMMA AllRight == Returned <=> \A i \in 1 .. Len(results) : Right(results[i], issued)
  BY DEF Returned, RightReply, Right

\* The call returns replies to its command, all of them or one that is an error.
LEMMA Ends ==
    ASSUME RouteInv, Work, cmd \in 1 .. Len(issued), NEW replies \in Seq(GoodReply), NEW failed \in BOOLEAN,
           results' = Append(results, [id |-> cmd, got |-> replies, err |-> failed]),
           Locals, UNCHANGED <<issued, executed>>,
           \A k \in 1 .. Len(replies) : replies[k].id = cmd /\ replies[k].op = "cmd",
           ~failed /\ (\A k \in 1 .. Len(replies) : replies[k].type = "ok") =>
              [k \in 1 .. Len(replies) |-> replies[k].slot] = issued[cmd]
    PROVE  Work'
<1> DEFINE r == [id |-> cmd, got |-> replies, err |-> failed]
<1>1. results \in Seq(ResultType) /\ r \in ResultType
  BY DEF RouteInv, CallTyped, ResultType
<1>2. /\ Len(results') = Len(results) + 1
      /\ \A i \in 1 .. Len(results) : results'[i] = results[i]
      /\ results'[Len(results) + 1] = r
      /\ \A i \in 1 .. Len(results) + 1 : i \in 1 .. Len(results) \/ i = Len(results) + 1
  BY <1>1, AppendFacts
<1>3. r.id = cmd /\ r.got = replies /\ r.err = failed
  OBVIOUS
<1> HIDE DEF r
<1>4. Right(r, issued)
  BY <1>3 DEF Right
<1>5. Returned'
  <2>1. \A i \in 1 .. Len(results) : Right(results[i], issued)
    BY AllRight DEF Work
  <2>2. \A i \in 1 .. Len(results') : Right(results'[i], issued')
    BY <1>2, <1>4, <2>1
  <2> QED BY <2>2 DEF Returned, RightReply, Right
<1>6. Progress' /\ Unexecuted' /\ Budget'
  BY DEF Work, Progress, Unexecuted, Budget, Locals
<1> QED BY <1>5, <1>6 DEF Work

LEMMA FailsEnds ==
    ASSUME RouteInv, Work, pc # "idle", CommandFails, UNCHANGED <<issued, executed>>
    PROVE  Work' /\ pc' = "idle"
<1>1. <<>> \in Seq(GoodReply) /\ 1 .. Len(<<>>) = {}
  OBVIOUS
<1>2. cmd \in 1 .. Len(issued)
  BY DEF Work, Progress
<1>3. results' = Append(results, [id |-> cmd, got |-> <<>>, err |-> TRUE]) /\ pc' = "idle" /\ Locals
  BY DEF CommandFails, CommandReturns, Locals
<1> QED BY <1>1, <1>2, <1>3, Ends

-----------------------------------------------------------------------------
(* The steps of redisClusterCommand keep the invariant of commands. *)

LEMMA CommandKeeps ==
    ASSUME RouteInv, CommandInv, NEW slots \in SlotLists, Command(slots)
    PROVE  CommandInv'
<1>0. /\ pc = "idle" /\ pc' = "retry" /\ cmd' = Len(issued') /\ todo' = slots /\ issued' = Append(issued, slots)
      /\ UNCHANGED <<clusterVars, link, executed, pipeVars, retryCount, got, sends, results>>
  BY DEF Command
<1>1. issued \in Seq(SlotLists) /\ slots \in Seq(Slots) /\ retryCount \in Nat
  BY ContextAssumption DEF RouteInv, CallTyped, ContextTyped
<1>2. /\ Len(issued') = Len(issued) + 1
      /\ \A i \in 1 .. Len(issued) : issued'[i] = issued[i]
      /\ issued'[Len(issued) + 1] = slots
  BY <1>0, <1>1, AppendFacts
<1>3. Len(issued) \in Nat /\ Len(slots) \in Nat
  BY <1>1
<1>4. got = <<>> /\ sends = 0
  BY <1>0 DEF CommandInv, Budget
<1>5. Alone'
  <2>1. \A o \in Holders : InUse(link'[o]) => Quiet(link'[o])
    BY <1>0, NotBlockedQuiet DEF CommandInv, Blocked
  <2> QED BY <1>0, <2>1, AloneQuiet DEF CommandInv
<1>6. Progress'
  <2>1. Len(got') = 0
    BY <1>0, <1>4
  <2>2. \A k \in 1 .. Len(todo') : todo'[k] = issued'[cmd'][0 + k]
    BY <1>0, <1>2, <1>3
  <2>3. cmd' \in 1 .. Len(issued') /\ 0 + Len(todo') = Len(issued'[cmd'])
    BY <1>0, <1>2, <1>3
  <2> QED BY <2>1, <2>2, <2>3 DEF Progress
<1>7. Returned'
  <2>1. \A i \in 1 .. Len(results) : Right(results[i], issued)
    BY AllRight DEF CommandInv
  <2>2. \A i \in 1 .. Len(results) : Right(results[i], issued')
    BY <1>2, <1>3, <2>1 DEF Right
  <2>3. \A i \in 1 .. Len(results') : Right(results'[i], issued')
    BY <1>0, <2>2
  <2> QED BY <2>3 DEF Returned, RightReply, Right
<1>8. Unexecuted'
  <2>1. \A e \in 1 .. Len(executed) : executed[e].id \in 1 .. Len(issued)
    BY DEF CommandInv, Unexecuted
  <2>2. \A e \in 1 .. Len(executed) : executed[e].id \in 1 .. Len(issued') /\ executed[e].id # cmd'
    BY <1>0, <1>2, <1>3, <2>1
  <2> QED BY <1>0, <2>2 DEF CommandInv, Unexecuted
<1>9. Budget'
  BY <1>0, <1>1, <1>4 DEF Budget
<1> QED BY <1>5, <1>6, <1>7, <1>8, <1>9 DEF CommandInv

LEMMA RetryKeeps ==
    ASSUME RouteInv, CommandInv, Retry
    PROVE  CommandInv'
<1> DEFINE o == table[Head(todo)]
           l == CtxOfNode(link[o], nodes[o])
<1>0. pc = "retry" /\ pc \in Working /\ ~Blocked /\ o # None
  BY DEF Retry, Working, Blocked
<1>1. o \in Holders /\ l \in GoodLink /\ link \in [Holders -> GoodLink]
  BY <1>0, NextNode DEF RouteInv, ClusterTyped
<1>2. /\ UNCHANGED <<clusterVars, executed, contextVars, todo, got, cmd, resetting, historyVars>>
      /\ UNCHANGED <<executed, todo, got, cmd, issued, results, retryCount, pipeVars>>
  BY DEF Retry, contextVars, historyVars
<1>3. \A x \in Holders : InUse(link[x]) => Quiet(link[x])
  BY <1>0, NotBlockedQuiet DEF CommandInv
<1>4. Quiet(l) /\ (l.state # "err" => InUse(l))
  BY <1>1, <1>3, CtxQuiet
<1>5. IF l.state = "err"
      THEN link' = [link EXCEPT ![o] = l] /\ pc' = "scan" /\ tried' = {} /\ UNCHANGED <<cur, sends>>
      ELSE Exchange(o, l, "cmd") /\ UNCHANGED tried
  BY DEF Retry
<1>6. Fresh /\ sends <= retryCount + Len(got) /\ sends \in Nat /\ retryCount \in Nat /\ Len(got) \in Nat
  <2>1. Fresh
    BY <1>0, FreshUnlessOk DEF CommandInv
  <2>2. sends \in Nat /\ retryCount \in Nat /\ Len(got) \in Nat
    BY ContextAssumption DEF RouteInv, CallTyped, ContextTyped
  <2>3. sends <= retryCount + Len(got) + 0
    BY <1>0 DEF CommandInv, Budget
  <2> QED BY <2>1, <2>2, <2>3
<1>7. Work
  BY DEF CommandInv, Work
<1> HIDE DEF o, l
<1>8. CASE l.state = "err"
  <2>1. link' = [link EXCEPT ![o] = l] /\ pc' = "scan" /\ UNCHANGED <<cur, sends>>
    BY <1>5, <1>8
  <2>2. \A x \in Holders : InUse(link'[x]) => Quiet(link'[x])
    BY <1>1, <1>3, <1>4, <2>1
  <2>3. Alone'
    BY <1>2, <2>1, <2>2, AloneQuiet DEF CommandInv
  <2>4. sends' <= retryCount' + Len(got) + (IF pc' = "wait" THEN 1 ELSE 0)
    BY <1>2, <1>6, <2>1
  <2>5. Work'
    BY <1>0, <1>2, <1>6, <1>7, <2>1, <2>4, GoesOn
  <2> QED BY <2>3, <2>5 DEF CommandInv, Work
<1>9. CASE l.state # "err"
  <2>1. Exchange(o, l, "cmd")
    BY <1>5, <1>9
  <2>2. PICK m \in GetReplyStarts(Appended(l, "cmd", cmd, Head(todo))) : link' = [link EXCEPT ![o] = m]
    BY <2>1 DEF Exchange
  <2>3. cur' = o /\ sends' = sends + 1 /\ pc' = "wait"
        /\ pc' = CASE "cmd" = "ping" -> "ping" [] "cmd" = "asking" -> "asking" [] OTHER -> "wait"
    BY <2>1 DEF Exchange
  <2>4. Alone'
    BY <1>0, <1>1, <1>2, <1>3, <1>4, <1>9, <2>2, <2>3, AloneExchange DEF Ops, CommandInv, Alone
  <2>5. sends' <= retryCount' + Len(got) + (IF pc' = "wait" THEN 1 ELSE 0)
    BY <1>2, <1>6, <2>3
  <2>6. Work'
    BY <1>0, <1>2, <1>6, <1>7, <2>3, <2>5, GoesOn
  <2> QED BY <2>4, <2>6 DEF CommandInv, Work
<1> QED BY <1>8, <1>9

LEMMA ScanKeeps ==
    ASSUME RouteInv, CommandInv, NEW o \in Keys, Scan(o)
    PROVE  CommandInv'
<1> DEFINE l == CtxOfNode(link[o], nodes[o])
<1>0. pc = "scan" /\ pc \in Working /\ ~Blocked
  BY DEF Scan, Working, Blocked
<1>1. o \in Holders /\ link \in [Holders -> GoodLink]
  BY ContextAssumption DEF RouteInv, ClusterTyped
<1>2. l \in GoodLink
  BY <1>1, CtxOfNodeType DEF RouteInv, ContextTyped
<1>3. UNCHANGED <<executed, todo, got, cmd, issued, results, retryCount, pipeVars>>
  BY DEF Scan, contextVars, historyVars
<1>4. \A x \in Holders : InUse(link[x]) => Quiet(link[x])
  BY <1>0, NotBlockedQuiet DEF CommandInv
<1>5. Quiet(l) /\ (l.state # "err" => InUse(l))
  BY <1>1, <1>4, CtxQuiet
<1>6. IF l.state = "err"
      THEN link' = [link EXCEPT ![o] = l] /\ UNCHANGED <<pc, cur, sends>>
      ELSE Exchange(o, l, "ping")
  BY DEF Scan
<1>7. Fresh /\ sends <= retryCount + Len(got) + 0
  BY <1>0, FreshUnlessOk DEF CommandInv, Budget
<1>8. Work
  BY DEF CommandInv, Work
<1> HIDE DEF l
<1>9. CASE l.state = "err"
  <2>1. link' = [link EXCEPT ![o] = l] /\ pc' = "scan" /\ sends' = sends
    BY <1>0, <1>6, <1>9
  <2>2. \A x \in Holders : InUse(link'[x]) => Quiet(link'[x])
    BY <1>1, <1>4, <1>5, <2>1
  <2>3. Alone'
    BY <1>3, <2>1, <2>2, AloneQuiet DEF CommandInv
  <2>4. Work'
    BY <1>0, <1>3, <1>7, <1>8, <2>1, GoesOn
  <2> QED BY <2>3, <2>4 DEF CommandInv, Work
<1>10. CASE l.state # "err"
  <2>1. Exchange(o, l, "ping")
    BY <1>6, <1>10
  <2>2. PICK m \in GetReplyStarts(Appended(l, "ping", cmd, Head(todo))) : link' = [link EXCEPT ![o] = m]
    BY <2>1 DEF Exchange
  <2>3. cur' = o /\ sends' = sends /\ pc' = "ping"
        /\ pc' = CASE "ping" = "ping" -> "ping" [] "ping" = "asking" -> "asking" [] OTHER -> "wait"
    BY <2>1 DEF Exchange
  <2>4. Alone'
    BY <1>0, <1>1, <1>2, <1>3, <1>4, <1>5, <1>10, <2>2, <2>3, AloneExchange DEF Ops, CommandInv, Alone
  <2>5. Work'
    BY <1>0, <1>3, <1>7, <1>8, <2>3, GoesOn
  <2> QED BY <2>4, <2>5 DEF CommandInv, Work
<1> QED BY <1>9, <1>10

LEMMA CommandFailsKeeps ==
    ASSUME RouteInv, CommandInv, RetryFails \/ ScanEnds
    PROVE  CommandInv'
<1>1. pc \in {"retry", "scan"} /\ CommandFails /\ UNCHANGED <<link, executed, pipeVars, issued>>
  BY DEF RetryFails, ScanEnds
<1>2. Work' /\ pc' = "idle"
  BY <1>1, FailsEnds DEF CommandInv, Work
<1>3. Alone'
  BY <1>1, <1>2, NotBlockedQuiet, AloneQuiet DEF CommandInv, Blocked
<1> QED BY <1>2, <1>3 DEF CommandInv, Work

\* The command is sent to the node that the thread has just heard from.
LEMMA SendsKeeps ==
    ASSUME RouteInv, CommandInv, NEW reply, Receive(reply), pc \in Working, pc \in {"ping", "asking"},
           Exchange(cur, Received[cur], "cmd"), UNCHANGED <<executed, todo, got, cmd, issued, results, pipeVars>>,
           retryCount' \in Nat, retryCount' >= retryCount
    PROVE  CommandInv'
<1>1. /\ Received \in [Holders -> GoodLink] /\ InUse(Received[cur]) /\ cur \in Holders
      /\ \A o \in Holders : InUse(Received[o]) => Quiet(Received[o])
  BY ReceiveCarried DEF CommandInv, RouteInv, CallTyped
<1>2. PICK m \in GetReplyStarts(Appended(Received[cur], "cmd", cmd, Head(todo))) :
         link' = [link EXCEPT ![cur] = m]
  BY DEF Exchange
<1>3. link' = [Received EXCEPT ![cur] = m]
  BY <1>1, <1>2 DEF Received, RouteInv, ClusterTyped
<1>4. cur' = cur /\ sends' = sends + 1 /\ pc' = "wait"
      /\ pc' = CASE "cmd" = "ping" -> "ping" [] "cmd" = "asking" -> "asking" [] OTHER -> "wait"
  BY DEF Exchange
<1>5. Alone'
  <2>1. Received[cur] \in GoodLink /\ Quiet(Received[cur])
    BY <1>1
  <2>2. ~listed /\ requests = <<>> /\ "cmd" \in Ops
    BY DEF CommandInv, Alone, Ops
  <2> QED BY <1>1, <1>3, <1>4, <2>1, <2>2, AloneExchange
<1>6. Fresh
  BY FreshUnlessOk DEF CommandInv
<1>7. sends' <= retryCount' + Len(got) + (IF pc' = "wait" THEN 1 ELSE 0)
  <2>1. sends \in Nat /\ retryCount \in Nat /\ Len(got) \in Nat
    BY ContextAssumption DEF RouteInv, CallTyped, ContextTyped
  <2>2. sends <= retryCount + Len(got) + 0
    BY DEF CommandInv, Budget
  <2> QED BY <1>4, <2>1, <2>2
<1>8. Work'
  BY <1>4, <1>6, <1>7, GoesOn DEF CommandInv, Work
<1> QED BY <1>5, <1>8 DEF CommandInv, Work

LEMMA AskingReplyKeeps ==
    ASSUME RouteInv, CommandInv, NEW reply, AskingReply(reply)
    PROVE  CommandInv'
<1>1. /\ Receive(reply) /\ pc = "asking" /\ pc \in Working /\ Exchange(cur, Received[cur], "cmd")
      /\ UNCHANGED <<executed, todo, got, cmd, issued, results, pipeVars, retryCount>>
  BY DEF AskingReply, contextVars, historyVars, Working
<1>2. retryCount' \in Nat /\ retryCount' >= retryCount
  BY <1>1, ContextAssumption DEF RouteInv, ContextTyped
<1> QED BY <1>1, <1>2, SendsKeeps

\* The thread goes on without waiting, after what came was read.
LEMMA ReadKeeps ==
    ASSUME RouteInv, CommandInv, NEW reply, Receive(reply), pc' \in {"idle", "retry", "scan"},
           UNCHANGED pipeVars, link' = Received
    PROVE  Alone'
  BY ReceiveCarried, AloneQuiet DEF CommandInv

LEMMA PongKeeps ==
    ASSUME RouteInv, CommandInv, NEW reply, Pong(reply)
    PROVE  CommandInv'
<1>1. Receive(reply) /\ pc = "ping" /\ pc \in Working /\ UNCHANGED <<executed, pipeVars, issued>>
  BY DEF Pong, Working
<1>2. Work
  BY DEF CommandInv, Work
<1>3. CASE link' = Received /\ CommandFails
  <2>1. Work' /\ pc' = "idle"
    BY <1>1, <1>2, <1>3, FailsEnds
  <2>2. Alone'
    BY <1>1, <1>3, <2>1, ReadKeeps
  <2> QED BY <2>1, <2>2 DEF CommandInv, Work
<1>4. CASE /\ retryCount' = retryCount + 1
           /\ Exchange(cur, Received[cur], "cmd")
           /\ UNCHANGED <<todo, got, cmd, results>>
  <2>1. retryCount' \in Nat /\ retryCount' >= retryCount
    BY <1>4, ContextAssumption DEF RouteInv, ContextTyped
  <2> QED BY <1>1, <1>4, <2>1, SendsKeeps
<1>5. CASE link' = Received /\ pc' = "scan" /\ UNCHANGED <<retryCount, callVars, sends, results>>
  <2>1. Alone'
    BY <1>1, <1>5, ReadKeeps
  <2>2. Fresh /\ sends <= retryCount + Len(got) + 0
    BY <1>1, FreshUnlessOk DEF CommandInv, Budget
  <2>3. Work'
    BY <1>1, <1>2, <1>5, <2>2, GoesOn DEF callVars
  <2> QED BY <2>1, <2>3 DEF CommandInv, Work
<1> QED BY <1>3, <1>4, <1>5 DEF Pong

\* The last reply completes the command.
LEMMA LastReply ==
    ASSUME RouteInv, Progress, pc = "wait", NEW reply \in GoodReply, Len(todo) = 1,
           reply.id = cmd, reply.slot = Head(todo), reply.op = "cmd"
    PROVE  /\ Append(got, reply) \in Seq(GoodReply)
           /\ \A k \in 1 .. Len(Append(got, reply)) :
                 Append(got, reply)[k].id = cmd /\ Append(got, reply)[k].op = "cmd"
           /\ [k \in 1 .. Len(Append(got, reply)) |-> Append(got, reply)[k].slot] = issued[cmd]
<1> DEFINE all == Append(got, reply)
           n == Len(got)
<1>0. got \in Seq(GoodReply) /\ n \in Nat /\ todo \in Seq(Slots) /\ todo # <<>>
  <2>1. got \in Seq(GoodReply) /\ todo \in Seq(Slots)
    BY DEF RouteInv, CallTyped
  <2>2. todo # <<>>
    BY DEF RouteInv, Pending, Working
  <2> QED BY <2>1, <2>2
<1>1. all \in Seq(GoodReply)
  BY <1>0, AppendType
<1>2. /\ Len(all) = n + 1 /\ \A k \in 1 .. n : all[k] = got[k]
      /\ all[n + 1] = reply /\ \A k \in 1 .. n + 1 : k \in 1 .. n \/ k = n + 1
  BY <1>0, AppendFacts
<1>3. cmd \in 1 .. Len(issued) /\ issued[cmd] \in Seq(Slots)
  <2>1. cmd \in 1 .. Len(issued) /\ issued \in Seq(SlotLists)
    BY DEF Progress, RouteInv, CallTyped
  <2>2. issued[cmd] \in SlotLists
    BY <2>1, ElementType
  <2> QED BY <2>1, <2>2, ContextAssumption
<1>4. reply.slot = todo[1]
  BY <1>0, TailFacts
<1>5. /\ \A k \in 1 .. n : got[k].id = cmd /\ got[k].op = "cmd" /\ got[k].slot = issued[cmd][k]
      /\ n + 1 = Len(issued[cmd]) /\ reply.slot = issued[cmd][n + 1]
  BY <1>0, <1>4 DEF Progress
<1> HIDE DEF all, n
<1>6. \A k \in 1 .. n + 1 : all[k].id = cmd /\ all[k].op = "cmd" /\ all[k].slot = issued[cmd][k]
  BY <1>2, <1>5
<1> DEFINE c == issued[cmd]
<1>7. c \in Seq(Slots) /\ Len(c) = n + 1 /\ \A k \in 1 .. n + 1 : all[k].slot = c[k]
  BY <1>3, <1>5, <1>6
<1> HIDE DEF c
<1>8. [k \in 1 .. Len(all) |-> all[k].slot] = c
  <2>1. c = [k \in 1 .. Len(c) |-> c[k]]
    BY <1>7
  <2> QED BY <1>2, <1>7, <2>1
<1> QED BY <1>1, <1>2, <1>6, <1>8 DEF all, c

\* The next sub-command begins: none of it was executed.
LEMMA NextSubCommand ==
    ASSUME RouteInv, Work, pc = "wait", NEW reply \in GoodReply, Len(todo) # 1, reply.type = "ok",
           reply.id = cmd, reply.slot = Head(todo), reply.op = "cmd",
           todo' = Tail(todo), got' = Append(got, reply), pc' = "retry",
           UNCHANGED <<retryCount, cmd, sends, results, issued, executed>>
    PROVE  Work'
<1> DEFINE n == Len(got)
           t == Len(todo)
           c == issued[cmd]
<1>0. got \in Seq(GoodReply) /\ n \in Nat /\ todo \in Seq(Slots) /\ todo # <<>> /\ retryCount \in Nat /\ sends \in Nat
  BY ContextAssumption DEF RouteInv, CallTyped, ContextTyped, Pending, Working
<1>1. /\ Len(got') = n + 1 /\ \A k \in 1 .. n : got'[k] = got[k]
      /\ got'[n + 1] = reply /\ \A k \in 1 .. n + 1 : k \in 1 .. n \/ k = n + 1
  BY <1>0, AppendFacts
<1>2. /\ t \in Nat \ {0} /\ Head(todo) = todo[1] /\ Len(todo') = t - 1
      /\ \A k \in 1 .. t - 1 : todo'[k] = todo[k + 1]
  BY <1>0, TailFacts
<1>3. /\ cmd \in 1 .. Len(issued) /\ n + t = Len(c)
      /\ \A k \in 1 .. n : /\ got[k].id = cmd /\ got[k].op = "cmd" /\ got[k].type = "ok"
                           /\ got[k].slot = c[k]
      /\ \A k \in 1 .. t : todo[k] = c[n + k]
  BY DEF Work, Progress
<1> HIDE DEF n, t, c
<1>6. Progress'
  <2>1. \A k \in 1 .. n + 1 : /\ got'[k].id = cmd /\ got'[k].op = "cmd" /\ got'[k].type = "ok"
                              /\ got'[k].slot = c[k]
    BY SMTT(30), <1>0, <1>1, <1>2, <1>3
  <2>2. ASSUME NEW k \in 1 .. t - 1 PROVE todo'[k] = c[(n + 1) + k]
    <3>1. k + 1 \in 1 .. t /\ n + (k + 1) = (n + 1) + k
      BY <1>0, <1>2
    <3> QED BY <1>2, <1>3, <3>1
  <2>3. (n + 1) + (t - 1) = n + t
    BY <1>0, <1>2
  <2>4. issued'[cmd'] = c /\ cmd' = cmd /\ issued' = issued
    BY DEF c
  <2> QED BY SMTT(30), <1>1, <1>2, <1>3, <2>1, <2>2, <2>3, <2>4 DEF Progress
<1>7. Returned'
  BY StillReturned DEF Work
<1>8. Unexecuted'
  <2>1. ASSUME NEW e \in 1 .. Len(executed), NEW k \in 1 .. t - 1, executed[e].id = cmd
        PROVE  executed[e].slot # todo'[k]
    <3>1. k + 1 \in 1 .. t /\ k + 1 # 1
      BY <1>2
    <3>2. executed[e].slot # todo[k + 1]
      BY <2>1, <3>1 DEF Work, Unexecuted, t
    <3> QED BY <1>2, <3>2
  <2> QED BY <1>2, <2>1 DEF Work, Unexecuted
<1>9. Budget'
  <2>1. sends <= retryCount + n + 1
    BY DEF Work, Budget, n
  <2>2. sends' <= retryCount' + (n + 1) + 0
    BY <1>0, <2>1
  <2> QED BY <1>1, <2>2 DEF Budget
<1> QED BY <1>6, <1>7, <1>8, <1>9 DEF Work

LEMMA SubCommandDoneKeeps ==
    ASSUME RouteInv, CommandInv, NEW reply, pc = "wait", Receive(reply), SubCommandDone(reply),
           UNCHANGED <<executed, pipeVars, issued>>
    PROVE  CommandInv'
<1>1. /\ reply \in GoodReply /\ reply.id = cmd /\ reply.slot = Head(todo) /\ reply.op = "cmd"
      /\ link' = Received /\ reply.type \in {"ok", "error"}
  BY ReceiveCarried DEF CommandInv, Awaited, SubCommandDone
<1>2. Work /\ Progress /\ cmd \in 1 .. Len(issued)
  BY DEF CommandInv, Work, Progress
<1>3. CASE reply.type = "error"
  <2>1. CommandReturns(<<reply>>, FALSE)
    BY <1>3 DEF SubCommandDone
  <2>2. <<reply>> \in Seq(GoodReply) /\ Len(<<reply>>) = 1 /\ <<reply>>[1] = reply
    BY <1>1
  <2>3. \A k \in 1 .. Len(<<reply>>) : <<reply>>[k] = reply
    BY <2>2
  <2>4. results' = Append(results, [id |-> cmd, got |-> <<reply>>, err |-> FALSE]) /\ Locals /\ pc' = "idle"
    BY <2>1 DEF CommandReturns, Locals
  <2>5. ~(\A k \in 1 .. Len(<<reply>>) : <<reply>>[k].type = "ok")
    BY <1>3, <2>2
  <2>6. Work'
    BY <1>1, <1>2, <2>2, <2>3, <2>4, <2>5, Ends
  <2>7. Alone'
    BY <1>1, <2>4, ReadKeeps
  <2> QED BY <2>6, <2>7 DEF CommandInv, Work
<1>4. CASE reply.type # "error" /\ Len(todo) = 1
  <2>1. CommandReturns(Append(got, reply), FALSE)
    BY <1>4 DEF SubCommandDone
  <2>2. results' = Append(results, [id |-> cmd, got |-> Append(got, reply), err |-> FALSE]) /\ Locals /\ pc' = "idle"
    BY <2>1 DEF CommandReturns, Locals
  <2>3. /\ Append(got, reply) \in Seq(GoodReply)
        /\ \A k \in 1 .. Len(Append(got, reply)) :
              Append(got, reply)[k].id = cmd /\ Append(got, reply)[k].op = "cmd"
        /\ [k \in 1 .. Len(Append(got, reply)) |-> Append(got, reply)[k].slot] = issued[cmd]
    BY <1>1, <1>2, <1>4, LastReply
  <2>4. Work'
    BY <1>2, <2>2, <2>3, Ends
  <2>5. Alone'
    BY <1>1, <2>2, ReadKeeps
  <2> QED BY <2>4, <2>5 DEF CommandInv, Work
<1>5. CASE reply.type # "error" /\ Len(todo) # 1
  <2>1. /\ todo' = Tail(todo) /\ got' = Append(got, reply) /\ pc' = "retry"
        /\ UNCHANGED <<retryCount, cmd, sends, results>>
    BY <1>5 DEF SubCommandDone
  <2>2. Work'
    BY <1>1, <1>2, <1>5, <2>1, NextSubCommand
  <2>3. Alone'
    BY <1>1, <2>1, ReadKeeps
  <2> QED BY <2>2, <2>3 DEF CommandInv, Work
<1> QED BY <1>3, <1>4, <1>5

\* A redirection: nothing of the sub-command was executed.
LEMMA Redirected ==
    ASSUME RouteInv, CommandInv, NEW reply, pc = "wait", Receive(reply), reply.type # "ok"
    PROVE  Work /\ Fresh /\ sends <= (retryCount + 1) + Len(got) + 0
<1>1. link[cur].in # <<>> /\ reply = link[cur].in[1]
  BY ReceiveCarried DEF Receive, CommandInv
<1>2. Fresh
  BY <1>1, FreshUnlessOk DEF CommandInv
<1>3. sends \in Nat /\ retryCount \in Nat /\ Len(got) \in Nat
  BY ContextAssumption DEF RouteInv, CallTyped, ContextTyped
<1>4. sends <= retryCount + Len(got) + 1
  BY DEF CommandInv, Budget
<1>5. sends <= (retryCount + 1) + Len(got) + 0
  BY <1>3, <1>4
<1> QED BY <1>2, <1>5 DEF CommandInv, Work

LEMMA MovedReplyKeeps ==
    ASSUME RouteInv, CommandInv, NEW reply, pc = "wait", Receive(reply), MovedReply(reply),
           UNCHANGED <<executed, pipeVars, issued>>
    PROVE  CommandInv'
<1>1. Work /\ Fresh /\ sends <= (retryCount + 1) + Len(got) + 0
  BY Redirected DEF MovedReply
<1>2. /\ Received \in [Holders -> GoodLink]
      /\ \A o \in Holders : InUse(Received[o]) => Quiet(Received[o])
  BY ReceiveCarried DEF CommandInv
<1>3. CASE /\ RouteUpdated(Received) /\ retryCount' = retryCount + 1 /\ pc' = "retry"
           /\ UNCHANGED <<callVars, sends, results>>
  <2>1. link' = [o \in Holders |->
                   IF o = Orphan \/ (nodes[o] # None /\ nodes'[o] # None) THEN Received[o] ELSE NoLink]
    BY <1>3 DEF RouteUpdated
  <2>2. ~InUse(NoLink)
    BY DEF InUse, NoLink, NewLink
  <2>3. \A o \in Holders : InUse(link'[o]) => Quiet(link'[o])
    BY <1>2, <2>1, <2>2
  <2>4. Alone'
    BY <1>3, <2>3, AloneQuiet DEF CommandInv
  <2>5. Work'
    BY <1>1, <1>3, GoesOn DEF callVars
  <2> QED BY <2>4, <2>5 DEF CommandInv, Work
<1>4. CASE RouteFails(Received) /\ CommandFails
  <2>1. Work' /\ pc' = "idle"
    BY <1>1, <1>4, FailsEnds
  <2>2. Alone'
    BY <1>4, <2>1, ReadKeeps DEF RouteFails
  <2> QED BY <2>1, <2>2 DEF CommandInv, Work
<1> QED BY <1>3, <1>4 DEF MovedReply

LEMMA AskReplyKeeps ==
    ASSUME RouteInv, CommandInv, NEW reply, pc = "wait", Receive(reply), AskReply(reply),
           UNCHANGED <<executed, pipeVars, issued>>
    PROVE  CommandInv'
<1> DEFINE o == AskNode(reply)
           l == IF o = reply.to THEN CtxOfNode(Received[o], reply.to)
                ELSE NewLink(IF reply.to \in alive THEN "open" ELSE "err", reply.to)
<1>0. /\ reply.type = "ask"
      /\ IF l.state = "err"
         THEN link' = [Received EXCEPT ![o] = l] /\ CommandFails
         ELSE /\ retryCount' = retryCount + 1
              /\ cur' = o
              /\ \E m \in GetReplyStarts(Appended(l, "asking", cmd, Head(todo))) :
                    link' = [Received EXCEPT ![o] = m]
              /\ pc' = "asking"
              /\ UNCHANGED <<todo, got, cmd, sends, results>>
  BY DEF AskReply
<1>1. Work /\ Fresh /\ sends <= (retryCount + 1) + Len(got) + 0
  BY <1>0, Redirected
<1>2. /\ Received \in [Holders -> GoodLink] /\ reply \in GoodReply
      /\ \A x \in Holders : InUse(Received[x]) => Quiet(Received[x])
  BY ReceiveCarried DEF CommandInv
<1>3. reply.to \in Nodes /\ reply.slot \in Slots
  BY <1>0, <1>2 DEF GoodReply, Reply
<1>4. o \in Holders
  BY <1>3, ContextAssumption DEF AskNode, Keys
<1>5. l \in GoodLink /\ Quiet(l) /\ (l.state # "err" => InUse(l))
  <2>1. CASE o = reply.to
    <3>1. Received[o] \in GoodLink /\ (InUse(Received[o]) => Quiet(Received[o]))
      BY <1>2, <1>4
    <3>2. l = CtxOfNode(Received[o], reply.to)
      BY <2>1
    <3> HIDE DEF l, o
    <3> QED BY <1>3, <3>1, <3>2, CtxOfNodeType, CtxQuiet
  <2>2. CASE o # reply.to
    <3>1. PICK st \in {"open", "err"} : l = NewLink(st, reply.to)
      BY <2>2
    <3> HIDE DEF l, o
    <3> QED BY <1>3, <3>1, NewLinkType, NewQuiet
  <2> QED BY <2>1, <2>2
<1> HIDE DEF l, o
<1>6. CASE l.state = "err"
  <2>1. link' = [Received EXCEPT ![o] = l] /\ CommandFails
    BY <1>0, <1>6
  <2>2. Work' /\ pc' = "idle"
    BY <1>1, <2>1, FailsEnds
  <2>3. \A x \in Holders : InUse(link'[x]) => Quiet(link'[x])
    BY <1>2, <1>4, <1>5, <2>1
  <2>4. Alone'
    BY <2>2, <2>3, AloneQuiet DEF CommandInv
  <2> QED BY <2>2, <2>4 DEF CommandInv, Work
<1>7. CASE l.state # "err"
  <2>1. /\ retryCount' = retryCount + 1 /\ cur' = o /\ pc' = "asking"
        /\ UNCHANGED <<todo, got, cmd, sends, results>>
    BY <1>0, <1>7
  <2>2. PICK m \in GetReplyStarts(Appended(l, "asking", cmd, Head(todo))) : link' = [Received EXCEPT ![o] = m]
    BY <1>0, <1>7
  <2>3. pc' = CASE "asking" = "ping" -> "ping" [] "asking" = "asking" -> "asking" [] OTHER -> "wait"
    BY <2>1
  <2>4. ~listed /\ requests = <<>> /\ "asking" \in Ops /\ pc \in Working
    BY DEF CommandInv, Alone, Ops, Working
  <2>5. Alone'
    BY <1>2, <1>4, <1>5, <1>7, <2>1, <2>2, <2>3, <2>4, AloneExchange
  <2>6. Work'
    BY <1>1, <2>1, GoesOn
  <2> QED BY <2>5, <2>6 DEF CommandInv, Work
<1> QED BY <1>6, <1>7

LEMMA CommandReplyKeeps ==
    ASSUME RouteInv, CommandInv, NEW reply, CommandReply(reply)
    PROVE  CommandInv'
<1>1. pc = "wait" /\ Receive(reply) /\ UNCHANGED <<executed, pipeVars, issued>>
  BY DEF CommandReply
<1>2. CASE TooManyRedirects(reply)
  <2>1. link' = Received /\ CommandFails /\ Work
    BY <1>2 DEF TooManyRedirects, CommandInv, Work
  <2>2. Work' /\ pc' = "idle"
    BY <1>1, <2>1, FailsEnds
  <2>3. Alone'
    BY <1>1, <2>1, <2>2, ReadKeeps
  <2> QED BY <2>2, <2>3 DEF CommandInv, Work
<1>3. CASE AgainReply(reply)
  <2>1. /\ link' = Received /\ pc' = "retry" /\ retryCount' = retryCount + 1
        /\ UNCHANGED <<callVars, sends, results>> /\ reply.type # "ok"
    BY <1>3 DEF AgainReply
  <2>2. Work /\ Fresh /\ sends <= (retryCount + 1) + Len(got) + 0
    BY <1>1, <2>1, Redirected
  <2>3. Work'
    BY <1>1, <2>1, <2>2, GoesOn DEF callVars
  <2>4. Alone'
    BY <1>1, <2>1, ReadKeeps
  <2> QED BY <2>3, <2>4 DEF CommandInv, Work
<1> QED BY <1>1, <1>2, <1>3, SubCommandDoneKeeps, MovedReplyKeeps, AskReplyKeeps DEF CommandReply

LEMMA ExchangeFailsKeeps ==
    ASSUME RouteInv, CommandInv, ExchangeFails
    PROVE  CommandInv'
<1>1. Blocked /\ link' = Failed /\ UNCHANGED <<executed, pipeVars, issued>> /\ cur \in Holders
  BY DEF ExchangeFails, ReceiveFails, RouteInv, CallTyped
<1>2. \A o \in Holders : InUse(link'[o]) => Quiet(link'[o])
  <2>1. link[cur] \in GoodLink /\ link \in [Holders -> GoodLink]
    BY <1>1 DEF RouteInv, ClusterTyped
  <2>2. ~InUse([link[cur] EXCEPT !.state = "err"])
    BY <2>1 DEF InUse, GoodLink
  <2>3. link'[cur] = [link[cur] EXCEPT !.state = "err"] /\ \A o \in Holders \ {cur} : link'[o] = link[o]
    BY <1>1, <2>1 DEF Failed
  <2> QED BY <2>2, <2>3 DEF CommandInv, Alone
<1>3. CASE pc = "ping" /\ pc' = "scan" /\ UNCHANGED <<retryCount, callVars, sends, results>>
  <2>1. Alone'
    BY <1>1, <1>2, <1>3, AloneQuiet DEF CommandInv
  <2>2. Fresh /\ sends <= retryCount + Len(got) + 0
    BY <1>3, FreshUnlessOk DEF CommandInv, Budget
  <2>3. Work'
    BY <1>1, <1>3, <2>2, GoesOn DEF callVars, CommandInv, Work
  <2> QED BY <2>1, <2>3 DEF CommandInv, Work
<1>4. CASE pc \in {"wait", "asking"} /\ CommandFails
  <2>1. Work' /\ pc' = "idle"
    BY <1>1, <1>4, FailsEnds DEF CommandInv, Work
  <2>2. Alone'
    BY <1>1, <1>2, <2>1, AloneQuiet DEF CommandInv
  <2> QED BY <2>1, <2>2 DEF CommandInv, Work
<1> QED BY <1>3, <1>4 DEF ExchangeFails

-----------------------------------------------------------------------------
(* The cluster keeps the invariant of commands. *)

\* What is on a connection when it breaks.
LEMMA BreakCarries ==
    ASSUME NEW l \in GoodLink
    PROVE  /\ Break(l) \in GoodLink
           /\ Break(l).in = l.in
           /\ InUse(l) => InUse(Break(l))
           /\ InUse(Break(l)) => InUse(l)
           /\ Quiet(l) => Quiet(Break(l))
           /\ \A q : Carries(l, q) => Carries(Break(l), q)
<1>1. CASE l.state = "open"
  <2>1. Break(l) = [l EXCEPT !.state = "broken", !.sent = <<>>]
    BY <1>1 DEF Break
  <2>2. Break(l).state = "broken" /\ Break(l).sent = <<>> /\ Break(l).in = l.in /\ Break(l).out = l.out
    BY <2>1 DEF GoodLink
  <2> QED BY <1>1, <2>2, BreakType DEF InUse, Quiet, Carries
<1>2. CASE l.state # "open"
  BY <1>2 DEF Break
<1> QED BY <1>1, <1>2

\* Connections break: nothing is executed by it.
LEMMA BreaksKeep ==
    ASSUME RouteInv, CommandInv, UNCHANGED <<executed, contextVars, pc, callVars, sends, historyVars>>,
           NEW S \in SUBSET Holders, link' = [o \in Holders |-> IF o \in S THEN Break(link[o]) ELSE link[o]]
    PROVE  CommandInv'
<1>1. UNCHANGED <<executed, requests, listed, retryCount, pc, cur, todo, got, cmd, sends, issued, results>>
  BY DEF contextVars, pipeVars, callVars, historyVars
<1>2. link \in [Holders -> GoodLink] /\ cur \in Holders
  BY DEF RouteInv, ClusterTyped, CallTyped
<1>3. \A o \in Holders : /\ link'[o].in = link[o].in
                         /\ InUse(link'[o]) => InUse(link[o])
                         /\ Quiet(link[o]) => Quiet(link'[o])
                         /\ \A q : Carries(link[o], q) => Carries(link'[o], q)
  BY <1>2, BreakCarries
<1>4. Awaited' = Awaited /\ Blocked' = Blocked
  BY <1>1 DEF Awaited, Blocked
<1>5. Alone'
  BY <1>1, <1>2, <1>3, <1>4 DEF CommandInv, Alone
<1>6. Unexecuted'
  BY <1>1, <1>2, <1>3 DEF CommandInv, Unexecuted
<1>7. Progress' /\ Budget'
  BY <1>1 DEF CommandInv, Progress, Budget
<1>8. Returned'
  BY <1>1, StillReturned DEF CommandInv
<1> QED BY <1>5, <1>6, <1>7, <1>8 DEF CommandInv

\* A command that is served was sent by the thread, which waits for it.
LEMMA ServedAwaited ==
    ASSUME RouteInv, CommandInv, NEW o \in Holders, link[o].state = "open", link[o].sent # <<>>
    PROVE  /\ Blocked /\ o = cur /\ pc # "idle"
           /\ link[o].out = <<>> /\ link[o].sent = <<Awaited>> /\ link[o].in = <<>>
<1>1. Blocked /\ o = cur
  BY DEF CommandInv, Alone, InUse, Quiet
<1>2. Carries(link[o], Awaited)
  BY <1>1 DEF CommandInv, Alone
<1> QED BY <1>1, <1>2 DEF Carries, Blocked

\* What is left of a command has different slots.
LEMMA Distinct ==
    ASSUME RouteInv, Progress, pc # "idle", NEW i \in 1 .. Len(todo), NEW j \in 1 .. Len(todo), todo[i] = todo[j]
    PROVE  i = j
<1> DEFINE n == Len(got)
           t == Len(todo)
           c == issued[cmd]
<1>1. n \in Nat /\ t \in Nat
  BY DEF RouteInv, CallTyped
<1>2. /\ cmd \in 1 .. Len(issued) /\ n + t = Len(c)
      /\ \A k \in 1 .. t : todo[k] = c[n + k]
  BY DEF Progress
<1>3. c \in SlotLists
  BY <1>2, ElementType DEF RouteInv, CallTyped
<1>4. \A x, y \in 1 .. Len(c) : c[x] = c[y] => x = y
  BY <1>3, SplitAssumption
<1> HIDE DEF n, t, c
<1>5. n + i \in 1 .. Len(c) /\ n + j \in 1 .. Len(c) /\ i \in 1 .. t /\ j \in 1 .. t
  BY <1>1, <1>2 DEF t
<1>6. n + i = n + j
  BY <1>2, <1>4, <1>5
<1> QED BY <1>1, <1>5, <1>6

LEMMA ServeKeeps ==
    ASSUME RouteInv, CommandInv, NEW o \in Holders, Serve(o),
           UNCHANGED <<contextVars, pc, callVars, sends, historyVars>>
    PROVE  CommandInv'
<1>1. UNCHANGED <<requests, listed, retryCount, pc, cur, todo, got, cmd, sends, issued, results>>
  BY DEF contextVars, pipeVars, callVars, historyVars
<1>2. link \in [Holders -> GoodLink] /\ ClusterTyped
  BY DEF RouteInv, ClusterTyped
<1>3. link[o].state = "open" /\ link[o].sent # <<>>
  BY <1>2, ServeCases
<1>4. PICK type \in ReplyTypes, to \in Nodes \cup {None} :
         /\ link' = [link EXCEPT ![o] = Served(link[o], type, to)]
         /\ \/ /\ Head(link[o].sent).op = "cmd" /\ type = "ok"
               /\ executed' = Append(executed, [id |-> Head(link[o].sent).id,
                                                slot |-> Head(link[o].sent).slot])
            \/ /\ Head(link[o].sent).op # "cmd" \/ type # "ok"
               /\ executed' = executed
  BY <1>2, ServeCases
<1>5. /\ Blocked /\ o = cur /\ pc # "idle"
      /\ link[o].out = <<>> /\ link[o].sent = <<Awaited>> /\ link[o].in = <<>>
  BY <1>3, ServedAwaited
<1> DEFINE q == Awaited
           r == [id |-> q.id, slot |-> q.slot, op |-> q.op, type |-> type, to |-> to]
<1>6. Head(link[o].sent) = q /\ Tail(link[o].sent) = <<>> /\ Append(link[o].in, r) = <<r>>
  BY <1>5
<1>7. /\ link'[o].state = "open" /\ link'[o].out = <<>> /\ link'[o].sent = <<>> /\ link'[o].in = <<r>>
      /\ \A x \in Holders \ {o} : link'[x] = link[x]
  <2>1. link[o] \in GoodLink /\ link'[o] = Served(link[o], type, to)
    BY <1>2, <1>4
  <2> HIDE DEF r
  <2>2. Served(link[o], type, to) = [link[o] EXCEPT !.sent = <<>>, !.asking = (q.op = "asking"), !.in = <<r>>]
    BY <1>6 DEF Served, r
  <2>3. link'[o].state = "open" /\ link'[o].out = <<>> /\ link'[o].sent = <<>> /\ link'[o].in = <<r>>
    BY <1>3, <1>5, <2>1, <2>2 DEF GoodLink
  <2>4. \A x \in Holders \ {o} : link'[x] = link[x]
    BY <1>2, <1>4
  <2> QED BY <2>3, <2>4
<1>8. Len(<<r>>) = 1 /\ <<r>>[1] = r /\ <<r>> # <<>>
  OBVIOUS
<1>9. Awaited' = Awaited /\ Blocked' = Blocked
  BY <1>1 DEF Awaited, Blocked
<1>10. Alone'
  <2>1. Carries(link'[o], q)
    BY <1>7, <1>8 DEF Carries, InUse
  <2> QED BY <1>1, <1>5, <1>7, <1>9, <2>1 DEF CommandInv, Alone
<1>11. Progress' /\ Budget'
  BY <1>1 DEF CommandInv, Progress, Budget
<1>12. Returned'
  BY <1>1, StillReturned DEF CommandInv
<1>13. link[cur].in = <<>> /\ link'[cur'].in # <<>> /\ link'[cur'].in[1].type = type
  BY <1>1, <1>5, <1>7, <1>8
<1>14. Fresh
  BY <1>5, <1>13 DEF CommandInv, Unexecuted, Fresh
<1>15. Unexecuted'
  <2>1. CASE executed' = executed
    BY <1>1, <1>14, <2>1 DEF CommandInv, Unexecuted, Fresh
  <2>2. CASE /\ q.op = "cmd" /\ type = "ok"
             /\ executed' = Append(executed, [id |-> q.id, slot |-> q.slot])
    <3> DEFINE e0 == [id |-> q.id, slot |-> q.slot]
               n == Len(executed)
    <3>1. q.id = cmd /\ q.slot = Head(todo) /\ pc = "wait"
      BY <1>5, <2>2 DEF Awaited, Blocked, CommandInv, Alone
    <3>2. todo \in Seq(Slots) /\ todo # <<>> /\ executed \in Seq(Entry) /\ cmd \in Nat
      BY <3>1 DEF RouteInv, CallTyped, ClusterTyped, Pending, Working
    <3>3. Head(todo) = todo[1] /\ Head(todo) \in Slots /\ Len(todo) \in Nat \ {0} /\ 1 \in 1 .. Len(todo)
      BY <3>2, TailFacts, HeadTailType
    <3>4. e0 \in Entry /\ e0.id = cmd /\ e0.slot = todo[1]
      BY <3>1, <3>2, <3>3 DEF Entry
    <3> HIDE DEF e0, q
    <3>5. executed' = Append(executed, e0)
      BY <2>2 DEF e0
    <3>6. /\ Len(executed') = n + 1 /\ \A e \in 1 .. n : executed'[e] = executed[e]
          /\ executed'[n + 1] = e0 /\ \A e \in 1 .. n + 1 : e \in 1 .. n \/ e = n + 1
      BY <3>2, <3>4, <3>5, AppendFacts
    <3>7. \A e \in 1 .. n : executed[e] # e0
      <4>1. \A e \in 1 .. n : executed[e].id = cmd => executed[e].slot # todo[1]
        BY <1>14, <3>3 DEF Fresh
      <4> QED BY <3>4, <4>1
    <3>8. \A e \in 1 .. Len(executed') : executed'[e].id \in 1 .. Len(issued')
      <4>1. cmd \in 1 .. Len(issued)
        BY <1>5 DEF CommandInv, Progress
      <4>2. \A e \in 1 .. n : executed[e].id \in 1 .. Len(issued)
        BY DEF CommandInv, Unexecuted
      <4> QED BY <1>1, <3>4, <3>6, <4>1, <4>2
    <3>9. \A i, j \in 1 .. Len(executed') : executed'[i] = executed'[j] => i = j
      <4>1. \A i, j \in 1 .. n : executed[i] = executed[j] => i = j
        BY DEF CommandInv, Unexecuted
      <4> HIDE DEF n
      <4> QED BY <3>6, <3>7, <4>1
    <3>10. ASSUME NEW e \in 1 .. Len(executed'), NEW k \in 1 .. Len(todo'),
                  executed'[e].id = cmd', executed'[e].slot = todo'[k]
           PROVE  k = 1
      <4>1. CASE e \in 1 .. n
        BY <1>1, <1>14, <3>6, <3>10, <4>1 DEF Fresh
      <4>2. CASE e = n + 1
        <5>1. todo[k] = todo[1] /\ k \in 1 .. Len(todo)
          BY <1>1, <3>4, <3>6, <3>10, <4>2
        <5> QED BY <3>3, <5>1, Distinct, <1>5 DEF CommandInv, Work
      <4> QED BY <3>6, <4>1, <4>2
    <3> QED BY <1>1, <1>13, <2>2, <3>1, <3>8, <3>9, <3>10 DEF Unexecuted
  <2> QED BY <1>4, <1>6, <2>1, <2>2
<1> QED BY <1>10, <1>11, <1>12, <1>15 DEF CommandInv

LEMMA EnvironmentKeeps ==
    ASSUME RouteInv, CommandInv, Environment
    PROVE  CommandInv'
<1>1. UNCHANGED <<contextVars, pc, callVars, sends, historyVars>> /\ ClusterNext
  BY DEF Environment
<1>2. link \in [Holders -> GoodLink]
  BY DEF RouteInv, ClusterTyped
<1>3. CASE UNCHANGED <<link, executed>>
  <2>1. {} \in SUBSET Holders /\ link' = [o \in Holders |-> IF o \in {} THEN Break(link[o]) ELSE link[o]]
    BY <1>2, <1>3
  <2> QED BY <1>1, <1>3, <2>1, BreaksKeep
<1>4. ASSUME NEW n \in Nodes, Crash(n) PROVE CommandInv'
  <2> DEFINE S == {o \in Holders : link[o].peer = n}
  <2>1. S \in SUBSET Holders /\ executed' = executed
        /\ link' = [o \in Holders |-> IF o \in S THEN Break(link[o]) ELSE link[o]]
    BY <1>4 DEF Crash
  <2> HIDE DEF S
  <2> QED BY <1>1, <2>1, BreaksKeep
<1>5. ASSUME NEW x \in Holders, Drop(x) PROVE CommandInv'
  <2>1. {x} \in SUBSET Holders /\ executed' = executed
        /\ link' = [o \in Holders |-> IF o \in {x} THEN Break(link[o]) ELSE link[o]]
    BY <1>2, <1>5 DEF Drop
  <2> QED BY <1>1, <2>1, BreaksKeep
<1>6. ASSUME NEW o \in Holders, Serve(o) PROVE CommandInv'
  BY <1>1, <1>6, ServeKeeps
<1> QED BY <1>1, <1>3, <1>4, <1>5, <1>6
        DEF ClusterNext, Migrate, MigrationEnds, Gossip, Recover, Failover

-----------------------------------------------------------------------------
LEMMA CommandInit == Init => CommandInv
<1> SUFFICES ASSUME Init PROVE CommandInv
  OBVIOUS
<1>1. /\ pc = "idle" /\ ~listed /\ requests = <<>> /\ executed = <<>> /\ results = <<>> /\ sends = 0 /\ got = <<>>
      /\ link = [o \in Holders |-> NoLink]
  BY DEF Init, ClusterInit
<1>2. 1 .. Len(executed) = {} /\ 1 .. Len(results) = {}
  BY <1>1
<1>3. ~InUse(NoLink) /\ ~Blocked
  BY <1>1 DEF InUse, NoLink, NewLink, Blocked
<1>4. Alone
  BY <1>1, <1>3 DEF Alone
<1> QED BY <1>1, <1>2, <1>4 DEF CommandInv, Progress, Returned, RightReply, Unexecuted, Budget

LEMMA CommandNext ==
    ASSUME CommandOnly, RouteInv, CommandInv, [Next]_vars
    PROVE  CommandInv'
<1>1. pc \in {"idle", "retry", "scan", "ping", "asking", "wait"} /\ AppCalls \subseteq {"command"}
  BY DEF CommandInv, Alone, CommandOnly
<1>2. CASE AppNext
  BY <1>1, <1>2, CommandKeeps DEF AppNext, AppendCommand, GetReply, MayPipeline, Reset
<1>3. CASE CallNext
  BY <1>1, <1>3, RetryKeeps, ScanKeeps, CommandFailsKeeps, PongKeeps, CommandReplyKeeps, AskingReplyKeeps,
     ExchangeFailsKeeps
     DEF CallNext, AppendFails, AppendSubCommand, GetSubReply, SubReply, SubReplyFails, Drain, ResetEnds
<1>4. CASE Environment
  BY <1>4, EnvironmentKeeps
<1>5. CASE UNCHANGED vars
  <2>1. /\ {} \in SUBSET Holders /\ UNCHANGED <<link, executed, contextVars, pc, callVars, sends, historyVars>>
    BY <1>5 DEF vars
  <2>2. link' = [o \in Holders |-> IF o \in {} THEN Break(link[o]) ELSE link[o]]
    BY <2>1 DEF RouteInv, ClusterTyped
  <2> QED BY <2>1, <2>2, BreaksKeep
<1> QED BY <1>2, <1>3, <1>4, <1>5 DEF Next

LEMMA CommandsKeep ==
    ASSUME CommandOnly
    PROVE  Spec => [](RouteInv /\ CommandInv)
<1>1. Init => RouteInv /\ CommandInv
  BY RouteInit, CommandInit
<1>2. RouteInv /\ CommandInv /\ [Next]_vars => RouteInv' /\ CommandInv'
  BY RouteNext, CommandNext
<1> QED BY <1>1, <1>2, PTL DEF Spec

\* redisClusterCommand returns the replies to its own command, one for each slot
\* in order, however it was redirected and whatever was left on a connection by
\* a call that failed (redis_cluster_command_execute, ctx_get_by_node in
\* src/hircluster.c).
THEOREM CommandsGetTheirReplies ==
    ASSUME CommandOnly
    PROVE  Spec => []RightReply
<1>1. CommandInv => RightReply
  BY DEF CommandInv, Returned
<1> QED BY <1>1, CommandsKeep, PTL

\* No sub-command is executed twice, through any number of MOVED, ASK, TRYAGAIN,
\* crashes and I/O errors, and a call sends no more than its sub-commands and
\* cc->max_redirect_count redirections (redis_cluster_command_execute).
THEOREM CommandsAtMostOnce ==
    ASSUME CommandOnly
    PROVE  Spec => []AtMostOnce
<1>1. RouteInv /\ CommandInv => AtMostOnce
  <2> SUFFICES ASSUME RouteInv, CommandInv PROVE AtMostOnce
    OBVIOUS
  <2>1. \A i, j \in 1 .. Len(executed) : executed[i] = executed[j] => i = j
    BY DEF CommandInv, Unexecuted
  <2>2. ASSUME pc # "idle" PROVE sends <= MaxRedirect + Len(issued[cmd])
    <3>1. /\ sends \in Nat /\ retryCount \in Nat /\ retryCount <= MaxRedirect /\ MaxRedirect \in Nat
          /\ todo \in Seq(Slots) /\ todo # <<>> /\ got \in Seq(GoodReply)
      BY <2>2, ContextAssumption DEF RouteInv, CallTyped, ContextTyped, Pending, Working, CommandInv, Alone
    <3>2. Len(todo) \in Nat \ {0} /\ Len(got) \in Nat
      BY <3>1, TailFacts
    <3>3. Len(got) + Len(todo) = Len(issued[cmd])
      BY <2>2 DEF CommandInv, Progress
    <3>4. sends <= retryCount + Len(got) + 1
      BY <2>2, <3>1, <3>2 DEF CommandInv, Budget
    <3>5. sends <= MaxRedirect + (Len(got) + Len(todo))
      BY <3>1, <3>2, <3>4
    <3> QED BY <3>3, <3>5
  <2> QED BY <2>1, <2>2 DEF AtMostOnce
<1> QED BY <1>1, CommandsKeep, PTL

\* redisClusterCommand never blocks for a reply that cannot come: what it waits
\* for is on its way, or its connection is broken.
THEOREM CommandsNeverWaitInVain ==
    ASSUME CommandOnly
    PROVE  Spec => []NoVainWait
<1>1. CommandInv => NoVainWait
  <2> SUFFICES ASSUME CommandInv, Blocked
               PROVE  ReplyComes
    BY DEF NoVainWait
  <2>1. Carries(link[cur], Awaited)
    BY DEF CommandInv, Alone
  <2> QED BY <2>1 DEF Carries, ReplyComes
<1> QED BY <1>1, CommandsKeep, PTL

\* When redisClusterCommand has returned, with a reply or an error, no
\* connection that is still used holds a command or a reply of it.
THEOREM CommandsLeaveLinksClean ==
    ASSUME CommandOnly
    PROVE  Spec => []LinksClean
<1>1. CommandInv => LinksClean
  BY DEF CommandInv, Alone, LinksClean, Blocked, InUse, Quiet
<1> QED BY <1>1, CommandsKeep, PTL

=============================================================================
