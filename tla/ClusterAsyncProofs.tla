------------------------- MODULE ClusterAsyncProofs -------------------------
(***************************************************************************)
(* What the asynchronous cluster API promises for every number of nodes,   *)
(* slots, connections and commands, whatever the application calls from    *)
(* its callbacks: no callback is lost or runs twice, each gets the reply   *)
(* to its own command, no command is executed twice, and nodes and         *)
(* connections refer to each other.                                        *)
(***************************************************************************)
EXTENDS ClusterAsync, RedisClusterFacts, FiniteSetTheorems

-----------------------------------------------------------------------------
(* Types, with what an ASK names. *)

GoodAnswer == {r \in Answer : r.type = "ask" => r.to \in Nodes}

CbFrame ==
    [kind : {"cb"}, conn : Holders, id : Ids, reply : GoodAnswer,
     at : {"start", "updated", "resend", "done", "user"}]
TearFrame == [kind : {"teardown"}, conn : Holders]
FreeFrame == [kind : {"release"}, todo : SUBSET Keys, last : BOOLEAN]
GoodFrame == CbFrame \cup TearFrame \cup FreeFrame

Typed ==
    /\ ClusterTyped
    /\ useSlots \in BOOLEAN
    /\ table \in [Slots -> Nodes]
    /\ node \in [Pointers -> NodeType]
    /\ ac \in [Holders -> ActxType]
    /\ updateTime \in BOOLEAN
    /\ accErr \in BOOLEAN
    /\ retries \in [Ids -> 0 .. MaxRedirect]
    /\ stack \in Seq(GoodFrame)
    /\ freed \in BOOLEAN
    /\ undefined \in BOOLEAN
    /\ issued \in Seq(Slots)
    /\ Len(issued) <= MaxCalls
    /\ sends \in [Ids -> Nat]
    /\ ran \in [Ids -> Seq(Answer)]
    /\ notReached \in BOOLEAN

-----------------------------------------------------------------------------
(* The stack of calls. *)

\* Frame f is of __redisAsyncFree, or redisClusterAsyncCallback, on connection c.
Tears(f, c) == f.kind = "teardown" /\ f.conn = c
Calls(f, c) == f.kind = "cb" /\ f.conn = c

TornIn(st, c) == \E i \in 1 .. Len(st) : Tears(st[i], c)

\* __redisAsyncFree is left only by a callback of its own connection, runs once
\* for a connection, and never under a callback of it; a callback with a reply
\* is the first call of all.
Shaped(st) ==
    /\ \A i \in 1 .. Len(st) - 1 : st[i].kind = "teardown" => Calls(st[i + 1], st[i].conn)
    /\ \A i \in 2 .. Len(st) : st[i].kind = "cb" => Tears(st[i - 1], st[i].conn)
    /\ \A i, j \in 1 .. Len(st) : i < j /\ st[j].kind = "teardown" =>
          ~Tears(st[i], st[j].conn) /\ ~Calls(st[i], st[j].conn)
    /\ \A i \in 1 .. Len(st) : st[i].kind = "cb" =>
          /\ st[i].reply.type # "null" => i = 1
          /\ st[i].at = "resend" => st[i].reply.type = "moved"
    /\ \A i \in 2 .. Len(st) : st[i].kind = "release" => ~st[i].last

-----------------------------------------------------------------------------
(* Nodes and connections. *)

\* A node's connection is live and knows its node; one that is not live holds
\* nothing; the calls are on live connections.
Linked ==
    /\ \A p \in Pointers : node[p].acon # None =>
          ac[node[p].acon].live /\ ac[node[p].acon].data = p
    /\ \A c \in Holders : ~ac[c].live => ac[c] = NoActx /\ link[c] = NoLink
    /\ \A c \in Holders : ac[c].live => ac[c].data # None
    /\ \A i \in 1 .. Len(stack) : stack[i].kind \in {"cb", "teardown"} => ac[stack[i].conn].live

\* The routes refer to nodes that stay, unless acc is being freed.
Ending == freed \/ \E i \in 1 .. Len(stack) : stack[i].kind = "release" /\ stack[i].last

Routed ==
    /\ ~Ending => \A s \in Slots : node[table[s]].host # None
    /\ freed => \A i \in 1 .. Len(stack) : stack[i].kind = "teardown"
    /\ \A i \in 1 .. Len(stack) : stack[i].kind = "release" /\ ~stack[i].last =>
          \A s \in Slots : table[s] \notin stack[i].todo

\* Where a connection is to be freed, or has failed: one that failed at once
\* has nothing to do.
Doomed ==
    \A c \in Holders :
        /\ ac[c].err => \/ TornIn(stack, c)
                        \/ ac[c].queue = <<>> /\ ~(stack # <<>> /\ Calls(stack[1], c))
        /\ ac[c].freeing => TornIn(stack, c) \/ (stack # <<>> /\ Calls(stack[1], c))

\* The address of a node is the one that its connection is to.
Addressed ==
    \A p \in Pointers :
        /\ p \in Nodes => node[p].host \in {None, p}
        /\ node[p].host = None => node[p].acon = None
        /\ p \in Holders => node[p].acon \in {None, p}
        /\ node[p].acon # None => link[node[p].acon].peer = node[p].host

\* Without NOT_REACHED() only a connection that is to be freed has no node.
Kept ==
    ~notReached =>
        \A c \in Holders : ac[c].live =>
            \/ ac[c].data \in Pointers /\ node[ac[c].data].acon = c
            \/ ac[c].data = Dangling /\ ac[c].freeing

-----------------------------------------------------------------------------
(* Commands and their callbacks. *)

\* The replies and the requests on connection l are those that the callbacks of
\* queue q wait for, in order; what is lost is lost from the end.
Match(l, q) ==
    /\ Len(l.in) + Len(l.sent) <= Len(q)
    /\ l.state = "open" => Len(l.in) + Len(l.sent) = Len(q)
    /\ l.state # "open" => l.sent = <<>>
    /\ \A i \in 1 .. Len(l.in) : l.in[i].id = q[i] /\ (l.in[i].op = "cmd" <=> q[i] # 0)
    /\ \A i \in 1 .. Len(l.sent) :
          l.sent[i].id = q[Len(l.in) + i] /\ (l.sent[i].op = "cmd" <=> q[Len(l.in) + i] # 0)

Aligned == \A c \in Holders : ac[c].live /\ ~TornIn(stack, c) => Match(link[c], ac[c].queue)

\* Where the callback of command id is: in calls, or in queues.
Active(f, id) == f.kind = "cb" /\ f.id = id /\ f.at # "user"
Frames(st, id) == {i \in 1 .. Len(st) : Active(st[i], id)}
Spots(cs, id) ==
    {p \in Holders \X (Nat \ {0}) : p[2] <= Len(cs[p[1]].queue) /\ cs[p[1]].queue[p[2]] = id}

Single(S) == \E x \in S : S = {x}

\* It is in one place: it has run, or it runs, or it waits.
InOnePlace(n, F, Q) ==
    \/ n = 1 /\ F = {} /\ Q = {}
    \/ n = 0 /\ Single(F) /\ Q = {}
    \/ n = 0 /\ F = {} /\ Single(Q)

Placed ==
    /\ \A id \in 1 .. Len(issued) : InOnePlace(Len(ran[id]), Frames(stack, id), Spots(ac, id))
    /\ \A id \in Ids : id > Len(issued) =>
          Len(ran[id]) = 0 /\ Frames(stack, id) = {} /\ Spots(ac, id) = {}

\* A reply is given to the callback of its command.
Owned ==
    /\ \A i \in 1 .. Len(stack) :
          stack[i].kind = "cb" /\ stack[i].reply.type # "null" => stack[i].reply.id = stack[i].id
    /\ OwnReply

-----------------------------------------------------------------------------
(* What was executed. *)

WasRun(ex, id) == \E e \in 1 .. Len(ex) : ex[e].id = id

\* What may still be executed, or is sent again, was not executed.
Open(l, ex) ==
    /\ \A i \in 1 .. Len(l.sent) : l.sent[i].op = "cmd" => ~WasRun(ex, l.sent[i].id)
    /\ \A i \in 1 .. Len(l.in) : l.in[i].op = "cmd" /\ l.in[i].type # "ok" => ~WasRun(ex, l.in[i].id)

Once ==
    /\ \A i, j \in 1 .. Len(executed) : executed[i].id = executed[j].id => i = j
    /\ \A e \in 1 .. Len(executed) : executed[e].id \in 1 .. Len(issued)
    /\ \A c \in Holders : ac[c].live /\ ~TornIn(stack, c) => Open(link[c], executed)
    /\ \A i \in 1 .. Len(stack) :
          stack[i].kind = "cb" /\ stack[i].at \in {"start", "resend"}
             /\ stack[i].reply.type \in {"moved", "ask", "again"} => ~WasRun(executed, stack[i].id)

\* Every time that a command is sent is paid for by a redirection.
Paid ==
    /\ \A id \in Ids : sends[id] <= MaxRedirect + 1
    /\ \A id \in Ids : id > Len(issued) => sends[id] = 0 /\ retries[id] = 0
    /\ \A id \in Ids : Spots(ac, id) # {} => sends[id] <= retries[id] + 1
    /\ \A i \in 1 .. Len(stack) : stack[i].kind = "cb" =>
          /\ stack[i].at = "start" => sends[stack[i].id] <= retries[stack[i].id] + 1
          /\ stack[i].at = "resend" => sends[stack[i].id] <= retries[stack[i].id]

Inv ==
    /\ Typed /\ Shaped(stack) /\ Linked /\ Routed /\ Doomed /\ Addressed /\ Kept
    /\ Aligned /\ Placed /\ Owned /\ Once /\ Paid

-----------------------------------------------------------------------------
(* Frames and stacks. *)

LEMMA FrameKind ==
    ASSUME NEW f \in GoodFrame
    PROVE  /\ f.kind \in {"cb", "teardown", "release"}
           /\ f.kind = "cb" <=> f \in CbFrame
           /\ f.kind = "teardown" <=> f \in TearFrame
           /\ f.kind = "release" <=> f \in FreeFrame
<1>1. CASE f \in CbFrame
  <2>1. f.kind = "cb"
    BY <1>1 DEF CbFrame
  <2> QED BY <1>1, <2>1 DEF TearFrame, FreeFrame
<1>2. CASE f \in TearFrame
  <2>1. f.kind = "teardown"
    BY <1>2 DEF TearFrame
  <2> QED BY <1>2, <2>1 DEF CbFrame, FreeFrame
<1>3. CASE f \in FreeFrame
  <2>1. f.kind = "release"
    BY <1>3 DEF FreeFrame
  <2> QED BY <1>3, <2>1 DEF TearFrame, CbFrame
<1> QED BY <1>1, <1>2, <1>3 DEF GoodFrame

LEMMA FrameTypes ==
    /\ \A c \in Holders : Teardown(c) \in TearFrame /\ Teardown(c) \in GoodFrame
                          /\ Teardown(c).kind = "teardown" /\ Teardown(c).conn = c
    /\ \A ks \in SUBSET Keys, b \in BOOLEAN : Release(ks, b) \in FreeFrame /\ Release(ks, b) \in GoodFrame
                          /\ Release(ks, b).kind = "release" /\ Release(ks, b).todo = ks /\ Release(ks, b).last = b
    /\ \A c \in Holders, id \in Ids, r \in GoodAnswer :
          /\ Callback(c, id, r) \in CbFrame /\ Callback(c, id, r) \in GoodFrame
          /\ Callback(c, id, r).kind = "cb" /\ Callback(c, id, r).conn = c
          /\ Callback(c, id, r).id = id /\ Callback(c, id, r).reply = r /\ Callback(c, id, r).at = "start"
<1>1. ASSUME NEW c \in Holders PROVE Teardown(c) \in TearFrame
  BY DEF Teardown, TearFrame
<1>2. ASSUME NEW ks \in SUBSET Keys, NEW b \in BOOLEAN PROVE Release(ks, b) \in FreeFrame
  BY DEF Release, FreeFrame
<1>3. ASSUME NEW c \in Holders, NEW id \in Ids, NEW r \in GoodAnswer PROVE Callback(c, id, r) \in CbFrame
  BY SMTT(30) DEF Callback, CbFrame
<1> QED BY <1>1, <1>2, <1>3 DEF GoodFrame, Teardown, Release, Callback

LEMMA ReplaceTop ==
    ASSUME NEW st \in Seq(GoodFrame), st # <<>>, NEW f \in GoodFrame
    PROVE  /\ Len(st) \in Nat \ {0}
           /\ [st EXCEPT ![Len(st)] = f] \in Seq(GoodFrame)
           /\ Len([st EXCEPT ![Len(st)] = f]) = Len(st)
           /\ \A i \in 1 .. Len(st) - 1 : [st EXCEPT ![Len(st)] = f][i] = st[i]
           /\ [st EXCEPT ![Len(st)] = f][Len(st)] = f
           /\ \A i \in 1 .. Len(st) : i \in 1 .. Len(st) - 1 \/ i = Len(st)
<1>1. Len(st) \in Nat \ {0}
  BY TailFacts
<1> HIDE DEF GoodFrame
<1>2. [st EXCEPT ![Len(st)] = f] \in Seq(GoodFrame) /\ Len([st EXCEPT ![Len(st)] = f]) = Len(st)
  OBVIOUS
<1>3. /\ \A i \in 1 .. Len(st) - 1 : [st EXCEPT ![Len(st)] = f][i] = st[i]
      /\ [st EXCEPT ![Len(st)] = f][Len(st)] = f
  BY <1>1
<1>4. \A i \in 1 .. Len(st) : i \in 1 .. Len(st) - 1 \/ i = Len(st)
  BY <1>1
<1> QED BY <1>1, <1>2, <1>3, <1>4

LEMMA PopFacts ==
    ASSUME NEW st \in Seq(GoodFrame), st # <<>>
    PROVE  /\ Len(st) \in Nat \ {0}
           /\ SubSeq(st, 1, Len(st) - 1) \in Seq(GoodFrame)
           /\ Len(SubSeq(st, 1, Len(st) - 1)) = Len(st) - 1
           /\ \A i \in 1 .. Len(st) - 1 : SubSeq(st, 1, Len(st) - 1)[i] = st[i]
           /\ \A i \in 1 .. Len(st) : i \in 1 .. Len(st) - 1 \/ i = Len(st)
<1>1. Len(st) \in Nat \ {0}
  BY TailFacts
<1>2. Len(st) - 1 \in 0 .. Len(st) /\ \A i \in 1 .. Len(st) : i \in 1 .. Len(st) - 1 \/ i = Len(st)
  BY <1>1
<1>3. /\ SubSeq(st, 1, Len(st) - 1) \in Seq(GoodFrame)
      /\ Len(SubSeq(st, 1, Len(st) - 1)) = Len(st) - 1
      /\ \A i \in 1 .. Len(st) - 1 : SubSeq(st, 1, Len(st) - 1)[i] = st[i]
  BY ZenonT(60), <1>2, CutFacts
<1> QED BY <1>1, <1>2, <1>3

\* The call on top of the stack goes on, with the same connection.
LEMMA ReplaceShaped ==
    ASSUME NEW st \in Seq(GoodFrame), st # <<>>, Shaped(st), NEW f \in GoodFrame,
           f.kind = st[Len(st)].kind, f.kind # "teardown",
           f.kind = "cb" => /\ f.conn = st[Len(st)].conn
                            /\ f.reply.type # "null" => st[Len(st)].reply.type # "null"
                            /\ f.at = "resend" => f.reply.type = "moved",
           f.kind = "release" => f.last = st[Len(st)].last
    PROVE  /\ Shaped([st EXCEPT ![Len(st)] = f])
           /\ \A c : TornIn([st EXCEPT ![Len(st)] = f], c) <=> TornIn(st, c)
<1> DEFINE n == Len(st)
<1>1. PICK u : u = [st EXCEPT ![n] = f]
  OBVIOUS
<1>2. /\ n \in Nat \ {0} /\ Len(u) = n /\ \A i \in 1 .. n - 1 : u[i] = st[i]
      /\ u[n] = f /\ \A i \in 1 .. n : i \in 1 .. n - 1 \/ i = n
  BY <1>1, ReplaceTop
<1> HIDE DEF n
<1>3. \A i \in 1 .. n : /\ u[i].kind = st[i].kind
                        /\ u[i].kind \in {"cb", "teardown"} => u[i].conn = st[i].conn
                        /\ u[i].kind = "release" => u[i].last = st[i].last
                        /\ u[i].kind = "cb" /\ u[i].reply.type # "null" => st[i].reply.type # "null"
                        /\ u[i].kind = "cb" /\ u[i].at = "resend" =>
                              u[i].reply.type = "moved" \/ (st[i].at = "resend" /\ u[i].reply = st[i].reply)
  BY <1>2 DEF n
<1>4. \A i \in 1 .. n : \A c : (Tears(u[i], c) <=> Tears(st[i], c)) /\ (Calls(u[i], c) <=> Calls(st[i], c))
  BY <1>3 DEF Tears, Calls
<1>5. \A c : TornIn(u, c) <=> TornIn(st, c)
  BY <1>2, <1>4 DEF TornIn, n
<1>6. \A i \in 1 .. n - 1 : u[i].kind = "teardown" => Calls(u[i + 1], u[i].conn)
  <2>1. \A i \in 1 .. n - 1 : i \in 1 .. n /\ i + 1 \in 1 .. n
    BY <1>2
  <2> QED BY <1>3, <1>4, <2>1 DEF Shaped, n
<1>7. \A i \in 2 .. n : u[i].kind = "cb" => Tears(u[i - 1], u[i].conn)
  <2>1. \A i \in 2 .. n : i \in 1 .. n /\ i - 1 \in 1 .. n
    BY <1>2
  <2> QED BY <1>3, <1>4, <2>1 DEF Shaped, n
<1>8. \A i, j \in 1 .. n : i < j /\ u[j].kind = "teardown" =>
          ~Tears(u[i], u[j].conn) /\ ~Calls(u[i], u[j].conn)
  BY <1>3, <1>4 DEF Shaped, n
<1>9. \A i \in 1 .. n : u[i].kind = "cb" =>
          /\ u[i].reply.type # "null" => i = 1
          /\ u[i].at = "resend" => u[i].reply.type = "moved"
  BY <1>3 DEF Shaped, n
<1>10. \A i \in 2 .. n : u[i].kind = "release" => ~u[i].last
  <2>1. \A i \in 2 .. n : i \in 1 .. n
    BY <1>2
  <2> QED BY <1>3, <2>1 DEF Shaped, n
<1>11. Shaped(u)
  BY <1>2, <1>6, <1>7, <1>8, <1>9, <1>10 DEF Shaped
<1> QED BY <1>1, <1>5, <1>11 DEF n

\* The call on top of the stack returns.
LEMMA PopShaped ==
    ASSUME NEW st \in Seq(GoodFrame), st # <<>>, Shaped(st)
    PROVE  /\ Shaped(SubSeq(st, 1, Len(st) - 1))
           /\ \A c : TornIn(st, c) <=> TornIn(SubSeq(st, 1, Len(st) - 1), c) \/ Tears(st[Len(st)], c)
<1> DEFINE n == Len(st)
<1>1. PICK u : u = SubSeq(st, 1, n - 1)
  OBVIOUS
<1>2. /\ n \in Nat \ {0} /\ Len(u) = n - 1 /\ \A i \in 1 .. n - 1 : u[i] = st[i]
      /\ \A i \in 1 .. n : i \in 1 .. n - 1 \/ i = n
  BY <1>1, PopFacts
<1> HIDE DEF n
<1>3. \A c : TornIn(st, c) <=> TornIn(u, c) \/ Tears(st[n], c)
  BY <1>2 DEF TornIn, n
<1>4. Shaped(u)
  <2>1. /\ \A i \in 1 .. (n - 1) - 1 : i \in 1 .. n - 1 /\ i + 1 \in 1 .. n - 1
        /\ \A i \in 2 .. n - 1 : i \in 1 .. n - 1 /\ i - 1 \in 1 .. n - 1 /\ i \in 2 .. n
        /\ \A i \in 1 .. n - 1 : i \in 1 .. n
    BY <1>2
  <2>2. \A i \in 1 .. (n - 1) - 1 : u[i].kind = "teardown" => Calls(u[i + 1], u[i].conn)
    BY <1>2, <2>1 DEF Shaped, n
  <2>3. \A i \in 2 .. n - 1 : u[i].kind = "cb" => Tears(u[i - 1], u[i].conn)
    BY <1>2, <2>1 DEF Shaped, n
  <2>4. \A i, j \in 1 .. n - 1 : i < j /\ u[j].kind = "teardown" =>
            ~Tears(u[i], u[j].conn) /\ ~Calls(u[i], u[j].conn)
    BY <1>2, <2>1 DEF Shaped, n
  <2>5. /\ \A i \in 1 .. n - 1 : u[i].kind = "cb" =>
              /\ u[i].reply.type # "null" => i = 1
              /\ u[i].at = "resend" => u[i].reply.type = "moved"
        /\ \A i \in 2 .. n - 1 : u[i].kind = "release" => ~u[i].last
    BY <1>2, <2>1 DEF Shaped, n
  <2> QED BY <1>2, <2>2, <2>3, <2>4, <2>5 DEF Shaped
<1> QED BY <1>1, <1>3, <1>4 DEF n

\* A call is made: __redisAsyncFree from the event loop or from dictRelease, a
\* callback from the event loop or from __redisAsyncFree, dictRelease from a callback.
LEMMA PushShaped ==
    ASSUME NEW st \in Seq(GoodFrame), Shaped(st), NEW f \in GoodFrame,
           f.kind = "teardown" => /\ st = <<>> \/ st[Len(st)].kind = "release"
                                  /\ \A i \in 1 .. Len(st) : ~Calls(st[i], f.conn),
           f.kind = "cb" => /\ st # <<>> => Tears(st[Len(st)], f.conn) /\ f.reply.type = "null"
                            /\ f.at = "start",
           f.kind = "release" => (st # <<>> => ~f.last /\ st[Len(st)].kind = "cb")
    PROVE  /\ Shaped(Append(st, f))
           /\ \A c : TornIn(Append(st, f), c) <=> TornIn(st, c) \/ Tears(f, c)
<1> DEFINE n == Len(st)
<1>1. PICK u : u = Append(st, f)
  OBVIOUS
<1>2. /\ n \in Nat /\ Len(u) = n + 1 /\ \A i \in 1 .. n : u[i] = st[i]
      /\ u[n + 1] = f /\ \A i \in 1 .. n + 1 : i \in 1 .. n \/ i = n + 1
  BY <1>1, AppendFacts
<1>3. n # 0 <=> st # <<>>
  BY EmptyList
<1> HIDE DEF n
<1>4. \A c : TornIn(u, c) <=> TornIn(st, c) \/ Tears(f, c)
  BY <1>2 DEF TornIn, n
<1>5. \A i \in 1 .. (n + 1) - 1 : u[i].kind = "teardown" => Calls(u[i + 1], u[i].conn)
  <2> SUFFICES ASSUME NEW i \in 1 .. n, u[i].kind = "teardown" PROVE Calls(u[i + 1], u[i].conn)
    BY <1>2
  <2>1. CASE i = n
    <3>1. st[n].kind = "teardown" /\ st # <<>> /\ u[i] = st[n] /\ u[i + 1] = f
      BY <1>2, <1>3, <2>1
    <3>2. f.kind = "cb" /\ Tears(st[n], f.conn)
      BY <3>1, FrameKind DEF n
    <3> QED BY <3>1, <3>2 DEF Calls, Tears
  <2>2. CASE i # n
    <3>1. i \in 1 .. n - 1 /\ i + 1 \in 1 .. n
      BY <1>2, <2>2
    <3> QED BY <1>2, <3>1 DEF Shaped, n
  <2> QED BY <2>1, <2>2
<1>6. \A i \in 2 .. n + 1 : u[i].kind = "cb" => Tears(u[i - 1], u[i].conn)
  <2> SUFFICES ASSUME NEW i \in 2 .. n + 1, u[i].kind = "cb" PROVE Tears(u[i - 1], u[i].conn)
    OBVIOUS
  <2>1. CASE i = n + 1
    <3>1. i - 1 = n /\ n \in 1 .. n /\ n # 0
      BY <1>2, <2>1
    <3> QED BY <1>2, <1>3, <2>1, <3>1 DEF n
  <2>2. CASE i # n + 1
    <3>1. i \in 2 .. n /\ i - 1 \in 1 .. n /\ i \in 1 .. n
      BY <1>2, <2>2
    <3> QED BY <1>2, <3>1 DEF Shaped, n
  <2> QED BY <2>1, <2>2
<1>7. \A i, j \in 1 .. n + 1 : i < j /\ u[j].kind = "teardown" =>
            ~Tears(u[i], u[j].conn) /\ ~Calls(u[i], u[j].conn)
  <2> SUFFICES ASSUME NEW i \in 1 .. n + 1, NEW j \in 1 .. n + 1, i < j, u[j].kind = "teardown"
               PROVE  ~Tears(u[i], u[j].conn) /\ ~Calls(u[i], u[j].conn)
    OBVIOUS
  <2>0. i \in 1 .. n
    BY <1>2
  <2>1. CASE j = n + 1
    <3>1. st[n].kind = "release" /\ \A x \in 1 .. n : ~Calls(st[x], f.conn)
      BY <1>2, <1>3, <2>0, <2>1 DEF n
    <3>2. ASSUME Tears(st[i], f.conn) PROVE FALSE
      <4>1. i # n /\ st[i].kind = "teardown" /\ st[i].conn = f.conn
        BY <3>1, <3>2 DEF Tears
      <4>2. i \in 1 .. n - 1 /\ i + 1 \in 1 .. n
        BY <1>2, <2>0, <4>1
      <4>3. Calls(st[i + 1], f.conn)
        BY <4>1, <4>2 DEF Shaped, n
      <4> QED BY <3>1, <4>2, <4>3
    <3> QED BY <1>2, <2>0, <2>1, <3>1, <3>2
  <2>2. CASE j # n + 1
    BY <1>2, <2>0, <2>2 DEF Shaped, n
  <2> QED BY <2>1, <2>2
<1>8. \A i \in 1 .. n + 1 : u[i].kind = "cb" =>
              /\ u[i].reply.type # "null" => i = 1
              /\ u[i].at = "resend" => u[i].reply.type = "moved"
  <2>1. \A i \in 1 .. n : u[i].kind = "cb" =>
              /\ u[i].reply.type # "null" => i = 1
              /\ u[i].at = "resend" => u[i].reply.type = "moved"
    BY <1>2 DEF Shaped, n
  <2>2. u[n + 1].kind = "cb" =>
              /\ u[n + 1].reply.type # "null" => n + 1 = 1
              /\ u[n + 1].at # "resend"
    BY <1>2, <1>3
  <2> QED BY <1>2, <2>1, <2>2
<1>9. \A i \in 2 .. n + 1 : u[i].kind = "release" => ~u[i].last
  <2> SUFFICES ASSUME NEW i \in 2 .. n + 1, u[i].kind = "release" PROVE ~u[i].last
    OBVIOUS
  <2>1. i = n + 1 => n # 0
    BY <1>2
  <2>2. i # n + 1 => i \in 2 .. n /\ i \in 1 .. n
    BY <1>2
  <2> QED BY <1>2, <1>3, <2>1, <2>2 DEF Shaped, n
<1>10. Shaped(u)
  BY <1>2, <1>5, <1>6, <1>7, <1>8, <1>9 DEF Shaped
<1> QED BY <1>1, <1>4, <1>10 DEF n

-----------------------------------------------------------------------------
(* Where the callback of a command is. *)

LEMMA FramesReplace ==
    ASSUME NEW st \in Seq(GoodFrame), st # <<>>, NEW f \in GoodFrame, NEW id
    PROVE  /\ (Active(f, id) <=> Active(st[Len(st)], id)) =>
                 Frames([st EXCEPT ![Len(st)] = f], id) = Frames(st, id)
           /\ ~Active(f, id) => Frames([st EXCEPT ![Len(st)] = f], id) = Frames(st, id) \ {Len(st)}
<1> DEFINE n == Len(st)
<1>1. PICK u : u = [st EXCEPT ![n] = f]
  OBVIOUS
<1>2. /\ n \in Nat \ {0} /\ Len(u) = n /\ \A i \in 1 .. n - 1 : u[i] = st[i]
      /\ u[n] = f /\ \A i \in 1 .. n : i \in 1 .. n - 1 \/ i = n
  BY <1>1, ReplaceTop
<1>3. n \in 1 .. n /\ \A i \in 1 .. n - 1 : i \in 1 .. n /\ i # n
  BY <1>2
<1>4. /\ (Active(f, id) <=> Active(st[n], id)) => Frames(u, id) = Frames(st, id)
      /\ ~Active(f, id) => Frames(u, id) = Frames(st, id) \ {n}
  <2> HIDE DEF n
  <2> QED BY <1>2, <1>3 DEF Frames, n
<1> QED BY <1>1, <1>4

LEMMA FramesPop ==
    ASSUME NEW st \in Seq(GoodFrame), st # <<>>, NEW id
    PROVE  Frames(SubSeq(st, 1, Len(st) - 1), id) = Frames(st, id) \ {Len(st)}
<1> DEFINE n == Len(st)
<1>1. PICK u : u = SubSeq(st, 1, n - 1)
  OBVIOUS
<1>2. /\ n \in Nat \ {0} /\ Len(u) = n - 1 /\ \A i \in 1 .. n - 1 : u[i] = st[i]
      /\ \A i \in 1 .. n : i \in 1 .. n - 1 \/ i = n
  BY <1>1, PopFacts
<1>3. n \in 1 .. n /\ \A i \in 1 .. n - 1 : i \in 1 .. n /\ i # n
  BY <1>2
<1>4. Frames(u, id) = Frames(st, id) \ {n}
  <2> HIDE DEF n
  <2> QED BY <1>2, <1>3 DEF Frames, n
<1> QED BY <1>1, <1>4

LEMMA FramesPush ==
    ASSUME NEW st \in Seq(GoodFrame), NEW f \in GoodFrame, NEW id
    PROVE  /\ ~Active(f, id) => Frames(Append(st, f), id) = Frames(st, id)
           /\ Active(f, id) => Frames(Append(st, f), id) = Frames(st, id) \cup {Len(st) + 1}
<1> DEFINE n == Len(st)
<1>1. PICK u : u = Append(st, f)
  OBVIOUS
<1>2. /\ n \in Nat /\ Len(u) = n + 1 /\ \A i \in 1 .. n : u[i] = st[i]
      /\ u[n + 1] = f /\ \A i \in 1 .. n + 1 : i \in 1 .. n \/ i = n + 1
  BY <1>1, AppendFacts
<1>3. n + 1 \in 1 .. n + 1 /\ \A i \in 1 .. n : i \in 1 .. n + 1
  BY <1>2
<1>4. /\ ~Active(f, id) => Frames(u, id) = Frames(st, id)
      /\ Active(f, id) => Frames(u, id) = Frames(st, id) \cup {n + 1}
  <2> HIDE DEF n
  <2> QED BY <1>2, <1>3 DEF Frames, n
<1> QED BY <1>1, <1>4

LEMMA SpotsSame ==
    ASSUME NEW cs, NEW ds, \A c \in Holders : ds[c].queue = cs[c].queue, NEW id
    PROVE  Spots(ds, id) = Spots(cs, id)
  BY DEF Spots

LEMMA Lists ==
    ASSUME NEW m \in Nat, NEW x \in 0 .. m
    PROVE  /\ <<x>> \in Seq(0 .. m) /\ Len(<<x>>) = 1 /\ <<x>>[1] = x
           /\ <<0, x>> \in Seq(0 .. m) /\ Len(<<0, x>>) = 2 /\ <<0, x>>[2] = x /\ <<0, x>>[1] = 0
  OBVIOUS

\* The callbacks of a command that is sent.
Behind(asking, id) == IF asking THEN <<0, id>> ELSE <<id>>

\* They are put at the end of list q of connection c.
Grown(cs, ds, c, q, asking, id) ==
    /\ cs[c].queue = q /\ ds[c].queue = q \o Behind(asking, id)
    /\ \A x \in Holders \ {c} : ds[x].queue = cs[x].queue

LEMMA SpotsAdd ==
    ASSUME NEW cs, NEW ds, NEW c \in Holders, NEW q \in Seq(0 .. MaxCalls), NEW asking \in BOOLEAN, NEW new \in Ids,
           Grown(cs, ds, c, q, asking, new), NEW id \in Ids
    PROVE  /\ id # new => Spots(ds, id) = Spots(cs, id)
           /\ Spots(cs, new) = {} => Single(Spots(ds, new))
           /\ ds[c].queue \in Seq(0 .. MaxCalls)
<1> USE DEF Behind, Grown
<1> DEFINE t == Behind(asking, new)
           n == Len(q)
           m == n + Len(t)
           u == q \o t
<1>0. MaxCalls \in Nat /\ id \in 0 .. MaxCalls /\ new \in 0 .. MaxCalls /\ new # 0 /\ id # 0 /\ n \in Nat
  BY AsyncAssumption DEF Ids
<1>1. PICK k \in Nat : /\ t \in Seq(0 .. MaxCalls) /\ k = Len(t) /\ (k = 1 \/ k = 2)
                       /\ t[k] = new /\ (k = 2 => t[1] = 0)
  <2>1. CASE asking
    <3>1. t = <<0, new>>
      BY <2>1
    <3> HIDE DEF t
    <3>2. t \in Seq(0 .. MaxCalls) /\ Len(t) = 2 /\ t[2] = new /\ t[1] = 0
      BY <1>0, <3>1, Lists
    <3> QED BY <3>2
  <2>2. CASE ~asking
    <3>1. t = <<new>>
      BY <2>2
    <3> HIDE DEF t
    <3>2. t \in Seq(0 .. MaxCalls) /\ Len(t) = 1 /\ t[1] = new
      BY <1>0, <3>1, Lists
    <3> QED BY <3>2
  <2> QED BY <2>1, <2>2
<1> HIDE DEF t
<1>2. /\ u \in Seq(0 .. MaxCalls) /\ Len(u) = m /\ \A i \in 1 .. n : u[i] = q[i]
      /\ \A i \in 1 .. Len(t) : u[n + i] = t[i]
  BY <1>1, ConcatFacts
<1> HIDE DEF u, n
<1>2a. m = n + k
  BY <1>1
<1> HIDE DEF m
<1>3. m \in Nat \ {0} /\ m > n /\ (m = n + 1 \/ m = n + 2) /\ m = n + k
  <2>1. k = 1 \/ k = 2
    BY <1>1
  <2> QED BY <1>0, <1>2a, <2>1
<1>4. u[m] = new
  <2>1. k \in 1 .. k
    BY <1>1
  <2> QED BY <1>1, <1>2, <1>3, <2>1
<1>5. ASSUME NEW j \in Nat \ {0}
      PROVE  /\ j <= n => j <= m /\ u[j] = q[j]
             /\ j <= m /\ j > n /\ j # m => u[j] = 0
  <2>1. CASE j <= n
    BY SMTT(30), <1>0, <1>2, <1>3, <2>1
  <2>2. CASE j <= m /\ j > n /\ j # m
    <3>1. j = n + 1 /\ k = 2 /\ 1 \in 1 .. k
      BY SMTT(30), <1>0, <1>1, <1>3, <2>2
    <3> QED BY SMTT(30), <1>0, <1>1, <1>2, <2>2, <3>1
  <2>3. CASE ~(j <= n) /\ ~(j <= m /\ j > n /\ j # m)
    BY <2>3
  <2> QED BY <2>1, <2>2, <2>3
<1>6. ds[c].queue = u /\ Len(u) = m
  BY <1>2 DEF u, t
<1>7. ASSUME NEW x \in Holders, NEW j \in Nat \ {0}
      PROVE  /\ (j <= Len(ds[x].queue) /\ ds[x].queue[j] = id) /\ id # new
                <=> (j <= Len(cs[x].queue) /\ cs[x].queue[j] = id) /\ id # new
             /\ (j <= Len(ds[x].queue) /\ ds[x].queue[j] = new)
                <=> (j <= Len(cs[x].queue) /\ cs[x].queue[j] = new) \/ (x = c /\ j = m)
  <2>1. CASE x # c
    BY <2>1
  <2>2. CASE x = c
    <3>1. CASE j <= n
      <4>1. j # m /\ j <= m /\ u[j] = q[j]
        BY <1>0, <1>3, <1>5, <3>1
      <4>2. ds[x].queue = u /\ Len(ds[x].queue) = m /\ cs[x].queue = q /\ j <= Len(cs[x].queue)
        BY <1>6, <2>2, <3>1 DEF n
      <4> QED BY <4>1, <4>2
    <3>2. CASE j > n
      <4>1. ~(j <= Len(cs[x].queue))
        BY <1>0, <2>2, <3>2 DEF n
      <4>2. j <= m => (j = m /\ u[j] = new) \/ (j # m /\ u[j] = 0)
        BY <1>4, <1>5, <3>2
      <4>3. ds[x].queue = u /\ Len(ds[x].queue) = m /\ (j = m => j <= m)
        BY <1>3, <1>6, <2>2
      <4> QED BY <1>0, <2>2, <4>1, <4>2, <4>3
    <3> QED BY <1>0, <3>1, <3>2
  <2> QED BY <2>1, <2>2
<1>8. id # new => Spots(ds, id) = Spots(cs, id)
  BY <1>7 DEF Spots
<1>9. Spots(ds, new) = Spots(cs, new) \cup {<<c, m>>}
  <2>1. ASSUME NEW p \in Holders \X (Nat \ {0})
        PROVE  p \in Spots(ds, new) <=> p \in Spots(cs, new) \/ p = <<c, m>>
    <3>1. p = <<p[1], p[2]>> /\ p[1] \in Holders /\ p[2] \in Nat \ {0}
      OBVIOUS
    <3>2. (p[1] = c /\ p[2] = m) <=> p = <<c, m>>
      BY <3>1
    <3> QED BY <1>7, <3>1, <3>2 DEF Spots
  <2>2. Spots(ds, new) \subseteq Holders \X (Nat \ {0}) /\ Spots(cs, new) \subseteq Holders \X (Nat \ {0})
    BY DEF Spots
  <2>3. <<c, m>> \in Holders \X (Nat \ {0})
    BY <1>3
  <2> QED BY <2>1, <2>2, <2>3
<1> QED BY <1>2, <1>6, <1>8, <1>9 DEF Single

\* The callback at the head of a list is taken.
Shrunk(cs, ds, c, q) ==
    /\ cs[c].queue = q /\ ds[c].queue = Tail(q)
    /\ \A x \in Holders \ {c} : ds[x].queue = cs[x].queue

\* What is left for command id when callback h is taken.
SpotsLeft(cs, ds, h, id) ==
    /\ Spots(cs, id) = {} => Spots(ds, id) = {}
    /\ Single(Spots(cs, id)) /\ id # h => Single(Spots(ds, id))
    /\ Single(Spots(cs, id)) /\ id = h => Spots(ds, id) = {}
    /\ id = h => Spots(cs, id) # {}
    /\ Spots(ds, id) # {} => Spots(cs, id) # {}

LEMMA SpotsTail ==
    ASSUME NEW cs, NEW ds, NEW c \in Holders, NEW q \in Seq(0 .. MaxCalls), q # <<>>,
           Shrunk(cs, ds, c, q), NEW id
    PROVE  SpotsLeft(cs, ds, Head(q), id)
<1> USE DEF Shrunk
<1> DEFINE n == Len(q)
           u == Tail(q)
<1>1. /\ n \in Nat \ {0} /\ Head(q) = q[1] /\ Len(u) = n - 1
      /\ \A i \in 1 .. n - 1 : u[i] = q[i + 1]
  BY TailFacts
<1> HIDE DEF n, u
<1>2. ASSUME NEW x \in Holders, NEW j \in Nat \ {0}
      PROVE  /\ x # c => (<<x, j>> \in Spots(ds, id) <=> <<x, j>> \in Spots(cs, id))
             /\ x = c => (<<x, j>> \in Spots(ds, id) <=> <<x, j + 1>> \in Spots(cs, id))
  <2>1. CASE x # c
    BY <2>1 DEF Spots
  <2>2. CASE x = c
    <3>1. j + 1 \in Nat \ {0}
      OBVIOUS
    <3>2. <<x, j>> \in Spots(ds, id) <=> j <= Len(u) /\ u[j] = id
      BY <2>2 DEF Spots, u
    <3>3. <<x, j + 1>> \in Spots(cs, id) <=> j + 1 <= n /\ q[j + 1] = id
      BY <2>2, <3>1 DEF Spots, n
    <3>4. j <= Len(u) <=> j + 1 <= n
      BY <1>1
    <3>5. j <= Len(u) => u[j] = q[j + 1]
      BY <1>1
    <3> QED BY <2>2, <3>2, <3>3, <3>4, <3>5
  <2> QED BY <2>1, <2>2
<1>3. <<c, 1>> \in Spots(cs, id) <=> id = Head(q)
  BY <1>1 DEF Spots, n
<1>4. \A p \in Spots(ds, id) : p[1] \in Holders /\ p[2] \in Nat \ {0} /\ p = <<p[1], p[2]>>
  BY DEF Spots
<1>5. \A p \in Spots(cs, id) : p[1] \in Holders /\ p[2] \in Nat \ {0} /\ p = <<p[1], p[2]>>
  BY DEF Spots
<1>6. \A p \in Spots(ds, id) : IF p[1] = c THEN <<c, p[2] + 1>> \in Spots(cs, id) ELSE p \in Spots(cs, id)
  BY ZenonT(60), <1>2, <1>4
<1>7. \A p \in Spots(cs, id) : id # Head(q) /\ p[1] = c => p[2] # 1
  BY <1>3, <1>5
<1>8. \A p \in Spots(cs, id) : id # Head(q) =>
         IF p[1] = c THEN p[2] - 1 \in Nat \ {0} /\ <<c, p[2] - 1>> \in Spots(ds, id) ELSE p \in Spots(ds, id)
  <2> SUFFICES ASSUME NEW p \in Spots(cs, id), id # Head(q)
               PROVE  IF p[1] = c THEN p[2] - 1 \in Nat \ {0} /\ <<c, p[2] - 1>> \in Spots(ds, id)
                      ELSE p \in Spots(ds, id)
    OBVIOUS
  <2>1. CASE p[1] = c
    <3>1. p[2] - 1 \in Nat \ {0} /\ (p[2] - 1) + 1 = p[2]
      BY <1>5, <1>7, <2>1
    <3>2. <<c, (p[2] - 1) + 1>> \in Spots(cs, id)
      BY <1>5, <2>1, <3>1
    <3>3. <<c, p[2] - 1>> \in Spots(ds, id)
      BY <1>2, <3>1, <3>2
    <3> QED BY <2>1, <3>1, <3>3
  <2>2. CASE p[1] # c
    BY <1>2, <1>5, <2>2
  <2> QED BY <2>1, <2>2
<1>9. ASSUME Single(Spots(cs, id)), id # Head(q) PROVE Single(Spots(ds, id))
  <2>1. PICK p \in Spots(cs, id) : Spots(cs, id) = {p}
    BY <1>9 DEF Single
  <2>2. PICK r \in Spots(ds, id) : r = IF p[1] = c THEN <<c, p[2] - 1>> ELSE p
    BY <1>8, <1>9
  <2>3. ASSUME NEW s \in Spots(ds, id) PROVE s = r
    <3>1. CASE s[1] = c
      <4>1. p = <<c, s[2] + 1>> /\ s[2] \in Nat /\ s = <<c, s[2]>>
        BY <1>4, <1>6, <2>1, <3>1
      <4>2. p[1] = c /\ p[2] - 1 = s[2]
        BY <4>1
      <4> QED BY <2>2, <4>1, <4>2
    <3>2. CASE s[1] # c
      BY <1>6, <2>1, <2>2, <3>2
    <3> QED BY <3>1, <3>2
  <2> QED BY <2>2, <2>3 DEF Single
<1>10. ASSUME Single(Spots(cs, id)), id = Head(q), NEW s \in Spots(ds, id) PROVE FALSE
  <2>1. Spots(cs, id) = {<<c, 1>>}
    BY <1>3, <1>10 DEF Single
  <2>2. CASE s[1] = c
    <3>1. <<c, s[2] + 1>> = <<c, 1>> /\ s[2] \in Nat \ {0}
      BY <1>4, <1>6, <2>1, <2>2
    <3>2. s[2] + 1 = 1
      BY <3>1
    <3> QED BY <3>1, <3>2
  <2>3. CASE s[1] # c
    BY <1>6, <2>1, <2>3
  <2> QED BY <2>2, <2>3
<1>11. Spots(cs, id) = {} => Spots(ds, id) = {}
  BY <1>6
<1> QED BY <1>3, <1>9, <1>10, <1>11 DEF SpotsLeft

-----------------------------------------------------------------------------
(* What is on a connection. *)

LEMMA LinkLists ==
    ASSUME NEW l \in GoodLink
    PROVE  /\ l.in \in Seq(GoodReply) /\ l.sent \in Seq(Request)
           /\ Len(l.in) \in Nat /\ Len(l.sent) \in Nat
<1>1. l.in \in Seq(GoodReply) /\ l.sent \in Seq(Request)
  BY DEF GoodLink
<1> QED BY <1>1

LEMMA AddedFacts ==
    ASSUME NEW l \in GoodLink, NEW rs \in Seq(Request)
    PROVE  /\ Added(l, rs) \in GoodLink
           /\ Added(l, rs).state = l.state /\ Added(l, rs).peer = l.peer /\ Added(l, rs).in = l.in
           /\ Added(l, rs).sent = IF l.state = "open" THEN l.sent \o rs ELSE l.sent
<1>1. l.sent \o rs \in Seq(Request)
  BY LinkLists, ConcatType
<1>2. CASE l.state = "open"
  <2>1. Added(l, rs) = [l EXCEPT !.sent = l.sent \o rs]
    BY <1>2 DEF Added
  <2> QED BY <1>1, <1>2, <2>1 DEF GoodLink
<1>3. CASE l.state # "open"
  BY <1>3 DEF Added
<1> QED BY <1>2, <1>3

LEMMA SentFacts ==
    ASSUME NEW l \in GoodLink, NEW rs \in Seq(Request)
    PROVE  /\ Len(l.sent \o rs) = Len(l.sent) + Len(rs)
           /\ \A i \in 1 .. Len(l.sent) : (l.sent \o rs)[i] = l.sent[i]
           /\ \A i \in 1 .. Len(rs) : (l.sent \o rs)[Len(l.sent) + i] = rs[i]
<1>1. l.sent \in Seq(Request)
  BY LinkLists
<1> QED BY <1>1, ConcatFacts

LEMMA MatchAdded ==
    ASSUME NEW l \in GoodLink, NEW q \in Seq(0 .. MaxCalls), Match(l, q),
           NEW rs \in Seq(Request), NEW t \in Seq(0 .. MaxCalls), Len(rs) = Len(t),
           \A i \in 1 .. Len(rs) : rs[i].id = t[i] /\ (rs[i].op = "cmd" <=> t[i] # 0)
    PROVE  Match(Added(l, rs), q \o t)
<1> DEFINE i0 == Len(l.in)
           s0 == Len(l.sent)
           n == Len(q)
           k == Len(t)
<1>0. i0 \in Nat /\ s0 \in Nat /\ n \in Nat /\ k \in Nat /\ l.sent \in Seq(Request)
  BY LinkLists
<1>1. PICK m : m = Added(l, rs)
  OBVIOUS
<1>2. /\ m.state = l.state /\ m.in = l.in
      /\ m.sent = IF l.state = "open" THEN l.sent \o rs ELSE l.sent
  BY <1>1, AddedFacts
<1>3. PICK u : u = q \o t
  OBVIOUS
<1>4. /\ Len(u) = n + k /\ \A i \in 1 .. n : u[i] = q[i]
      /\ \A i \in 1 .. k : u[n + i] = t[i]
  BY <1>3, ConcatFacts
<1>5. /\ i0 + s0 <= n /\ (l.state = "open" => i0 + s0 = n) /\ (l.state # "open" => l.sent = <<>>)
      /\ \A i \in 1 .. i0 : l.in[i].id = q[i] /\ (l.in[i].op = "cmd" <=> q[i] # 0)
      /\ \A i \in 1 .. s0 : l.sent[i].id = q[i0 + i] /\ (l.sent[i].op = "cmd" <=> q[i0 + i] # 0)
  BY DEF Match
<1>6. l.state = "open" => /\ Len(m.sent) = s0 + k /\ \A i \in 1 .. s0 : m.sent[i] = l.sent[i]
                          /\ \A i \in 1 .. k : m.sent[s0 + i] = rs[i]
  <2>1. CASE l.state = "open"
    <3>1. m.sent = l.sent \o rs
      BY <1>2, <2>1
    <3>2. /\ Len(m.sent) = Len(l.sent) + Len(rs) /\ \A i \in 1 .. Len(l.sent) : m.sent[i] = l.sent[i]
          /\ \A i \in 1 .. Len(rs) : m.sent[Len(l.sent) + i] = rs[i]
      <4>0. l \in GoodLink /\ rs \in Seq(Request)
        OBVIOUS
      <4>1. Len(l.sent \o rs) = Len(l.sent) + Len(rs)
        BY <4>0, SentFacts
      <4>2. \A i \in 1 .. Len(l.sent) : (l.sent \o rs)[i] = l.sent[i]
        BY <4>0, SentFacts
      <4>3. \A i \in 1 .. Len(rs) : (l.sent \o rs)[Len(l.sent) + i] = rs[i]
        BY <4>0, SentFacts
      <4>4. Len(m.sent) = Len(l.sent) + Len(rs)
        BY <3>1, <4>1
      <4>5. \A i \in 1 .. Len(l.sent) : m.sent[i] = l.sent[i]
        BY <3>1, <4>2
      <4>6. \A i \in 1 .. Len(rs) : m.sent[Len(l.sent) + i] = rs[i]
        BY <3>1, <4>3
      <4> QED BY <4>4, <4>5, <4>6
    <3> QED BY <3>2
  <2> QED BY <2>1
<1> HIDE DEF i0, s0, n, k
<1>7. Len(m.in) = i0 /\ (l.state # "open" => Len(m.sent) = s0 /\ m.sent = l.sent)
  BY <1>2 DEF i0, s0
<1>8. i0 + Len(m.sent) <= n + k /\ (l.state = "open" => i0 + Len(m.sent) = n + k)
  <2>1. CASE l.state = "open"
    <3>1. Len(m.sent) = s0 + k /\ i0 + s0 = n
      BY <1>5, <1>6, <2>1
    <3> QED BY <1>0, <3>1
  <2>2. CASE l.state # "open"
    <3>1. Len(m.sent) = s0
      BY <1>7, <2>2
    <3> QED BY <1>0, <1>5, <2>2, <3>1
  <2> QED BY <2>1, <2>2
<1>9. \A i \in 1 .. i0 : m.in[i].id = u[i] /\ (m.in[i].op = "cmd" <=> u[i] # 0)
  <2>1. \A i \in 1 .. i0 : i \in 1 .. n
    BY <1>0, <1>5
  <2> QED BY <1>2, <1>4, <1>5, <2>1
<1>10. ASSUME NEW i \in 1 .. Len(m.sent)
       PROVE  m.sent[i].id = u[i0 + i] /\ (m.sent[i].op = "cmd" <=> u[i0 + i] # 0)
  <2>1. CASE i \in 1 .. s0
    <3>1. i0 + i \in 1 .. n
      BY <1>0, <1>5, <2>1
    <3>2. m.sent[i] = l.sent[i] /\ u[i0 + i] = q[i0 + i]
      BY <1>4, <1>6, <1>7, <2>1, <3>1
    <3> QED BY <1>5, <2>1, <3>2
  <2>2. CASE i \notin 1 .. s0
    <3>0. l.state = "open"
      BY <1>7, <2>2
    <3>1. PICK j \in 1 .. k : i = s0 + j
      <4>1. i - s0 \in 1 .. k /\ i = s0 + (i - s0)
        BY <1>0, <1>6, <2>2, <3>0
      <4> QED BY <4>1
    <3>2. i0 + i = n + j
      BY <1>0, <1>5, <3>0, <3>1
    <3>3. m.sent[i] = rs[j] /\ u[i0 + i] = t[j]
      BY <1>4, <1>6, <3>0, <3>1, <3>2
    <3>4. rs[j].id = t[j] /\ (rs[j].op = "cmd" <=> t[j] # 0)
      BY DEF k
    <3> QED BY <3>3, <3>4
  <2> QED BY <2>1, <2>2
<1>11. Match(m, u)
  BY <1>2, <1>4, <1>5, <1>7, <1>8, <1>9, <1>10 DEF Match
<1> QED BY <1>1, <1>3, <1>11

LEMMA OpenAdded ==
    ASSUME NEW l \in GoodLink, NEW ex, Open(l, ex), NEW rs \in Seq(Request),
           \A i \in 1 .. Len(rs) : rs[i].op = "cmd" => ~WasRun(ex, rs[i].id)
    PROVE  Open(Added(l, rs), ex)
<1>1. PICK m : m = Added(l, rs)
  OBVIOUS
<1>2. m.in = l.in /\ m.sent = IF l.state = "open" THEN l.sent \o rs ELSE l.sent
  BY <1>1, AddedFacts
<1>3. CASE l.state = "open"
  <2> DEFINE s0 == Len(l.sent)
             k == Len(rs)
  <2>0. s0 \in Nat /\ k \in Nat /\ l.sent \in Seq(Request)
    BY LinkLists
  <2>1. /\ Len(m.sent) = s0 + k /\ \A i \in 1 .. s0 : m.sent[i] = l.sent[i]
        /\ \A i \in 1 .. k : m.sent[s0 + i] = rs[i]
    BY <1>2, <1>3, <2>0, ConcatFacts
  <2> HIDE DEF s0, k
  <2>2. ASSUME NEW i \in 1 .. Len(m.sent), m.sent[i].op = "cmd" PROVE ~WasRun(ex, m.sent[i].id)
    <3>1. CASE i \in 1 .. s0
      BY <2>1, <2>2, <3>1 DEF Open, s0
    <3>2. CASE i \notin 1 .. s0
      <4>1. i - s0 \in 1 .. k /\ i = s0 + (i - s0)
        BY <2>0, <2>1, <3>2
      <4>2. m.sent[i] = rs[i - s0]
        BY <2>1, <4>1
      <4> QED BY <2>2, <4>1, <4>2 DEF k
    <3> QED BY <3>1, <3>2
  <2> QED BY <1>1, <1>2, <2>2 DEF Open
<1>4. CASE l.state # "open"
  BY <1>1, <1>2, <1>4 DEF Open
<1> QED BY <1>3, <1>4

LEMMA Pair ==
    ASSUME NEW x, NEW y
    PROVE  <<x>> \o <<y>> = <<x, y>> /\ <<>> \o <<y>> = <<y>>
<1> DEFINE S == {x, y}
<1>1. <<x>> \in Seq(S) /\ <<y>> \in Seq(S) /\ <<>> \in Seq(S) /\ <<x, y>> \in Seq(S)
  OBVIOUS
<1>2. <<x>> \o <<y>> = <<x, y>>
  <2>1. /\ <<x>> \o <<y>> \in Seq(S) /\ Len(<<x>> \o <<y>>) = 2
        /\ (<<x>> \o <<y>>)[1] = x /\ (<<x>> \o <<y>>)[2] = y
    BY <1>1
  <2>2. \A i \in 1 .. 2 : i = 1 \/ i = 2
    OBVIOUS
  <2>3. Len(<<x, y>>) = 2 /\ <<x, y>>[1] = x /\ <<x, y>>[2] = y
    OBVIOUS
  <2>4. PICK u, w : u = <<x>> \o <<y>> /\ w = <<x, y>>
    OBVIOUS
  <2>5. u \in Seq(S) /\ w \in Seq(S) /\ Len(u) = Len(w) /\ \A i \in 1 .. Len(u) : u[i] = w[i]
    BY <1>1, <2>1, <2>2, <2>3, <2>4
  <2>6. u = w
    BY <2>5, SameSeq
  <2> QED BY <2>4, <2>6
<1>3. <<>> \o <<y>> = <<y>>
  BY <1>1
<1> QED BY <1>2, <1>3

\* The requests of a command, after ASKING, and their callbacks.
LEMMA QueuedFacts ==
    ASSUME NEW l \in GoodLink, NEW id \in Ids, NEW slot \in Slots, NEW asking \in BOOLEAN
    PROVE  /\ Queued(l, id, slot, asking) \in GoodLink
           /\ Queued(l, id, slot, asking).state = l.state /\ Queued(l, id, slot, asking).peer = l.peer
           /\ \A q \in Seq(0 .. MaxCalls) : Match(l, q) =>
                 Match(Queued(l, id, slot, asking), q \o Behind(asking, id))
           /\ \A ex : Open(l, ex) /\ ~WasRun(ex, id) => Open(Queued(l, id, slot, asking), ex)
<1> DEFINE q0 == [id |-> 0, slot |-> slot, op |-> "asking"]
           q1 == [id |-> id, slot |-> slot, op |-> "cmd"]
           rs == (IF asking THEN <<q0>> ELSE <<>>) \o <<q1>>
           t == Behind(asking, id)
<1> USE DEF Behind
<1>0. q0 \in Request /\ q1 \in Request /\ id \in Nat \ {0} /\ id \in 0 .. MaxCalls /\ MaxCalls \in Nat
  BY AsyncAssumption DEF Request, Ops, Ids
<1>1. q0.id = 0 /\ q0.op = "asking" /\ q1.id = id /\ q1.op = "cmd"
  OBVIOUS
<1> HIDE DEF q0, q1
<1>2. CASE asking
  <2>1. rs = <<q0, q1>> /\ t = <<0, id>>
    BY <1>2, Pair
  <2>2. rs \in Seq(Request) /\ Len(rs) = 2 /\ rs[1] = q0 /\ rs[2] = q1
    BY <1>0, <2>1
  <2>3. t \in Seq(0 .. MaxCalls) /\ Len(t) = 2 /\ t[1] = 0 /\ t[2] = id
    BY <1>0, <2>1, Lists
  <2> HIDE DEF rs, t
  <2>4. \A i \in 1 .. Len(rs) : rs[i].id = t[i] /\ (rs[i].op = "cmd" <=> t[i] # 0) /\ (rs[i].op = "cmd" => rs[i].id = id)
    <3>1. \A i \in 1 .. 2 : i = 1 \/ i = 2
      OBVIOUS
    <3> QED BY <1>0, <1>1, <2>2, <2>3, <3>1
  <2>5. Queued(l, id, slot, asking) = Added(l, rs)
    BY DEF Queued, rs, q0, q1
  <2>6. \A q \in Seq(0 .. MaxCalls) : Match(l, q) => Match(Added(l, rs), q \o t)
    BY <2>2, <2>3, <2>4, MatchAdded
  <2>7. \A ex : Open(l, ex) /\ ~WasRun(ex, id) => Open(Added(l, rs), ex)
    BY <2>2, <2>4, OpenAdded
  <2> QED BY <2>2, <2>5, <2>6, <2>7, AddedFacts DEF t
<1>3. CASE ~asking
  <2>1. rs = <<q1>> /\ t = <<id>>
    BY <1>3, Pair
  <2>2. rs \in Seq(Request) /\ Len(rs) = 1 /\ rs[1] = q1
    BY <1>0, <2>1
  <2>3. t \in Seq(0 .. MaxCalls) /\ Len(t) = 1 /\ t[1] = id
    BY <1>0, <2>1, Lists
  <2> HIDE DEF rs, t
  <2>4. \A i \in 1 .. Len(rs) : rs[i].id = t[i] /\ (rs[i].op = "cmd" <=> t[i] # 0) /\ (rs[i].op = "cmd" => rs[i].id = id)
    <3>1. \A i \in 1 .. 1 : i = 1
      OBVIOUS
    <3> QED BY <1>0, <1>1, <2>2, <2>3, <3>1
  <2>5. Queued(l, id, slot, asking) = Added(l, rs)
    BY DEF Queued, rs, q0, q1
  <2>6. \A q \in Seq(0 .. MaxCalls) : Match(l, q) => Match(Added(l, rs), q \o t)
    BY <2>2, <2>3, <2>4, MatchAdded
  <2>7. \A ex : Open(l, ex) /\ ~WasRun(ex, id) => Open(Added(l, rs), ex)
    BY <2>2, <2>4, OpenAdded
  <2> QED BY <2>2, <2>5, <2>6, <2>7, AddedFacts DEF t
<1> QED BY <1>2, <1>3

-----------------------------------------------------------------------------
(* redisClusterAsyncCallback goes on, and perhaps calls dictRelease. *)

\* The call on top of st goes on as f, and may have called dictRelease.
Onward(st, f, v) ==
    /\ st # <<>> /\ st[Len(st)].kind = "cb" /\ st[Len(st)].at # "user"
    /\ f.conn = st[Len(st)].conn /\ f.id = st[Len(st)].id
    /\ f.reply.type # "null" => f.reply = st[Len(st)].reply
    /\ f.at = "resend" => f.reply.type = "moved"
    /\ \/ v = [st EXCEPT ![Len(st)] = f]
       \/ \E r \in FreeFrame : ~r.last /\ v = Append([st EXCEPT ![Len(st)] = f], r)

LEMMA GoesOn ==
    ASSUME NEW st \in Seq(GoodFrame), Shaped(st), NEW f \in CbFrame, NEW v, Onward(st, f, v)
    PROVE  /\ v \in Seq(GoodFrame) /\ v # <<>> /\ Shaped(v)
           /\ \A c : TornIn(v, c) <=> TornIn(st, c)
           /\ \A c : Calls(v[1], c) <=> Calls(st[1], c)
           /\ \A i \in 1 .. Len(v) : v[i].kind \in {"cb", "teardown"} =>
                 /\ i \in 1 .. Len(st) /\ v[i].kind = st[i].kind
                 /\ v[i] = IF i = Len(st) THEN f ELSE st[i]
           /\ \A i \in 1 .. Len(v) : v[i].kind = "release" =>
                 \/ i \in 1 .. Len(st) /\ v[i] = st[i]
                 \/ i = Len(st) + 1 /\ ~v[i].last
           /\ \A i \in 1 .. Len(st) : st[i].kind = "release" => i \in 1 .. Len(v) /\ v[i] = st[i]
           /\ \A id : Frames(v, id) = IF f.at = "user" THEN Frames(st, id) \ {Len(st)} ELSE Frames(st, id)
<1> USE DEF Onward
<1> DEFINE n == Len(st)
<1>0. f \in GoodFrame /\ f.kind = "cb"
  BY DEF GoodFrame, CbFrame
<1>1. PICK u : u = [st EXCEPT ![n] = f]
  OBVIOUS
<1>2. /\ n \in Nat \ {0} /\ u \in Seq(GoodFrame) /\ Len(u) = n /\ \A i \in 1 .. n - 1 : u[i] = st[i]
      /\ u[n] = f /\ \A i \in 1 .. n : i \in 1 .. n - 1 \/ i = n
  BY <1>0, <1>1, ReplaceTop
<1>3. Shaped(u) /\ \A c : TornIn(u, c) <=> TornIn(st, c)
  BY <1>0, <1>1, ReplaceShaped
<1>4. \A id : Frames(u, id) = IF f.at = "user" THEN Frames(st, id) \ {n} ELSE Frames(st, id)
  <2> SUFFICES ASSUME NEW id PROVE Frames(u, id) = IF f.at = "user" THEN Frames(st, id) \ {n} ELSE Frames(st, id)
    OBVIOUS
  <2>1. CASE f.at = "user"
    <3>1. ~Active(f, id)
      BY <2>1 DEF Active
    <3> QED BY <1>0, <1>1, <2>1, <3>1, FramesReplace
  <2>2. CASE f.at # "user"
    <3>1. Active(f, id) <=> Active(st[n], id)
      BY <1>0, <2>2 DEF Active
    <3> QED BY <1>0, <1>1, <2>2, <3>1, FramesReplace
  <2> QED BY <2>1, <2>2
<1> HIDE DEF n
<1>5. u # <<>> /\ 1 \in 1 .. n /\ n \in 1 .. n
  BY <1>2
<1>6. \A i \in 1 .. n : u[i] = IF i = n THEN f ELSE st[i]
  BY <1>2
<1>7. \A i \in 1 .. n : u[i].kind = st[i].kind /\ \A c : Calls(u[i], c) <=> Calls(st[i], c)
  BY <1>0, <1>6 DEF Calls, n
<1>8. CASE v = u
  <2>1. /\ v \in Seq(GoodFrame) /\ v # <<>> /\ Shaped(v)
        /\ \A c : TornIn(v, c) <=> TornIn(st, c)
        /\ \A c : Calls(v[1], c) <=> Calls(st[1], c)
    BY <1>2, <1>3, <1>5, <1>7, <1>8
  <2>2. \A i \in 1 .. Len(v) : v[i].kind \in {"cb", "teardown"} =>
                 /\ i \in 1 .. n /\ v[i].kind = st[i].kind /\ v[i] = IF i = n THEN f ELSE st[i]
    BY <1>2, <1>6, <1>7, <1>8
  <2>3. \A i \in 1 .. Len(v) : v[i].kind = "release" => i \in 1 .. n /\ v[i] = st[i]
    <3>1. \A i \in 1 .. Len(v) : v[i].kind = "release" => i # n
      BY <1>0, <1>2, <1>8
    <3> QED BY <1>2, <1>6, <1>8, <3>1
  <2>4. \A i \in 1 .. n : st[i].kind = "release" => i \in 1 .. Len(v) /\ v[i] = st[i]
    BY <1>2, <1>8 DEF n
  <2> QED BY <1>4, <1>8, <2>1, <2>2, <2>3, <2>4 DEF n
<1>9. ASSUME NEW r \in FreeFrame, ~r.last, v = Append(u, r)
      PROVE  /\ v \in Seq(GoodFrame) /\ v # <<>> /\ Shaped(v)
             /\ \A c : TornIn(v, c) <=> TornIn(st, c)
             /\ \A c : Calls(v[1], c) <=> Calls(st[1], c)
             /\ \A i \in 1 .. Len(v) : v[i].kind \in {"cb", "teardown"} =>
                 /\ i \in 1 .. n /\ v[i].kind = st[i].kind /\ v[i] = IF i = n THEN f ELSE st[i]
             /\ \A i \in 1 .. Len(v) : v[i].kind = "release" =>
                 \/ i \in 1 .. n /\ v[i] = st[i]
                 \/ i = n + 1 /\ ~v[i].last
             /\ \A i \in 1 .. n : st[i].kind = "release" => i \in 1 .. Len(v) /\ v[i] = st[i]
             /\ \A id : Frames(v, id) = Frames(u, id)
  <2>1. r \in GoodFrame /\ r.kind = "release"
    BY DEF GoodFrame, FreeFrame
  <2>2. /\ v \in Seq(GoodFrame) /\ Len(v) = n + 1 /\ \A i \in 1 .. n : v[i] = u[i]
        /\ v[n + 1] = r /\ \A i \in 1 .. n + 1 : i \in 1 .. n \/ i = n + 1
    BY <1>2, <1>9, <2>1, AppendFacts, AppendType
  <2>3. Shaped(v) /\ \A c : TornIn(v, c) <=> TornIn(u, c) \/ Tears(r, c)
    <3>1. u[Len(u)].kind = "cb"
      BY <1>0, <1>2
    <3> QED BY <1>2, <1>3, <1>9, <2>1, <3>1, PushShaped
  <2>4. \A c : ~Tears(r, c)
    BY <2>1 DEF Tears
  <2>5. \A id : Frames(v, id) = Frames(u, id)
    <3>1. \A id : ~Active(r, id)
      BY <2>1 DEF Active
    <3> QED BY <1>2, <1>9, <2>1, <3>1, FramesPush
  <2>6. v # <<>> /\ \A c : Calls(v[1], c) <=> Calls(st[1], c)
    <3>1. v # <<>>
      BY <1>2, <2>2
    <3> QED BY <1>5, <1>7, <2>2, <3>1
  <2>7. \A i \in 1 .. Len(v) : v[i].kind \in {"cb", "teardown"} =>
                 /\ i \in 1 .. n /\ v[i].kind = st[i].kind /\ v[i] = IF i = n THEN f ELSE st[i]
    BY <1>6, <1>7, <2>1, <2>2
  <2>8. \A i \in 1 .. Len(v) : v[i].kind = "release" =>
                 \/ i \in 1 .. n /\ v[i] = st[i]
                 \/ i = n + 1 /\ ~v[i].last
    <3>1. \A i \in 1 .. n : v[i].kind = "release" => i # n /\ v[i] = st[i]
      BY <1>0, <1>2, <1>6, <2>2
    <3> QED BY <1>9, <2>2, <3>1
  <2>9. \A i \in 1 .. n : st[i].kind = "release" => i \in 1 .. Len(v) /\ v[i] = st[i]
    <3>1. \A i \in 1 .. n : i \in 1 .. n + 1
      BY <1>2
    <3>2. \A i \in 1 .. n : st[i].kind = "release" => i # n
      BY DEF n
    <3> QED BY <1>6, <2>2, <3>1, <3>2
  <2> QED BY <1>3, <2>2, <2>3, <2>4, <2>5, <2>6, <2>7, <2>8, <2>9
<1> QED BY <1>1, <1>4, <1>8, <1>9 DEF n

LEMMA CbTop ==
    ASSUME Typed, Running("cb")
    PROVE  /\ stack \in Seq(GoodFrame) /\ stack # <<>> /\ Len(stack) \in Nat \ {0}
           /\ Len(stack) \in 1 .. Len(stack) /\ Top = stack[Len(stack)] /\ Top.kind = "cb"
           /\ Top \in CbFrame /\ Top.conn \in Holders /\ Top.id \in Ids /\ Top.reply \in GoodAnswer
           /\ Top.reply.type \in ReplyTypes \cup {"null"}
<1>1. stack \in Seq(GoodFrame) /\ stack # <<>> /\ Top = stack[Len(stack)] /\ Top.kind = "cb"
  BY DEF Typed, Running, Top
<1>2. Len(stack) \in Nat \ {0}
  BY <1>1, TailFacts
<1>3. Len(stack) \in 1 .. Len(stack)
  BY <1>2
<1>4. Top \in GoodFrame
  BY <1>1, <1>3, ElementType
<1>5. Top \in CbFrame
  BY <1>1, <1>4, FrameKind
<1>6. Top.conn \in Holders /\ Top.id \in Ids /\ Top.reply \in GoodAnswer
  BY <1>5 DEF CbFrame
<1>7. Top.reply.type \in ReplyTypes \cup {"null"}
  BY <1>6 DEF GoodAnswer, Answer
<1> QED BY <1>1, <1>2, <1>3, <1>5, <1>6, <1>7

\* The command of the callback that runs is nowhere else.
LEMMA ActiveTop ==
    ASSUME Inv, Running("cb"), Top.at # "user"
    PROVE  /\ Top.id \in 1 .. Len(issued) /\ Len(ran[Top.id]) = 0
           /\ Frames(stack, Top.id) = {Len(stack)} /\ Spots(ac, Top.id) = {}
<1>0. Typed
  BY DEF Inv
<1>1. Len(stack) \in Frames(stack, Top.id)
  BY <1>0, CbTop DEF Frames, Active
<1>2. Top.id \in Nat \ {0} /\ Len(issued) \in Nat /\ Top.id \in Ids
  <2>1. Top.id \in Ids
    BY <1>0, CbTop
  <2>2. issued \in Seq(Slots)
    BY <1>0 DEF Typed
  <2>3. Top.id \in Nat \ {0}
    BY <2>1, AsyncAssumption DEF Ids
  <2> QED BY <2>1, <2>2, <2>3
<1>3. Top.id \in 1 .. Len(issued)
  <2>1. ~(Top.id > Len(issued))
    BY <1>1, <1>2 DEF Inv, Placed
  <2> QED BY <1>2, <2>1
<1>4. InOnePlace(Len(ran[Top.id]), Frames(stack, Top.id), Spots(ac, Top.id))
  BY <1>3 DEF Inv, Placed
<1> QED BY <1>1, <1>3, <1>4 DEF InOnePlace, Single

-----------------------------------------------------------------------------
(* Steps that leave the connections alone. *)

LEMMA ConnectionsKept ==
    ASSUME Inv, UNCHANGED <<ac, link, notReached>>, node' \in [Pointers -> NodeType],
           \A p \in Pointers : node'[p].host = node[p].host /\ node'[p].acon = node[p].acon,
           \A c \in Holders : TornIn(stack, c) => TornIn(stack', c),
           \A c \in Holders : ac[c].freeing /\ stack # <<>> /\ Calls(stack[1], c) =>
              TornIn(stack', c) \/ (stack' # <<>> /\ Calls(stack'[1], c)),
           \A c \in Holders : stack' # <<>> /\ Calls(stack'[1], c) => stack # <<>> /\ Calls(stack[1], c),
           \A i \in 1 .. Len(stack') : stack'[i].kind \in {"cb", "teardown"} => ac[stack'[i].conn].live
    PROVE  Linked' /\ Doomed' /\ Addressed' /\ Kept' /\ Aligned'
<1>1. Linked'
  BY DEF Inv, Linked
<1>2. Doomed'
  BY DEF Inv, Doomed
<1>3. Addressed'
  BY DEF Inv, Addressed
<1>4. Kept'
  BY DEF Inv, Kept
<1>5. Aligned'
  BY DEF Inv, Aligned
<1> QED BY <1>1, <1>2, <1>3, <1>4, <1>5

\* A callback that goes on keeps its command, and what the others do.
LEMMA CommandsKept ==
    ASSUME Inv, Running("cb"), Top.at # "user",
           NEW f \in CbFrame, f.conn = Top.conn, f.id = Top.id, f.at # "start",
           f.reply.type # "null" => f.reply = Top.reply,
           f.at = "resend" => Top.at = "start" /\ f.reply.type = "moved",
           \/ stack' = [stack EXCEPT ![Len(stack)] = f]
           \/ \E r \in FreeFrame : ~r.last /\ stack' = Append([stack EXCEPT ![Len(stack)] = f], r),
           UNCHANGED <<executed, issued, sends>>,
           \A c \in Holders : ac'[c].queue = ac[c].queue,
           \A c \in Holders : ac'[c].live /\ ~TornIn(stack, c) => Open(link'[c], executed),
           \A id \in Ids \ {Top.id} : retries'[id] = retries[id],
           f.at = "resend" => retries'[Top.id] = retries[Top.id] + 1,
           IF f.at = "user" THEN ran' = [ran EXCEPT ![Top.id] = Append(ran[Top.id], f.reply)]
                            ELSE ran' = ran
    PROVE  Placed' /\ Owned' /\ Once' /\ Paid'
<1>0. Typed /\ Shaped(stack) /\ Placed /\ Owned /\ Once /\ Paid
  BY DEF Inv
<1> DEFINE n == Len(stack)
<1>1. /\ stack \in Seq(GoodFrame) /\ stack # <<>> /\ n \in Nat \ {0} /\ n \in 1 .. n
      /\ Top = stack[n] /\ Top.kind = "cb" /\ Top.id \in Ids
  BY <1>0, CbTop
<1>2. /\ \A i \in 1 .. Len(stack') : stack'[i].kind = "cb" =>
                 /\ i \in 1 .. n /\ stack'[i].kind = stack[i].kind
                 /\ stack'[i] = IF i = n THEN f ELSE stack[i]
      /\ \A id : Frames(stack', id) = IF f.at = "user" THEN Frames(stack, id) \ {n} ELSE Frames(stack, id)
      /\ \A c : TornIn(stack', c) <=> TornIn(stack, c)
  <2>1. /\ stack[Len(stack)].kind = "cb" /\ stack[Len(stack)].at # "user"
        /\ f.conn = stack[Len(stack)].conn /\ f.id = stack[Len(stack)].id
        /\ f.reply.type # "null" => f.reply = stack[Len(stack)].reply
        /\ f.at = "resend" => f.reply.type = "moved"
    BY <1>1
  <2>2. Onward(stack, f, stack')
    BY <1>1, <2>1 DEF Onward
  <2> QED BY <1>0, <1>1, <2>2, GoesOn
<1>3. /\ Top.id \in 1 .. Len(issued) /\ Len(ran[Top.id]) = 0
      /\ Frames(stack, Top.id) = {n} /\ Spots(ac, Top.id) = {}
  BY ActiveTop
<1> HIDE DEF n
<1>4. \A id : Spots(ac', id) = Spots(ac, id)
  BY SpotsSame
<1>5. \A id \in Ids \ {Top.id} : Frames(stack', id) = Frames(stack, id) /\ ran'[id] = ran[id]
  <2> SUFFICES ASSUME NEW id \in Ids \ {Top.id} PROVE Frames(stack', id) = Frames(stack, id) /\ ran'[id] = ran[id]
    OBVIOUS
  <2>1. n \notin Frames(stack, id)
    BY <1>1 DEF Frames, Active
  <2>2. ran'[id] = ran[id]
    BY <1>0, <1>1 DEF Typed
  <2>3. Frames(stack, id) \ {n} = Frames(stack, id)
    BY <2>1
  <2>4. Frames(stack', id) = Frames(stack, id)
    BY <1>2, <2>3, Zenon
  <2> QED BY <2>2, <2>4
<1>6. Placed'
  <2>1. ASSUME NEW id \in 1 .. Len(issued)
        PROVE  InOnePlace(Len(ran'[id]), Frames(stack', id), Spots(ac', id))
    <3>0. id \in Ids
      BY <1>0, AsyncAssumption DEF Typed, Ids
    <3>1. CASE id # Top.id
      BY <1>0, <1>4, <1>5, <3>0, <3>1 DEF Placed
    <3>2. CASE id = Top.id /\ f.at # "user"
      BY <1>0, <1>2, <1>4, <3>2 DEF Placed
    <3>3. CASE id = Top.id /\ f.at = "user"
      <4>1. ran[id] \in Seq(Answer) /\ f.reply \in Answer
        BY <1>0, <3>0 DEF Typed, CbFrame, GoodAnswer
      <4>2. ran'[id] = Append(ran[id], f.reply)
        BY <1>0, <3>0, <3>3 DEF Typed
      <4>3. Len(Append(ran[id], f.reply)) = Len(ran[id]) + 1
        BY <4>1, AppendFacts
      <4>4. Len(ran'[id]) = 1
        BY <1>3, <3>3, <4>2, <4>3
      <4>5. Frames(stack', id) = {} /\ Spots(ac', id) = {}
        BY <1>2, <1>3, <1>4, <3>3
      <4> QED BY <4>4, <4>5 DEF InOnePlace
    <3> QED BY <3>1, <3>2, <3>3
  <2>2. ASSUME NEW id \in Ids, id > Len(issued)
        PROVE  Len(ran'[id]) = 0 /\ Frames(stack', id) = {} /\ Spots(ac', id) = {}
    <3>1. id # Top.id
      BY <1>0, <1>3, <2>2, AsyncAssumption DEF Typed, Ids
    <3> QED BY <1>0, <1>4, <1>5, <2>2, <3>1 DEF Placed
  <2> QED BY <2>1, <2>2 DEF Placed
<1>7. Owned'
  <2>1. \A i \in 1 .. Len(stack') :
          stack'[i].kind = "cb" /\ stack'[i].reply.type # "null" => stack'[i].reply.id = stack'[i].id
    BY <1>0, <1>1, <1>2 DEF Owned, n
  <2>2. ASSUME NEW id \in Ids, NEW i \in 1 .. Len(ran'[id]), ran'[id][i].type # "null"
        PROVE  ran'[id][i].id = id
    <3>0. ran[id] \in Seq(Answer) /\ f.reply \in Answer
      BY <1>0 DEF Typed, CbFrame, GoodAnswer
    <3>1. CASE ran'[id] = ran[id]
      BY <1>0, <2>2, <3>0, <3>1 DEF Owned, OwnReply
    <3>2. CASE id = Top.id /\ f.at = "user"
      <4>1. ran'[id] = Append(ran[id], f.reply)
        BY <1>0, <3>2 DEF Typed
      <4>2. /\ Len(Append(ran[id], f.reply)) = Len(ran[id]) + 1 /\ Append(ran[id], f.reply)[Len(ran[id]) + 1] = f.reply
        BY <3>0, AppendFacts
      <4>3. Len(ran'[id]) = 1 /\ ran'[id][1] = f.reply
        BY <1>3, <3>2, <4>1, <4>2
      <4>4. i = 1
        BY <4>3
      <4>5. f.reply.type # "null" => f.reply.id = Top.id
        BY <1>0, <1>1 DEF Owned, n
      <4> QED BY <2>2, <3>2, <4>3, <4>4, <4>5
    <3> QED BY <1>5, <3>1, <3>2
  <2>3. OwnReply'
    <3>1. \A id \in Ids : ran'[id] \in Seq(Answer)
      <4>1. ran[Top.id] \in Seq(Answer) /\ f.reply \in Answer
        BY <1>0, <1>1 DEF Typed, CbFrame, GoodAnswer
      <4>2. Append(ran[Top.id], f.reply) \in Seq(Answer)
        BY <4>1, AppendType
      <4> QED BY <1>0, <4>2 DEF Typed
    <3>2. \A id \in Ids : DOMAIN ran'[id] = 1 .. Len(ran'[id])
      BY <3>1
    <3> QED BY <2>2, <3>2 DEF OwnReply
  <2> QED BY <2>1, <2>3 DEF Owned
<1>8. Once'
  <2>1. \A i \in 1 .. Len(stack') : stack'[i].kind = "cb" /\ stack'[i].at \in {"start", "resend"}
             /\ stack'[i].reply.type \in {"moved", "ask", "again"} => ~WasRun(executed, stack'[i].id)
    <3> SUFFICES ASSUME NEW i \in 1 .. Len(stack'), stack'[i].kind = "cb", stack'[i].at \in {"start", "resend"},
                        stack'[i].reply.type \in {"moved", "ask", "again"}
                 PROVE  ~WasRun(executed, stack'[i].id)
      OBVIOUS
    <3>1. CASE i # n
      BY <1>0, <1>2, <3>1 DEF Once, n
    <3>2. CASE i = n
      <4>1. stack'[i] = f
        BY <1>2, <3>2
      <4>2. f.reply = Top.reply /\ Top.at = "start" /\ f.reply.type = "moved"
        BY <4>1
      <4> QED BY <1>0, <1>1, <4>1, <4>2 DEF Once, n
    <3> QED BY <3>1, <3>2
  <2> QED BY <1>0, <1>2, <2>1 DEF Once
<1>9. Paid'
  <2>1. ASSUME NEW i \in 1 .. Len(stack'), stack'[i].kind = "cb"
        PROVE  /\ stack'[i].at = "start" => sends[stack'[i].id] <= retries'[stack'[i].id] + 1
               /\ stack'[i].at = "resend" => sends[stack'[i].id] <= retries'[stack'[i].id]
    <3>1. CASE i # n
      <4>1. i \in 1 .. n /\ stack'[i] = stack[i]
        BY <1>2, <2>1, <3>1
      <4>2. stack[i] \in CbFrame /\ stack[i].id \in Ids
        <5>1. stack[i] \in GoodFrame
          BY <1>1, <4>1, ElementType DEF n
        <5>2. stack[i] \in CbFrame
          BY <2>1, <4>1, <5>1, FrameKind
        <5> QED BY <5>2 DEF CbFrame
      <4>3. stack[i].at \in {"start", "resend"} => stack[i].id # Top.id
        <5>1. stack[i].at \in {"start", "resend"} /\ stack[i].id = Top.id => i \in Frames(stack, Top.id)
          BY <2>1, <4>1 DEF Frames, Active, n
        <5> QED BY <1>3, <3>1, <5>1
      <4>4. stack[i].at \in {"start", "resend"} => retries'[stack[i].id] = retries[stack[i].id]
        BY <4>2, <4>3
      <4> QED BY <1>0, <2>1, <4>1, <4>4 DEF Paid, n
    <3>2. CASE i = n
      <4>1. stack'[i] = f /\ f.at # "start"
        BY <1>2, <2>1, <3>2
      <4>2. ASSUME f.at = "resend" PROVE sends[Top.id] <= retries'[Top.id]
        <5>1. sends[Top.id] <= retries[Top.id] + 1
          BY <1>0, <1>1, <4>2 DEF Paid, n
        <5> QED BY <4>2, <5>1
      <4> QED BY <4>1, <4>2
    <3> QED BY <3>1, <3>2
  <2>2. \A id \in Ids : id > Len(issued) => id # Top.id
    BY <1>0, <1>3, AsyncAssumption DEF Typed, Ids
  <2>3. \A id \in Ids : id > Len(issued) => sends[id] = 0 /\ retries'[id] = 0
    BY <1>0, <2>2 DEF Paid
  <2>4. \A id \in Ids : Spots(ac', id) # {} => sends[id] <= retries'[id] + 1
    BY <1>0, <1>3, <1>4 DEF Paid
  <2> QED BY <1>0, <2>1, <2>3, <2>4 DEF Paid
<1> QED BY <1>6, <1>7, <1>8, <1>9

\* The facts of GoesOn about the stack itself.
LEMMA StackGoesOn ==
    ASSUME Inv, Running("cb"), Top.at # "user",
           NEW f \in CbFrame, f.conn = Top.conn, f.id = Top.id,
           f.reply.type # "null" => f.reply = Top.reply,
           f.at = "resend" => f.reply.type = "moved",
           \/ stack' = [stack EXCEPT ![Len(stack)] = f]
           \/ \E r \in FreeFrame : ~r.last /\ stack' = Append([stack EXCEPT ![Len(stack)] = f], r)
    PROVE  /\ stack' \in Seq(GoodFrame) /\ stack' # <<>> /\ Shaped(stack')
           /\ \A c : TornIn(stack', c) <=> TornIn(stack, c)
           /\ \A c : Calls(stack'[1], c) <=> Calls(stack[1], c)
           /\ \A i \in 1 .. Len(stack') : stack'[i].kind \in {"cb", "teardown"} =>
                 i \in 1 .. Len(stack) /\ stack'[i].kind = stack[i].kind /\ stack'[i].conn = stack[i].conn
           /\ \A i \in 1 .. Len(stack') : stack'[i].kind = "release" =>
                 \/ i \in 1 .. Len(stack) /\ stack'[i] = stack[i]
                 \/ i = Len(stack) + 1 /\ ~stack'[i].last
           /\ \A i \in 1 .. Len(stack) : stack[i].kind = "release" => i \in 1 .. Len(stack') /\ stack'[i] = stack[i]
           /\ ~freed
<1>0. Typed /\ Shaped(stack) /\ Routed
  BY DEF Inv
<1>1. /\ stack \in Seq(GoodFrame) /\ stack # <<>> /\ Len(stack) \in 1 .. Len(stack)
      /\ Top = stack[Len(stack)] /\ Top.kind = "cb"
  BY <1>0, CbTop
<1>2. /\ stack[Len(stack)].kind = "cb" /\ stack[Len(stack)].at # "user"
      /\ f.conn = stack[Len(stack)].conn /\ f.id = stack[Len(stack)].id
      /\ f.reply.type # "null" => f.reply = stack[Len(stack)].reply
      /\ f.at = "resend" => f.reply.type = "moved"
  BY <1>1
<1>3. ~freed
  BY <1>0, <1>1 DEF Routed
<1>4. /\ stack' \in Seq(GoodFrame) /\ stack' # <<>> /\ Shaped(stack')
      /\ \A c : TornIn(stack', c) <=> TornIn(stack, c)
      /\ \A c : Calls(stack'[1], c) <=> Calls(stack[1], c)
      /\ \A i \in 1 .. Len(stack') : stack'[i].kind \in {"cb", "teardown"} =>
             /\ i \in 1 .. Len(stack) /\ stack'[i].kind = stack[i].kind
             /\ stack'[i] = IF i = Len(stack) THEN f ELSE stack[i]
      /\ \A i \in 1 .. Len(stack') : stack'[i].kind = "release" =>
                 \/ i \in 1 .. Len(stack) /\ stack'[i] = stack[i]
                 \/ i = Len(stack) + 1 /\ ~stack'[i].last
      /\ \A i \in 1 .. Len(stack) : stack[i].kind = "release" => i \in 1 .. Len(stack') /\ stack'[i] = stack[i]
  <2>1. Onward(stack, f, stack')
    BY <1>1, <1>2 DEF Onward
  <2> QED BY <1>0, <1>1, <2>1, GoesOn
<1>5. \A i \in 1 .. Len(stack') : stack'[i].kind \in {"cb", "teardown"} =>
                 i \in 1 .. Len(stack) /\ stack'[i].kind = stack[i].kind /\ stack'[i].conn = stack[i].conn
  BY <1>2, <1>4
<1> QED BY <1>3, <1>4, <1>5

LEMMA CallStep ==
    ASSUME Inv, Running("cb"), Top.at # "user",
           NEW f \in CbFrame, f.conn = Top.conn, f.id = Top.id, f.at # "start",
           f.reply.type # "null" => f.reply = Top.reply,
           f.at = "resend" => Top.at = "start" /\ f.reply.type = "moved",
           stack' = [stack EXCEPT ![Len(stack)] = f],
           UNCHANGED <<clusterVars, link, executed, useSlots, table, ac, freed, undefined, issued, sends, notReached>>,
           updateTime' \in BOOLEAN, accErr' \in BOOLEAN, retries' \in [Ids -> 0 .. MaxRedirect],
           node' \in [Pointers -> NodeType],
           \A p \in Pointers : node'[p].host = node[p].host /\ node'[p].acon = node[p].acon,
           \A id \in Ids \ {Top.id} : retries'[id] = retries[id],
           f.at = "resend" => retries'[Top.id] = retries[Top.id] + 1,
           IF f.at = "user" THEN ran' = [ran EXCEPT ![Top.id] = Append(ran[Top.id], f.reply)]
                            ELSE ran' = ran
    PROVE  Inv'
<1>0. Typed /\ Linked /\ Routed
  BY DEF Inv
<1>1. Top.id \in Ids /\ Top.conn \in Holders /\ Len(stack) \in 1 .. Len(stack) /\ stack # <<>>
  BY <1>0, CbTop
<1>2. /\ stack' \in Seq(GoodFrame) /\ stack' # <<>> /\ Shaped(stack')
      /\ \A c : TornIn(stack', c) <=> TornIn(stack, c)
      /\ \A c : Calls(stack'[1], c) <=> Calls(stack[1], c)
      /\ \A i \in 1 .. Len(stack') : stack'[i].kind \in {"cb", "teardown"} =>
             i \in 1 .. Len(stack) /\ stack'[i].kind = stack[i].kind /\ stack'[i].conn = stack[i].conn
      /\ \A i \in 1 .. Len(stack') : stack'[i].kind = "release" =>
                 \/ i \in 1 .. Len(stack) /\ stack'[i] = stack[i]
                 \/ i = Len(stack) + 1 /\ ~stack'[i].last
      /\ \A i \in 1 .. Len(stack) : stack[i].kind = "release" => i \in 1 .. Len(stack') /\ stack'[i] = stack[i]
      /\ ~freed
  BY StackGoesOn
<1>3. Len(stack') = Len(stack) /\ Len(stack) \in Nat
  BY <1>0, ReplaceTop, CbTop DEF GoodFrame
<1>4. \A i \in 1 .. Len(stack') : stack'[i].kind = "release" => i \in 1 .. Len(stack) /\ stack'[i] = stack[i]
  <2>1. stack \in Seq(GoodFrame) /\ f \in GoodFrame /\ f.kind = "cb"
    BY <1>0 DEF Typed, GoodFrame, CbFrame
  <2>2. /\ \A i \in 1 .. Len(stack) - 1 : stack'[i] = stack[i]
        /\ stack'[Len(stack)] = f
        /\ \A i \in 1 .. Len(stack) : i \in 1 .. Len(stack) - 1 \/ i = Len(stack)
    BY <1>1, <2>1, ReplaceTop
  <2> QED BY <1>3, <2>1, <2>2
<1>5. Typed'
  <2>1. ran' \in [Ids -> Seq(Answer)]
    <3>1. ran[Top.id] \in Seq(Answer) /\ f.reply \in Answer
      BY <1>0, <1>1 DEF Typed, CbFrame, GoodAnswer
    <3>2. Append(ran[Top.id], f.reply) \in Seq(Answer)
      BY <3>1, AppendType
    <3> QED BY <1>0, <3>2 DEF Typed
  <2>2. ClusterTyped'
    BY <1>0 DEF Typed, ClusterTyped, clusterVars
  <2> QED BY <1>0, <1>2, <2>1, <2>2 DEF Typed
<1>6. Linked' /\ Doomed' /\ Addressed' /\ Kept' /\ Aligned'
  <2>1. \A i \in 1 .. Len(stack') : stack'[i].kind \in {"cb", "teardown"} => ac[stack'[i].conn].live
    BY <1>0, <1>2 DEF Linked
  <2>2. UNCHANGED <<ac, link, notReached>>
    OBVIOUS
  <2>3. /\ \A c \in Holders : TornIn(stack, c) => TornIn(stack', c)
        /\ \A c \in Holders : ac[c].freeing /\ stack # <<>> /\ Calls(stack[1], c) =>
              TornIn(stack', c) \/ (stack' # <<>> /\ Calls(stack'[1], c))
        /\ \A c \in Holders : stack' # <<>> /\ Calls(stack'[1], c) => stack # <<>> /\ Calls(stack[1], c)
    BY <1>1, <1>2
  <2> QED BY <2>1, <2>2, <2>3, ConnectionsKept
<1>7. Routed'
  <2>1. Ending <=> Ending'
    BY <1>2, <1>4 DEF Ending
  <2>2. (\A s \in Slots : node[table[s]].host # None) => \A s \in Slots : node'[table'[s]].host # None
    BY <1>0 DEF Typed, Pointers, Keys
  <2> QED BY <1>0, <1>2, <1>4, <2>1, <2>2 DEF Routed
<1>8. Placed' /\ Owned' /\ Once' /\ Paid'
  <2>1. \A c \in Holders : ac'[c].live /\ ~TornIn(stack, c) => Open(link'[c], executed)
    BY DEF Inv, Once
  <2> QED BY <2>1, CommandsKept
<1> QED BY <1>2, <1>5, <1>6, <1>7, <1>8 DEF Inv

\* Nothing but an error changes, or what is undefined.
LEMMA IdleStep ==
    ASSUME Inv, accErr' \in BOOLEAN, undefined' \in BOOLEAN,
           UNCHANGED <<clusterVars, link, executed, useSlots, table, updateTime, retries, node, ac, stack,
                       freed, historyVars>>
    PROVE  Inv'
<1>1. /\ UNCHANGED <<owner, importer, seen, alive, faults, link, executed>>
      /\ UNCHANGED <<useSlots, table, updateTime, retries, node, ac, stack, freed>>
      /\ UNCHANGED <<issued, sends, ran, notReached>>
  BY DEF clusterVars, historyVars
<1>2. Typed'
  BY <1>1 DEF Inv, Typed, ClusterTyped
<1>3. Shaped(stack)' /\ Linked' /\ Doomed' /\ Addressed' /\ Kept'
  BY <1>1 DEF Inv, Linked, Doomed, Addressed, Kept
<1>4. Routed'
  BY <1>1 DEF Inv, Routed, Ending
<1>5. Aligned' /\ Placed' /\ Once' /\ Paid'
  BY <1>1 DEF Inv, Aligned, Placed, Once, Paid
<1>6. Owned'
  BY <1>1 DEF Inv, Owned, OwnReply
<1> QED BY <1>2, <1>3, <1>4, <1>5, <1>6 DEF Inv

LEMMA ContinueFrame ==
    ASSUME Typed, Running("cb"), NEW at \in {"updated", "resend", "done", "user"}
    PROVE  /\ [Top EXCEPT !.at = at] \in CbFrame
           /\ [Top EXCEPT !.at = at].conn = Top.conn /\ [Top EXCEPT !.at = at].id = Top.id
           /\ [Top EXCEPT !.at = at].reply = Top.reply /\ [Top EXCEPT !.at = at].at = at
           /\ Continue(at) = [stack EXCEPT ![Len(stack)] = [Top EXCEPT !.at = at]]
<1>1. Top \in CbFrame
  BY CbTop
<1> QED BY <1>1 DEF CbFrame, Continue, Top

\* The callback goes to done, or on after an update that failed.
LEMMA ContinueStep ==
    ASSUME Inv, Running("cb"), Top.at # "user", NEW at \in {"updated", "done"}, stack' = Continue(at),
           UNCHANGED <<clusterVars, link, executed, useSlots, table, ac, freed, undefined, historyVars>>,
           updateTime' \in BOOLEAN, accErr' \in BOOLEAN, retries' \in [Ids -> 0 .. MaxRedirect],
           node' \in [Pointers -> NodeType],
           \A p \in Pointers : node'[p].host = node[p].host /\ node'[p].acon = node[p].acon,
           \A id \in Ids \ {Top.id} : retries'[id] = retries[id]
    PROVE  Inv'
<1> DEFINE f == [Top EXCEPT !.at = at]
<1>0. Typed
  BY DEF Inv
<1>1. /\ f \in CbFrame /\ f.conn = Top.conn /\ f.id = Top.id /\ f.reply = Top.reply
      /\ f.at = at /\ stack' = [stack EXCEPT ![Len(stack)] = f]
  BY <1>0, ContinueFrame
<1> HIDE DEF f
<1>2. /\ UNCHANGED <<clusterVars, link, executed, useSlots, table, ac, freed, undefined, issued, sends, notReached>>
      /\ ran' = ran
  BY DEF historyVars
<1> QED BY <1>1, <1>2, CallStep

LEMMA CallbackSteps ==
    ASSUME Inv,
           \/ NullUpdated
           \/ NullCounted
           \/ Plain
           \/ TooManyRedirects
           \/ Done
    PROVE  Inv'
<1>0. Typed
  BY DEF Inv
<1>1. CASE NullUpdated
  <2>1. Running("cb") /\ Top.at = "updated"
    BY <1>1 DEF NullUpdated, AtPoint
  <2> QED BY <1>0, <1>1, <2>1, ContinueStep DEF NullUpdated, Typed
<1>2. CASE NullCounted
  <2>0. Running("cb") /\ Top.at = "start" /\ Top.conn \in Holders
    BY <1>0, <1>2, CbTop DEF NullCounted, Called
  <2>1. CASE ac[Top.conn].data = Dangling
    BY <1>0, <1>2, <2>1, IdleStep DEF NullCounted, UseFreed, accVars, Typed
  <2>2. CASE ac[Top.conn].data # Dangling
    <3> DEFINE k == ac[Top.conn].data
               many == node[k].failures + 1 > MaxRedirect
               x == IF many THEN 0 ELSE node[k].failures + 1
    <3>1. /\ node' = [node EXCEPT ![k].failures = x]
          /\ stack' = Continue("done")
          /\ UNCHANGED <<clusterVars, link, executed, useSlots, table, accErr, retries, ac,
                         freed, undefined, historyVars>>
          /\ updateTime' \in BOOLEAN
      BY <1>0, <1>2, <2>2 DEF NullCounted, Typed
    <3>2. k \in Pointers
      <4>1. ac[Top.conn].live
        BY <1>0, <2>0, CbTop DEF Inv, Linked
      <4>2. k # None /\ k \in Pointers \cup {None, Dangling}
        BY <1>0, <2>0, <4>1 DEF Inv, Linked, Typed, ActxType
      <4> QED BY <2>2, <4>2
    <3>3. node[k] \in NodeType /\ node[k].failures \in 0 .. MaxRedirect
      BY <1>0, <3>2 DEF Typed, NodeType
    <3>4. x \in 0 .. MaxRedirect
      BY <3>3, AsyncAssumption
    <3> HIDE DEF k, x
    <3>5. /\ node' \in [Pointers -> NodeType]
          /\ \A p \in Pointers : node'[p].host = node[p].host /\ node'[p].acon = node[p].acon
      BY <1>0, <3>1, <3>2, <3>3, <3>4 DEF Typed, NodeType
    <3> QED BY SMTT(30), <1>0, <2>0, <3>1, <3>5, ContinueStep DEF Typed
  <2> QED BY <2>1, <2>2
<1>3. CASE Plain
  <2>1. Running("cb") /\ Top.at = "start"
    BY <1>3 DEF Plain, Called
  <2> QED BY <1>0, <1>3, <2>1, ContinueStep DEF Plain, accVars, Typed
<1>4. CASE TooManyRedirects
  <2>1. Running("cb") /\ Top.at = "start" /\ Top.id \in Ids
    BY <1>0, <1>4, CbTop DEF TooManyRedirects, Called
  <2>2. retries' \in [Ids -> 0 .. MaxRedirect] /\ \A id \in Ids \ {Top.id} : retries'[id] = retries[id]
    BY <1>0, <1>4, <2>1, AsyncAssumption DEF TooManyRedirects, Typed
  <2> QED BY <1>0, <1>4, <2>1, <2>2, ContinueStep DEF TooManyRedirects, Typed
<1>5. CASE Done
  <2>1. Running("cb") /\ Top.at = "done"
    BY <1>5 DEF Done, AtPoint
  <2>2. Top \in CbFrame /\ Top.id \in Ids
    BY <1>0, <2>1, CbTop
  <2> DEFINE given == IF accErr THEN NullReply ELSE Top.reply
             f == [Top EXCEPT !.at = "user", !.reply = given]
  <2>3. given \in GoodAnswer /\ (given.type # "null" => given = Top.reply)
    <3>1. NullReply \in GoodAnswer /\ NullReply.type = "null"
      BY AsyncAssumption DEF NullReply, GoodAnswer, Answer
    <3>2. Top.reply \in GoodAnswer
      BY <2>2 DEF CbFrame
    <3> QED BY <3>1, <3>2
  <2>4. /\ ran' = [ran EXCEPT ![Top.id] = Append(ran[Top.id], given)]
        /\ stack' = [stack EXCEPT ![Len(stack)] = f]
        /\ UNCHANGED <<clusterVars, link, executed, useSlots, accVars, node, ac, freed, undefined, issued,
                       sends, notReached>>
    BY <1>5 DEF Done, Top
  <2> HIDE DEF given
  <2>5. f \in CbFrame /\ f.conn = Top.conn /\ f.id = Top.id /\ f.reply = given /\ f.at = "user"
    BY <2>2, <2>3 DEF CbFrame
  <2> HIDE DEF f
  <2>6. /\ UNCHANGED <<clusterVars, link, executed, useSlots, table, ac, freed, undefined, issued, sends, notReached>>
        /\ UNCHANGED <<node, updateTime, accErr, retries>>
    BY <2>4 DEF accVars
  <2>7. /\ updateTime' \in BOOLEAN /\ accErr' \in BOOLEAN /\ retries' \in [Ids -> 0 .. MaxRedirect]
        /\ node' \in [Pointers -> NodeType]
        /\ \A p \in Pointers : node'[p].host = node[p].host /\ node'[p].acon = node[p].acon
    BY <1>0, <2>6 DEF Typed
  <2> QED BY <2>1, <2>3, <2>4, <2>5, <2>6, <2>7, CallStep
<1> QED BY <1>1, <1>2, <1>3, <1>4, <1>5

-----------------------------------------------------------------------------
(* The routes are updated. *)

LEMMA ConcatOne ==
    ASSUME NEW u \in Seq(GoodFrame), NEW r \in GoodFrame
    PROVE  u \o <<>> = u /\ u \o <<r>> = Append(u, r)
<1> HIDE DEF GoodFrame
<1>1. u \o <<>> = u
  OBVIOUS
<1>2. u \o <<r>> = Append(u, r)
  OBVIOUS
<1> QED BY <1>1, <1>2

LEMMA KnownNodes ==
    ASSUME Typed, NEW n \in Nodes
    PROVE  Known(n) \subseteq Nodes /\ \A s \in Slots : seen[n][s] \in Known(n)
  BY DEF Typed, ClusterTyped, Known

LEMMA KeyFacts ==
    /\ None \notin Keys /\ None \notin Holders /\ None \notin Pointers
    /\ Dangling \notin Pointers /\ Dangling # None
    /\ Nodes \subseteq Keys /\ Slots \subseteq Keys /\ Keys \subseteq Pointers /\ Holders \subseteq Pointers
    /\ Holders \cap Keys = {} /\ Nodes \cap Slots = {}
  BY ClusterAssumption, AsyncAssumption DEF Pointers, Keys

LEMMA RouteStep ==
    ASSUME Inv, Running("cb"), Top.at = "start", ~Releasing, NEW next \in {"updated", "resend"},
           next = "resend" => Top.reply.type = "moved", RouteUpdated(next),
           UNCHANGED <<clusterVars, link, executed, useSlots, updateTime, accErr, freed, undefined, historyVars>>,
           retries' \in [Ids -> 0 .. MaxRedirect], \A id \in Ids \ {Top.id} : retries'[id] = retries[id],
           next = "resend" => retries'[Top.id] = retries[Top.id] + 1
    PROVE  Inv'
<1>0. Typed /\ Shaped(stack) /\ Linked /\ Routed /\ Doomed /\ Addressed /\ Kept /\ Aligned
  BY DEF Inv
<1>1. /\ stack \in Seq(GoodFrame) /\ stack # <<>> /\ Len(stack) \in Nat \ {0} /\ Len(stack) \in 1 .. Len(stack)
      /\ Top = stack[Len(stack)] /\ Top.kind = "cb" /\ Top.id \in Ids
  BY <1>0, CbTop
<1> DEFINE f == [Top EXCEPT !.at = next]
<1>2. /\ f \in CbFrame /\ f.conn = Top.conn /\ f.id = Top.id /\ f.reply = Top.reply
      /\ f.at = next /\ Continue(next) = [stack EXCEPT ![Len(stack)] = f]
  BY <1>0, ContinueFrame
<1> HIDE DEF f
<1> DEFINE old == {j \in Keys : node[j].host # None}
<1>3. PICK k \in Keys :
        LET n == node[k].host
            gone == {j \in old \ Known(n) : node[j].acon # None}
        IN  /\ n \in alive
            /\ node' = [p \in Pointers |->
                          CASE p \in Known(n) -> NodeAt(p, node[p].acon)
                            [] p \in (old \ Known(n)) \ gone -> NoNode
                            [] OTHER -> node[p]]
            /\ ac' = [c \in Holders |->
                        IF ac[c].data \in old /\ node[ac[c].data].acon # c
                        THEN [ac[c] EXCEPT !.data = Dangling] ELSE ac[c]]
            /\ table' = seen[n]
            /\ stack' = Continue(next) \o (IF gone = {} THEN <<>> ELSE <<Release(gone, FALSE)>>)
  BY DEF RouteUpdated
<1> DEFINE n == node[k].host
           gone == {j \in old \ Known(n) : node[j].acon # None}
           r == Release(gone, FALSE)
           u == [stack EXCEPT ![Len(stack)] = f]
<1>4. n \in Nodes /\ Known(n) \subseteq Nodes /\ (\A s \in Slots : seen[n][s] \in Known(n)) /\ seen[n] \in [Slots -> Nodes]
  <2>1. n \in Nodes
    BY <1>0, <1>3 DEF Typed, ClusterTyped
  <2> QED BY <1>0, <2>1, KnownNodes DEF Typed, ClusterTyped
<1>5. old \subseteq Keys /\ gone \subseteq Keys /\ gone \cap Known(n) = {}
  OBVIOUS
<1>6. /\ table' = seen[n]
      /\ \A c \in Holders : ac'[c] = IF ac[c].data \in old /\ node[ac[c].data].acon # c
                                     THEN [ac[c] EXCEPT !.data = Dangling] ELSE ac[c]
      /\ ac' \in [Holders -> ActxType]
  BY ZenonT(60), <1>0, <1>3 DEF Typed, ActxType
<1>7. ASSUME NEW p \in Pointers
      PROVE  /\ p \in Known(n) => node'[p] = NodeAt(p, node[p].acon)
             /\ p \notin Known(n) /\ p \in old /\ p \notin gone => node'[p] = NoNode
             /\ p \notin Known(n) /\ (p \notin old \/ p \in gone) => node'[p] = node[p]
  <2> HIDE DEF old, gone, n
  <2>1. node'[p] = CASE p \in Known(n) -> NodeAt(p, node[p].acon)
                            [] p \in (old \ Known(n)) \ gone -> NoNode
                            [] OTHER -> node[p]
    BY <1>3 DEF old, gone, n
  <2>2. CASE p \in Known(n)
    BY <2>1, <2>2
  <2>3. CASE p \notin Known(n) /\ p \in old /\ p \notin gone
    BY <2>1, <2>3
  <2>4. CASE p \notin Known(n) /\ (p \notin old \/ p \in gone)
    BY <2>1, <2>4
  <2> QED BY <2>2, <2>3, <2>4
<1>8. r \in FreeFrame /\ r.kind = "release" /\ r.todo = gone /\ ~r.last /\ r \in GoodFrame
  BY <1>5, FrameTypes
<1>9. u \in Seq(GoodFrame) /\ Len(u) = Len(stack)
  <2>1. f \in GoodFrame
    BY <1>2 DEF GoodFrame
  <2> QED BY <1>1, <2>1, ReplaceTop
<1>10. (gone = {} /\ stack' = u) \/ stack' = Append(u, r)
  <2> HIDE DEF u, r, gone
  <2>1. stack' = u \o (IF gone = {} THEN <<>> ELSE <<r>>)
    BY <1>2, <1>3 DEF u, r, gone
  <2> QED BY <1>8, <1>9, <2>1, ConcatOne
<1>11. /\ stack' \in Seq(GoodFrame) /\ stack' # <<>> /\ Shaped(stack')
       /\ \A c : TornIn(stack', c) <=> TornIn(stack, c)
       /\ \A c : Calls(stack'[1], c) <=> Calls(stack[1], c)
       /\ \A i \in 1 .. Len(stack') : stack'[i].kind \in {"cb", "teardown"} =>
             i \in 1 .. Len(stack) /\ stack'[i].kind = stack[i].kind /\ stack'[i].conn = stack[i].conn
       /\ \A i \in 1 .. Len(stack') : stack'[i].kind = "release" =>
                 \/ i \in 1 .. Len(stack) /\ stack'[i] = stack[i]
                 \/ i = Len(stack) + 1 /\ ~stack'[i].last
       /\ ~freed
  <2>1. \/ stack' = [stack EXCEPT ![Len(stack)] = f]
        \/ \E x \in FreeFrame : ~x.last /\ stack' = Append([stack EXCEPT ![Len(stack)] = f], x)
    BY <1>8, <1>10
  <2> QED BY <1>2, <2>1, StackGoesOn
<1>12. \A i \in 1 .. Len(stack') : stack'[i].kind = "release" => stack'[i] = r
  <2>1. \A i \in 1 .. Len(stack) : stack[i].kind # "release"
    BY <1>1 DEF Releasing
  <2>2. stack' = Append(u, r) => stack'[Len(stack) + 1] = r
    <3> HIDE DEF u, r
    <3>1. Append(u, r)[Len(u) + 1] = r
      BY <1>8, <1>9, AppendFacts
    <3> QED BY <1>9, <3>1
  <2>3. stack' = u => Len(stack) + 1 \notin 1 .. Len(stack')
    BY <1>1, <1>9
  <2> HIDE DEF u, r
  <2> QED BY <1>10, <1>11, <2>1, <2>2, <2>3
<1> HIDE DEF old, gone, r, u, n
<1>13. \A c \in Holders : ac'[c].queue = ac[c].queue /\ ac'[c].live = ac[c].live /\ ac'[c].err = ac[c].err
                          /\ ac'[c].freeing = ac[c].freeing
                          /\ (ac'[c].data = ac[c].data \/ (ac'[c].data = Dangling /\ ac[c].data \in old
                                                           /\ node[ac[c].data].acon # c))
  BY <1>0, <1>6 DEF Typed, ActxType
<1>14. Placed' /\ Owned' /\ Once' /\ Paid'
  <2>1. \/ stack' = [stack EXCEPT ![Len(stack)] = f]
        \/ \E x \in FreeFrame : ~x.last /\ stack' = Append([stack EXCEPT ![Len(stack)] = f], x)
    BY <1>8, <1>10 DEF u
  <2>2. UNCHANGED <<executed, issued, sends>> /\ ran' = ran
    BY DEF historyVars
  <2>3. \A c \in Holders : ac'[c].live /\ ~TornIn(stack, c) => Open(link'[c], executed)
    BY <1>13 DEF Inv, Once
  <2> QED BY <1>2, <1>13, <2>1, <2>2, <2>3, CommandsKept
<1>15. node' \in [Pointers -> NodeType]
  <2>1. ASSUME NEW p \in Pointers PROVE node'[p] \in NodeType
    <3>0. node[p] \in NodeType /\ 0 \in 0 .. MaxRedirect
      BY <1>0, AsyncAssumption DEF Typed
    <3>1. p \in Nodes => NodeAt(p, node[p].acon) \in NodeType
      BY <3>0 DEF NodeAt, NodeType
    <3>2. NoNode \in NodeType
      BY <3>0 DEF NoNode, NodeType
    <3> QED BY <1>4, <1>7, <3>0, <3>1, <3>2
  <2>2. \E F : node' = [p \in Pointers |-> F[p]]
    BY <1>3
  <2> QED BY <2>1, <2>2
<1>16. Typed'
  <2>1. ClusterTyped'
    BY <1>0 DEF Typed, ClusterTyped, clusterVars
  <2>2. UNCHANGED <<issued, sends, ran, notReached>>
    BY DEF historyVars
  <2> QED BY <1>0, <1>4, <1>6, <1>11, <1>15, <2>1, <2>2 DEF Typed
<1>17. \A p \in Pointers : /\ node'[p].acon \in {node[p].acon, None}
                           /\ node[p].acon # None => node'[p].acon = node[p].acon
                           /\ p \in Nodes => node'[p].host \in {None, p}
                           /\ node'[p].host = None => node'[p].acon = None
                           /\ node[p].acon # None => node'[p].host = node[p].host
  <2> SUFFICES ASSUME NEW p \in Pointers
               PROVE  /\ node'[p].acon \in {node[p].acon, None}
                      /\ node[p].acon # None => node'[p].acon = node[p].acon
                      /\ p \in Nodes => node'[p].host \in {None, p}
                      /\ node'[p].host = None => node'[p].acon = None
                      /\ node[p].acon # None => node'[p].host = node[p].host
    OBVIOUS
  <2>1. CASE p \in Known(n)
    <3>1. p \in Nodes /\ p # None
      BY <1>4, <2>1, KeyFacts
    <3>a. node'[p] = NodeAt(p, node[p].acon)
      BY <1>7, <2>1
    <3>2. node'[p].acon = node[p].acon /\ node'[p].host = p
      BY <3>a DEF NodeAt
    <3>3. node[p].acon # None => node[p].host = p
      BY <1>0, <3>1 DEF Addressed
    <3> QED BY <3>1, <3>2, <3>3
  <2>2. CASE p \notin Known(n) /\ p \in old /\ p \notin gone
    <3>1. node[p].acon = None
      BY <2>2 DEF gone
    <3> QED BY <1>7, <2>2, <3>1 DEF NoNode
  <2>3. CASE p \notin Known(n) /\ (p \notin old \/ p \in gone)
    BY <1>0, <1>7, <2>3 DEF Addressed
  <2> QED BY <2>1, <2>2, <2>3
<1>18. Linked'
  <2>1. ASSUME NEW p \in Pointers, node'[p].acon # None
        PROVE  ac'[node'[p].acon].live /\ ac'[node'[p].acon].data = p
    <3>1. PICK c \in Holders : c = node[p].acon /\ c = node'[p].acon /\ c # None
      BY <1>0, <1>17, <2>1 DEF Typed, NodeType
    <3>2. ac[c].live /\ ac[c].data = p
      BY <1>0, <3>1 DEF Linked
    <3>3. ac'[c].live /\ ac'[c].data = p
      BY <1>13, <3>1, <3>2
    <3> QED BY <3>1, <3>3
  <2>2. ASSUME NEW c \in Holders, ~ac'[c].live
        PROVE  ac'[c] = NoActx /\ link'[c] = NoLink
    <3>1. ac[c] = NoActx /\ link[c] = NoLink
      BY <1>0, <1>13, <2>2 DEF Linked
    <3>2. ac[c].data \notin old
      BY <3>1, KeyFacts DEF NoActx, old
    <3> QED BY <1>6, <3>1, <3>2
  <2>3. \A c \in Holders : ac'[c].live => ac'[c].data # None
    BY <1>0, <1>13, KeyFacts DEF Linked
  <2>4. \A i \in 1 .. Len(stack') : stack'[i].kind \in {"cb", "teardown"} => ac'[stack'[i].conn].live
    <3>1. ASSUME NEW i \in 1 .. Len(stack'), stack'[i].kind \in {"cb", "teardown"}
          PROVE  stack[i].conn \in Holders /\ ac[stack[i].conn].live
      <4>1. i \in 1 .. Len(stack) /\ stack[i].kind \in {"cb", "teardown"}
        BY <1>11, <3>1
      <4>2. stack[i] \in GoodFrame
        BY <1>1, <4>1, ElementType
      <4>3. stack[i].conn \in Holders
        BY <4>1, <4>2, FrameKind DEF CbFrame, TearFrame
      <4> QED BY <1>0, <4>1, <4>3 DEF Linked
    <3> QED BY <1>11, <1>13, <3>1
  <2> QED BY <2>1, <2>2, <2>3, <2>4 DEF Linked
<1>19. Routed'
  <2>1. \A s \in Slots : node'[table'[s]].host # None
    <3> SUFFICES ASSUME NEW s \in Slots PROVE node'[table'[s]].host # None
      OBVIOUS
    <3>1. table'[s] \in Known(n) /\ table'[s] \in Nodes /\ table'[s] \in Pointers
      BY <1>4, <1>6, KeyFacts
    <3>2. node'[table'[s]] = NodeAt(table'[s], node[table'[s]].acon)
      BY <1>7, <3>1
    <3>3. node'[table'[s]].host = table'[s]
      BY <3>2 DEF NodeAt
    <3> QED BY <3>1, <3>3, KeyFacts
  <2>2. \A i \in 1 .. Len(stack') : stack'[i].kind = "release" => \A s \in Slots : table'[s] \notin stack'[i].todo
    <3>1. \A s \in Slots : table'[s] \notin gone
      BY <1>4, <1>5, <1>6
    <3> QED BY <1>8, <1>12, <3>1
  <2>3. ~freed'
    BY <1>11
  <2> QED BY <2>1, <2>2, <2>3 DEF Routed
<1>20. Doomed'
  BY <1>0, <1>1, <1>11, <1>13 DEF Doomed
<1>21. Addressed'
  <2>1. ASSUME NEW p \in Pointers, node'[p].acon # None PROVE link'[node'[p].acon].peer = node'[p].host
    BY <1>0, <1>17, <2>1 DEF Addressed
  <2> QED BY <1>0, <1>17, <2>1 DEF Addressed
<1>22. Kept'
  <2> SUFFICES ASSUME ~notReached', NEW c \in Holders, ac'[c].live
               PROVE  \/ ac'[c].data \in Pointers /\ node'[ac'[c].data].acon = c
                      \/ ac'[c].data = Dangling /\ ac'[c].freeing
    BY DEF Kept
  <2>1. ~notReached /\ ac[c].live
    BY <1>13 DEF historyVars
  <2>2. CASE ac[c].data \in Pointers /\ node[ac[c].data].acon = c
    <3>1. ac'[c].data = ac[c].data /\ c # None
      BY <1>13, <2>2, KeyFacts
    <3> QED BY <1>17, <2>2, <3>1
  <2>3. CASE ac[c].data = Dangling /\ ac[c].freeing
    BY <1>13, <2>3, KeyFacts DEF old
  <2> QED BY <1>0, <2>1, <2>2, <2>3 DEF Kept
<1>23. Aligned'
  BY <1>0, <1>11, <1>13 DEF Aligned
<1> QED BY <1>11, <1>14, <1>16, <1>18, <1>19, <1>20, <1>21, <1>22, <1>23 DEF Inv

\* A callback with a reply is the only call.
LEMMA OnlyCall ==
    ASSUME Inv, Running("cb"), Top.reply.type # "null"
    PROVE  Len(stack) = 1 /\ ~Releasing /\ \A c \in Holders : ~TornIn(stack, c)
<1>0. Typed /\ Shaped(stack)
  BY DEF Inv
<1>1. /\ stack \in Seq(GoodFrame) /\ Len(stack) \in 1 .. Len(stack) /\ Top = stack[Len(stack)] /\ Top.kind = "cb"
  BY <1>0, CbTop
<1>2. Len(stack) = 1
  BY <1>0, <1>1 DEF Shaped
<1>3. DOMAIN stack = 1 .. 1 /\ \A i \in 1 .. 1 : i = 1
  BY <1>1, <1>2
<1>4. ~Releasing
  BY <1>1, <1>2, <1>3 DEF Releasing
<1>5. \A c \in Holders : ~TornIn(stack, c)
  BY <1>1, <1>2, <1>3 DEF TornIn, Tears
<1> QED BY <1>2, <1>4, <1>5

LEMMA NullPlannedStep ==
    ASSUME Inv, NullPlanned
    PROVE  Inv'
<1>0. Typed
  BY DEF Inv
<1>1. Running("cb") /\ Top.at = "start" /\ updateTime
  BY DEF NullPlanned, Called
<1>2. CASE /\ stack' = Continue("done") \/ stack' = Continue("updated")
           /\ UNCHANGED <<clusterVars, link, executed, useSlots, accVars, node, ac, freed,
                          undefined, historyVars>>
  BY <1>0, <1>1, <1>2, ContinueStep DEF accVars, Typed
<1>3. CASE /\ ~Releasing /\ RouteUpdated("updated")
           /\ UNCHANGED <<clusterVars, link, executed, useSlots, updateTime, accErr, retries, freed,
                          undefined, historyVars>>
  BY <1>0, <1>1, <1>3, RouteStep DEF Typed
<1>4. CASE UseFreed
  BY <1>0, <1>4, IdleStep DEF UseFreed, accVars, Typed
<1> QED BY <1>2, <1>3, <1>4 DEF NullPlanned

\* cad->retry_count is below its limit.
LEMMA RetryCounted ==
    ASSUME Inv, NEW type, Redirected(type)
    PROVE  /\ Running("cb") /\ Top.at = "start" /\ Top.reply.type = type /\ Top.id \in Ids
           /\ retries' \in [Ids -> 0 .. MaxRedirect]
           /\ \A id \in Ids \ {Top.id} : retries'[id] = retries[id]
           /\ retries'[Top.id] = retries[Top.id] + 1
<1>0. Typed
  BY DEF Inv
<1>1. Running("cb") /\ Top.at = "start" /\ Top.reply.type = type /\ ~TooMany(Top.id)
      /\ retries' = [retries EXCEPT ![Top.id] = @ + 1]
  BY DEF Redirected, Called
<1>2. Top.id \in Ids
  BY <1>0, <1>1, CbTop
<1>3. retries[Top.id] + 1 \in 0 .. MaxRedirect
  BY <1>0, <1>1, <1>2, AsyncAssumption DEF TooMany, Typed
<1> QED BY <1>0, <1>1, <1>2, <1>3 DEF Typed

LEMMA MovedStep ==
    ASSUME Inv, Moved
    PROVE  Inv'
<1>0. Typed
  BY DEF Inv
<1>1. /\ Running("cb") /\ Top.at = "start" /\ Top.reply.type = "moved" /\ Top.id \in Ids
      /\ retries' \in [Ids -> 0 .. MaxRedirect]
      /\ \A id \in Ids \ {Top.id} : retries'[id] = retries[id]
      /\ retries'[Top.id] = retries[Top.id] + 1
  BY RetryCounted DEF Moved
<1>2. UNCHANGED <<clusterVars, link, executed, useSlots, updateTime, freed, undefined, historyVars>>
  BY DEF Moved
<1>3. CASE RouteUpdated("resend") /\ UNCHANGED accErr
  <2>1. ~Releasing
    BY <1>1, OnlyCall
  <2> QED BY <1>1, <1>2, <1>3, <2>1, RouteStep
<1>4. CASE accErr' = TRUE /\ stack' = Continue("done") /\ UNCHANGED <<table, node, ac>>
  BY <1>0, <1>1, <1>2, <1>4, ContinueStep DEF Typed
<1> QED BY <1>3, <1>4 DEF Moved

-----------------------------------------------------------------------------
(* redisClusterAsyncCallback returns. *)

LEMMA ReturnedFacts ==
    ASSUME Inv, Running("cb"), NEW u, u = Returned
    PROVE  /\ u \in Seq(GoodFrame) /\ Shaped(u)
           /\ \A c : TornIn(stack, c) => TornIn(u, c)
           /\ \A c \in Holders : u # <<>> /\ Calls(u[1], c) => stack # <<>> /\ Calls(stack[1], c)
           /\ \A c \in Holders : ac[c].freeing /\ stack # <<>> /\ Calls(stack[1], c) =>
                 TornIn(u, c) \/ (u # <<>> /\ Calls(u[1], c))
           /\ \A i \in 1 .. Len(u) :
                 \/ i \in 1 .. Len(stack) /\ i # Len(stack) /\ u[i] = stack[i]
                 \/ u[i].kind = "teardown" /\ u[i].conn = Top.conn
           /\ \A i \in 1 .. Len(stack) : stack[i].kind = "release" => i \in 1 .. Len(u) /\ u[i] = stack[i]
           /\ \A id : Frames(u, id) = Frames(stack, id) \ {Len(stack)}
<1>0. Typed /\ Shaped(stack)
  BY DEF Inv
<1> DEFINE n == Len(stack)
           b == SubSeq(stack, 1, n - 1)
<1>1. /\ stack \in Seq(GoodFrame) /\ stack # <<>> /\ n \in Nat \ {0} /\ n \in 1 .. n
      /\ Top = stack[n] /\ Top.kind = "cb" /\ Top.conn \in Holders
  BY <1>0, CbTop
<1>2. /\ b \in Seq(GoodFrame) /\ Len(b) = n - 1 /\ \A i \in 1 .. n - 1 : b[i] = stack[i]
      /\ \A i \in 1 .. n : i \in 1 .. n - 1 \/ i = n
  BY <1>1, PopFacts
<1>3. /\ Shaped(b)
      /\ \A c : TornIn(stack, c) <=> TornIn(b, c) \/ Tears(stack[n], c)
  BY <1>0, <1>1, PopShaped
<1>4. \A c : ~Tears(stack[n], c)
  BY <1>1 DEF Tears
<1>5. \A id : Frames(b, id) = Frames(stack, id) \ {n}
  BY <1>1, FramesPop
<1>6. \A i \in 1 .. n : stack[i].kind = "release" => i \in 1 .. n - 1
  BY <1>1, <1>2
<1>7. u = IF b = <<>> /\ ac[Top.conn].freeing THEN Append(b, Teardown(Top.conn)) ELSE b
  BY DEF Returned, Below
<1> HIDE DEF n, b
<1>8. CASE ~(b = <<>> /\ ac[Top.conn].freeing)
  <2>1. u = b
    BY <1>7, <1>8
  <2>2. \A i \in 1 .. Len(u) : i \in 1 .. n /\ i # n /\ u[i] = stack[i]
    BY <1>1, <1>2, <2>1
  <2>3. ASSUME NEW c \in Holders, ac[c].freeing, Calls(stack[1], c) PROVE u # <<>> /\ Calls(u[1], c)
    <3>1. CASE n = 1
      <4>1. b = <<>> /\ c = Top.conn
        BY <1>1, <1>2, <2>3, <3>1, EmptyList DEF Calls
      <4> QED BY <1>8, <2>3, <4>1
    <3>2. CASE n # 1
      <4>1. 1 \in 1 .. n - 1 /\ Len(b) # 0
        BY <1>1, <1>2, <3>2
      <4>2. b # <<>>
        BY <1>2, <4>1
      <4> QED BY <1>2, <2>1, <2>3, <4>1, <4>2
    <3> QED BY <3>1, <3>2
  <2>4. \A i \in 1 .. n : stack[i].kind = "release" => i \in 1 .. Len(u) /\ u[i] = stack[i]
    BY <1>2, <1>6, <2>1
  <2>5. u # <<>> => u[1] = stack[1]
    <3>1. u # <<>> => 1 \in 1 .. Len(u)
      BY <1>2, <2>1, TailFacts
    <3> QED BY <2>2, <3>1
  <2> QED BY <1>1, <1>2, <1>3, <1>4, <1>5, <2>1, <2>2, <2>3, <2>4, <2>5 DEF n
<1>9. CASE b = <<>> /\ ac[Top.conn].freeing
  <2> DEFINE t == Teardown(Top.conn)
  <2>0. t \in GoodFrame /\ t.kind = "teardown" /\ t.conn = Top.conn
    BY <1>1, FrameTypes
  <2> HIDE DEF t
  <2>1. u = Append(b, t) /\ n = 1
    BY <1>1, <1>2, <1>7, <1>9 DEF t
  <2>2. /\ Shaped(u) /\ \A c : TornIn(u, c) <=> TornIn(b, c) \/ Tears(t, c)
    <3>1. \A i \in 1 .. Len(b) : ~Calls(b[i], t.conn)
      BY <1>1, <1>2, <2>1
    <3>2. /\ b \in Seq(GoodFrame) /\ t \in GoodFrame /\ Shaped(b)
          /\ t.kind = "teardown" => /\ b = <<>> \/ b[Len(b)].kind = "release"
                                    /\ \A i \in 1 .. Len(b) : ~Calls(b[i], t.conn)
          /\ t.kind # "cb" /\ t.kind # "release"
      BY <1>2, <1>3, <1>9, <2>0, <3>1
    <3>3. Shaped(Append(b, t)) /\ \A c : TornIn(Append(b, t), c) <=> TornIn(b, c) \/ Tears(t, c)
      BY <3>2, PushShaped
    <3> QED BY <2>1, <3>3
  <2>3. u \in Seq(GoodFrame) /\ Len(u) = 1 /\ u[1] = t
    <3>1. /\ Append(b, t) \in Seq(GoodFrame) /\ Len(Append(b, t)) = Len(b) + 1 /\ Append(b, t)[Len(b) + 1] = t
      BY <1>2, <2>0, AppendType, AppendFacts
    <3>2. Len(b) = 0
      BY <1>2, <2>1
    <3> QED BY <2>1, <3>1, <3>2
  <2>4. \A i \in 1 .. Len(u) : u[i].kind = "teardown" /\ u[i].conn = Top.conn
    <3>1. \A i \in 1 .. 1 : i = 1
      OBVIOUS
    <3> QED BY <2>0, <2>3, <3>1
  <2>5. ASSUME NEW c \in Holders, Calls(stack[1], c) PROVE TornIn(u, c)
    <3>1. c = Top.conn
      BY <1>1, <2>1, <2>5 DEF Calls
    <3> QED BY <2>0, <2>2, <3>1 DEF Tears
  <2>6. \A id : Frames(u, id) = Frames(stack, id) \ {n}
    <3>1. \A id : ~Active(t, id)
      BY <2>0 DEF Active
    <3>2. b \in Seq(GoodFrame) /\ t \in GoodFrame
      BY <1>2, <2>0
    <3>3. \A id : Frames(Append(b, t), id) = Frames(b, id)
      BY <3>1, <3>2, FramesPush
    <3> QED BY <1>5, <2>1, <3>3
  <2>7. \A i \in 1 .. n : stack[i].kind # "release"
    <3>1. 1 .. n - 1 = {}
      BY <2>1
    <3> QED BY <1>6, <3>1
  <2>8. \A c : ~Calls(u[1], c)
    BY <2>0, <2>3 DEF Calls
  <2> QED BY <1>3, <1>4, <2>2, <2>3, <2>4, <2>5, <2>6, <2>7, <2>8 DEF n
<1> QED BY <1>8, <1>9

\* Where the release of nodes and the routes are not concerned.
LEMMA RoutedReturned ==
    ASSUME Inv, Running("cb"), stack' = Returned, UNCHANGED <<table, freed>>,
           \A p \in Pointers : node[p].host # None => node'[p].host # None
    PROVE  Routed'
<1>0. Typed /\ Routed
  BY DEF Inv
<1>1. /\ \A i \in 1 .. Len(stack') :
                 \/ i \in 1 .. Len(stack) /\ i # Len(stack) /\ stack'[i] = stack[i]
                 \/ stack'[i].kind = "teardown" /\ stack'[i].conn = Top.conn
      /\ \A i \in 1 .. Len(stack) : stack[i].kind = "release" => i \in 1 .. Len(stack') /\ stack'[i] = stack[i]
  BY ReturnedFacts
<1>2. Ending <=> Ending'
  BY <1>1 DEF Ending
<1>3. \A s \in Slots : node[table[s]].host # None => node'[table'[s]].host # None
  BY <1>0, KeyFacts DEF Typed
<1> QED BY <1>0, <1>1, <1>2, <1>3 DEF Routed

LEMMA UserReturnsStep ==
    ASSUME Inv, UserReturns
    PROVE  Inv'
<1>0. Typed /\ Linked /\ Placed /\ Owned /\ Once /\ Paid
  BY DEF Inv
<1>1. Running("cb") /\ Top.at = "user" /\ accErr' = FALSE /\ stack' = Returned
  BY DEF UserReturns, AtPoint
<1>2. /\ UNCHANGED <<owner, importer, seen, alive, faults, link, executed>>
      /\ UNCHANGED <<useSlots, table, updateTime, retries, node, ac, freed, undefined>>
      /\ UNCHANGED <<issued, sends, ran, notReached>>
  BY DEF UserReturns, clusterVars, historyVars
<1>3. /\ stack' \in Seq(GoodFrame) /\ Shaped(stack')
      /\ \A c : TornIn(stack, c) => TornIn(stack', c)
      /\ \A c \in Holders : ac[c].freeing /\ stack # <<>> /\ Calls(stack[1], c) =>
            TornIn(stack', c) \/ (stack' # <<>> /\ Calls(stack'[1], c))
      /\ \A c \in Holders : stack' # <<>> /\ Calls(stack'[1], c) => stack # <<>> /\ Calls(stack[1], c)
      /\ \A i \in 1 .. Len(stack') :
            \/ i \in 1 .. Len(stack) /\ i # Len(stack) /\ stack'[i] = stack[i]
            \/ stack'[i].kind = "teardown" /\ stack'[i].conn = Top.conn
      /\ \A id : Frames(stack', id) = Frames(stack, id) \ {Len(stack)}
  BY <1>1, ReturnedFacts
<1>4. Top = stack[Len(stack)] /\ Top.kind = "cb" /\ Len(stack) \in 1 .. Len(stack)
  BY <1>0, <1>1, CbTop
<1>5. Typed'
  BY <1>0, <1>1, <1>2, <1>3 DEF Typed, ClusterTyped
<1>6. Routed'
  BY <1>1, <1>2, RoutedReturned
<1>7. Linked' /\ Doomed' /\ Addressed' /\ Kept' /\ Aligned'
  <2>1. \A i \in 1 .. Len(stack') : stack'[i].kind \in {"cb", "teardown"} => ac[stack'[i].conn].live
    BY <1>0, <1>3, <1>4 DEF Linked
  <2>2. node' \in [Pointers -> NodeType] /\ \A p \in Pointers : node'[p].host = node[p].host /\ node'[p].acon = node[p].acon
    BY <1>0, <1>2 DEF Typed
  <2> QED BY <1>2, <1>3, <2>1, <2>2, ConnectionsKept
<1>8. \A id : Frames(stack', id) = Frames(stack, id)
  <2>1. \A id : Len(stack) \notin Frames(stack, id)
    BY <1>1, <1>4 DEF Frames, Active
  <2> QED BY <1>3, <2>1
<1>9. Placed'
  BY <1>0, <1>2, <1>8 DEF Placed
<1>10. Owned'
  BY <1>0, <1>2, <1>3 DEF Owned, OwnReply
<1>11. Once'
  BY <1>0, <1>2, <1>3 DEF Once
<1>12. Paid'
  BY <1>0, <1>2, <1>3 DEF Paid
<1> QED BY <1>3, <1>5, <1>6, <1>7, <1>9, <1>10, <1>11, <1>12 DEF Inv

-----------------------------------------------------------------------------
(* A command is sent. *)

LEMMA NewLinkFacts ==
    ASSUME NEW st, NEW peer, NEW ex
    PROVE  /\ NewLink(st, peer).peer = peer /\ NewLink(st, peer).state = st
           /\ Match(NewLink(st, peer), <<>>) /\ Open(NewLink(st, peer), ex)
<1>1. PICK l : l = NewLink(st, peer)
  OBVIOUS
<1>2. l.peer = peer /\ l.state = st /\ l.in = <<>> /\ l.sent = <<>>
  BY <1>1 DEF NewLink
<1>3. Len(<<>>) = 0 /\ 1 .. 0 = {}
  OBVIOUS
<1>4. Match(l, <<>>)
  BY <1>2, <1>3 DEF Match
<1>5. Open(l, ex)
  BY <1>2, <1>3 DEF Open
<1> QED BY <1>1, <1>2, <1>4, <1>5

LEMMA NewQueue ==
    ASSUME NEW a \in ActxType, NEW w
    PROVE  /\ [a EXCEPT !.queue = w].queue = w /\ [a EXCEPT !.queue = w].live = a.live
           /\ [a EXCEPT !.queue = w].err = a.err /\ [a EXCEPT !.queue = w].freeing = a.freeing
           /\ [a EXCEPT !.queue = w].data = a.data
           /\ w \in Seq(0 .. MaxCalls) => [a EXCEPT !.queue = w] \in ActxType
  BY DEF ActxType

\* Connection c, which was a0 with l0, has the command.
LEMMA QueueStep ==
    ASSUME Inv, NEW c \in Holders, NEW l0 \in GoodLink, NEW a0 \in ActxType, NEW id \in Ids, NEW slot \in Slots,
           NEW asking \in BOOLEAN,
           a0.live, a0.queue = ac[c].queue, a0.err = ac[c].err, a0.freeing = ac[c].freeing,
           ~TornIn(stack, c) => Match(l0, a0.queue) /\ Open(l0, executed),
           link' = [link EXCEPT ![c] = Queued(l0, id, slot, asking)],
           ac' = [ac EXCEPT ![c] = Waiting(a0, id, asking)]
    PROVE  /\ link' \in [Holders -> GoodLink] /\ ac' \in [Holders -> ActxType]
           /\ \A x \in Holders \ {c} : ac'[x] = ac[x] /\ link'[x] = link[x]
           /\ ac'[c].live /\ ac'[c].data = a0.data /\ link'[c].peer = l0.peer
           /\ \A x \in Holders : (ac[x].live => ac'[x].live) /\ ac'[x].err = ac[x].err /\ ac'[x].freeing = ac[x].freeing
           /\ \A x \in Holders : ac'[x].live /\ ~TornIn(stack, x) =>
                 Match(link'[x], ac'[x].queue) /\ (~WasRun(executed, id) => Open(link'[x], executed))
           /\ \A i \in Ids : i # id => Spots(ac', i) = Spots(ac, i)
           /\ Spots(ac, id) = {} => Single(Spots(ac', id))
<1>0. Typed /\ Aligned /\ Once
  BY DEF Inv
<1> DEFINE q == a0.queue
           t == Behind(asking, id)
           l == Queued(l0, id, slot, asking)
<1>1. q \in Seq(0 .. MaxCalls) /\ ac \in [Holders -> ActxType] /\ link \in [Holders -> GoodLink]
  BY <1>0 DEF ActxType, Typed, ClusterTyped
<1>2. /\ l \in GoodLink /\ l.peer = l0.peer
      /\ Match(l0, q) => Match(l, q \o t)
      /\ Open(l0, executed) /\ ~WasRun(executed, id) => Open(l, executed)
  BY <1>1, QueuedFacts
<1>3. ac'[c] = [a0 EXCEPT !.queue = q \o t] /\ link'[c] = l
  BY <1>1 DEF Waiting, Behind
<1>4. \A x \in Holders \ {c} : ac'[x] = ac[x] /\ link'[x] = link[x]
  BY <1>1
<1> HIDE DEF l, t
<1>5. /\ ac'[c].queue = q \o t /\ ac'[c].live = a0.live /\ ac'[c].err = a0.err
      /\ ac'[c].freeing = a0.freeing /\ ac'[c].data = a0.data
  <2>1. PICK w : w = q \o t
    OBVIOUS
  <2>2. ac'[c] = [a0 EXCEPT !.queue = w]
    BY <1>3, <2>1
  <2>3. /\ ac'[c].queue = w /\ ac'[c].live = a0.live /\ ac'[c].err = a0.err
        /\ ac'[c].freeing = a0.freeing /\ ac'[c].data = a0.data
    <3>1. PICK v : v = [a0 EXCEPT !.queue = w]
      OBVIOUS
    <3>2. v.queue = w /\ v.live = a0.live /\ v.err = a0.err /\ v.freeing = a0.freeing /\ v.data = a0.data
      BY <3>1, NewQueue
    <3>3. ac'[c] = v
      BY <2>2, <3>1
    <3> QED BY <3>2, <3>3
  <2> QED BY <2>1, <2>3
<1>6. /\ \A i \in Ids : i # id => Spots(ac', i) = Spots(ac, i)
      /\ Spots(ac, id) = {} => Single(Spots(ac', id))
      /\ ac'[c].queue \in Seq(0 .. MaxCalls)
  <2>1. /\ ac[c].queue = q /\ ac'[c].queue = q \o Behind(asking, id)
        /\ \A x \in Holders \ {c} : ac'[x].queue = ac[x].queue
    BY <1>4, <1>5 DEF t
  <2> HIDE DEF q
  <2>2. PICK cs, ds : cs = ac /\ ds = ac'
    OBVIOUS
  <2>3. /\ cs[c].queue = q /\ ds[c].queue = q \o Behind(asking, id)
        /\ \A x \in Holders \ {c} : ds[x].queue = cs[x].queue
    BY <2>1, <2>2
  <2>4. \A i \in Ids : /\ i # id => Spots(ds, i) = Spots(cs, i)
                       /\ Spots(cs, id) = {} => Single(Spots(ds, id))
                       /\ ds[c].queue \in Seq(0 .. MaxCalls)
    <3> SUFFICES ASSUME NEW i \in Ids
                 PROVE  /\ i # id => Spots(ds, i) = Spots(cs, i)
                        /\ Spots(cs, id) = {} => Single(Spots(ds, id))
                        /\ ds[c].queue \in Seq(0 .. MaxCalls)
      OBVIOUS
    <3>1. q \in Seq(0 .. MaxCalls)
      BY <1>1
    <3>2. Grown(cs, ds, c, q, asking, id)
      BY <2>3 DEF Grown
    <3> QED BY <3>1, <3>2, SpotsAdd
  <2> QED BY <2>2, <2>4
<1>7. ac' \in [Holders -> ActxType]
  <2>1. ac'[c] \in ActxType
    BY <1>3, <1>5, <1>6 DEF ActxType
  <2> QED BY <1>1, <1>4, <2>1
<1>8. link' \in [Holders -> GoodLink]
  BY <1>1, <1>2 DEF l
<1>9. ASSUME NEW x \in Holders, ac'[x].live, ~TornIn(stack, x)
      PROVE  Match(link'[x], ac'[x].queue) /\ (~WasRun(executed, id) => Open(link'[x], executed))
  <2>1. CASE x = c
    BY <1>2, <1>3, <1>5, <1>9, <2>1
  <2>2. CASE x # c
    BY <1>0, <1>4, <1>9, <2>2 DEF Aligned, Once
  <2> QED BY <2>1, <2>2
<1> QED BY <1>2, <1>3, <1>4, <1>5, <1>6, <1>7, <1>8, <1>9

\* Command id has gone to a connection; nodes and connections still agree.
Sent(id) ==
    /\ link' \in [Holders -> GoodLink] /\ ac' \in [Holders -> ActxType] /\ node' \in [Pointers -> NodeType]
    /\ \A p \in Pointers : node'[p].acon # None => ac'[node'[p].acon].live /\ ac'[node'[p].acon].data = p
    /\ \A c \in Holders : ~ac'[c].live => ac'[c] = NoActx /\ link'[c] = NoLink
    /\ \A c \in Holders : ac'[c].live => ac'[c].data # None
    /\ \A c \in Holders : (ac[c].live => ac'[c].live) /\ ac'[c].err = ac[c].err /\ ac'[c].freeing = ac[c].freeing
    /\ \A c \in Holders : ac[c].err => ac'[c].queue = ac[c].queue
    /\ Addressed' /\ Kept' /\ notReached' \in BOOLEAN
    /\ \A c \in Holders : ac'[c].live /\ ~TornIn(stack, c) =>
          Match(link'[c], ac'[c].queue) /\ (~WasRun(executed, id) => Open(link'[c], executed))
    /\ \A i \in Ids : i # id => Spots(ac', i) = Spots(ac, i)
    /\ Spots(ac, id) = {} => Single(Spots(ac', id))
    /\ \A p \in Pointers : node[p].host # None => node'[p].host # None

\* TRYAGAIN: it goes to the connection that it came from.
LEMMA AgainSent ==
    ASSUME Inv, NEW c \in Holders, ac[c].live, ~ac[c].err, NEW id \in Ids, NEW slot \in Slots,
           link' = [link EXCEPT ![c] = Queued(link[c], id, slot, FALSE)],
           ac' = [ac EXCEPT ![c] = Waiting(ac[c], id, FALSE)], UNCHANGED <<node, notReached>>
    PROVE  Sent(id)
<1>0. Typed /\ Linked /\ Addressed /\ Kept /\ Aligned /\ Once
  BY DEF Inv
<1>1. link[c] \in GoodLink /\ ac[c] \in ActxType
  BY <1>0 DEF Typed, ClusterTyped
<1>2. ~TornIn(stack, c) => Match(link[c], ac[c].queue) /\ Open(link[c], executed)
  BY <1>0 DEF Aligned, Once
<1>3. /\ link' \in [Holders -> GoodLink] /\ ac' \in [Holders -> ActxType]
      /\ \A x \in Holders \ {c} : ac'[x] = ac[x] /\ link'[x] = link[x]
      /\ ac'[c].live /\ ac'[c].data = ac[c].data /\ link'[c].peer = link[c].peer
      /\ \A x \in Holders : (ac[x].live => ac'[x].live) /\ ac'[x].err = ac[x].err /\ ac'[x].freeing = ac[x].freeing
      /\ \A x \in Holders : ac'[x].live /\ ~TornIn(stack, x) =>
                 Match(link'[x], ac'[x].queue) /\ (~WasRun(executed, id) => Open(link'[x], executed))
      /\ \A i \in Ids : i # id => Spots(ac', i) = Spots(ac, i)
      /\ Spots(ac, id) = {} => Single(Spots(ac', id))
  BY <1>1, <1>2, QueueStep
<1>4. \A x \in Holders : ac'[x].data = ac[x].data /\ link'[x].peer = link[x].peer /\ ac'[x].live = ac[x].live
  BY <1>3
<1>5. \A p \in Pointers : node[p].acon \in Holders \cup {None}
  BY <1>0 DEF Typed, NodeType
<1>6. \A p \in Pointers : node'[p].acon # None => ac'[node'[p].acon].live /\ ac'[node'[p].acon].data = p
  BY ZenonT(60), <1>0, <1>4, <1>5 DEF Linked
<1>7. \A x \in Holders : ~ac'[x].live => ac'[x] = NoActx /\ link'[x] = NoLink
  BY <1>0, <1>3 DEF Linked
<1>8. \A x \in Holders : ac'[x].live => ac'[x].data # None
  BY <1>0, <1>4 DEF Linked
<1>9. Addressed'
  BY <1>0, <1>4, <1>5 DEF Addressed
<1>10. Kept'
  <2> SUFFICES ASSUME ~notReached', NEW x \in Holders, ac'[x].live
               PROVE  \/ ac'[x].data \in Pointers /\ node'[ac'[x].data].acon = x
                      \/ ac'[x].data = Dangling /\ ac'[x].freeing
    BY DEF Kept
  <2>1. \/ ac[x].data \in Pointers /\ node[ac[x].data].acon = x
        \/ ac[x].data = Dangling /\ ac[x].freeing
    BY <1>0, <1>4 DEF Kept
  <2> QED BY <1>3, <1>4, <2>1
<1>11. node' \in [Pointers -> NodeType] /\ notReached' \in BOOLEAN /\ \A p \in Pointers : node[p].host # None => node'[p].host # None
  BY <1>0 DEF Typed
<1>12. \A x \in Holders : ac[x].err => ac'[x].queue = ac[x].queue
  BY <1>3
<1> QED BY <1>3, <1>6, <1>7, <1>8, <1>9, <1>10, <1>11, <1>12 DEF Sent

\* actx_get_by_node: the connection of node k, or a new one to it.
LEMMA SubmitSent ==
    ASSUME Inv, NEW k \in Pointers, NEW host \in Nodes, NEW id \in Ids, NEW slot \in Slots, NEW asking \in BOOLEAN,
           k \in Nodes => host = k, node[k].acon # None => node[k].host = host,
           k \in Holders => k = Fresh /\ k \in Spare,
           Submit(k, host, id, slot, asking)
    PROVE  Sent(id)
<1>0. Typed /\ Linked /\ Addressed /\ Kept /\ Aligned /\ Once
  BY DEF Inv
<1> DEFINE c == ActxOf(k)
           l0 == IF Usable(k) THEN link[c]
                 ELSE NewLink(IF host \in alive THEN "open" ELSE "broken", host)
           a0 == IF Usable(k) THEN ac[c] ELSE [NoActx EXCEPT !.live = TRUE, !.data = k]
<1>1. /\ Usable(k) \/ Spare # {}
      /\ node' = [node EXCEPT ![k] = [@ EXCEPT !.host = host, !.acon = c]]
      /\ link' = [link EXCEPT ![c] = Queued(l0, id, slot, asking)]
      /\ ac' = [ac EXCEPT ![c] = Waiting(a0, id, asking)]
      /\ notReached' = (notReached \/ (node[k].acon # None /\ ~Usable(k)))
  BY DEF Submit
<1>2. node[k] \in NodeType /\ node \in [Pointers -> NodeType] /\ ac \in [Holders -> ActxType] /\ link \in [Holders -> GoodLink]
  BY <1>0 DEF Typed, ClusterTyped
<1>3. Usable(k) => c \in Holders /\ c = node[k].acon /\ ac[c].live /\ ac[c].data = k
  <2>1. Usable(k) => c = node[k].acon /\ node[k].acon # None
    BY DEF Usable, ActxOf
  <2> HIDE DEF c
  <2>2. node[k].acon # None => node[k].acon \in Holders
    BY <1>2 DEF NodeType
  <2> QED BY <1>0, <2>1, <2>2 DEF Linked
<1>4. ~Usable(k) => c \in Holders /\ c \in Spare /\ c = Fresh
  <2>1. ~Usable(k) => c = Fresh /\ Spare # {}
    BY <1>1 DEF ActxOf
  <2>2. Spare # {} => Fresh \in Holders /\ Fresh \in Spare
    <3>1. Spare # {} => \E x \in Holders : Spare # {} => x \in Spare
      BY DEF Spare
    <3> QED BY <3>1 DEF Fresh
  <2> QED BY <2>1, <2>2
<1>5. ~Usable(k) => ac[c] = NoActx /\ link[c] = NoLink /\ ~ac[c].live
  BY <1>0, <1>4 DEF Linked, Spare
<1>6. c \in Holders
  BY <1>3, <1>4
<1> HIDE DEF c
<1>7. l0 \in GoodLink
  BY <1>2, <1>6, NewLinkType
<1>8. /\ a0 \in ActxType /\ a0.live /\ a0.queue = ac[c].queue /\ a0.err = ac[c].err
      /\ a0.freeing = ac[c].freeing /\ a0.data = k
  <2>1. CASE Usable(k)
    BY <1>2, <1>3, <1>6, <2>1
  <2>2. CASE ~Usable(k)
    <3>1. <<>> \in Seq(0 .. MaxCalls)
      OBVIOUS
    <3>2. a0 = [live |-> TRUE, err |-> FALSE, freeing |-> FALSE, data |-> k, queue |-> <<>>]
      BY <2>2 DEF NoActx
    <3> HIDE DEF a0
    <3>3. a0 \in ActxType
      BY <3>1, <3>2 DEF ActxType
    <3>4. ac[c].queue = <<>> /\ ac[c].err = FALSE /\ ac[c].freeing = FALSE
      BY <1>5, <2>2 DEF NoActx
    <3> QED BY <3>2, <3>3, <3>4
  <2> QED BY <2>1, <2>2
<1>9. ~TornIn(stack, c) => Match(l0, a0.queue) /\ Open(l0, executed)
  <2>1. CASE Usable(k)
    BY <1>0, <1>3, <2>1 DEF Aligned, Once
  <2>2. CASE ~Usable(k)
    <3>1. a0.queue = <<>>
      BY <1>5, <1>8, <2>2 DEF NoActx
    <3> QED BY <2>2, <3>1, NewLinkFacts
  <2> QED BY <2>1, <2>2
<1>10. l0.peer = host
  <2>1. CASE Usable(k)
    <3>1. node[k].acon # None
      BY <2>1 DEF Usable
    <3> QED BY <1>0, <1>3, <2>1, <3>1 DEF Addressed
  <2>2. CASE ~Usable(k)
    BY <2>2, NewLinkFacts
  <2> QED BY <2>1, <2>2
<1> HIDE DEF l0, a0
<1>11. /\ link' \in [Holders -> GoodLink] /\ ac' \in [Holders -> ActxType]
       /\ \A x \in Holders \ {c} : ac'[x] = ac[x] /\ link'[x] = link[x]
       /\ ac'[c].live /\ ac'[c].data = k /\ link'[c].peer = host
       /\ \A x \in Holders : (ac[x].live => ac'[x].live) /\ ac'[x].err = ac[x].err /\ ac'[x].freeing = ac[x].freeing
       /\ \A x \in Holders : ac'[x].live /\ ~TornIn(stack, x) =>
                 Match(link'[x], ac'[x].queue) /\ (~WasRun(executed, id) => Open(link'[x], executed))
       /\ \A i \in Ids : i # id => Spots(ac', i) = Spots(ac, i)
       /\ Spots(ac, id) = {} => Single(Spots(ac', id))
  <2>1. /\ a0.live /\ a0.queue = ac[c].queue /\ a0.err = ac[c].err /\ a0.freeing = ac[c].freeing
        /\ link' = [link EXCEPT ![c] = Queued(l0, id, slot, asking)]
        /\ ac' = [ac EXCEPT ![c] = Waiting(a0, id, asking)]
    BY <1>1, <1>8
  <2>2. c \in Holders /\ l0 \in GoodLink /\ a0 \in ActxType
    BY <1>6, <1>7, <1>8
  <2>3. /\ link' \in [Holders -> GoodLink] /\ ac' \in [Holders -> ActxType]
        /\ \A x \in Holders \ {c} : ac'[x] = ac[x] /\ link'[x] = link[x]
        /\ ac'[c].live /\ ac'[c].data = a0.data /\ link'[c].peer = l0.peer
        /\ \A x \in Holders : (ac[x].live => ac'[x].live) /\ ac'[x].err = ac[x].err /\ ac'[x].freeing = ac[x].freeing
        /\ \A x \in Holders : ac'[x].live /\ ~TornIn(stack, x) =>
                 Match(link'[x], ac'[x].queue) /\ (~WasRun(executed, id) => Open(link'[x], executed))
        /\ \A i \in Ids : i # id => Spots(ac', i) = Spots(ac, i)
        /\ Spots(ac, id) = {} => Single(Spots(ac', id))
    BY <1>9, <2>1, <2>2, QueueStep
  <2>4. a0.data = k /\ l0.peer = host
    BY <1>8, <1>10
  <2> QED BY <2>3, <2>4, Zenon
<1>12. /\ node' \in [Pointers -> NodeType] /\ node'[k].host = host /\ node'[k].acon = c
       /\ \A p \in Pointers \ {k} : node'[p] = node[p]
  BY <1>1, <1>2, <1>6 DEF NodeType
<1>13. \A p \in Pointers \ {k} : node[p].acon # None => node[p].acon \in Holders \ {c}
  <2> SUFFICES ASSUME NEW p \in Pointers \ {k}, node[p].acon # None PROVE node[p].acon \in Holders /\ node[p].acon # c
    OBVIOUS
  <2>1. node[p].acon \in Holders
    BY <1>2 DEF NodeType
  <2>2. ac[node[p].acon].live /\ ac[node[p].acon].data = p
    BY <1>0 DEF Linked
  <2>3. node[p].acon # c
    BY <1>3, <1>5, <2>2
  <2> QED BY <2>1, <2>3
<1>14. \A p \in Pointers : node'[p].acon # None => ac'[node'[p].acon].live /\ ac'[node'[p].acon].data = p
  <2> SUFFICES ASSUME NEW p \in Pointers, node'[p].acon # None
               PROVE  ac'[node'[p].acon].live /\ ac'[node'[p].acon].data = p
    OBVIOUS
  <2>1. CASE p = k
    BY <1>11, <1>12, <2>1
  <2>2. CASE p # k
    <3>1. PICK x \in Holders \ {c} : x = node[p].acon /\ x = node'[p].acon
      BY <1>12, <1>13, <2>2
    <3>2. ac[x].live /\ ac[x].data = p
      BY <1>0, <1>12, <2>2, <3>1 DEF Linked
    <3> QED BY <1>11, <3>1, <3>2
  <2> QED BY <2>1, <2>2
<1>15. \A x \in Holders : ~ac'[x].live => ac'[x] = NoActx /\ link'[x] = NoLink
  BY <1>0, <1>11 DEF Linked
<1>16. \A x \in Holders : ac'[x].live => ac'[x].data # None
  <2>1. k # None
    BY KeyFacts
  <2> QED BY <1>0, <1>11, <2>1 DEF Linked
<1>17. Addressed'
  <2> SUFFICES ASSUME NEW p \in Pointers
               PROVE  /\ p \in Nodes => node'[p].host \in {None, p}
                      /\ node'[p].host = None => node'[p].acon = None
                      /\ p \in Holders => node'[p].acon \in {None, p}
                      /\ node'[p].acon # None => link'[node'[p].acon].peer = node'[p].host
    BY DEF Addressed
  <2>1. CASE p = k
    <3>1. host # None
      BY KeyFacts
    <3>2. k \in Holders => c = k
      <4> SUFFICES ASSUME k \in Holders PROVE c = k
        OBVIOUS
      <4>1. ~ac[k].live /\ node[k].acon \in {None, k}
        BY <1>0 DEF Spare, Addressed
      <4>2. ~Usable(k)
        BY <1>3, <4>1, KeyFacts
      <4> QED BY <1>4, <4>2
    <3> QED BY <1>11, <1>12, <2>1, <3>1, <3>2
  <2>2. CASE p # k
    <3>1. node'[p] = node[p]
      BY <1>12, <2>2
    <3>2. node[p].acon # None => link'[node[p].acon] = link[node[p].acon]
      BY <1>11, <1>13, <2>2
    <3> QED BY <1>0, <3>1, <3>2 DEF Addressed
  <2> QED BY <2>1, <2>2
<1>18. Kept'
  <2> SUFFICES ASSUME ~notReached', NEW x \in Holders, ac'[x].live
               PROVE  \/ ac'[x].data \in Pointers /\ node'[ac'[x].data].acon = x
                      \/ ac'[x].data = Dangling /\ ac'[x].freeing
    BY DEF Kept
  <2>0. ~notReached /\ (node[k].acon # None => Usable(k))
    BY <1>0, <1>1 DEF Typed
  <2>1. CASE x = c
    BY <1>11, <1>12, <2>1
  <2>2. CASE x # c
    <3>1. ac'[x] = ac[x]
      BY <1>11, <2>2
    <3>2. \/ ac[x].data \in Pointers /\ node[ac[x].data].acon = x
          \/ ac[x].data = Dangling /\ ac[x].freeing
      BY <1>0, <2>0, <3>1 DEF Kept
    <3>3. ASSUME ac[x].data \in Pointers, node[ac[x].data].acon = x PROVE ac[x].data # k
      <4>1. x # None
        BY KeyFacts
      <4> QED BY <1>3, <2>0, <2>2, <3>3, <4>1
    <3> QED BY <1>12, <3>1, <3>2, <3>3
  <2> QED BY <2>1, <2>2
<1>19. notReached' \in BOOLEAN /\ \A p \in Pointers : node[p].host # None => node'[p].host # None
  <2>1. host # None
    BY KeyFacts
  <2>2. \A p \in Pointers : node[p].host # None => node'[p].host # None
    BY <1>12, <2>1
  <2>3. notReached' \in BOOLEAN
    BY <1>1
  <2> QED BY <2>2, <2>3
<1>20. \A x \in Holders : ac[x].err => ac'[x].queue = ac[x].queue
  <2>1. CASE Usable(k)
    <3>1. ~ac[c].err
      BY <1>3, <2>1 DEF Usable
    <3> QED BY <1>11, <3>1
  <2>2. CASE ~Usable(k)
    <3>1. ac[c] = NoActx
      BY <1>5, <2>2
    <3>2. ~ac[c].err
      BY <3>1 DEF NoActx
    <3> QED BY <1>11, <3>2
  <2> QED BY <2>1, <2>2
<1> QED BY <1>11, <1>12, <1>14, <1>15, <1>16, <1>17, <1>18, <1>19, <1>20 DEF Sent

LEMMA FrameConn ==
    ASSUME Typed, NEW i \in 1 .. Len(stack)
    PROVE  /\ stack[i] \in GoodFrame
           /\ stack[i].kind \in {"cb", "teardown"} => stack[i].conn \in Holders
           /\ stack[i].kind = "cb" => stack[i].id \in Ids
<1>1. stack[i] \in GoodFrame
  BY ElementType DEF Typed
<1> QED BY <1>1, FrameKind DEF CbFrame, TearFrame

LEMMA SentConnections ==
    ASSUME Inv, NEW id \in Ids, Sent(id), ~WasRun(executed, id), executed' = executed,
           \A c : TornIn(stack, c) => TornIn(stack', c),
           \A c \in Holders : ac[c].freeing /\ stack # <<>> /\ Calls(stack[1], c) =>
              TornIn(stack', c) \/ (stack' # <<>> /\ Calls(stack'[1], c)),
           \A c \in Holders : stack' # <<>> /\ Calls(stack'[1], c) => stack # <<>> /\ Calls(stack[1], c),
           \A i \in 1 .. Len(stack') : stack'[i].kind \in {"cb", "teardown"} =>
              stack'[i].conn \in Holders /\ ac[stack'[i].conn].live
    PROVE  /\ Linked' /\ Doomed' /\ Addressed' /\ Kept' /\ Aligned'
           /\ \A c \in Holders : ac'[c].live /\ ~TornIn(stack', c) => Open(link'[c], executed')
<1>1. Linked'
  BY DEF Sent, Linked
<1>2. Doomed'
  BY DEF Inv, Doomed, Sent
<1>3. Aligned'
  BY DEF Aligned, Sent
<1>4. Addressed' /\ Kept'
  BY DEF Sent
<1>5. \A c \in Holders : ac'[c].live /\ ~TornIn(stack', c) => Open(link'[c], executed')
  BY DEF Sent
<1> QED BY <1>1, <1>2, <1>3, <1>4, <1>5

\* A command that was redirected is sent, and its callback returns.
LEMMA SentReturned ==
    ASSUME Inv, Running("cb"), Top.at \in {"start", "resend"}, Top.reply.type \in {"moved", "ask", "again"},
           Sent(Top.id), stack' = Returned,
           UNCHANGED <<clusterVars, executed, useSlots, table, updateTime, accErr, freed, undefined, issued, ran>>,
           sends' = [sends EXCEPT ![Top.id] = @ + 1], retries' \in [Ids -> 0 .. MaxRedirect],
           \A id \in Ids \ {Top.id} : retries'[id] = retries[id],
           sends[Top.id] <= retries'[Top.id]
    PROVE  Inv'
<1>0. Typed /\ Linked /\ Placed /\ Owned /\ Once /\ Paid
  BY DEF Inv
<1> DEFINE n == Len(stack)
<1>1. /\ stack # <<>> /\ n \in 1 .. n /\ Top = stack[n] /\ Top.kind = "cb" /\ Top.conn \in Holders /\ Top.id \in Ids
  BY <1>0, CbTop
<1>2. /\ stack' \in Seq(GoodFrame) /\ Shaped(stack')
      /\ \A c : TornIn(stack, c) => TornIn(stack', c)
      /\ \A c \in Holders : ac[c].freeing /\ stack # <<>> /\ Calls(stack[1], c) =>
            TornIn(stack', c) \/ (stack' # <<>> /\ Calls(stack'[1], c))
      /\ \A c \in Holders : stack' # <<>> /\ Calls(stack'[1], c) => stack # <<>> /\ Calls(stack[1], c)
      /\ \A i \in 1 .. Len(stack') :
            \/ i \in 1 .. Len(stack) /\ i # Len(stack) /\ stack'[i] = stack[i]
            \/ stack'[i].kind = "teardown" /\ stack'[i].conn = Top.conn
      /\ \A id : Frames(stack', id) = Frames(stack, id) \ {n}
  BY ReturnedFacts
<1>3. /\ Top.id \in 1 .. Len(issued) /\ Len(ran[Top.id]) = 0
      /\ Frames(stack, Top.id) = {n} /\ Spots(ac, Top.id) = {}
  BY ActiveTop
<1>4. ~WasRun(executed, Top.id)
  BY <1>0, <1>1 DEF Once
<1>5. /\ Linked' /\ Doomed' /\ Addressed' /\ Kept' /\ Aligned'
      /\ \A c \in Holders : ac'[c].live /\ ~TornIn(stack', c) => Open(link'[c], executed')
  <2>1. \A i \in 1 .. Len(stack') : stack'[i].kind \in {"cb", "teardown"} =>
              stack'[i].conn \in Holders /\ ac[stack'[i].conn].live
    BY <1>0, <1>1, <1>2, FrameConn DEF Linked
  <2>2. executed' = executed
    OBVIOUS
  <2> QED BY <1>1, <1>2, <1>4, <2>1, <2>2, SentConnections
<1>6. Routed'
  BY RoutedReturned DEF Sent
<1>7. /\ sends[Top.id] \in Nat /\ sends' \in [Ids -> Nat] /\ sends'[Top.id] = sends[Top.id] + 1
      /\ \A id \in Ids \ {Top.id} : sends'[id] = sends[id]
  BY <1>0, <1>1 DEF Typed
<1>8. Typed'
  <2>1. ClusterTyped'
    BY <1>0 DEF Typed, ClusterTyped, clusterVars, Sent
  <2> QED BY <1>0, <1>2, <1>7, <2>1 DEF Typed, Sent
<1>9. \A id \in Ids \ {Top.id} : Frames(stack', id) = Frames(stack, id) /\ Spots(ac', id) = Spots(ac, id)
  <2>1. \A id \in Ids \ {Top.id} : n \notin Frames(stack, id)
    BY <1>1 DEF Frames, Active
  <2>2. \A id \in Ids \ {Top.id} : Spots(ac', id) = Spots(ac, id)
    BY DEF Sent
  <2>3. \A id \in Ids \ {Top.id} : Frames(stack, id) \ {n} = Frames(stack, id)
    BY <2>1
  <2>4. \A id \in Ids \ {Top.id} : Frames(stack', id) = Frames(stack, id)
    BY <1>2, <2>3, Zenon
  <2> QED BY <2>2, <2>4
<1>10. Frames(stack', Top.id) = {} /\ Single(Spots(ac', Top.id))
  BY <1>2, <1>3 DEF Sent
<1>11. \A id \in 1 .. Len(issued) : id \in Ids
  BY <1>0, AsyncAssumption DEF Typed, Ids
<1>12. Placed'
  <2>1. ASSUME NEW id \in 1 .. Len(issued)
        PROVE  InOnePlace(Len(ran[id]), Frames(stack', id), Spots(ac', id))
    <3>1. CASE id = Top.id
      BY <1>3, <1>10, <3>1 DEF InOnePlace
    <3>2. CASE id # Top.id
      BY <1>0, <1>9, <1>11, <3>2 DEF Placed
    <3> QED BY <3>1, <3>2
  <2>2. ASSUME NEW id \in Ids, id > Len(issued)
        PROVE  Len(ran[id]) = 0 /\ Frames(stack', id) = {} /\ Spots(ac', id) = {}
    <3>1. id # Top.id
      BY SMTT(30), <1>0, <1>3, <2>2, AsyncAssumption DEF Typed, Ids
    <3> QED BY <1>0, <1>9, <2>2, <3>1 DEF Placed
  <2> QED BY <2>1, <2>2 DEF Placed
<1>13. Owned'
  BY ZenonT(60), <1>0, <1>2 DEF Owned, OwnReply
<1>14. Once'
  BY <1>0, <1>2, <1>5 DEF Once
<1>15. Paid'
  <2>1. \A id \in Ids : sends'[id] <= MaxRedirect + 1
    <3>1. retries'[Top.id] \in 0 .. MaxRedirect /\ MaxRedirect \in Nat
      BY <1>1, AsyncAssumption
    <3>2. sends'[Top.id] <= MaxRedirect + 1
      BY <1>7, <3>1
    <3> QED BY <1>0, <1>7, <3>2 DEF Paid
  <2>2. ASSUME NEW id \in Ids, id > Len(issued) PROVE sends'[id] = 0 /\ retries'[id] = 0
    <3>1. id # Top.id
      BY <1>0, <1>3, <2>2, AsyncAssumption DEF Typed, Ids
    <3> QED BY <1>0, <1>7, <2>2, <3>1 DEF Paid
  <2>3. ASSUME NEW id \in Ids, Spots(ac', id) # {} PROVE sends'[id] <= retries'[id] + 1
    <3>1. CASE id = Top.id
      BY <1>7, <3>1
    <3>2. CASE id # Top.id
      BY <1>0, <1>7, <1>9, <2>3, <3>2 DEF Paid
    <3> QED BY <3>1, <3>2
  <2>4. ASSUME NEW i \in 1 .. Len(stack'), stack'[i].kind = "cb"
        PROVE  /\ stack'[i].at = "start" => sends'[stack'[i].id] <= retries'[stack'[i].id] + 1
               /\ stack'[i].at = "resend" => sends'[stack'[i].id] <= retries'[stack'[i].id]
    <3>1. i \in 1 .. n /\ i # n /\ stack'[i] = stack[i]
      BY <1>2, <2>4
    <3>2. stack[i].id \in Ids
      BY <1>0, <2>4, <3>1, FrameConn
    <3>3. stack[i].at \in {"start", "resend"} => stack[i].id # Top.id
      <4>1. stack[i].at \in {"start", "resend"} /\ stack[i].id = Top.id => i \in Frames(stack, Top.id)
        BY <2>4, <3>1 DEF Frames, Active
      <4> QED BY <1>3, <3>1, <4>1
    <3>4. stack[i].at \in {"start", "resend"} =>
             retries'[stack[i].id] = retries[stack[i].id] /\ sends'[stack[i].id] = sends[stack[i].id]
      BY <1>7, <3>2, <3>3
    <3> HIDE DEF n
    <3> QED BY <1>0, <2>4, <3>1, <3>4 DEF Paid, n
  <2> QED BY <2>1, <2>2, <2>3, <2>4 DEF Paid
<1> QED BY <1>2, <1>5, <1>6, <1>8, <1>12, <1>13, <1>14, <1>15 DEF Inv

\* The slot of a command that was accepted.
LEMMA IssuedSlot ==
    ASSUME Inv, NEW id \in 1 .. Len(issued)
    PROVE  issued[id] \in Slots
  BY ElementType DEF Inv, Typed

\* The node of a slot, unless acc is being freed.
LEMMA SlotNode ==
    ASSUME Inv, ~freed, ~Releasing, NEW s \in Slots
    PROVE  /\ table[s] \in Pointers /\ table[s] \in Nodes /\ table[s] \notin Holders
           /\ node[table[s]].host = table[s]
<1>0. Typed /\ Routed /\ Addressed
  BY DEF Inv
<1>1. table[s] \in Nodes /\ table[s] \in Pointers /\ table[s] \notin Holders
  BY <1>0, KeyFacts DEF Typed
<1>2. DOMAIN stack = 1 .. Len(stack)
  BY <1>0 DEF Typed
<1>3. ~Ending
  BY <1>2 DEF Ending, Releasing
<1> QED BY <1>0, <1>1, <1>3 DEF Routed, Addressed

LEMMA ResendStep ==
    ASSUME Inv, Resend
    PROVE  Inv'
<1>0. Typed /\ Routed /\ Shaped(stack) /\ Paid
  BY DEF Inv
<1> DEFINE s == issued[Top.id]
           k == table[s]
<1>1. /\ Running("cb") /\ Top.at = "resend" /\ stack' = Returned
      /\ Submit(k, node[k].host, Top.id, s, FALSE)
      /\ UNCHANGED <<clusterVars, executed, useSlots, accVars, freed, undefined, issued, ran>>
  BY DEF Resend, AtPoint
<1>2. /\ stack # <<>> /\ Len(stack) \in 1 .. Len(stack) /\ Top = stack[Len(stack)] /\ Top.kind = "cb" /\ Top.id \in Ids
  BY <1>0, <1>1, CbTop
<1>3. Top.reply.type = "moved"
  BY <1>0, <1>1, <1>2 DEF Shaped
<1>4. ~freed /\ ~Releasing
  BY <1>0, <1>1, <1>2, <1>3, OnlyCall DEF Routed
<1>5. Top.id \in 1 .. Len(issued)
  BY <1>1, ActiveTop
<1>6. s \in Slots
  BY <1>5, IssuedSlot
<1> HIDE DEF s
<1>7. k \in Pointers /\ k \in Nodes /\ k \notin Holders /\ node[k].host = k
  BY <1>4, <1>6, SlotNode
<1> HIDE DEF k
<1>8. Sent(Top.id)
  <2>1. Submit(k, k, Top.id, s, FALSE)
    BY <1>1, <1>7
  <2>2. FALSE \in BOOLEAN
    OBVIOUS
  <2> QED BY <1>2, <1>6, <1>7, <2>1, <2>2, SubmitSent
<1>9. sends' = [sends EXCEPT ![Top.id] = @ + 1]
  BY <1>1 DEF Submit
<1>10. sends[Top.id] <= retries[Top.id]
  BY <1>0, <1>1, <1>2 DEF Paid
<1>11. /\ UNCHANGED <<clusterVars, executed, useSlots, table, updateTime, accErr, freed, undefined, issued, ran>>
       /\ retries' = retries
  BY <1>1 DEF accVars
<1>12. retries' \in [Ids -> 0 .. MaxRedirect] /\ (\A id \in Ids \ {Top.id} : retries'[id] = retries[id]) /\ sends[Top.id] <= retries'[Top.id]
  BY <1>0, <1>10, <1>11 DEF Typed
<1> QED BY <1>1, <1>3, <1>8, <1>9, <1>11, <1>12, SentReturned

\* The node that an ASK names, or the new one.
LEMMA AskTarget ==
    ASSUME Inv, Running("cb"), Top.at # "user", Top.reply.type = "ask",
           NEW k, k = AskNode(Top.reply.to, issued[Top.id]), k \in Holders => Spare # {}
    PROVE  /\ Top.reply.to \in Nodes /\ issued[Top.id] \in Slots
           /\ k \in Pointers /\ (k \in Nodes => Top.reply.to = k) /\ (node[k].acon # None => node[k].host = Top.reply.to)
           /\ k \in Holders => k = Fresh /\ k \in Spare
<1>0. Typed /\ Linked /\ Addressed
  BY DEF Inv
<1> DEFINE s == issued[Top.id]
           to == Top.reply.to
<1>3. Top.reply \in GoodAnswer
  BY <1>0, CbTop
<1>4. to \in Nodes
  BY <1>3 DEF GoodAnswer
<1>5. Top.id \in 1 .. Len(issued)
  BY ActiveTop
<1>6. s \in Slots
  BY <1>5, IssuedSlot
<1> HIDE DEF s, to
<1>7. \/ k = to /\ node[to].host # None
      \/ k = s /\ node[s].host = None
      \/ k = Fresh
  BY DEF AskNode, s, to
<1>8. Spare # {} => Fresh \in Holders /\ Fresh \in Spare
  <2>1. Spare # {} => \E x \in Holders : Spare # {} => x \in Spare
    BY DEF Spare
  <2> QED BY <2>1 DEF Fresh
<1>9. Fresh \in Holders
  <2>1. Top.conn \in Holders
    BY <1>0, CbTop
  <2>2. \E x \in Holders : Spare # {} => x \in Spare
    BY <2>1 DEF Spare
  <2> QED BY <2>2 DEF Fresh
<1>10. /\ k \in Pointers /\ (k \in Nodes => to = k) /\ (node[k].acon # None => node[k].host = to)
       /\ (k \in Holders => k = Fresh /\ k \in Spare)
  <2>1. CASE k = to /\ node[to].host # None
    BY <1>0, <1>4, <2>1, KeyFacts DEF Addressed
  <2>2. CASE k = s /\ node[s].host = None
    BY <1>0, <1>6, <2>2, KeyFacts DEF Addressed
  <2>3. CASE k = Fresh
    <3>1. k \in Holders /\ k \in Spare /\ k \in Pointers /\ k \notin Nodes
      BY <1>8, <1>9, <2>3, KeyFacts
    <3>2. node[k].acon = None
      <4>1. ~ac[k].live
        BY <3>1 DEF Spare
      <4>2. node[k].acon \in {None, k}
        BY <1>0, <3>1 DEF Addressed
      <4> QED BY <1>0, <3>1, <4>1, <4>2, KeyFacts DEF Linked
    <3> QED BY <2>3, <3>1, <3>2
  <2> QED BY <1>7, <2>1, <2>2, <2>3
<1> QED BY <1>4, <1>6, <1>10 DEF s, to

LEMMA AskStep ==
    ASSUME Inv, Ask
    PROVE  Inv'
<1>0. Typed /\ Paid
  BY DEF Inv
<1> DEFINE s == issued[Top.id]
           to == Top.reply.to
           k == AskNode(to, s)
<1>1. /\ Redirected("ask") /\ (k \in Holders => Spare # {}) /\ Submit(k, to, Top.id, s, TRUE) /\ stack' = Returned
      /\ UNCHANGED <<clusterVars, executed, useSlots, table, updateTime, accErr, freed, undefined, issued, ran>>
  BY DEF Ask
<1>2. /\ Running("cb") /\ Top.at = "start" /\ Top.reply.type = "ask" /\ Top.id \in Ids
      /\ retries' \in [Ids -> 0 .. MaxRedirect]
      /\ \A id \in Ids \ {Top.id} : retries'[id] = retries[id]
      /\ retries'[Top.id] = retries[Top.id] + 1
  BY <1>1, RetryCounted
<1>3. Len(stack) \in 1 .. Len(stack) /\ Top = stack[Len(stack)] /\ Top.kind = "cb"
  BY <1>0, <1>2, CbTop
<1>4. /\ to \in Nodes /\ s \in Slots
      /\ k \in Pointers /\ (k \in Nodes => to = k) /\ (node[k].acon # None => node[k].host = to)
      /\ (k \in Holders => k = Fresh /\ k \in Spare)
  BY <1>1, <1>2, AskTarget
<1> HIDE DEF k, to, s
<1>11. Sent(Top.id)
  <2>1. TRUE \in BOOLEAN /\ Submit(k, to, Top.id, s, TRUE)
    BY <1>1 DEF k, to, s
  <2> QED BY <1>2, <1>4, <2>1, SubmitSent
<1>12. sends' = [sends EXCEPT ![Top.id] = @ + 1]
  BY <1>1 DEF Submit
<1>13. sends[Top.id] <= retries'[Top.id]
  BY <1>0, <1>2, <1>3 DEF Paid
<1> QED BY <1>1, <1>2, <1>11, <1>12, <1>13, SentReturned

LEMMA TryAgainStep ==
    ASSUME Inv, TryAgain
    PROVE  Inv'
<1>0. Typed /\ Linked /\ Paid
  BY DEF Inv
<1>1. /\ Running("cb") /\ Top.at = "start" /\ Top.reply.type = "again" /\ Top.id \in Ids
      /\ retries' \in [Ids -> 0 .. MaxRedirect]
      /\ \A id \in Ids \ {Top.id} : retries'[id] = retries[id]
      /\ retries'[Top.id] = retries[Top.id] + 1
  BY RetryCounted DEF TryAgain
<1> DEFINE s == issued[Top.id]
           c == Top.conn
<1>2. /\ link' = [link EXCEPT ![c] = Queued(link[c], Top.id, s, FALSE)]
      /\ ac' = [ac EXCEPT ![c] = Waiting(ac[c], Top.id, FALSE)]
      /\ sends' = [sends EXCEPT ![Top.id] = @ + 1] /\ stack' = Returned
      /\ UNCHANGED <<clusterVars, executed, useSlots, table, updateTime, accErr, freed, undefined, issued, ran>>
      /\ UNCHANGED <<node, notReached>>
  BY DEF TryAgain
<1>3. Len(stack) \in 1 .. Len(stack) /\ Top = stack[Len(stack)] /\ Top.kind = "cb" /\ Top.conn \in Holders
  BY <1>0, <1>1, CbTop
<1>4. ac[c].live /\ ~ac[c].err
  <2>1. Len(stack) = 1 /\ ~TornIn(stack, c)
    BY <1>1, <1>3, OnlyCall
  <2>2. stack # <<>> /\ Calls(stack[1], c)
    BY <1>0, <1>1, <1>3, <2>1, CbTop DEF Calls
  <2>3. ~ac[c].err
    BY <1>3, <2>1, <2>2 DEF Inv, Doomed
  <2> QED BY <1>0, <1>3, <2>3 DEF Linked
<1>5. s \in Slots
  BY <1>1, ActiveTop, IssuedSlot
<1> HIDE DEF s
<1>6. Sent(Top.id)
  BY <1>1, <1>2, <1>3, <1>4, <1>5, AgainSent
<1>7. sends[Top.id] <= retries'[Top.id]
  BY <1>0, <1>1, <1>3 DEF Paid
<1> QED BY <1>1, <1>2, <1>6, <1>7, SentReturned

LEMMA CommandStep ==
    ASSUME Inv, NEW s \in Slots, Command(s)
    PROVE  Inv'
<1>0. Typed /\ Shaped(stack) /\ Linked /\ Routed /\ Placed /\ Owned /\ Once /\ Paid
  BY DEF Inv
<1> DEFINE k == table[s]
           id == Len(issued) + 1
<1>1. /\ ~freed /\ ~Releasing /\ Len(issued) < MaxCalls /\ issued' = Append(issued, s) /\ accErr' = FALSE
      /\ Submit(k, node[k].host, Len(issued'), s, FALSE)
      /\ UNCHANGED <<clusterVars, executed, useSlots, table, updateTime, retries, stack, freed, undefined, ran>>
  BY DEF Command, AppMayCall
<1>2. /\ issued \in Seq(Slots) /\ Len(issued) \in Nat /\ issued' \in Seq(Slots) /\ Len(issued') = id
  <2>1. issued \in Seq(Slots)
    BY <1>0 DEF Typed
  <2>2. Append(issued, s) \in Seq(Slots) /\ Len(Append(issued, s)) = Len(issued) + 1
    BY <2>1, AppendType, AppendFacts
  <2> QED BY <1>1, <2>1, <2>2
<1>3. id \in Ids /\ id \in Nat /\ id <= MaxCalls /\ id > Len(issued) /\ MaxCalls \in Nat
  BY <1>1, <1>2, AsyncAssumption DEF Ids
<1>4. k \in Pointers /\ k \in Nodes /\ k \notin Holders /\ node[k].host = k
  BY <1>1, SlotNode
<1> HIDE DEF k
<1>5. Sent(id)
  <2>1. Submit(k, k, id, s, FALSE) /\ FALSE \in BOOLEAN
    BY <1>1, <1>2, <1>4
  <2> HIDE DEF id
  <2> QED BY <1>3, <1>4, <2>1, SubmitSent
<1>6. sends' = [sends EXCEPT ![id] = @ + 1]
  BY <1>1, <1>2 DEF Submit
<1>7. /\ Len(ran[id]) = 0 /\ Frames(stack, id) = {} /\ Spots(ac, id) = {}
      /\ sends[id] = 0 /\ retries[id] = 0
  BY <1>0, <1>3 DEF Placed, Paid
<1>8. \A i \in 1 .. id : i \in 1 .. Len(issued) \/ i = id
  BY <1>2
<1>9. \A i \in 1 .. Len(issued) : i # id /\ i \in Ids /\ i \in 1 .. id
  BY <1>2, <1>3 DEF Ids
<1>10. ~WasRun(executed, id)
  BY <1>0, <1>9 DEF Once, WasRun
<1> HIDE DEF id
<1>11. /\ sends' \in [Ids -> Nat] /\ sends'[id] = 1 /\ \A i \in Ids \ {id} : sends'[i] = sends[i]
  BY <1>0, <1>3, <1>6, <1>7 DEF Typed
<1>12. /\ Linked' /\ Doomed' /\ Addressed' /\ Kept' /\ Aligned'
       /\ \A c \in Holders : ac'[c].live /\ ~TornIn(stack', c) => Open(link'[c], executed')
  <2>1. /\ \A c : TornIn(stack, c) => TornIn(stack', c)
        /\ \A c \in Holders : ac[c].freeing /\ stack # <<>> /\ Calls(stack[1], c) =>
              TornIn(stack', c) \/ (stack' # <<>> /\ Calls(stack'[1], c))
        /\ \A c \in Holders : stack' # <<>> /\ Calls(stack'[1], c) => stack # <<>> /\ Calls(stack[1], c)
        /\ executed' = executed
    BY <1>1
  <2>2. \A i \in 1 .. Len(stack') : stack'[i].kind \in {"cb", "teardown"} =>
              stack'[i].conn \in Holders /\ ac[stack'[i].conn].live
    BY <1>0, <1>1, FrameConn DEF Linked
  <2> QED BY <1>3, <1>5, <1>10, <2>1, <2>2, SentConnections
<1>13. Typed'
  <2>1. ClusterTyped'
    BY <1>0, <1>1, <1>5 DEF Typed, ClusterTyped, clusterVars, Sent
  <2> QED BY <1>0, <1>1, <1>2, <1>3, <1>5, <1>11, <2>1 DEF Typed, Sent
<1>14. Routed'
  <2>1. Ending <=> Ending'
    BY <1>1 DEF Ending
  <2>2. \A x \in Slots : node[table[x]].host # None => node'[table'[x]].host # None
    BY <1>0, <1>1, <1>5, KeyFacts DEF Typed, Sent
  <2> QED BY <1>0, <1>1, <2>1, <2>2 DEF Routed
<1>15. Placed'
  <2>1. ASSUME NEW i \in 1 .. id PROVE InOnePlace(Len(ran[i]), Frames(stack, i), Spots(ac', i))
    <3>1. CASE i = id
      BY <1>5, <1>7, <3>1 DEF InOnePlace, Sent
    <3>2. CASE i # id
      <4>1. i \in 1 .. Len(issued) /\ i \in Ids
        BY <1>8, <1>9, <3>2
      <4>2. Spots(ac', i) = Spots(ac, i)
        BY <1>5, <3>2, <4>1 DEF Sent
      <4> QED BY <1>0, <4>1, <4>2 DEF Placed
    <3> QED BY <3>1, <3>2
  <2>2. ASSUME NEW i \in Ids, i > id PROVE Len(ran[i]) = 0 /\ Frames(stack, i) = {} /\ Spots(ac', i) = {}
    <3>1. i > Len(issued) /\ i # id
      BY <1>2, <1>3, <2>2 DEF Ids, id
    <3>2. Spots(ac', i) = Spots(ac, i)
      BY <1>5, <3>1 DEF Sent
    <3> QED BY <1>0, <3>1, <3>2 DEF Placed
  <2> QED BY <1>1, <1>2, <2>1, <2>2 DEF Placed
<1>16. Owned'
  BY <1>0, <1>1 DEF Owned, OwnReply
<1>17. Once'
  <2>1. \A e \in 1 .. Len(executed') : executed'[e].id \in 1 .. Len(issued')
    BY <1>0, <1>1, <1>2, <1>9 DEF Once
  <2> QED BY <1>0, <1>1, <1>12, <2>1 DEF Once
<1>18. Paid'
  <2>1. \A i \in Ids : sends'[i] <= MaxRedirect + 1
    BY <1>0, <1>11, AsyncAssumption DEF Paid
  <2>2. ASSUME NEW i \in Ids, i > id PROVE sends'[i] = 0 /\ retries[i] = 0
    <3>1. i > Len(issued) /\ i # id
      BY <1>2, <1>3, <2>2 DEF Ids, id
    <3> QED BY <1>0, <1>11, <3>1 DEF Paid
  <2>3. ASSUME NEW i \in Ids, Spots(ac', i) # {} PROVE sends'[i] <= retries[i] + 1
    <3>1. CASE i = id
      BY <1>7, <1>11, <3>1
    <3>2. CASE i # id
      <4>1. Spots(ac, i) # {}
        BY <1>5, <2>3, <3>2 DEF Sent
      <4> QED BY <1>0, <1>11, <3>2, <4>1 DEF Paid
    <3> QED BY <3>1, <3>2
  <2>4. ASSUME NEW i \in 1 .. Len(stack), stack[i].kind = "cb"
        PROVE  /\ stack[i].at = "start" => sends'[stack[i].id] <= retries[stack[i].id] + 1
               /\ stack[i].at = "resend" => sends'[stack[i].id] <= retries[stack[i].id]
    <3>1. stack[i].id \in Ids
      BY <1>0, <2>4, FrameConn
    <3>2. stack[i].at \in {"start", "resend"} => stack[i].id # id
      <4>1. stack[i].at \in {"start", "resend"} /\ stack[i].id = id => i \in Frames(stack, id)
        BY <2>4 DEF Frames, Active
      <4> QED BY <1>7, <4>1
    <3> QED BY <1>0, <1>11, <2>4, <3>1, <3>2 DEF Paid
  <2> QED BY <1>1, <1>2, <2>1, <2>2, <2>3, <2>4 DEF Paid
<1>19. Shaped(stack')
  BY <1>0, <1>1
<1> QED BY <1>12, <1>13, <1>14, <1>15, <1>16, <1>17, <1>18, <1>19 DEF Inv

-----------------------------------------------------------------------------
(* A connection that fails at once. *)

\* Nothing waits on it, and the other connections stay as they are.
Refused ==
    /\ link' \in [Holders -> GoodLink] /\ ac' \in [Holders -> ActxType] /\ node' \in [Pointers -> NodeType]
    /\ \A p \in Pointers : node'[p].acon # None => ac'[node'[p].acon].live /\ ac'[node'[p].acon].data = p
    /\ \A c \in Holders : ~ac'[c].live => ac'[c] = NoActx /\ link'[c] = NoLink
    /\ \A c \in Holders : ac'[c].live => ac'[c].data # None
    /\ \A c \in Holders : ac'[c].queue = ac[c].queue /\ ac'[c].freeing = ac[c].freeing
    /\ \A c \in Holders : ac[c].live => ac'[c] = ac[c]
    /\ \A c \in Holders : ~ac[c].live => ac[c].queue = <<>>
    /\ \A c \in Holders : ac'[c].live /\ ~TornIn(stack, c) =>
          Match(link'[c], ac'[c].queue) /\ Open(link'[c], executed)
    /\ Addressed' /\ Kept' /\ notReached' \in BOOLEAN
    /\ \A p \in Pointers : node[p].host # None => node'[p].host # None

LEMMA SubmitRefused ==
    ASSUME Inv, NEW k \in Pointers, NEW host \in Nodes,
           k \in Nodes => host = k, node[k].acon # None => node[k].host = host,
           k \in Holders => k = Fresh /\ k \in Spare,
           SubmitFails(k, host)
    PROVE  Refused
<1>0. Typed /\ Linked /\ Addressed /\ Kept /\ Aligned /\ Once
  BY DEF Inv
<1> DEFINE c == Fresh
           l0 == NewLink("broken", host)
           a0 == [NoActx EXCEPT !.live = TRUE, !.err = TRUE, !.data = k]
<1>1. /\ Spare # {}
      /\ node' = [node EXCEPT ![k] = [@ EXCEPT !.host = host, !.acon = c]]
      /\ link' = [link EXCEPT ![c] = l0] /\ ac' = [ac EXCEPT ![c] = a0]
      /\ notReached' = (notReached \/ node[k].acon # None)
  BY DEF SubmitFails
<1>2. node[k] \in NodeType /\ node \in [Pointers -> NodeType] /\ ac \in [Holders -> ActxType] /\ link \in [Holders -> GoodLink]
  BY <1>0 DEF Typed, ClusterTyped
<1>3. c \in Holders /\ c \in Spare
  <2>1. \E x \in Holders : Spare # {} => x \in Spare
    BY <1>1 DEF Spare
  <2> QED BY <1>1, <2>1 DEF Fresh
<1>4. ~ac[c].live /\ ac[c] = NoActx /\ link[c] = NoLink
  BY <1>0, <1>3 DEF Linked, Spare
<1>5. l0 \in GoodLink /\ l0.peer = host /\ Match(l0, <<>>) /\ Open(l0, executed)
  BY NewLinkType, NewLinkFacts
<1>6. a0 \in ActxType /\ a0.live /\ a0.queue = <<>> /\ ~a0.freeing /\ a0.data = k
  <2>1. <<>> \in Seq(0 .. MaxCalls)
    OBVIOUS
  <2>2. NoActx \in ActxType /\ NoActx.queue = <<>> /\ ~NoActx.freeing
    BY <2>1 DEF NoActx, ActxType
  <2>3. a0 \in ActxType
    BY <2>2 DEF ActxType
  <2>4. a0.live /\ a0.queue = NoActx.queue /\ a0.freeing = NoActx.freeing /\ a0.data = k
    BY <2>2 DEF ActxType
  <2> QED BY <2>2, <2>3, <2>4
<1> HIDE DEF c, l0, a0
<1>7. /\ link' \in [Holders -> GoodLink] /\ ac' \in [Holders -> ActxType]
      /\ ac'[c] = a0 /\ link'[c] = l0 /\ \A x \in Holders \ {c} : ac'[x] = ac[x] /\ link'[x] = link[x]
  BY <1>1, <1>2, <1>3, <1>5, <1>6
<1>8. /\ node' \in [Pointers -> NodeType] /\ node'[k].host = host /\ node'[k].acon = c
      /\ \A p \in Pointers \ {k} : node'[p] = node[p]
  BY <1>1, <1>2, <1>3 DEF NodeType
<1>9. /\ \A x \in Holders : ac'[x].queue = ac[x].queue /\ ac'[x].freeing = ac[x].freeing
      /\ \A x \in Holders : ac[x].live => ac'[x] = ac[x] /\ x # c
      /\ \A x \in Holders : ~ac[x].live => ac[x].queue = <<>>
  <2>1. NoActx.queue = <<>> /\ NoActx.freeing = FALSE
    BY DEF NoActx
  <2>2. a0.freeing = FALSE
    BY <1>6 DEF ActxType
  <2> QED BY <1>0, <1>4, <1>6, <1>7, <2>1, <2>2 DEF Linked
<1>10. \A p \in Pointers : node[p].acon # None =>
          node[p].acon \in Holders \ {c} /\ ac[node[p].acon].live /\ ac[node[p].acon].data = p
  BY <1>0, <1>2, <1>4 DEF Linked, NodeType
<1>11. \A p \in Pointers : node'[p].acon # None => ac'[node'[p].acon].live /\ ac'[node'[p].acon].data = p
  <2> SUFFICES ASSUME NEW p \in Pointers, node'[p].acon # None
               PROVE  ac'[node'[p].acon].live /\ ac'[node'[p].acon].data = p
    OBVIOUS
  <2>1. CASE p = k
    BY <1>6, <1>7, <1>8, <2>1
  <2>2. CASE p # k
    BY <1>7, <1>8, <1>10, <2>2
  <2> QED BY <2>1, <2>2
<1>12. \A x \in Holders : ~ac'[x].live => ac'[x] = NoActx /\ link'[x] = NoLink
  BY <1>0, <1>6, <1>7 DEF Linked
<1>13. \A x \in Holders : ac'[x].live => ac'[x].data # None
  <2>1. k # None
    BY KeyFacts
  <2> QED BY <1>0, <1>6, <1>7, <2>1 DEF Linked
<1>14. \A x \in Holders : ac'[x].live /\ ~TornIn(stack, x) =>
          Match(link'[x], ac'[x].queue) /\ Open(link'[x], executed)
  <2> SUFFICES ASSUME NEW x \in Holders, ac'[x].live, ~TornIn(stack, x)
               PROVE  Match(link'[x], ac'[x].queue) /\ Open(link'[x], executed)
    OBVIOUS
  <2>1. CASE x = c
    BY <1>5, <1>6, <1>7, <2>1
  <2>2. CASE x # c
    BY <1>0, <1>7, <2>2 DEF Aligned, Once
  <2> QED BY <2>1, <2>2
<1>15. Addressed'
  <2> SUFFICES ASSUME NEW p \in Pointers
               PROVE  /\ p \in Nodes => node'[p].host \in {None, p}
                      /\ node'[p].host = None => node'[p].acon = None
                      /\ p \in Holders => node'[p].acon \in {None, p}
                      /\ node'[p].acon # None => link'[node'[p].acon].peer = node'[p].host
    BY DEF Addressed
  <2>1. CASE p = k
    <3>1. host # None
      BY KeyFacts
    <3>2. k \in Holders => c = k
      BY DEF c
    <3> QED BY <1>5, <1>7, <1>8, <2>1, <3>1, <3>2
  <2>2. CASE p # k
    <3>1. node'[p] = node[p]
      BY <1>8, <2>2
    <3>2. node[p].acon # None => link'[node[p].acon] = link[node[p].acon]
      BY <1>7, <1>10
    <3> QED BY <1>0, <3>1, <3>2 DEF Addressed
  <2> QED BY <2>1, <2>2
<1>16. Kept'
  <2> SUFFICES ASSUME ~notReached', NEW x \in Holders, ac'[x].live
               PROVE  \/ ac'[x].data \in Pointers /\ node'[ac'[x].data].acon = x
                      \/ ac'[x].data = Dangling /\ ac'[x].freeing
    BY DEF Kept
  <2>0. ~notReached /\ node[k].acon = None
    BY <1>0, <1>1 DEF Typed
  <2>1. CASE x = c
    BY <1>6, <1>7, <1>8, <2>1
  <2>2. CASE x # c
    <3>1. ac'[x] = ac[x] /\ x # None
      BY <1>7, <2>2, KeyFacts
    <3>2. \/ ac[x].data \in Pointers /\ node[ac[x].data].acon = x
          \/ ac[x].data = Dangling /\ ac[x].freeing
      BY <1>0, <2>0, <3>1 DEF Kept
    <3> QED BY <1>8, <2>0, <3>1, <3>2
  <2> QED BY <2>1, <2>2
<1>17. notReached' \in BOOLEAN
  BY <1>1
<1>18. \A p \in Pointers : node[p].host # None => node'[p].host # None
  BY <1>8, KeyFacts
<1> QED BY <1>7, <1>8, <1>9, <1>11, <1>12, <1>13, <1>14, <1>15, <1>16, <1>17, <1>18 DEF Refused

LEMMA RefusedConnections ==
    ASSUME Inv, Refused, executed' = executed,
           \A c : TornIn(stack', c) <=> TornIn(stack, c),
           stack' # <<>> <=> stack # <<>>,
           stack # <<>> => \A c : Calls(stack'[1], c) <=> Calls(stack[1], c),
           \A i \in 1 .. Len(stack') : stack'[i].kind \in {"cb", "teardown"} =>
              i \in 1 .. Len(stack) /\ stack'[i].kind = stack[i].kind /\ stack'[i].conn = stack[i].conn
    PROVE  Linked' /\ Doomed' /\ Addressed' /\ Kept' /\ Aligned'
<1>0. Typed /\ Linked /\ Doomed
  BY DEF Inv
<1>1. Linked'
  <2>1. \A i \in 1 .. Len(stack') : stack'[i].kind \in {"cb", "teardown"} => ac'[stack'[i].conn].live
    BY <1>0, FrameConn DEF Linked, Refused
  <2> QED BY <2>1 DEF Refused, Linked
<1>2. Doomed'
  <2>1. ASSUME NEW c \in Holders, ac'[c].err
        PROVE  TornIn(stack', c) \/ (ac'[c].queue = <<>> /\ ~(stack' # <<>> /\ Calls(stack'[1], c)))
    <3>1. CASE ac[c].live
      BY <1>0, <2>1, <3>1 DEF Doomed, Refused
    <3>2. CASE ~ac[c].live
      <4>1. ac'[c].queue = <<>>
        BY <3>2 DEF Refused
      <4>2. stack # <<>> => 1 \in 1 .. Len(stack)
        BY <1>0, TailFacts DEF Typed
      <4>3. stack # <<>> => ~Calls(stack[1], c)
        BY <1>0, <3>2, <4>2 DEF Linked, Calls
      <4> QED BY <4>1, <4>3
    <3> QED BY <3>1, <3>2
  <2>2. \A c \in Holders : ac'[c].freeing => TornIn(stack', c) \/ (stack' # <<>> /\ Calls(stack'[1], c))
    BY <1>0 DEF Doomed, Refused
  <2> QED BY <2>1, <2>2 DEF Doomed
<1>3. Aligned' /\ Addressed' /\ Kept'
  BY DEF Aligned, Refused
<1> QED BY <1>1, <1>2, <1>3

\* The command is not sent again: its callback goes on with the error.
LEMMA RefusedCall ==
    ASSUME Inv, Running("cb"), Top.at # "user", Refused, stack' = Continue("done"), accErr' = TRUE,
           UNCHANGED <<clusterVars, executed, useSlots, table, updateTime, freed, undefined, issued, sends, ran>>,
           retries' \in [Ids -> 0 .. MaxRedirect], \A id \in Ids \ {Top.id} : retries'[id] = retries[id]
    PROVE  Inv'
<1>0. Typed /\ Routed
  BY DEF Inv
<1> DEFINE f == [Top EXCEPT !.at = "done"]
<1>1. /\ f \in CbFrame /\ f.conn = Top.conn /\ f.id = Top.id /\ f.reply = Top.reply
      /\ f.at = "done" /\ stack' = [stack EXCEPT ![Len(stack)] = f]
  BY <1>0, ContinueFrame
<1> HIDE DEF f
<1>2. /\ stack' \in Seq(GoodFrame) /\ stack' # <<>> /\ Shaped(stack')
      /\ \A c : TornIn(stack', c) <=> TornIn(stack, c)
      /\ \A c : Calls(stack'[1], c) <=> Calls(stack[1], c)
      /\ \A i \in 1 .. Len(stack') : stack'[i].kind \in {"cb", "teardown"} =>
             i \in 1 .. Len(stack) /\ stack'[i].kind = stack[i].kind /\ stack'[i].conn = stack[i].conn
      /\ \A i \in 1 .. Len(stack') : stack'[i].kind = "release" =>
                 \/ i \in 1 .. Len(stack) /\ stack'[i] = stack[i]
                 \/ i = Len(stack) + 1 /\ ~stack'[i].last
      /\ \A i \in 1 .. Len(stack) : stack[i].kind = "release" => i \in 1 .. Len(stack') /\ stack'[i] = stack[i]
      /\ ~freed
  BY <1>1, StackGoesOn
<1>3. stack # <<>> /\ Len(stack) \in Nat /\ Len(stack') = Len(stack)
  BY <1>0, <1>1, ReplaceTop, CbTop DEF GoodFrame
<1>4. \A i \in 1 .. Len(stack') : stack'[i].kind = "release" => i \in 1 .. Len(stack) /\ stack'[i] = stack[i]
  BY <1>2, <1>3
<1>5. Linked' /\ Doomed' /\ Addressed' /\ Kept' /\ Aligned'
  BY <1>2, <1>3, RefusedConnections
<1>6. Placed' /\ Owned' /\ Once' /\ Paid'
  BY <1>1, CommandsKept DEF Refused
<1>7. Typed'
  <2>1. ClusterTyped'
    BY <1>0 DEF Typed, ClusterTyped, clusterVars, Refused
  <2> QED BY <1>0, <1>2, <2>1 DEF Typed, Refused
<1>8. Routed'
  <2>1. Ending <=> Ending'
    BY <1>2, <1>4 DEF Ending
  <2>2. \A s \in Slots : node[table[s]].host # None => node'[table'[s]].host # None
    BY <1>0, KeyFacts DEF Typed, Refused
  <2> QED BY <1>0, <1>2, <1>4, <2>1, <2>2 DEF Routed
<1> QED BY <1>2, <1>5, <1>6, <1>7, <1>8 DEF Inv

LEMMA ResendFailsStep ==
    ASSUME Inv, ResendFails
    PROVE  Inv'
<1>0. Typed /\ Routed /\ Shaped(stack)
  BY DEF Inv
<1> DEFINE s == issued[Top.id]
           k == table[s]
<1>1. /\ Running("cb") /\ Top.at = "resend" /\ stack' = Continue("done")
      /\ SubmitFails(k, node[k].host) /\ retries' = retries
      /\ UNCHANGED <<clusterVars, executed, useSlots, table, updateTime, freed, undefined, issued, sends, ran>>
  BY DEF ResendFails, AtPoint
<1>2. Len(stack) \in 1 .. Len(stack) /\ Top = stack[Len(stack)] /\ Top.kind = "cb"
  BY <1>0, <1>1, CbTop
<1>3. Top.reply.type = "moved"
  BY <1>0, <1>1, <1>2 DEF Shaped
<1>4. ~freed /\ ~Releasing
  BY <1>0, <1>1, <1>2, <1>3, OnlyCall DEF Routed
<1>5. s \in Slots
  BY <1>1, ActiveTop, IssuedSlot
<1> HIDE DEF s
<1>6. k \in Pointers /\ k \in Nodes /\ k \notin Holders /\ node[k].host = k
  BY <1>4, <1>5, SlotNode
<1>7. accErr' = TRUE
  BY <1>1 DEF SubmitFails
<1> HIDE DEF k
<1>8. Refused
  BY <1>1, <1>6, SubmitRefused
<1>9. retries' \in [Ids -> 0 .. MaxRedirect] /\ \A id \in Ids \ {Top.id} : retries'[id] = retries[id]
  BY <1>0, <1>1 DEF Typed
<1> QED BY <1>1, <1>7, <1>8, <1>9, RefusedCall

LEMMA AskFailsStep ==
    ASSUME Inv, AskFails
    PROVE  Inv'
<1> DEFINE s == issued[Top.id]
           to == Top.reply.to
           k == AskNode(to, s)
<1>1. /\ Redirected("ask") /\ SubmitFails(k, to) /\ stack' = Continue("done")
      /\ UNCHANGED <<clusterVars, executed, useSlots, table, updateTime, freed, undefined, issued, sends, ran>>
  BY DEF AskFails
<1>2. /\ Running("cb") /\ Top.at = "start" /\ Top.reply.type = "ask"
      /\ retries' \in [Ids -> 0 .. MaxRedirect]
      /\ \A id \in Ids \ {Top.id} : retries'[id] = retries[id]
  BY <1>1, RetryCounted
<1>3. Spare # {} /\ accErr' = TRUE
  BY <1>1 DEF SubmitFails
<1>4. /\ to \in Nodes /\ k \in Pointers /\ (k \in Nodes => to = k) /\ (node[k].acon # None => node[k].host = to)
      /\ (k \in Holders => k = Fresh /\ k \in Spare)
  BY <1>2, <1>3, AskTarget
<1> HIDE DEF k, to, s
<1>5. Refused
  BY <1>1, <1>4, SubmitRefused
<1> QED BY <1>1, <1>2, <1>3, <1>5, RefusedCall

LEMMA CommandRefusedStep ==
    ASSUME Inv, NEW s \in Slots, CommandRefused(s)
    PROVE  Inv'
<1>0. Typed /\ Shaped(stack) /\ Routed /\ Placed /\ Owned /\ Once /\ Paid
  BY DEF Inv
<1> DEFINE k == table[s]
<1>1. /\ ~freed /\ ~Releasing /\ SubmitFails(k, node[k].host)
      /\ UNCHANGED <<clusterVars, executed, useSlots, table, updateTime, retries, stack, freed, undefined>>
      /\ UNCHANGED <<issued, sends, ran>>
  BY DEF CommandRefused, AppMayCall
<1>2. k \in Pointers /\ k \in Nodes /\ k \notin Holders /\ node[k].host = k
  BY <1>1, SlotNode
<1>3. accErr' = TRUE
  BY <1>1 DEF SubmitFails
<1> HIDE DEF k
<1>4. Refused
  BY <1>1, <1>2, SubmitRefused
<1>5. Linked' /\ Doomed' /\ Addressed' /\ Kept' /\ Aligned'
  BY <1>1, <1>4, RefusedConnections
<1>6. \A id : Spots(ac', id) = Spots(ac, id)
  <2>1. \A c \in Holders : ac'[c].queue = ac[c].queue
    BY <1>4 DEF Refused
  <2> QED BY <2>1, SpotsSame
<1>7. Placed' /\ Paid'
  BY <1>0, <1>1, <1>6 DEF Placed, Paid
<1>8. Owned'
  BY <1>0, <1>1 DEF Owned, OwnReply
<1>9. Once'
  BY <1>0, <1>1, <1>4 DEF Once, Refused
<1>10. Typed'
  <2>1. ClusterTyped'
    BY <1>0, <1>1, <1>4 DEF Typed, ClusterTyped, clusterVars, Refused
  <2> QED BY <1>0, <1>1, <1>3, <1>4, <2>1 DEF Typed, Refused
<1>11. Routed'
  <2>1. Ending <=> Ending'
    BY <1>1 DEF Ending
  <2>2. \A x \in Slots : node[table[x]].host # None => node'[table'[x]].host # None
    BY <1>0, <1>1, <1>4, KeyFacts DEF Typed, Refused
  <2> QED BY <1>0, <1>1, <2>1, <2>2 DEF Routed
<1> QED BY <1>0, <1>1, <1>5, <1>7, <1>8, <1>9, <1>10, <1>11 DEF Inv

-----------------------------------------------------------------------------
(* Nodes are released. *)

\* Calls are made or end, and the commands and their callbacks stay.
LEMMA CommandsIdle ==
    ASSUME Inv, UNCHANGED <<link, executed, issued, sends, retries, ran>>,
           \A c \in Holders : ac'[c].queue = ac[c].queue /\ ac'[c].live = ac[c].live,
           \A c \in Holders : TornIn(stack, c) => TornIn(stack', c),
           \A i \in 1 .. Len(stack') : stack'[i].kind = "cb" => i \in 1 .. Len(stack) /\ stack'[i] = stack[i],
           \A id : Frames(stack', id) = Frames(stack, id)
    PROVE  Aligned' /\ Placed' /\ Owned' /\ Once' /\ Paid'
<1>0. Aligned /\ Placed /\ Owned /\ Once /\ Paid
  BY DEF Inv
<1>1. \A id : Spots(ac', id) = Spots(ac, id)
  BY SpotsSame
<1>2. Aligned'
  BY <1>0 DEF Aligned
<1>3. Placed'
  BY <1>0, <1>1 DEF Placed
<1>4. Owned'
  BY <1>0 DEF Owned, OwnReply
<1>5. Once'
  BY <1>0 DEF Once
<1>6. Paid'
  BY <1>0, <1>1 DEF Paid
<1> QED BY <1>2, <1>3, <1>4, <1>5, <1>6

LEMMA PushOne ==
    ASSUME NEW f \in GoodFrame, f.kind # "cb"
    PROVE  /\ <<f>> \in Seq(GoodFrame) /\ Len(<<f>>) = 1 /\ <<f>>[1] = f /\ Shaped(<<f>>)
           /\ (\A i \in 1 .. 1 : i = 1) /\ <<f>> # <<>>
           /\ \A c : TornIn(<<f>>, c) <=> Tears(f, c)
           /\ \A id : Frames(<<f>>, id) = {}
<1>1. PICK u : u = <<f>>
  OBVIOUS
<1>2. u \in Seq(GoodFrame) /\ Len(u) = 1 /\ u[1] = f /\ u # <<>>
  <2> HIDE DEF GoodFrame
  <2> QED BY <1>1
<1>3. (\A i \in 1 .. 1 : i = 1) /\ 2 .. 1 = {} /\ 1 .. 1 - 1 = {} /\ 1 \in 1 .. 1
  OBVIOUS
<1>4. Shaped(u)
  <2>1. \A i, j \in 1 .. Len(u) : ~(i < j)
    BY <1>2
  <2> QED BY <1>2, <1>3, <2>1 DEF Shaped
<1>5. \A c : TornIn(u, c) <=> Tears(f, c)
  BY <1>2, <1>3 DEF TornIn
<1>6. \A id : Frames(u, id) = {}
  BY <1>2, <1>3 DEF Frames, Active
<1> QED BY <1>1, <1>2, <1>3, <1>4, <1>5, <1>6

LEMMA EmptyStack ==
    ASSUME Inv, stack = <<>>
    PROVE  /\ Len(stack) = 0 /\ 1 .. Len(stack) = {} /\ (\A c : ~TornIn(stack, c)) /\ (\A id : Frames(stack, id) = {})
           /\ \A c \in Holders : (ac[c].err => ac[c].queue = <<>>) /\ ~ac[c].freeing
<1>1. Len(stack) = 0 /\ 1 .. Len(stack) = {}
  BY DEF Inv
<1>2. (\A c : ~TornIn(stack, c)) /\ (\A id : Frames(stack, id) = {})
  BY <1>1 DEF TornIn, Frames
<1>3. \A c \in Holders : (ac[c].err => ac[c].queue = <<>>) /\ ~ac[c].freeing
  BY <1>2 DEF Inv, Doomed
<1> QED BY <1>1, <1>2, <1>3

LEMMA FreeStep ==
    ASSUME Inv, Free
    PROVE  Inv'
<1>0. Typed /\ Linked /\ Addressed /\ Kept
  BY DEF Inv
<1> DEFINE gone == {k \in Keys : node[k].acon # None}
           r == Release(gone, TRUE)
<1>1. /\ stack = <<>> /\ ~freed
      /\ node' = [p \in Pointers |-> IF p \in Keys \ gone THEN NoNode ELSE node[p]]
      /\ ac' = Forget(ac, Keys \ gone) /\ stack' = <<r>>
      /\ UNCHANGED <<clusterVars, link, executed, useSlots, accVars, freed, undefined, historyVars>>
  BY DEF Free, EventLoop
<1>2. /\ UNCHANGED <<owner, importer, seen, alive, faults, link, executed>>
      /\ UNCHANGED <<useSlots, table, updateTime, accErr, retries, freed, undefined>>
      /\ UNCHANGED <<issued, sends, ran, notReached>>
  BY <1>1 DEF clusterVars, accVars, historyVars
<1>3. r \in GoodFrame /\ r.kind = "release" /\ r.last
  BY FrameTypes
<1>4. \A p \in Keys \ gone : node[p].acon = None
  OBVIOUS
<1>4a. \A p \in Pointers : node[p].acon # None => p \notin Keys \ gone
  OBVIOUS
<1> HIDE DEF r, gone
<1>5. /\ Len(stack) = 0 /\ 1 .. Len(stack) = {} /\ (\A c : ~TornIn(stack, c)) /\ (\A id : Frames(stack, id) = {})
      /\ \A c \in Holders : (ac[c].err => ac[c].queue = <<>>) /\ ~ac[c].freeing
  BY <1>1, EmptyStack
<1>6. /\ stack' \in Seq(GoodFrame) /\ Len(stack') = 1 /\ stack'[1] = r /\ Shaped(stack')
      /\ (\A i \in 1 .. Len(stack') : stack'[i] = r) /\ (\A id : Frames(stack', id) = {})
      /\ 1 \in 1 .. Len(stack')
  BY <1>1, <1>3, PushOne
<1>7. \A c \in Holders : ac'[c] = IF ac[c].data \in Keys \ gone THEN [ac[c] EXCEPT !.data = Dangling] ELSE ac[c]
  BY <1>1 DEF Forget
<1>8. /\ ac' \in [Holders -> ActxType]
      /\ \A c \in Holders : /\ ac'[c].queue = ac[c].queue /\ ac'[c].live = ac[c].live
                            /\ ac'[c].err = ac[c].err /\ ac'[c].freeing = ac[c].freeing
                            /\ (ac'[c].data = ac[c].data \/ (ac[c].data \in Keys \ gone /\ ac'[c].data = Dangling))
                            /\ (ac[c].data \notin Keys \ gone => ac'[c] = ac[c])
  BY ZenonT(60), <1>0, <1>1, <1>7 DEF Typed, ActxType, Forget
<1>9. Aligned' /\ Placed' /\ Owned' /\ Once' /\ Paid'
  BY <1>2, <1>3, <1>5, <1>6, <1>8, CommandsIdle
<1>10. Typed'
  <2>1. node' \in [Pointers -> NodeType]
    <3>1. NoNode \in NodeType
      BY AsyncAssumption DEF NoNode, NodeType
    <3> QED BY <1>0, <1>1, <3>1 DEF Typed
  <2> QED BY <1>0, <1>2, <1>6, <1>8, <2>1 DEF Typed, ClusterTyped
<1>11. \A p \in Pointers : /\ node[p].acon # None => node'[p] = node[p]
                           /\ node[p].acon = None => node'[p] = node[p] \/ node'[p] = NoNode
                           /\ node'[p].acon = node[p].acon
  BY <1>1, <1>4, <1>4a DEF NoNode
<1>12. Linked'
  <2>1. ASSUME NEW p \in Pointers, node'[p].acon # None PROVE ac'[node'[p].acon].live /\ ac'[node'[p].acon].data = p
    <3>1. PICK c \in Holders : c = node[p].acon /\ c = node'[p].acon /\ c # None
      BY <1>0, <1>11, <2>1 DEF Typed, NodeType
    <3>2. ac[c].live /\ ac[c].data = p /\ p \notin Keys \ gone
      BY <1>0, <1>4a, <3>1 DEF Linked
    <3>3. ac'[c].live /\ ac'[c].data = p
      BY <1>8, <3>2
    <3> QED BY <3>1, <3>3
  <2>2. ASSUME NEW c \in Holders, ~ac'[c].live PROVE ac'[c] = NoActx /\ link'[c] = NoLink
    <3>1. ac[c] = NoActx /\ link[c] = NoLink
      BY <1>0, <1>8, <2>2 DEF Linked
    <3>2. ac[c].data \notin Keys \ gone
      BY <3>1, KeyFacts DEF NoActx
    <3> QED BY <1>2, <1>8, <3>1, <3>2
  <2>3. \A c \in Holders : ac'[c].live => ac'[c].data # None
    BY <1>0, <1>8, KeyFacts DEF Linked
  <2> QED BY <1>3, <1>6, <2>1, <2>2, <2>3 DEF Linked
<1>13. Routed'
  BY <1>1, <1>2, <1>3, <1>6 DEF Routed, Ending
<1>14. Doomed'
  <2>1. \A c : ~Calls(stack'[1], c)
    BY <1>3, <1>6 DEF Calls
  <2> QED BY <1>5, <1>8, <2>1 DEF Doomed
<1>15. Addressed'
  <2> SUFFICES ASSUME NEW p \in Pointers
               PROVE  /\ p \in Nodes => node'[p].host \in {None, p}
                      /\ node'[p].host = None => node'[p].acon = None
                      /\ p \in Holders => node'[p].acon \in {None, p}
                      /\ node'[p].acon # None => link'[node'[p].acon].peer = node'[p].host
    BY DEF Addressed
  <2>1. NoNode.host = None /\ NoNode.acon = None
    BY DEF NoNode
  <2>2. node'[p] = node[p] \/ node'[p] = NoNode
    BY <1>11
  <2> QED BY <1>0, <1>2, <2>1, <2>2 DEF Addressed
<1>16. Kept'
  <2> SUFFICES ASSUME ~notReached', NEW x \in Holders, ac'[x].live
               PROVE  \/ ac'[x].data \in Pointers /\ node'[ac'[x].data].acon = x
                      \/ ac'[x].data = Dangling /\ ac'[x].freeing
    BY DEF Kept
  <2>1. \/ ac[x].data \in Pointers /\ node[ac[x].data].acon = x
        \/ ac[x].data = Dangling /\ ac[x].freeing
    BY <1>0, <1>2, <1>8 DEF Kept
  <2>2. ac[x].data \in Pointers /\ node[ac[x].data].acon = x
    BY <1>5, <2>1
  <2>3. ac[x].data \notin Keys \ gone
    BY <1>4, <2>2, KeyFacts
  <2>4. ac'[x].data = ac[x].data
    BY <1>8, <2>3
  <2> QED BY <1>11, <2>2, <2>4
<1> QED BY <1>6, <1>9, <1>10, <1>12, <1>13, <1>14, <1>15, <1>16 DEF Inv

LEMMA FreeTop ==
    ASSUME Typed, Running("release")
    PROVE  /\ stack \in Seq(GoodFrame) /\ stack # <<>> /\ Len(stack) \in Nat \ {0}
           /\ Len(stack) \in 1 .. Len(stack) /\ Top = stack[Len(stack)] /\ Top.kind = "release"
           /\ Top \in FreeFrame /\ Top.todo \in SUBSET Keys /\ Top.last \in BOOLEAN
<1>1. stack \in Seq(GoodFrame) /\ stack # <<>> /\ Top = stack[Len(stack)] /\ Top.kind = "release"
  BY DEF Typed, Running, Top
<1>2. Len(stack) \in Nat \ {0}
  BY <1>1, TailFacts
<1>3. Len(stack) \in 1 .. Len(stack)
  BY <1>2
<1>4. Top \in GoodFrame
  BY <1>1, <1>3, ElementType
<1>5. Top \in FreeFrame
  BY <1>1, <1>4, FrameKind
<1> QED BY <1>1, <1>2, <1>3, <1>5 DEF FreeFrame

LEMMA ReleaseEndsStep ==
    ASSUME Inv, ReleaseEnds
    PROVE  Inv'
<1>0. Typed /\ Shaped(stack) /\ Linked /\ Routed
  BY DEF Inv
<1> DEFINE n == Len(stack)
<1>1. /\ Running("release") /\ stack' = Below /\ freed' = Top.last
      /\ UNCHANGED <<clusterVars, link, executed, useSlots, accVars, node, ac, undefined, historyVars>>
  BY DEF ReleaseEnds
<1>2. /\ UNCHANGED <<owner, importer, seen, alive, faults, link, executed>>
      /\ UNCHANGED <<useSlots, table, updateTime, accErr, retries, node, ac, undefined>>
      /\ UNCHANGED <<issued, sends, ran, notReached>>
  BY <1>1 DEF clusterVars, accVars, historyVars
<1>3. /\ stack \in Seq(GoodFrame) /\ stack # <<>> /\ n \in Nat \ {0} /\ n \in 1 .. n
      /\ Top = stack[n] /\ Top.kind = "release" /\ Top.last \in BOOLEAN
  BY <1>0, <1>1, FreeTop
<1>4. /\ stack' \in Seq(GoodFrame) /\ Len(stack') = n - 1 /\ \A i \in 1 .. n - 1 : stack'[i] = stack[i]
      /\ \A i \in 1 .. n : i \in 1 .. n - 1 \/ i = n
  BY <1>1, <1>3, PopFacts DEF Below
<1>5. /\ Shaped(stack')
      /\ \A c : TornIn(stack, c) <=> TornIn(stack', c) \/ Tears(stack[n], c)
  BY <1>0, <1>1, <1>3, PopShaped DEF Below
<1>6. \A c : ~Tears(stack[n], c) /\ ~Calls(stack[n], c)
  BY <1>3 DEF Tears, Calls
<1>7. \A id : Frames(stack', id) = Frames(stack, id)
  <2>1. \A id : Frames(stack', id) = Frames(stack, id) \ {n}
    BY <1>1, <1>3, FramesPop DEF Below
  <2>2. \A id : n \notin Frames(stack, id)
    BY <1>3 DEF Frames, Active
  <2> QED BY <2>1, <2>2
<1>8. \A i \in 1 .. Len(stack') : i \in 1 .. n /\ stack'[i] = stack[i]
  BY <1>3, <1>4
<1> HIDE DEF n
<1>9. Aligned' /\ Placed' /\ Owned' /\ Once' /\ Paid'
  <2>1. UNCHANGED <<link, executed, issued, sends, retries, ran>>
    BY <1>2
  <2> QED BY <1>2, <1>5, <1>6, <1>7, <1>8, <2>1, CommandsIdle DEF n
<1>10. Linked' /\ Doomed' /\ Addressed' /\ Kept'
  <2>1. \A i \in 1 .. Len(stack') : stack'[i].kind \in {"cb", "teardown"} => ac[stack'[i].conn].live
    BY <1>0, <1>8 DEF Linked, n
  <2>2. ASSUME NEW c \in Holders, Calls(stack[1], c) PROVE stack' # <<>> /\ Calls(stack'[1], c)
    <3>1. n # 1
      BY <1>6, <2>2
    <3>2. 1 \in 1 .. n - 1 /\ Len(stack') # 0
      BY <1>3, <1>4, <3>1
    <3>3. stack' # <<>>
      BY <1>4, <3>2
    <3> QED BY <1>4, <2>2, <3>2, <3>3
  <2>3. node' \in [Pointers -> NodeType] /\ \A p \in Pointers : node'[p].host = node[p].host /\ node'[p].acon = node[p].acon
    BY <1>0, <1>2 DEF Typed
  <2>4. stack' # <<>> => stack'[1] = stack[1]
    <3>1. stack' # <<>> => 1 \in 1 .. Len(stack')
      BY <1>4, TailFacts
    <3> QED BY <1>8, <3>1
  <2> QED BY <1>2, <1>3, <1>5, <1>6, <2>1, <2>2, <2>3, <2>4, ConnectionsKept
<1>11. Typed'
  BY <1>0, <1>1, <1>2, <1>3, <1>4 DEF Typed, ClusterTyped
<1>12. Routed'
  <2>1. CASE Top.last
    <3>0. n \notin 2 .. n
      <4>1. \A i \in 2 .. n : stack[i].kind = "release" => ~stack[i].last
        BY <1>0 DEF Shaped, n
      <4> QED BY <1>3, <2>1, <4>1
    <3>1. n = 1
      BY <1>3, <3>0
    <3>2. 1 .. Len(stack') = {}
      BY <1>4, <3>1
    <3> QED BY <1>1, <2>1, <3>2 DEF Routed, Ending
  <2>2. CASE ~Top.last
    <3>1. ~freed /\ ~freed'
      BY <1>0, <1>1, <1>3, <2>2 DEF Routed, n
    <3>2. Ending => Ending'
      BY <1>3, <1>4, <2>2, <3>1 DEF Ending, n
    <3> QED BY <1>0, <1>2, <1>8, <3>1, <3>2 DEF Routed, n
  <2> QED BY <2>1, <2>2
<1> QED BY <1>5, <1>9, <1>10, <1>11, <1>12 DEF Inv

\* The connection of the node is freed first.
LEMMA ReleaseConnStep ==
    ASSUME Inv, Running("release"), NEW k \in Top.todo, NEW c, c = node[k].acon, c # None, ~InCallback(c),
           ac' = [ac EXCEPT ![c].freeing = TRUE], stack' = Append(stack, Teardown(c)), UNCHANGED node,
           UNCHANGED <<clusterVars, link, executed, useSlots, accVars, freed, undefined, historyVars>>
    PROVE  Inv'
<1>0. Typed /\ Shaped(stack) /\ Linked /\ Routed /\ Doomed /\ Addressed /\ Kept
  BY DEF Inv
<1> DEFINE n == Len(stack)
           t == Teardown(c)
<1>1. /\ UNCHANGED <<owner, importer, seen, alive, faults, link, executed>>
      /\ UNCHANGED <<useSlots, table, updateTime, accErr, retries, node, freed, undefined>>
      /\ UNCHANGED <<issued, sends, ran, notReached>>
  BY DEF clusterVars, accVars, historyVars
<1>2. /\ stack \in Seq(GoodFrame) /\ stack # <<>> /\ n \in Nat \ {0} /\ n \in 1 .. n
      /\ Top = stack[n] /\ Top.kind = "release" /\ Top.todo \in SUBSET Keys
  BY <1>0, FreeTop
<1>3. k \in Pointers /\ c \in Holders /\ ac[c].live /\ ac[c].data = k
  BY <1>0, <1>2, KeyFacts DEF Typed, NodeType, Linked
<1>4. t \in GoodFrame /\ t.kind = "teardown" /\ t.conn = c
  BY <1>3, FrameTypes
<1> HIDE DEF t
<1>5. \A i \in 1 .. n : ~Calls(stack[i], c)
  <2>1. DOMAIN stack = 1 .. n
    BY <1>2
  <2> QED BY <2>1 DEF InCallback, Calls
<1>6. /\ Shaped(stack') /\ \A x : TornIn(stack', x) <=> TornIn(stack, x) \/ Tears(t, x)
  <2>1. /\ t.kind = "teardown" => /\ stack = <<>> \/ stack[Len(stack)].kind = "release"
                                  /\ \A i \in 1 .. Len(stack) : ~Calls(stack[i], t.conn)
        /\ t.kind # "cb" /\ t.kind # "release"
    BY <1>2, <1>4, <1>5
  <2>2. Shaped(Append(stack, t)) /\ \A x : TornIn(Append(stack, t), x) <=> TornIn(stack, x) \/ Tears(t, x)
    BY <1>0, <1>2, <1>4, <2>1, PushShaped
  <2> QED BY <2>2 DEF t
<1>7. /\ stack' \in Seq(GoodFrame) /\ Len(stack') = n + 1 /\ \A i \in 1 .. n : stack'[i] = stack[i]
      /\ stack'[n + 1] = t /\ \A i \in 1 .. n + 1 : i \in 1 .. n \/ i = n + 1
  <2>1. /\ Append(stack, t) \in Seq(GoodFrame) /\ Len(Append(stack, t)) = n + 1
        /\ \A i \in 1 .. n : Append(stack, t)[i] = stack[i]
        /\ Append(stack, t)[n + 1] = t /\ \A i \in 1 .. n + 1 : i \in 1 .. n \/ i = n + 1
    BY <1>2, <1>4, AppendType, AppendFacts
  <2> QED BY <2>1 DEF t
<1>8. \A id : Frames(stack', id) = Frames(stack, id)
  <2>1. \A id : ~Active(t, id)
    BY <1>4 DEF Active
  <2>2. \A id : Frames(Append(stack, t), id) = Frames(stack, id)
    BY <1>2, <1>4, <2>1, FramesPush
  <2> QED BY <2>2 DEF t
<1> HIDE DEF n
<1>9. /\ ac' \in [Holders -> ActxType]
      /\ \A x \in Holders : /\ ac'[x].queue = ac[x].queue /\ ac'[x].live = ac[x].live
                            /\ ac'[x].err = ac[x].err /\ ac'[x].data = ac[x].data
                            /\ (x # c => ac'[x] = ac[x]) /\ ac'[c].freeing
  BY <1>0, <1>3 DEF Typed, ActxType
<1>10. \A i \in 1 .. Len(stack') : stack'[i].kind # "teardown" => i \in 1 .. n /\ stack'[i] = stack[i]
  BY <1>4, <1>7
<1>11. Aligned' /\ Placed' /\ Owned' /\ Once' /\ Paid'
  <2>1. UNCHANGED <<link, executed, issued, sends, retries, ran>>
    BY <1>1
  <2>2. \A i \in 1 .. Len(stack') : stack'[i].kind = "cb" => i \in 1 .. Len(stack) /\ stack'[i] = stack[i]
    BY <1>10 DEF n
  <2> QED BY <1>6, <1>8, <1>9, <2>1, <2>2, CommandsIdle
<1>12. Typed'
  BY <1>0, <1>1, <1>7, <1>9 DEF Typed, ClusterTyped
<1>13. Linked'
  <2>1. \A i \in 1 .. Len(stack') : stack'[i].kind \in {"cb", "teardown"} => ac'[stack'[i].conn].live
    <3>1. \A i \in 1 .. n : stack[i].kind \in {"cb", "teardown"} => ac'[stack[i].conn].live
      BY <1>0, <1>9, FrameConn DEF Linked, n
    <3>2. ac'[t.conn].live
      BY <1>3, <1>4, <1>9
    <3> QED BY <1>7, <3>1, <3>2
  <2>2. \A p \in Pointers : node[p].acon # None => node[p].acon \in Holders
    BY <1>0 DEF Typed, NodeType
  <2>3. \A p \in Pointers : node'[p].acon # None => ac'[node'[p].acon].live /\ ac'[node'[p].acon].data = p
    BY <1>0, <1>1, <1>9, <2>2 DEF Linked
  <2>4. \A x \in Holders : ~ac'[x].live => ac'[x] = NoActx /\ link'[x] = NoLink
    BY <1>0, <1>1, <1>3, <1>9 DEF Linked
  <2>5. \A x \in Holders : ac'[x].live => ac'[x].data # None
    BY <1>0, <1>9 DEF Linked
  <2> QED BY <2>1, <2>3, <2>4, <2>5 DEF Linked
<1>14. Doomed'
  <2>1. TornIn(stack', c)
    BY <1>4, <1>6 DEF Tears
  <2>2. stack' # <<>> /\ stack'[1] = stack[1]
    <3>1. 1 \in 1 .. n /\ Len(stack') # 0
      BY <1>2, <1>7
    <3>2. stack' # <<>>
      BY <3>1
    <3> QED BY <1>7, <3>1, <3>2
  <2> QED BY <1>0, <1>2, <1>6, <1>9, <2>1, <2>2 DEF Doomed
<1>15. Addressed'
  BY <1>0, <1>1 DEF Addressed
<1>16. Kept'
  <2> SUFFICES ASSUME ~notReached', NEW x \in Holders, ac'[x].live
               PROVE  \/ ac'[x].data \in Pointers /\ node'[ac'[x].data].acon = x
                      \/ ac'[x].data = Dangling /\ ac'[x].freeing
    BY DEF Kept
  <2>1. \/ ac[x].data \in Pointers /\ node[ac[x].data].acon = x
        \/ ac[x].data = Dangling /\ ac[x].freeing
    BY <1>0, <1>1, <1>9 DEF Kept
  <2> QED BY <1>1, <1>9, <2>1
<1>17. Routed'
  <2>1. Ending => Ending'
    <3>1. \A i \in 1 .. n : i \in 1 .. Len(stack') /\ stack'[i] = stack[i]
      BY <1>2, <1>7
    <3> QED BY <1>1, <3>1 DEF Ending, n
  <2>2. ~freed
    BY <1>0, <1>2 DEF Routed, n
  <2>3. \A i \in 1 .. Len(stack') : stack'[i].kind = "release" => i \in 1 .. n /\ stack'[i] = stack[i]
    BY <1>10
  <2> QED BY <1>0, <1>1, <2>1, <2>2, <2>3 DEF Routed, n
<1> QED BY <1>6, <1>11, <1>12, <1>13, <1>14, <1>15, <1>16, <1>17 DEF Inv

\* The node itself is freed: its connection is gone, or will be freed when the
\* callback that runs on it returns.
Forgotten(k, c) ==
    /\ c # None => InCallback(c)
    /\ ac' = Forget(IF c = None THEN ac ELSE [ac EXCEPT ![c].freeing = TRUE], {k})
    /\ node' = [node EXCEPT ![k] = NoNode]
    /\ stack' = [stack EXCEPT ![Len(stack)].todo = @ \ {k}]

LEMMA ReleaseForgetStep ==
    ASSUME Inv, Running("release"), NEW k \in Top.todo, NEW c, c = node[k].acon, Forgotten(k, c),
           UNCHANGED <<clusterVars, link, executed, useSlots, accVars, freed, undefined, historyVars>>
    PROVE  Inv'
<1>0. Typed /\ Shaped(stack) /\ Linked /\ Routed /\ Doomed /\ Addressed /\ Kept
  BY DEF Inv
<1> DEFINE n == Len(stack)
           f == [Top EXCEPT !.todo = Top.todo \ {k}]
<1>1. /\ UNCHANGED <<owner, importer, seen, alive, faults, link, executed>>
      /\ UNCHANGED <<useSlots, table, updateTime, accErr, retries, freed, undefined>>
      /\ UNCHANGED <<issued, sends, ran, notReached>>
  BY DEF clusterVars, accVars, historyVars
<1>2. /\ stack \in Seq(GoodFrame) /\ stack # <<>> /\ n \in Nat \ {0} /\ n \in 1 .. n
      /\ Top = stack[n] /\ Top.kind = "release" /\ Top \in FreeFrame /\ Top.todo \in SUBSET Keys
  BY <1>0, FreeTop
<1>3. /\ f \in FreeFrame /\ f \in GoodFrame /\ f.kind = "release" /\ f.last = Top.last
      /\ f.todo = Top.todo \ {k}
  BY <1>2 DEF FreeFrame, GoodFrame
<1>4. stack' = [stack EXCEPT ![Len(stack)] = f]
  BY SMTT(30), <1>2 DEF Forgotten
<1> HIDE DEF f
<1>5. /\ stack' \in Seq(GoodFrame) /\ Len(stack') = n /\ stack'[n] = f
      /\ \A i \in 1 .. n - 1 : stack'[i] = stack[i]
      /\ \A i \in 1 .. n : i \in 1 .. n - 1 \/ i = n
  <2>1. /\ [stack EXCEPT ![Len(stack)] = f] \in Seq(GoodFrame)
        /\ Len([stack EXCEPT ![Len(stack)] = f]) = Len(stack)
        /\ [stack EXCEPT ![Len(stack)] = f][Len(stack)] = f
        /\ \A i \in 1 .. Len(stack) - 1 : [stack EXCEPT ![Len(stack)] = f][i] = stack[i]
        /\ \A i \in 1 .. Len(stack) : i \in 1 .. Len(stack) - 1 \/ i = Len(stack)
    BY <1>2, <1>3, ReplaceTop
  <2> QED BY <1>4, <2>1
<1>6. Shaped(stack') /\ \A x : TornIn(stack', x) <=> TornIn(stack, x)
  BY <1>0, <1>2, <1>3, <1>4, ReplaceShaped
<1>7. \A id : Frames(stack', id) = Frames(stack, id)
  <2>1. \A id : ~Active(f, id) /\ ~Active(stack[n], id)
    BY <1>2, <1>3 DEF Active
  <2>2. \A id : Frames([stack EXCEPT ![Len(stack)] = f], id) = Frames(stack, id)
    BY <1>2, <1>3, <2>1, FramesReplace
  <2> QED BY <1>4, <2>2
<1> HIDE DEF n
<1>8. \A i \in 1 .. n : /\ stack'[i].kind = stack[i].kind
                        /\ stack[i].kind # "release" => stack'[i] = stack[i]
                        /\ stack[i].kind = "release" => stack'[i].last = stack[i].last /\ stack'[i].todo \subseteq stack[i].todo
  BY <1>2, <1>3, <1>5
<1>9. c \in Holders \cup {None} /\ k \in Pointers
  BY <1>0, <1>2, KeyFacts DEF Typed, NodeType
<1>10. c # None => ac[c].live /\ ac[c].data = k
  BY <1>0, <1>9 DEF Linked
<1>11. /\ ac' \in [Holders -> ActxType]
       /\ \A x \in Holders : /\ ac'[x].queue = ac[x].queue /\ ac'[x].live = ac[x].live /\ ac'[x].err = ac[x].err
                             /\ x # c => ac'[x].freeing = ac[x].freeing
                             /\ x = c => ac'[x].freeing
                             /\ ac[x].data = k => ac'[x].data = Dangling
                             /\ ac[x].data # k => ac'[x].data = ac[x].data
                             /\ x # c /\ ac[x].data # k => ac'[x] = ac[x]
  <2>1. PICK b : b = IF c = None THEN ac ELSE [ac EXCEPT ![c].freeing = TRUE]
    OBVIOUS
  <2>2. /\ b \in [Holders -> ActxType]
        /\ \A x \in Holders : /\ b[x].queue = ac[x].queue /\ b[x].live = ac[x].live /\ b[x].err = ac[x].err
                              /\ x # c => b[x].freeing = ac[x].freeing
                              /\ x = c => b[x].freeing
                              /\ b[x].data = ac[x].data
                              /\ x # c => b[x] = ac[x]
    <3>1. ac \in [Holders -> ActxType]
      BY <1>0 DEF Typed
    <3>2. CASE c = None
      <4>1. b = ac /\ \A x \in Holders : x # c
        BY <2>1, <3>2, KeyFacts
      <4> QED BY <3>1, <4>1
    <3>3. CASE c # None
      <4>1. c \in Holders /\ b = [ac EXCEPT ![c] = [ac[c] EXCEPT !.freeing = TRUE]]
        BY <1>9, <2>1, <3>1, <3>3
      <4>2. /\ [ac[c] EXCEPT !.freeing = TRUE] \in ActxType
            /\ [ac[c] EXCEPT !.freeing = TRUE].queue = ac[c].queue
            /\ [ac[c] EXCEPT !.freeing = TRUE].live = ac[c].live
            /\ [ac[c] EXCEPT !.freeing = TRUE].err = ac[c].err
            /\ [ac[c] EXCEPT !.freeing = TRUE].data = ac[c].data
            /\ [ac[c] EXCEPT !.freeing = TRUE].freeing
        BY <3>1, <4>1 DEF ActxType
      <4> QED BY <3>1, <4>1, <4>2
    <3> QED BY <3>2, <3>3
  <2>3. ac' = [x \in Holders |-> IF b[x].data = k THEN [b[x] EXCEPT !.data = Dangling] ELSE b[x]]
    BY <2>1 DEF Forget, Forgotten
  <2>4. \A a \in ActxType : /\ [a EXCEPT !.data = Dangling] \in ActxType
                            /\ [a EXCEPT !.data = Dangling].queue = a.queue
                            /\ [a EXCEPT !.data = Dangling].live = a.live
                            /\ [a EXCEPT !.data = Dangling].err = a.err
                            /\ [a EXCEPT !.data = Dangling].freeing = a.freeing
                            /\ [a EXCEPT !.data = Dangling].data = Dangling
    BY DEF ActxType
  <2>5. \A x \in Holders : IF ac[x].data = k THEN ac'[x] = [b[x] EXCEPT !.data = Dangling] ELSE ac'[x] = b[x]
    BY <2>2, <2>3
  <2>6. ac' \in [Holders -> ActxType]
    BY <2>2, <2>3, <2>4
  <2>7. ASSUME NEW x \in Holders
        PROVE  /\ ac'[x].queue = ac[x].queue /\ ac'[x].live = ac[x].live /\ ac'[x].err = ac[x].err
               /\ ac'[x].freeing = b[x].freeing
               /\ ac[x].data = k => ac'[x].data = Dangling
               /\ ac[x].data # k => ac'[x] = b[x]
    <3>1. CASE ac[x].data = k
      <4>1. b[x] \in ActxType /\ ac'[x] = [b[x] EXCEPT !.data = Dangling]
        BY <2>2, <2>5, <3>1
      <4>2. /\ ac'[x].queue = b[x].queue /\ ac'[x].live = b[x].live /\ ac'[x].err = b[x].err
            /\ ac'[x].freeing = b[x].freeing /\ ac'[x].data = Dangling
        BY <2>4, <4>1
      <4> QED BY <2>2, <3>1, <4>2
    <3>2. CASE ac[x].data # k
      BY <2>2, <2>5, <3>2
    <3> QED BY <3>1, <3>2
  <2> QED BY <2>2, <2>6, <2>7
<1>12. Aligned' /\ Placed' /\ Owned' /\ Once' /\ Paid'
  <2>1. UNCHANGED <<link, executed, issued, sends, retries, ran>>
    BY <1>1
  <2>2. \A i \in 1 .. Len(stack') : stack'[i].kind = "cb" => i \in 1 .. Len(stack) /\ stack'[i] = stack[i]
    BY <1>5, <1>8 DEF n
  <2> QED BY <1>6, <1>7, <1>11, <2>1, <2>2, CommandsIdle
<1>13. /\ node' \in [Pointers -> NodeType] /\ node'[k].acon = None /\ node'[k].host = None
       /\ \A p \in Pointers : p # k => node'[p] = node[p]
  <2>1. node \in [Pointers -> NodeType] /\ NoNode \in NodeType /\ NoNode.acon = None /\ NoNode.host = None
    BY <1>0, AsyncAssumption DEF Typed, NodeType, NoNode
  <2> QED BY <1>9, <2>1 DEF Forgotten
<1>14. Typed'
  BY <1>0, <1>1, <1>5, <1>11, <1>13 DEF Typed, ClusterTyped
<1>15. Linked'
  <2>1. \A i \in 1 .. Len(stack') : stack'[i].kind \in {"cb", "teardown"} => ac'[stack'[i].conn].live
    <3>1. \A i \in 1 .. n : stack[i].kind \in {"cb", "teardown"} => ac'[stack[i].conn].live
      BY <1>0, <1>11, FrameConn DEF Linked, n
    <3> QED BY <1>5, <1>8, <3>1
  <2>2. \A p \in Pointers : node[p].acon # None => node[p].acon \in Holders
    BY <1>0 DEF Typed, NodeType
  <2>3. \A p \in Pointers : node'[p].acon # None => ac'[node'[p].acon].live /\ ac'[node'[p].acon].data = p
    BY <1>0, <1>11, <1>13, <2>2 DEF Linked
  <2>4. \A x \in Holders : ~ac'[x].live => ac'[x] = NoActx /\ link'[x] = NoLink
    <3>1. NoActx.data # k
      BY <1>9, KeyFacts DEF NoActx
    <3>2. \A x \in Holders : x = c => ac[x].live
      BY <1>10, KeyFacts
    <3>3. \A x \in Holders : ~ac[x].live => ac[x] = NoActx /\ link[x] = NoLink
      BY <1>0 DEF Linked
    <3> QED BY <1>1, <1>11, <3>1, <3>2, <3>3
  <2>5. \A x \in Holders : ac'[x].live => ac'[x].data # None
    BY <1>0, <1>11, KeyFacts DEF Linked
  <2> QED BY <2>1, <2>3, <2>4, <2>5 DEF Linked
<1>16. Doomed'
  <2>1. c # None => TornIn(stack, c) \/ Calls(stack[1], c)
    <3> SUFFICES ASSUME c # None, ~Calls(stack[1], c) PROVE TornIn(stack, c)
      OBVIOUS
    <3>1. DOMAIN stack = 1 .. n
      BY <1>2 DEF n
    <3>2. PICK i \in 1 .. n : stack[i].kind = "cb" /\ stack[i].conn = c
      BY <3>1 DEF InCallback, Forgotten
    <3>3. i # 1
      BY <3>2 DEF Calls
    <3>4. i \in 2 .. n /\ i - 1 \in 1 .. n
      BY <1>2, <3>3
    <3>5. Tears(stack[i - 1], c)
      BY <1>0, <3>2, <3>4 DEF Shaped, n
    <3> QED BY <3>4, <3>5 DEF TornIn, n
  <2>2. \A x : Calls(stack[1], x) <=> Calls(stack'[1], x)
    <3>1. 1 \in 1 .. n
      BY <1>2
    <3> QED BY <1>8, <3>1 DEF Calls
  <2>3. stack' # <<>>
    <3>1. Len(stack') # 0
      BY <1>2, <1>5
    <3> QED BY <3>1
  <2> QED BY <1>0, <1>2, <1>6, <1>11, <2>1, <2>2, <2>3, KeyFacts DEF Doomed
<1>17. Addressed'
  BY <1>0, <1>1, <1>13 DEF Addressed
<1>18. Kept'
  <2> SUFFICES ASSUME ~notReached', NEW x \in Holders, ac'[x].live
               PROVE  \/ ac'[x].data \in Pointers /\ node'[ac'[x].data].acon = x
                      \/ ac'[x].data = Dangling /\ ac'[x].freeing
    BY DEF Kept
  <2>1. \/ ac[x].data \in Pointers /\ node[ac[x].data].acon = x
        \/ ac[x].data = Dangling /\ ac[x].freeing
    BY <1>0, <1>1, <1>11 DEF Kept
  <2>2. CASE ac[x].data = k
    <3>1. x = c
      BY <1>9, <2>1, <2>2, KeyFacts
    <3> QED BY <1>11, <2>2, <3>1
  <2>3. CASE ac[x].data # k
    BY <1>11, <1>13, <2>1, <2>3
  <2> QED BY <2>2, <2>3
<1>19. Routed'
  <2>1. Ending => Ending'
    BY <1>1, <1>5, <1>8 DEF Ending, n
  <2>2. ~freed
    BY <1>0, <1>2 DEF Routed, n
  <2>3. ASSUME ~Ending', NEW s \in Slots PROVE node'[table'[s]].host # None
    <3>1. ~Top.last
      BY <1>2, <2>1, <2>3 DEF Ending, n
    <3>2. table[s] \notin Top.todo /\ node[table[s]].host # None
      BY <1>0, <1>2, <2>1, <2>3, <3>1 DEF Routed, n
    <3>3. table[s] \in Pointers
      BY <1>0, KeyFacts DEF Typed
    <3> QED BY <1>1, <1>13, <3>2, <3>3
  <2>4. ASSUME NEW i \in 1 .. Len(stack'), stack'[i].kind = "release", ~stack'[i].last, NEW s \in Slots
        PROVE  table'[s] \notin stack'[i].todo
    <3>1. i \in 1 .. n
      BY <1>5
    <3>2. stack[i].kind = "release" /\ ~stack[i].last /\ stack'[i].todo \subseteq stack[i].todo
      BY <1>8, <2>4, <3>1
    <3> QED BY <1>0, <1>1, <3>1, <3>2 DEF Routed, n
  <2> QED BY <1>1, <2>2, <2>3, <2>4 DEF Routed
<1> QED BY <1>6, <1>12, <1>14, <1>15, <1>16, <1>17, <1>18, <1>19 DEF Inv

LEMMA ReleaseNodeStep ==
    ASSUME Inv, NEW k \in Keys, ReleaseNode(k)
    PROVE  Inv'
<1>1. PICK c : c = node[k].acon
  OBVIOUS
<1>2. /\ Running("release") /\ k \in Top.todo
      /\ UNCHANGED <<clusterVars, link, executed, useSlots, accVars, freed, undefined, historyVars>>
  BY DEF ReleaseNode
<1>3. \/ /\ c # None /\ ~InCallback(c) /\ ac' = [ac EXCEPT ![c].freeing = TRUE]
         /\ stack' = Append(stack, Teardown(c)) /\ UNCHANGED node
      \/ Forgotten(k, c)
  BY <1>1, Zenon DEF ReleaseNode, Forgotten
<1>4. CASE /\ c # None /\ ~InCallback(c) /\ ac' = [ac EXCEPT ![c].freeing = TRUE]
           /\ stack' = Append(stack, Teardown(c)) /\ UNCHANGED node
  BY <1>1, <1>2, <1>4, ReleaseConnStep
<1>5. CASE Forgotten(k, c)
  BY <1>1, <1>2, <1>5, ReleaseForgetStep
<1> QED BY <1>3, <1>4, <1>5

-----------------------------------------------------------------------------
(* A callback is taken from its list. *)

\* f is the call for the callback of id on connection c, on the stack.
Handled(c, id, f) ==
    /\ f \in CbFrame /\ f.conn = c /\ f.id = id /\ f.at = "start"
    /\ stack # <<>> => Tears(stack[Len(stack)], c) /\ f.reply.type = "null"
    /\ f.reply.type # "null" => f.reply.id = id
    /\ f.reply.type \in {"moved", "ask", "again"} => ~WasRun(executed, id)

\* Connection c goes on with list q of callbacks.
TookFrom(c, q) == ac' = [ac EXCEPT ![c] = [ac[c] EXCEPT !.queue = q]]

LEMMA QueueTypes ==
    ASSUME Typed, NEW c \in Holders
    PROVE  ac[c] \in ActxType /\ ac[c].queue \in Seq(0 .. MaxCalls) /\ link[c] \in GoodLink
<1>1. ac[c] \in ActxType /\ link[c] \in GoodLink
  BY DEF Typed, ClusterTyped
<1> QED BY <1>1 DEF ActxType

LEMMA TookFacts ==
    ASSUME Inv, NEW c \in Holders, ac[c].queue # <<>>, NEW q \in Seq(0 .. MaxCalls), TookFrom(c, q)
    PROVE  /\ ac' \in [Holders -> ActxType] /\ ac[c].live
           /\ \A x \in Holders : /\ ac'[x].live = ac[x].live /\ ac'[x].err = ac[x].err
                                 /\ ac'[x].freeing = ac[x].freeing /\ ac'[x].data = ac[x].data
                                 /\ x # c => ac'[x] = ac[x]
           /\ ac'[c].queue = q
<1>1. ac \in [Holders -> ActxType] /\ ac[c] \in ActxType
  BY DEF Inv, Typed
<1>2. ac[c].live
  <2>1. NoActx.queue = <<>>
    BY DEF NoActx
  <2> QED BY <2>1 DEF Inv, Linked
<1>3. PICK a : a = [ac[c] EXCEPT !.queue = q]
  OBVIOUS
<1>4. /\ a \in ActxType /\ a.queue = q /\ a.live = ac[c].live /\ a.err = ac[c].err
      /\ a.freeing = ac[c].freeing /\ a.data = ac[c].data
  BY <1>1, <1>3, NewQueue
<1>5. ac' = [ac EXCEPT ![c] = a]
  BY <1>3 DEF TookFrom
<1> QED BY <1>1, <1>2, <1>4, <1>5

\* Stack u is the one with the call f for command id.
Stacked(id, f, u) ==
    /\ u \in Seq(GoodFrame) /\ Shaped(u) /\ u # <<>>
    /\ \A x : TornIn(u, x) <=> TornIn(stack, x)
    /\ \A i \in 1 .. Len(stack) : i \in 1 .. Len(u) /\ u[i] = stack[i]
    /\ \A i \in 1 .. Len(u) : (i \in 1 .. Len(stack) /\ u[i] = stack[i]) \/ u[i] = f
    /\ stack # <<>> => u[1] = stack[1]
    /\ \A j : j # id => Frames(u, j) = Frames(stack, j)
    /\ Frames(u, id) = Frames(stack, id) \cup {Len(stack) + 1}

LEMMA HandledStack ==
    ASSUME Inv, NEW c \in Holders, NEW id \in Ids, NEW f, Handled(c, id, f)
    PROVE  Stacked(id, f, Append(stack, f))
<1> DEFINE u == Append(stack, f)
<1>0. stack \in Seq(GoodFrame) /\ Shaped(stack)
  BY DEF Inv, Typed
<1>1. f \in GoodFrame /\ f \in CbFrame /\ f.conn = c /\ f.id = id /\ f.at = "start"
  BY DEF Handled, GoodFrame
<1>2. f.kind = "cb"
  BY <1>1, FrameKind
<1>3. Shaped(u) /\ \A x : TornIn(u, x) <=> TornIn(stack, x)
  <2>1. f.kind = "cb" => /\ stack # <<>> => Tears(stack[Len(stack)], f.conn) /\ f.reply.type = "null"
                         /\ f.at = "start"
    BY <1>1 DEF Handled
  <2>2. Shaped(Append(stack, f)) /\ \A x : TornIn(Append(stack, f), x) <=> TornIn(stack, x) \/ Tears(f, x)
    BY <1>0, <1>1, <1>2, <2>1, PushShaped
  <2>3. \A x : ~Tears(f, x)
    BY <1>2 DEF Tears
  <2> QED BY <2>2, <2>3
<1>4. u \in Seq(GoodFrame)
  BY <1>0, <1>1, AppendType
<1>5. /\ Len(u) = Len(stack) + 1 /\ \A i \in 1 .. Len(stack) : u[i] = stack[i]
      /\ u[Len(stack) + 1] = f
      /\ \A i \in 1 .. Len(stack) + 1 : i \in 1 .. Len(stack) \/ i = Len(stack) + 1
  BY <1>0, <1>1, AppendFacts
<1>6. Len(stack) \in Nat
  BY <1>0
<1>7. /\ \A i \in 1 .. Len(stack) : i \in 1 .. Len(u) /\ u[i] = stack[i]
      /\ \A i \in 1 .. Len(u) : (i \in 1 .. Len(stack) /\ u[i] = stack[i]) \/ u[i] = f
  BY <1>5, <1>6
<1>8. u # <<>> /\ (stack # <<>> => u[1] = stack[1])
  <2>1. Len(u) # 0
    BY <1>5, <1>6
  <2>2. u # <<>>
    BY <2>1
  <2>3. stack # <<>> => 1 \in 1 .. Len(stack)
    <3>1. stack # <<>> => Len(stack) \in Nat \ {0}
      BY <1>0, TailFacts
    <3> QED BY <3>1
  <2> QED BY <1>5, <2>2, <2>3
<1>9. \A j : Active(f, j) <=> j = id
  BY <1>1, <1>2 DEF Active
<1>10. /\ \A j : j # id => Frames(Append(stack, f), j) = Frames(stack, j)
       /\ Frames(Append(stack, f), id) = Frames(stack, id) \cup {Len(stack) + 1}
  BY <1>0, <1>1, <1>9, FramesPush
<1> QED BY <1>3, <1>4, <1>7, <1>8, <1>10 DEF Stacked

\* The callback at the head of a list waits nowhere else.
LEMMA HeadPlaced ==
    ASSUME Inv, NEW c \in Holders, ac[c].queue # <<>>, NEW id, id = Head(ac[c].queue)
    PROVE  /\ id \in 0 .. MaxCalls /\ (id # 0 => id \in Ids)
           /\ id # 0 => /\ id \in 1 .. Len(issued) /\ Len(ran[id]) = 0
                        /\ Frames(stack, id) = {} /\ Single(Spots(ac, id))
                        /\ sends[id] <= retries[id] + 1
<1>0. Typed /\ Placed /\ Paid
  BY DEF Inv
<1>1. ac[c].queue \in Seq(0 .. MaxCalls)
  BY <1>0, QueueTypes
<1>2. id \in 0 .. MaxCalls
  BY <1>1, HeadTailType
<1>3. MaxCalls \in Nat /\ Len(issued) \in Nat
  <2>1. issued \in Seq(Slots)
    BY <1>0 DEF Typed
  <2> QED BY <2>1, AsyncAssumption
<1>4. id # 0 => id \in Ids
  BY <1>2, <1>3 DEF Ids
<1>5. ASSUME id # 0
      PROVE  /\ id \in 1 .. Len(issued) /\ Len(ran[id]) = 0
             /\ Frames(stack, id) = {} /\ Single(Spots(ac, id))
             /\ sends[id] <= retries[id] + 1
  <2>1. Spots(ac, id) # {}
    <3>1. PICK h : h = [ac EXCEPT ![c] = [ac[c] EXCEPT !.queue = Tail(ac[c].queue)]]
      OBVIOUS
    <3>2. h[c].queue = Tail(ac[c].queue) /\ \A x \in Holders \ {c} : h[x].queue = ac[x].queue
      BY <1>0, <3>1, NewQueue, QueueTypes DEF Typed
    <3>3. PICK q : q = ac[c].queue
      OBVIOUS
    <3>4. /\ q \in Seq(0 .. MaxCalls) /\ q # <<>> /\ ac[c].queue = q /\ h[c].queue = Tail(q)
          /\ \A x \in Holders \ {c} : h[x].queue = ac[x].queue
      BY <1>1, <3>2, <3>3
    <3>5. q \in Seq(0 .. MaxCalls) /\ q # <<>> /\ Shrunk(ac, h, c, q)
      BY <3>4 DEF Shrunk
    <3>6. id = Head(q) => Spots(ac, id) # {}
      <4>1. SpotsLeft(ac, h, Head(q), id)
        BY <3>5, SpotsTail
      <4> QED BY <4>1 DEF SpotsLeft
    <3> QED BY <3>3, <3>6
  <2>2. ~(id > Len(issued))
    BY <1>0, <1>4, <1>5, <2>1 DEF Placed
  <2>3. id \in 1 .. Len(issued)
    BY <1>2, <1>3, <1>5, <2>2
  <2>4. InOnePlace(Len(ran[id]), Frames(stack, id), Spots(ac, id))
    BY <1>0, <2>3 DEF Placed
  <2>5. sends[id] <= retries[id] + 1
    BY <1>0, <1>4, <1>5, <2>1 DEF Paid
  <2> QED BY <2>1, <2>3, <2>4, <2>5 DEF InOnePlace
<1> QED BY <1>2, <1>4, <1>5

\* What is left of the commands' places when the callback at the head is taken.
LEMMA TakenPlaces ==
    ASSUME Inv, NEW c \in Holders, ac[c].queue # <<>>, NEW id, id = Head(ac[c].queue),
           NEW q, q = Tail(ac[c].queue), TookFrom(c, q),
           NEW f, id # 0 => Handled(c, id, f), stack' = IF id = 0 THEN stack ELSE Append(stack, f),
           UNCHANGED <<issued, sends, retries, ran>>
    PROVE  Placed' /\ Paid'
<1>0. Typed /\ Placed /\ Paid
  BY DEF Inv
<1>1. /\ id \in 0 .. MaxCalls /\ (id # 0 => id \in Ids)
      /\ id # 0 => /\ id \in 1 .. Len(issued) /\ Len(ran[id]) = 0
                   /\ Frames(stack, id) = {} /\ Single(Spots(ac, id))
                   /\ sends[id] <= retries[id] + 1
  BY HeadPlaced
<1>2. q \in Seq(0 .. MaxCalls)
  BY <1>0, QueueTypes, HeadTailType
<1>3. \A j : /\ Spots(ac, j) = {} => Spots(ac', j) = {}
             /\ Single(Spots(ac, j)) /\ j # id => Single(Spots(ac', j))
             /\ Single(Spots(ac, j)) /\ j = id => Spots(ac', j) = {}
  <2>1. PICK w : w = ac[c].queue
    OBVIOUS
  <2>2. w \in Seq(0 .. MaxCalls) /\ w # <<>> /\ ac[c].queue = w /\ id = Head(w)
    BY <1>0, <2>1, QueueTypes
  <2>3. ac'[c].queue = Tail(w) /\ \A x \in Holders \ {c} : ac'[x].queue = ac[x].queue
    BY <1>2, <2>1, TookFacts
  <2>4. Shrunk(ac, ac', c, w)
    BY <2>2, <2>3 DEF Shrunk
  <2>5. PICK d : d = ac'
    OBVIOUS
  <2>6. Shrunk(ac, d, c, w)
    BY <2>4, <2>5
  <2>7. \A j : /\ Spots(ac, j) = {} => Spots(d, j) = {}
               /\ Single(Spots(ac, j)) /\ j # Head(w) => Single(Spots(d, j))
               /\ Single(Spots(ac, j)) /\ j = Head(w) => Spots(d, j) = {}
    <3>1. \A j : SpotsLeft(ac, d, Head(w), j)
      BY <2>2, <2>6, SpotsTail
    <3> QED BY <3>1 DEF SpotsLeft
  <2> QED BY <2>2, <2>5, <2>7
<1>4. id # 0 => Frames(stack', id) = {Len(stack) + 1}
  <2> SUFFICES ASSUME id # 0 PROVE Frames(stack', id) = {Len(stack) + 1}
    OBVIOUS
  <2>1. stack' = Append(stack, f) /\ Handled(c, id, f)
    OBVIOUS
  <2>2. PICK u : u = Append(stack, f)
    OBVIOUS
  <2>3. Frames(u, id) = Frames(stack, id) \cup {Len(stack) + 1}
    <3>1. Stacked(id, f, Append(stack, f))
      BY <1>1, <2>1, HandledStack
    <3> QED BY <2>2, <3>1 DEF Stacked
  <2> QED BY <1>1, <2>1, <2>2, <2>3
<1>5. \A j \in Ids : j # id => Frames(stack', j) = Frames(stack, j)
  <2>1. CASE id = 0
    BY <2>1
  <2>2. CASE id # 0
    <3>1. stack' = Append(stack, f) /\ Handled(c, id, f)
      BY <2>2
    <3>2. PICK u : u = Append(stack, f)
      OBVIOUS
    <3>3. \A j : j # id => Frames(u, j) = Frames(stack, j)
      <4>1. Stacked(id, f, Append(stack, f))
        BY <1>1, <2>2, <3>1, HandledStack
      <4> QED BY <3>2, <4>1 DEF Stacked
    <3> QED BY <3>1, <3>2, <3>3
  <2> QED BY <2>1, <2>2
<1>6. 1 .. Len(issued) \subseteq Ids /\ \A j \in Ids : j # 0
  <2>1. issued \in Seq(Slots) /\ Len(issued) <= MaxCalls
    BY <1>0 DEF Typed
  <2> QED BY <2>1, AsyncAssumption DEF Ids
<1>7. Placed'
  <2>1. ASSUME NEW j \in 1 .. Len(issued) PROVE InOnePlace(Len(ran[j]), Frames(stack', j), Spots(ac', j))
    <3>0. j \in Ids /\ InOnePlace(Len(ran[j]), Frames(stack, j), Spots(ac, j))
      BY <1>0, <1>6, <2>1 DEF Placed
    <3>1. CASE j = id
      <4>1. Spots(ac', j) = {} /\ Frames(stack', j) = {Len(stack) + 1} /\ Len(ran[j]) = 0
        BY <1>1, <1>3, <1>4, <1>6, <3>0, <3>1
      <4>2. Single(Frames(stack', j))
        BY <4>1 DEF Single
      <4> QED BY <4>1, <4>2 DEF InOnePlace
    <3>2. CASE j # id
      <4>1. Frames(stack', j) = Frames(stack, j)
        BY <1>5, <3>0, <3>2
      <4>2. (Spots(ac, j) = {} => Spots(ac', j) = {}) /\ (Single(Spots(ac, j)) => Single(Spots(ac', j)))
        BY <1>3, <3>2
      <4> QED BY <3>0, <4>1, <4>2 DEF InOnePlace
    <3> QED BY <3>1, <3>2
  <2>2. ASSUME NEW j \in Ids, j > Len(issued)
        PROVE  Len(ran[j]) = 0 /\ Frames(stack', j) = {} /\ Spots(ac', j) = {}
    <3>0. Len(ran[j]) = 0 /\ Frames(stack, j) = {} /\ Spots(ac, j) = {}
      BY <1>0, <2>2 DEF Placed
    <3>1. j # id
      <4>1. \A S : Single(S) => S # {}
        BY DEF Single
      <4> QED BY <1>1, <1>6, <3>0, <4>1
    <3> QED BY <1>3, <1>5, <3>0, <3>1
  <2> QED BY <2>1, <2>2 DEF Placed
<1>8. Paid'
  <2>1. ASSUME NEW j \in Ids, Spots(ac', j) # {} PROVE sends[j] <= retries[j] + 1
    BY <1>0, <1>3, <2>1 DEF Paid
  <2>2. ASSUME NEW i \in 1 .. Len(stack'), stack'[i].kind = "cb"
        PROVE  /\ stack'[i].at = "start" => sends[stack'[i].id] <= retries[stack'[i].id] + 1
               /\ stack'[i].at = "resend" => sends[stack'[i].id] <= retries[stack'[i].id]
    <3>1. CASE i \in 1 .. Len(stack) /\ stack'[i] = stack[i]
      BY <1>0, <2>2, <3>1 DEF Paid
    <3>2. CASE id # 0 /\ stack'[i] = f
      <4>1. f.id = id /\ f.at = "start"
        BY <3>2 DEF Handled
      <4> QED BY <1>1, <3>2, <4>1
    <3>3. \/ i \in 1 .. Len(stack) /\ stack'[i] = stack[i]
          \/ id # 0 /\ stack'[i] = f
      <4>1. CASE id = 0
        BY <2>2, <4>1
      <4>2. CASE id # 0
        <5>1. stack' = Append(stack, f) /\ Handled(c, id, f)
          BY <4>2
        <5>2. \A k \in 1 .. Len(stack') : (k \in 1 .. Len(stack) /\ stack'[k] = stack[k]) \/ stack'[k] = f
          <6>1. Stacked(id, f, Append(stack, f))
            BY <1>1, <4>2, <5>1, HandledStack
          <6> QED BY <5>1, <6>1 DEF Stacked
        <5> QED BY <4>2, <5>2
      <4> QED BY <4>1, <4>2
    <3> QED BY <3>1, <3>2, <3>3
  <2> QED BY <1>0, <2>1, <2>2 DEF Paid
<1> QED BY <1>7, <1>8

LEMMA TakenStep ==
    ASSUME Inv, NEW c \in Holders, ac[c].queue # <<>>, NEW id, id = Head(ac[c].queue),
           NEW q, q = Tail(ac[c].queue), TookFrom(c, q), NEW l \in GoodLink, l.peer = link[c].peer,
           link' = [link EXCEPT ![c] = l], TornIn(stack, c) \/ (Match(l, q) /\ Open(l, executed)),
           NEW f, id # 0 => Handled(c, id, f) /\ ~freed, stack' = IF id = 0 THEN stack ELSE Append(stack, f),
           UNCHANGED <<clusterVars, executed, useSlots, accVars, node, freed, undefined, historyVars>>
    PROVE  Inv'
<1>0. /\ Typed /\ Shaped(stack) /\ Linked /\ Routed /\ Doomed /\ Addressed /\ Kept
      /\ Aligned /\ Owned /\ Once
  BY DEF Inv
<1>1. /\ UNCHANGED <<owner, importer, seen, alive, faults, executed>>
      /\ UNCHANGED <<useSlots, table, updateTime, accErr, retries, node, freed, undefined>>
      /\ UNCHANGED <<issued, sends, ran, notReached>>
  BY DEF clusterVars, accVars, historyVars
<1>2. Placed' /\ Paid'
  BY <1>1, TakenPlaces
<1>3. /\ ac' \in [Holders -> ActxType] /\ ac[c].live
      /\ \A x \in Holders : /\ ac'[x].live = ac[x].live /\ ac'[x].err = ac[x].err
                            /\ ac'[x].freeing = ac[x].freeing /\ ac'[x].data = ac[x].data
                            /\ x # c => ac'[x] = ac[x]
      /\ ac'[c].queue = q
  <2>1. q \in Seq(0 .. MaxCalls)
    BY <1>0, QueueTypes, HeadTailType
  <2> QED BY <2>1, TookFacts
<1>4. /\ link' \in [Holders -> GoodLink] /\ link'[c] = l /\ \A x \in Holders : x # c => link'[x] = link[x]
      /\ \A x \in Holders : link'[x].peer = link[x].peer
  BY <1>0 DEF Typed, ClusterTyped
<1>5. /\ stack' \in Seq(GoodFrame) /\ Shaped(stack')
      /\ \A x : TornIn(stack', x) <=> TornIn(stack, x)
      /\ \A i \in 1 .. Len(stack) : i \in 1 .. Len(stack') /\ stack'[i] = stack[i]
      /\ \A i \in 1 .. Len(stack') : \/ i \in 1 .. Len(stack) /\ stack'[i] = stack[i]
                                     \/ id # 0 /\ stack'[i] = f
      /\ stack # <<>> => stack' # <<>> /\ stack'[1] = stack[1]
  <2>1. CASE id = 0
    <3>1. stack' = stack
      BY <2>1
    <3> QED BY <1>0, <3>1 DEF Typed
  <2>2. CASE id # 0
    <3>1. stack' = Append(stack, f) /\ Handled(c, id, f) /\ id \in Ids
      BY <2>2, HeadPlaced
    <3>2. PICK u : u = Append(stack, f)
      OBVIOUS
    <3>3. /\ u \in Seq(GoodFrame) /\ Shaped(u) /\ u # <<>>
          /\ \A x : TornIn(u, x) <=> TornIn(stack, x)
          /\ \A i \in 1 .. Len(stack) : i \in 1 .. Len(u) /\ u[i] = stack[i]
          /\ \A i \in 1 .. Len(u) : (i \in 1 .. Len(stack) /\ u[i] = stack[i]) \/ u[i] = f
          /\ stack # <<>> => u[1] = stack[1]
      <4>1. Stacked(id, f, Append(stack, f))
        BY <3>1, HandledStack
      <4>2. Stacked(id, f, u)
        BY <3>2, <4>1
      <4> QED BY <4>2 DEF Stacked
    <3>4. stack' = u
      BY <3>1, <3>2
    <3> QED BY <2>2, <3>3, <3>4
  <2> QED BY <2>1, <2>2
<1>6. id # 0 => /\ ~freed /\ f.kind = "cb" /\ f.conn = c /\ f.id = id /\ (f.reply.type # "null" => f.reply.id = id)
                /\ f.reply.type \in {"moved", "ask", "again"} => ~WasRun(executed, id)
  <2>1. f \in CbFrame => f.kind = "cb"
    BY DEF CbFrame
  <2> QED BY <2>1 DEF Handled
<1>7. Typed'
  BY <1>0, <1>1, <1>3, <1>4, <1>5 DEF Typed, ClusterTyped
<1>8. Linked'
  <2>1. \A p \in Pointers : node[p].acon # None => node[p].acon \in Holders
    BY <1>0 DEF Typed, NodeType
  <2>2. \A p \in Pointers : node'[p].acon # None => ac'[node'[p].acon].live /\ ac'[node'[p].acon].data = p
    BY <1>0, <1>1, <1>3, <2>1 DEF Linked
  <2>3. \A x \in Holders : ~ac'[x].live => ac'[x] = NoActx /\ link'[x] = NoLink
    BY <1>0, <1>3, <1>4 DEF Linked
  <2>4. \A x \in Holders : ac'[x].live => ac'[x].data # None
    BY <1>0, <1>3 DEF Linked
  <2>5. \A i \in 1 .. Len(stack) : stack[i].kind \in {"cb", "teardown"} => ac'[stack[i].conn].live
    BY <1>0, <1>3, FrameConn DEF Linked
  <2>6. \A i \in 1 .. Len(stack') : stack'[i].kind \in {"cb", "teardown"} => ac'[stack'[i].conn].live
    BY <1>3, <1>5, <1>6, <2>5
  <2> QED BY <2>2, <2>3, <2>4, <2>6 DEF Linked
<1>9. Routed'
  <2>1. Ending => Ending'
    BY <1>1, <1>5 DEF Ending
  <2>2. freed => \A i \in 1 .. Len(stack') : stack'[i].kind = "teardown"
    BY <1>0, <1>5, <1>6 DEF Routed
  <2>3. \A i \in 1 .. Len(stack') : stack'[i].kind = "release" => i \in 1 .. Len(stack) /\ stack'[i] = stack[i]
    BY <1>5, <1>6
  <2> QED BY <1>0, <1>1, <2>1, <2>2, <2>3 DEF Routed
<1>10. Doomed'
  <2>1. ASSUME NEW x \in Holders, x # c, stack' # <<>>, Calls(stack'[1], x) PROVE stack # <<>> /\ Calls(stack[1], x)
    <3>1. 1 \in 1 .. Len(stack')
      BY <1>5, <2>1, TailFacts
    <3>2. ~(id # 0 /\ stack'[1] = f)
      BY <1>6, <2>1 DEF Calls
    <3>3. 1 \in 1 .. Len(stack) /\ stack'[1] = stack[1]
      BY <1>5, <3>1, <3>2
    <3>4. stack # <<>>
      BY <3>3
    <3> QED BY <2>1, <3>3, <3>4
  <2>2. ASSUME NEW x \in Holders, ac'[x].err
        PROVE  TornIn(stack', x) \/ (ac'[x].queue = <<>> /\ ~(stack' # <<>> /\ Calls(stack'[1], x)))
    <3>1. CASE x = c
      BY <1>0, <1>3, <1>5, <2>2, <3>1 DEF Doomed
    <3>2. CASE x # c
      BY <1>0, <1>3, <1>5, <2>1, <2>2, <3>2 DEF Doomed
    <3> QED BY <3>1, <3>2
  <2>3. \A x \in Holders : ac'[x].freeing => TornIn(stack', x) \/ (stack' # <<>> /\ Calls(stack'[1], x))
    BY <1>0, <1>3, <1>5 DEF Doomed
  <2> QED BY <2>2, <2>3 DEF Doomed
<1>11. Addressed'
  <2>1. \A p \in Pointers : node[p].acon # None => node[p].acon \in Holders
    BY <1>0 DEF Typed, NodeType
  <2> QED BY <1>0, <1>1, <1>4, <2>1 DEF Addressed
<1>12. Kept'
  BY <1>0, <1>1, <1>3 DEF Kept
<1>13. Aligned'
  <2> SUFFICES ASSUME NEW x \in Holders, ac'[x].live, ~TornIn(stack', x) PROVE Match(link'[x], ac'[x].queue)
    BY DEF Aligned
  <2>1. CASE x = c
    BY <1>3, <1>4, <1>5, <2>1
  <2>2. CASE x # c
    BY <1>0, <1>3, <1>4, <1>5, <2>2 DEF Aligned
  <2> QED BY <2>1, <2>2
<1>14. Owned'
  <2>1. OwnReply'
    BY <1>0, <1>1 DEF Owned, OwnReply
  <2> QED BY <1>0, <1>5, <1>6, <2>1 DEF Owned
<1>15. Once'
  <2>1. ASSUME NEW x \in Holders, ac'[x].live, ~TornIn(stack', x) PROVE Open(link'[x], executed)
    <3>1. CASE x = c
      BY <1>4, <1>5, <2>1, <3>1
    <3>2. CASE x # c
      BY <1>0, <1>3, <1>4, <1>5, <2>1, <3>2 DEF Once
    <3> QED BY <3>1, <3>2
  <2>2. \A i \in 1 .. Len(stack') :
          stack'[i].kind = "cb" /\ stack'[i].at \in {"start", "resend"}
             /\ stack'[i].reply.type \in {"moved", "ask", "again"} => ~WasRun(executed, stack'[i].id)
    BY <1>0, <1>5, <1>6 DEF Once
  <2> QED BY <1>0, <1>1, <2>1, <2>2 DEF Once
<1> QED BY <1>2, <1>5, <1>7, <1>8, <1>9, <1>10, <1>11, <1>12, <1>13, <1>14, <1>15 DEF Inv

\* A reply is read.
ReadFrom(l) == [l EXCEPT !.in = Tail(l.in)]

LEMMA ReadFacts ==
    ASSUME NEW l \in GoodLink, l.in # <<>>
    PROVE  /\ ReadFrom(l) \in GoodLink /\ ReadFrom(l).peer = l.peer /\ ReadFrom(l).state = l.state
           /\ ReadFrom(l).sent = l.sent /\ ReadFrom(l).in = Tail(l.in)
           /\ Head(l.in) \in GoodReply
<1>1. l.in \in Seq(GoodReply)
  BY LinkLists
<1>2. Tail(l.in) \in Seq(GoodReply) /\ Head(l.in) \in GoodReply
  BY <1>1, HeadTailType
<1> QED BY <1>2 DEF ReadFrom, GoodLink

LEMMA MatchRead ==
    ASSUME NEW l \in GoodLink, NEW q \in Seq(0 .. MaxCalls), Match(l, q), l.in # <<>>
    PROVE  /\ q # <<>> /\ Head(l.in).id = Head(q) /\ (Head(l.in).op = "cmd" <=> Head(q) # 0)
           /\ Match(ReadFrom(l), Tail(q))
<1> DEFINE i0 == Len(l.in)
           s0 == Len(l.sent)
           n == Len(q)
<1>0. i0 \in Nat \ {0} /\ s0 \in Nat /\ n \in Nat /\ l.in \in Seq(GoodReply)
  <2>1. l.in \in Seq(GoodReply) /\ s0 \in Nat
    BY LinkLists
  <2>2. i0 \in Nat \ {0}
    BY <2>1, TailFacts
  <2> QED BY <2>1, <2>2
<1>1. /\ i0 + s0 <= n /\ (l.state = "open" => i0 + s0 = n) /\ (l.state # "open" => l.sent = <<>>)
      /\ \A i \in 1 .. i0 : l.in[i].id = q[i] /\ (l.in[i].op = "cmd" <=> q[i] # 0)
      /\ \A i \in 1 .. s0 : l.sent[i].id = q[i0 + i] /\ (l.sent[i].op = "cmd" <=> q[i0 + i] # 0)
  BY DEF Match
<1>2. q # <<>>
  <2> HIDE DEF i0, s0, n
  <2>1. n # 0
    BY <1>0, <1>1
  <2> QED BY <2>1 DEF n
<1>3. /\ Head(q) = q[1] /\ Len(Tail(q)) = n - 1 /\ \A i \in 1 .. n - 1 : Tail(q)[i] = q[i + 1]
      /\ Head(l.in) = l.in[1] /\ Len(Tail(l.in)) = i0 - 1 /\ \A i \in 1 .. i0 - 1 : Tail(l.in)[i] = l.in[i + 1]
  BY <1>0, <1>2, TailFacts
<1>4. 1 \in 1 .. i0
  BY <1>0
<1>5. Head(l.in).id = Head(q) /\ (Head(l.in).op = "cmd" <=> Head(q) # 0)
  BY <1>1, <1>3, <1>4
<1>6. PICK m : m = ReadFrom(l)
  OBVIOUS
<1>7. PICK u : u = Tail(q)
  OBVIOUS
<1>8. m.state = l.state /\ m.sent = l.sent /\ m.in = Tail(l.in) /\ Len(m.in) = i0 - 1 /\ Len(m.sent) = s0 /\ Len(u) = n - 1
  BY <1>3, <1>6, <1>7, ReadFacts
<1> HIDE DEF i0, s0, n
<1>9. (i0 - 1) + s0 <= n - 1 /\ (i0 + s0 = n => (i0 - 1) + s0 = n - 1)
  BY <1>0, <1>1
<1>10. \A i \in 1 .. i0 - 1 : m.in[i].id = u[i] /\ (m.in[i].op = "cmd" <=> u[i] # 0)
  <2> SUFFICES ASSUME NEW i \in 1 .. i0 - 1 PROVE m.in[i].id = u[i] /\ (m.in[i].op = "cmd" <=> u[i] # 0)
    OBVIOUS
  <2>1. i \in 1 .. n - 1 /\ i + 1 \in 1 .. i0
    BY <1>0, <1>1
  <2> QED BY <1>1, <1>3, <1>7, <1>8, <2>1
<1>11. \A i \in 1 .. s0 : m.sent[i].id = u[(i0 - 1) + i] /\ (m.sent[i].op = "cmd" <=> u[(i0 - 1) + i] # 0)
  <2> SUFFICES ASSUME NEW i \in 1 .. s0
               PROVE  m.sent[i].id = u[(i0 - 1) + i] /\ (m.sent[i].op = "cmd" <=> u[(i0 - 1) + i] # 0)
    OBVIOUS
  <2>1. (i0 - 1) + i \in 1 .. n - 1 /\ ((i0 - 1) + i) + 1 = i0 + i
    BY <1>0, <1>1
  <2>2. u[(i0 - 1) + i] = q[i0 + i]
    BY <1>3, <1>7, <2>1
  <2> QED BY <1>1, <1>8, <2>2
<1>12. Match(m, u)
  BY <1>1, <1>8, <1>9, <1>10, <1>11 DEF Match
<1> QED BY <1>2, <1>5, <1>6, <1>7, <1>12

LEMMA OpenRead ==
    ASSUME NEW l \in GoodLink, NEW ex, Open(l, ex), l.in # <<>>
    PROVE  /\ Head(l.in).op = "cmd" /\ Head(l.in).type # "ok" => ~WasRun(ex, Head(l.in).id)
           /\ Open(ReadFrom(l), ex)
<1> DEFINE i0 == Len(l.in)
<1>0. l.in \in Seq(GoodReply)
  BY LinkLists
<1>1. /\ i0 \in Nat \ {0} /\ Head(l.in) = l.in[1] /\ Len(Tail(l.in)) = i0 - 1
      /\ \A i \in 1 .. i0 - 1 : Tail(l.in)[i] = l.in[i + 1]
  BY <1>0, TailFacts
<1>2. PICK m : m = ReadFrom(l)
  OBVIOUS
<1>3. m.sent = l.sent /\ m.in = Tail(l.in) /\ Len(m.in) = i0 - 1
  BY <1>1, <1>2, ReadFacts
<1> HIDE DEF i0
<1>4. 1 \in 1 .. i0 /\ \A i \in 1 .. i0 - 1 : i + 1 \in 1 .. i0
  BY <1>1
<1>5. \A i \in 1 .. i0 : l.in[i].op = "cmd" /\ l.in[i].type # "ok" => ~WasRun(ex, l.in[i].id)
  BY DEF Open, i0
<1>6. Open(m, ex)
  <2>1. \A i \in 1 .. Len(m.in) : m.in[i].op = "cmd" /\ m.in[i].type # "ok" => ~WasRun(ex, m.in[i].id)
    BY <1>1, <1>3, <1>4, <1>5
  <2>2. \A i \in 1 .. Len(m.sent) : m.sent[i].op = "cmd" => ~WasRun(ex, m.sent[i].id)
    BY <1>3 DEF Open
  <2> QED BY <2>1, <2>2 DEF Open
<1> QED BY <1>1, <1>2, <1>4, <1>5, <1>6

LEMMA UseFreedStep ==
    ASSUME Inv, UseFreed
    PROVE  Inv'
<1>1. /\ UNCHANGED <<clusterVars, link, executed, useSlots, table, updateTime, retries, node, ac, stack,
                     freed, historyVars>>
      /\ undefined' \in BOOLEAN /\ accErr' = accErr
  BY DEF UseFreed, accVars
<1>2. accErr' \in BOOLEAN
  BY <1>1 DEF Inv, Typed
<1> QED BY <1>1, <1>2, IdleStep

LEMMA ReadReplyStep ==
    ASSUME Inv, NEW c \in Holders, ReadReply(c)
    PROVE  Inv'
<1>0. Typed /\ Aligned /\ Once
  BY DEF Inv
<1>1. PICK id : id = Head(ac[c].queue)
  OBVIOUS
<1>2. PICK r : r = Head(link[c].in)
  OBVIOUS
<1>3. EventLoop /\ stack = <<>> /\ ac[c].live /\ link[c].in # <<>>
  BY DEF ReadReply, EventLoop
<1>4. CASE freed /\ id # 0
  <2>1. UseFreed
    BY <1>1, <1>4 DEF ReadReply
  <2> QED BY <2>1, UseFreedStep
<1>5. CASE ~(freed /\ id # 0)
  <2> DEFINE f == Callback(c, id, [id |-> r.id, type |-> r.type, to |-> r.to])
             q == Tail(ac[c].queue)
             l == ReadFrom(link[c])
  <2>1. /\ link' = [link EXCEPT ![c].in = Tail(@)] /\ ac' = [ac EXCEPT ![c].queue = Tail(@)]
        /\ stack' = IF id = 0 THEN <<>> ELSE <<f>>
        /\ UNCHANGED <<clusterVars, executed, useSlots, accVars, node, freed, undefined, historyVars>>
    BY <1>1, <1>2, <1>5, Zenon DEF ReadReply
  <2>2. ac[c].queue \in Seq(0 .. MaxCalls) /\ link[c] \in GoodLink /\ ac \in [Holders -> ActxType]
        /\ link \in [Holders -> GoodLink]
    BY <1>0, QueueTypes DEF Typed, ClusterTyped
  <2>3. Match(link[c], ac[c].queue) /\ Open(link[c], executed)
    BY <1>0, <1>3, EmptyStack DEF Aligned, Once
  <2>4. /\ ac[c].queue # <<>> /\ r.id = id /\ (r.op = "cmd" <=> id # 0)
        /\ Match(l, q)
    BY <1>1, <1>2, <1>3, <2>2, <2>3, MatchRead
  <2>5. /\ r.op = "cmd" /\ r.type # "ok" => ~WasRun(executed, r.id)
        /\ Open(l, executed)
    BY <1>2, <1>3, <2>2, <2>3, OpenRead
  <2>6. l \in GoodLink /\ l.peer = link[c].peer /\ r \in GoodReply
    BY <1>2, <1>3, <2>2, ReadFacts
  <2>7. id \in 0 .. MaxCalls /\ (id # 0 => id \in Ids)
    BY <1>1, <2>4, HeadPlaced
  <2>8. id # 0 => Handled(c, id, f)
    <3> SUFFICES ASSUME id # 0 PROVE Handled(c, id, f)
      OBVIOUS
    <3>1. PICK g : g = [id |-> r.id, type |-> r.type, to |-> r.to]
      OBVIOUS
    <3>2. g \in GoodAnswer /\ g.id = id /\ g.type = r.type
      BY <2>4, <2>6, <2>7, <3>1 DEF GoodReply, Reply, GoodAnswer, Answer
    <3>3. f = Callback(c, id, g)
      BY <3>1
    <3> HIDE DEF f
    <3>4. /\ f \in CbFrame /\ f.conn = c /\ f.id = id /\ f.reply = g /\ f.at = "start"
      BY <2>7, <3>2, <3>3, FrameTypes
    <3>5. g.type \in {"moved", "ask", "again"} => ~WasRun(executed, id)
      BY <2>4, <2>5, <3>2
    <3> QED BY <1>3, <3>2, <3>4, <3>5 DEF Handled
  <2>9. stack' = IF id = 0 THEN stack ELSE Append(stack, f)
    <3>1. Append(<<>>, f) = <<f>>
      OBVIOUS
    <3> QED BY <1>3, <2>1, <3>1
  <2>10. TookFrom(c, q)
    BY <2>1, <2>2 DEF TookFrom
  <2>11. link' = [link EXCEPT ![c] = l]
    BY <2>1, <2>2 DEF ReadFrom
  <2> HIDE DEF f, q, l
  <2>12. id # 0 => Handled(c, id, f) /\ ~freed
    BY <1>5, <2>8
  <2>13. q = Tail(ac[c].queue)
    BY DEF q
  <2> QED BY <1>1, <2>1, <2>4, <2>5, <2>6, <2>9, <2>10, <2>11, <2>12, <2>13, TakenStep
<1> QED BY <1>4, <1>5

LEMMA TearTop ==
    ASSUME Typed, Running("teardown")
    PROVE  /\ stack \in Seq(GoodFrame) /\ stack # <<>> /\ Len(stack) \in Nat \ {0}
           /\ Len(stack) \in 1 .. Len(stack) /\ Top = stack[Len(stack)] /\ Top.kind = "teardown"
           /\ Top.conn \in Holders /\ TornIn(stack, Top.conn)
<1>1. stack \in Seq(GoodFrame) /\ stack # <<>> /\ Top = stack[Len(stack)] /\ Top.kind = "teardown"
  BY DEF Typed, Running, Top
<1>2. Len(stack) \in Nat \ {0}
  BY <1>1, TailFacts
<1>3. Len(stack) \in 1 .. Len(stack)
  BY <1>2
<1>4. Top \in GoodFrame
  BY <1>1, <1>3, ElementType
<1>5. Top \in TearFrame
  BY <1>1, <1>4, FrameKind
<1>6. TornIn(stack, Top.conn)
  BY <1>1, <1>3 DEF TornIn, Tears
<1> QED BY <1>1, <1>2, <1>3, <1>5, <1>6 DEF TearFrame

LEMMA TeardownCallbackStep ==
    ASSUME Inv, TeardownCallback
    PROVE  Inv'
<1>0. Typed
  BY DEF Inv
<1>1. PICK c : c = Top.conn
  OBVIOUS
<1>2. PICK id : id = Head(ac[c].queue)
  OBVIOUS
<1>3. Running("teardown") /\ ac[c].queue # <<>>
  BY <1>1 DEF TeardownCallback
<1>4. /\ stack # <<>> /\ Top = stack[Len(stack)] /\ Top.kind = "teardown"
      /\ c \in Holders /\ TornIn(stack, c)
  BY <1>0, <1>1, <1>3, TearTop
<1>5. CASE freed /\ id # 0
  <2>1. UseFreed
    BY <1>1, <1>2, <1>5 DEF TeardownCallback
  <2> QED BY <2>1, UseFreedStep
<1>6. CASE ~(freed /\ id # 0)
  <2> DEFINE f == Callback(c, id, NullReply)
             q == Tail(ac[c].queue)
             l == link[c]
  <2>1. /\ ac' = [ac EXCEPT ![c].queue = Tail(@)]
        /\ stack' = IF id = 0 THEN stack ELSE Append(stack, f)
        /\ UNCHANGED <<clusterVars, link, executed, useSlots, accVars, node, freed, undefined, historyVars>>
    BY <1>1, <1>2, <1>6, Zenon DEF TeardownCallback
  <2>2. ac[c].queue \in Seq(0 .. MaxCalls) /\ link[c] \in GoodLink /\ ac \in [Holders -> ActxType]
        /\ link \in [Holders -> GoodLink]
    BY <1>0, <1>4, QueueTypes DEF Typed, ClusterTyped
  <2>3. id \in 0 .. MaxCalls /\ (id # 0 => id \in Ids)
    BY <1>2, <1>3, <1>4, HeadPlaced
  <2>4. id # 0 => Handled(c, id, f)
    <3> SUFFICES ASSUME id # 0 PROVE Handled(c, id, f)
      OBVIOUS
    <3>1. NullReply \in GoodAnswer /\ NullReply.type = "null"
      BY AsyncAssumption DEF NullReply, GoodAnswer, Answer
    <3>2. f \in CbFrame /\ f.conn = c /\ f.id = id /\ f.reply = NullReply /\ f.at = "start"
      BY <1>4, <2>3, <3>1, FrameTypes
    <3>3. Tears(stack[Len(stack)], c)
      BY <1>1, <1>4 DEF Tears
    <3> HIDE DEF f
    <3> QED BY <3>1, <3>2, <3>3 DEF Handled
  <2>5. TookFrom(c, q)
    BY <1>4, <2>1, <2>2 DEF TookFrom
  <2>6. link' = [link EXCEPT ![c] = l]
    BY <1>4, <2>1, <2>2
  <2> HIDE DEF f, q, l
  <2>7. id # 0 => Handled(c, id, f) /\ ~freed
    BY <1>6, <2>4
  <2>8. q = Tail(ac[c].queue) /\ l \in GoodLink /\ l.peer = link[c].peer
    BY <2>2 DEF q, l
  <2>9. UNCHANGED <<clusterVars, executed, useSlots, accVars, node, freed, undefined, historyVars>>
    BY <2>1
  <2> QED BY <1>2, <1>3, <1>4, <2>1, <2>5, <2>6, <2>7, <2>8, <2>9, TakenStep
<1> QED BY <1>5, <1>6

-----------------------------------------------------------------------------
(* A connection ends. *)

LEMMA ConnectionFailsStep ==
    ASSUME Inv, NEW c \in Holders, ConnectionFails(c)
    PROVE  Inv'
<1>0. Typed /\ Linked /\ Routed /\ Doomed /\ Addressed /\ Kept
  BY DEF Inv
<1> DEFINE t == Teardown(c)
<1>1. /\ stack = <<>> /\ ac[c].live /\ ac' = [ac EXCEPT ![c].err = TRUE] /\ stack' = <<t>>
      /\ UNCHANGED <<clusterVars, link, executed, useSlots, accVars, node, freed, undefined, historyVars>>
  BY DEF ConnectionFails, EventLoop
<1>2. /\ UNCHANGED <<owner, importer, seen, alive, faults, link, executed>>
      /\ UNCHANGED <<useSlots, table, updateTime, accErr, retries, node, freed, undefined>>
      /\ UNCHANGED <<issued, sends, ran, notReached>>
  BY <1>1 DEF clusterVars, accVars, historyVars
<1>3. t \in GoodFrame /\ t.kind = "teardown" /\ t.conn = c
  BY FrameTypes
<1> HIDE DEF t
<1>4. /\ stack' \in Seq(GoodFrame) /\ Len(stack') = 1 /\ stack'[1] = t /\ Shaped(stack')
      /\ (\A i \in 1 .. 1 : i = 1) /\ (\A x : TornIn(stack', x) <=> Tears(t, x))
      /\ \A id : Frames(stack', id) = {}
  <2>1. /\ <<t>> \in Seq(GoodFrame) /\ Len(<<t>>) = 1 /\ <<t>>[1] = t /\ Shaped(<<t>>)
        /\ (\A i \in 1 .. 1 : i = 1)
        /\ \A x : TornIn(<<t>>, x) <=> Tears(t, x)
        /\ \A id : Frames(<<t>>, id) = {}
    BY <1>3, PushOne
  <2> QED BY <1>1, <2>1
<1>5. /\ Len(stack) = 0 /\ 1 .. Len(stack) = {} /\ (\A x : ~TornIn(stack, x)) /\ (\A id : Frames(stack, id) = {})
      /\ \A x \in Holders : (ac[x].err => ac[x].queue = <<>>) /\ ~ac[x].freeing
  BY <1>1, EmptyStack
<1>6. /\ ac' \in [Holders -> ActxType]
      /\ \A x \in Holders : /\ ac'[x].queue = ac[x].queue /\ ac'[x].live = ac[x].live
                            /\ ac'[x].freeing = ac[x].freeing /\ ac'[x].data = ac[x].data
                            /\ (x # c => ac'[x] = ac[x])
  BY <1>0, <1>1 DEF Typed, ActxType
<1>7. Aligned' /\ Placed' /\ Owned' /\ Once' /\ Paid'
  <2>1. UNCHANGED <<link, executed, issued, sends, retries, ran>>
    BY <1>2
  <2>2. \A i \in 1 .. Len(stack') : stack'[i].kind = "cb" => i \in 1 .. Len(stack) /\ stack'[i] = stack[i]
    BY <1>3, <1>4
  <2> QED BY <1>4, <1>5, <1>6, <2>1, <2>2, CommandsIdle
<1>8. Typed'
  BY <1>0, <1>2, <1>4, <1>6 DEF Typed, ClusterTyped
<1>9. Linked'
  <2>1. \A i \in 1 .. Len(stack') : stack'[i].kind \in {"cb", "teardown"} => ac'[stack'[i].conn].live
    BY <1>1, <1>3, <1>4, <1>6
  <2>2. \A p \in Pointers : node[p].acon # None => node[p].acon \in Holders
    BY <1>0 DEF Typed, NodeType
  <2>3. \A p \in Pointers : node'[p].acon # None => ac'[node'[p].acon].live /\ ac'[node'[p].acon].data = p
    BY <1>0, <1>2, <1>6, <2>2 DEF Linked
  <2>4. \A x \in Holders : ~ac'[x].live => ac'[x] = NoActx /\ link'[x] = NoLink
    BY <1>0, <1>1, <1>2, <1>6 DEF Linked
  <2>5. \A x \in Holders : ac'[x].live => ac'[x].data # None
    BY <1>0, <1>6 DEF Linked
  <2> QED BY <2>1, <2>3, <2>4, <2>5 DEF Linked
<1>10. Doomed'
  <2>1. TornIn(stack', c) /\ \A x : ~Calls(stack'[1], x)
    BY <1>3, <1>4 DEF Tears, Calls
  <2> QED BY <1>5, <1>6, <2>1 DEF Doomed
<1>11. Addressed'
  BY <1>0, <1>2 DEF Addressed
<1>12. Kept'
  BY <1>0, <1>2, <1>6 DEF Kept
<1>13. Routed'
  <2>1. ~Ending' => ~Ending
    BY <1>2, <1>5 DEF Ending
  <2> QED BY <1>0, <1>2, <1>3, <1>4, <2>1 DEF Routed
<1> QED BY <1>4, <1>7, <1>8, <1>9, <1>10, <1>11, <1>12, <1>13 DEF Inv

\* unlinkAsyncContextAndNode for connection c of node d.
Unlinked(c, d) ==
    /\ node' = [p \in Pointers |->
                  CASE p = c -> NoNode
                    [] p = d /\ p # c -> [node[p] EXCEPT !.acon = None]
                    [] OTHER -> node[p]]
    /\ ac' = [ac EXCEPT ![c] = NoActx]
    /\ link' = [link EXCEPT ![c] = NoLink]

LEMMA UnlinkedFacts ==
    ASSUME Typed, NEW c \in Holders, NEW d \in Pointers, Unlinked(c, d)
    PROVE  /\ node' \in [Pointers -> NodeType] /\ ac' \in [Holders -> ActxType] /\ link' \in [Holders -> GoodLink]
           /\ node'[c] = NoNode /\ ac'[c] = NoActx /\ link'[c] = NoLink
           /\ \A p \in Pointers : p # c => node'[p].host = node[p].host
           /\ \A p \in Pointers : p # c /\ p # d => node'[p] = node[p]
           /\ node'[d].acon = None /\ node'[c].acon = None
           /\ \A x \in Holders : x # c => ac'[x] = ac[x] /\ link'[x] = link[x]
<1>1. /\ node \in [Pointers -> NodeType] /\ ac \in [Holders -> ActxType] /\ link \in [Holders -> GoodLink]
      /\ c \in Pointers
  BY KeyFacts DEF Typed, ClusterTyped
<1>2. NoNode \in NodeType /\ NoNode.acon = None
  BY AsyncAssumption DEF NodeType, NoNode
<1>3. NoActx \in ActxType
  <2>1. <<>> \in Seq(0 .. MaxCalls)
    OBVIOUS
  <2> QED BY <2>1 DEF NoActx, ActxType
<1>4. \A v \in NodeType : /\ [v EXCEPT !.acon = None] \in NodeType /\ [v EXCEPT !.acon = None].acon = None
                          /\ [v EXCEPT !.acon = None].host = v.host
  BY DEF NodeType
<1>5. ac' \in [Holders -> ActxType] /\ ac'[c] = NoActx /\ \A x \in Holders : x # c => ac'[x] = ac[x]
  BY <1>1, <1>3 DEF Unlinked
<1>6. link' \in [Holders -> GoodLink] /\ link'[c] = NoLink /\ \A x \in Holders : x # c => link'[x] = link[x]
  BY <1>1, NoLinkType DEF Unlinked
<1>7. /\ node'[c] = NoNode /\ \A p \in Pointers : p # c /\ p # d => node'[p] = node[p]
      /\ d # c => node'[d] = [node[d] EXCEPT !.acon = None]
      /\ DOMAIN node' = Pointers /\ node' = [p \in Pointers |-> node'[p]]
  BY <1>1 DEF Unlinked
<1>8. /\ \A p \in Pointers : node'[p] \in NodeType /\ (p # c => node'[p].host = node[p].host)
      /\ node'[d].acon = None /\ node'[c].acon = None
  <2>1. node'[c] \in NodeType /\ node'[c].acon = None
    BY <1>2, <1>7
  <2>2. d # c => node'[d] \in NodeType /\ node'[d].acon = None /\ node'[d].host = node[d].host
    <3>1. PICK v \in NodeType : v = node[d]
      BY <1>1
    <3>2. d # c => node'[d] = [v EXCEPT !.acon = None]
      BY <1>7, <3>1
    <3>3. /\ [v EXCEPT !.acon = None] \in NodeType /\ [v EXCEPT !.acon = None].acon = None
          /\ [v EXCEPT !.acon = None].host = v.host
      BY <1>4, <3>1
    <3> QED BY <3>1, <3>2, <3>3
  <2>3. \A p \in Pointers : p # c /\ p # d => node'[p] \in NodeType /\ node'[p].host = node[p].host
    BY <1>1, <1>7
  <2> QED BY <2>1, <2>2, <2>3
<1>9. node' \in [Pointers -> NodeType]
  BY <1>7, <1>8
<1> QED BY <1>5, <1>6, <1>7, <1>8, <1>9

LEMMA TeardownEndsStep ==
    ASSUME Inv, TeardownEnds
    PROVE  Inv'
<1>0. /\ Typed /\ Shaped(stack) /\ Linked /\ Routed /\ Doomed /\ Addressed /\ Kept
      /\ Aligned /\ Placed /\ Owned /\ Once /\ Paid
  BY DEF Inv
<1> DEFINE n == Len(stack)
<1>a. PICK c : c = Top.conn
  OBVIOUS
<1>b. PICK d : d = ac[c].data
  OBVIOUS
<1>1. Running("teardown") /\ ac[c].queue = <<>>
  BY <1>a DEF TeardownEnds
<1>2. /\ stack \in Seq(GoodFrame) /\ stack # <<>> /\ n \in Nat \ {0} /\ n \in 1 .. n
      /\ Top = stack[n] /\ Top.kind = "teardown" /\ c \in Holders
  BY <1>0, <1>1, <1>a, TearTop
<1>3. CASE d = Dangling
  <2>1. UseFreed
    BY <1>a, <1>b, <1>3 DEF TeardownEnds
  <2> QED BY <2>1, UseFreedStep
<1>4. CASE d # Dangling
  <2>1. /\ Unlinked(c, d) /\ stack' = Below
        /\ UNCHANGED <<clusterVars, executed, useSlots, accVars, freed, undefined, historyVars>>
    BY <1>a, <1>b, <1>4, Zenon DEF TeardownEnds, Unlinked
  <2>2. /\ UNCHANGED <<owner, importer, seen, alive, faults, executed>>
        /\ UNCHANGED <<useSlots, table, updateTime, accErr, retries, freed, undefined>>
        /\ UNCHANGED <<issued, sends, ran, notReached>>
    BY <2>1 DEF clusterVars, accVars, historyVars
  <2>3. ac[c].live /\ d \in Pointers
    <3>1. ac[c].live
      BY <1>0, <1>2, <1>a DEF Linked
    <3>2. d \in Pointers \cup {None, Dangling} /\ d # None
      BY <1>0, <1>2, <1>b, <3>1 DEF Linked, Typed, ActxType
    <3> QED BY <1>4, <3>1, <3>2
  <2>4. /\ node' \in [Pointers -> NodeType] /\ ac' \in [Holders -> ActxType] /\ link' \in [Holders -> GoodLink]
        /\ node'[c] = NoNode /\ ac'[c] = NoActx /\ link'[c] = NoLink
        /\ \A p \in Pointers : p # c => node'[p].host = node[p].host
        /\ \A p \in Pointers : p # c /\ p # d => node'[p] = node[p]
        /\ node'[d].acon = None /\ node'[c].acon = None
        /\ \A x \in Holders : x # c => ac'[x] = ac[x] /\ link'[x] = link[x]
    BY <1>0, <1>2, <2>1, <2>3, UnlinkedFacts
  <2>5. /\ stack' \in Seq(GoodFrame) /\ Len(stack') = n - 1 /\ \A i \in 1 .. n - 1 : stack'[i] = stack[i]
        /\ \A i \in 1 .. n : i \in 1 .. n - 1 \/ i = n
    BY <1>2, <2>1, PopFacts DEF Below
  <2>6. /\ Shaped(stack')
        /\ \A x : TornIn(stack, x) <=> TornIn(stack', x) \/ Tears(stack[n], x)
    BY <1>0, <1>2, <2>1, PopShaped DEF Below
  <2>7. \A id : Frames(stack', id) = Frames(stack, id)
    <3>1. \A id : Frames(stack', id) = Frames(stack, id) \ {n}
      BY <1>2, <2>1, FramesPop DEF Below
    <3>2. \A id : n \notin Frames(stack, id)
      BY <1>2 DEF Frames, Active
    <3> QED BY <3>1, <3>2
  <2> HIDE DEF n
  <2>8. \A i \in 1 .. n - 1 : i \in 1 .. n /\ ~Tears(stack[i], c) /\ ~Calls(stack[i], c)
    <3> SUFFICES ASSUME NEW i \in 1 .. n - 1 PROVE i \in 1 .. n /\ ~Tears(stack[i], c) /\ ~Calls(stack[i], c)
      OBVIOUS
    <3>1. i \in 1 .. n /\ i < n
      BY <1>2
    <3> QED BY <1>0, <1>2, <1>a, <3>1 DEF Shaped, n
  <2>9. /\ \A i \in 1 .. Len(stack') : i \in 1 .. n /\ stack'[i] = stack[i]
        /\ \A i \in 1 .. Len(stack') : stack'[i].kind \in {"cb", "teardown"} => stack'[i].conn # c
    BY <2>5, <2>8 DEF Tears, Calls
  <2>10. \A x : x # c => (TornIn(stack', x) <=> TornIn(stack, x))
    BY <1>2, <1>a, <2>6 DEF Tears
  <2>11. NoActx.queue = <<>> /\ ~NoActx.live /\ ~NoActx.err /\ ~NoActx.freeing
    BY DEF NoActx
  <2>12. \A id : Spots(ac', id) = Spots(ac, id)
    <3>1. \A x \in Holders : ac'[x].queue = ac[x].queue
      BY <1>1, <2>4, <2>11
    <3> QED BY <3>1, SpotsSame
  <2>13. Typed'
    BY <1>0, <2>2, <2>4, <2>5 DEF Typed, ClusterTyped
  <2>14. Linked'
    <3>1. \A i \in 1 .. Len(stack') : stack'[i].kind \in {"cb", "teardown"} => ac'[stack'[i].conn].live
      <4>1. \A i \in 1 .. n : stack[i].kind \in {"cb", "teardown"} => ac[stack[i].conn].live /\ stack[i].conn \in Holders
        BY <1>0, FrameConn DEF Linked, n
      <4> QED BY <2>4, <2>9, <4>1
    <3>2. ASSUME NEW p \in Pointers, node'[p].acon # None
          PROVE  ac'[node'[p].acon].live /\ ac'[node'[p].acon].data = p
      <4>1. p # c /\ p # d /\ node'[p] = node[p]
        BY <2>4, <3>2
      <4>2. node[p].acon \in Holders /\ ac[node[p].acon].live /\ ac[node[p].acon].data = p
        BY <1>0, <3>2, <4>1 DEF Linked, Typed, NodeType
      <4>3. node[p].acon # c
        BY <1>b, <4>1, <4>2
      <4> QED BY <2>4, <4>1, <4>2, <4>3
    <3>3. \A x \in Holders : ~ac'[x].live => ac'[x] = NoActx /\ link'[x] = NoLink
      BY <1>0, <2>4 DEF Linked
    <3>4. \A x \in Holders : ac'[x].live => ac'[x].data # None
      BY <1>0, <2>4, <2>11 DEF Linked
    <3> QED BY <3>1, <3>2, <3>3, <3>4 DEF Linked
  <2>15. Routed'
    <3>1. Ending => Ending'
      <4>1. \A i \in 1 .. n : stack[i].kind = "release" => i \in 1 .. Len(stack') /\ stack'[i] = stack[i]
        BY <1>2, <2>5
      <4> QED BY <2>2, <4>1 DEF Ending, n
    <3>2. \A s \in Slots : table[s] \in Pointers /\ table[s] # c
      BY <1>0, <1>2, KeyFacts DEF Typed
    <3>3. ~Ending' => \A s \in Slots : node'[table'[s]].host # None
      BY <1>0, <2>2, <2>4, <3>1, <3>2 DEF Routed
    <3>4. /\ freed' => \A i \in 1 .. Len(stack') : stack'[i].kind = "teardown"
          /\ \A i \in 1 .. Len(stack') : stack'[i].kind = "release" /\ ~stack'[i].last =>
                \A s \in Slots : table'[s] \notin stack'[i].todo
      BY <1>0, <2>2, <2>9 DEF Routed, n
    <3> QED BY <3>3, <3>4 DEF Routed
  <2>16. Doomed'
    <3>1. ASSUME NEW x \in Holders, x # c, Calls(stack[1], x) PROVE stack' # <<>> /\ Calls(stack'[1], x)
      <4>1. n # 1
        BY <1>2, <3>1 DEF Calls
      <4>2. 1 \in 1 .. n - 1 /\ Len(stack') # 0
        BY <1>2, <2>5, <4>1
      <4>3. stack' # <<>>
        BY <4>2
      <4> QED BY <2>5, <3>1, <4>2, <4>3
    <3>a. ASSUME NEW x \in Holders, stack' # <<>>, Calls(stack'[1], x) PROVE Calls(stack[1], x)
      <4>1. 1 \in 1 .. Len(stack')
        BY <2>5, <3>a, TailFacts
      <4> QED BY <2>9, <3>a, <4>1
    <3>2. ASSUME NEW x \in Holders
          PROVE  /\ ac'[x].err => \/ TornIn(stack', x)
                                  \/ ac'[x].queue = <<>> /\ ~(stack' # <<>> /\ Calls(stack'[1], x))
                 /\ ac'[x].freeing => TornIn(stack', x) \/ (stack' # <<>> /\ Calls(stack'[1], x))
      <4>1. CASE x = c
        BY <2>4, <2>11, <4>1
      <4>2. CASE x # c
        BY <1>0, <1>2, <2>4, <2>10, <3>1, <3>a, <4>2 DEF Doomed
      <4> QED BY <4>1, <4>2
    <3> QED BY <3>2 DEF Doomed
  <2>17. Addressed'
    <3> SUFFICES ASSUME NEW p \in Pointers
                 PROVE  /\ p \in Nodes => node'[p].host \in {None, p}
                        /\ node'[p].host = None => node'[p].acon = None
                        /\ p \in Holders => node'[p].acon \in {None, p}
                        /\ node'[p].acon # None => link'[node'[p].acon].peer = node'[p].host
      BY DEF Addressed
    <3>1. NoNode.host = None
      BY DEF NoNode
    <3>2. CASE p = c
      BY <2>4, <3>1, <3>2
    <3>3. CASE p = d /\ p # c
      BY <1>0, <2>4, <3>3 DEF Addressed
    <3>4. CASE p # c /\ p # d
      <4>1. node'[p] = node[p]
        BY <2>4, <3>4
      <4>2. node[p].acon # None => node[p].acon \in Holders /\ node[p].acon # c
        BY <1>0, <1>b, <3>4 DEF Linked, Typed, NodeType
      <4> QED BY <1>0, <2>4, <4>1, <4>2 DEF Addressed
    <3> QED BY <3>2, <3>3, <3>4
  <2>18. Kept'
    <3> SUFFICES ASSUME ~notReached', NEW x \in Holders, ac'[x].live
                 PROVE  \/ ac'[x].data \in Pointers /\ node'[ac'[x].data].acon = x
                        \/ ac'[x].data = Dangling /\ ac'[x].freeing
      BY DEF Kept
    <3>1. x # c /\ ac'[x] = ac[x]
      BY <2>4, <2>11
    <3>2. \/ ac[x].data \in Pointers /\ node[ac[x].data].acon = x
          \/ ac[x].data = Dangling /\ ac[x].freeing
      BY <1>0, <2>2, <3>1 DEF Kept
    <3>3. CASE ac[x].data \in Pointers /\ node[ac[x].data].acon = x
      <4>1. ac[x].data # d
        <5>1. node[d].acon = c
          BY <1>0, <1>2, <1>4, <1>b, <2>2, <2>3 DEF Kept
        <5> QED BY <3>1, <3>3, <5>1
      <4>2. ac[x].data # c
        BY <1>0, <1>2, <3>1, <3>3, KeyFacts DEF Addressed
      <4> QED BY <2>4, <3>1, <3>3, <4>1, <4>2
    <3> QED BY <3>1, <3>2, <3>3
  <2>19. Aligned'
    BY <1>0, <2>4, <2>10, <2>11 DEF Aligned
  <2>20. Placed' /\ Paid'
    BY <1>0, <2>2, <2>7, <2>9, <2>12 DEF Placed, Paid, n
  <2>21. Owned'
    <3>1. OwnReply'
      BY <1>0, <2>2 DEF Owned, OwnReply
    <3> QED BY <1>0, <2>9, <3>1 DEF Owned, n
  <2>22. Once'
    <3>1. ASSUME NEW x \in Holders, ac'[x].live, ~TornIn(stack', x) PROVE Open(link'[x], executed)
      BY <1>0, <2>4, <2>10, <2>11, <3>1 DEF Once
    <3>2. \A i \in 1 .. Len(stack') :
            stack'[i].kind = "cb" /\ stack'[i].at \in {"start", "resend"}
               /\ stack'[i].reply.type \in {"moved", "ask", "again"} => ~WasRun(executed, stack'[i].id)
      BY <1>0, <2>9 DEF Once, n
    <3> QED BY <1>0, <2>2, <3>1, <3>2 DEF Once
  <2> QED BY <2>6, <2>13, <2>14, <2>15, <2>16, <2>17, <2>18, <2>19, <2>20, <2>21, <2>22 DEF Inv
<1> QED BY <1>3, <1>4

-----------------------------------------------------------------------------
(* The cluster moves. *)

LEMMA BreakFacts ==
    ASSUME NEW l \in GoodLink, NEW q \in Seq(0 .. MaxCalls), NEW ex
    PROVE  /\ Break(l) \in GoodLink /\ Break(l).peer = l.peer
           /\ Match(l, q) => Match(Break(l), q)
           /\ Open(l, ex) => Open(Break(l), ex)
<1>1. CASE l.state # "open"
  BY <1>1 DEF Break
<1>2. CASE l.state = "open"
  <2>1. PICK m : m = Break(l)
    OBVIOUS
  <2>2. m.state = "broken" /\ m.sent = <<>> /\ m.in = l.in /\ m.peer = l.peer
    BY <1>2, <2>1 DEF Break, GoodLink
  <2>3. Len(m.sent) = 0 /\ 1 .. Len(m.sent) = {} /\ Len(l.in) \in Nat /\ Len(l.sent) \in Nat /\ Len(q) \in Nat
    BY <2>2, LinkLists
  <2>4. Len(l.in) + Len(l.sent) <= Len(q) => Len(m.in) + Len(m.sent) <= Len(q)
    <3>1. \A a, b, k \in Nat : a + b <= k => a + 0 <= k
      OBVIOUS
    <3>2. Len(l.in) + Len(l.sent) <= Len(q) => Len(l.in) + 0 <= Len(q)
      BY <2>3, <3>1
    <3>3. Len(m.in) = Len(l.in) /\ Len(m.sent) = 0
      BY <2>2, <2>3
    <3> QED BY <3>2, <3>3
  <2>5. Match(l, q) => Match(m, q)
    BY <2>2, <2>3, <2>4 DEF Match
  <2>6. Open(l, ex) => Open(m, ex)
    BY <2>2, <2>3 DEF Open
  <2> QED BY <2>1, <2>2, <2>5, <2>6, BreakType
<1> QED BY <1>1, <1>2

\* The reply that Served adds.
Added1(l, type, to) ==
    [id |-> Head(l.sent).id, slot |-> Head(l.sent).slot, op |-> Head(l.sent).op, type |-> type, to |-> to]

LEMMA ServedFacts ==
    ASSUME NEW l \in GoodLink, l.sent # <<>>, NEW type \in ReplyTypes, NEW to \in Nodes \cup {None},
           type = "ask" => to \in Nodes, NEW m, m = Served(l, type, to)
    PROVE  /\ m \in GoodLink /\ m.peer = l.peer /\ m.state = l.state
           /\ Len(l.in) \in Nat /\ Len(l.sent) \in Nat \ {0}
           /\ Len(m.in) = Len(l.in) + 1 /\ Len(m.sent) = Len(l.sent) - 1
           /\ \A i \in 1 .. Len(l.in) : m.in[i] = l.in[i]
           /\ m.in[Len(l.in) + 1].id = l.sent[1].id /\ m.in[Len(l.in) + 1].op = l.sent[1].op
           /\ m.in[Len(l.in) + 1].type = type
           /\ \A i \in 1 .. Len(l.in) + 1 : i \in 1 .. Len(l.in) \/ i = Len(l.in) + 1
           /\ \A i \in 1 .. Len(l.sent) - 1 : m.sent[i] = l.sent[i + 1]
           /\ Head(l.sent) = l.sent[1]
<1> DEFINE r == Added1(l, type, to)
<1>1. m \in GoodLink
  BY ServedType
<1>2. l.in \in Seq(GoodReply) /\ l.sent \in Seq(Request)
  BY LinkLists
<1>3. Head(l.sent) \in Request
  BY <1>2, HeadTailType
<1>4. r \in GoodReply /\ r.id = Head(l.sent).id /\ r.op = Head(l.sent).op /\ r.type = type
  BY <1>3 DEF Request, Reply, GoodReply, Added1
<1>5. m.sent = Tail(l.sent) /\ m.in = Append(l.in, r) /\ m.peer = l.peer /\ m.state = l.state
  BY DEF Served, GoodLink, Added1
<1> HIDE DEF r
<1>6. /\ Len(Append(l.in, r)) = Len(l.in) + 1
      /\ \A i \in 1 .. Len(l.in) : Append(l.in, r)[i] = l.in[i]
      /\ Append(l.in, r)[Len(l.in) + 1] = r
      /\ \A i \in 1 .. Len(l.in) + 1 : i \in 1 .. Len(l.in) \/ i = Len(l.in) + 1
  BY <1>2, <1>4, AppendFacts
<1>7. /\ Len(l.sent) \in Nat \ {0} /\ Head(l.sent) = l.sent[1] /\ Len(Tail(l.sent)) = Len(l.sent) - 1
      /\ \A i \in 1 .. Len(l.sent) - 1 : Tail(l.sent)[i] = l.sent[i + 1]
  BY <1>2, TailFacts
<1>8. Len(l.in) \in Nat
  BY <1>2
<1> QED BY <1>1, <1>4, <1>5, <1>6, <1>7, <1>8

LEMMA MatchServed ==
    ASSUME NEW l \in GoodLink, l.sent # <<>>, l.state = "open", NEW type \in ReplyTypes, NEW to \in Nodes \cup {None},
           type = "ask" => to \in Nodes, NEW q \in Seq(0 .. MaxCalls), Match(l, q)
    PROVE  Match(Served(l, type, to), q)
<1> DEFINE i0 == Len(l.in)
           s0 == Len(l.sent)
           n == Len(q)
<1>1. PICK m : m = Served(l, type, to)
  OBVIOUS
<1>2. /\ m.state = l.state /\ i0 \in Nat /\ s0 \in Nat \ {0} /\ n \in Nat
      /\ Len(m.in) = i0 + 1 /\ Len(m.sent) = s0 - 1
      /\ \A i \in 1 .. i0 : m.in[i] = l.in[i]
      /\ m.in[i0 + 1].id = l.sent[1].id /\ m.in[i0 + 1].op = l.sent[1].op
      /\ \A i \in 1 .. i0 + 1 : i \in 1 .. i0 \/ i = i0 + 1
      /\ \A i \in 1 .. s0 - 1 : m.sent[i] = l.sent[i + 1]
  BY SMTT(30), <1>1, ServedFacts
<1>3. /\ i0 + s0 = n
      /\ \A i \in 1 .. i0 : l.in[i].id = q[i] /\ (l.in[i].op = "cmd" <=> q[i] # 0)
      /\ \A i \in 1 .. s0 : l.sent[i].id = q[i0 + i] /\ (l.sent[i].op = "cmd" <=> q[i0 + i] # 0)
  BY DEF Match
<1> HIDE DEF i0, s0, n
<1>4. (i0 + 1) + (s0 - 1) = n /\ 1 \in 1 .. s0 /\ (i0 + 1) + (s0 - 1) <= n
  BY <1>2, <1>3
<1>5. \A i \in 1 .. i0 + 1 : m.in[i].id = q[i] /\ (m.in[i].op = "cmd" <=> q[i] # 0)
  BY ZenonT(60), <1>2, <1>3, <1>4
<1>6. ASSUME NEW i \in 1 .. s0 - 1
      PROVE  m.sent[i].id = q[(i0 + 1) + i] /\ (m.sent[i].op = "cmd" <=> q[(i0 + 1) + i] # 0)
  <2>1. i + 1 \in 1 .. s0 /\ (i0 + 1) + i = i0 + (i + 1)
    BY <1>2
  <2>2. l.sent[i + 1].id = q[i0 + (i + 1)] /\ (l.sent[i + 1].op = "cmd" <=> q[i0 + (i + 1)] # 0)
    BY <1>3, <2>1
  <2> QED BY <1>2, <2>1, <2>2
<1>7. Match(m, q)
  <2>1. Len(m.in) + Len(m.sent) <= Len(q) /\ (m.state = "open" => Len(m.in) + Len(m.sent) = Len(q))
    BY <1>2, <1>4 DEF n
  <2>2. m.state = "open"
    BY <1>2
  <2> QED BY ZenonT(60), <1>2, <1>5, <1>6, <2>1, <2>2 DEF Match
<1> QED BY <1>1, <1>7

\* A command that waits has one place in all the lists.
LEMMA OneSpot ==
    ASSUME Inv, NEW x \in Holders, NEW y \in Holders, NEW i \in Nat \ {0}, NEW j \in Nat \ {0},
           i <= Len(ac[x].queue), j <= Len(ac[y].queue), ac[x].queue[i] = ac[y].queue[j], ac[x].queue[i] # 0
    PROVE  x = y /\ i = j /\ ac[x].queue[i] \in 1 .. Len(issued)
<1>0. Typed /\ Placed
  BY DEF Inv
<1>1. PICK id : id = ac[x].queue[i]
  OBVIOUS
<1>2. id \in Ids /\ Len(issued) \in Nat
  <2>1. ac[x].queue \in Seq(0 .. MaxCalls) /\ i \in 1 .. Len(ac[x].queue)
    BY <1>0, QueueTypes
  <2>2. id \in 0 .. MaxCalls
    BY <1>1, <2>1, ElementType
  <2>3. issued \in Seq(Slots)
    BY <1>0 DEF Typed
  <2> QED BY <1>1, <2>2, <2>3, AsyncAssumption DEF Ids
<1>3. <<x, i>> \in Spots(ac, id) /\ <<y, j>> \in Spots(ac, id)
  BY <1>1 DEF Spots
<1>4. ~(id > Len(issued))
  BY <1>0, <1>2, <1>3 DEF Placed
<1>5. id \in 1 .. Len(issued)
  BY <1>2, <1>4, AsyncAssumption DEF Ids
<1>6. Single(Spots(ac, id))
  BY <1>0, <1>3, <1>5 DEF Placed, InOnePlace
<1>7. <<x, i>> = <<y, j>>
  BY <1>3, <1>6 DEF Single
<1> QED BY <1>1, <1>5, <1>7

\* What is on the connections for the command at place p of the list of o.
LEMMA PlaceOnLink ==
    ASSUME Inv, NEW x \in Holders, Match(link[x], ac[x].queue), NEW o \in Holders, NEW p \in Nat \ {0},
           p <= Len(ac[o].queue), ac[o].queue[p] # 0
    PROVE  /\ \A i \in 1 .. Len(link[x].in) :
                 link[x].in[i].op = "cmd" /\ link[x].in[i].id = ac[o].queue[p] => x = o /\ i = p
           /\ \A i \in 1 .. Len(link[x].sent) :
                 link[x].sent[i].op = "cmd" /\ link[x].sent[i].id = ac[o].queue[p] =>
                    x = o /\ Len(link[x].in) + i = p
<1> DEFINE i0 == Len(link[x].in)
           s0 == Len(link[x].sent)
           n == Len(ac[x].queue)
<1>0. i0 \in Nat /\ s0 \in Nat /\ n \in Nat
  <2>1. ac[x].queue \in Seq(0 .. MaxCalls) /\ link[x] \in GoodLink
    BY QueueTypes DEF Inv
  <2> QED BY <2>1, LinkLists
<1>1. /\ i0 + s0 <= n
      /\ \A i \in 1 .. i0 : link[x].in[i].id = ac[x].queue[i]
      /\ \A i \in 1 .. s0 : link[x].sent[i].id = ac[x].queue[i0 + i]
  BY DEF Match
<1> HIDE DEF i0, s0, n
<1>2. ASSUME NEW i \in 1 .. i0, link[x].in[i].id = ac[o].queue[p] PROVE x = o /\ i = p
  <2>1. i \in Nat \ {0} /\ i <= n
    BY <1>0, <1>1
  <2>2. ac[x].queue[i] = ac[o].queue[p]
    BY <1>1, <1>2
  <2> QED BY <2>1, <2>2, OneSpot DEF n
<1>3. ASSUME NEW i \in 1 .. s0, link[x].sent[i].id = ac[o].queue[p] PROVE x = o /\ i0 + i = p
  <2>1. i0 + i \in Nat \ {0} /\ i0 + i <= n
    BY <1>0, <1>1
  <2>2. ac[x].queue[i0 + i] = ac[o].queue[p]
    BY <1>1, <1>3
  <2> QED BY <2>1, <2>2, OneSpot DEF n
<1> QED BY <1>2, <1>3 DEF i0, s0

\* What the cluster keeps of the connections and of what was executed.
LinksKept ==
    /\ \A x \in Holders : link'[x].peer = link[x].peer /\ (~ac[x].live => link'[x] = NoLink)
    /\ \A x \in Holders : ac[x].live => Match(link'[x], ac[x].queue) /\ Open(link'[x], executed')
    /\ \A i, j \in 1 .. Len(executed') : executed'[i].id = executed'[j].id => i = j
    /\ \A e \in 1 .. Len(executed') : executed'[e].id \in 1 .. Len(issued)

LEMMA QuietLinks ==
    ASSUME Inv, stack = <<>>, \A x \in Holders : link'[x] = link[x] \/ link'[x] = Break(link[x]), executed' = executed
    PROVE  LinksKept
<1>0. Typed /\ Linked /\ Aligned /\ Once
  BY DEF Inv
<1>1. \A x \in Holders : ac[x].live => Match(link[x], ac[x].queue) /\ Open(link[x], executed)
  BY <1>0, EmptyStack DEF Aligned, Once
<1>2. ASSUME NEW x \in Holders
      PROVE  /\ link'[x].peer = link[x].peer /\ (~ac[x].live => link'[x] = NoLink)
             /\ ac[x].live => Match(link'[x], ac[x].queue) /\ Open(link'[x], executed')
  <2>1. CASE link'[x] = link[x]
    BY <1>0, <1>1, <2>1 DEF Linked
  <2>2. CASE link'[x] = Break(link[x])
    <3>1. ac[x].queue \in Seq(0 .. MaxCalls) /\ link[x] \in GoodLink
      BY <1>0, QueueTypes
    <3>2. /\ Break(link[x]).peer = link[x].peer
          /\ Match(link[x], ac[x].queue) => Match(Break(link[x]), ac[x].queue)
          /\ Open(link[x], executed) => Open(Break(link[x]), executed)
      BY <3>1, BreakFacts
    <3>3. ~ac[x].live => Break(link[x]) = NoLink
      <4>1. NoLink.state = "none"
        BY DEF NoLink, NewLink
      <4> QED BY <1>0, <4>1 DEF Linked, Break
    <3> QED BY <1>1, <2>2, <3>2, <3>3
  <2> QED BY <2>1, <2>2
<1> QED BY <1>0, <1>2 DEF LinksKept, Once

LEMMA WasRunAppend ==
    ASSUME NEW ex \in Seq(Entry), NEW e \in Entry, NEW y
    PROVE  WasRun(Append(ex, e), y) <=> WasRun(ex, y) \/ e.id = y
<1>1. PICK u : u = Append(ex, e)
  OBVIOUS
<1>2. /\ Len(u) = Len(ex) + 1 /\ \A i \in 1 .. Len(ex) : u[i] = ex[i]
      /\ u[Len(ex) + 1] = e
      /\ \A i \in 1 .. Len(ex) + 1 : i \in 1 .. Len(ex) \/ i = Len(ex) + 1
  BY <1>1, AppendFacts
<1>3. Len(ex) + 1 \in 1 .. Len(ex) + 1 /\ \A i \in 1 .. Len(ex) : i \in 1 .. Len(ex) + 1
  OBVIOUS
<1>4. WasRun(u, y) <=> WasRun(ex, y) \/ e.id = y
  BY <1>2, <1>3 DEF WasRun
<1> QED BY <1>1, <1>4

LEMMA ServeLinks ==
    ASSUME Inv, stack = <<>>, NEW o \in Holders, Serve(o)
    PROVE  LinksKept
<1>0. Typed /\ Linked /\ Aligned /\ Once /\ ClusterTyped
  BY DEF Inv, Typed
<1>1. link[o].state = "open" /\ link[o].sent # <<>>
  BY <1>0, ServeCases
<1>2. PICK type \in ReplyTypes, to \in Nodes \cup {None} :
                 /\ type = "ask" => to \in Nodes
                 /\ link' = [link EXCEPT ![o] = Served(link[o], type, to)]
                 /\ \/ /\ Head(link[o].sent).op = "cmd" /\ type = "ok"
                       /\ executed' = Append(executed, [id |-> Head(link[o].sent).id,
                                                        slot |-> Head(link[o].sent).slot])
                    \/ /\ Head(link[o].sent).op # "cmd" \/ type # "ok"
                       /\ executed' = executed
  BY <1>0, ServeCases
<1>3. \A x \in Holders : ac[x].live => Match(link[x], ac[x].queue) /\ Open(link[x], executed)
  BY <1>0, EmptyStack DEF Aligned, Once
<1>4. ac[o].live
  <2>1. NoLink.state = "none"
    BY DEF NoLink, NewLink
  <2> QED BY <1>0, <1>1, <2>1 DEF Linked
<1>5. PICK l \in GoodLink : l = link[o]
  BY <1>0, QueueTypes
<1>6. PICK m : m = Served(l, type, to)
  OBVIOUS
<1>7. PICK q \in Seq(0 .. MaxCalls) : q = ac[o].queue
  BY <1>0, QueueTypes
<1> DEFINE i0 == Len(l.in)
           s0 == Len(l.sent)
<1>8. /\ m \in GoodLink /\ m.peer = l.peer /\ m.state = l.state
      /\ i0 \in Nat /\ s0 \in Nat \ {0}
      /\ Len(m.in) = i0 + 1 /\ Len(m.sent) = s0 - 1
      /\ \A i \in 1 .. i0 : m.in[i] = l.in[i]
      /\ m.in[i0 + 1].id = l.sent[1].id /\ m.in[i0 + 1].op = l.sent[1].op
      /\ m.in[i0 + 1].type = type
      /\ \A i \in 1 .. i0 + 1 : i \in 1 .. i0 \/ i = i0 + 1
      /\ \A i \in 1 .. s0 - 1 : m.sent[i] = l.sent[i + 1]
      /\ Head(l.sent) = l.sent[1]
  <2>1. l.sent # <<>> /\ (type = "ask" => to \in Nodes)
    BY <1>1, <1>2, <1>5
  <2> QED BY <1>6, <2>1, ServedFacts
<1>9. Match(l, q) /\ Open(l, executed)
  BY <1>3, <1>4, <1>5, <1>7
<1>10. Match(m, q)
  BY <1>1, <1>2, <1>5, <1>6, <1>9, MatchServed
<1>11. link'[o] = m /\ \A x \in Holders : x # o => link'[x] = link[x]
  BY <1>0, <1>2, <1>5, <1>6 DEF ClusterTyped
<1>12. \A x \in Holders : link'[x].peer = link[x].peer /\ (~ac[x].live => link'[x] = NoLink)
  BY <1>0, <1>4, <1>5, <1>8, <1>11 DEF Linked
<1>13. \A x \in Holders : ac[x].live => Match(link'[x], ac[x].queue)
  BY <1>3, <1>7, <1>10, <1>11
<1> HIDE DEF i0, s0
<1>14. /\ 1 \in 1 .. s0 /\ \A i \in 1 .. s0 - 1 : i + 1 \in 1 .. s0
       /\ i0 + 1 \in Nat \ {0}
  BY <1>8
<1>15. /\ \A i \in 1 .. s0 : l.sent[i].op = "cmd" => ~WasRun(executed, l.sent[i].id)
       /\ \A i \in 1 .. i0 : l.in[i].op = "cmd" /\ l.in[i].type # "ok" => ~WasRun(executed, l.in[i].id)
  BY <1>9 DEF Open, i0, s0
<1>16. CASE /\ l.sent[1].op # "cmd" \/ type # "ok"
            /\ executed' = executed
  <2>1. \A i \in 1 .. Len(m.sent) : m.sent[i].op = "cmd" => ~WasRun(executed, m.sent[i].id)
    BY SMTT(30), <1>8, <1>14, <1>15
  <2>2. \A i \in 1 .. Len(m.in) : m.in[i].op = "cmd" /\ m.in[i].type # "ok" => ~WasRun(executed, m.in[i].id)
    BY <1>8, <1>14, <1>15, <1>16
  <2>3. Open(m, executed)
    BY <2>1, <2>2 DEF Open
  <2>4. \A x \in Holders : ac[x].live => Open(link'[x], executed')
    BY <1>3, <1>11, <1>16, <2>3
  <2> QED BY <1>0, <1>12, <1>13, <1>16, <2>4 DEF LinksKept, Once
<1>17. CASE /\ l.sent[1].op = "cmd" /\ type = "ok"
            /\ executed' = Append(executed, [id |-> l.sent[1].id, slot |-> l.sent[1].slot])
  <2>1. PICK e : e = [id |-> l.sent[1].id, slot |-> l.sent[1].slot]
    OBVIOUS
  <2>2. PICK id : id = l.sent[1].id
    OBVIOUS
  <2>3. e \in Entry /\ e.id = id /\ executed \in Seq(Entry) /\ executed' = Append(executed, e)
    <3>1. l.sent \in Seq(Request)
      BY LinkLists
    <3>2. l.sent[1] \in Request
      BY <1>14, <3>1, ElementType DEF s0
    <3> QED BY <1>0, <1>17, <2>1, <2>2, <3>2 DEF Request, Entry, ClusterTyped
  <2>4. \A y : WasRun(executed', y) <=> WasRun(executed, y) \/ id = y
    BY <2>3, WasRunAppend
  <2>5. ~WasRun(executed, id)
    BY <1>14, <1>15, <1>17, <2>2
  <2>6. id = q[i0 + 1] /\ id # 0 /\ i0 + 1 <= Len(q)
    <3>1. l.sent[1].id = q[i0 + 1] /\ (l.sent[1].op = "cmd" <=> q[i0 + 1] # 0)
      BY <1>9, <1>14 DEF Match, i0, s0
    <3>2. i0 + s0 <= Len(q) /\ Len(q) \in Nat
      <4>1. Len(l.in) + Len(l.sent) <= Len(q)
        BY <1>9 DEF Match
      <4>2. Len(q) \in Nat
        BY <1>7
      <4> QED BY <4>1, <4>2 DEF i0, s0
    <3>3. i0 + 1 <= Len(q)
      BY <1>8, <3>2
    <3> QED BY <1>17, <2>2, <3>1, <3>3
  <2>7. id \in 1 .. Len(issued)
    BY <1>7, <1>14, <2>6, OneSpot
  <2>8. ASSUME NEW x \in Holders, ac[x].live
        PROVE  /\ \A i \in 1 .. Len(link[x].in) :
                     link[x].in[i].op = "cmd" /\ link[x].in[i].id = id => x = o /\ i = i0 + 1
               /\ \A i \in 1 .. Len(link[x].sent) :
                     link[x].sent[i].op = "cmd" /\ link[x].sent[i].id = id => x = o /\ Len(link[x].in) + i = i0 + 1
    BY <1>3, <1>7, <1>14, <2>6, <2>8, PlaceOnLink
  <2>9. ASSUME NEW x \in Holders, ac[x].live, x # o PROVE Open(link'[x], executed')
    <3>1. Open(link[x], executed) /\ link'[x] = link[x]
      BY <1>3, <1>11, <2>9
    <3> QED BY <2>4, <2>8, <2>9, <3>1 DEF Open
  <2>10. Open(m, executed')
    <3>1. ASSUME NEW i \in 1 .. s0 - 1, m.sent[i].op = "cmd" PROVE ~WasRun(executed', m.sent[i].id)
      <4>1. i + 1 \in 1 .. s0 /\ i0 + (i + 1) # i0 + 1 /\ m.sent[i] = l.sent[i + 1]
        BY <1>8, <1>14
      <4>2. l.sent[i + 1].id # id
        BY <1>4, <1>5, <2>8, <3>1, <4>1 DEF i0, s0
      <4> QED BY <1>15, <2>4, <3>1, <4>1, <4>2
    <3>2. ASSUME NEW i \in 1 .. i0, m.in[i].op = "cmd", m.in[i].type # "ok" PROVE ~WasRun(executed', m.in[i].id)
      <4>1. m.in[i] = l.in[i] /\ i # i0 + 1
        BY <1>8
      <4>2. l.in[i].id # id
        BY <1>4, <1>5, <2>8, <3>2, <4>1 DEF i0
      <4> QED BY <1>15, <2>4, <3>2, <4>1, <4>2
    <3>3. \A i \in 1 .. Len(m.in) : m.in[i].op = "cmd" /\ m.in[i].type # "ok" => ~WasRun(executed', m.in[i].id)
      BY <1>8, <1>17, <3>2
    <3>4. \A i \in 1 .. Len(m.sent) : m.sent[i].op = "cmd" => ~WasRun(executed', m.sent[i].id)
      BY <1>8, <3>1
    <3> QED BY <3>3, <3>4 DEF Open
  <2>11. \A x \in Holders : ac[x].live => Open(link'[x], executed')
    BY <1>11, <2>9, <2>10
  <2>12. PICK u : u = executed'
    OBVIOUS
  <2>13. /\ Len(u) = Len(executed) + 1 /\ \A i \in 1 .. Len(executed) : u[i] = executed[i]
         /\ u[Len(executed) + 1] = e
         /\ \A i \in 1 .. Len(executed) + 1 : i \in 1 .. Len(executed) \/ i = Len(executed) + 1
    BY <2>3, <2>12, AppendFacts
  <2>14. \A i \in 1 .. Len(executed) : executed[i].id # id
    BY <2>5 DEF WasRun
  <2>15. \A i, j \in 1 .. Len(u) : u[i].id = u[j].id => i = j
    BY <1>0, <2>3, <2>13, <2>14 DEF Once
  <2>16. \A i \in 1 .. Len(u) : u[i].id \in 1 .. Len(issued)
    BY <1>0, <2>3, <2>7, <2>13 DEF Once
  <2> QED BY <1>12, <1>13, <2>11, <2>12, <2>15, <2>16 DEF LinksKept
<1> QED BY <1>2, <1>5, <1>8, <1>16, <1>17

LEMMA EnvironmentStep ==
    ASSUME Inv, Environment
    PROVE  Inv'
<1>0. /\ Typed /\ Shaped(stack) /\ Linked /\ Routed /\ Doomed /\ Addressed /\ Kept
      /\ Placed /\ Owned /\ Once /\ Paid
  BY DEF Inv
<1>1. /\ stack = <<>> /\ ClusterNext
      /\ UNCHANGED <<useSlots, table, updateTime, accErr, retries, node, ac, stack, freed, undefined>>
      /\ UNCHANGED <<issued, sends, ran, notReached>>
  BY DEF Environment, EventLoop, accVars, historyVars
<1>2. LinksKept
  <2>1. CASE \E o \in Holders : Serve(o)
    BY <1>1, <2>1, ServeLinks
  <2>2. CASE executed' = executed /\ \A x \in Holders : link'[x] = link[x] \/ link'[x] = Break(link[x])
    BY <1>1, <2>2, QuietLinks
  <2>3. link \in [Holders -> GoodLink]
    BY <1>0 DEF Typed, ClusterTyped
  <2>4. ASSUME NEW n \in Nodes, Crash(n)
        PROVE  executed' = executed /\ \A x \in Holders : link'[x] = link[x] \/ link'[x] = Break(link[x])
    BY <2>4 DEF Crash
  <2>5. ASSUME NEW o \in Holders, Drop(o)
        PROVE  executed' = executed /\ \A x \in Holders : link'[x] = link[x] \/ link'[x] = Break(link[x])
    BY <2>3, <2>5 DEF Drop
  <2>6. ASSUME UNCHANGED <<link, executed>>
        PROVE  executed' = executed /\ \A x \in Holders : link'[x] = link[x] \/ link'[x] = Break(link[x])
    BY <2>6
  <2>7. \/ \E o \in Holders : Drop(o) \/ Serve(o)
        \/ \E n \in Nodes : Crash(n)
        \/ UNCHANGED <<link, executed>>
    BY <1>1 DEF ClusterNext, Migrate, MigrationEnds, Gossip, Recover, Failover
  <2> QED BY <2>1, <2>2, <2>4, <2>5, <2>6, <2>7
<1>3. ClusterTyped'
  BY <1>0, <1>1, ClusterNextTyped DEF Typed
<1>4. Typed'
  BY <1>0, <1>1, <1>3 DEF Typed
<1>5. Shaped(stack') /\ Routed' /\ Doomed' /\ Kept' /\ Placed' /\ Paid'
  BY <1>0, <1>1 DEF Routed, Ending, Doomed, Kept, Placed, Paid
<1>6. Owned'
  BY <1>0, <1>1 DEF Owned, OwnReply
<1>7. /\ Len(stack') = 0 /\ 1 .. Len(stack') = {} /\ (\A x : ~TornIn(stack', x))
  BY <1>1, EmptyStack
<1>8. Linked'
  BY <1>0, <1>1, <1>2 DEF Linked, LinksKept
<1>9. Addressed'
  <2>1. \A p \in Pointers : node[p].acon # None => node[p].acon \in Holders
    BY <1>0 DEF Typed, NodeType
  <2> QED BY <1>0, <1>1, <1>2, <2>1 DEF Addressed, LinksKept
<1>10. Aligned'
  BY <1>1, <1>2 DEF Aligned, LinksKept
<1>11. Once'
  BY <1>1, <1>2, <1>7 DEF Once, LinksKept
<1> QED BY <1>4, <1>5, <1>6, <1>8, <1>9, <1>10, <1>11 DEF Inv

LEMMA RefusedSteps ==
    ASSUME Inv, CommandFails \/ CommandInRelease \/ NullInRelease
    PROVE  Inv'
<1>1. CASE CommandFails
  <2>1. UNCHANGED <<clusterVars, link, executed, useSlots, table, updateTime, retries, node, ac, stack, freed, historyVars>>
    BY <1>1 DEF CommandFails
  <2>2. accErr' \in BOOLEAN /\ undefined' = undefined
    BY <1>1 DEF CommandFails
  <2>3. undefined' \in BOOLEAN
    BY <2>2 DEF Inv, Typed
  <2> QED BY <2>1, <2>2, <2>3, IdleStep
<1>2. CASE CommandInRelease
  BY <1>2, UseFreedStep DEF CommandInRelease
<1>3. CASE NullInRelease
  BY <1>3, UseFreedStep DEF NullInRelease
<1> QED BY <1>1, <1>2, <1>3

LEMMA StutterStep ==
    ASSUME Inv, UNCHANGED vars
    PROVE  Inv'
<1>1. /\ UNCHANGED <<clusterVars, link, executed, useSlots, table, updateTime, retries, node, ac, stack, freed, historyVars>>
      /\ accErr' = accErr /\ undefined' = undefined
  BY DEF vars, accVars
<1>2. accErr' \in BOOLEAN /\ undefined' \in BOOLEAN
  BY <1>1 DEF Inv, Typed
<1> QED BY <1>1, <1>2, IdleStep

LEMMA InvInit == Init => Inv
<1> SUFFICES ASSUME Init PROVE Inv
  OBVIOUS
<1>0. MaxCalls \in Nat /\ MaxRedirect \in Nat
  BY AsyncAssumption
<1>1. ClusterTyped
  BY ClusterInitTyped DEF Init
<1>2. /\ stack = <<>> /\ Len(stack) = 0 /\ 1 .. Len(stack) = {} /\ 1 .. Len(stack) - 1 = {} /\ 2 .. Len(stack) = {}
      /\ issued = <<>> /\ Len(issued) = 0 /\ 1 .. Len(issued) = {}
      /\ executed = <<>> /\ Len(executed) = 0 /\ 1 .. Len(executed) = {}
  BY DEF Init, ClusterInit
<1>3. /\ \A x \in Holders : ac[x] = NoActx /\ link[x] = NoLink
      /\ ~freed /\ ~notReached /\ table = FirstOwner
      /\ \A id \in Ids : ran[id] = <<>> /\ sends[id] = 0 /\ retries[id] = 0
  BY DEF Init, ClusterInit
<1>4. PICK n \in Nodes : node = [p \in Pointers |-> IF p \in Known(n) THEN NodeAt(p, None) ELSE NoNode]
  BY DEF Init
<1>5. NoActx.queue = <<>> /\ ~NoActx.live /\ ~NoActx.err /\ ~NoActx.freeing /\ NoActx \in ActxType
  <2>1. <<>> \in Seq(0 .. MaxCalls)
    OBVIOUS
  <2> QED BY <2>1 DEF NoActx, ActxType
<1>6. Known(n) \subseteq Nodes /\ \A s \in Slots : FirstOwner[s] \in Known(n)
  <2>1. seen[n] = FirstOwner
    BY <1>4 DEF Init, ClusterInit
  <2> QED BY <2>1, ClusterAssumption DEF Known
<1>7. ASSUME NEW p \in Pointers
      PROVE  /\ node[p] \in NodeType /\ node[p].acon = None
             /\ p \in Known(n) => node[p].host = p
             /\ p \notin Known(n) => node[p].host = None
  <2>1. CASE p \in Known(n)
    BY <1>0, <1>4, <1>6, <2>1 DEF NodeAt, NodeType
  <2>2. CASE p \notin Known(n)
    BY <1>0, <1>4, <2>2 DEF NoNode, NodeType
  <2> QED BY <2>1, <2>2
<1>8. Typed
  <2>1. node \in [Pointers -> NodeType]
    BY <1>4, <1>7
  <2>2. ac \in [Holders -> ActxType]
    BY <1>5 DEF Init
  <2>3. retries \in [Ids -> 0 .. MaxRedirect] /\ sends \in [Ids -> Nat] /\ ran \in [Ids -> Seq(Answer)]
    BY <1>0 DEF Init
  <2>4. stack \in Seq(GoodFrame) /\ issued \in Seq(Slots) /\ Len(issued) <= MaxCalls
    BY <1>0, <1>2
  <2>5. /\ useSlots \in BOOLEAN /\ table \in [Slots -> Nodes] /\ updateTime \in BOOLEAN /\ accErr \in BOOLEAN
        /\ freed \in BOOLEAN /\ undefined \in BOOLEAN /\ notReached \in BOOLEAN
    BY ClusterAssumption, AsyncAssumption DEF Init
  <2> QED BY <1>1, <2>1, <2>2, <2>3, <2>4, <2>5 DEF Typed
<1>9. Shaped(stack)
  BY <1>2 DEF Shaped
<1>10. Linked
  BY <1>2, <1>3, <1>5, <1>7 DEF Linked
<1>11. Routed
  <2>1. \A s \in Slots : table[s] \in Pointers /\ table[s] \in Known(n) /\ table[s] # None
    BY <1>3, <1>6, KeyFacts
  <2> QED BY <1>2, <1>3, <1>7, <2>1 DEF Routed
<1>12. Doomed /\ Kept
  BY <1>3, <1>5 DEF Doomed, Kept
<1>13. Addressed
  BY <1>7, KeyFacts DEF Addressed
<1>14. Aligned
  BY <1>3, <1>5 DEF Aligned
<1>15. \A id : Frames(stack, id) = {}
  BY <1>2 DEF Frames
<1>16. \A id : Spots(ac, id) = {}
  <2>1. \A x \in Holders : Len(ac[x].queue) = 0
    BY <1>3, <1>5
  <2>2. \A j \in Nat \ {0} : ~(j <= 0)
    OBVIOUS
  <2> QED BY <2>1, <2>2 DEF Spots
<1>17. Placed
  BY <1>2, <1>3, <1>15, <1>16 DEF Placed
<1>18. Owned
  <2>1. \A id \in Ids : DOMAIN ran[id] = {}
    BY <1>3
  <2> QED BY <1>2, <2>1 DEF Owned, OwnReply
<1>19. Once
  BY <1>2, <1>3, <1>5 DEF Once
<1>20. Paid
  <2>1. 0 <= MaxRedirect + 1
    BY <1>0
  <2> QED BY <1>2, <1>3, <1>16, <2>1 DEF Paid
<1> QED BY <1>8, <1>9, <1>10, <1>11, <1>12, <1>13, <1>14, <1>17, <1>18, <1>19, <1>20 DEF Inv

LEMMA InvNext == Inv /\ [Next]_vars => Inv'
<1> SUFFICES ASSUME Inv, [Next]_vars PROVE Inv'
  OBVIOUS
<1>1. CASE Environment
  BY <1>1, EnvironmentStep
<1>2. CASE \E s \in Slots : Command(s) \/ CommandRefused(s)
  BY <1>2, CommandStep, CommandRefusedStep
<1>3. CASE CommandFails \/ CommandInRelease \/ NullInRelease
  BY <1>3, RefusedSteps
<1>4. CASE Free
  BY <1>4, FreeStep
<1>5. CASE \E k \in Keys : ReleaseNode(k)
  BY <1>5, ReleaseNodeStep
<1>6. CASE ReleaseEnds
  BY <1>6, ReleaseEndsStep
<1>7. CASE \E c \in Holders : ReadReply(c) \/ ConnectionFails(c)
  BY <1>7, ReadReplyStep, ConnectionFailsStep
<1>8. CASE TeardownCallback
  BY <1>8, TeardownCallbackStep
<1>9. CASE TeardownEnds
  BY <1>9, TeardownEndsStep
<1>10. CASE NullPlanned
  BY <1>10, NullPlannedStep
<1>11. CASE NullUpdated \/ NullCounted \/ Plain \/ TooManyRedirects \/ Done
  BY <1>11, CallbackSteps
<1>12. CASE Moved
  BY <1>12, MovedStep
<1>13. CASE Resend \/ ResendFails
  BY <1>13, ResendStep, ResendFailsStep
<1>14. CASE Ask \/ AskFails
  BY <1>14, AskStep, AskFailsStep
<1>15. CASE TryAgain
  BY <1>15, TryAgainStep
<1>16. CASE UserReturns
  BY <1>16, UserReturnsStep
<1>17. CASE UNCHANGED vars
  BY <1>17, StutterStep
<1> QED BY <1>1, <1>2, <1>3, <1>4, <1>5, <1>6, <1>7, <1>8, <1>9, <1>10, <1>11, <1>12, <1>13, <1>14, <1>15,
           <1>16, <1>17 DEF Next

LEMMA Invariant == Spec => []Inv
<1> QED BY InvInit, InvNext, PTL DEF Spec

-----------------------------------------------------------------------------
(* The theorems. *)

\* How the places of a callback are counted.
LEMMA PlacesCounted ==
    ASSUME Inv, NEW id \in Ids
    PROVE  /\ Spots(ac, id) = {} => {c \in Holders : Count(ac[c].queue, id) = 1} = {}
           /\ Single(Spots(ac, id)) => Single({c \in Holders : Count(ac[c].queue, id) = 1})
<1>0. Typed
  BY DEF Inv
<1> DEFINE At(c) == {i \in DOMAIN ac[c].queue : ac[c].queue[i] = id}
<1>1. ASSUME NEW c \in Holders PROVE \A i : i \in At(c) <=> <<c, i>> \in Spots(ac, id)
  <2>1. ac[c].queue \in Seq(0 .. MaxCalls)
    BY <1>0, QueueTypes
  <2>2. DOMAIN ac[c].queue = 1 .. Len(ac[c].queue) /\ Len(ac[c].queue) \in Nat
    BY <2>1
  <2>3. \A i : i \in 1 .. Len(ac[c].queue) <=> i \in Nat \ {0} /\ i <= Len(ac[c].queue)
    BY <2>2
  <2> QED BY <2>2, <2>3 DEF Spots
<1>2. \A c \in Holders : Count(ac[c].queue, id) = Cardinality(At(c))
  BY DEF Count
<1> HIDE DEF At
<1>3. ASSUME NEW c \in Holders, \A i : <<c, i>> \notin Spots(ac, id) PROVE Count(ac[c].queue, id) # 1
  <2>1. At(c) = {}
    BY <1>1, <1>3
  <2>2. Cardinality({}) = 0
    BY FS_EmptySet
  <2> QED BY <1>2, <2>1, <2>2
<1>4. ASSUME Single(Spots(ac, id)) PROVE Single({c \in Holders : Count(ac[c].queue, id) = 1})
  <2>1. PICK p \in Spots(ac, id) : Spots(ac, id) = {p}
    BY <1>4 DEF Single
  <2>2. PICK x \in Holders, j \in Nat : p = <<x, j>>
    BY <2>1 DEF Spots
  <2>3. At(x) = {j}
    <3>1. \A i : <<x, i>> \in Spots(ac, id) <=> i = j
      BY <2>1, <2>2
    <3> QED BY <1>1, <3>1
  <2>4. Cardinality({j}) = 1
    BY FS_Singleton
  <2>5. Count(ac[x].queue, id) = 1
    BY <1>2, <2>3, <2>4
  <2>6. \A c \in Holders : c # x => Count(ac[c].queue, id) # 1
    <3>1. \A c \in Holders : c # x => \A i : <<c, i>> \notin Spots(ac, id)
      BY <2>1, <2>2
    <3> QED BY <1>3, <3>1
  <2>7. {c \in Holders : Count(ac[c].queue, id) = 1} = {x}
    BY <2>5, <2>6
  <2> QED BY <2>7 DEF Single
<1> QED BY <1>3, <1>4

LEMMA SingleCounted ==
    /\ Cardinality({}) = 0
    /\ \A S : Single(S) => Cardinality(S) = 1
<1>1. Cardinality({}) = 0
  BY FS_EmptySet
<1>2. ASSUME NEW S, Single(S) PROVE Cardinality(S) = 1
  <2>1. PICK x : S = {x}
    BY <1>2 DEF Single
  <2> QED BY <2>1, FS_Singleton
<1> QED BY <1>1, <1>2

\* Whatever the servers, the connections and the application do, no callback
\* that redisClusterAsyncCommand accepted is lost or run twice: it has run, or it
\* is being run, or it waits in the list of one connection, through every
\* redirection, route update, failure and redisClusterAsyncFree.
THEOREM CallbacksAccounted == Spec => []Accounted
<1>1. Inv => Accounted
  <2> SUFFICES ASSUME Inv, NEW id \in 1 .. Len(issued)
               PROVE  Len(ran[id])
                      + Cardinality({i \in DOMAIN stack : stack[i].kind = "cb" /\ stack[i].id = id
                                                          /\ stack[i].at # "user"})
                      + Cardinality({c \in Holders : Count(ac[c].queue, id) = 1})
                      = 1
    BY DEF Accounted
  <2>0. Typed /\ Placed
    BY DEF Inv
  <2> DEFINE F == {i \in DOMAIN stack : stack[i].kind = "cb" /\ stack[i].id = id /\ stack[i].at # "user"}
             W == {c \in Holders : Count(ac[c].queue, id) = 1}
  <2>1. F = Frames(stack, id)
    <3>1. stack \in Seq(GoodFrame)
      BY <2>0 DEF Typed
    <3>2. DOMAIN stack = 1 .. Len(stack)
      BY <3>1
    <3> QED BY <3>2 DEF Frames, Active
  <2>2. id \in Ids
    <3>1. issued \in Seq(Slots) /\ Len(issued) <= MaxCalls
      BY <2>0 DEF Typed
    <3> QED BY <3>1, AsyncAssumption DEF Ids
  <2>3. (Spots(ac, id) = {} => W = {}) /\ (Single(Spots(ac, id)) => Single(W))
    BY <2>2, PlacesCounted
  <2>4. InOnePlace(Len(ran[id]), F, Spots(ac, id))
    BY <2>0, <2>1 DEF Placed
  <2> HIDE DEF F, W
  <2>5. \/ Len(ran[id]) = 1 /\ Cardinality(F) = 0 /\ Cardinality(W) = 0
        \/ Len(ran[id]) = 0 /\ Cardinality(F) = 1 /\ Cardinality(W) = 0
        \/ Len(ran[id]) = 0 /\ Cardinality(F) = 0 /\ Cardinality(W) = 1
    BY <2>3, <2>4, SingleCounted DEF InOnePlace
  <2>6. Len(ran[id]) + Cardinality(F) + Cardinality(W) = 1
    <3>1. PICK a, b, d : a = Len(ran[id]) /\ b = Cardinality(F) /\ d = Cardinality(W)
      OBVIOUS
    <3>2. (a = 1 /\ b = 0 /\ d = 0) \/ (a = 0 /\ b = 1 /\ d = 0) \/ (a = 0 /\ b = 0 /\ d = 1)
      BY <2>5, <3>1
    <3>3. a + b + d = 1
      BY <3>2
    <3> QED BY <3>1, <3>3
  <2> QED BY <2>6 DEF F, W
<1> QED BY <1>1, Invariant, PTL

\* Whatever was redirected, sent again or preceded by ASKING on a connection,
\* redisClusterAsyncCallback gives a command's callback the reply to that command,
\* or NULL.
THEOREM RepliesAreOwn == Spec => []OwnReply
<1>1. Inv => OwnReply
  BY DEF Inv, Owned
<1> QED BY <1>1, Invariant, PTL

\* For every number of redirections, crashes, lost connections and retries, the
\* cluster executes a command of the application once at most, and the library
\* sends it no more than cc->max_redirect_count times again.
THEOREM ExecutedAtMostOnce == Spec => []AtMostOnce
<1>1. Inv => AtMostOnce
  <2> SUFFICES ASSUME Inv PROVE AtMostOnce
    OBVIOUS
  <2>1. Typed /\ Once /\ Paid
    BY DEF Inv
  <2>2. executed \in Seq(Entry)
    BY <2>1 DEF Typed, ClusterTyped
  <2>3. DOMAIN executed = 1 .. Len(executed)
    BY <2>2
  <2> QED BY <2>1, <2>3 DEF AtMostOnce, Once, Paid
<1> QED BY <1>1, Invariant, PTL

\* In the event loop node->acon and ac->data agree, the connection of a node is
\* to that node and can be used, unless it failed at once and no callback waits on
\* it, and no live connection is without a node, as long as actx_get_by_node has not
\* passed its NOT_REACHED(); every variable has its type.
THEOREM NodesAndConnectionsAgree == Spec => []LinksAgree
<1>1. Inv => LinksAgree
  <2> SUFFICES ASSUME Inv PROVE LinksAgree
    OBVIOUS
  <2>0. Typed /\ Linked /\ Addressed /\ Kept
    BY DEF Inv
  <2>1. TypeOK
    <3>1. ClusterTypeOK
      BY <2>0, ClusterTypes DEF Typed
    <3>2. GoodAnswer \subseteq Answer
      BY DEF GoodAnswer
    <3>3. GoodFrame \subseteq Frame
      BY <3>2 DEF GoodFrame, CbFrame, TearFrame, FreeFrame, Frame
    <3>4. stack \in Seq(Frame)
      <4>1. stack \in Seq(GoodFrame)
        BY <2>0 DEF Typed
      <4> HIDE DEF GoodFrame
      <4>2. \A i \in 1 .. Len(stack) : stack[i] \in Frame
        BY <3>3, <4>1, ElementType
      <4> QED BY <4>1, <4>2
    <3> QED BY <2>0, <3>1, <3>4 DEF Typed, TypeOK
  <2>2. ASSUME EventLoop, ~notReached, NEW p \in Pointers, node[p].acon # None
        PROVE  /\ ac[node[p].acon].live /\ ~ac[node[p].acon].freeing
               /\ ac[node[p].acon].err => ac[node[p].acon].queue = <<>>
               /\ ac[node[p].acon].data = p
               /\ link[node[p].acon].peer = node[p].host
    <3>1. node[p].acon \in Holders
      BY <2>0, <2>2 DEF Typed, NodeType
    <3>2. stack = <<>>
      BY <2>2 DEF EventLoop
    <3> QED BY <2>0, <2>2, <3>1, <3>2, EmptyStack DEF Linked, Addressed
  <2>3. ASSUME EventLoop, ~notReached, NEW c \in Holders, ac[c].live PROVE node[ac[c].data].acon = c
    <3>1. stack = <<>>
      BY <2>3 DEF EventLoop
    <3> QED BY <2>0, <2>3, <3>1, EmptyStack DEF Kept
  <2> QED BY <2>1, <2>2, <2>3 DEF LinksAgree
<1> QED BY <1>1, Invariant, PTL

=============================================================================
