----------------------------- MODULE RedisAsync -----------------------------
(***************************************************************************)
(* The asynchronous client of one connection: src/async.c with the parts   *)
(* of src/hiredis.c it calls (redisBufferRead, redisBufferWrite,           *)
(* redisGetReply, __redisAppendCommand) and an event library adapter       *)
(* (src/adapters/).                                                        *)
(*                                                                         *)
(* The library runs in one thread; the interleavings are those of the      *)
(* event loop, the application's calls, the callbacks that the library     *)
(* makes into the application (from which it may call back) and the        *)
(* server.  pc says where the thread is:                                   *)
(*                                                                         *)
(*   "idle"          in the event loop or in application code              *)
(*   "read","write"  in redisAsyncHandleRead/Write, at the socket call     *)
(*   "process"       at the head of the loop of redisProcessCallbacks      *)
(*   "callback"      in a reply callback, called by __redisRunCallback     *)
(*   "teardown"      in __redisAsyncFree, between two callbacks            *)
(*   "onConnect", "onConnectErr", "onDisconnect"  in those callbacks       *)
(*   "aborted"       an assert() failed                                    *)
(*   "undefined"     the library used the context after freeing it         *)
(*                                                                         *)
(* A callback is named by the command that registered it (1, 2, ...); 0 is *)
(* a zeroed redisCallback, and a "silent" command registers a NULL fn.     *)
(* A call that returns REDIS_ERR without a change of state is a step the   *)
(* model does not take.                                                    *)
(***************************************************************************)
EXTENDS RedisServer

CONSTANTS
    AppCalls,        \* calls the application makes at top level and from reply callbacks
    ConnectCalls,    \* calls it makes from the connect callback
    Polite,          \* it keeps to the use of pub/sub that src/async.c supports
    OneShot,         \* events fire once for each addRead/addWrite (libevent), or
                     \* stay armed until delRead/delWrite (ae, libev, libuv)
    SpuriousEvents,  \* events may fire before connect(2) has completed
    MaxCmds          \* bound on the commands the application issues

Calls == Kinds \cup {"disconnect", "free", "setConnect", "setDisconnect"}

ASSUME CallsAssumption ==
    /\ AppCalls \subseteq Calls
    /\ ConnectCalls \subseteq Calls
    /\ {Polite, OneShot} \subseteq BOOLEAN
    /\ SpuriousEvents \in BOOLEAN
    /\ MaxCmds \in Nat

VARIABLES
    flags,         \* c->flags
    err,           \* c->err
    acErr,         \* ac->err, the copy made by __redisAsyncCopyError
    obuf,          \* c->obuf, as commands
    rbuf,          \* complete replies in c->reader
    frag,          \* 1 when c->reader holds the first bytes of the next reply too
    hooks,         \* which of ac->onConnect and ac->onDisconnect are set
    replies,       \* ac->replies
    invalid,       \* ac->sub.invalid
    subs,          \* ac->sub.channels and ac->sub.patterns: topic -> callback, 0 if absent
    listening,     \* the events the adapter listens for
    ctx,           \* the context is allocated, or freed
    pc,            \* where the thread is
    handler,       \* the event handler that is running
    cb,            \* the local variable cb of redisProcessCallbacks
    back,          \* the function that runs the reply callback
    ret,           \* the frame that __redisAsyncFree returns to
    issued,        \* history: the commands the library accepted
    ran,           \* history: the callbacks it ran and what they were given
    status         \* history: the argument of the disconnect callback

buffers == <<obuf, rbuf, frag>>
queues == <<replies, invalid, subs>>
clientVars == <<flags, err, acErr, buffers, hooks, queues, listening, ctx>>
controlVars == <<pc, handler, cb, back, ret>>
historyVars == <<issued, ran, status>>
vars == <<serverVars, clientVars, controlVars, historyVars>>

Flags == {"CONNECTED", "DISCONNECTING", "FREEING", "IN_CALLBACK", "SUBSCRIBED",
          "MONITORING"}
Errors == {"ok", "io", "eof", "protocol", "other"}
PCs == {"idle", "read", "write", "process", "callback", "teardown", "onConnect",
        "onConnectErr", "onDisconnect", "aborted", "undefined"}

\* Every variable holds a value of its C type.
TypeOK ==
    /\ ServerTypeOK
    /\ flags \subseteq Flags
    /\ err \in Errors
    /\ acErr \in Errors
    /\ obuf \in Seq(Command)
    /\ rbuf \in Seq(Reply)
    /\ frag \in 0 .. 1
    /\ hooks \subseteq {"connect", "disconnect"}
    /\ replies \in Seq(Nat)
    /\ invalid \in Seq(Nat)
    /\ subs \in [Topics -> Nat]
    /\ listening \subseteq {"read", "write"}
    /\ ctx \in {"live", "freed"}
    /\ pc \in PCs
    /\ handler \in {"none", "read", "write"}
    /\ cb \in Nat
    /\ back \in {"none", "process", "teardown"}
    /\ ret \in PCs
    /\ issued \in Seq(Command)
    /\ ran \in Seq([cb : Nat, reply : Reply \cup {NullReply}])
    /\ status \in {"none", "ok", "error"}

\* redisAsyncInitialize, after a non-blocking connect that is in progress and
\* an adapter that was attached.
Init ==
    /\ ServerInit
    /\ flags = {}
    /\ err = "ok"
    /\ acErr = "ok"
    /\ obuf = <<>>
    /\ rbuf = <<>>
    /\ frag = 0
    /\ hooks = {}
    /\ replies = <<>>
    /\ invalid = <<>>
    /\ subs = [t \in Topics |-> 0]
    /\ listening = {}
    /\ ctx = "live"
    /\ pc = "idle"
    /\ handler = "none"
    /\ cb = 0
    /\ back = "none"
    /\ ret = "idle"
    /\ issued = <<>>
    /\ ran = <<>>
    /\ status = "none"

-----------------------------------------------------------------------------
(* Frames shared by the operations. *)

\* Mutant: no assert.
AsyncDisconnectUnchecked(f, e, frame) ==
    /\ acErr' = e
    /\ ret' = frame
    /\ flags' = IF e = "ok" THEN f ELSE f \cup {"DISCONNECTING"}
    /\ pc' = "teardown"

\* Mutant: callbacks may go on issuing commands.
AsyncDisconnectOpen(f, e, frame) ==
    /\ acErr' = e
    /\ ret' = frame
    /\ flags' = f
    /\ pc' = IF e = "ok" /\ replies # <<>> THEN "aborted" ELSE "teardown"

\* __redisAsyncDisconnect, reached with the flags f and c->err = e; frame is
\* where the thread goes on when it has returned.  A clean disconnect asserts
\* that no callback is pending; one caused by an error stops callbacks from
\* issuing commands.  Both go on in __redisAsyncFree.
AsyncDisconnect(f, e, frame) ==
    /\ acErr' = e
    /\ ret' = frame
    /\ IF e = "ok"
       THEN /\ flags' = f
            /\ pc' = IF replies = <<>> THEN "teardown" ELSE "aborted"
       ELSE /\ flags' = f \cup {"DISCONNECTING"}
            /\ pc' = "teardown"

\* cb->fn != NULL
HasFn(id) == id # 0 /\ issued[id].kind # "silent"

\* Mutant: the frame to return to is not recorded.
RunCallbackNoFrame(f, id, reply, frame) ==
    IF HasFn(id)
    THEN /\ flags' = f \cup {"IN_CALLBACK"}
         /\ ran' = Append(ran, [cb |-> id, reply |-> reply])
         /\ back' = back
         /\ pc' = "callback"
    ELSE /\ flags' = f
         /\ pc' = frame
         /\ UNCHANGED <<ran, back>>

\* __redisRunCallback(ac, &cb, reply), for the callback of command id, with the
\* flags f; frame is the function it returns to.  A NULL fn is skipped.
RunCallback(f, id, reply, frame) ==
    IF HasFn(id)
    THEN /\ flags' = f \cup {"IN_CALLBACK"}
         /\ ran' = Append(ran, [cb |-> id, reply |-> reply])
         /\ back' = frame
         /\ pc' = "callback"
    ELSE /\ flags' = f
         /\ pc' = frame
         /\ UNCHANGED <<ran, back>>

\* Mutant: the callback is put in front.
PushCallbackInFront(list, id) == <<id>> \o list

\* __redisPushCallback
PushCallback(list, id) == Append(list, id)

\* Mutant: nothing is deferred.
NeverInCallback == FALSE

\* The test of REDIS_IN_CALLBACK with which redisAsyncFree and
\* redisAsyncDisconnect are deferred.
InCallback == "IN_CALLBACK" \in flags

\* Where application code runs, and may call the library.
InApp(call) ==
    /\ ctx = "live"
    /\ \/ pc \in {"idle", "callback"} /\ call \in AppCalls
       \/ pc \in {"onConnect", "onConnectErr"} /\ call \in ConnectCalls

-----------------------------------------------------------------------------
(* The application, in terms of what it knows: the commands it has issued and *)
(* the replies its callbacks have seen.                                       *)

Ran(id) == \E i \in 1 .. Len(ran) : ran[i].cb = id

\* Topics that the application subscribed to and has not unsubscribed from.
Held ==
    {t \in Topics : \E i \in 1 .. Len(issued) :
        /\ issued[i].kind = "subscribe"
        /\ t \in TopicSet(issued[i])
        /\ \A j \in i + 1 .. Len(issued) :
              ~(issued[j].kind = "unsubscribe" /\ t \in TopicSet(issued[j]))}

\* The unsubscribe commands that have not been confirmed for each of their topics.
Awaiting ==
    {i \in 1 .. Len(issued) :
        /\ issued[i].kind = "unsubscribe"
        /\ \E t \in TopicSet(issued[i]) : \A n \in 1 .. Len(ran) :
              ~(ran[n].reply.type = "unsubscribe" /\ ran[n].reply.id = i
                  /\ ran[n].reply.topic = t)}

\* MONITOR is the only command of its connection.  What has been unsubscribed is
\* confirmed before the connection is used for something else.  What is
\* unsubscribed had been subscribed, and no command that was issued while
\* subscribed is without an answer.
Supported(kind, topics) ==
    /\ \A i \in 1 .. Len(issued) : issued[i].kind # "monitor"
    /\ CASE kind = "monitor"     -> issued = <<>>
         [] kind = "unsubscribe" ->
              /\ \A k \in 1 .. Len(topics) : topics[k] \in Held
              /\ \A i \in 1 .. Len(issued), j \in 1 .. Len(issued) :
                    i < j /\ issued[i].kind = "subscribe" /\ issued[j].kind = "command" => Ran(j)
         [] OTHER                -> Awaiting = {}

-----------------------------------------------------------------------------
(* Calls of the application. *)

SetConnectCallback ==
    /\ InApp("setConnect")
    /\ "connect" \notin hooks
    /\ hooks' = hooks \cup {"connect"}
    /\ listening' = listening \cup {"write"}
    /\ UNCHANGED <<serverVars, flags, err, acErr, buffers, queues, ctx, controlVars,
                   historyVars>>

SetDisconnectCallback ==
    /\ InApp("setDisconnect")
    /\ "disconnect" \notin hooks
    /\ hooks' = hooks \cup {"disconnect"}
    /\ UNCHANGED <<serverVars, flags, err, acErr, buffers, queues, listening, ctx,
                   controlVars, historyVars>>

\* Where __redisAsyncCommand registers the callback id of a command.
RegisterCallback(kind, topics, id) ==
    \/ /\ kind = "subscribe"
       /\ flags' = flags \cup {"SUBSCRIBED"}
       /\ subs' = [t \in Topics |->
                     IF \E i \in 1 .. Len(topics) : topics[i] = t THEN id ELSE subs[t]]
       /\ UNCHANGED <<replies, invalid>>
    \/ /\ kind = "unsubscribe"
       /\ "SUBSCRIBED" \in flags
       /\ UNCHANGED <<flags, queues>>
    \/ /\ kind = "monitor"
       /\ flags' = flags \cup {"MONITORING"}
       /\ replies' = PushCallback(replies, id)
       /\ UNCHANGED <<subs, invalid>>
    \/ /\ kind \in {"command", "silent"}
       /\ "SUBSCRIBED" \in flags
       /\ invalid' = PushCallback(invalid, id)
       /\ UNCHANGED <<flags, subs, replies>>
    \/ /\ kind \in {"command", "silent"}
       /\ "SUBSCRIBED" \notin flags
       /\ replies' = PushCallback(replies, id)
       /\ UNCHANGED <<flags, subs, invalid>>

\* __redisAsyncCommand, when it accepts.
AsyncCommand(kind, topics) ==
    LET c == [id |-> Len(issued) + 1, kind |-> kind, topics |-> topics]
    IN  /\ InApp(kind)
        /\ Len(issued) < MaxCmds
        /\ Polite => Supported(kind, topics)
        /\ flags \cap {"DISCONNECTING", "FREEING"} = {}
        /\ RegisterCallback(kind, topics, c.id)
        /\ obuf' = Append(obuf, c)
        /\ listening' = listening \cup {"write"}
        /\ issued' = Append(issued, c)
        /\ UNCHANGED <<serverVars, err, acErr, rbuf, frag, hooks, ctx, controlVars,
                       ran, status>>

Commands ==
    \/ \E kind \in Kinds \ {"subscribe", "unsubscribe"} : AsyncCommand(kind, <<>>)
    \/ \E kind \in {"subscribe", "unsubscribe"}, topics \in TopicLists :
          AsyncCommand(kind, topics)

\* redisAsyncDisconnect
Disconnect ==
    /\ InApp("disconnect")
    /\ IF ~InCallback /\ replies = <<>>
       THEN AsyncDisconnect(flags \cup {"DISCONNECTING"}, err, pc)
       ELSE /\ flags' = flags \cup {"DISCONNECTING"}
            /\ UNCHANGED <<acErr, pc, ret>>
    /\ UNCHANGED <<serverVars, err, buffers, hooks, queues, listening, ctx, handler,
                   cb, back, historyVars>>

\* redisAsyncFree
Free ==
    /\ InApp("free")
    /\ flags' = flags \cup {"FREEING"}
    /\ IF ~InCallback
       THEN pc' = "teardown" /\ ret' = pc
       ELSE UNCHANGED <<pc, ret>>
    /\ UNCHANGED <<serverVars, err, acErr, buffers, hooks, queues, listening, ctx,
                   handler, cb, back, historyVars>>

-----------------------------------------------------------------------------
(* Events: redisAsyncHandleRead and redisAsyncHandleWrite. *)

\* __redisAsyncHandleConnect.  redisCheckSocketError records every failure in
\* c->err, the one that only says that connect(2) is in progress too.
HandleConnect(h) ==
    \/ /\ peer = "connecting"
       /\ err' = "io"
       /\ pc' = "idle"
       /\ UNCHANGED <<flags, acErr, ret>>
    \/ /\ peer \in {"refused", "closed"}
       /\ err' = "io"
       /\ IF "connect" \in hooks
          THEN /\ pc' = "onConnectErr"
               /\ UNCHANGED <<flags, acErr, ret>>
          ELSE AsyncDisconnect(flags, "io", "idle")
    \/ /\ peer \in {"up", "closed"}
       /\ flags' = flags \cup {"CONNECTED"}
       /\ pc' = IF "connect" \in hooks THEN "onConnect" ELSE h
       /\ UNCHANGED <<err, acErr, ret>>

\* The head of both handlers.
Handle(h) ==
    /\ handler' = h
    /\ \/ /\ "CONNECTED" \in flags
          /\ pc' = h
          /\ UNCHANGED <<flags, err, acErr, ret>>
       \/ /\ "CONNECTED" \notin flags
          /\ HandleConnect(h)
    /\ UNCHANGED <<serverVars, buffers, hooks, queues, ctx, cb, back, historyVars>>

ReadEvent ==
    /\ pc = "idle"
    /\ ctx = "live"
    /\ "read" \in listening
    /\ \/ sock # <<>>
       \/ peer \in {"closed", "refused"}
       \/ SpuriousEvents
    /\ listening' = IF OneShot THEN listening \ {"read"} ELSE listening
    /\ Handle("read")

WriteEvent ==
    /\ pc = "idle"
    /\ ctx = "live"
    /\ "write" \in listening
    /\ peer # "connecting" \/ SpuriousEvents
    /\ listening' = IF OneShot THEN listening \ {"write"} ELSE listening
    /\ Handle("write")

\* The connect callback returns to __redisAsyncHandleConnect, which goes on
\* using the context.
ConnectCallbackReturns ==
    /\ pc \in {"onConnect", "onConnectErr"}
    /\ IF ctx = "freed"
       THEN /\ pc' = "undefined"
            /\ UNCHANGED <<flags, acErr, ret>>
       ELSE IF pc = "onConnect"
            THEN /\ pc' = handler
                 /\ UNCHANGED <<flags, acErr, ret>>
            ELSE AsyncDisconnect(flags, err, "idle")
    /\ UNCHANGED <<serverVars, err, buffers, hooks, queues, listening, ctx, handler,
                   cb, back, historyVars>>

\* redisBufferRead hands n complete replies to the reader, and the first bytes
\* of the next one if there is one (a reply arrives in at most two pieces);
\* nothing to read is no error (EAGAIN).  Reads are scheduled again and
\* redisProcessCallbacks starts, with its cb zeroed.
BufferRead(n) ==
    /\ pc = "read"
    /\ err = "ok"
    /\ IF sock = <<>> THEN peer # "closed" ELSE frag = 1 => n > 0
    /\ frag' = IF n < Len(sock) THEN 1 ELSE 0
    /\ rbuf' = rbuf \o SubSeq(sock, 1, n)
    /\ sock' = SubSeq(sock, n + 1, Len(sock))
    /\ listening' = listening \cup {"read"}
    /\ cb' = 0
    /\ pc' = "process"
    /\ UNCHANGED <<peer, wire, srvSubs, srvMode, pushes, flags, err, acErr, obuf,
                   hooks, queues, ctx, handler, back, ret, historyVars>>

\* redisBufferRead or redisBufferWrite returns REDIS_ERR: because of an earlier
\* error, of an error of the socket, or (read) because the peer has closed.
BufferFails ==
    /\ \/ /\ pc \in {"read", "write"}
          /\ err # "ok"
          /\ err' = err
       \/ /\ pc \in {"read", "write"}
          /\ err = "ok"
          /\ peer = "closed"
          /\ err' = "io"
       \/ /\ pc = "read"
          /\ err = "ok"
          /\ peer = "closed"
          /\ sock = <<>>
          /\ err' = "eof"
    /\ AsyncDisconnect(flags, err', "idle")
    /\ UNCHANGED <<serverVars, buffers, hooks, queues, listening, ctx, handler, cb,
                   back, historyVars>>

\* Mutant: every write event is the last.
WriteInterestNever(buf) == listening \ {"write"}

\* Mutant: interest is not renewed after a write that left something.
WriteInterestStays(buf) == IF buf # <<>> THEN listening ELSE listening \ {"write"}

\* Whether redisAsyncHandleWrite keeps listening, with buf left to write.
WriteInterest(buf) ==
    IF buf # <<>> THEN listening \cup {"write"} ELSE listening \ {"write"}

\* redisBufferWrite takes n commands of the output buffer; writes stay
\* scheduled unless it is empty, reads always.
BufferWrite(n) ==
    /\ pc = "write"
    /\ err = "ok"
    /\ obuf' = SubSeq(obuf, n + 1, Len(obuf))
    /\ wire' = IF peer = "up" THEN wire \o SubSeq(obuf, 1, n) ELSE wire
    /\ listening' = WriteInterest(obuf') \cup {"read"}
    /\ pc' = "idle"
    /\ UNCHANGED <<peer, sock, srvSubs, srvMode, pushes, flags, err, acErr, rbuf,
                   frag, hooks, queues, ctx, handler, cb, back, ret, historyVars>>

-----------------------------------------------------------------------------
(* redisProcessCallbacks *)

\* Mutant: a disconnect that was deferred is forgotten.
DisconnectNeverDue == FALSE

\* "this is the cue to really disconnect"
DisconnectDue == "DISCONNECTING" \in flags /\ obuf = <<>>

\* redisGetReply finds no complete reply.
NoMoreReplies ==
    /\ pc = "process"
    /\ rbuf = <<>>
    /\ IF DisconnectDue
       THEN /\ AsyncDisconnect(flags, err, "idle")
            /\ UNCHANGED replies
       ELSE /\ replies' = IF "MONITORING" \in flags THEN PushCallback(replies, cb) ELSE replies
            /\ pc' = "idle"
            /\ UNCHANGED <<flags, acErr, ret>>
    /\ UNCHANGED <<serverVars, err, buffers, hooks, invalid, subs, listening, ctx,
                   handler, cb, back, historyVars>>

\* redisGetReply fails on bytes that are not RESP.
ProtocolError ==
    /\ pc = "process"
    /\ rbuf # <<>>
    /\ Head(rbuf).type = "bad"
    /\ err' = "protocol"
    /\ AsyncDisconnect(flags, "protocol", "idle")
    /\ UNCHANGED <<serverVars, buffers, hooks, queues, listening, ctx, handler, cb,
                   back, historyVars>>

\* A reply that a pending callback waits for.
ReplyToPending(reply) ==
    /\ replies # <<>>
    /\ replies' = Tail(replies)
    /\ cb' = Head(replies)
    /\ RunCallback(flags, Head(replies), reply, "process")
    /\ UNCHANGED <<err, acErr, ret, invalid, subs>>

\* An error reply nobody waits for ends the connection.
SpontaneousError(reply) ==
    /\ replies = <<>>
    /\ reply.type = "error"
    /\ err' = "other"
    /\ AsyncDisconnect(flags, "other", "idle")
    /\ UNCHANGED <<queues, cb, back, ran>>

\* assert(c->flags & REDIS_SUBSCRIBED || c->flags & REDIS_MONITORING)
SpontaneousUnexpected(reply) ==
    /\ replies = <<>>
    /\ reply.type # "error"
    /\ flags \cap {"SUBSCRIBED", "MONITORING"} = {}
    /\ pc' = "aborted"
    /\ UNCHANGED <<flags, err, acErr, ret, queues, cb, back, ran>>

\* Mutant: a cb of an earlier turn of the loop is kept.
SubscribeCallbackCached(reply) ==
    IF reply.type \in PubSubTypes
    THEN IF cb = 0 THEN subs[reply.topic] ELSE cb
    ELSE IF invalid # <<>> THEN Head(invalid) ELSE cb

\* The callback that __redisGetSubscribeCallback leaves in cb.  A topic that is
\* not registered leaves cb as it was, and so does an empty list of invalid
\* commands.
SubscribeCallback(reply) ==
    IF reply.type \in PubSubTypes
    THEN IF subs[reply.topic] # 0 THEN subs[reply.topic] ELSE cb
    ELSE IF invalid # <<>> THEN Head(invalid) ELSE cb

\* Mutant: the whole dictionary is emptied.
UnregisterAll(topic) == [t \in Topics |-> 0]

\* dictDelete of a topic.
Unregister(topic) == [subs EXCEPT ![topic] = 0]

\* Mutant: every unsubscribe reply does.
EndsAnySubscription(reply) == reply.type = "unsubscribe"

\* Mutant: no reply does.
EndsNoSubscription(reply) == FALSE

\* The unsubscribe reply that reverts to non-subscribe mode.
EndsSubscribedMode(reply) ==
    reply.type = "unsubscribe" /\ subs[reply.topic] # 0 /\ reply.last

\* __redisGetSubscribeCallback and the call of the callback it finds.
ReplyToSubscriber(reply) ==
    /\ replies = <<>>
    /\ reply.type # "error"
    /\ "SUBSCRIBED" \in flags
    /\ cb' = SubscribeCallback(reply)
    /\ subs' = IF reply.type = "unsubscribe" THEN Unregister(reply.topic) ELSE subs
    /\ invalid' = IF reply.type \notin PubSubTypes /\ invalid # <<>>
                  THEN Tail(invalid) ELSE invalid
    /\ RunCallback(IF EndsSubscribedMode(reply) THEN flags \ {"SUBSCRIBED"} ELSE flags,
                   cb', reply, "process")
    /\ UNCHANGED <<err, acErr, ret, replies>>

\* A reply in monitor mode with no callback queued goes to the callback that
\* the previous reply of this loop went to.
ReplyToMonitor(reply) ==
    /\ replies = <<>>
    /\ reply.type # "error"
    /\ "SUBSCRIBED" \notin flags
    /\ "MONITORING" \in flags
    /\ RunCallback(flags, cb, reply, "process")
    /\ UNCHANGED <<err, acErr, ret, queues, cb>>

\* One turn of the loop with a reply.
ProcessReply ==
    /\ pc = "process"
    /\ rbuf # <<>>
    /\ Head(rbuf).type # "bad"
    /\ rbuf' = Tail(rbuf)
    /\ LET reply == Head(rbuf)
       IN  \/ ReplyToPending(reply)
           \/ SpontaneousError(reply)
           \/ SpontaneousUnexpected(reply)
           \/ ReplyToSubscriber(reply)
           \/ ReplyToMonitor(reply)
    /\ UNCHANGED <<serverVars, obuf, frag, hooks, listening, ctx, handler, issued,
                   status>>

\* A reply callback returns: to redisProcessCallbacks, which starts
\* __redisAsyncFree when the callback asked for it, or to __redisAsyncFree.
CallbackReturns ==
    /\ pc = "callback"
    /\ flags' = flags \ {"IN_CALLBACK"}
    /\ IF ctx = "freed"
       THEN pc' = "undefined" /\ UNCHANGED ret
       ELSE IF back = "process" /\ "FREEING" \in flags
            THEN pc' = "teardown" /\ ret' = "idle"
            ELSE pc' = back /\ UNCHANGED ret
    /\ UNCHANGED <<serverVars, err, acErr, buffers, hooks, queues, listening, ctx,
                   handler, cb, back, historyVars>>

-----------------------------------------------------------------------------
(* __redisAsyncFree: every pending callback runs with a NULL reply, then the *)
(* disconnect callback, then the context goes. *)

TeardownReplies ==
    /\ pc = "teardown"
    /\ replies # <<>>
    /\ replies' = Tail(replies)
    /\ RunCallback(flags, Head(replies), NullReply, "teardown")
    /\ UNCHANGED <<serverVars, err, acErr, buffers, hooks, invalid, subs, listening,
                   ctx, handler, cb, ret, issued, status>>

TeardownInvalid ==
    /\ pc = "teardown"
    /\ replies = <<>>
    /\ invalid # <<>>
    /\ invalid' = Tail(invalid)
    /\ RunCallback(flags, Head(invalid), NullReply, "teardown")
    /\ UNCHANGED <<serverVars, err, acErr, buffers, hooks, replies, subs, listening,
                   ctx, handler, cb, ret, issued, status>>

\* The dictionaries are walked in the order of their hash tables.
TeardownSubs ==
    /\ pc = "teardown"
    /\ replies = <<>>
    /\ invalid = <<>>
    /\ \E t \in Topics :
          /\ subs[t] # 0
          /\ subs' = [subs EXCEPT ![t] = 0]
          /\ RunCallback(flags, subs[t], NullReply, "teardown")
    /\ UNCHANGED <<serverVars, err, acErr, buffers, hooks, replies, invalid,
                   listening, ctx, handler, cb, ret, issued, status>>

\* redisFree, the last step of __redisAsyncFree.
FreeContext ==
    /\ ctx' = "freed"
    /\ obuf' = <<>>
    /\ rbuf' = <<>>
    /\ frag' = 0
    /\ pc' = ret

\* ev.cleanup, onDisconnect and redisFree.  The events are gone when the
\* disconnect callback runs, and it can issue no command.
TeardownEnds ==
    /\ pc = "teardown"
    /\ replies = <<>>
    /\ invalid = <<>>
    /\ \A t \in Topics : subs[t] = 0
    /\ listening' = {}
    /\ IF "disconnect" \in hooks /\ "CONNECTED" \in flags
       THEN /\ pc' = "onDisconnect"
            /\ status' = IF "FREEING" \in flags \/ acErr = "ok" THEN "ok" ELSE "error"
            /\ UNCHANGED <<ctx, buffers>>
       ELSE /\ FreeContext
            /\ status' = status
    /\ UNCHANGED <<serverVars, flags, err, acErr, hooks, queues, handler, cb, back,
                   ret, issued, ran>>

DisconnectCallbackReturns ==
    /\ pc = "onDisconnect"
    /\ FreeContext
    /\ UNCHANGED <<serverVars, flags, err, acErr, hooks, queues, listening, handler,
                   cb, back, ret, historyVars>>

-----------------------------------------------------------------------------
AppNext ==
    SetConnectCallback \/ SetDisconnectCallback \/ Commands \/ Disconnect \/ Free

LoopNext ==
    \/ ReadEvent
    \/ WriteEvent
    \/ ConnectCallbackReturns
    \/ \E n \in 0 .. Len(sock) : BufferRead(n)
    \/ BufferFails
    \/ \E n \in 0 .. Len(obuf) : BufferWrite(n)
    \/ NoMoreReplies
    \/ ProtocolError
    \/ ProcessReply
    \/ CallbackReturns
    \/ TeardownReplies
    \/ TeardownInvalid
    \/ TeardownSubs
    \/ TeardownEnds
    \/ DisconnectCallbackReturns

\* The server's steps matter only while there is a context to notice them:
\* __redisAsyncFree reads nothing more.
Environment ==
    /\ ctx = "live"
    /\ pc \notin {"teardown", "onDisconnect", "aborted", "undefined"}
    /\ pc = "callback" => back = "process"
    /\ ServerNext
    /\ UNCHANGED <<clientVars, controlVars, historyVars>>

Next == AppNext \/ LoopNext \/ Environment

Spec == Init /\ [][Next]_vars

(***************************************************************************)
(* Fairness.  The event loop reports every event that stays ready and its  *)
(* handlers run to completion; callbacks return; the server answers what   *)
(* it has received and connect(2) ends.  A socket that is writable again   *)
(* and again is not full for ever.                                         *)
(***************************************************************************)
Fairness ==
    /\ WF_vars(LoopNext)
    /\ SF_vars(ReadEvent)
    /\ SF_vars(WriteEvent)
    /\ SF_vars(obuf # <<>> /\ BufferWrite(Len(obuf)))
    /\ WF_vars(Environment /\ (Accept \/ Refuse \/ Reject))
    /\ WF_vars(Environment /\ Serve)

FairSpec == Spec /\ Fairness

-----------------------------------------------------------------------------
(* Properties *)

\* A callback is given only what it was registered for: a reply to another
\* command never reaches it, a pub/sub message reaches a callback registered
\* for that topic, and a line of MONITOR output the callback of MONITOR
\* (the matching done by redisProcessCallbacks and __redisGetSubscribeCallback).
\* The error of a server that refuses the connection answers no command; it can
\* reach the first one only.
RightCallback ==
    \A i \in 1 .. Len(ran) :
        LET c == issued[ran[i].cb]
            reply == ran[i].reply
        IN  /\ reply.type = "data" => reply.id = c.id
            /\ reply.type = "error" => reply.id = c.id \/ (reply.id = 0 /\ c.id = 1)
            /\ reply.type \in PubSubTypes =>
                  c.kind = "subscribe" /\ reply.topic \in TopicSet(c)
            /\ reply.type = "line" => c.kind = "monitor"

\* Where an application uses regular commands only, its callbacks run in the
\* order of the commands, and each at most once: whatever mix of replies,
\* errors, disconnects and frees ends the connection.
InOrder ==
    \A i, j \in 1 .. Len(ran) : i < j => ran[i].cb < ran[j].cb

\* A disconnect that is reported as clean has answered every command: "the
\* connection is only terminated when all pending commands have been written
\* to the socket, their respective replies have been read and their respective
\* callbacks have been executed" (README.md).  redisAsyncFree is the exception.
CleanDisconnect ==
    status = "ok" /\ "FREEING" \notin flags =>
        \A id \in 1 .. Len(issued) :
            issued[id].kind = "command" =>
                \E i \in 1 .. Len(ran) : ran[i].cb = id /\ ran[i].reply # NullReply

\* The library never touches a context that it has freed, in whatever order
\* reply callbacks and the rest of the application call redisAsyncFree and
\* redisAsyncDisconnect.  The connect callback is excepted (ConnectCalls):
\* REDIS_IN_CALLBACK is not set there, so nothing defers what it asks for.
NoUseAfterFree == pc # "undefined"

\* No assert() of src/async.c fails.
NoAssertFails == pc # "aborted"

\* No wakeup is lost: in the event loop, a non-empty output buffer is waiting
\* for writability, and a callback whose command was written is waiting for
\* readability.  Otherwise the connection would hang for ever.
WakeupArmed ==
    pc = "idle" /\ ctx = "live" =>
        /\ obuf # <<>> => "write" \in listening
        /\ replies # <<>> /\ obuf = <<>> => "read" \in listening

\* Every command that was accepted gets its callback run in the end (unless
\* an assert() stops the program).
EveryCallbackRuns ==
    \A id \in 1 .. MaxCmds :
        (id <= Len(issued) /\ issued[id].kind = "command")
            ~> (Ran(id) \/ pc = "aborted")

\* redisAsyncDisconnect, also when it had to be deferred, ends in a freed
\* context (unless an assert() stops the program).
DisconnectCompletes ==
    ("DISCONNECTING" \in flags) ~> (ctx = "freed" \/ pc = "aborted")

\* What the client believes about its subscriptions is what the server
\* believes, whenever nothing is in flight between them.
SubscriptionsAgree ==
    pc = "idle" /\ ctx = "live" /\ peer = "up"
      /\ obuf = <<>> /\ wire = <<>> /\ sock = <<>> /\ rbuf = <<>> =>
        /\ {t \in Topics : subs[t] # 0} = srvSubs
        /\ "SUBSCRIBED" \in flags <=> srvSubs # {}

\* When the context has been freed, a subscription that was neither replaced
\* nor confirmed as ended has seen a NULL reply: the application learns that
\* no message will come any more.
SubscribersTold ==
    ctx = "freed" =>
        \A i \in 1 .. Len(issued) : \A t \in TopicSet(issued[i]) :
            \/ issued[i].kind # "subscribe"
            \/ \E j \in i + 1 .. Len(issued) :
                  issued[j].kind = "subscribe" /\ t \in TopicSet(issued[j])
            \/ \E n \in 1 .. Len(ran) :
                  LET reply == ran[n].reply
                  IN  \/ ran[n].cb = i /\ reply.type = "null"
                      \/ reply.type = "unsubscribe" /\ reply.topic = t /\ reply.id > i
=============================================================================
