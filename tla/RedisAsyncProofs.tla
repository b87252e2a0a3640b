-------------------------- MODULE RedisAsyncProofs --------------------------
(***************************************************************************)
(* What RedisAsync promises for every value of its constants.              *)
(***************************************************************************)
EXTENDS AsyncRefinement, SequenceFacts, TLAPS

\* Every reply the server makes is a reply.
LEMMA PlainReplyType ==
    ASSUME NEW type \in ReplyTypes \ PubSubTypes, NEW id \in Nat
    PROVE  PlainReply(type, id) \in Reply
    BY DEF PlainReply, Reply, ReplyTypes, PubSubTypes

LEMMA SubscribeRepliesType ==
    ASSUME NEW c \in Command
    PROVE  SubscribeReplies(c) \in Seq(Reply) /\ UnsubscribeReplies(c) \in Seq(Reply)
<1>1. \A i \in 1 .. Len(c.topics) : c.topics[i] \in Topics
  BY DEF Command
<1>2. SubscribeReplies(c) \in [1 .. Len(c.topics) -> Reply]
  BY <1>1 DEF SubscribeReplies, Command, Reply, ReplyTypes, PubSubTypes
<1>3. UnsubscribeReplies(c) \in [1 .. Len(c.topics) -> Reply]
  BY <1>1 DEF UnsubscribeReplies, Command, Reply, ReplyTypes, PubSubTypes
<1>4. Len(c.topics) \in Nat
  BY DEF Command
<1> QED BY <1>2, <1>3, <1>4

-----------------------------------------------------------------------------
(* Type correctness.  The type of pc depends on the frames the thread returns *)
(* to, so the invariant also says which frames can be pending.               *)

\* A reply callback runs exactly while REDIS_IN_CALLBACK is set; the frames
\* recorded for a return exist; a freed context is left only to the event
\* loop or to a connect callback that freed it.
ControlOK ==
    /\ pc = "callback" <=> InCallback
    /\ pc = "callback" => back # "none"
    /\ "onConnect" \in {pc, ret} => handler # "none"
    /\ ret \in {"idle", "onConnect", "onConnectErr"}
    /\ ctx = "freed" => pc \in {"idle", "onConnect", "onConnectErr", "undefined"}

TypeInv == TypeOK /\ ControlOK

LEMMA TypeInit == Init => TypeInv
  BY DEF Init, ServerInit, TypeInv, TypeOK, ServerTypeOK, ControlOK, InCallback, Flags,
         Errors, PCs

LEMMA TypeEnvironment == TypeInv /\ Environment => TypeInv'
<1> SUFFICES ASSUME TypeInv, Environment PROVE TypeInv'
  OBVIOUS
<1>1. ControlOK'
  BY DEF TypeInv, Environment, ControlOK, InCallback, clientVars, controlVars, queues,
         buffers
<1>2. SUFFICES ServerTypeOK'
  BY <1>1 DEF TypeInv, Environment, TypeOK, clientVars, controlVars, historyVars, queues,
              buffers
<1>3. ServerTypeOK
  BY DEF TypeInv, TypeOK
<1>4. CASE Accept
  BY <1>3, <1>4 DEF ServerTypeOK, Accept
<1>9. CASE Refuse
  BY <1>3, <1>9 DEF ServerTypeOK, Refuse
<1>10. CASE Close
  BY <1>3, <1>10 DEF ServerTypeOK, Close
<1>5. CASE Reject
  <2>1. PlainReply("error", 0) \in Reply
    BY PlainReplyType DEF ReplyTypes, PubSubTypes
  <2> QED BY <1>3, <1>5, <2>1 DEF ServerTypeOK, Reject
<1>6. CASE Serve
  <2>1. /\ Head(wire) \in Command
        /\ Tail(wire) \in Seq(Command)
    BY <1>3, <1>6, HeadTailType DEF Serve, ServerTypeOK
  <2>2. /\ SubscribeReplies(Head(wire)) \in Seq(Reply)
        /\ UnsubscribeReplies(Head(wire)) \in Seq(Reply)
    BY <2>1, SubscribeRepliesType
  <2>3. /\ PlainReply("error", Head(wire).id) \in Reply
        /\ PlainReply("data", Head(wire).id) \in Reply
    BY <2>1, PlainReplyType DEF Command, ReplyTypes, PubSubTypes
  <2>4. TopicSet(Head(wire)) \subseteq Topics
    BY <2>1 DEF TopicSet, Command
  <2>5. sock' \in Seq(Reply)
    <3>1. sock \in Seq(Reply)
      BY <1>3 DEF ServerTypeOK
    <3>2. \/ sock' = sock \o SubscribeReplies(Head(wire))
          \/ sock' = sock \o UnsubscribeReplies(Head(wire))
          \/ sock' = Append(sock, PlainReply("error", Head(wire).id))
          \/ sock' = Append(sock, PlainReply("data", Head(wire).id))
      BY <1>6 DEF Serve
    <3>3. CASE sock' = sock \o SubscribeReplies(Head(wire))
      BY <2>2, <3>1, <3>3, ConcatType
    <3>4. CASE sock' = sock \o UnsubscribeReplies(Head(wire))
      BY <2>2, <3>1, <3>4, ConcatType
    <3>5. CASE sock' = Append(sock, PlainReply("error", Head(wire).id))
      BY <2>3, <3>1, <3>5
    <3>6. CASE sock' = Append(sock, PlainReply("data", Head(wire).id))
      BY <2>3, <3>1, <3>6
    <3> QED BY <3>2, <3>3, <3>4, <3>5, <3>6
  <2>6. srvSubs' \subseteq Topics /\ srvMode' \in {"normal", "monitor"}
    BY <1>3, <1>6, <2>4 DEF Serve, ServerTypeOK
  <2> QED BY <1>3, <1>6, <2>1, <2>5, <2>6 DEF Serve, ServerTypeOK
<1>7. CASE Push
  <2>1. \A t \in Topics : [type |-> "message", id |-> 0, topic |-> t, last |-> FALSE] \in Reply
    BY DEF Reply, ReplyTypes, PubSubTypes
  <2>2. PlainReply("line", 0) \in Reply
    BY PlainReplyType DEF ReplyTypes, PubSubTypes
  <2>3. PICK r \in Reply : sock' = Append(sock, r)
    BY <1>3, <1>7, <2>1, <2>2 DEF Push, ServerTypeOK
  <2> QED BY <1>3, <1>7, <2>3 DEF Push, ServerTypeOK
<1>8. CASE Corrupt
  <2>1. PlainReply("bad", 0) \in Reply
    BY PlainReplyType DEF ReplyTypes, PubSubTypes
  <2> QED BY <1>3, <1>8, <2>1 DEF ServerTypeOK, Corrupt
<1> QED BY <1>4, <1>5, <1>6, <1>7, <1>8, <1>9, <1>10 DEF Environment, ServerNext

\* The operations of the client leave the server alone.
LEMMA ServerFrame ==
    ASSUME TypeOK, UNCHANGED serverVars
    PROVE  ServerTypeOK'
  BY DEF TypeOK, ServerTypeOK, serverVars

LEMMA CommandArguments ==
    ASSUME Commands
    PROVE  \E kind \in Kinds, topics \in Seq(Topics) : AsyncCommand(kind, topics)
<1>1. <<>> \in Seq(Topics) /\ TopicLists \subseteq Seq(Topics)
  BY TopicsAssumption
<1>2. {"subscribe", "unsubscribe"} \subseteq Kinds
  BY DEF Kinds
<1> QED BY <1>1, <1>2 DEF Commands

LEMMA CommandType ==
    ASSUME TypeOK, NEW kind \in Kinds, NEW topics \in Seq(Topics)
    PROVE  [id |-> Len(issued) + 1, kind |-> kind, topics |-> topics] \in Command
  BY DEF TypeOK, Command

LEMMA TypeApp == TypeInv /\ AppNext => TypeInv'
<1> SUFFICES ASSUME TypeInv, AppNext PROVE TypeInv'
  OBVIOUS
<1> USE DEF TypeInv, TypeOK, ControlOK, InCallback, Flags, PCs, Errors
<1> USE DEF controlVars, historyVars, buffers, queues
<1>1. CASE SetConnectCallback
  BY <1>1, ServerFrame DEF SetConnectCallback
<1>2. CASE SetDisconnectCallback
  BY <1>2, ServerFrame DEF SetDisconnectCallback
<1>3. CASE Commands
  <2>2. PICK kind \in Kinds, topics \in Seq(Topics) : AsyncCommand(kind, topics)
    BY <1>3, CommandArguments
  <2> DEFINE c == [id |-> Len(issued) + 1, kind |-> kind, topics |-> topics]
  <2>3. c \in Command /\ c.id \in Nat
    BY CommandType DEF Command
  <2>4. issued' \in Seq(Command) /\ obuf' \in Seq(Command)
    BY <2>2, <2>3 DEF AsyncCommand
  <2>5. RegisterCallback(kind, topics, c.id)
    BY <2>2 DEF AsyncCommand
  <2> HIDE DEF c
  <2>6. /\ replies' \in Seq(Nat)
        /\ invalid' \in Seq(Nat)
    <3>1. /\ replies' = replies \/ replies' = Append(replies, c.id)
          /\ invalid' = invalid \/ invalid' = Append(invalid, c.id)
      BY <2>5 DEF RegisterCallback, PushCallback
    <3>2. replies \in Seq(Nat) /\ invalid \in Seq(Nat)
      OBVIOUS
    <3>3. Append(replies, c.id) \in Seq(Nat) /\ Append(invalid, c.id) \in Seq(Nat)
      BY <2>3, <3>2, AppendType
    <3> QED BY ONLY <3>1, <3>2, <3>3
  <2>7. subs' \in [Topics -> Nat]
    BY <2>3, <2>5 DEF RegisterCallback
  <2>8. /\ flags' \subseteq Flags
        /\ "IN_CALLBACK" \in flags' <=> "IN_CALLBACK" \in flags
    BY <2>5 DEF RegisterCallback
  <2> QED BY <2>2, <2>4, <2>6, <2>7, <2>8, ServerFrame DEF AsyncCommand
<1>4. CASE Disconnect
  <2>1. CASE ~InCallback /\ replies = <<>>
    <3>1. AsyncDisconnect(flags \cup {"DISCONNECTING"}, err, pc)
      BY <1>4, <2>1 DEF Disconnect
    <3>2. pc' = "teardown" /\ flags' = flags \cup {"DISCONNECTING"}
      BY <2>1, <3>1 DEF AsyncDisconnect
    <3> QED BY <1>4, <2>1, <3>1, <3>2, ServerFrame DEF Disconnect, AsyncDisconnect, InApp
  <2>2. CASE ~(~InCallback /\ replies = <<>>)
    <3>1. flags' = flags \cup {"DISCONNECTING"} /\ UNCHANGED <<acErr, pc, ret>>
      BY <1>4, <2>2 DEF Disconnect
    <3> QED BY <1>4, <3>1, ServerFrame DEF Disconnect
  <2> QED BY <2>1, <2>2
<1>5. CASE Free
  BY <1>5, ServerFrame DEF Free, InApp
<1> QED BY <1>1, <1>2, <1>3, <1>4, <1>5 DEF AppNext

\* __redisAsyncDisconnect leaves the thread in __redisAsyncFree, or aborts.
LEMMA DisconnectType ==
    ASSUME TypeInv, NEW f \in SUBSET (Flags \ {"IN_CALLBACK"}), NEW e \in Errors,
           AsyncDisconnect(f, e, "idle")
    PROVE  /\ acErr' \in Errors
           /\ ret' = "idle"
           /\ flags' \subseteq Flags \ {"IN_CALLBACK"}
           /\ pc' \in {"teardown", "aborted"}
  BY DEF AsyncDisconnect, Flags

\* The flags outside of a reply callback.
LEMMA NotInCallback ==
    ASSUME TypeInv, pc # "callback"
    PROVE  flags \in SUBSET (Flags \ {"IN_CALLBACK"})
  BY DEF TypeInv, TypeOK, ControlOK, InCallback

LEMMA TypeEvents == TypeInv /\ (ReadEvent \/ WriteEvent) => TypeInv'
<1> SUFFICES ASSUME TypeInv, NEW h \in {"read", "write"}, Handle(h), pc = "idle",
                    listening' \subseteq {"read", "write"}, ctx = "live"
             PROVE  TypeInv'
  BY DEF ReadEvent, WriteEvent, TypeInv, TypeOK
<1>1. flags \in SUBSET (Flags \ {"IN_CALLBACK"})
  BY NotInCallback
<1>2. /\ acErr' \in Errors
      /\ err' \in Errors
      /\ ret' \in {"idle", "onConnect", "onConnectErr"}
      /\ flags' \subseteq Flags \ {"IN_CALLBACK"}
      /\ pc' \in PCs \ {"callback"}
  <2>1. CASE "CONNECTED" \in flags
    BY <1>1, <2>1 DEF Handle, TypeInv, TypeOK, ControlOK, Errors, PCs
  <2>2. CASE HandleConnect(h)
    <3>1. CASE AsyncDisconnect(flags, "io", "idle")
      BY <1>1, <2>2, <3>1, DisconnectType DEF HandleConnect, Errors, PCs
    <3>2. CASE ~AsyncDisconnect(flags, "io", "idle")
      BY <1>1, <2>2, <3>2 DEF HandleConnect, TypeInv, TypeOK, ControlOK, Errors, PCs, Flags
    <3> QED BY <3>1, <3>2
  <2> QED BY <2>1, <2>2 DEF Handle
<1> QED
  BY <1>2, ServerFrame
     DEF Handle, TypeInv, TypeOK, ControlOK, InCallback, PCs, buffers, queues, historyVars

LEMMA TypeBuffers ==
    ASSUME TypeInv,
           \/ \E n \in 0 .. Len(sock) : BufferRead(n)
           \/ BufferFails
           \/ \E n \in 0 .. Len(obuf) : BufferWrite(n)
    PROVE  TypeInv'
<1> USE DEF TypeInv
<1>1. ASSUME NEW n \in 0 .. Len(sock), BufferRead(n) PROVE TypeInv'
  <2>1. sock \in Seq(Reply) /\ rbuf \in Seq(Reply)
    BY DEF TypeOK, ServerTypeOK
  <2>2. SubSeq(sock, 1, n) \in Seq(Reply) /\ SubSeq(sock, n + 1, Len(sock)) \in Seq(Reply)
    BY <2>1, SubSeqType
  <2>3. sock' \in Seq(Reply) /\ rbuf' \in Seq(Reply)
    BY <1>1, <2>1, <2>2, ConcatType DEF BufferRead
  <2>4. ServerTypeOK'
    BY <1>1, <2>3 DEF BufferRead, TypeOK, ServerTypeOK
  <2> QED BY <1>1, <2>3, <2>4
             DEF BufferRead, TypeOK, ControlOK, InCallback, PCs, queues, historyVars
<1>2. CASE BufferFails
  <2>1. flags \in SUBSET (Flags \ {"IN_CALLBACK"}) /\ err' \in Errors
    BY <1>2, NotInCallback DEF BufferFails, TypeOK, Errors
  <2>2. AsyncDisconnect(flags, err', "idle")
    BY <1>2 DEF BufferFails
  <2>3. /\ acErr' \in Errors
        /\ ret' = "idle"
        /\ flags' \subseteq Flags \ {"IN_CALLBACK"}
        /\ pc' \in {"teardown", "aborted"}
    BY <2>1, <2>2, DisconnectType
  <2>4. ctx # "freed"
    BY <1>2 DEF BufferFails, ControlOK
  <2> QED BY <1>2, <2>1, <2>3, <2>4, ServerFrame
             DEF BufferFails, TypeOK, ControlOK, InCallback, PCs, buffers, queues, historyVars
<1>3. ASSUME NEW n \in 0 .. Len(obuf), BufferWrite(n) PROVE TypeInv'
  <2>1. obuf \in Seq(Command) /\ wire \in Seq(Command)
    BY DEF TypeOK, ServerTypeOK
  <2>2. SubSeq(obuf, 1, n) \in Seq(Command) /\ SubSeq(obuf, n + 1, Len(obuf)) \in Seq(Command)
    BY <2>1, SubSeqType
  <2>3. obuf' \in Seq(Command) /\ wire' \in Seq(Command)
    BY <1>3, <2>1, <2>2, ConcatType DEF BufferWrite
  <2>4. ServerTypeOK'
    BY <1>3, <2>3 DEF BufferWrite, TypeOK, ServerTypeOK
  <2>5. listening' \subseteq {"read", "write"}
    BY <1>3 DEF BufferWrite, WriteInterest, TypeOK
  <2> QED BY <1>3, <2>3, <2>4, <2>5
             DEF BufferWrite, TypeOK, ControlOK, InCallback, PCs, queues, historyVars
<1> QED BY <1>1, <1>2, <1>3

LEMMA TypeReturns ==
    TypeInv /\ (ConnectCallbackReturns \/ CallbackReturns \/ DisconnectCallbackReturns)
        => TypeInv'
<1> SUFFICES ASSUME TypeInv,
                    ConnectCallbackReturns \/ CallbackReturns \/ DisconnectCallbackReturns
             PROVE  TypeInv'
  OBVIOUS
<1> USE DEF TypeInv
<1>1. CASE ConnectCallbackReturns
  <2>1. flags \in SUBSET (Flags \ {"IN_CALLBACK"}) /\ err \in Errors
    BY <1>1, NotInCallback DEF ConnectCallbackReturns, TypeOK
  <2>2. CASE AsyncDisconnect(flags, err, "idle") /\ ctx # "freed"
    BY <1>1, <2>1, <2>2, DisconnectType, ServerFrame
       DEF ConnectCallbackReturns, TypeOK, ControlOK, InCallback, PCs, buffers, queues,
           historyVars
  <2>3. CASE UNCHANGED <<flags, acErr, ret>> /\ pc' \in {"undefined", handler}
             /\ (ctx = "freed" => pc' = "undefined") /\ (pc' = handler => handler # "none")
    BY <1>1, <2>1, <2>3, ServerFrame
       DEF ConnectCallbackReturns, TypeOK, ControlOK, InCallback, PCs, buffers, queues,
           historyVars
  <2> QED BY <1>1, <2>2, <2>3 DEF ConnectCallbackReturns, ControlOK
<1>2. CASE CallbackReturns
  <2>1. ctx # "freed" /\ back \in {"process", "teardown"}
    BY <1>2 DEF CallbackReturns, TypeOK, ControlOK
  <2>2. /\ flags' = flags \ {"IN_CALLBACK"}
        /\ pc' \in {"process", "teardown"}
        /\ ret' \in {ret, "idle"}
    BY <1>2, <2>1 DEF CallbackReturns
  <2> QED BY <1>2, <2>1, <2>2, ServerFrame
             DEF CallbackReturns, TypeOK, ControlOK, InCallback, PCs, buffers, queues,
                 historyVars
<1>3. CASE DisconnectCallbackReturns
  BY <1>3, ServerFrame
     DEF DisconnectCallbackReturns, FreeContext, TypeOK, ControlOK, InCallback, PCs, queues,
         historyVars
<1> QED BY <1>1, <1>2, <1>3

\* What __redisRunCallback leaves behind, called with the flags f for the
\* callback id.
LEMMA RunCallbackType ==
    ASSUME TypeInv, NEW f \in SUBSET (Flags \ {"IN_CALLBACK"}), NEW id \in Nat,
           NEW reply \in Reply \cup {NullReply}, NEW frame \in {"process", "teardown"},
           RunCallback(f, id, reply, frame)
    PROVE  /\ flags' \subseteq Flags
           /\ pc' \in {"callback", "process", "teardown"}
           /\ pc' = "callback" <=> "IN_CALLBACK" \in flags'
           /\ back' \in {"none", "process", "teardown"}
           /\ pc' = "callback" => back' # "none"
           /\ ran' \in Seq([cb : Nat, reply : Reply \cup {NullReply}])
<1>1. ran \in Seq([cb : Nat, reply : Reply \cup {NullReply}]) /\ back \in {"none", "process", "teardown"}
  BY DEF TypeInv, TypeOK
<1>2. CASE HasFn(id)
  <2>1. [cb |-> id, reply |-> reply] \in [cb : Nat, reply : Reply \cup {NullReply}]
    OBVIOUS
  <2>2. Append(ran, [cb |-> id, reply |-> reply]) \in Seq([cb : Nat, reply : Reply \cup {NullReply}])
    BY <1>1, <2>1, AppendType
  <2> QED BY <1>1, <1>2, <2>2 DEF RunCallback, Flags
<1>3. CASE ~HasFn(id)
  BY <1>1, <1>3 DEF RunCallback, Flags
<1> QED BY <1>2, <1>3

LEMMA TypeProcess ==
    TypeInv /\ (NoMoreReplies \/ ProtocolError \/ ProcessReply) => TypeInv'
<1> SUFFICES ASSUME TypeInv, NoMoreReplies \/ ProtocolError \/ ProcessReply
             PROVE  TypeInv'
  OBVIOUS
<1> USE DEF TypeInv
<1>1. /\ flags \in SUBSET (Flags \ {"IN_CALLBACK"})
      /\ ctx # "freed"
      /\ replies \in Seq(Nat)
      /\ invalid \in Seq(Nat)
      /\ cb \in Nat
      /\ err \in Errors
  BY NotInCallback DEF NoMoreReplies, ProtocolError, ProcessReply, TypeOK, ControlOK
<1>2. CASE NoMoreReplies
  <2>1. CASE AsyncDisconnect(flags, err, "idle") /\ UNCHANGED replies
    BY <1>1, <1>2, <2>1, DisconnectType, ServerFrame
       DEF NoMoreReplies, TypeOK, ControlOK, InCallback, PCs, buffers, historyVars
  <2>2. CASE ~DisconnectDue
    <3>1. replies' \in Seq(Nat)
      BY <1>1, <1>2, <2>2, AppendType DEF NoMoreReplies, PushCallback
    <3> QED BY <1>1, <1>2, <2>2, <3>1, ServerFrame
               DEF NoMoreReplies, TypeOK, ControlOK, InCallback, PCs, buffers, historyVars
  <2> QED BY <1>2, <2>1, <2>2 DEF NoMoreReplies
<1>3. CASE ProtocolError
  BY <1>1, <1>3, DisconnectType, ServerFrame
     DEF ProtocolError, TypeOK, ControlOK, InCallback, PCs, Errors, buffers, queues,
         historyVars
<1>4. CASE ProcessReply
  <2> DEFINE reply == Head(rbuf)
  <2>1. reply \in Reply /\ rbuf' \in Seq(Reply)
    BY <1>4, HeadTailType DEF ProcessReply, TypeOK
  <2>2. SUFFICES /\ flags' \subseteq Flags
                 /\ pc' \in PCs
                 /\ pc' = "callback" <=> "IN_CALLBACK" \in flags'
                 /\ back' \in {"none", "process", "teardown"}
                 /\ pc' = "callback" => back' # "none"
                 /\ pc' # "onConnect"
                 /\ ret' \in {ret, "idle"}
                 /\ ran' \in Seq([cb : Nat, reply : Reply \cup {NullReply}])
                 /\ replies' \in Seq(Nat)
                 /\ invalid' \in Seq(Nat)
                 /\ subs' \in [Topics -> Nat]
                 /\ cb' \in Nat
                 /\ err' \in Errors
                 /\ acErr' \in Errors
    BY <1>1, <1>4, <2>1, ServerFrame DEF ProcessReply, TypeOK, ControlOK, InCallback, PCs
  <2> HIDE DEF reply
  <2>3. CASE ReplyToPending(reply)
    <3>1. Head(replies) \in Nat /\ Tail(replies) \in Seq(Nat)
      BY <1>1, <2>3, HeadTailType DEF ReplyToPending
    <3>2. RunCallback(flags, Head(replies), reply, "process")
      BY <2>3 DEF ReplyToPending
    <3> QED BY <1>1, <2>1, <2>3, <3>1, <3>2, RunCallbackType
               DEF ReplyToPending, TypeOK, ControlOK, PCs
  <2>4. CASE SpontaneousError(reply)
    <3>1. AsyncDisconnect(flags, "other", "idle") /\ "other" \in Errors
      BY <2>4 DEF SpontaneousError, Errors
    <3>2. /\ acErr' \in Errors
          /\ ret' = "idle"
          /\ flags' \subseteq Flags \ {"IN_CALLBACK"}
          /\ pc' \in {"teardown", "aborted"}
      BY <1>1, <3>1, DisconnectType
    <3> QED BY <2>4, <3>1, <3>2 DEF SpontaneousError, TypeOK, PCs, queues
  <2>5. CASE SpontaneousUnexpected(reply)
    <3>1. /\ pc' = "aborted"
          /\ UNCHANGED <<flags, err, acErr, ret, replies, invalid, subs, cb, back, ran>>
      BY <2>5 DEF SpontaneousUnexpected, queues
    <3> QED BY <1>1, <3>1 DEF TypeOK, PCs
  <2>6. CASE ReplyToSubscriber(reply)
    <3>1. subs \in [Topics -> Nat] /\ (reply.type \in PubSubTypes => reply.topic \in Topics)
      BY <2>1 DEF TypeOK, Reply
    <3>2. cb' \in Nat
      BY <1>1, <2>6, <3>1, HeadTailType DEF ReplyToSubscriber, SubscribeCallback
    <3>3. subs' \in [Topics -> Nat] /\ invalid' \in Seq(Nat)
      BY <1>1, <2>6, <3>1, HeadTailType DEF ReplyToSubscriber, Unregister
    <3>4. PICK f \in SUBSET (Flags \ {"IN_CALLBACK"}) : RunCallback(f, cb', reply, "process")
      BY <1>1, <2>6 DEF ReplyToSubscriber
    <3> QED BY <1>1, <2>1, <2>6, <3>2, <3>3, <3>4, RunCallbackType
               DEF ReplyToSubscriber, TypeOK, ControlOK, PCs
  <2>7. CASE ReplyToMonitor(reply)
    <3>1. RunCallback(flags, cb, reply, "process")
      BY <2>7 DEF ReplyToMonitor
    <3>2. UNCHANGED <<err, acErr, ret, replies, invalid, subs, cb>>
      BY <2>7 DEF ReplyToMonitor, queues
    <3>3. /\ flags' \subseteq Flags
          /\ pc' \in {"callback", "process", "teardown"}
          /\ pc' = "callback" <=> "IN_CALLBACK" \in flags'
          /\ back' \in {"none", "process", "teardown"}
          /\ pc' = "callback" => back' # "none"
          /\ ran' \in Seq([cb : Nat, reply : Reply \cup {NullReply}])
      BY <1>1, <2>1, <3>1, RunCallbackType
    <3> QED BY <1>1, <3>2, <3>3 DEF TypeOK, PCs
  <2> QED BY <1>4, <2>3, <2>4, <2>5, <2>6, <2>7 DEF ProcessReply, reply
<1> QED BY <1>2, <1>3, <1>4

LEMMA TypeTeardown ==
    ASSUME TypeInv,
           TeardownReplies \/ TeardownInvalid \/ TeardownSubs \/ TeardownEnds
    PROVE  TypeInv'
<1> USE DEF TypeInv
<1>1. /\ flags \in SUBSET (Flags \ {"IN_CALLBACK"})
      /\ ctx # "freed"
      /\ replies \in Seq(Nat)
      /\ invalid \in Seq(Nat)
      /\ subs \in [Topics -> Nat]
  BY NotInCallback
     DEF TeardownReplies, TeardownInvalid, TeardownSubs, TeardownEnds, TypeOK, ControlOK
<1>2. NullReply \in Reply \cup {NullReply}
  OBVIOUS
<1> DEFINE Outcome == /\ flags' \subseteq Flags
                      /\ pc' \in {"callback", "process", "teardown"}
                      /\ pc' = "callback" <=> "IN_CALLBACK" \in flags'
                      /\ back' \in {"none", "process", "teardown"}
                      /\ pc' = "callback" => back' # "none"
                      /\ ran' \in Seq([cb : Nat, reply : Reply \cup {NullReply}])
<1>3. CASE TeardownReplies
  <2>1. Head(replies) \in Nat /\ Tail(replies) \in Seq(Nat)
    BY <1>1, <1>3, HeadTailType DEF TeardownReplies
  <2>2. RunCallback(flags, Head(replies), NullReply, "teardown")
    BY <1>3 DEF TeardownReplies
  <2>3. Outcome
    BY <1>1, <1>2, <2>1, <2>2, RunCallbackType
  <2> QED BY SMTT(30), <1>1, <1>3, <2>1, <2>3, ServerFrame
             DEF TeardownReplies, TypeOK, ControlOK, InCallback, PCs, buffers
<1>4. CASE TeardownInvalid
  <2>1. Head(invalid) \in Nat /\ Tail(invalid) \in Seq(Nat)
    BY <1>1, <1>4, HeadTailType DEF TeardownInvalid
  <2>2. RunCallback(flags, Head(invalid), NullReply, "teardown")
    BY <1>4 DEF TeardownInvalid
  <2>3. Outcome
    BY <1>1, <1>2, <2>1, <2>2, RunCallbackType
  <2> QED BY SMTT(30), <1>1, <1>4, <2>1, <2>3, ServerFrame
             DEF TeardownInvalid, TypeOK, ControlOK, InCallback, PCs, buffers
<1>5. CASE TeardownSubs
  <2>1. PICK t \in Topics : /\ subs' = [subs EXCEPT ![t] = 0]
                            /\ RunCallback(flags, subs[t], NullReply, "teardown")
    BY <1>5 DEF TeardownSubs
  <2>2. subs[t] \in Nat /\ subs' \in [Topics -> Nat]
    BY <1>1, <2>1
  <2>3. Outcome
    BY <1>1, <1>2, <2>1, <2>2, RunCallbackType
  <2> QED BY <1>1, <1>5, <2>2, <2>3, ServerFrame
             DEF TeardownSubs, TypeOK, ControlOK, InCallback, PCs, buffers
<1>6. CASE TeardownEnds
  <2>1. CASE "disconnect" \in hooks /\ "CONNECTED" \in flags
    <3>1. /\ pc' = "onDisconnect"
          /\ status' \in {"none", "ok", "error"}
          /\ UNCHANGED <<ctx, buffers>>
      BY <1>6, <2>1 DEF TeardownEnds
    <3> QED BY <1>1, <1>6, <3>1, ServerFrame
               DEF TeardownEnds, TypeOK, ControlOK, InCallback, PCs, buffers, queues
  <2>2. CASE ~("disconnect" \in hooks /\ "CONNECTED" \in flags)
    <3>1. FreeContext /\ status' = status
      BY <1>6, <2>2 DEF TeardownEnds
    <3>2. UNCHANGED <<serverVars, flags, err, acErr, hooks, queues, handler, cb, back, ret,
                      issued, ran>> /\ listening' = {}
      BY <1>6 DEF TeardownEnds
    <3>3. ControlOK'
      BY <1>1, <3>1, <3>2 DEF FreeContext, ControlOK, InCallback
    <3> QED BY <3>1, <3>2, <3>3, ServerFrame DEF FreeContext, TypeOK, PCs, queues
  <2> QED BY <2>1, <2>2
<1> QED BY <1>3, <1>4, <1>5, <1>6

LEMMA TypeStutter == TypeInv /\ UNCHANGED vars => TypeInv'
  BY DEF TypeInv, TypeOK, ServerTypeOK, ControlOK, InCallback, vars, serverVars, clientVars,
         controlVars, historyVars, buffers, queues

LEMMA TypeNext == TypeInv /\ [Next]_vars => TypeInv'
  BY TypeApp, TypeEnvironment, TypeEvents, TypeBuffers, TypeReturns, TypeProcess,
     TypeTeardown, TypeStutter
     DEF Next, LoopNext

\* In every behaviour of the client and the server, for every set of topics,
\* calls and bounds, every variable keeps its C type, a reply callback runs
\* exactly while REDIS_IN_CALLBACK is set, and a freed context is left only to
\* the event loop or to the connect callback that freed it.
THEOREM TypeCorrect == Spec => [](TypeOK /\ ControlOK)
<1>1. Init => TypeInv
  BY TypeInit
<1>2. TypeInv /\ [Next]_vars => TypeInv'
  BY TypeNext
<1>3. TypeInv => TypeOK /\ ControlOK
  BY DEF TypeInv
<1> QED BY <1>1, <1>2, <1>3, PTL DEF Spec

-----------------------------------------------------------------------------
(* The context is never used after it was freed. *)

\* __redisAsyncFree always returns to the event loop.
ReturnsToLoop ==
    /\ ret = "idle"
    /\ ctx = "freed" => pc = "idle"
    /\ pc # "undefined"

\* If the connect callback calls neither redisAsyncFree nor
\* redisAsyncDisconnect, then whatever the other callbacks call, and whenever
\* the server closes or sends an error, no handler goes on with a context that
\* was freed under it: REDIS_IN_CALLBACK defers both calls in every reply
\* callback, those of __redisAsyncFree included.
THEOREM UseAfterFreeSafety ==
    ASSUME ConnectCalls \cap {"disconnect", "free"} = {}
    PROVE  Spec => []NoUseAfterFree
<1>1. Init => ReturnsToLoop
  BY DEF Init, ReturnsToLoop
<1>2. TypeInv /\ ReturnsToLoop /\ [Next]_vars => ReturnsToLoop'
  <2> SUFFICES ASSUME TypeInv, ReturnsToLoop, [Next]_vars PROVE ReturnsToLoop'
    OBVIOUS
  <2> USE DEF ReturnsToLoop
  <2>1. CASE SetConnectCallback \/ SetDisconnectCallback \/ Commands
    <3>1. UNCHANGED <<ctx, controlVars>>
      BY <2>1 DEF SetConnectCallback, SetDisconnectCallback, Commands, AsyncCommand
    <3> QED BY <3>1 DEF controlVars
  <2>2. CASE Disconnect
    <3>1. ~InCallback => pc = "idle"
      BY <2>2 DEF Disconnect, InApp, TypeInv, ControlOK
    <3> QED BY <2>2, <3>1 DEF Disconnect, AsyncDisconnect, InApp
  <2>3. CASE Free
    <3>1. ~InCallback => pc = "idle"
      BY <2>3 DEF Free, InApp, TypeInv, ControlOK
    <3> QED BY <2>3, <3>1 DEF Free, InApp
  <2>4. CASE ReadEvent \/ WriteEvent
    <3>1. PICK h \in {"read", "write"} : Handle(h)
      BY <2>4 DEF ReadEvent, WriteEvent
    <3>2. ctx' = "live"
      BY <2>4, <3>1 DEF ReadEvent, WriteEvent, Handle
    <3>3. ret' = "idle" /\ pc' # "undefined"
      BY <3>1 DEF Handle, HandleConnect, AsyncDisconnect
    <3> QED BY <3>2, <3>3
  <2>5. CASE ConnectCallbackReturns
    BY <2>5 DEF ConnectCallbackReturns, AsyncDisconnect, TypeInv, TypeOK
  <2>6. CASE \E n \in 0 .. Len(sock) : BufferRead(n)
    BY <2>6 DEF BufferRead
  <2>7. CASE \E n \in 0 .. Len(obuf) : BufferWrite(n)
    BY <2>7 DEF BufferWrite
  <2>8. CASE BufferFails
    BY <2>8 DEF BufferFails, AsyncDisconnect
  <2>9. CASE NoMoreReplies
    BY <2>9 DEF NoMoreReplies, AsyncDisconnect
  <2>10. CASE ProtocolError
    BY <2>10 DEF ProtocolError, AsyncDisconnect
  <2>11. CASE ProcessReply
    BY <2>11 DEF ProcessReply, ReplyToPending, SpontaneousError, SpontaneousUnexpected,
                 ReplyToSubscriber, ReplyToMonitor, RunCallback, AsyncDisconnect
  <2>12. CASE CallbackReturns
    BY <2>12 DEF CallbackReturns, TypeInv, TypeOK
  <2>13. CASE TeardownReplies \/ TeardownInvalid \/ TeardownSubs
    BY <2>13 DEF TeardownReplies, TeardownInvalid, TeardownSubs, RunCallback
  <2>14. CASE TeardownEnds \/ DisconnectCallbackReturns
    BY <2>14 DEF TeardownEnds, DisconnectCallbackReturns, FreeContext
  <2>15. CASE Environment
    BY <2>15 DEF Environment, clientVars, controlVars
  <2>16. CASE UNCHANGED vars
    BY <2>16 DEF vars, clientVars, controlVars
  <2> QED BY <2>1, <2>2, <2>3, <2>4, <2>5, <2>6, <2>7, <2>8, <2>9, <2>10, <2>11, <2>12,
             <2>13, <2>14, <2>15, <2>16 DEF Next, AppNext, LoopNext
<1>3. ReturnsToLoop => NoUseAfterFree
  BY DEF ReturnsToLoop, NoUseAfterFree
<1> QED BY <1>1, <1>2, <1>3, TypeInit, TypeNext, PTL DEF Spec

-----------------------------------------------------------------------------
(* No wakeup is lost. *)

\* The thread is in redisProcessCallbacks, or in a callback it runs.
Processing == pc = "process" \/ (pc = "callback" /\ back = "process")

\* WakeupArmed at every point from which the thread goes back to the event loop
\* without having listened again.
WakeupInv ==
    /\ peer = "connecting" => sock = <<>>
    /\ ctx = "live" /\ obuf # <<>>
         /\ \/ pc \in {"idle", "read"}
            \/ Processing
            \/ pc = "onConnect" /\ handler = "read"
       => "write" \in listening
    /\ ctx = "live" /\ replies # <<>> /\ obuf = <<>> /\ pc = "idle" => "read" \in listening
    /\ Processing => "read" \in listening

LEMMA WakeupApp == TypeInv /\ WakeupInv /\ AppNext => WakeupInv'
<1> SUFFICES ASSUME TypeInv, WakeupInv, AppNext PROVE WakeupInv'
  OBVIOUS
<1> USE DEF WakeupInv, Processing, serverVars, controlVars, buffers, queues
<1>1. CASE SetConnectCallback
  BY <1>1 DEF SetConnectCallback
<1>2. CASE SetDisconnectCallback
  BY <1>2 DEF SetDisconnectCallback
<1>3. CASE Commands
  <2>1. PICK kind \in Kinds, topics \in Seq(Topics) : AsyncCommand(kind, topics)
    BY <1>3, CommandArguments
  <2> DEFINE c == [id |-> Len(issued) + 1, kind |-> kind, topics |-> topics]
  <2>2. /\ UNCHANGED <<serverVars, ctx, controlVars>>
        /\ listening' = listening \cup {"write"}
        /\ obuf' = Append(obuf, c)
    BY <2>1 DEF AsyncCommand
  <2>3. obuf' # <<>>
    <3>1. obuf \in Seq(Command) /\ c \in Command
      BY CommandType DEF TypeInv, TypeOK
    <3> HIDE DEF c
    <3> QED BY ONLY <2>2, <3>1
  <2> QED BY <2>2, <2>3
<1>4. CASE Disconnect
  BY <1>4 DEF Disconnect, AsyncDisconnect
<1>5. CASE Free
  BY <1>5 DEF Free
<1> QED BY <1>1, <1>2, <1>3, <1>4, <1>5 DEF AppNext

LEMMA WakeupEvents ==
    ASSUME ~(OneShot /\ SpuriousEvents), TypeInv, WakeupInv, ReadEvent \/ WriteEvent
    PROVE  WakeupInv'
<1> USE DEF WakeupInv, Processing, serverVars, buffers, queues
<1>1. CASE ReadEvent
  <2>1. /\ Handle("read")
        /\ pc = "idle"
        /\ listening' = IF OneShot THEN listening \ {"read"} ELSE listening
    BY <1>1 DEF ReadEvent
  <2>2. pc' = "idle" => ~OneShot
    BY <1>1, <2>1 DEF ReadEvent, Handle, HandleConnect, AsyncDisconnect
  <2>3. pc' \in {"idle", "read", "onConnect", "onConnectErr", "teardown", "aborted"}
    BY <2>1 DEF Handle, HandleConnect, AsyncDisconnect
  <2> QED BY <2>1, <2>2, <2>3 DEF Handle
<1>2. CASE WriteEvent
  <2>1. /\ Handle("write")
        /\ pc = "idle"
        /\ listening' = IF OneShot THEN listening \ {"write"} ELSE listening
    BY <1>2 DEF WriteEvent
  <2>2. pc' = "idle" => ~OneShot
    BY <1>2, <2>1 DEF WriteEvent, Handle, HandleConnect, AsyncDisconnect
  <2>3. pc' \in {"idle", "write", "onConnect", "onConnectErr", "teardown", "aborted"}
    BY <2>1 DEF Handle, HandleConnect, AsyncDisconnect
  <2> QED BY <2>1, <2>2, <2>3 DEF Handle
<1> QED BY <1>1, <1>2

LEMMA WakeupBuffers ==
    ASSUME TypeInv, WakeupInv,
           \/ \E n \in 0 .. Len(sock) : BufferRead(n)
           \/ BufferFails
           \/ \E n \in 0 .. Len(obuf) : BufferWrite(n)
    PROVE  WakeupInv'
<1> USE DEF WakeupInv, Processing, serverVars, buffers, queues
<1>1. ASSUME NEW n \in 0 .. Len(sock), BufferRead(n) PROVE WakeupInv'
  <2>1. peer = "connecting" => sock' = <<>>
    BY <1>1 DEF BufferRead
  <2> QED BY <1>1, <2>1 DEF BufferRead
<1>2. CASE BufferFails
  <2>1. pc' \in {"teardown", "aborted"}
    BY <1>2 DEF BufferFails, AsyncDisconnect
  <2> QED BY <1>2, <2>1 DEF BufferFails
<1>3. ASSUME NEW n \in 0 .. Len(obuf), BufferWrite(n) PROVE WakeupInv'
  BY <1>3 DEF BufferWrite, WriteInterest
<1> QED BY <1>1, <1>2, <1>3

LEMMA WakeupProcess ==
    ASSUME TypeInv, WakeupInv, NoMoreReplies \/ ProtocolError \/ ProcessReply
    PROVE  WakeupInv'
<1> USE DEF WakeupInv, Processing, serverVars, buffers, queues
<1>1. CASE NoMoreReplies
  BY <1>1 DEF NoMoreReplies, AsyncDisconnect
<1>2. CASE ProtocolError
  BY <1>2 DEF ProtocolError, AsyncDisconnect
<1>3. CASE ProcessReply
  <2>1. /\ pc = "process"
        /\ UNCHANGED <<serverVars, obuf, listening, ctx>>
    BY <1>3 DEF ProcessReply
  <2>2. pc' \in {"process", "callback", "teardown", "aborted"}
    BY <1>3 DEF ProcessReply, ReplyToPending, SpontaneousError, SpontaneousUnexpected,
                ReplyToSubscriber, ReplyToMonitor, RunCallback, AsyncDisconnect
  <2> QED BY <2>1, <2>2
<1> QED BY <1>1, <1>2, <1>3

LEMMA WakeupReturns ==
    ASSUME TypeInv, WakeupInv,
           \/ ConnectCallbackReturns \/ CallbackReturns \/ DisconnectCallbackReturns
           \/ TeardownReplies \/ TeardownInvalid \/ TeardownSubs \/ TeardownEnds
    PROVE  WakeupInv'
<1> USE DEF WakeupInv, Processing, serverVars, buffers, queues
<1>1. CASE ConnectCallbackReturns
  <2>1. /\ pc \in {"onConnect", "onConnectErr"}
        /\ UNCHANGED <<serverVars, buffers, queues, listening, ctx, handler, back>>
    BY <1>1 DEF ConnectCallbackReturns
  <2>2. \/ pc' \in {"undefined", "teardown", "aborted", "write"}
        \/ pc = "onConnect" /\ pc' = "read" /\ handler = "read"
    BY <1>1 DEF ConnectCallbackReturns, AsyncDisconnect, TypeInv, TypeOK, ControlOK
  <2> QED BY <2>1, <2>2
<1>2. CASE CallbackReturns
  <2>1. /\ pc = "callback"
        /\ UNCHANGED <<serverVars, buffers, queues, listening, ctx, back>>
    BY <1>2 DEF CallbackReturns
  <2>2. pc' \in {"undefined", "teardown"} \/ (pc' = "process" /\ back = "process")
    BY <1>2 DEF CallbackReturns, TypeInv, TypeOK, ControlOK
  <2> QED BY <2>1, <2>2
<1>3. CASE DisconnectCallbackReturns
  BY <1>3 DEF DisconnectCallbackReturns, FreeContext, TypeInv, ControlOK
<1>4. CASE TeardownReplies \/ TeardownInvalid \/ TeardownSubs
  <2>1. /\ UNCHANGED <<serverVars, obuf, listening, ctx>>
        /\ pc' = "teardown" \/ (pc' = "callback" /\ back' = "teardown")
    BY <1>4 DEF TeardownReplies, TeardownInvalid, TeardownSubs, RunCallback
  <2> QED BY <2>1
<1>5. CASE TeardownEnds
  <2>1. UNCHANGED serverVars /\ (pc' = "onDisconnect" \/ (ctx' = "freed" /\ pc' = ret))
    BY <1>5 DEF TeardownEnds, FreeContext
  <2> QED BY <2>1 DEF TypeInv, ControlOK
<1> QED BY <1>1, <1>2, <1>3, <1>4, <1>5

LEMMA WakeupEnvironment == WakeupInv /\ Environment => WakeupInv'
<1> SUFFICES ASSUME WakeupInv, Environment PROVE WakeupInv'
  OBVIOUS
<1>1. peer' = "connecting" => sock' = <<>>
  BY DEF Environment, ServerNext, Accept, Refuse, Reject, Serve, Push, Corrupt, Close,
         WakeupInv
<1>2. UNCHANGED <<obuf, replies, listening, ctx, pc, back, handler>>
  BY DEF Environment, clientVars, controlVars, buffers, queues
<1> QED BY <1>1, <1>2 DEF WakeupInv, Processing

\* Unless events fire once only and before connect(2) has completed, no wakeup
\* is lost: whenever the thread is in the event loop, output is waiting for
\* writability, and a callback whose command was sent for readability.
THEOREM NoLostWakeup ==
    ASSUME ~(OneShot /\ SpuriousEvents)
    PROVE  Spec => []WakeupArmed
<1>1. Init => WakeupInv
  BY DEF Init, ServerInit, WakeupInv, Processing
<1>2. TypeInv /\ WakeupInv /\ [Next]_vars => WakeupInv'
  <2>1. TypeInv /\ WakeupInv /\ UNCHANGED vars => WakeupInv'
    BY DEF WakeupInv, Processing, vars, serverVars, clientVars, controlVars, buffers, queues
  <2> QED BY <2>1, WakeupApp, WakeupEvents, WakeupBuffers, WakeupProcess, WakeupReturns,
             WakeupEnvironment DEF Next, LoopNext
<1>3. WakeupInv => WakeupArmed
  BY DEF WakeupInv, WakeupArmed
<1> QED BY <1>1, <1>2, <1>3, TypeInit, TypeNext, PTL DEF Spec

-----------------------------------------------------------------------------
(* Regular commands: callbacks run in order, and NULL replies are accounted   *)
(* for.  Both need that a connection that never subscribes or monitors only   *)
(* uses ac->replies, and that this queue is ordered and comes after what ran. *)

RegularOnly == (AppCalls \cup ConnectCalls) \cap {"subscribe", "unsubscribe", "monitor"} = {}

QueueOrdered ==
    /\ \A i \in 1 .. Len(replies) : replies[i] <= Len(issued)
    /\ \A i, j \in 1 .. Len(replies) : i < j => replies[i] < replies[j]
    /\ \A i \in 1 .. Len(ran) :
          /\ ran[i].cb <= Len(issued)
          /\ \A j \in 1 .. Len(replies) : ran[i].cb < replies[j]

OrderInv ==
    /\ flags \cap {"SUBSCRIBED", "MONITORING"} = {}
    /\ invalid = <<>>
    /\ \A t \in Topics : subs[t] = 0
    /\ QueueOrdered
    /\ InOrder

LEMMA CallbackField ==
    ASSUME NEW R, NEW r \in [cb : Nat, reply : R]
    PROVE  r.cb \in Nat
BY SMT

LEMMA RanType ==
    ASSUME TypeInv
    PROVE  Len(ran) \in Nat /\ Len(issued) \in Nat /\ \A i \in 1 .. Len(ran) : ran[i].cb \in Nat
<1>1. ran \in Seq([cb : Nat, reply : Reply \cup {NullReply}]) /\ issued \in Seq(Command)
  BY DEF TypeInv, TypeOK
<1>2. ASSUME NEW i \in 1 .. Len(ran) PROVE ran[i].cb \in Nat
  <2>1. ran[i] \in [cb : Nat, reply : Reply \cup {NullReply}]
    BY <1>1, ElementType
  <2> QED BY <2>1, CallbackField
<1> QED BY <1>1, <1>2

\* Taking the first callback off the queue, and running it or not, keeps order.
LEMMA ShiftKeepsOrder ==
    ASSUME TypeInv, QueueOrdered, InOrder, replies # <<>>, replies' = Tail(replies),
           UNCHANGED issued, NEW reply,
           ran' = ran \/ ran' = Append(ran, [cb |-> Head(replies), reply |-> reply])
    PROVE  QueueOrdered' /\ InOrder'
<1>1. replies \in Seq(Nat) /\ ran \in Seq([cb : Nat, reply : Reply \cup {NullReply}])
  BY DEF TypeInv, TypeOK
<1>2. /\ Len(replies') = Len(replies) - 1
      /\ \A i \in 1 .. Len(replies') : replies'[i] = replies[i + 1]
      /\ Head(replies) = replies[1]
      /\ Len(replies) \in Nat \ {0}
  BY <1>1
<1>3. CASE ran' = ran
  BY <1>1, <1>2, <1>3 DEF QueueOrdered, InOrder
<1>4. CASE ran' = Append(ran, [cb |-> Head(replies), reply |-> reply])
  <2>1. /\ Len(ran') = Len(ran) + 1
        /\ \A i \in 1 .. Len(ran) : ran'[i] = ran[i]
        /\ ran'[Len(ran) + 1].cb = replies[1]
    BY <1>1, <1>2, <1>4
  <2>2. /\ \A i \in 1 .. Len(replies) : replies[i] \in Nat
        /\ \A i \in 1 .. Len(ran') : i \in 1 .. Len(ran) \/ i = Len(ran) + 1
    BY <1>1, <2>1, RanType
  <2>3. QueueOrdered'
    <3>1. \A j \in 1 .. Len(replies') : replies[1] < replies'[j]
      BY <1>1, <1>2 DEF QueueOrdered
    <3>2. \A i \in 1 .. Len(ran) : \A j \in 1 .. Len(replies') : ran[i].cb < replies'[j]
      BY <1>2 DEF QueueOrdered
    <3>3. /\ \A i \in 1 .. Len(replies') : replies'[i] <= Len(issued)
          /\ \A i, j \in 1 .. Len(replies') : i < j => replies'[i] < replies'[j]
          /\ replies[1] <= Len(issued)
      BY <1>2 DEF QueueOrdered
    <3>4. \A i \in 1 .. Len(ran) : ran[i].cb <= Len(issued)
      BY DEF QueueOrdered
    <3> QED BY <2>1, <2>2, <3>1, <3>2, <3>3, <3>4 DEF QueueOrdered
  <2>4. InOrder'
    <3>1. \A i \in 1 .. Len(ran) : ran[i].cb < replies[1]
      BY <1>2 DEF QueueOrdered
    <3>2. \A i, j \in 1 .. Len(ran) : i < j => ran[i].cb < ran[j].cb
      BY DEF InOrder
    <3> QED BY <2>1, <2>2, <3>1, <3>2, RanType DEF InOrder
  <2> QED BY <2>3, <2>4
<1> QED BY <1>3, <1>4

\* What OrderInv speaks about.
LEMMA OrderFrame ==
    ASSUME OrderInv, UNCHANGED <<replies, invalid, subs, issued, ran>>,
           flags' \cap {"SUBSCRIBED", "MONITORING"} = {}
    PROVE  OrderInv'
  BY DEF OrderInv, QueueOrdered, InOrder

LEMMA OrderNext ==
    ASSUME RegularOnly, TypeInv, OrderInv, [Next]_vars
    PROVE  OrderInv'
<1>1. CASE Commands
  <2>1. PICK kind \in Kinds, topics \in Seq(Topics) : AsyncCommand(kind, topics)
    BY <1>1, CommandArguments
  <2>2. kind \in {"command", "silent"}
    BY <2>1 DEF AsyncCommand, InApp, RegularOnly, Kinds
  <2> DEFINE c == [id |-> Len(issued) + 1, kind |-> kind, topics |-> topics]
  <2>3. /\ replies' = Append(replies, Len(issued) + 1)
        /\ issued' = Append(issued, c)
        /\ UNCHANGED <<flags, subs, invalid, ran>>
    BY <2>1, <2>2 DEF AsyncCommand, RegisterCallback, PushCallback, OrderInv
  <2>4. issued \in Seq(Command) /\ c \in Command /\ replies \in Seq(Nat)
    BY CommandType DEF TypeInv, TypeOK
  <2> HIDE DEF c
  <2>5. /\ Len(issued') = Len(issued) + 1
        /\ Len(replies') = Len(replies) + 1
        /\ \A i \in 1 .. Len(replies) : replies'[i] = replies[i]
        /\ replies'[Len(replies) + 1] = Len(issued) + 1
        /\ Len(issued) \in Nat
        /\ Len(replies) \in Nat
    BY <2>3, <2>4
  <2>6. \A i \in 1 .. Len(ran) : ran[i].cb \in Nat
    BY RanType
  <2>7. /\ \A i \in 1 .. Len(replies) : replies[i] \in Nat /\ replies[i] <= Len(issued)
        /\ \A i, j \in 1 .. Len(replies) : i < j => replies[i] < replies[j]
    BY <2>4 DEF OrderInv, QueueOrdered
  <2>8. \A i \in 1 .. Len(replies') :
           i \in 1 .. Len(replies) \/ (i = Len(replies) + 1 /\ replies'[i] = Len(issued) + 1)
    BY <2>5
  <2>9. \A i \in 1 .. Len(replies') : replies'[i] <= Len(issued')
    BY <2>5, <2>7, <2>8
  <2>10. \A i, j \in 1 .. Len(replies') : i < j => replies'[i] < replies'[j]
    BY <2>5, <2>7, <2>8
  <2>11. \A i \in 1 .. Len(ran) :
            /\ ran[i].cb <= Len(issued')
            /\ \A j \in 1 .. Len(replies') : ran[i].cb < replies'[j]
    BY <2>5, <2>6, <2>8 DEF OrderInv, QueueOrdered
  <2>12. QueueOrdered'
    BY <2>3, <2>9, <2>10, <2>11 DEF QueueOrdered
  <2> QED BY <2>3, <2>12 DEF OrderInv, InOrder
<1>2. CASE SetConnectCallback \/ SetDisconnectCallback
  BY <1>2, OrderFrame
     DEF SetConnectCallback, SetDisconnectCallback, OrderInv, queues, historyVars
<1>3. CASE Disconnect
  BY <1>3, OrderFrame DEF Disconnect, AsyncDisconnect, OrderInv, queues, historyVars
<1>4. CASE Free
  BY <1>4, OrderFrame DEF Free, OrderInv, queues, historyVars
<1>5. CASE ReadEvent \/ WriteEvent
  <2>1. PICK h \in {"read", "write"} : Handle(h)
    BY <1>5 DEF ReadEvent, WriteEvent
  <2>2. flags' \cap {"SUBSCRIBED", "MONITORING"} = {}
    BY <2>1 DEF Handle, HandleConnect, AsyncDisconnect, OrderInv
  <2> QED BY <2>1, <2>2, OrderFrame DEF Handle, queues, historyVars
<1>6. CASE ConnectCallbackReturns
  BY <1>6, OrderFrame DEF ConnectCallbackReturns, AsyncDisconnect, OrderInv, queues, historyVars
<1>7. CASE \E n \in 0 .. Len(sock) : BufferRead(n)
  BY <1>7, OrderFrame DEF BufferRead, OrderInv, queues, historyVars
<1>8. CASE \E n \in 0 .. Len(obuf) : BufferWrite(n)
  BY <1>8, OrderFrame DEF BufferWrite, OrderInv, queues, historyVars
<1>9. CASE BufferFails
  BY <1>9, OrderFrame DEF BufferFails, AsyncDisconnect, OrderInv, queues, historyVars
<1>10. CASE NoMoreReplies
  BY <1>10, OrderFrame DEF NoMoreReplies, AsyncDisconnect, OrderInv, historyVars
<1>11. CASE ProtocolError
  BY <1>11, OrderFrame DEF ProtocolError, AsyncDisconnect, OrderInv, queues, historyVars
<1>12. CASE ProcessReply
  <2>1. CASE ReplyToPending(Head(rbuf))
    <3>1. /\ replies # <<>> /\ replies' = Tail(replies)
          /\ UNCHANGED <<issued, invalid, subs>>
          /\ flags' \cap {"SUBSCRIBED", "MONITORING"} = {}
          /\ \/ ran' = ran
             \/ ran' = Append(ran, [cb |-> Head(replies), reply |-> Head(rbuf)])
      BY <1>12, <2>1 DEF ProcessReply, ReplyToPending, RunCallback, OrderInv
    <3> QED BY <3>1, ShiftKeepsOrder DEF OrderInv
  <2>2. CASE SpontaneousError(Head(rbuf))
    BY <1>12, <2>2, OrderFrame DEF ProcessReply, SpontaneousError, AsyncDisconnect, OrderInv, queues
  <2>3. CASE SpontaneousUnexpected(Head(rbuf))
    BY <1>12, <2>3, OrderFrame DEF ProcessReply, SpontaneousUnexpected, OrderInv, queues
  <2>4. ~ReplyToSubscriber(Head(rbuf)) /\ ~ReplyToMonitor(Head(rbuf))
    BY DEF ReplyToSubscriber, ReplyToMonitor, OrderInv
  <2> QED BY <1>12, <2>1, <2>2, <2>3, <2>4 DEF ProcessReply
<1>13. CASE CallbackReturns
  BY <1>13, OrderFrame DEF CallbackReturns, OrderInv, queues, historyVars
<1>14. CASE TeardownReplies
  <2>1. /\ replies # <<>> /\ replies' = Tail(replies)
        /\ UNCHANGED <<issued, invalid, subs>>
        /\ flags' \cap {"SUBSCRIBED", "MONITORING"} = {}
        /\ \/ ran' = ran
           \/ ran' = Append(ran, [cb |-> Head(replies), reply |-> NullReply])
    BY <1>14 DEF TeardownReplies, RunCallback, OrderInv
  <2> QED BY <2>1, ShiftKeepsOrder DEF OrderInv
<1>15. ~TeardownInvalid /\ ~TeardownSubs
  BY DEF TeardownInvalid, TeardownSubs, OrderInv
<1>16. CASE TeardownEnds
  BY <1>16, OrderFrame DEF TeardownEnds, OrderInv, queues
<1>17. CASE DisconnectCallbackReturns
  BY <1>17, OrderFrame DEF DisconnectCallbackReturns, OrderInv, queues, historyVars
<1>18. CASE Environment
  BY <1>18, OrderFrame DEF Environment, OrderInv, clientVars, queues, historyVars
<1>19. CASE UNCHANGED vars
  BY <1>19, OrderFrame DEF vars, OrderInv, clientVars, queues, historyVars
<1> QED BY <1>1, <1>2, <1>3, <1>4, <1>5, <1>6, <1>7, <1>8, <1>9, <1>10, <1>11, <1>12,
           <1>13, <1>14, <1>15, <1>16, <1>17, <1>18, <1>19 DEF Next, AppNext, LoopNext

LEMMA OrderInit == Init => OrderInv
  BY DEF Init, OrderInv, QueueOrdered, InOrder

\* For an application that issues regular commands only, whatever calls it
\* makes from its callbacks and however the connection ends, callbacks run in
\* the order of the commands and each at most once.
THEOREM CallbackOrder ==
    ASSUME RegularOnly
    PROVE  Spec => []InOrder
<1>1. TypeInv /\ OrderInv /\ [Next]_vars => OrderInv'
  BY OrderNext
<1>2. OrderInv => InOrder
  BY DEF OrderInv
<1> QED BY <1>1, <1>2, OrderInit, TypeInit, TypeNext, PTL DEF Spec

-----------------------------------------------------------------------------
(***************************************************************************)
(* An application that issues regular commands only is given a queue: the  *)
(* refinement of ReplyQueue by RedisAsync, and what a clean disconnect and *)
(* the asserts of src/async.c are worth then, for every value of the       *)
(* constants.                                                              *)
(*                                                                         *)
(* The argument is one of counting.  The commands of ac->replies are the   *)
(* last ones that were issued, without gaps; so are those of c->obuf, and  *)
(* those on the way to the server come before them.  The replies on the    *)
(* way back are those to the first commands of ac->replies, in order, up   *)
(* to the first byte that is not RESP.  Only a server that turns the       *)
(* client away sends something else, before any command was answered.      *)
(***************************************************************************)

\* What the server has sent and redisProcessCallbacks has not seen.
Incoming == rbuf \o sock

\* The thread is in __redisAsyncFree or in a callback it runs, or it has left it.
Released ==
    \/ pc \in {"teardown", "onDisconnect"}
    \/ pc = "callback" /\ back = "teardown"
    \/ ctx = "freed"

\* The commands carry their numbers, and ac->replies holds the last ones.
Consecutive ==
    /\ \A i \in 1 .. Len(issued) : issued[i].id = i /\ issued[i].kind \in {"command", "silent"}
    /\ Len(replies) <= Len(issued)
    /\ \A i \in 1 .. Len(replies) : replies[i] = Len(issued) - Len(replies) + i

\* c->obuf holds the last commands, too, and the server those before them.
Outgoing ==
    /\ Len(obuf) <= Len(issued)
    /\ \A i \in 1 .. Len(obuf) :
          obuf[i].id = Len(issued) - Len(obuf) + i /\ obuf[i].kind \in {"command", "silent"}
    /\ peer # "up" => wire = <<>>
    /\ ~Released =>
          \A i \in 1 .. Len(wire) :
             /\ wire[i].id = Len(issued) - Len(obuf) - Len(wire) + i
             /\ wire[i].kind \in {"command", "silent"}
    /\ srvSubs = {}
    /\ srvMode = "normal"

\* The server has turned the client away, and no command has been answered.
TurnedAway ==
    /\ peer = "closed"
    /\ Len(Incoming) = 1
    /\ Incoming[1].type = "error"
    /\ Incoming[1].id = 0
    /\ Len(replies) = Len(issued)

AllData(k) == \A i \in 1 .. k : Incoming[i].type = "data"

\* The k-th reply on the way is the one to the k-th command of ac->replies; while
\* the connection is up the other commands of ac->replies are on the way there.
Aligned ==
    /\ \A k \in 1 .. Len(Incoming) : Incoming[k].type \in {"data", "bad"} \/ TurnedAway
    /\ \A k \in 1 .. Len(Incoming) :
          AllData(k) =>
             /\ k <= Len(replies)
             /\ Incoming[k].id = Len(issued) - Len(replies) + k
    /\ peer = "up" /\ AllData(Len(Incoming)) =>
          Len(replies) = Len(Incoming) + Len(wire) + Len(obuf)
    /\ peer = "connecting" =>
          /\ Len(Incoming) = 0
          /\ Len(replies) = Len(issued)
          /\ Len(obuf) = Len(issued)

\* Nothing is read or written before connect(2) has completed; a connect callback
\* that is told of an error finds one; __redisAsyncFree runs callbacks that can
\* issue no command.
Phases ==
    /\ peer = "connecting" =>
          /\ "CONNECTED" \notin flags
          /\ pc \in {"idle", "aborted"} \/ Released
    /\ pc = "onConnectErr" /\ ctx = "live" => err # "ok"
    /\ Released => flags \cap {"DISCONNECTING", "FREEING"} # {}
    /\ pc = "onDisconnect" \/ ctx = "freed" => replies = <<>>

\* What each callback was given.
Given(r) ==
    \/ r.reply = NullReply
    \/ r.reply.type = "data" /\ r.reply.id = r.cb
    \/ r.reply.type = "error" /\ r.reply.id = 0 /\ r.cb = 1

\* The commands that have left ac->replies had their callbacks run, with NULL
\* only by __redisAsyncFree.
Answered ==
    /\ \A i \in 1 .. Len(ran) : ran[i].cb \in 1 .. Len(issued) /\ Given(ran[i])
    /\ \A id \in 1 .. Len(issued) - Len(replies) :
          issued[id].kind = "command" => \E i \in 1 .. Len(ran) : ran[i].cb = id
    /\ (\E i \in 1 .. Len(ran) : ran[i].reply = NullReply) => Released

\* __redisAsyncFree runs no callback unless there was an error or a call of
\* redisAsyncFree, and the disconnect callback is told which.
CleanEnd ==
    /\ Released /\ "FREEING" \notin flags /\ acErr = "ok" =>
          /\ replies = <<>>
          /\ \A i \in 1 .. Len(ran) : ran[i].reply # NullReply
    /\ status = "ok" /\ "FREEING" \notin flags =>
          acErr = "ok" /\ (pc = "onDisconnect" \/ ctx = "freed")

QueueInv ==
    /\ OrderInv
    /\ Consecutive
    /\ Outgoing
    /\ ~Released => Aligned
    /\ Phases
    /\ Answered
    /\ CleanEnd

LEMMA QueueInit == Init => QueueInv
<1> SUFFICES ASSUME Init PROVE QueueInv
  OBVIOUS
<1>1. OrderInv
  BY OrderInit
<1>2. Len(issued) = 0 /\ Len(replies) = 0 /\ Len(obuf) = 0 /\ Len(wire) = 0 /\ Len(ran) = 0
  BY DEF Init, ServerInit
<1>3. Len(Incoming) = 0
  BY DEF Init, ServerInit, Incoming
<1>4. ~Released
  BY DEF Init, Released
<1>5. Consecutive /\ Outgoing /\ Phases
  BY <1>2, <1>4 DEF Init, ServerInit, Consecutive, Outgoing, Phases
<1>6. Aligned
  BY <1>2, <1>3 DEF Init, ServerInit, Aligned
<1>7. Answered /\ CleanEnd
  BY <1>2, <1>4 DEF Init, Answered, CleanEnd
<1> QED BY <1>1, <1>5, <1>6, <1>7 DEF QueueInv

-----------------------------------------------------------------------------
(* Steps that move no command and no reply. *)

\* The state the counting is about.
traffic == <<issued, replies, obuf, wire, peer, srvSubs, srvMode, rbuf, sock, ran>>

LEMMA QuietFrame ==
    ASSUME QueueInv, UNCHANGED traffic, OrderInv', Released => Released', Phases', CleanEnd'
    PROVE  QueueInv'
<1> USE DEF traffic
<1>1. Consecutive'
  BY DEF QueueInv, Consecutive
<1>2. Outgoing'
  BY DEF QueueInv, Outgoing
<1>3. (~Released => Aligned)'
  BY DEF QueueInv, Aligned, TurnedAway, AllData, Incoming
<1>4. Answered'
  BY DEF QueueInv, Answered, Given
<1> QED BY <1>1, <1>2, <1>3, <1>4 DEF QueueInv

\* __redisAsyncDisconnect, called where the thread is not in __redisAsyncFree.
LEMMA DisconnectQuiet ==
    ASSUME TypeInv, QueueInv, NEW f \in SUBSET Flags, NEW e \in Errors, NEW frame,
           AsyncDisconnect(f, e, frame), ~Released, flags \subseteq f,
           UNCHANGED <<traffic, ctx, status>>,
           e = "ok" => "DISCONNECTING" \in f,
           peer = "connecting" => "CONNECTED" \notin f
    PROVE  Phases' /\ CleanEnd'
<1>1. \A i \in 1 .. Len(ran) : ran[i].reply # NullReply
  BY DEF QueueInv, Answered
<1>2. /\ pc' = "teardown" \/ (pc' = "aborted" /\ e = "ok")
      /\ acErr' = e
      /\ e = "ok" /\ pc' = "teardown" => replies = <<>>
      /\ flags' \subseteq f \cup {"DISCONNECTING"}
      /\ f \subseteq flags'
      /\ "DISCONNECTING" \in flags'
  BY DEF AsyncDisconnect
<1>3. status # "ok" \/ "FREEING" \in flags
  BY DEF QueueInv, CleanEnd, Released
<1>4. Released' => pc' = "teardown"
  BY <1>2 DEF Released
<1>5. Phases'
  BY <1>2, <1>4 DEF traffic, Phases, Released
<1>6. CleanEnd'
  BY <1>1, <1>2, <1>3, <1>4 DEF traffic, CleanEnd
<1> QED BY <1>5, <1>6

\* The step is one of the event loop that moves nothing.
LEMMA QuietLoop ==
    ASSUME RegularOnly, TypeInv, QueueInv, [Next]_vars,
           \/ SetConnectCallback \/ SetDisconnectCallback \/ Disconnect \/ Free
           \/ ReadEvent \/ WriteEvent \/ ConnectCallbackReturns \/ BufferFails
           \/ NoMoreReplies \/ ProtocolError \/ CallbackReturns
           \/ UNCHANGED vars
    PROVE  QueueInv'
<1> USE DEF traffic, buffers, queues, serverVars, controlVars, historyVars
<1>1. OrderInv'
  BY OrderNext DEF QueueInv
<1>2. Phases /\ CleanEnd
  BY DEF QueueInv
<1>3. /\ flags \in SUBSET Flags
      /\ err \in Errors
      /\ "io" \in Errors /\ "eof" \in Errors /\ "protocol" \in Errors
  BY DEF TypeInv, TypeOK, Errors
<1>4. SUFFICES UNCHANGED traffic /\ (Released => Released') /\ Phases' /\ CleanEnd'
  BY <1>1, QuietFrame
<1>5. CASE SetConnectCallback \/ SetDisconnectCallback
  <2>1. UNCHANGED <<traffic, flags, err, acErr, ctx, controlVars, status>>
    BY <1>5 DEF SetConnectCallback, SetDisconnectCallback
  <2> QED BY <1>2, <2>1 DEF Phases, CleanEnd, Released
<1>6. CASE Disconnect
  <2>1. UNCHANGED <<traffic, ctx, back, err, status>> /\ ctx = "live"
    BY <1>6 DEF Disconnect, InApp
  <2>2. CASE ~InCallback /\ replies = <<>>
    <3>1. AsyncDisconnect(flags \cup {"DISCONNECTING"}, err, pc) /\ pc' = "teardown"
      BY <1>6, <2>2 DEF Disconnect, AsyncDisconnect
    <3>2. ~Released
      BY <1>6, <2>1, <2>2 DEF Disconnect, InApp, Released, TypeInv, ControlOK
    <3>3. flags \cup {"DISCONNECTING"} \in SUBSET Flags
      BY <1>3 DEF Flags
    <3>4. Phases' /\ CleanEnd'
      BY <1>2, <1>3, <2>1, <3>1, <3>2, <3>3, DisconnectQuiet DEF Phases
    <3> QED BY <2>1, <3>2, <3>4
  <2>3. CASE ~(~InCallback /\ replies = <<>>)
    <3>1. flags' = flags \cup {"DISCONNECTING"} /\ UNCHANGED <<acErr, pc>>
      BY <1>6, <2>3 DEF Disconnect
    <3> QED BY <1>2, <2>1, <3>1 DEF Phases, CleanEnd, Released
  <2> QED BY <2>2, <2>3
<1>7. CASE Free
  <2>1. /\ UNCHANGED <<traffic, ctx, back, err, acErr, status>>
        /\ flags' = flags \cup {"FREEING"}
        /\ pc' = pc \/ (pc' = "teardown" /\ pc \in {"idle", "onConnect", "onConnectErr"})
    BY <1>7 DEF Free, InApp, TypeInv, ControlOK
  <2> QED BY <1>2, <2>1 DEF Phases, CleanEnd, Released
<1>8. CASE ReadEvent \/ WriteEvent
  <2>1. PICK h \in {"read", "write"} : Handle(h) /\ pc = "idle" /\ ctx = "live"
    BY <1>8 DEF ReadEvent, WriteEvent
  <2>2. UNCHANGED <<traffic, ctx, status, back>> /\ ~Released
    BY <2>1 DEF Handle, Released
  <2>3. CASE AsyncDisconnect(flags, "io", "idle")
    BY <1>2, <1>3, <2>2, <2>3, DisconnectQuiet DEF Phases
  <2>4. CASE ~AsyncDisconnect(flags, "io", "idle")
    <3>1. /\ flags' = flags \/ (flags' = flags \cup {"CONNECTED"} /\ peer # "connecting")
          /\ acErr' = acErr
          /\ pc' \in {"idle", "onConnect", "onConnectErr", "read", "write"}
          /\ peer = "connecting" => pc' = "idle"
          /\ pc' = "onConnectErr" => err' = "io"
      BY <1>2, <2>1, <2>4 DEF Handle, HandleConnect, Phases
    <3> QED BY <1>2, <2>1, <2>2, <3>1 DEF Phases, CleanEnd, Released
  <2> QED BY <2>3, <2>4
<1>9. CASE ConnectCallbackReturns
  <2>1. UNCHANGED <<traffic, ctx, status, back, err>>
    BY <1>9 DEF ConnectCallbackReturns
  <2>2. CASE ctx = "freed"
    <3>1. pc' = "undefined" /\ UNCHANGED <<flags, acErr>>
      BY <1>9, <2>2 DEF ConnectCallbackReturns
    <3> QED BY <1>2, <2>1, <2>2, <3>1 DEF Phases, CleanEnd, Released
  <2>3. CASE ctx # "freed" /\ pc = "onConnect"
    <3>1. pc' \in {"read", "write"} /\ UNCHANGED <<flags, acErr>> /\ peer # "connecting"
      BY <1>2, <1>9, <2>3 DEF ConnectCallbackReturns, TypeInv, TypeOK, ControlOK, Phases, Released
    <3> QED BY <1>2, <2>1, <2>3, <3>1 DEF Phases, CleanEnd, Released
  <2>4. CASE ctx # "freed" /\ pc = "onConnectErr"
    <3>1. AsyncDisconnect(flags, err, "idle") /\ ~Released /\ err # "ok"
      BY <1>2, <1>9, <2>4 DEF ConnectCallbackReturns, Released, Phases, TypeInv, TypeOK
    <3> QED BY <1>2, <1>3, <2>1, <3>1, DisconnectQuiet DEF Phases
  <2> QED BY <1>9, <2>2, <2>3, <2>4 DEF ConnectCallbackReturns
<1>10. CASE BufferFails
  <2>1. /\ AsyncDisconnect(flags, err', "idle") /\ ~Released /\ err' \in Errors \ {"ok"}
        /\ UNCHANGED <<traffic, ctx, status>>
    BY <1>3, <1>10 DEF BufferFails, Released, Errors, TypeInv, ControlOK
  <2> QED BY <1>2, <1>3, <2>1, DisconnectQuiet DEF Phases
<1>11. CASE NoMoreReplies
  <2>1. ~Released /\ UNCHANGED <<ctx, status, back, err>>
    BY <1>11 DEF NoMoreReplies, Released, TypeInv, ControlOK
  <2>2. UNCHANGED traffic
    BY <1>11 DEF NoMoreReplies, QueueInv, OrderInv
  <2>3. CASE DisconnectDue
    <3>1. AsyncDisconnect(flags, err, "idle") /\ "DISCONNECTING" \in flags
      BY <1>11, <2>3 DEF NoMoreReplies, DisconnectDue
    <3> QED BY <1>2, <1>3, <2>1, <2>2, <3>1, DisconnectQuiet DEF Phases
  <2>4. CASE ~DisconnectDue
    <3>1. pc' = "idle" /\ UNCHANGED <<flags, acErr>>
      BY <1>11, <2>4 DEF NoMoreReplies
    <3> QED BY <1>2, <2>1, <2>2, <3>1 DEF Phases, CleanEnd, Released
  <2> QED BY <2>3, <2>4
<1>12. CASE ProtocolError
  <2>1. /\ AsyncDisconnect(flags, "protocol", "idle") /\ ~Released
        /\ UNCHANGED <<traffic, ctx, status>>
    BY <1>12 DEF ProtocolError, Released, TypeInv, ControlOK
  <2> QED BY <1>2, <1>3, <2>1, DisconnectQuiet DEF Phases
<1>13. CASE CallbackReturns
  <2>1. /\ UNCHANGED <<traffic, ctx, status, err, acErr, back>>
        /\ flags' = flags \ {"IN_CALLBACK"}
        /\ pc = "callback"
        /\ ctx # "freed"
        /\ \/ pc' = "teardown" /\ "FREEING" \in flags /\ back = "process"
           \/ pc' = back /\ back \in {"process", "teardown"}
    BY <1>13 DEF CallbackReturns, TypeInv, TypeOK, ControlOK
  <2> QED BY <1>2, <2>1 DEF Phases, CleanEnd, Released
<1>14. CASE UNCHANGED vars
  BY <1>2, <1>14 DEF vars, clientVars, Phases, CleanEnd, Released
<1> QED BY <1>5, <1>6, <1>7, <1>8, <1>9, <1>10, <1>11, <1>12, <1>13, <1>14

-----------------------------------------------------------------------------
(* A command is issued. *)

LEMMA Lengths ==
    ASSUME TypeInv
    PROVE  /\ Len(issued) \in Nat
           /\ Len(replies) \in Nat
           /\ Len(obuf) \in Nat
           /\ Len(wire) \in Nat
           /\ Len(rbuf) \in Nat
           /\ Len(sock) \in Nat
           /\ Len(ran) \in Nat
  BY DEF TypeInv, TypeOK, ServerTypeOK

\* Incoming is the concatenation of the two buffers.
LEMMA IncomingFacts ==
    ASSUME TypeInv
    PROVE  /\ Len(Incoming) = Len(rbuf) + Len(sock)
           /\ \A i \in 1 .. Len(rbuf) : Incoming[i] = rbuf[i]
           /\ \A i \in 1 .. Len(sock) : Incoming[Len(rbuf) + i] = sock[i]
  BY SMTT(30) DEF Incoming, TypeInv, TypeOK, ServerTypeOK

LEMMA QueueCommand ==
    ASSUME RegularOnly, TypeInv, QueueInv, [Next]_vars, Commands
    PROVE  QueueInv'
<1>1. PICK kind \in Kinds, topics \in Seq(Topics) : AsyncCommand(kind, topics)
  BY CommandArguments
<1>2. kind \in {"command", "silent"}
  BY <1>1 DEF AsyncCommand, InApp, RegularOnly, Kinds
<1> DEFINE c == [id |-> Len(issued) + 1, kind |-> kind, topics |-> topics]
<1>3. /\ replies' = Append(replies, Len(issued) + 1)
      /\ issued' = Append(issued, c)
      /\ obuf' = Append(obuf, c)
      /\ UNCHANGED <<flags, err, acErr, ran, pc, back, ctx, status, rbuf, sock, wire, peer,
                     srvSubs, srvMode>>
      /\ flags \cap {"DISCONNECTING", "FREEING"} = {}
  BY <1>1, <1>2 DEF AsyncCommand, RegisterCallback, PushCallback, QueueInv, OrderInv,
                    serverVars, controlVars
<1>4. c.id = Len(issued) + 1 /\ c.kind \in {"command", "silent"}
  BY <1>2
<1>5. issued \in Seq(Command) /\ obuf \in Seq(Command) /\ c \in Command /\ replies \in Seq(Nat)
  BY CommandType DEF TypeInv, TypeOK
<1> HIDE DEF c
<1>6. /\ Len(issued') = Len(issued) + 1
      /\ \A i \in 1 .. Len(issued) : issued'[i] = issued[i]
      /\ issued'[Len(issued) + 1] = c
      /\ \A i \in 1 .. Len(issued') : i \in 1 .. Len(issued) \/ i = Len(issued) + 1
  BY <1>3, <1>5, AppendFacts
<1>7. /\ Len(obuf') = Len(obuf) + 1
      /\ \A i \in 1 .. Len(obuf) : obuf'[i] = obuf[i]
      /\ obuf'[Len(obuf) + 1] = c
      /\ \A i \in 1 .. Len(obuf') : i \in 1 .. Len(obuf) \/ i = Len(obuf) + 1
  BY <1>3, <1>5, AppendFacts
<1>8. /\ Len(replies') = Len(replies) + 1
      /\ \A i \in 1 .. Len(replies) : replies'[i] = replies[i]
      /\ replies'[Len(replies) + 1] = Len(issued) + 1
      /\ \A i \in 1 .. Len(replies') : i \in 1 .. Len(replies) \/ i = Len(replies) + 1
  <2>1. Len(issued) + 1 \in Nat
    BY Lengths
  <2> QED BY <1>3, <1>5, <2>1, AppendFacts
<1>9. ~Released /\ ~Released'
  BY <1>3 DEF QueueInv, Phases, Released
<1>10. Consecutive'
  <2>1. Consecutive
    BY DEF QueueInv
  <2>2. ASSUME NEW i \in 1 .. Len(issued')
        PROVE  issued'[i].id = i /\ issued'[i].kind \in {"command", "silent"}
    <3>1. CASE i \in 1 .. Len(issued)
      BY <1>6, <2>1, <3>1 DEF Consecutive
    <3>2. CASE i = Len(issued) + 1
      BY <1>4, <1>6, <3>2
    <3> QED BY <1>6, <2>2, <3>1, <3>2
  <2>3. ASSUME NEW i \in 1 .. Len(replies')
        PROVE  replies'[i] = Len(issued') - Len(replies') + i
    <3>1. Len(issued') - Len(replies') = Len(issued) - Len(replies)
      BY <1>6, <1>8, Lengths
    <3>2. CASE i \in 1 .. Len(replies)
      BY <1>8, <2>1, <3>1, <3>2 DEF Consecutive
    <3>3. CASE i = Len(replies) + 1
      <4>1. Len(issued) - Len(replies) + i = Len(issued) + 1
        BY <3>3, Lengths
      <4> QED BY <1>8, <3>1, <3>3, <4>1
    <3> QED BY <1>8, <2>3, <3>2, <3>3
  <2> QED BY <1>6, <1>8, <2>1, <2>2, <2>3, Lengths DEF Consecutive
<1>11. Outgoing'
  <2>1. ASSUME NEW i \in 1 .. Len(obuf')
        PROVE  /\ obuf'[i].id = Len(issued') - Len(obuf') + i
               /\ obuf'[i].kind \in {"command", "silent"}
    <3>1. Len(issued') - Len(obuf') = Len(issued) - Len(obuf)
      BY <1>6, <1>7, Lengths
    <3>2. CASE i \in 1 .. Len(obuf)
      BY <1>7, <3>1, <3>2 DEF QueueInv, Outgoing
    <3>3. CASE i = Len(obuf) + 1
      <4>1. Len(issued) - Len(obuf) + i = Len(issued) + 1
        BY <3>3, Lengths
      <4> QED BY <1>4, <1>7, <3>1, <3>3, <4>1
    <3> QED BY <1>7, <2>1, <3>2, <3>3
  <2>2. \A i \in 1 .. Len(wire) : wire[i].id = Len(issued') - Len(obuf') - Len(wire) + i
    BY <1>6, <1>7, <1>9, Lengths DEF QueueInv, Outgoing
  <2>3. Len(obuf') <= Len(issued')
    BY <1>6, <1>7, Lengths DEF QueueInv, Outgoing
  <2> QED BY <1>3, <1>9, <2>1, <2>2, <2>3 DEF QueueInv, Outgoing
<1>12. Aligned'
  <2>1. UNCHANGED Incoming /\ Len(Incoming) \in Nat
    BY <1>3, IncomingFacts, Lengths DEF Incoming
  <2>2. Aligned
    BY <1>9 DEF QueueInv
  <2>3. /\ Len(issued') - Len(replies') = Len(issued) - Len(replies)
        /\ Len(issued') - Len(obuf') = Len(issued) - Len(obuf)
    BY <1>6, <1>7, <1>8, Lengths
  <2>4. TurnedAway => TurnedAway'
    BY <1>3, <1>6, <1>8, <2>1 DEF TurnedAway
  <2>5. \A k : AllData(k)' <=> AllData(k)
    BY <2>1 DEF AllData
  <2>6. \A k \in 1 .. Len(Incoming) : AllData(k) =>
           k <= Len(replies') /\ Incoming[k].id = Len(issued') - Len(replies') + k
    BY SMTT(30), <1>8, <2>2, <2>3, Lengths DEF Aligned
  <2>7. peer = "up" /\ AllData(Len(Incoming)) =>
           Len(replies') = Len(Incoming) + Len(wire) + Len(obuf')
    <3>1. Len(replies') = Len(replies) + 1 /\ Len(obuf') = Len(obuf) + 1
      BY <1>7, <1>8
    <3>2. peer = "up" /\ AllData(Len(Incoming)) => Len(replies) = Len(Incoming) + Len(wire) + Len(obuf)
      BY <2>2 DEF Aligned
    <3>3. Len(Incoming) \in Nat /\ Len(wire) \in Nat /\ Len(obuf) \in Nat
      BY <2>1, Lengths
    <3> QED BY <3>1, <3>2, <3>3
  <2>8. peer = "connecting" =>
           Len(Incoming) = 0 /\ Len(replies') = Len(issued') /\ Len(obuf') = Len(issued')
    BY <1>6, <1>7, <1>8, <2>2 DEF Aligned
  <2>9. \A k \in 1 .. Len(Incoming) : Incoming[k].type \in {"data", "bad"} \/ TurnedAway'
    BY <2>2, <2>4 DEF Aligned
  <2> QED BY <1>3, <2>1, <2>5, <2>6, <2>7, <2>8, <2>9 DEF Aligned
<1>13. Phases'
  BY <1>3, <1>9 DEF QueueInv, Phases, Released
<1>14. Answered'
  <2>1. Len(issued') - Len(replies') = Len(issued) - Len(replies)
    BY <1>6, <1>8, Lengths
  <2>2. \A id \in 1 .. Len(issued) - Len(replies) : issued'[id] = issued[id]
    BY <1>6, Lengths
  <2>3. \A i \in 1 .. Len(ran) : ran[i].cb \in 1 .. Len(issued')
    BY <1>6, Lengths DEF QueueInv, Answered
  <2> QED BY <1>3, <1>9, <2>1, <2>2, <2>3 DEF QueueInv, Answered, Given
<1>15. CleanEnd'
  BY <1>3, <1>9 DEF QueueInv, CleanEnd, Released
<1>16. OrderInv'
  BY OrderNext DEF QueueInv
<1> QED BY <1>10, <1>11, <1>12, <1>13, <1>14, <1>15, <1>16 DEF QueueInv

-----------------------------------------------------------------------------
(* redisBufferRead and redisBufferWrite. *)

LEMMA QueueRead ==
    ASSUME RegularOnly, TypeInv, QueueInv, [Next]_vars,
           NEW n \in 0 .. Len(sock), BufferRead(n)
    PROVE  QueueInv'
<1>1. /\ pc = "read" /\ pc' = "process" /\ ctx = "live"
      /\ rbuf' = rbuf \o SubSeq(sock, 1, n)
      /\ sock' = SubSeq(sock, n + 1, Len(sock))
      /\ UNCHANGED <<issued, replies, obuf, wire, peer, srvSubs, srvMode, ran, flags, err, acErr,
                     ctx, back, status>>
  BY DEF BufferRead, queues, historyVars, TypeInv, TypeOK, ControlOK
<1>2. ~Released /\ ~Released'
  BY <1>1 DEF Released
<1>3. sock \in Seq(Reply) /\ rbuf \in Seq(Reply)
  BY DEF TypeInv, TypeOK, ServerTypeOK
<1>4. UNCHANGED Incoming
  BY <1>1, <1>3, MoveFacts DEF Incoming
<1>5. Aligned
  BY <1>2 DEF QueueInv
<1>6. Aligned'
  BY <1>1, <1>4, <1>5 DEF Aligned, AllData, TurnedAway
<1>7. Phases'
  BY <1>1, <1>2 DEF QueueInv, Phases, Released
<1>8. OrderInv'
  BY OrderNext DEF QueueInv
<1> QED BY <1>1, <1>2, <1>6, <1>7, <1>8
           DEF QueueInv, Consecutive, Outgoing, Answered, Given, CleanEnd

LEMMA QueueWrite ==
    ASSUME RegularOnly, TypeInv, QueueInv, [Next]_vars,
           NEW n \in 0 .. Len(obuf), BufferWrite(n)
    PROVE  QueueInv'
<1> DEFINE cut == SubSeq(obuf, 1, n)
<1>1. /\ pc = "write" /\ pc' = "idle" /\ ctx = "live"
      /\ obuf' = SubSeq(obuf, n + 1, Len(obuf))
      /\ wire' = IF peer = "up" THEN wire \o cut ELSE wire
      /\ UNCHANGED <<issued, replies, rbuf, sock, peer, srvSubs, srvMode, ran, flags, err, acErr,
                     ctx, back, status>>
  BY DEF BufferWrite, queues, historyVars, TypeInv, TypeOK, ControlOK
<1>2. ~Released /\ ~Released' /\ peer # "connecting"
  BY <1>1 DEF Released, QueueInv, Phases
<1>3. obuf \in Seq(Command) /\ wire \in Seq(Command)
  BY DEF TypeInv, TypeOK, ServerTypeOK
<1>0. n \in Nat /\ n <= Len(obuf)
  BY Lengths
<1>4. /\ Len(obuf') = Len(obuf) - n
      /\ \A i \in 1 .. Len(obuf) - n : obuf'[i] = obuf[n + i]
      /\ cut \in Seq(Command)
      /\ Len(cut) = n
      /\ \A i \in 1 .. n : cut[i] = obuf[i]
  BY <1>1, <1>3, CutFacts
<1> HIDE DEF cut
<1>5. peer = "up" => /\ Len(wire') = Len(wire) + n
                     /\ \A i \in 1 .. Len(wire) : wire'[i] = wire[i]
                     /\ \A i \in 1 .. n : wire'[Len(wire) + i] = obuf[i]
  <2>1. cut \in Seq(Command)
    BY <1>4
  <2>2. /\ Len(wire \o cut) = Len(wire) + Len(cut)
        /\ \A i \in 1 .. Len(wire) : (wire \o cut)[i] = wire[i]
        /\ \A i \in 1 .. Len(cut) : (wire \o cut)[Len(wire) + i] = cut[i]
    BY <1>3, <2>1, ConcatFacts
  <2> QED BY <1>1, <1>4, <2>2
<1>6. Outgoing
  BY DEF QueueInv
<1>7. ASSUME NEW i \in 1 .. Len(obuf')
      PROVE  /\ obuf'[i].id = Len(issued) - Len(obuf') + i
             /\ obuf'[i].kind \in {"command", "silent"}
  <2>1. n + i \in 1 .. Len(obuf) /\ Len(issued) - Len(obuf) + (n + i) = Len(issued) - Len(obuf') + i
    BY <1>0, <1>4, <1>7, Lengths
  <2>2. obuf'[i] = obuf[n + i]
    BY <1>4, <1>7
  <2> QED BY <1>6, <2>1, <2>2 DEF Outgoing
<1>8. ASSUME NEW i \in 1 .. Len(wire')
      PROVE  /\ wire'[i].id = Len(issued) - Len(obuf') - Len(wire') + i
             /\ wire'[i].kind \in {"command", "silent"}
  <2>1. CASE peer # "up"
    BY <1>1, <1>6, <1>8, <2>1 DEF Outgoing
  <2>2. CASE peer = "up" /\ i \in 1 .. Len(wire)
    <3>1. Len(issued) - Len(obuf') - Len(wire') + i = Len(issued) - Len(obuf) - Len(wire) + i
      <4>1. Len(wire') = Len(wire) + n /\ Len(obuf') = Len(obuf) - n
        BY <1>4, <1>5, <2>2
      <4> QED BY <1>0, <2>2, <4>1, Lengths
    <3>2. wire'[i] = wire[i]
      BY <1>5, <2>2
    <3> QED BY <1>2, <1>6, <2>2, <3>1, <3>2 DEF Outgoing
  <2>3. CASE peer = "up" /\ i - Len(wire) \in 1 .. n
    <3>1. /\ i = Len(wire) + (i - Len(wire))
          /\ i - Len(wire) \in 1 .. Len(obuf)
          /\ Len(issued) - Len(obuf') - Len(wire') + i = Len(issued) - Len(obuf) + (i - Len(wire))
      <4>1. Len(wire') = Len(wire) + n /\ Len(obuf') = Len(obuf) - n
        BY <1>4, <1>5, <2>3
      <4> QED BY <1>0, <1>8, <2>3, <4>1, Lengths
    <3>2. wire'[i] = obuf[i - Len(wire)]
      BY <1>5, <2>3, <3>1
    <3> QED BY <1>6, <3>1, <3>2 DEF Outgoing
  <2>4. peer = "up" => i \in 1 .. Len(wire) \/ i - Len(wire) \in 1 .. n
    <3>1. peer = "up" => Len(wire') = Len(wire) + n
      BY <1>5
    <3> QED BY <1>0, <1>8, <3>1, Lengths
  <2> QED BY <2>1, <2>2, <2>3, <2>4
<1>9. Outgoing'
  <2>1. Len(obuf') <= Len(issued')
    BY <1>0, <1>1, <1>4, <1>6, Lengths DEF Outgoing
  <2>2. peer' # "up" => wire' = <<>>
    BY <1>1, <1>6 DEF Outgoing
  <2> QED BY <1>1, <1>6, <1>7, <1>8, <2>1, <2>2 DEF Outgoing
<1>10. Aligned'
  <2>1. UNCHANGED Incoming /\ Aligned /\ Len(Incoming) \in Nat
    BY <1>1, <1>2, IncomingFacts, Lengths DEF Incoming, QueueInv
  <2>2. peer = "up" => Len(wire') + Len(obuf') = Len(wire) + Len(obuf)
    <3>1. peer = "up" => Len(wire') = Len(wire) + n /\ Len(obuf') = Len(obuf) - n
      BY <1>4, <1>5
    <3> QED BY <1>0, <3>1, Lengths
  <2>3. peer = "up" /\ AllData(Len(Incoming)) =>
           Len(replies) = Len(Incoming) + Len(wire') + Len(obuf')
    <3>1. peer = "up" /\ AllData(Len(Incoming)) => Len(replies) = Len(Incoming) + Len(wire) + Len(obuf)
      BY <2>1 DEF Aligned
    <3>2. peer = "up" => Len(wire') \in Nat /\ Len(obuf') \in Nat
      <4>1. peer = "up" => Len(wire') = Len(wire) + n /\ Len(obuf') = Len(obuf) - n
        BY <1>4, <1>5
      <4> QED BY <1>0, <4>1, Lengths
    <3> QED BY SMTT(30), <2>1, <2>2, <3>1, <3>2, Lengths
  <2> QED BY <1>1, <1>2, <2>1, <2>3 DEF Aligned, AllData, TurnedAway
<1>11. Phases'
  BY <1>1, <1>2 DEF QueueInv, Phases, Released
<1>12. OrderInv'
  BY OrderNext DEF QueueInv
<1> QED BY <1>1, <1>2, <1>9, <1>10, <1>11, <1>12
           DEF QueueInv, Consecutive, Answered, Given, CleanEnd

-----------------------------------------------------------------------------
(* A callback leaves ac->replies. *)

\* The first callback of ac->replies, taken off the list and run.
LEMMA QueueShift ==
    ASSUME TypeInv, QueueInv, replies # <<>>, replies' = Tail(replies), UNCHANGED issued,
           NEW reply \in Reply \cup {NullReply}, NEW frame,
           Given([cb |-> Head(replies), reply |-> reply]),
           RunCallback(flags, Head(replies), reply, frame),
           reply = NullReply => Released',
           Released => Released'
    PROVE  Consecutive' /\ Answered'
<1> DEFINE h == Head(replies)
           r == [cb |-> Head(replies), reply |-> reply]
<1>1. replies \in Seq(Nat) /\ ran \in Seq([cb : Nat, reply : Reply \cup {NullReply}])
  BY DEF TypeInv, TypeOK
<1>2. /\ Len(replies) \in Nat \ {0}
      /\ h = replies[1]
      /\ Len(replies') = Len(replies) - 1
      /\ \A i \in 1 .. Len(replies) - 1 : replies'[i] = replies[i + 1]
  BY <1>1, TailFacts
<1>3. Consecutive /\ Answered
  BY DEF QueueInv
<1>4. /\ Len(replies) <= Len(issued)
      /\ h = Len(issued) - Len(replies) + 1
  BY <1>2, <1>3 DEF Consecutive
<1>5. h \in 1 .. Len(issued) /\ Len(issued) - Len(replies') = h
  BY <1>2, <1>4, Lengths
<1>6. Consecutive'
  <2>1. ASSUME NEW i \in 1 .. Len(replies')
        PROVE  replies'[i] = Len(issued) - Len(replies') + i
    <3>1. i \in 1 .. Len(replies) - 1 /\ i + 1 \in 1 .. Len(replies)
      BY <1>2
    <3>2. replies[i + 1] = Len(issued) - Len(replies) + (i + 1)
      BY <1>3, <3>1 DEF Consecutive
    <3>3. Len(issued) - Len(replies) + (i + 1) = Len(issued) - Len(replies') + i
      BY <1>2, <3>1, Lengths
    <3> QED BY <1>2, <3>1, <3>2, <3>3
  <2>2. Len(replies') <= Len(issued)
    BY <1>2, <1>4, Lengths
  <2> QED BY <1>3, <2>1, <2>2 DEF Consecutive
<1>7. \A id \in 1 .. h : id = h \/ id \in 1 .. Len(issued) - Len(replies)
  BY <1>4, <1>5, Lengths
<1>8. r.cb = h /\ r.reply = reply /\ Given(r) /\ r \in [cb : Nat, reply : Reply \cup {NullReply}]
  BY <1>1, HeadTailType
<1> HIDE DEF h, r
<1>9. CASE HasFn(h)
  <2>1. ran' = Append(ran, r)
    BY <1>9 DEF RunCallback, h, r
  <2>2. /\ Len(ran') = Len(ran) + 1
        /\ \A i \in 1 .. Len(ran) : ran'[i] = ran[i]
        /\ ran'[Len(ran) + 1] = r
        /\ \A i \in 1 .. Len(ran') : i \in 1 .. Len(ran) \/ i = Len(ran) + 1
    BY <1>1, <1>8, <2>1, AppendFacts
  <2>3. \A i \in 1 .. Len(ran') : ran'[i].cb \in 1 .. Len(issued) /\ Given(ran'[i])
    BY <1>3, <1>5, <1>8, <2>2 DEF Answered
  <2>4. Len(ran) + 1 \in 1 .. Len(ran') /\ \A i \in 1 .. Len(ran) : i \in 1 .. Len(ran')
    BY <2>2, Lengths
  <2>5. \A id \in 1 .. h : issued[id].kind = "command" => \E i \in 1 .. Len(ran') : ran'[i].cb = id
    BY <1>3, <1>7, <1>8, <2>2, <2>4 DEF Answered
  <2>6. (\E i \in 1 .. Len(ran') : ran'[i].reply = NullReply) => Released'
    BY <1>3, <1>8, <2>2 DEF Answered
  <2>7. (\A i \in 1 .. Len(ran) : ran[i].cb \in 1 .. Len(issued) /\ Given(ran[i]))'
    BY <2>3 DEF Given
  <2> QED BY <1>5, <1>6, <2>5, <2>6, <2>7 DEF Answered
<1>10. CASE ~HasFn(h)
  <2>1. ran' = ran
    BY <1>10 DEF RunCallback, h
  <2>2. issued[h].kind = "silent"
    BY <1>5, <1>10, Lengths DEF HasFn
  <2>3. \A id \in 1 .. h : issued[id].kind = "command" => \E i \in 1 .. Len(ran) : ran[i].cb = id
    BY <1>3, <1>7, <2>2 DEF Answered
  <2> QED BY <1>3, <1>5, <1>6, <2>1, <2>3 DEF Answered, Given
<1> QED BY <1>6, <1>9, <1>10

\* What the head of the reader is worth in redisProcessCallbacks.
LEMMA HeadOfIncoming ==
    ASSUME TypeInv, QueueInv, ~Released, rbuf # <<>>, Head(rbuf).type # "bad"
    PROVE  /\ Head(rbuf) = Incoming[1]
           /\ Incoming \in Seq(Reply)
           /\ Incoming # <<>>
           /\ Len(Incoming) \in Nat \ {0}
           /\ Len(Incoming) >= 1
           /\ \/ TurnedAway
              \/ /\ Incoming[1].type = "data"
                 /\ Len(replies) >= 1
                 /\ Incoming[1].id = Len(issued) - Len(replies) + 1
<1>1. rbuf \in Seq(Reply) /\ sock \in Seq(Reply)
  BY DEF TypeInv, TypeOK, ServerTypeOK
<1>2. Incoming \in Seq(Reply) /\ Incoming # <<>> /\ Head(Incoming) = Head(rbuf)
  BY <1>1, ConcatTail, ConcatType DEF Incoming
<1>3. Len(Incoming) \in Nat \ {0} /\ Head(Incoming) = Incoming[1]
  BY <1>2, TailFacts
<1>4. 1 \in 1 .. Len(Incoming)
  BY <1>3
<1>5. Aligned
  BY DEF QueueInv
<1>6. Incoming[1].type = "data" \/ TurnedAway
  BY <1>2, <1>3, <1>4, <1>5 DEF Aligned
<1>7. Incoming[1].type = "data" =>
         1 <= Len(replies) /\ Incoming[1].id = Len(issued) - Len(replies) + 1
  <2>1. Incoming[1].type = "data" => AllData(1)
    BY DEF AllData
  <2> QED BY <1>4, <1>5, <2>1 DEF Aligned
<1> QED BY <1>2, <1>3, <1>6, <1>7, Lengths

LEMMA QueueProcess ==
    ASSUME RegularOnly, TypeInv, QueueInv, [Next]_vars, ProcessReply
    PROVE  QueueInv'
<1> DEFINE reply == Head(rbuf)
<1>1. /\ pc = "process"
      /\ rbuf # <<>>
      /\ Head(rbuf).type # "bad"
      /\ rbuf' = Tail(rbuf)
      /\ UNCHANGED <<peer, wire, sock, srvSubs, srvMode, obuf, ctx, issued, status>>
  BY DEF ProcessReply, serverVars
<1>2. ctx = "live" /\ ~Released
  BY <1>1 DEF TypeInv, TypeOK, ControlOK, Released
<1>3. peer # "connecting" /\ (status # "ok" \/ "FREEING" \in flags)
  BY <1>1, <1>2 DEF QueueInv, Phases, CleanEnd
<1>4. rbuf \in Seq(Reply) /\ sock \in Seq(Reply)
  BY DEF TypeInv, TypeOK, ServerTypeOK
<1>5. /\ reply = Incoming[1]
      /\ Incoming \in Seq(Reply)
      /\ Incoming # <<>>
      /\ Len(Incoming) \in Nat \ {0}
      /\ \/ TurnedAway
         \/ /\ Incoming[1].type = "data"
            /\ Len(replies) >= 1
            /\ Incoming[1].id = Len(issued) - Len(replies) + 1
  BY <1>1, <1>2, HeadOfIncoming
<1>6. reply \in Reply
  BY <1>1, <1>4, HeadTailType
<1>7. OrderInv'
  BY OrderNext DEF QueueInv
<1>8. CASE ReplyToPending(reply)
  <2>1. /\ replies # <<>>
        /\ replies' = Tail(replies)
        /\ RunCallback(flags, Head(replies), reply, "process")
        /\ UNCHANGED <<err, acErr>>
    BY <1>8 DEF ReplyToPending
  <2>2. /\ pc' = "process" \/ (pc' = "callback" /\ back' = "process")
        /\ flags' = flags \/ flags' = flags \cup {"IN_CALLBACK"}
    BY <2>1 DEF RunCallback
  <2>3. ~Released'
    BY <1>1, <1>2, <2>2 DEF Released
  <2>4. /\ replies \in Seq(Nat)
        /\ Len(replies) \in Nat \ {0}
        /\ Head(replies) = replies[1]
        /\ Len(replies') = Len(replies) - 1
    BY <2>1, TailFacts DEF TypeInv, TypeOK
  <2>5. Head(replies) = Len(issued) - Len(replies) + 1
    BY <2>4 DEF QueueInv, Consecutive
  <2>6. TurnedAway => Head(replies) = 1
    BY <2>4, <2>5, Lengths DEF TurnedAway
  <2>7. Given([cb |-> Head(replies), reply |-> reply])
    BY <1>5, <2>5, <2>6 DEF Given, TurnedAway
  <2>8. reply # NullReply
    BY <1>6 DEF Reply, NullReply, PlainReply, ReplyTypes
  <2>9. Consecutive' /\ Answered'
    BY <1>1, <1>2, <1>6, <2>1, <2>7, <2>8, QueueShift
  <2>10. Aligned'
    <3>1. Incoming' = Tail(Incoming)
      BY <1>1, <1>4, ConcatTail DEF Incoming
    <3>2. /\ Len(Incoming') = Len(Incoming) - 1
          /\ \A i \in 1 .. Len(Incoming) - 1 : Incoming'[i] = Incoming[i + 1]
      BY <1>5, <3>1, TailFacts
    <3>3. CASE TurnedAway
      <4>1. Len(Incoming') = 0 /\ peer' = "closed"
        BY <1>1, <3>2, <3>3 DEF TurnedAway
      <4> QED BY <4>1 DEF Aligned
    <3>4. CASE ~TurnedAway
      <4>1. Aligned /\ Incoming[1].type = "data"
        BY <1>2, <1>5, <3>4 DEF QueueInv
      <4>2. ASSUME NEW k \in 1 .. Len(Incoming')
            PROVE  /\ k + 1 \in 1 .. Len(Incoming)
                   /\ Incoming'[k] = Incoming[k + 1]
                   /\ AllData(k)' => AllData(k + 1)
        <5>1. k \in 1 .. Len(Incoming) - 1 /\ k + 1 \in 1 .. Len(Incoming)
          BY <1>5, <3>2
        <5>2. ASSUME AllData(k)', NEW i \in 1 .. k + 1 PROVE Incoming[i].type = "data"
          <6>1. CASE i = 1
            BY <4>1, <6>1
          <6>2. CASE i # 1
            <7>1. i - 1 \in 1 .. k /\ i - 1 \in 1 .. Len(Incoming) - 1 /\ (i - 1) + 1 = i
              BY <1>5, <5>1, <6>2
            <7>2. Incoming'[i - 1].type = "data"
              BY <5>2, <7>1 DEF AllData
            <7> QED BY <3>2, <7>1, <7>2
          <6> QED BY <6>1, <6>2
        <5> QED BY <3>2, <5>1, <5>2 DEF AllData
      <4>3. \A k \in 1 .. Len(Incoming') : Incoming'[k].type \in {"data", "bad"}
        BY <3>4, <4>1, <4>2 DEF Aligned
      <4>4. ASSUME NEW k \in 1 .. Len(Incoming'), AllData(k)'
            PROVE  /\ k <= Len(replies')
                   /\ Incoming'[k].id = Len(issued) - Len(replies') + k
        <5>1. k + 1 <= Len(replies) /\ Incoming'[k].id = Len(issued) - Len(replies) + (k + 1)
          BY <4>1, <4>2, <4>4 DEF Aligned
        <5>2. k \in Nat
          BY <1>5, <3>2
        <5> QED BY <2>4, <5>1, <5>2, Lengths
      <4>5. peer = "up" /\ AllData(Len(Incoming))' =>
               Len(replies') = Len(Incoming') + Len(wire) + Len(obuf)
        <5>1. AllData(Len(Incoming))' => AllData(Len(Incoming))
          <6>1. CASE Len(Incoming) = 1
            BY <4>1, <6>1 DEF AllData
          <6>2. CASE Len(Incoming) # 1
            <7>1. Len(Incoming') \in 1 .. Len(Incoming') /\ Len(Incoming') + 1 = Len(Incoming)
              BY <1>5, <3>2, <6>2
            <7> QED BY <4>2, <7>1
          <6> QED BY <6>1, <6>2
        <5>2. peer = "up" /\ AllData(Len(Incoming)) =>
                 Len(replies) = Len(Incoming) + Len(wire) + Len(obuf)
          BY <4>1 DEF Aligned
        <5> QED BY SMTT(30), <1>5, <2>4, <3>2, <5>1, <5>2, Lengths
      <4> QED BY <1>1, <1>3, <4>3, <4>4, <4>5 DEF Aligned
    <3> QED BY <3>3, <3>4
  <2>11. Phases'
    BY <1>1, <1>2, <1>3, <2>2, <2>3 DEF Phases
  <2>12. CleanEnd'
    BY <1>1, <1>3, <2>2, <2>3 DEF CleanEnd
  <2>13. Outgoing'
    BY <1>1, <1>2 DEF QueueInv, Outgoing
  <2> QED BY <1>7, <2>9, <2>10, <2>11, <2>12, <2>13 DEF QueueInv
<1>9. CASE SpontaneousError(reply)
  <2>1. /\ pc' = "teardown"
        /\ acErr' = "other"
        /\ flags' = flags \cup {"DISCONNECTING"}
        /\ UNCHANGED <<replies, ran>>
    BY <1>9 DEF SpontaneousError, AsyncDisconnect, queues
  <2>2. Released'
    BY <2>1 DEF Released
  <2>3. Phases' /\ CleanEnd'
    BY <1>1, <1>2, <1>3, <2>1, <2>2 DEF Phases, CleanEnd
  <2>4. Consecutive' /\ Outgoing' /\ Answered'
    BY <1>1, <1>2, <2>1, <2>2 DEF QueueInv, Consecutive, Outgoing, Answered, Given
  <2> QED BY <1>7, <2>2, <2>3, <2>4 DEF QueueInv
<1>10. ~SpontaneousUnexpected(reply)
  BY <1>5, Lengths DEF SpontaneousUnexpected, TurnedAway
<1>11. ~ReplyToSubscriber(reply) /\ ~ReplyToMonitor(reply)
  BY DEF ReplyToSubscriber, ReplyToMonitor, QueueInv, OrderInv
<1> QED BY <1>8, <1>9, <1>10, <1>11 DEF ProcessReply

\* __redisAsyncFree, one callback or the last step.
LEMMA QueueTeardown ==
    ASSUME RegularOnly, TypeInv, QueueInv, [Next]_vars,
           TeardownReplies \/ TeardownEnds \/ DisconnectCallbackReturns
    PROVE  QueueInv'
<1>1. OrderInv'
  BY OrderNext DEF QueueInv
<1>2. CASE TeardownReplies
  <2>1. /\ pc = "teardown"
        /\ replies # <<>>
        /\ replies' = Tail(replies)
        /\ RunCallback(flags, Head(replies), NullReply, "teardown")
        /\ UNCHANGED <<peer, wire, srvSubs, srvMode, obuf, acErr, ctx, issued, status>>
    BY <1>2 DEF TeardownReplies, serverVars, buffers
  <2>2. /\ pc' = "teardown" \/ (pc' = "callback" /\ back' = "teardown")
        /\ flags' = flags \/ flags' = flags \cup {"IN_CALLBACK"}
    BY <2>1 DEF RunCallback
  <2>3. Released /\ Released' /\ ctx = "live"
    BY <2>1, <2>2 DEF Released, TypeInv, TypeOK, ControlOK
  <2>4. Given([cb |-> Head(replies), reply |-> NullReply])
    BY DEF Given
  <2>5. Consecutive' /\ Answered'
    BY <2>1, <2>3, <2>4, QueueShift
  <2>6. Outgoing'
    BY <2>1, <2>3 DEF QueueInv, Outgoing
  <2>7. Phases' /\ CleanEnd'
    BY <2>1, <2>2, <2>3 DEF QueueInv, Phases, CleanEnd
  <2> QED BY <1>1, <2>3, <2>5, <2>6, <2>7 DEF QueueInv
<1>3. CASE TeardownEnds \/ DisconnectCallbackReturns
  <2>1. /\ pc \in {"teardown", "onDisconnect"}
        /\ UNCHANGED <<peer, wire, srvSubs, srvMode, flags, acErr, issued, ran, replies>>
        /\ obuf' = obuf \/ obuf' = <<>>
        /\ pc' = "onDisconnect" \/ ctx' = "freed"
    BY <1>3 DEF TeardownEnds, DisconnectCallbackReturns, FreeContext, serverVars, queues, buffers,
                historyVars
  <2>2. Released /\ Released' /\ ctx = "live"
    BY <2>1 DEF Released, TypeInv, TypeOK, ControlOK
  <2>3. replies = <<>>
    BY <1>3 DEF TeardownEnds, DisconnectCallbackReturns, QueueInv, Phases
  <2>4. Consecutive' /\ Answered'
    BY <2>1, <2>2 DEF QueueInv, Consecutive, Answered, Given
  <2>5. Outgoing'
    <3>1. CASE obuf' = obuf
      BY <2>1, <2>2, <3>1 DEF QueueInv, Outgoing
    <3>2. CASE obuf' = <<>>
      <4>1. Len(obuf') = 0 /\ Len(issued) >= 0
        BY <3>2, Lengths
      <4> QED BY <2>1, <2>2, <4>1 DEF QueueInv, Outgoing
    <3> QED BY <2>1, <3>1, <3>2
  <2>6. Phases'
    BY <2>1, <2>2, <2>3 DEF QueueInv, Phases
  <2>7. status' = "ok" /\ "FREEING" \notin flags => acErr = "ok"
    BY <1>3, <2>2 DEF TeardownEnds, DisconnectCallbackReturns, QueueInv, CleanEnd, historyVars
  <2>8. CleanEnd'
    BY <2>1, <2>2, <2>3, <2>7 DEF QueueInv, CleanEnd
  <2> QED BY <1>1, <2>2, <2>4, <2>5, <2>6, <2>8 DEF QueueInv
<1> QED BY <1>2, <1>3

-----------------------------------------------------------------------------
(* The server. *)

\* Something the server sends while the connection is up.
LEMMA ServerSends ==
    ASSUME TypeInv, Aligned, peer = "up", NEW r \in Reply, sock' = Append(sock, r),
           UNCHANGED <<rbuf, issued, replies, obuf, peer>>, Len(wire') \in Nat,
           \/ r.type = "bad"
           \/ /\ r.type = "data"
              /\ Len(wire) = Len(wire') + 1
              /\ r.id = Len(issued) - Len(obuf) - Len(wire) + 1
    PROVE  Aligned'
<1>1. rbuf \in Seq(Reply) /\ sock \in Seq(Reply) /\ Incoming \in Seq(Reply)
  BY ConcatType DEF TypeInv, TypeOK, ServerTypeOK, Incoming
<1>0. PICK n \in Nat : n = Len(Incoming)
  BY <1>1
<1>2. Incoming' = Append(Incoming, r)
  BY <1>1, ConcatAppend DEF Incoming
<1>3. /\ Len(Incoming') = n + 1
      /\ \A i \in 1 .. n : Incoming'[i] = Incoming[i]
      /\ Incoming'[n + 1] = r
      /\ \A i \in 1 .. n + 1 : i \in 1 .. n \/ i = n + 1
  BY <1>0, <1>1, <1>2, AppendFacts
<1>4. ~TurnedAway
  BY DEF TurnedAway
<1>5. \A k \in 1 .. n : AllData(k)' <=> AllData(k)
  BY <1>3 DEF AllData
<1>6. AllData(n + 1)' => AllData(n) /\ r.type = "data"
  BY <1>3 DEF AllData
<1>7. \A k \in 1 .. n + 1 : Incoming'[k].type \in {"data", "bad"}
  BY <1>0, <1>3, <1>4 DEF Aligned
<1>8. AllData(n) => Len(replies) = n + Len(wire) + Len(obuf)
  BY <1>0 DEF Aligned
<1>9. ASSUME AllData(n + 1)'
      PROVE  /\ n + 1 <= Len(replies)
             /\ r.id = Len(issued) - Len(replies) + (n + 1)
             /\ Len(replies) = (n + 1) + Len(wire') + Len(obuf)
  <2>1. /\ r.id = Len(issued) - Len(obuf) - Len(wire) + 1
        /\ Len(wire) = Len(wire') + 1
        /\ Len(replies) = n + Len(wire) + Len(obuf)
    BY <1>6, <1>8, <1>9
  <2> QED BY <2>1, Lengths
<1>10. \A k \in 1 .. n + 1 :
          AllData(k)' => k <= Len(replies) /\ Incoming'[k].id = Len(issued) - Len(replies) + k
  BY <1>0, <1>3, <1>5, <1>9 DEF Aligned
<1> QED BY <1>3, <1>7, <1>9, <1>10 DEF Aligned

LEMMA QueueEnvironment ==
    ASSUME RegularOnly, TypeInv, TypeInv', QueueInv, [Next]_vars, Environment
    PROVE  QueueInv'
<1>1. /\ UNCHANGED <<flags, err, acErr, obuf, rbuf, replies, ctx, pc, back, issued, ran, status>>
      /\ ~Released /\ ~Released'
  BY DEF Environment, clientVars, controlVars, historyVars, buffers, queues, Released, TypeInv,
         TypeOK, ControlOK
<1>2. Consecutive' /\ Answered' /\ CleanEnd' /\ OrderInv'
  BY <1>1, OrderNext DEF QueueInv, Consecutive, Answered, Given, CleanEnd
<1>3. Aligned /\ Outgoing /\ Phases
  BY <1>1 DEF QueueInv
<1>4. rbuf \in Seq(Reply) /\ sock \in Seq(Reply) /\ wire \in Seq(Command)
  BY DEF TypeInv, TypeOK, ServerTypeOK
<1>5. ~Push
  BY <1>3 DEF Push, Outgoing
<1>6. peer' # "connecting" \/ UNCHANGED peer
  BY <1>5 DEF Environment, ServerNext, Accept, Refuse, Reject, Serve, Corrupt, Close
<1>7. Phases'
  BY <1>1, <1>3, <1>6 DEF Phases
<1>8. SUFFICES Outgoing' /\ Aligned'
  BY <1>1, <1>2, <1>7 DEF QueueInv
<1>9. CASE Accept \/ Refuse
  <2>1. /\ peer = "connecting" /\ peer' \in {"up", "refused"}
        /\ UNCHANGED <<wire, sock, srvSubs, srvMode>>
    BY <1>9 DEF Accept, Refuse
  <2>2. UNCHANGED Incoming /\ Len(Incoming) = 0
    BY <1>1, <1>3, <2>1 DEF Incoming, Aligned
  <2>3. wire = <<>> /\ Len(wire) = 0 /\ Len(replies) = Len(obuf)
    BY <1>3, <2>1 DEF Outgoing, Aligned
  <2>4. Outgoing'
    BY <1>1, <1>3, <2>1, <2>3 DEF Outgoing
  <2>5. Len(replies) = Len(Incoming) + Len(wire) + Len(obuf)
    BY <2>2, <2>3, Lengths
  <2>6. Aligned'
    BY <1>1, <2>1, <2>2, <2>5 DEF Aligned
  <2> QED BY <2>4, <2>6
<1>10. CASE Reject
  <2> DEFINE e == PlainReply("error", 0)
  <2>1. /\ peer = "connecting" /\ peer' = "closed"
        /\ sock' = <<e>>
        /\ UNCHANGED <<wire, srvSubs, srvMode>>
    BY <1>10 DEF Reject
  <2>2. e.type = "error" /\ e.id = 0
    BY DEF PlainReply
  <2>3. e \in Reply
    BY PlainReplyType DEF ReplyTypes, PubSubTypes
  <2> HIDE DEF e
  <2>4. /\ Len(Incoming) = 0
        /\ Len(replies) = Len(issued)
        /\ wire = <<>>
    BY <1>3, <2>1 DEF Aligned, Outgoing
  <2>5. Len(rbuf) = 0
    BY <2>4, IncomingFacts, Lengths
  <2>6. rbuf = <<>>
    BY <1>4, <2>5
  <2>7. sock' \in Seq(Reply) /\ Len(sock') = 1 /\ sock'[1] = e
    BY <2>1, <2>3
  <2>8. Len(Incoming') = 1 /\ Incoming'[1] = e
    BY <1>1, <2>6, <2>7 DEF Incoming
  <2>9. TurnedAway'
    BY <1>1, <2>1, <2>2, <2>4, <2>8 DEF TurnedAway
  <2>10. ASSUME NEW k \in 1 .. Len(Incoming') PROVE ~AllData(k)'
    <3>1. 1 \in 1 .. k
      BY <2>8
    <3> QED BY <2>2, <2>8, <3>1 DEF AllData
  <2>11. Aligned'
    BY <2>1, <2>9, <2>10 DEF Aligned
  <2>12. Outgoing'
    BY <1>1, <1>3, <2>1, <2>4 DEF Outgoing
  <2> QED BY <2>11, <2>12
<1>11. CASE Serve
  <2> DEFINE c == Head(wire)
  <2>1. peer = "up" /\ wire # <<>> /\ wire' = Tail(wire) /\ UNCHANGED peer
    BY <1>11 DEF Serve
  <2>2. /\ Len(wire) \in Nat \ {0}
        /\ c = wire[1]
        /\ Len(wire') = Len(wire) - 1
        /\ \A i \in 1 .. Len(wire) - 1 : wire'[i] = wire[i + 1]
    BY <1>4, <2>1, TailFacts
  <2>3. /\ c.id = Len(issued) - Len(obuf) - Len(wire) + 1
        /\ c.kind \in {"command", "silent"}
    BY <1>1, <1>3, <2>2 DEF Outgoing
  <2>4. c.id \in Nat
    <3>1. c \in Command
      BY <1>4, <2>1, HeadTailType
    <3> QED BY <3>1 DEF Command
  <2> HIDE DEF c
  <2>5. /\ sock' = Append(sock, PlainReply("data", c.id))
        /\ UNCHANGED <<srvSubs, srvMode>>
    BY <1>3, <1>11, <2>3 DEF Serve, Outgoing, c
  <2> DEFINE r == PlainReply("data", c.id)
  <2>6. r \in Reply /\ r.type = "data" /\ r.id = c.id
    BY <2>4, PlainReplyType DEF PlainReply, ReplyTypes, PubSubTypes
  <2> HIDE DEF r
  <2>7. Len(wire') \in Nat /\ Len(wire) = Len(wire') + 1
    BY <2>2
  <2>8. sock' = Append(sock, r)
    BY <2>5 DEF r
  <2>9. Aligned'
    BY <1>1, <1>3, <2>1, <2>3, <2>6, <2>7, <2>8, ServerSends
  <2>10. ASSUME NEW i \in 1 .. Len(wire')
         PROVE  /\ wire'[i].id = Len(issued) - Len(obuf) - Len(wire') + i
                /\ wire'[i].kind \in {"command", "silent"}
    <3>1. i \in 1 .. Len(wire) - 1 /\ i + 1 \in 1 .. Len(wire)
      BY <2>2
    <3>2. Len(issued) - Len(obuf) - Len(wire) + (i + 1) = Len(issued) - Len(obuf) - Len(wire') + i
      BY <2>2, <3>1, Lengths
    <3>3. wire'[i] = wire[i + 1]
      BY <2>2, <3>1
    <3> QED BY <1>1, <1>3, <3>1, <3>2, <3>3 DEF Outgoing
  <2>11. Outgoing'
    BY <1>1, <1>3, <2>1, <2>5, <2>10 DEF Outgoing
  <2> QED BY <2>9, <2>11
<1>12. CASE Corrupt
  <2> DEFINE r == PlainReply("bad", 0)
  <2>1. peer = "up" /\ sock' = Append(sock, r) /\ UNCHANGED <<peer, wire, srvSubs, srvMode>>
    BY <1>12 DEF Corrupt
  <2>2. r \in Reply /\ r.type = "bad"
    BY PlainReplyType DEF PlainReply, ReplyTypes, PubSubTypes
  <2> HIDE DEF r
  <2>3. Aligned'
    BY <1>1, <1>3, <2>1, <2>2, ServerSends, Lengths
  <2> QED BY <1>1, <1>3, <2>1, <2>3 DEF Outgoing
<1>13. CASE Close
  <2>1. /\ peer = "up" /\ peer' = "closed" /\ wire' = <<>>
        /\ UNCHANGED <<sock, srvSubs, srvMode>>
    BY <1>13 DEF Close
  <2>2. UNCHANGED Incoming /\ ~TurnedAway /\ Len(wire') = 0
    BY <1>1, <2>1 DEF Incoming, TurnedAway
  <2>3. Aligned'
    BY <1>1, <1>3, <2>1, <2>2 DEF Aligned, AllData
  <2> QED BY <1>1, <1>3, <2>1, <2>2, <2>3 DEF Outgoing
<1> QED BY <1>5, <1>9, <1>10, <1>11, <1>12, <1>13 DEF Environment, ServerNext

LEMMA QueueStep ==
    ASSUME RegularOnly, TypeInv, QueueInv, [Next]_vars
    PROVE  QueueInv'
<1>1. TypeInv'
  BY TypeNext
<1>2. ~TeardownInvalid /\ ~TeardownSubs
  BY DEF TeardownInvalid, TeardownSubs, QueueInv, OrderInv
<1>3. CASE \E n \in 0 .. Len(sock) : BufferRead(n)
  BY <1>3, QueueRead
<1>4. CASE \E n \in 0 .. Len(obuf) : BufferWrite(n)
  BY <1>4, QueueWrite
<1> QED BY <1>1, <1>2, <1>3, <1>4, QuietLoop, QueueCommand, QueueProcess, QueueTeardown,
           QueueEnvironment DEF Next, AppNext, LoopNext

-----------------------------------------------------------------------------
(* What follows for an application that issues regular commands only. *)

LEMMA QueueInvariant ==
    ASSUME RegularOnly
    PROVE  Spec => [](TypeInv /\ QueueInv)
<1>1. TypeInv /\ QueueInv /\ [Next]_vars => QueueInv'
  BY QueueStep
<1> QED BY <1>1, QueueInit, TypeInit, TypeNext, PTL DEF Spec

\* Each callback is given the reply to its own command, NULL, or, if it is the
\* first, the error of a server that turned the client away: no interleaving of
\* partial reads and writes, commands issued from callbacks, protocol errors and
\* disconnects shifts the replies against the callbacks (redisProcessCallbacks).
THEOREM RepliesMatch ==
    ASSUME RegularOnly
    PROVE  Spec => []RightCallback
<1>1. TypeInv /\ QueueInv => RightCallback
  <2> SUFFICES ASSUME QueueInv, NEW i \in 1 .. Len(ran)
               PROVE  LET c == issued[ran[i].cb]
                          reply == ran[i].reply
                      IN  /\ reply.type = "data" => reply.id = c.id
                          /\ reply.type = "error" => reply.id = c.id \/ (reply.id = 0 /\ c.id = 1)
                          /\ reply.type \in PubSubTypes =>
                                c.kind = "subscribe" /\ reply.topic \in TopicSet(c)
                          /\ reply.type = "line" => c.kind = "monitor"
    BY DEF RightCallback
  <2>1. ran[i].cb \in 1 .. Len(issued) /\ Given(ran[i])
    BY DEF QueueInv, Answered
  <2>2. issued[ran[i].cb].id = ran[i].cb
    BY <2>1 DEF QueueInv, Consecutive
  <2>3. NullReply.type = "null"
    BY DEF NullReply, PlainReply
  <2> QED BY <2>1, <2>2, <2>3 DEF Given, PubSubTypes
<1> QED BY <1>1, QueueInvariant, PTL

\* A disconnect that the disconnect callback is told was clean, and that no
\* redisAsyncFree caused, has run the callback of every command with a reply:
\* whatever the connection went through before (redisAsyncDisconnect,
\* __redisAsyncDisconnect, __redisAsyncFree).
THEOREM CleanDisconnectAnswersAll ==
    ASSUME RegularOnly
    PROVE  Spec => []CleanDisconnect
<1>1. TypeInv /\ QueueInv => CleanDisconnect
  <2> SUFFICES ASSUME TypeInv, QueueInv, status = "ok", "FREEING" \notin flags,
                      NEW id \in 1 .. Len(issued), issued[id].kind = "command"
               PROVE  \E i \in 1 .. Len(ran) : ran[i].cb = id /\ ran[i].reply # NullReply
    BY DEF CleanDisconnect
  <2>1. acErr = "ok" /\ Released
    BY DEF QueueInv, CleanEnd, Released
  <2>2. /\ replies = <<>>
        /\ \A i \in 1 .. Len(ran) : ran[i].reply # NullReply
    BY <2>1 DEF QueueInv, CleanEnd
  <2>3. id \in 1 .. Len(issued) - Len(replies)
    <3>1. Len(replies) = 0
      BY <2>2
    <3> QED BY <3>1, Lengths
  <2>4. PICK i \in 1 .. Len(ran) : ran[i].cb = id
    BY <2>3 DEF QueueInv, Answered
  <2> QED BY <2>2, <2>4
<1> QED BY <1>1, QueueInvariant, PTL

\* REDIS_DISCONNECTING is set by an error only, which ends the connection at once.
ClosingReleased ==
    /\ "DISCONNECTING" \in flags => Released
    /\ NoAssertFails

\* A disconnect that an error causes aborts nothing, and releases the context.
LEMMA DisconnectCloses ==
    ASSUME NEW f \in SUBSET Flags, NEW e \in Errors, NEW frame,
           AsyncDisconnect(f, e, frame), e # "ok"
    PROVE  ClosingReleased'
  BY DEF AsyncDisconnect, ClosingReleased, NoAssertFails, Released

\* Without redisAsyncDisconnect a step that finds every reply expected, and a
\* reason where a connection failed, aborts nothing.
LEMMA ClosingStep ==
    ASSUME TypeInv, ClosingReleased, [Next]_vars,
           "disconnect" \notin AppCalls \cup ConnectCalls,
           pc = "onConnectErr" /\ ctx = "live" => err # "ok",
           ProcessReply => ~SpontaneousUnexpected(Head(rbuf))
    PROVE  ClosingReleased'
<1>0. flags \in SUBSET Flags /\ {"io", "eof", "protocol", "other"} \subseteq Errors
  BY DEF TypeInv, TypeOK, Errors
<1>1. CASE Environment \/ Commands \/ SetConnectCallback \/ SetDisconnectCallback \/ UNCHANGED vars
  <2>1. UNCHANGED <<ctx, controlVars>> /\ ("DISCONNECTING" \in flags' => "DISCONNECTING" \in flags)
    BY <1>1 DEF Environment, Commands, AsyncCommand, RegisterCallback, SetConnectCallback,
                SetDisconnectCallback, vars, clientVars
  <2> QED BY <2>1 DEF controlVars, ClosingReleased, NoAssertFails, Released
<1>2. ~Disconnect
  BY DEF Disconnect, InApp
<1>3. CASE Free
  <2>1. /\ UNCHANGED <<ctx, back>>
        /\ flags' = flags \cup {"FREEING"}
        /\ pc' = pc \/ pc' = "teardown"
    BY <1>3 DEF Free
  <2> QED BY <2>1 DEF ClosingReleased, NoAssertFails, Released
<1>4. CASE ReadEvent \/ WriteEvent
  <2>1. PICK h \in {"read", "write"} : Handle(h) /\ pc = "idle" /\ ctx = "live"
    BY <1>4 DEF ReadEvent, WriteEvent
  <2>2. "DISCONNECTING" \notin flags
    BY <2>1 DEF ClosingReleased, Released
  <2>3. CASE AsyncDisconnect(flags, "io", "idle")
    BY <1>0, <2>3, DisconnectCloses
  <2>4. CASE ~AsyncDisconnect(flags, "io", "idle")
    <3>1. flags' \in {flags, flags \cup {"CONNECTED"}} /\ pc' # "aborted"
      BY <2>1, <2>4 DEF Handle, HandleConnect
    <3> QED BY <2>2, <3>1 DEF ClosingReleased, NoAssertFails
  <2> QED BY <2>3, <2>4
<1>5. CASE ConnectCallbackReturns
  <2>1. CASE ctx = "freed"
    BY <1>5, <2>1 DEF ConnectCallbackReturns, ClosingReleased, NoAssertFails, Released
  <2>2. CASE ctx # "freed" /\ pc = "onConnect"
    <3>1. "DISCONNECTING" \notin flags /\ flags' = flags /\ pc' = handler
      BY <1>5, <2>2 DEF ConnectCallbackReturns, ClosingReleased, Released
    <3> QED BY <3>1 DEF ClosingReleased, NoAssertFails, TypeInv, TypeOK
  <2>3. CASE ctx # "freed" /\ pc # "onConnect"
    <3>1. AsyncDisconnect(flags, err, "idle") /\ err # "ok" /\ err \in Errors
      BY <1>5, <2>3 DEF ConnectCallbackReturns, TypeInv, TypeOK
    <3> QED BY <1>0, <3>1, DisconnectCloses
  <2> QED BY <2>1, <2>2, <2>3
<1>6. CASE BufferFails
  <2>1. AsyncDisconnect(flags, err', "idle") /\ err' # "ok" /\ err' \in Errors
    BY <1>0, <1>6 DEF BufferFails, TypeInv, TypeOK
  <2> QED BY <1>0, <2>1, DisconnectCloses
<1>7. CASE \/ \E n \in 0 .. Len(sock) : BufferRead(n)
           \/ \E n \in 0 .. Len(obuf) : BufferWrite(n)
  <2>1. /\ pc \in {"read", "write"} /\ pc' \in {"process", "idle"}
        /\ UNCHANGED <<flags, ctx>>
    BY <1>7 DEF BufferRead, BufferWrite
  <2>2. "DISCONNECTING" \notin flags
    BY <2>1 DEF ClosingReleased, Released, TypeInv, ControlOK
  <2> QED BY <2>1, <2>2 DEF ClosingReleased, NoAssertFails
<1>8. CASE NoMoreReplies \/ ProtocolError \/ ProcessReply
  <2>1. pc = "process" /\ ctx = "live"
    BY <1>8 DEF NoMoreReplies, ProtocolError, ProcessReply, TypeInv, TypeOK, ControlOK
  <2>2. "DISCONNECTING" \notin flags /\ ~Released
    BY <2>1 DEF ClosingReleased, Released
  <2>3. CASE NoMoreReplies
    BY <2>2, <2>3 DEF NoMoreReplies, DisconnectDue, ClosingReleased, NoAssertFails
  <2>4. CASE ProtocolError
    <3>1. AsyncDisconnect(flags, "protocol", "idle")
      BY <2>4 DEF ProtocolError
    <3> QED BY <1>0, <3>1, DisconnectCloses
  <2>5. CASE ProcessReply
    <3>1. CASE ReplyToPending(Head(rbuf))
      BY <2>2, <3>1 DEF ReplyToPending, RunCallback, ClosingReleased, NoAssertFails
    <3>2. CASE SpontaneousError(Head(rbuf))
      <4>1. AsyncDisconnect(flags, "other", "idle")
        BY <3>2 DEF SpontaneousError
      <4> QED BY <1>0, <4>1, DisconnectCloses
    <3>3. CASE ReplyToSubscriber(Head(rbuf)) \/ ReplyToMonitor(Head(rbuf))
      BY <2>2, <3>3 DEF ReplyToSubscriber, ReplyToMonitor, RunCallback, ClosingReleased, NoAssertFails
    <3> QED BY <2>5, <3>1, <3>2, <3>3 DEF ProcessReply
  <2> QED BY <1>8, <2>3, <2>4, <2>5
<1>9. CASE CallbackReturns
  <2>1. /\ pc = "callback" /\ ctx = "live"
        /\ flags' = flags \ {"IN_CALLBACK"}
        /\ pc' \in {"teardown", back} /\ back \in {"process", "teardown"}
        /\ UNCHANGED ctx
    BY <1>9 DEF CallbackReturns, TypeInv, TypeOK, ControlOK
  <2> QED BY <2>1 DEF ClosingReleased, NoAssertFails, Released
<1>10. CASE TeardownReplies \/ TeardownInvalid \/ TeardownSubs
  <2>1. pc' = "teardown" \/ (pc' = "callback" /\ back' = "teardown")
    BY <1>10 DEF TeardownReplies, TeardownInvalid, TeardownSubs, RunCallback
  <2> QED BY <2>1 DEF ClosingReleased, NoAssertFails, Released
<1>11. CASE TeardownEnds \/ DisconnectCallbackReturns
  <2>1. pc' = "onDisconnect" \/ (ctx' = "freed" /\ pc' \in {"idle", "onConnect", "onConnectErr"})
    BY <1>11 DEF TeardownEnds, DisconnectCallbackReturns, FreeContext, TypeInv, ControlOK
  <2> QED BY <2>1 DEF ClosingReleased, NoAssertFails, Released
<1> QED BY <1>1, <1>2, <1>3, <1>4, <1>5, <1>6, <1>7, <1>8, <1>9, <1>10, <1>11
           DEF Next, AppNext, LoopNext

\* Without redisAsyncDisconnect, and with regular commands only, no assert() of
\* src/async.c can fail: not that of redisProcessCallbacks, which trusts the
\* server to send nothing that was not asked for, nor that of
\* __redisAsyncDisconnect, which trusts its callers to have emptied ac->replies.
THEOREM AssertsHold ==
    ASSUME RegularOnly, "disconnect" \notin AppCalls \cup ConnectCalls
    PROVE  Spec => []NoAssertFails
<1>1. Init => ClosingReleased
  BY DEF Init, ClosingReleased, NoAssertFails
<1>2. TypeInv /\ QueueInv /\ ClosingReleased /\ [Next]_vars => ClosingReleased'
  <2> SUFFICES ASSUME TypeInv, QueueInv, ClosingReleased, [Next]_vars PROVE ClosingReleased'
    OBVIOUS
  <2>1. pc = "onConnectErr" /\ ctx = "live" => err # "ok"
    BY DEF QueueInv, Phases
  <2>2. ASSUME ProcessReply PROVE ~SpontaneousUnexpected(Head(rbuf))
    <3>1. rbuf # <<>> /\ Head(rbuf).type # "bad" /\ pc = "process" /\ ctx = "live"
      BY <2>2 DEF ProcessReply, TypeInv, TypeOK, ControlOK
    <3>2. ~Released
      BY <3>1 DEF Released
    <3>3. \/ TurnedAway /\ Head(rbuf) = Incoming[1]
          \/ Len(replies) >= 1
      BY <3>1, <3>2, HeadOfIncoming
    <3> QED BY <3>3, Lengths DEF SpontaneousUnexpected, TurnedAway
  <2> QED BY <2>1, <2>2, ClosingStep
<1>3. Init => QueueInv
  BY QueueInit
<1>4. TypeInv /\ QueueInv /\ [Next]_vars => QueueInv'
  BY QueueStep
<1>5. ClosingReleased => NoAssertFails
  BY DEF ClosingReleased
<1> QED BY <1>1, <1>2, <1>3, <1>4, <1>5, TypeInit, TypeNext, PTL DEF Spec

-----------------------------------------------------------------------------
(* RedisAsync implements ReplyQueue. *)

\* What the callbacks were given, as the refinement mapping tells it.
Delivered == [i \in 1 .. Len(ran) |-> [id |-> ran[i].cb, answer |-> Answer(ran[i])]]

Runs == [cb : Nat, reply : Reply \cup {NullReply}]
Deliveries == [id : Nat, answer : {"null", "own", "refusal", "foreign"}]

LEMMA MappedRuns ==
    ASSUME NEW s \in Seq(Runs)
    PROVE  LET m == [i \in 1 .. Len(s) |-> [id |-> s[i].cb, answer |-> Answer(s[i])]]
           IN  /\ Len(m) = Len(s)
               /\ m \in Seq(Deliveries)
               /\ \A i \in 1 .. Len(s) : m[i] = [id |-> s[i].cb, answer |-> Answer(s[i])]
<1> DEFINE m == [i \in 1 .. Len(s) |-> [id |-> s[i].cb, answer |-> Answer(s[i])]]
<1>1. Len(s) \in Nat
  OBVIOUS
<1>2. \A i \in 1 .. Len(s) : s[i].cb \in Nat
  BY ElementType, CallbackField DEF Runs
<1>3. \A i \in 1 .. Len(s) : Answer(s[i]) \in {"null", "own", "refusal", "foreign"}
  BY DEF Answer
<1>4. m \in [1 .. Len(s) -> Deliveries]
  BY <1>2, <1>3 DEF Deliveries
<1> QED BY <1>1, <1>4

LEMMA RunsType ==
    ASSUME TypeInv
    PROVE  ran \in Seq(Runs)
  BY DEF TypeInv, TypeOK, Runs

\* Until __redisAsyncFree runs no callback has been given NULL.
LEMMA NotEnded ==
    ASSUME TypeInv, QueueInv, ~Released
    PROVE  ~Queue!Ended
<1>1. \A i \in 1 .. Len(ran) : ran[i].reply # NullReply
  BY DEF QueueInv, Answered
<1>2. ASSUME NEW i \in 1 .. Len(ran) PROVE Delivered[i].answer # "null"
  <2>1. Answer(ran[i]) # "null"
    BY <1>1 DEF Answer
  <2>2. Delivered[i] = [id |-> ran[i].cb, answer |-> Answer(ran[i])]
    BY DEF Delivered
  <2> QED BY <2>1, <2>2
<1>3. Queue!Ended <=> \E i \in 1 .. Len(Delivered) : Delivered[i].answer = "null"
  BY DEF Queue!Ended, Delivered
<1>4. Len(Delivered) = Len(ran)
  BY RunsType, MappedRuns DEF Delivered
<1> QED BY <1>2, <1>3, <1>4

LEMMA AbstractInit == Init => Queue!QueueInit
<1> SUFFICES ASSUME Init PROVE Queue!QueueInit
  OBVIOUS
<1>1. Len(issued) = 0 /\ Len(ran) = 0 /\ replies = <<>> /\ ctx = "live"
  BY DEF Init
<1>2. Delivered = <<>>
  BY <1>1 DEF Delivered
<1> QED BY <1>1, <1>2 DEF Queue!QueueInit, Delivered

LEMMA AbstractStutter ==
    ASSUME UNCHANGED <<issued, ran, replies, ctx>>
    PROVE  UNCHANGED Queue!queueVars
  BY DEF Queue!queueVars, Answer

LEMMA AbstractAccept ==
    ASSUME RegularOnly, TypeInv, QueueInv, Commands
    PROVE  Queue!Accept
<1>1. PICK kind \in Kinds, topics \in Seq(Topics) : AsyncCommand(kind, topics)
  BY CommandArguments
<1>2. kind \in {"command", "silent"}
  BY <1>1 DEF AsyncCommand, InApp, RegularOnly, Kinds
<1> DEFINE c == [id |-> Len(issued) + 1, kind |-> kind, topics |-> topics]
           mute == {i \in 1 .. Len(issued) : issued[i].kind = "silent"}
<1>3. /\ replies' = Append(replies, Len(issued) + 1)
      /\ issued' = Append(issued, c)
      /\ UNCHANGED <<ran, ctx>>
      /\ ctx = "live"
      /\ flags \cap {"DISCONNECTING", "FREEING"} = {}
  BY <1>1, <1>2 DEF AsyncCommand, RegisterCallback, PushCallback, QueueInv, OrderInv, InApp
<1>4. ~Released
  BY <1>3 DEF QueueInv, Phases
<1>5. issued \in Seq(Command) /\ c \in Command
  BY CommandType DEF TypeInv, TypeOK
<1> HIDE DEF c
<1>6. /\ Len(issued') = Len(issued) + 1
      /\ \A i \in 1 .. Len(issued) : issued'[i] = issued[i]
      /\ \A i \in 1 .. Len(issued) + 1 : i \in 1 .. Len(issued) \/ i = Len(issued) + 1
      /\ Len(issued) \in Nat
  BY <1>3, <1>5, AppendFacts, Lengths
<1>7. mute' = mute \/ mute' = mute \cup {Len(issued')}
  <2>1. \A i \in 1 .. Len(issued) : i \in 1 .. Len(issued')
    BY <1>6
  <2>2. CASE issued'[Len(issued) + 1].kind = "silent"
    <3>1. Len(issued) + 1 \in 1 .. Len(issued')
      BY <1>6
    <3> QED BY <1>6, <2>1, <2>2, <3>1
  <2>3. CASE issued'[Len(issued) + 1].kind # "silent"
    BY <1>6, <2>1, <2>3
  <2> QED BY <2>2, <2>3
<1>8. ~Queue!Ended
  BY <1>4, NotEnded
<1>9. replies' = Append(replies, Len(issued'))
  BY <1>3, <1>6
<1>10. UNCHANGED Delivered
  BY <1>3 DEF Delivered, Answer
<1> QED BY <1>3, <1>6, <1>7, <1>8, <1>9, <1>10 DEF Queue!Accept, Delivered

\* Taking the first callback off ac->replies is a turn of the queue.
LEMMA AbstractShift ==
    ASSUME TypeInv, TypeInv', QueueInv, ctx = "live", UNCHANGED <<issued, ctx>>,
           replies # <<>>, replies' = Tail(replies),
           NEW reply \in Reply \cup {NullReply}, NEW frame,
           RunCallback(flags, Head(replies), reply, frame),
           \/ reply = NullReply
           \/ /\ ~Released
              /\ reply # NullReply
              /\ Given([cb |-> Head(replies), reply |-> reply])
    PROVE  Queue!Reply \/ Queue!Null \/ Queue!Skip
<1> DEFINE h == Head(replies)
           r == [cb |-> Head(replies), reply |-> reply]
           mute == {i \in 1 .. Len(issued) : issued[i].kind = "silent"}
           d == [id |-> h, answer |-> Answer(r)]
<1>1. /\ h \in 1 .. Len(issued)
      /\ h \in Nat
  <2>1. replies \in Seq(Nat) /\ Len(replies) \in Nat \ {0} /\ h = replies[1]
    BY TailFacts DEF TypeInv, TypeOK
  <2>2. Len(replies) <= Len(issued) /\ h = Len(issued) - Len(replies) + 1
    BY <2>1 DEF QueueInv, Consecutive
  <2> QED BY <2>1, <2>2, Lengths
<1>2. mute' = mute
  OBVIOUS
<1>3. CASE ~HasFn(h)
  <2>1. ran' = ran /\ h \in mute
    BY <1>1, <1>3 DEF RunCallback, HasFn
  <2>2. UNCHANGED Delivered
    BY <2>1 DEF Delivered, Answer
  <2> QED BY <1>2, <2>1, <2>2 DEF Queue!Skip, Delivered
<1>4. CASE HasFn(h)
  <2>1. ran' = Append(ran, r) /\ h \notin mute
    BY <1>4 DEF RunCallback, HasFn
  <2>2. r \in Runs /\ r.cb = h /\ r.reply = reply
    BY <1>1 DEF Runs
  <2>3. ran \in Seq(Runs)
    BY RunsType
  <2>4. Answer(r) \in {"null", "own", "refusal", "foreign"}
    BY DEF Answer
  <2>5. d \in Deliveries /\ d.id = h /\ d.answer = Answer(r)
    BY <1>1, <2>4 DEF Deliveries
  <2> HIDE DEF r, h, d
  <2>6. /\ Len(ran') = Len(ran) + 1
        /\ \A i \in 1 .. Len(ran) : ran'[i] = ran[i]
        /\ ran'[Len(ran) + 1] = r
        /\ \A i \in 1 .. Len(ran) + 1 : i \in 1 .. Len(ran) \/ i = Len(ran) + 1
        /\ Len(ran) \in Nat
    BY <2>1, <2>2, <2>3, AppendFacts, Lengths
  <2>7. Delivered' = Append(Delivered, d)
    <3>1. Delivered \in Seq(Deliveries) /\ Len(Delivered) = Len(ran)
      BY <2>3, MappedRuns DEF Delivered
    <3>2. Delivered' \in Seq(Deliveries) /\ Len(Delivered') = Len(ran')
      <4>1. ran' \in Seq(Runs)
        BY <2>1, <2>2, <2>3, AppendType
      <4> QED BY <4>1, MappedRuns DEF Delivered, Answer
    <3>3. Append(Delivered, d) \in Seq(Deliveries)
      BY <2>5, <3>1, AppendType
    <3>4. /\ Len(Append(Delivered, d)) = Len(ran) + 1
          /\ \A i \in 1 .. Len(ran) : Append(Delivered, d)[i] = Delivered[i]
          /\ Append(Delivered, d)[Len(ran) + 1] = d
      BY <2>5, <3>1, AppendFacts
    <3>5. \A i \in 1 .. Len(ran') :
             Delivered'[i] = [id |-> ran'[i].cb, answer |-> Answer(ran'[i])]
      BY DEF Delivered, Answer
    <3>6. \A i \in 1 .. Len(ran) : Delivered[i] = [id |-> ran[i].cb, answer |-> Answer(ran[i])]
      BY DEF Delivered
    <3>7. ASSUME NEW i \in 1 .. Len(Delivered') PROVE Delivered'[i] = Append(Delivered, d)[i]
      <4>1. i \in 1 .. Len(ran')
        BY <3>2
      <4>2. CASE i \in 1 .. Len(ran)
        BY <2>6, <3>4, <3>5, <3>6, <4>1, <4>2
      <4>3. CASE i = Len(ran) + 1
        <5>1. d = [id |-> r.cb, answer |-> Answer(r)]
          BY <2>2 DEF d
        <5> QED BY <2>6, <3>4, <3>5, <4>1, <4>3, <5>1
      <4> QED BY <2>6, <4>1, <4>2, <4>3
    <3> QED BY <2>6, <3>2, <3>3, <3>4, <3>7, SameSeq
  <2>8. CASE reply = NullReply
    <3>1. d = [id |-> Head(replies), answer |-> "null"]
      BY <2>2, <2>8 DEF Answer, d, h, NullReply, PlainReply
    <3>2. Queue!Deliver("null")
      BY <1>2, <2>1, <2>7, <3>1 DEF Queue!Deliver, Delivered, h
    <3> QED BY <3>2 DEF Queue!Null
  <2>9. CASE reply # NullReply
    <3>1. ~Queue!Ended
      BY <2>9, NotEnded
    <3>2. Given(r)
      BY <2>9 DEF r
    <3>3. Answer(r) = "own" \/ (Answer(r) = "refusal" /\ h = 1)
      BY <2>2, <2>9, <3>2 DEF Answer, Given
    <3>4. CASE Answer(r) = "own"
      <4>1. d = [id |-> Head(replies), answer |-> "own"]
        BY <3>4 DEF d, h
      <4>2. Queue!Deliver("own")
        BY <1>2, <2>1, <2>7, <4>1 DEF Queue!Deliver, Delivered, h
      <4> QED BY <3>1, <4>2 DEF Queue!Reply
    <3>5. CASE Answer(r) = "refusal" /\ h = 1
      <4>1. d = [id |-> Head(replies), answer |-> "refusal"]
        BY <3>5 DEF d, h
      <4>2. Queue!Deliver("refusal")
        BY <1>2, <2>1, <2>7, <4>1 DEF Queue!Deliver, Delivered, h
      <4> QED BY <3>1, <3>5, <4>2 DEF Queue!Reply, h
    <3> QED BY <3>3, <3>4, <3>5
  <2> QED BY <2>8, <2>9
<1> QED BY <1>3, <1>4

LEMMA AbstractStep ==
    ASSUME RegularOnly, TypeInv, QueueInv, [Next]_vars
    PROVE  [Queue!QueueNext]_(Queue!queueVars)
<1>1. TypeInv'
  BY TypeNext
<1>2. CASE Commands
  BY <1>2, AbstractAccept DEF Queue!QueueNext
<1>3. CASE ProcessReply
  <2>1. /\ pc = "process" /\ rbuf # <<>> /\ Head(rbuf).type # "bad"
        /\ UNCHANGED <<issued, ctx>>
    BY <1>3 DEF ProcessReply
  <2>2. ctx = "live" /\ ~Released
    BY <2>1 DEF TypeInv, TypeOK, ControlOK, Released
  <2>3. CASE ReplyToPending(Head(rbuf))
    <3>1. /\ replies # <<>> /\ replies' = Tail(replies)
          /\ RunCallback(flags, Head(replies), Head(rbuf), "process")
      BY <2>3 DEF ReplyToPending
    <3>2. Head(rbuf) \in Reply
      BY <2>1, HeadTailType DEF TypeInv, TypeOK
    <3>3. Head(rbuf) # NullReply
      BY <3>2 DEF Reply, NullReply, PlainReply, ReplyTypes
    <3>4. Given([cb |-> Head(replies), reply |-> Head(rbuf)])
      <4>1. replies \in Seq(Nat) /\ Len(replies) \in Nat \ {0} /\ Head(replies) = replies[1]
        BY <3>1, TailFacts DEF TypeInv, TypeOK
      <4>2. Head(replies) = Len(issued) - Len(replies) + 1
        BY <4>1 DEF QueueInv, Consecutive
      <4>3. TurnedAway => Head(replies) = 1
        BY <4>1, <4>2, Lengths DEF TurnedAway
      <4> QED BY <2>1, <2>2, <4>2, <4>3, HeadOfIncoming DEF Given, TurnedAway
    <3> QED BY <1>1, <2>1, <2>2, <3>1, <3>2, <3>3, <3>4, AbstractShift DEF Queue!QueueNext
  <2>4. CASE SpontaneousError(Head(rbuf)) \/ SpontaneousUnexpected(Head(rbuf))
    BY <2>1, <2>4, AbstractStutter DEF SpontaneousError, SpontaneousUnexpected, queues
  <2>5. ~ReplyToSubscriber(Head(rbuf)) /\ ~ReplyToMonitor(Head(rbuf))
    BY DEF ReplyToSubscriber, ReplyToMonitor, QueueInv, OrderInv
  <2> QED BY <1>3, <2>3, <2>4, <2>5 DEF ProcessReply
<1>4. CASE TeardownReplies
  <2>1. /\ pc = "teardown" /\ replies # <<>> /\ replies' = Tail(replies)
        /\ RunCallback(flags, Head(replies), NullReply, "teardown")
        /\ UNCHANGED <<issued, ctx>>
    BY <1>4 DEF TeardownReplies
  <2>2. ctx = "live"
    BY <2>1 DEF TypeInv, TypeOK, ControlOK
  <2> QED BY <1>1, <2>1, <2>2, AbstractShift DEF Queue!QueueNext
<1>5. CASE TeardownEnds \/ DisconnectCallbackReturns
  <2>1. /\ pc \in {"teardown", "onDisconnect"}
        /\ UNCHANGED <<issued, ran, replies>>
        /\ ctx' = ctx \/ ctx' = "freed"
    BY <1>5 DEF TeardownEnds, DisconnectCallbackReturns, FreeContext, queues, historyVars
  <2>2. ctx = "live" /\ replies = <<>>
    BY <1>5, <2>1 DEF TeardownEnds, DisconnectCallbackReturns, TypeInv, TypeOK, ControlOK, QueueInv,
                      Phases
  <2>3. CASE ctx' = ctx
    BY <2>1, <2>3, AbstractStutter
  <2>4. CASE ctx' = "freed"
    <3>1. UNCHANGED Delivered
      BY <2>1 DEF Delivered, Answer
    <3>2. Queue!Vanish
      BY <2>1, <2>2, <2>4, <3>1 DEF Queue!Vanish, Delivered
    <3> QED BY <3>2 DEF Queue!QueueNext
  <2> QED BY <2>1, <2>3, <2>4
<1>6. ~TeardownInvalid /\ ~TeardownSubs
  BY DEF TeardownInvalid, TeardownSubs, QueueInv, OrderInv
<1>7. CASE \/ SetConnectCallback \/ SetDisconnectCallback \/ Disconnect \/ Free
           \/ Environment \/ UNCHANGED vars
  BY <1>7, AbstractStutter
     DEF SetConnectCallback, SetDisconnectCallback, Disconnect, Free, Environment, vars, clientVars,
         queues, historyVars
<1>8. CASE \/ ReadEvent \/ WriteEvent \/ ConnectCallbackReturns \/ BufferFails \/ ProtocolError
           \/ CallbackReturns \/ NoMoreReplies
           \/ \E n \in 0 .. Len(sock) : BufferRead(n)
           \/ \E n \in 0 .. Len(obuf) : BufferWrite(n)
  <2>1. UNCHANGED <<issued, ran, replies, ctx>>
    BY <1>8 DEF ReadEvent, WriteEvent, Handle, ConnectCallbackReturns, BufferFails, ProtocolError,
                CallbackReturns, NoMoreReplies, BufferRead, BufferWrite, queues, historyVars,
                QueueInv, OrderInv
  <2> QED BY <2>1, AbstractStutter
<1> QED BY <1>2, <1>3, <1>4, <1>5, <1>6, <1>7, <1>8 DEF Next, AppNext, LoopNext

\* The asynchronous connection implements the queue of ReplyQueue for every
\* application that issues regular commands only, every number of them, and
\* every behaviour of the server and of the network: callbacks run in order,
\* once, with their own replies until the first NULL, and none is left behind
\* when the context is freed.
THEOREM Refinement ==
    ASSUME RegularOnly
    PROVE  Spec => ImplementsQueue
<1>1. Init => Queue!QueueInit
  BY AbstractInit
<1>2. TypeInv /\ QueueInv /\ [Next]_vars => [Queue!QueueNext]_(Queue!queueVars)
  BY AbstractStep
<1>3. TypeInv /\ QueueInv /\ [Next]_vars => QueueInv'
  BY QueueStep
<1> QED BY <1>1, <1>2, <1>3, QueueInit, TypeInit, TypeNext, PTL
           DEF Spec, ImplementsQueue, Queue!QueueSpec

-----------------------------------------------------------------------------
(***************************************************************************)
(* Subscriptions: what an application that subscribes is promised, for     *)
(* every number of topics and commands, if it keeps to what src/async.c    *)
(* supports.  What it believes of its subscriptions is what the server     *)
(* does, no message goes to a callback of another topic, and every         *)
(* subscriber learns of the end.                                           *)
(*                                                                         *)
(* The argument is about order.  An unsubscribe that is not confirmed is   *)
(* followed by others only; so no topic is registered while it is under    *)
(* way, and the server, when it counts what is left, knows of every        *)
(* subscription that the client knows of.                                  *)
(***************************************************************************)
\* The calls of (P)SUBSCRIBE and (P)UNSUBSCRIBE name topics, each once.
Supports ==
    /\ Polite
    /\ \A l \in TopicLists :
          l # <<>> /\ \A i, j \in 1 .. Len(l) : l[i] = l[j] => i = j

-----------------------------------------------------------------------------
(* What the commands say. *)

Names(i, t) == \E k \in 1 .. Len(issued[i].topics) : issued[i].topics[k] = t

Subscribes(i, t) == issued[i].kind = "subscribe" /\ Names(i, t)

Unsubscribes(i, t) == issued[i].kind = "unsubscribe" /\ Names(i, t)

Regular(i) == issued[i].kind \in {"command", "silent"}

\* Topic t is subscribed to when the first n commands have been executed.
On(n, t) ==
    \E i \in 1 .. n : Subscribes(i, t) /\ \A j \in i + 1 .. n : ~Unsubscribes(j, t)

\* A regular command that follows a subscription.
Late(i) == Regular(i) /\ \E t \in Topics : On(i - 1, t)

Monitored == Len(issued) = 1 /\ issued[1].kind = "monitor"

\* The application has seen the reply of command j for topic t.
Confirmed(j, t) ==
    \E n \in 1 .. Len(ran) :
        ran[n].reply.type = "unsubscribe" /\ ran[n].reply.id = j /\ ran[n].reply.topic = t

\* The number of commands that the server has executed.
Served == Len(issued) - Len(obuf) - Len(wire)

-----------------------------------------------------------------------------
(* The invariant. *)

\* The commands carry their numbers, also on their way.
Numbered ==
    /\ \A i \in 1 .. Len(issued) :
          /\ issued[i].id = i
          /\ issued[i].kind \in {"subscribe", "unsubscribe"} =>
                /\ issued[i].topics # <<>>
                /\ \A k, l \in 1 .. Len(issued[i].topics) :
                      issued[i].topics[k] = issued[i].topics[l] => k = l
    /\ Monitored \/ \A i \in 1 .. Len(issued) : issued[i].kind # "monitor"
    /\ Len(obuf) <= Len(issued)
    /\ \A i \in 1 .. Len(obuf) : obuf[i] = issued[Len(issued) - Len(obuf) + i]
    /\ peer # "up" => wire = <<>>
    /\ ~Released =>
          /\ Served >= 0
          /\ \A i \in 1 .. Len(wire) : wire[i] = issued[Served + i]

\* No command but another unsubscribe follows one that is not confirmed; and
\* between two of one topic it was subscribed to again.
Patient ==
    /\ \A j \in 1 .. Len(issued) : \A t \in Topics : Unsubscribes(j, t) /\ ~Confirmed(j, t) =>
          \A i \in j + 1 .. Len(issued) : issued[i].kind = "unsubscribe"
    /\ \A j, l \in 1 .. Len(issued) : \A t \in Topics :
          j < l /\ Unsubscribes(j, t) /\ Unsubscribes(l, t) => \E i \in j + 1 .. l - 1 : Subscribes(i, t)

\* A topic is registered for the last command that subscribed to it.
Registered ==
    \A t \in Topics : subs[t] # 0 =>
        /\ subs[t] \in 1 .. Len(issued)
        /\ Subscribes(subs[t], t)
        /\ \A i \in subs[t] + 1 .. Len(issued) : ~Subscribes(i, t)

\* It stays so until the end is confirmed.
Lasting ==
    \A t \in Topics :
        /\ \A i \in 1 .. Len(issued) : Subscribes(i, t) =>
              subs[t] >= i \/ \E j \in i + 1 .. Len(issued) : Unsubscribes(j, t) /\ Confirmed(j, t)
        /\ \A j \in 1 .. Len(issued) : Unsubscribes(j, t) /\ Confirmed(j, t) => subs[t] = 0 \/ subs[t] > j
        /\ \A j \in 1 .. Len(issued) : Unsubscribes(j, t) /\ ~Confirmed(j, t) => subs[t] # 0 /\ subs[t] < j

\* What was confirmed had been asked for.
Asked ==
    \A n \in 1 .. Len(ran) : ran[n].reply.type = "unsubscribe" =>
        ran[n].reply.id \in 1 .. Len(issued) /\ Unsubscribes(ran[n].reply.id, ran[n].reply.topic)

\* The flag REDIS_SUBSCRIBED.
Flagged ==
    /\ "SUBSCRIBED" \in flags => \E t \in Topics : subs[t] # 0
    /\ (\E t \in Topics : subs[t] # 0) => "SUBSCRIBED" \in flags
    /\ "MONITORING" \in flags => Monitored
    /\ Monitored => "MONITORING" \in flags

\* The server can still be asked.
Open == peer \in {"connecting", "up"}

\* The server.
ServerSide ==
    /\ peer = "connecting" =>
          Len(obuf) = Len(issued) /\ Len(Incoming) = 0 /\ Len(ran) = 0 /\ srvMode = "normal"
    /\ srvMode = "monitor" => Monitored
    /\ Open =>
          /\ \A t \in srvSubs : On(Served, t)
          /\ \A t \in Topics : On(Served, t) => t \in srvSubs
          /\ \A j \in 1 .. Len(issued) : \A t \in Topics :
                Unsubscribes(j, t) /\ Confirmed(j, t) => j <= Served

\* No reply was processed yet.
Fresh ==
    /\ replies = <<>> => Len(issued) = 0 \/ "SUBSCRIBED" \in flags
    /\ replies # <<>> => replies[1] = 1

Rejected ==
    /\ peer = "closed"
    /\ Len(Incoming) = 1
    /\ Incoming[1].type = "error"
    /\ Incoming[1].id = 0

Start == peer = "connecting" \/ Rejected => Fresh

\* An unsubscribe reply for topic t is on its way.
Ends(k, t) == Incoming[k].type = "unsubscribe" /\ Incoming[k].topic = t

\* What the client holds of topic t ends with the first k replies.
EndsBy(k, t) == \E l \in 1 .. k : Ends(l, t)

\* The k-th reply answers an unsubscribe that has not been confirmed, and counts
\* what is left as the client will.
LeavingAt(k) ==
    /\ Incoming[k].id \in 1 .. Len(issued)
    /\ Open => Incoming[k].id <= Served
    /\ Unsubscribes(Incoming[k].id, Incoming[k].topic)
    /\ ~Confirmed(Incoming[k].id, Incoming[k].topic)
    /\ Incoming[k].last => \A t \in Topics : subs[t] # 0 => EndsBy(k, t)
    /\ (\A t \in Topics : subs[t] # 0 => EndsBy(k, t)) => Incoming[k].last

\* The unsubscribe replies under way.
Leaving ==
    /\ \A k \in 1 .. Len(Incoming) : Incoming[k].type = "unsubscribe" => LeavingAt(k)
    /\ \A k, l \in 1 .. Len(Incoming) : \A t \in Topics : Ends(k, t) /\ Ends(l, t) => k = l
    /\ Open => \A j \in 1 .. Len(issued) : \A t \in Topics :
          j <= Served /\ Unsubscribes(j, t) /\ ~Confirmed(j, t) => EndsBy(Len(Incoming), t)

\* The other replies to a subscriber come before the one that ends it.
Staying ==
    \A k \in 1 .. Len(Incoming) : Incoming[k].type \in {"subscribe", "message"} =>
        subs[Incoming[k].topic] # 0 /\ ~EndsBy(k, Incoming[k].topic)

\* A server refuses regular commands of a subscriber.
RefusingAt(k) ==
    LET c == Incoming[k].id
    IN  /\ c \in 1 .. Len(issued)
        /\ Late(c)
        /\ \A j \in c + 1 .. Len(issued) : \A t \in Topics : ~Confirmed(j, t)
        /\ \A l \in 1 .. k : Incoming[l].type = "unsubscribe" => Incoming[l].id < c

Refusing ==
    \A k \in 1 .. Len(Incoming) : Incoming[k].type = "error" => Rejected \/ RefusingAt(k)

\* Nothing before the k-th reply ends the connection.
Clean(k) == \A l \in 1 .. k - 1 : Incoming[l].type \notin {"bad", "error"}

\* The callbacks of ac->replies are those of the regular commands that do not
\* follow a subscription, in order.
Queued ==
    /\ \A k \in 1 .. Len(replies) : replies[k] \in 1 .. Len(issued) /\ Regular(replies[k]) /\ ~Late(replies[k])
    /\ \A k, l \in 1 .. Len(replies) : k < l => replies[k] < replies[l]

\* The replies they wait for come first.
DealtAt(k) ==
    \/ Incoming[k].type = "bad"
    \/ Rejected
    \/ k <= Len(replies) /\ Incoming[k].type = "data" /\ Incoming[k].id = replies[k]
    \/ k > Len(replies) /\ Incoming[k].type \in PubSubTypes \cup {"error"}

\* What the server has executed has been answered.
Complete ==
    /\ \A k \in 1 .. Len(replies) : k <= Len(Incoming) => replies[k] <= Served
    /\ \A k \in 1 .. Len(replies) : k > Len(Incoming) => replies[k] > Served
    /\ \A c \in Served + 1 .. Len(issued) : Regular(c) /\ ~Late(c) =>
          \E k \in 1 .. Len(replies) : replies[k] = c

Dealt ==
    /\ Queued
    /\ \A k \in 1 .. Len(Incoming) : Clean(k) => DealtAt(k)
    /\ Open /\ Clean(Len(Incoming) + 1) => Complete

\* The replies of MONITOR.
WatchingAt(k) ==
    \/ Incoming[k].type = "data" /\ Incoming[k].id = 1
    \/ Incoming[k].type \in {"line", "bad"}
    \/ Rejected

Watching ==
    /\ \A k \in 1 .. Len(replies) : replies[k] \in 0 .. 1
    /\ cb \in 0 .. 1
    /\ \A k \in 1 .. Len(Incoming) : Clean(k) => WatchingAt(k)

\* The subscribers that have not been told of the end are registered.
Telling ==
    \A i \in 1 .. Len(issued) : \A t \in Topics : Subscribes(i, t) =>
        \/ subs[t] = i
        \/ \E j \in i + 1 .. Len(issued) : Subscribes(j, t)
        \/ \E n \in 1 .. Len(ran) :
              \/ ran[n].cb = i /\ ran[n].reply.type = "null"
              \/ ran[n].reply.type = "unsubscribe" /\ ran[n].reply.topic = t /\ ran[n].reply.id > i

\* Control, and the callbacks that ran.
Ordered ==
    /\ Released => flags \cap {"DISCONNECTING", "FREEING"} # {}
    /\ peer = "connecting" => "CONNECTED" \notin flags /\ (pc \in {"idle", "aborted"} \/ Released)
    /\ pc = "onConnectErr" /\ ctx = "live" => err # "ok"
    /\ pc = "onDisconnect" \/ ctx = "freed" => \A t \in Topics : subs[t] = 0
    /\ \A n \in 1 .. Len(ran) : ran[n].cb \in 1 .. Len(issued)
    /\ \A k \in 1 .. Len(replies) : replies[k] \in 0 .. Len(issued)
    /\ \A k \in 1 .. Len(invalid) : invalid[k] \in 0 .. Len(issued)
    /\ cb \in 0 .. Len(issued)

Agreement ==
    /\ Patient
    /\ Lasting
    /\ Asked
    /\ Flagged
    /\ ServerSide
    /\ Start
    /\ Leaving
    /\ Staying
    /\ Refusing
    /\ Monitored \/ Dealt
    /\ Monitored => Watching

PubSubInv ==
    /\ Numbered
    /\ Registered
    /\ Telling
    /\ Ordered
    /\ RightCallback
    /\ ~Released => Agreement
-----------------------------------------------------------------------------
(* Frames. *)

LEMMA PubSubInit == Init => PubSubInv
<1> SUFFICES ASSUME Init PROVE PubSubInv
  OBVIOUS
<1>1. /\ Len(issued) = 0 /\ Len(replies) = 0 /\ Len(obuf) = 0 /\ Len(wire) = 0 /\ Len(ran) = 0
      /\ Len(invalid) = 0
      /\ \A t \in Topics : subs[t] = 0
  BY DEF Init, ServerInit
<1>2. Len(Incoming) = 0
  BY DEF Init, ServerInit, Incoming
<1>3. ~Released /\ flags = {} /\ peer = "connecting" /\ wire = <<>> /\ srvSubs = {} /\ srvMode = "normal"
      /\ pc = "idle" /\ cb = 0 /\ ctx = "live" /\ replies = <<>>
  BY DEF Init, ServerInit, Released
<1>4. Numbered /\ Registered /\ Telling /\ Ordered /\ RightCallback
  BY <1>1, <1>3 DEF Numbered, Registered, Telling, Ordered, RightCallback, Served
<1>5. Patient /\ Lasting /\ Asked /\ Flagged /\ Start
  BY <1>1, <1>3 DEF Patient, Lasting, Asked, Flagged, Start, Fresh, Monitored
<1>6. ServerSide
  BY <1>1, <1>2, <1>3 DEF ServerSide, On, Served
<1>7. Leaving /\ Staying /\ Refusing
  BY <1>1, <1>2 DEF Leaving, Staying, Refusing
<1>8. Dealt /\ ~Monitored
  BY <1>1, <1>2, <1>3 DEF Dealt, Queued, Complete, Monitored, Served
<1> QED BY <1>4, <1>5, <1>6, <1>7, <1>8 DEF PubSubInv, Agreement

\* The replies under way are replies.
LEMMA IncomingType ==
    ASSUME TypeInv
    PROVE  /\ Incoming \in Seq(Reply)
           /\ Len(Incoming) \in Nat
           /\ \A k \in 1 .. Len(Incoming) :
                 /\ Incoming[k] \in Reply
                 /\ Incoming[k].type \in PubSubTypes => Incoming[k].topic \in Topics
<1>1. Incoming \in Seq(Reply)
  BY ConcatType DEF Incoming, TypeInv, TypeOK, ServerTypeOK
<1>2. \A k \in 1 .. Len(Incoming) : Incoming[k] \in Reply
  BY <1>1, ElementType
<1>3. \A r \in Reply : r.type \in PubSubTypes => r.topic \in Topics
  BY DEF Reply
<1> QED BY <1>1, <1>2, <1>3

\* The commands of a state are those of the next one.
LEMMA SameCommands ==
    ASSUME UNCHANGED issued
    PROVE  /\ \A i, t : Names(i, t)' <=> Names(i, t)
           /\ \A i, t : Subscribes(i, t)' <=> Subscribes(i, t)
           /\ \A i, t : Unsubscribes(i, t)' <=> Unsubscribes(i, t)
           /\ \A i : Regular(i)' <=> Regular(i)
           /\ \A i, t : On(i, t)' <=> On(i, t)
           /\ \A i : Late(i)' <=> Late(i)
           /\ Monitored' <=> Monitored
  BY DEF Names, Subscribes, Unsubscribes, Regular, On, Late, Monitored

\* The state that the invariant is about, but for the buffers.
promises == <<issued, replies, subs, invalid, peer, srvSubs, srvMode, ran>>

\* A step that moves commands at most, and leaves REDIS_SUBSCRIBED and
\* REDIS_MONITORING alone.
LEMMA MovedPromises ==
    ASSUME PubSubInv, UNCHANGED promises, UNCHANGED Incoming, Numbered',
           Open => Served' = Served, peer = "connecting" => Len(obuf') = Len(obuf),
           Released => Released', Ordered',
           ~Released' =>
              /\ "SUBSCRIBED" \in flags' <=> "SUBSCRIBED" \in flags
              /\ "MONITORING" \in flags' <=> "MONITORING" \in flags
              /\ cb' = cb \/ cb' = 0
    PROVE  PubSubInv'
<1> USE DEF promises
<1>0. UNCHANGED issued /\ (Open' <=> Open)
  BY DEF Open
<1>1. Numbered' /\ Registered' /\ Telling' /\ RightCallback'
  <2>1. Numbered'
    OBVIOUS
  <2>2. Registered'
    BY <1>0, SameCommands DEF PubSubInv, Registered
  <2>3. Telling'
    BY <1>0, SameCommands DEF PubSubInv, Telling
  <2>4. RightCallback'
    BY DEF PubSubInv, RightCallback, TopicSet
  <2> QED BY <2>1, <2>2, <2>3, <2>4
<1>2. ASSUME ~Released' PROVE Agreement'
  <2>1. Agreement
    BY <1>2 DEF PubSubInv
  <2>2. \A j, t : Confirmed(j, t)' <=> Confirmed(j, t)
    BY DEF Confirmed
  <2>3. Patient' /\ Lasting' /\ Asked'
    BY <1>0, <2>1, <2>2, SameCommands DEF Agreement, Patient, Lasting, Asked
  <2>4. Flagged'
    BY <1>0, <1>2, <2>1, SameCommands DEF Agreement, Flagged
  <2>0. \A t : Open => (On(Served, t)' <=> On(Served, t))
    BY <1>0, SameCommands DEF On
  <2>5. ServerSide'
    BY <1>0, <2>0, <2>1, <2>2, SameCommands DEF Agreement, ServerSide
  <2>6. Rejected' <=> Rejected
    BY DEF Rejected
  <2>7. Start'
    BY <1>2, <2>1, <2>6 DEF Agreement, Start, Fresh
  <2>8. \A k, t : EndsBy(k, t)' <=> EndsBy(k, t)
    BY DEF EndsBy, Ends
  <2>9. Leaving'
    BY <1>0, <2>1, <2>2, <2>8, SameCommands DEF Agreement, Leaving, LeavingAt, Ends
  <2>10. Staying'
    BY <2>1, <2>8 DEF Agreement, Staying
  <2>11. Refusing'
    BY <1>0, <2>1, <2>2, <2>6, SameCommands DEF Agreement, Refusing, RefusingAt
  <2>12. \A k : Clean(k)' <=> Clean(k)
    BY DEF Clean
  <2>13. Dealt => Dealt'
    BY <1>0, <2>6, <2>12, SameCommands DEF Dealt, Queued, DealtAt, Complete
  <2>14. Watching => Watching'
    BY <1>2, <2>6, <2>12 DEF Watching, WatchingAt
  <2> QED BY <1>0, <2>1, <2>3, <2>4, <2>5, <2>7, <2>9, <2>10, <2>11, <2>13, <2>14, SameCommands
             DEF Agreement
<1> QED BY <1>1, <1>2 DEF PubSubInv

\* A step that moves nothing.
LEMMA QuietPromises ==
    ASSUME PubSubInv, UNCHANGED promises, UNCHANGED <<obuf, wire>>, UNCHANGED Incoming,
           Released => Released', Ordered',
           ~Released' =>
              /\ "SUBSCRIBED" \in flags' <=> "SUBSCRIBED" \in flags
              /\ "MONITORING" \in flags' <=> "MONITORING" \in flags
              /\ cb' = cb \/ cb' = 0
    PROVE  PubSubInv'
<1>1. Served' = Served
  BY DEF Served, promises
<1>2. Numbered'
  BY <1>1 DEF PubSubInv, Numbered, Monitored, promises
<1> QED BY <1>1, <1>2, MovedPromises

\* A step into __redisAsyncFree, or within it, that runs no callback.
LEMMA ReleasedPromises ==
    ASSUME PubSubInv, UNCHANGED <<issued, subs, ran, obuf, wire, peer>>, Released', Ordered'
    PROVE  PubSubInv'
<1>1. Numbered'
  BY DEF PubSubInv, Numbered, Monitored
<1>2. Registered' /\ Telling'
  BY SameCommands DEF PubSubInv, Registered, Telling
<1>3. RightCallback'
  BY DEF PubSubInv, RightCallback, TopicSet
<1> QED BY <1>1, <1>2, <1>3 DEF PubSubInv

\* What Ordered says of the lists.
Listed ==
    /\ \A n \in 1 .. Len(ran) : ran[n].cb \in 1 .. Len(issued)
    /\ \A k \in 1 .. Len(replies) : replies[k] \in 0 .. Len(issued)
    /\ \A k \in 1 .. Len(invalid) : invalid[k] \in 0 .. Len(issued)
    /\ cb \in 0 .. Len(issued)

\* What it says of control.
Staged ==
    /\ Released => flags \cap {"DISCONNECTING", "FREEING"} # {}
    /\ peer = "connecting" => "CONNECTED" \notin flags /\ (pc \in {"idle", "aborted"} \/ Released)
    /\ pc = "onConnectErr" /\ ctx = "live" => err # "ok"
    /\ pc = "onDisconnect" \/ ctx = "freed" => \A t \in Topics : subs[t] = 0

\* __redisAsyncDisconnect, called where the thread is not in __redisAsyncFree.
LEMMA DisconnectStaged ==
    ASSUME Staged, NEW f, NEW e, NEW frame, AsyncDisconnect(f, e, frame), ~Released,
           UNCHANGED <<peer, ctx, subs>>, ctx = "live",
           e = "ok" => "DISCONNECTING" \in f,
           peer = "connecting" => "CONNECTED" \notin f
    PROVE  /\ Staged'
           /\ Released' \/ pc' = "aborted"
           /\ flags' \in {f, f \cup {"DISCONNECTING"}}
<1>1. /\ pc' = "teardown" \/ pc' = "aborted"
      /\ flags' \in {f, f \cup {"DISCONNECTING"}}
      /\ "DISCONNECTING" \in flags'
  BY DEF AsyncDisconnect
<1>2. CASE peer = "connecting"
  BY <1>1, <1>2 DEF Staged, Released
<1>3. CASE peer # "connecting"
  BY <1>1, <1>3 DEF Staged, Released
<1> QED BY <1>1, <1>2, <1>3 DEF Released

\* The steps of the event loop that move nothing.
LEMMA QuietSteps ==
    ASSUME TypeInv, PubSubInv,
           \/ SetConnectCallback \/ SetDisconnectCallback \/ Disconnect \/ Free
           \/ ReadEvent \/ WriteEvent \/ ConnectCallbackReturns \/ BufferFails
           \/ ProtocolError \/ CallbackReturns
           \/ NoMoreReplies /\ (DisconnectDue \/ "MONITORING" \notin flags)
           \/ UNCHANGED vars
    PROVE  PubSubInv'
<1> USE DEF promises, buffers, queues, serverVars, controlVars, historyVars
<1>1. Ordered <=> Staged /\ Listed
  BY DEF Ordered, Staged, Listed
<1>2. Ordered' <=> Staged' /\ Listed'
  BY DEF Ordered, Staged, Listed
<1>3. Staged /\ Listed
  BY <1>1 DEF PubSubInv
<1>4. /\ UNCHANGED promises
      /\ UNCHANGED <<obuf, wire, rbuf, sock, cb>>
  <2>1. CASE NoMoreReplies /\ (DisconnectDue \/ "MONITORING" \notin flags)
    BY <2>1 DEF NoMoreReplies
  <2> QED
    BY <2>1 DEF SetConnectCallback, SetDisconnectCallback, Disconnect, Free, ReadEvent, WriteEvent, Handle,
           ConnectCallbackReturns, BufferFails, ProtocolError, CallbackReturns, vars, clientVars
<1>5. UNCHANGED Incoming /\ Listed'
  BY <1>3, <1>4 DEF Incoming, Listed
<1>6. SUFFICES /\ Staged'
               /\ Released => Released'
               /\ "SUBSCRIBED" \in flags' <=> "SUBSCRIBED" \in flags
               /\ "MONITORING" \in flags' <=> "MONITORING" \in flags
  BY <1>2, <1>4, <1>5, QuietPromises
<1>7. CASE SetConnectCallback \/ SetDisconnectCallback \/ UNCHANGED vars
  <2>1. UNCHANGED <<flags, err, ctx, pc, back>>
    BY <1>7 DEF SetConnectCallback, SetDisconnectCallback, vars, clientVars
  <2> QED BY <1>3, <1>4, <2>1 DEF Staged, Released
<1>8. CASE Disconnect
  <2>1. UNCHANGED <<ctx, back, err>> /\ ctx = "live" /\ pc \in {"idle", "callback", "onConnect", "onConnectErr"}
    BY <1>8 DEF Disconnect, InApp
  <2>2. CASE ~InCallback /\ replies = <<>>
    <3>1. AsyncDisconnect(flags \cup {"DISCONNECTING"}, err, pc)
      BY <1>8, <2>2 DEF Disconnect
    <3>2. ~Released
      BY <2>1, <2>2 DEF Released, TypeInv, ControlOK
    <3>3. peer = "connecting" => "CONNECTED" \notin flags \cup {"DISCONNECTING"}
      BY <1>3 DEF Staged
    <3> HIDE DEF promises
    <3>4. Staged' /\ flags' \in {flags \cup {"DISCONNECTING"}, flags \cup {"DISCONNECTING"} \cup {"DISCONNECTING"}}
      BY <1>3, <1>4, <2>1, <3>1, <3>2, <3>3, DisconnectStaged DEF promises
    <3> QED BY <3>2, <3>4
  <2>3. CASE ~(~InCallback /\ replies = <<>>)
    <3>1. flags' = flags \cup {"DISCONNECTING"} /\ UNCHANGED pc
      BY <1>8, <2>3 DEF Disconnect
    <3> QED BY <1>3, <1>4, <2>1, <3>1 DEF Staged, Released
  <2> QED BY <2>2, <2>3
<1>9. CASE Free
  <2>1. /\ UNCHANGED <<ctx, back, err>>
        /\ flags' = flags \cup {"FREEING"}
        /\ pc' = pc \/ (pc' = "teardown" /\ pc \in {"idle", "onConnect", "onConnectErr"})
    BY <1>9 DEF Free, InApp, TypeInv, ControlOK
  <2> QED BY <1>3, <1>4, <2>1 DEF Staged, Released
<1>10. CASE ReadEvent \/ WriteEvent
  <2>1. PICK h \in {"read", "write"} : Handle(h) /\ pc = "idle" /\ ctx = "live"
    BY <1>10 DEF ReadEvent, WriteEvent
  <2>2. UNCHANGED <<ctx, back>> /\ ~Released
    BY <2>1 DEF Handle, Released
  <2>3. CASE AsyncDisconnect(flags, "io", "idle")
    <3>1. peer = "connecting" => "CONNECTED" \notin flags
      BY <1>3 DEF Staged
    <3>2. Staged' /\ flags' \in {flags, flags \cup {"DISCONNECTING"}}
      BY <1>3, <1>4, <2>1, <2>2, <2>3, <3>1, DisconnectStaged
    <3> QED BY <2>2, <3>2
  <2>4. CASE ~AsyncDisconnect(flags, "io", "idle")
    <3>1. /\ flags' = flags \/ (flags' = flags \cup {"CONNECTED"} /\ peer # "connecting")
          /\ pc' \in {"idle", "onConnect", "onConnectErr", "read", "write"}
          /\ peer = "connecting" => pc' = "idle"
          /\ pc' = "onConnectErr" => err' = "io"
      BY <1>3, <2>1, <2>4 DEF Handle, HandleConnect, Staged
    <3> QED BY <1>3, <1>4, <2>1, <2>2, <3>1 DEF Staged, Released
  <2> QED BY <2>3, <2>4
<1>11. CASE ConnectCallbackReturns
  <2>1. UNCHANGED <<ctx, back, err>>
    BY <1>11 DEF ConnectCallbackReturns
  <2>2. CASE ctx = "freed"
    <3>1. pc' = "undefined" /\ UNCHANGED flags
      BY <1>11, <2>2 DEF ConnectCallbackReturns
    <3> QED BY <1>3, <1>4, <2>1, <2>2, <3>1 DEF Staged, Released
  <2>3. CASE ctx # "freed" /\ pc = "onConnect"
    <3>1. pc' \in {"read", "write"} /\ UNCHANGED flags /\ peer # "connecting"
      BY <1>3, <1>11, <2>3 DEF ConnectCallbackReturns, TypeInv, TypeOK, ControlOK, Staged, Released
    <3> QED BY <1>3, <1>4, <2>1, <2>3, <3>1 DEF Staged, Released
  <2>4. CASE ctx # "freed" /\ pc = "onConnectErr"
    <3>1. AsyncDisconnect(flags, err, "idle") /\ ~Released /\ err # "ok" /\ ctx = "live"
      BY <1>3, <1>11, <2>4 DEF ConnectCallbackReturns, Released, Staged, TypeInv, TypeOK
    <3>2. peer = "connecting" => "CONNECTED" \notin flags
      BY <1>3 DEF Staged
    <3>3. Staged' /\ flags' \in {flags, flags \cup {"DISCONNECTING"}}
      BY <1>3, <1>4, <2>1, <3>1, <3>2, DisconnectStaged
    <3> QED BY <3>1, <3>3
  <2> QED BY <1>11, <2>2, <2>3, <2>4 DEF ConnectCallbackReturns
<1>12. CASE BufferFails \/ ProtocolError \/ (NoMoreReplies /\ DisconnectDue)
  <2>1. PICK e : AsyncDisconnect(flags, e, "idle") /\ (e = "ok" => "DISCONNECTING" \in flags)
    BY <1>12 DEF BufferFails, ProtocolError, NoMoreReplies, DisconnectDue
  <2>2. UNCHANGED <<ctx, back>> /\ ctx = "live" /\ ~Released
    BY <1>12 DEF BufferFails, ProtocolError, NoMoreReplies, Released, TypeInv, TypeOK, ControlOK
  <2>3. peer = "connecting" => "CONNECTED" \notin flags
    BY <1>3 DEF Staged
  <2>4. Staged' /\ flags' \in {flags, flags \cup {"DISCONNECTING"}}
    BY <1>3, <1>4, <2>1, <2>2, <2>3, DisconnectStaged
  <2> QED BY <2>2, <2>4
<1>13. CASE NoMoreReplies /\ ~DisconnectDue
  <2>1. pc = "process" /\ pc' = "idle" /\ UNCHANGED <<flags, ctx, back, err>> /\ ctx = "live"
    BY <1>13 DEF NoMoreReplies, TypeInv, TypeOK, ControlOK
  <2> QED BY <1>3, <1>4, <2>1 DEF Staged, Released
<1>14. CASE CallbackReturns
  <2>1. /\ UNCHANGED <<ctx, err, back>>
        /\ flags' = flags \ {"IN_CALLBACK"}
        /\ pc = "callback"
        /\ ctx # "freed"
        /\ \/ pc' = "teardown" /\ "FREEING" \in flags /\ back = "process"
           \/ pc' = back /\ back \in {"process", "teardown"}
    BY <1>14 DEF CallbackReturns, TypeInv, TypeOK, ControlOK
  <2> QED BY <1>3, <1>4, <2>1 DEF Staged, Released
<1> QED BY <1>7, <1>8, <1>9, <1>10, <1>11, <1>12, <1>13, <1>14

-----------------------------------------------------------------------------
(* A command is issued. *)

\* The commands that were issued before are the same.
Earlier ==
    /\ Len(issued) \in Nat
    /\ Len(issued') = Len(issued) + 1
    /\ \A i \in 1 .. Len(issued) : issued'[i] = issued[i]

LEMMA EarlierCommands ==
    ASSUME Earlier
    PROVE  /\ \A i \in 1 .. Len(issued) : \A t :
                 /\ Names(i, t)' <=> Names(i, t)
                 /\ Subscribes(i, t)' <=> Subscribes(i, t)
                 /\ Unsubscribes(i, t)' <=> Unsubscribes(i, t)
           /\ \A i \in 1 .. Len(issued) : Regular(i)' <=> Regular(i)
           /\ \A n \in 0 .. Len(issued) : \A t : On(n, t)' <=> On(n, t)
           /\ \A i \in 1 .. Len(issued) : Late(i)' <=> Late(i)
<1>1. ASSUME NEW i \in 1 .. Len(issued), NEW t
      PROVE  /\ Names(i, t)' <=> Names(i, t)
             /\ Subscribes(i, t)' <=> Subscribes(i, t)
             /\ Unsubscribes(i, t)' <=> Unsubscribes(i, t)
             /\ Regular(i)' <=> Regular(i)
  <2>1. issued'[i] = issued[i]
    BY DEF Earlier
  <2> QED BY <2>1 DEF Names, Subscribes, Unsubscribes, Regular
<1>2. ASSUME NEW n \in 0 .. Len(issued), NEW t
      PROVE  On(n, t)' <=> On(n, t)
  <2>1. \A i \in 1 .. n : i \in 1 .. Len(issued) /\ \A j \in i + 1 .. n : j \in 1 .. Len(issued)
    BY DEF Earlier
  <2> QED BY <1>1, <2>1 DEF On
<1>3. ASSUME NEW i \in 1 .. Len(issued)
      PROVE  Late(i)' <=> Late(i)
  <2>1. i - 1 \in 0 .. Len(issued)
    BY DEF Earlier
  <2> QED BY <1>1, <1>2, <2>1 DEF Late
<1> QED BY <1>1, <1>2, <1>3

\* What was subscribed and not ended is registered, and what is registered and was
\* not asked to end is subscribed.
LEMMA OnRegistered ==
    ASSUME TypeInv, Lasting, NEW n \in 0 .. Len(issued), NEW t \in Topics, On(n, t),
           \A j \in 1 .. Len(issued) : Unsubscribes(j, t) /\ Confirmed(j, t) => j <= n
    PROVE  /\ subs[t] # 0
           /\ \E i \in 1 .. n : /\ Subscribes(i, t)
                                /\ i <= subs[t]
                                /\ \A j \in i + 1 .. n : ~Unsubscribes(j, t)
<1>1. PICK i \in 1 .. n : Subscribes(i, t) /\ \A j \in i + 1 .. n : ~Unsubscribes(j, t)
  BY DEF On
<1>2. i \in 1 .. Len(issued) /\ i \in Nat /\ i >= 1 /\ n \in Nat /\ subs[t] \in Nat /\ Len(issued) \in Nat
  BY Lengths DEF TypeInv, TypeOK
<1>3. subs[t] >= i \/ \E j \in i + 1 .. Len(issued) : Unsubscribes(j, t) /\ Confirmed(j, t)
  BY <1>1, <1>2 DEF Lasting
<1>4. ~ \E j \in i + 1 .. Len(issued) : Unsubscribes(j, t) /\ Confirmed(j, t)
  <2> SUFFICES ASSUME NEW j \in i + 1 .. Len(issued), Unsubscribes(j, t), Confirmed(j, t) PROVE FALSE
    OBVIOUS
  <2>1. j \in 1 .. Len(issued) /\ j \in Nat
    BY <1>2
  <2>2. j <= n
    BY <2>1
  <2> QED BY <1>1, <1>2, <2>1, <2>2
<1> QED BY <1>1, <1>2, <1>3, <1>4

LEMMA RegisteredOn ==
    ASSUME TypeInv, Registered, NEW n \in 0 .. Len(issued), NEW t \in Topics, subs[t] # 0, subs[t] <= n,
           \A j \in subs[t] + 1 .. n : ~Unsubscribes(j, t)
    PROVE  On(n, t)
<1>1. Subscribes(subs[t], t) /\ subs[t] \in 1 .. n
  BY Lengths DEF Registered, TypeInv, TypeOK
<1> QED BY <1>1 DEF On

\* Where everything is confirmed.
AllConfirmed == \A j \in 1 .. Len(issued) : \A t \in Topics : Unsubscribes(j, t) => Confirmed(j, t)

\* REDIS_SUBSCRIBED is set exactly where a further regular command is late.
LEMMA SubscribedOn ==
    ASSUME TypeInv, Registered, Lasting, Flagged, AllConfirmed
    PROVE  "SUBSCRIBED" \in flags <=> \E t \in Topics : On(Len(issued), t)
<1>1. Len(issued) \in Nat /\ Len(issued) \in 0 .. Len(issued)
  BY Lengths
<1>2. ASSUME NEW t \in Topics, subs[t] # 0 PROVE On(Len(issued), t)
  <2>1. subs[t] \in 1 .. Len(issued) /\ subs[t] \in Nat
    BY <1>1, <1>2 DEF Registered
  <2>2. \A j \in subs[t] + 1 .. Len(issued) : ~Unsubscribes(j, t)
    <3> SUFFICES ASSUME NEW j \in subs[t] + 1 .. Len(issued), Unsubscribes(j, t) PROVE FALSE
      OBVIOUS
    <3>1. j \in 1 .. Len(issued) /\ j > subs[t]
      BY <1>1, <2>1
    <3>2. Confirmed(j, t)
      BY <3>1 DEF AllConfirmed
    <3> QED BY <1>2, <2>1, <3>1, <3>2 DEF Lasting
  <2> QED BY <1>1, <1>2, <2>1, <2>2, RegisteredOn
<1>3. ASSUME NEW t \in Topics, On(Len(issued), t) PROVE subs[t] # 0
  <2>1. \A j \in 1 .. Len(issued) : Unsubscribes(j, t) /\ Confirmed(j, t) => j <= Len(issued)
    BY <1>1
  <2> QED BY <1>1, <1>3, <2>1, OnRegistered
<1> QED BY <1>2, <1>3 DEF Flagged

\* Without a subscription, and with nothing to confirm, only data is under way.
LEMMA NothingPushed ==
    ASSUME TypeInv, Lasting, Patient, Leaving, Staying, Refusing, AllConfirmed,
           \A t \in Topics : subs[t] = 0,
           NEW k \in 1 .. Len(Incoming)
    PROVE  /\ Incoming[k].type \notin PubSubTypes
           /\ Incoming[k].type = "error" => Rejected
<1>0. Incoming[k] \in Reply /\ Len(issued) \in Nat
  BY Lengths, IncomingType
<1>1. Incoming[k].type \in PubSubTypes => Incoming[k].topic \in Topics
  BY IncomingType
<1>2. Incoming[k].type # "unsubscribe"
  <2> SUFFICES ASSUME Incoming[k].type = "unsubscribe" PROVE FALSE
    OBVIOUS
  <2>1. LeavingAt(k)
    BY DEF Leaving
  <2> QED BY <1>1, <2>1 DEF LeavingAt, AllConfirmed, PubSubTypes
<1>3. Incoming[k].type \notin {"subscribe", "message"}
  BY <1>1 DEF Staying, PubSubTypes
<1>4. ASSUME Incoming[k].type = "error", ~Rejected PROVE FALSE
  <2>0. RefusingAt(k)
    BY <1>4 DEF Refusing
  <2>1. PICK c \in 1 .. Len(issued) : c = Incoming[k].id
    BY <2>0 DEF RefusingAt
  <2>2. Late(c) /\ \A j \in c + 1 .. Len(issued) : \A t \in Topics : ~Confirmed(j, t)
    BY <2>0, <2>1 DEF RefusingAt
  <2>3. PICK t \in Topics : On(c - 1, t)
    BY <2>2 DEF Late
  <2>4. c - 1 \in 0 .. Len(issued) /\ c \in Nat /\ c >= 1
    BY <1>0
  <2>5. \A j \in 1 .. Len(issued) : Unsubscribes(j, t) /\ Confirmed(j, t) => j <= c - 1
    <3> SUFFICES ASSUME NEW j \in 1 .. Len(issued), Unsubscribes(j, t), Confirmed(j, t), j > c - 1
                 PROVE  FALSE
      BY <1>0, <2>4
    <3>1. j # c
      BY <2>2 DEF Late, Regular, Unsubscribes
    <3>2. j \in c + 1 .. Len(issued)
      BY <1>0, <2>4, <3>1
    <3> QED BY <2>2, <3>2
  <2>6. subs[t] # 0
    BY <2>3, <2>4, <2>5, OnRegistered
  <2> QED BY <2>6
<1> QED BY <1>2, <1>3, <1>4 DEF PubSubTypes

\* What __redisAsyncCommand does for every kind of command.
IssuedNow(n, kind, topics) ==
    /\ Earlier
    /\ n = Len(issued) + 1
    /\ issued'[n].id = n
    /\ issued'[n].kind = kind
    /\ issued'[n].topics = topics
    /\ Len(obuf') = Len(obuf) + 1
    /\ \A i \in 1 .. Len(obuf) : obuf'[i] = obuf[i]
    /\ obuf'[Len(obuf) + 1] = issued'[n]
    /\ UNCHANGED <<peer, wire, srvSubs, srvMode, ran, pc, back, ctx, err, cb>>
    /\ UNCHANGED Incoming
    /\ flags \cap {"DISCONNECTING", "FREEING"} = {}
    /\ ~Released /\ ~Released'
    /\ Served \in 0 .. Len(issued)
    /\ Served' = Served

LEMMA CommandIssued ==
    ASSUME TypeInv, PubSubInv, NEW kind \in Kinds, NEW topics \in Seq(Topics),
           AsyncCommand(kind, topics)
    PROVE  IssuedNow(Len(issued) + 1, kind, topics) /\ Agreement
<1> DEFINE c == [id |-> Len(issued) + 1, kind |-> kind, topics |-> topics]
<1>1. /\ issued' = Append(issued, c)
      /\ obuf' = Append(obuf, c)
      /\ UNCHANGED <<peer, wire, srvSubs, srvMode, ran, pc, back, ctx, err, cb, rbuf, sock>>
      /\ flags \cap {"DISCONNECTING", "FREEING"} = {}
      /\ flags' \cap {"DISCONNECTING", "FREEING"} = {}
  BY DEF AsyncCommand, RegisterCallback, serverVars, controlVars
<1>2. issued \in Seq(Command) /\ obuf \in Seq(Command) /\ c \in Command
  BY CommandType DEF TypeInv, TypeOK
<1>3. c.id = Len(issued) + 1 /\ c.kind = kind /\ c.topics = topics
  OBVIOUS
<1> HIDE DEF c
<1>4. /\ Len(issued') = Len(issued) + 1
      /\ \A i \in 1 .. Len(issued) : issued'[i] = issued[i]
      /\ issued'[Len(issued) + 1] = c
  BY <1>1, <1>2, AppendFacts
<1>5. /\ Len(obuf') = Len(obuf) + 1
      /\ \A i \in 1 .. Len(obuf) : obuf'[i] = obuf[i]
      /\ obuf'[Len(obuf) + 1] = c
  BY <1>1, <1>2, AppendFacts
<1>6. ~Released /\ ~Released'
  BY <1>1 DEF PubSubInv, Ordered, Released
<1>7. UNCHANGED Incoming
  BY <1>1 DEF Incoming
<1>8. Agreement /\ Served >= 0
  BY <1>6 DEF PubSubInv, Numbered
<1>9. Served \in 0 .. Len(issued) /\ Served' = Served
  BY <1>1, <1>4, <1>5, <1>8, Lengths DEF Served
<1> QED BY <1>1, <1>3, <1>4, <1>5, <1>6, <1>7, <1>8, <1>9, Lengths DEF IssuedNow, Earlier

\* The new command.
LEMMA NewCommand ==
    ASSUME TypeInv, Asked, NEW n, NEW kind, NEW topics, IssuedNow(n, kind, topics)
    PROVE  /\ \A t : ~Confirmed(n, t)
           /\ \A j, t : Confirmed(j, t)' <=> Confirmed(j, t)
           /\ \A t : Subscribes(n, t)' <=>
                        kind = "subscribe" /\ \E i \in 1 .. Len(topics) : topics[i] = t
           /\ \A t : Unsubscribes(n, t)' <=>
                        kind = "unsubscribe" /\ \E i \in 1 .. Len(topics) : topics[i] = t
           /\ Regular(n)' <=> kind \in {"command", "silent"}
           /\ \A i \in 1 .. Len(issued') : i \in 1 .. Len(issued) \/ i = n
           /\ Len(issued) \in Nat
           /\ Len(issued') = n
           /\ n = Len(issued) + 1
           /\ Earlier
<1>1. Len(issued) \in Nat /\ Len(issued') = n /\ n = Len(issued) + 1 /\ Earlier
  BY DEF IssuedNow, Earlier
<1>2. \A t : ~Confirmed(n, t)
  BY <1>1 DEF Confirmed, Asked
<1>3. \A j, t : Confirmed(j, t)' <=> Confirmed(j, t)
  BY DEF IssuedNow, Confirmed
<1>4. \A i \in 1 .. Len(issued') : i \in 1 .. Len(issued) \/ i = n
  BY <1>1
<1>5. /\ issued'[n].kind = kind
      /\ issued'[n].topics = topics
  BY DEF IssuedNow
<1> QED BY <1>1, <1>2, <1>3, <1>4, <1>5 DEF Subscribes, Unsubscribes, Names, Regular

\* What every kind of command preserves.
LEMMA IssueShared ==
    ASSUME TypeInv, PubSubInv, Agreement, NEW kind \in Kinds, NEW topics \in Seq(Topics),
           NEW n, IssuedNow(n, kind, topics),
           \A i \in 1 .. Len(issued) : issued[i].kind # "monitor",
           kind = "monitor" => issued = <<>>,
           kind \in {"subscribe", "unsubscribe"} =>
              topics # <<>> /\ \A i, j \in 1 .. Len(topics) : topics[i] = topics[j] => i = j
    PROVE  /\ Numbered'
           /\ RightCallback'
           /\ Asked'
           /\ ServerSide'
           /\ Refusing'
           /\ Rejected' <=> Rejected
           /\ \A k, t : EndsBy(k, t)' <=> EndsBy(k, t)
           /\ \A k, t : Ends(k, t)' <=> Ends(k, t)
           /\ \A k : Clean(k)' <=> Clean(k)
           /\ ~Monitored
           /\ Monitored' <=> kind = "monitor"
<1>1. Len(issued) \in Nat /\ Len(issued') = n /\ n = Len(issued) + 1 /\ Earlier
  BY DEF IssuedNow, Earlier
<1>2. Asked
  BY DEF Agreement
<1>3. \A i \in 1 .. Len(issued') : i \in 1 .. Len(issued) \/ i = n
  BY <1>2, NewCommand
<1>4. /\ \A i \in 1 .. Len(issued) : issued'[i] = issued[i]
      /\ issued'[n].id = n
      /\ issued'[n].kind = kind
      /\ issued'[n].topics = topics
  BY DEF IssuedNow, Earlier
<1>5. ~Monitored /\ (Monitored' <=> kind = "monitor")
  <2>1. ~Monitored
    BY DEF Monitored
  <2>2. ASSUME kind = "monitor" PROVE Monitored'
    <3>1. Len(issued) = 0
      BY <2>2
    <3>2. n = 1
      BY <1>1, <3>1
    <3> QED BY <1>1, <1>4, <2>2, <3>2 DEF Monitored
  <2>3. ASSUME Monitored' PROVE kind = "monitor"
    <3>1. n = 1
      BY <1>1, <2>3 DEF Monitored
    <3> QED BY <1>4, <2>3, <3>1 DEF Monitored
  <2> QED BY <2>1, <2>2, <2>3
<1>6. Numbered'
  <2>1. Numbered
    BY DEF PubSubInv
  <2>2. ASSUME NEW i \in 1 .. Len(issued')
        PROVE  /\ issued'[i].id = i
               /\ issued'[i].kind \in {"subscribe", "unsubscribe"} =>
                     /\ issued'[i].topics # <<>>
                     /\ \A k, l \in 1 .. Len(issued'[i].topics) :
                           issued'[i].topics[k] = issued'[i].topics[l] => k = l
    <3>1. CASE i \in 1 .. Len(issued)
      BY <1>4, <2>1, <3>1 DEF Numbered
    <3>2. CASE i = n
      BY <1>4, <3>2
    <3> QED BY <1>3, <3>1, <3>2
  <2>3. Monitored' \/ \A i \in 1 .. Len(issued') : issued'[i].kind # "monitor"
    BY <1>3, <1>4, <1>5
  <2>4. ASSUME NEW i \in 1 .. Len(obuf')
        PROVE  obuf'[i] = issued'[Len(issued') - Len(obuf') + i]
    <3>1. Len(obuf') = Len(obuf) + 1 /\ Len(obuf) \in Nat /\ Len(obuf) <= Len(issued)
      BY <2>1, Lengths DEF IssuedNow, Numbered
    <3>2. Len(issued') - Len(obuf') + i = Len(issued) - Len(obuf) + i
      BY <1>1, <3>1
    <3>3. CASE i \in 1 .. Len(obuf)
      <4>1. Len(issued) - Len(obuf) + i \in 1 .. Len(issued)
        BY <1>1, <3>1, <3>3
      <4>2. obuf[i] = issued[Len(issued) - Len(obuf) + i]
        BY <2>1, <3>3 DEF Numbered
      <4> QED BY <1>4, <3>2, <3>3, <4>1, <4>2 DEF IssuedNow
    <3>4. CASE i = Len(obuf) + 1
      <4>1. Len(issued) - Len(obuf) + i = n
        BY <1>1, <3>1, <3>4
      <4> QED BY <3>2, <3>4, <4>1 DEF IssuedNow
    <3> QED BY <3>1, <3>3, <3>4
  <2>5. Len(obuf') <= Len(issued')
    BY <1>1, <2>1, Lengths DEF IssuedNow, Numbered
  <2>6. ASSUME NEW i \in 1 .. Len(wire) PROVE wire[i] = issued'[Served + i]
    <3>1. Served \in Nat /\ Served + Len(wire) <= Len(issued)
      BY <1>1, Lengths DEF IssuedNow, Served
    <3>2. Served + i \in 1 .. Len(issued)
      BY <1>1, <3>1, Lengths
    <3>3. wire[i] = issued[Served + i]
      BY <2>1 DEF Numbered, IssuedNow
    <3> QED BY <1>4, <3>2, <3>3
  <2>7. (peer # "up" => wire = <<>>) /\ Served >= 0
    BY <1>1, <2>1 DEF Numbered, IssuedNow
  <2>8. wire' = wire /\ peer' = peer /\ Served' = Served
    BY DEF IssuedNow
  <2> QED BY <2>2, <2>3, <2>4, <2>5, <2>6, <2>7, <2>8 DEF Numbered
<1>7. RightCallback'
  <2>1. \A i \in 1 .. Len(ran) : issued'[ran[i].cb] = issued[ran[i].cb]
    BY <1>4 DEF PubSubInv, Ordered
  <2>2. ran' = ran
    BY DEF IssuedNow
  <2>3. RightCallback
    BY DEF PubSubInv
  <2> QED BY ONLY SMTT(30), <2>1, <2>2, <2>3 DEF RightCallback, TopicSet
<1>8. Asked'
  BY <1>1, <1>2, EarlierCommands DEF Asked, IssuedNow
<1>9. /\ \A t : ~Confirmed(n, t)
      /\ \A j, t : Confirmed(j, t)' <=> Confirmed(j, t)
  BY <1>2, NewCommand
<1>10. ServerSide'
  <2>1. ServerSide
    BY DEF Agreement
  <2>2. srvMode # "monitor"
    BY <1>5, <2>1 DEF ServerSide
  <2>3. \A t : On(Served, t)' <=> On(Served, t)
    <3>2. Served' = Served /\ Served \in 0 .. Len(issued)
      BY DEF IssuedNow
    <3>3. \A m \in 0 .. Len(issued) : \A t : On(m, t)' <=> On(m, t)
      BY <1>1, EarlierCommands
    <3> QED BY <3>2, <3>3 DEF On
  <2>4. Open' <=> Open
    BY DEF Open, IssuedNow
  <2>5. ASSUME Open, NEW j \in 1 .. Len(issued'), NEW t \in Topics, Unsubscribes(j, t)', Confirmed(j, t)'
        PROVE  j <= Served
    <3>1. j \in 1 .. Len(issued)
      BY <1>3, <1>9, <2>5
    <3> QED BY <1>1, <1>9, <2>1, <2>5, <3>1, EarlierCommands DEF ServerSide
  <2> QED BY <1>1, <2>1, <2>2, <2>3, <2>4, <2>5 DEF ServerSide, IssuedNow
<1>11. Rejected' <=> Rejected
  BY DEF IssuedNow, Rejected
<1>12. Refusing'
  <2>1. ASSUME NEW k \in 1 .. Len(Incoming), RefusingAt(k) PROVE RefusingAt(k)'
    <3>1. PICK c \in 1 .. Len(issued) : c = Incoming[k].id
      BY <2>1 DEF RefusingAt
    <3>2. c \in 1 .. Len(issued') /\ Late(c)' /\ Incoming' = Incoming
      BY <1>1, <2>1, <3>1, EarlierCommands DEF RefusingAt, IssuedNow
    <3>3. ASSUME NEW j \in c + 1 .. Len(issued'), NEW t \in Topics PROVE ~Confirmed(j, t)'
      <4>1. CASE j = n
        BY <1>9, <4>1
      <4>2. CASE j # n
        <5>1. j \in c + 1 .. Len(issued)
          BY <1>1, <4>2
        <5> QED BY <1>9, <2>1, <3>1, <5>1 DEF RefusingAt
      <4> QED BY <4>1, <4>2
    <3>4. \A l \in 1 .. k : Incoming[l].type = "unsubscribe" => Incoming[l].id < c
      BY <2>1, <3>1 DEF RefusingAt
    <3> QED BY <3>1, <3>2, <3>3, <3>4 DEF RefusingAt
  <2>2. Refusing
    BY DEF Agreement
  <2> QED BY <1>11, <2>1, <2>2 DEF Refusing, IssuedNow
<1>13. /\ \A k, t : EndsBy(k, t)' <=> EndsBy(k, t)
       /\ \A k, t : Ends(k, t)' <=> Ends(k, t)
       /\ \A k : Clean(k)' <=> Clean(k)
  BY DEF IssuedNow, EndsBy, Ends, Clean
<1> QED BY <1>5, <1>6, <1>7, <1>8, <1>10, <1>11, <1>12, <1>13

\* Nothing is left to confirm where the application may use the connection freely.
LEMMA NothingAwaited ==
    ASSUME Awaiting = {}
    PROVE  AllConfirmed
<1> SUFFICES ASSUME NEW j \in 1 .. Len(issued), NEW t \in Topics, Unsubscribes(j, t), ~Confirmed(j, t)
             PROVE  FALSE
  BY DEF AllConfirmed
<1>1. issued[j].kind = "unsubscribe" /\ t \in TopicSet(issued[j])
  BY DEF Unsubscribes, Names, TopicSet
<1>2. j \in Awaiting
  BY <1>1 DEF Awaiting, Confirmed
<1> QED BY <1>2

\* What the application may unsubscribe from.
LEMMA HeldOn ==
    ASSUME NEW t \in Held
    PROVE  t \in Topics /\ On(Len(issued), t)
<1>1. PICK i \in 1 .. Len(issued) :
          /\ issued[i].kind = "subscribe"
          /\ t \in TopicSet(issued[i])
          /\ \A j \in i + 1 .. Len(issued) :
                ~(issued[j].kind = "unsubscribe" /\ t \in TopicSet(issued[j]))
  BY DEF Held
<1>2. Subscribes(i, t)
  BY <1>1 DEF Subscribes, Names, TopicSet
<1>3. \A j \in i + 1 .. Len(issued) : ~Unsubscribes(j, t)
  BY <1>1 DEF Unsubscribes, Names, TopicSet
<1> QED BY <1>2, <1>3 DEF On, Held

\* The lists after a command.
LEMMA IssueOrdered ==
    ASSUME TypeInv, PubSubInv, NEW kind \in Kinds, NEW topics \in Seq(Topics), NEW n,
           IssuedNow(n, kind, topics), RegisterCallback(kind, topics, n)
    PROVE  Ordered'
<1>1. /\ Len(issued) \in Nat /\ Len(issued') = n /\ n = Len(issued) + 1
      /\ UNCHANGED <<peer, ran, pc, back, ctx, err, cb>>
      /\ flags \cap {"DISCONNECTING", "FREEING"} = {}
      /\ ~Released /\ ~Released'
  BY DEF IssuedNow, Earlier
<1>2. replies \in Seq(Nat) /\ invalid \in Seq(Nat) /\ n \in Nat
  BY <1>1 DEF TypeInv, TypeOK
<1>3. /\ replies' = replies \/ replies' = Append(replies, n)
      /\ invalid' = invalid \/ invalid' = Append(invalid, n)
      /\ "CONNECTED" \in flags' => "CONNECTED" \in flags
  BY DEF RegisterCallback, PushCallback, queues
<1>4. Ordered
  BY DEF PubSubInv
<1>5. \A x \in 0 .. Len(issued) : x \in 0 .. n
  BY <1>1
<1>6. \A k \in 1 .. Len(replies') : replies'[k] \in 0 .. n
  <2>1. CASE replies' = replies
    BY <1>4, <1>5, <2>1 DEF Ordered
  <2>2. CASE replies' = Append(replies, n)
    BY <1>1, <1>2, <1>4, <1>5, <2>2, AppendFacts DEF Ordered
  <2> QED BY <1>3, <2>1, <2>2
<1>7. \A k \in 1 .. Len(invalid') : invalid'[k] \in 0 .. n
  <2>1. CASE invalid' = invalid
    BY <1>4, <1>5, <2>1 DEF Ordered
  <2>2. CASE invalid' = Append(invalid, n)
    BY <1>1, <1>2, <1>4, <1>5, <2>2, AppendFacts DEF Ordered
  <2> QED BY <1>3, <2>1, <2>2
<1>8. ctx = "live" /\ pc # "onDisconnect"
  BY <1>1 DEF Released, TypeInv, TypeOK
<1>9. \A m \in 1 .. Len(ran) : ran[m].cb \in 1 .. n
  BY <1>1, <1>4 DEF Ordered
<1> QED BY <1>1, <1>3, <1>4, <1>5, <1>6, <1>7, <1>8, <1>9 DEF Ordered

\* SUBSCRIBE and PSUBSCRIBE.
LEMMA IssueSubscribe ==
    ASSUME TypeInv, PubSubInv, Agreement, NEW topics \in Seq(Topics), NEW n,
           IssuedNow(n, "subscribe", topics), RegisterCallback("subscribe", topics, n),
           AllConfirmed, ~Monitored, ~Monitored', topics # <<>>,
           ServerSide', Rejected' <=> Rejected, \A k, t : EndsBy(k, t)' <=> EndsBy(k, t),
           \A k, t : Ends(k, t)' <=> Ends(k, t), \A k : Clean(k)' <=> Clean(k)
    PROVE  /\ Registered' /\ Telling' /\ Patient' /\ Lasting' /\ Flagged'
           /\ Start' /\ Leaving' /\ Staying' /\ Dealt'
<1> DEFINE Named(t) == \E i \in 1 .. Len(topics) : topics[i] = t
<1>1. /\ flags' = flags \cup {"SUBSCRIBED"}
      /\ \A t \in Topics : Named(t) => subs'[t] = n
      /\ \A t \in Topics : ~Named(t) => subs'[t] = subs[t]
      /\ replies' = replies
  BY DEF RegisterCallback
<1>2. Registered /\ Telling /\ Patient /\ Lasting /\ Asked /\ Flagged /\ Start /\ Leaving /\ Staying /\ Dealt
  BY DEF Agreement, PubSubInv
<1>3. /\ \A t : ~Confirmed(n, t)
      /\ \A j, t : Confirmed(j, t)' <=> Confirmed(j, t)
      /\ \A t : Subscribes(n, t)' <=> Named(t)
      /\ \A t : ~Unsubscribes(n, t)'
      /\ ~Regular(n)'
      /\ \A i \in 1 .. Len(issued') : i \in 1 .. Len(issued) \/ i = n
      /\ Len(issued) \in Nat
      /\ Len(issued') = n
      /\ n = Len(issued) + 1
      /\ Earlier
  BY <1>2, NewCommand
<1>4. /\ \A i \in 1 .. Len(issued) : \A t :
            /\ Subscribes(i, t)' <=> Subscribes(i, t)
            /\ Unsubscribes(i, t)' <=> Unsubscribes(i, t)
      /\ \A i \in 1 .. Len(issued) : Regular(i)' <=> Regular(i)
      /\ \A i \in 1 .. Len(issued) : Late(i)' <=> Late(i)
  BY <1>3, EarlierCommands
<1>5. /\ UNCHANGED <<peer, ran>>
      /\ Incoming' = Incoming
      /\ Served \in 0 .. Len(issued) /\ Served' = Served
      /\ Open' <=> Open
  BY DEF IssuedNow, Open
<1> HIDE DEF Named
<1>6. subs \in [Topics -> Nat]
  BY DEF TypeInv, TypeOK
<1>7. Registered'
  <2> SUFFICES ASSUME NEW t \in Topics, subs'[t] # 0
               PROVE  /\ subs'[t] \in 1 .. n
                      /\ Subscribes(subs[t], t)'
                      /\ \A i \in subs'[t] + 1 .. n : ~Subscribes(i, t)'
    BY <1>3 DEF Registered
  <2>1. CASE Named(t)
    <3>1. subs'[t] = n
      BY <1>1, <2>1
    <3> QED BY <1>3, <2>1, <3>1 DEF Subscribes, Names
  <2>2. CASE ~Named(t)
    <3>1. subs'[t] = subs[t] /\ subs[t] \in 1 .. Len(issued) /\ Subscribes(subs[t], t)
      BY <1>1, <1>2, <2>2 DEF Registered
    <3>2. subs[t] \in 1 .. n
      BY <1>3, <3>1
    <3>3. ASSUME NEW i \in subs[t] + 1 .. n PROVE ~Subscribes(i, t)'
      <4>1. CASE i = n
        BY <1>3, <2>2, <4>1
      <4>2. CASE i # n
        <5>1. i \in subs[t] + 1 .. Len(issued) /\ i \in 1 .. Len(issued)
          BY <1>3, <3>1, <4>2
        <5> QED BY <1>2, <1>4, <3>1, <5>1 DEF Registered
      <4> QED BY <4>1, <4>2
    <3>4. Subscribes(subs[t], t)'
      <4>1. PICK s \in 1 .. Len(issued) : s = subs[t]
        BY <3>1
      <4>2. Subscribes(s, t)' /\ subs'[t] = s
        BY <1>4, <3>1, <4>1
      <4> QED BY ONLY <4>2 DEF Subscribes, Names
    <3> QED BY <3>1, <3>2, <3>3, <3>4
  <2> QED BY <2>1, <2>2
<1>8. Telling'
  <2> SUFFICES ASSUME NEW i \in 1 .. Len(issued'), NEW t \in Topics, Subscribes(i, t)'
               PROVE  \/ subs'[t] = i
                      \/ \E j \in i + 1 .. n : Subscribes(j, t)'
                      \/ \E m \in 1 .. Len(ran) :
                            \/ ran[m].cb = i /\ ran[m].reply.type = "null"
                            \/ ran[m].reply.type = "unsubscribe" /\ ran[m].reply.topic = t /\ ran[m].reply.id > i
    BY <1>3, <1>5 DEF Telling
  <2>1. CASE i = n
    BY <1>1, <1>3, <2>1
  <2>2. CASE i # n
    <3>1. i \in 1 .. Len(issued) /\ Subscribes(i, t) /\ n \in i + 1 .. n
      BY <1>3, <1>4, <2>2
    <3>2. CASE Named(t)
      BY <1>3, <3>1, <3>2
    <3>3. CASE ~Named(t)
      <4>1. \A j \in i + 1 .. Len(issued) : j \in i + 1 .. n /\ j \in 1 .. Len(issued)
        BY <1>3, <3>1
      <4> QED BY <1>1, <1>2, <1>4, <3>1, <3>3, <4>1 DEF Telling
    <3> QED BY <3>2, <3>3
  <2> QED BY <2>1, <2>2
<1>9. Patient'
  <2>1. ASSUME NEW j \in 1 .. Len(issued'), NEW t \in Topics, Unsubscribes(j, t)', ~Confirmed(j, t)'
        PROVE  FALSE
    <3>1. j \in 1 .. Len(issued)
      BY <1>3, <2>1
    <3> QED BY <1>3, <1>4, <2>1, <3>1 DEF AllConfirmed
  <2>2. ASSUME NEW j \in 1 .. Len(issued'), NEW l \in 1 .. Len(issued'), NEW t \in Topics,
               j < l, Unsubscribes(j, t)', Unsubscribes(l, t)'
        PROVE  \E i \in j + 1 .. l - 1 : Subscribes(i, t)'
    <3>1. j \in 1 .. Len(issued) /\ l \in 1 .. Len(issued)
      BY <1>3, <2>2
    <3>2. PICK i \in j + 1 .. l - 1 : Subscribes(i, t)
      BY <1>2, <1>4, <2>2, <3>1 DEF Patient
    <3>3. i \in 1 .. Len(issued)
      BY <1>3, <3>1
    <3> QED BY <1>4, <3>2, <3>3
  <2> QED BY <2>1, <2>2 DEF Patient
<1>10. Lasting'
  <2> SUFFICES ASSUME NEW t \in Topics
               PROVE  /\ \A i \in 1 .. n : Subscribes(i, t)' =>
                            subs'[t] >= i \/ \E j \in i + 1 .. n : Unsubscribes(j, t)' /\ Confirmed(j, t)'
                      /\ \A j \in 1 .. n : Unsubscribes(j, t)' /\ Confirmed(j, t)' => subs'[t] = 0 \/ subs'[t] > j
                      /\ \A j \in 1 .. n : Unsubscribes(j, t)' /\ ~Confirmed(j, t)' => subs'[t] # 0 /\ subs'[t] < j
    BY <1>3 DEF Lasting
  <2>1. ASSUME NEW j \in 1 .. n, Unsubscribes(j, t)'
        PROVE  Confirmed(j, t)' /\ (subs'[t] = 0 \/ subs'[t] > j)
    <3>1. j \in 1 .. Len(issued) /\ j < n
      BY <1>3, <2>1
    <3>2. Unsubscribes(j, t) /\ Confirmed(j, t)
      BY <1>4, <2>1, <3>1 DEF AllConfirmed
    <3> QED BY <1>1, <1>2, <1>3, <3>1, <3>2 DEF Lasting
  <2>2. ASSUME NEW i \in 1 .. n, Subscribes(i, t)'
        PROVE  subs'[t] >= i \/ \E j \in i + 1 .. n : Unsubscribes(j, t)' /\ Confirmed(j, t)'
    <3>1. CASE Named(t)
      BY <1>1, <1>3, <3>1
    <3>2. CASE ~Named(t)
      <4>1. i \in 1 .. Len(issued) /\ Subscribes(i, t)
        BY <1>3, <1>4, <2>2, <3>2
      <4>2. \A j \in i + 1 .. Len(issued) : j \in i + 1 .. n /\ j \in 1 .. Len(issued)
        BY <1>3, <4>1
      <4> QED BY <1>1, <1>2, <1>3, <1>4, <3>2, <4>1, <4>2 DEF Lasting
    <3> QED BY <3>1, <3>2
  <2> QED BY <2>1, <2>2
<1>11. Flagged'
  <2>1. 1 \in 1 .. Len(topics) /\ topics[1] \in Topics
    OBVIOUS
  <2>2. Named(topics[1])
    BY <2>1 DEF Named
  <2>3. subs'[topics[1]] # 0
    BY <1>1, <1>3, <2>1, <2>2
  <2>4. "MONITORING" \notin flags'
    BY <1>1, <1>2 DEF Flagged
  <2> QED BY <1>1, <2>1, <2>3, <2>4 DEF Flagged
<1>12. Start'
  BY <1>1, <1>2, <1>5 DEF Start, Fresh
<1>13. Leaving'
  <2>0. \A k \in 1 .. Len(Incoming) : Incoming[k].type = "unsubscribe" => Incoming[k].topic \in Topics
    BY IncomingType DEF PubSubTypes
  <2>1. \A k \in 1 .. Len(Incoming) : Incoming[k].type # "unsubscribe"
    BY <1>2, <2>0 DEF Leaving, LeavingAt, AllConfirmed
  <2>2. ASSUME NEW j \in 1 .. Len(issued'), NEW t \in Topics, Unsubscribes(j, t)'
        PROVE  Confirmed(j, t)'
    <3>1. j \in 1 .. Len(issued)
      BY <1>3, <2>2
    <3> QED BY <1>3, <1>4, <2>2, <3>1 DEF AllConfirmed
  <2> QED BY <1>5, <2>1, <2>2 DEF Leaving, Ends
<1>14. Staying'
  <2>1. \A t \in Topics : subs[t] # 0 => subs'[t] # 0
    BY <1>1, <1>3
  <2>2. \A k \in 1 .. Len(Incoming) : Incoming[k].type \in {"subscribe", "message"} => Incoming[k].topic \in Topics
    BY IncomingType DEF PubSubTypes
  <2> QED BY <1>2, <1>5, <2>1, <2>2 DEF Staying
<1>15. Dealt'
  <2>1. Queued'
    <3>1. \A i \in 1 .. Len(issued) : i \in 1 .. Len(issued')
      BY <1>3
    <3> QED BY <1>1, <1>2, <1>4, <3>1 DEF Dealt, Queued
  <2>2. \A k : DealtAt(k) => DealtAt(k)'
    BY <1>1, <1>5 DEF DealtAt
  <2>3. ASSUME Open, Clean(Len(Incoming) + 1) PROVE Complete'
    <3>1. Complete
      BY <1>2, <2>3 DEF Dealt
    <3>2. ASSUME NEW c \in Served' + 1 .. Len(issued'), Regular(c)', ~Late(c)'
          PROVE  \E k \in 1 .. Len(replies') : replies'[k] = c
      <4>1. c # n /\ c \in Served + 1 .. Len(issued) /\ c \in 1 .. Len(issued)
        BY <1>3, <1>5, <3>2
      <4> QED BY <1>1, <1>4, <3>1, <3>2, <4>1 DEF Complete
    <3> QED BY <1>1, <1>5, <3>1, <3>2 DEF Complete
  <2>4. Clean(Len(Incoming) + 1)' <=> Clean(Len(Incoming) + 1)
    BY <1>5 DEF Clean
  <2> QED BY <1>2, <1>5, <2>1, <2>2, <2>3, <2>4 DEF Dealt
<1> QED BY <1>7, <1>8, <1>9, <1>10, <1>11, <1>12, <1>13, <1>14, <1>15

\* Commands that leave the dictionaries alone.
LEMMA IssueOthers ==
    ASSUME TypeInv, PubSubInv, Agreement, NEW kind, NEW topics \in Seq(Topics), NEW n,
           IssuedNow(n, kind, topics), kind # "subscribe", UNCHANGED subs,
           \A k, t : EndsBy(k, t)' <=> EndsBy(k, t), \A k, t : Ends(k, t)' <=> Ends(k, t)
    PROVE  Registered' /\ Telling' /\ Leaving' /\ Staying'
<1>2. Registered /\ Telling /\ Asked /\ Leaving /\ Staying
  BY DEF Agreement, PubSubInv
<1>3. /\ \A t : ~Confirmed(n, t)
      /\ \A j, t : Confirmed(j, t)' <=> Confirmed(j, t)
      /\ \A t : ~Subscribes(n, t)'
      /\ \A i \in 1 .. Len(issued') : i \in 1 .. Len(issued) \/ i = n
      /\ Len(issued) \in Nat
      /\ Len(issued') = n
      /\ n = Len(issued) + 1
      /\ Earlier
  BY <1>2, NewCommand
<1>4. \A i \in 1 .. Len(issued) : \A t :
         /\ Subscribes(i, t)' <=> Subscribes(i, t)
         /\ Unsubscribes(i, t)' <=> Unsubscribes(i, t)
  BY <1>3, EarlierCommands
<1>5. /\ UNCHANGED <<peer, ran>>
      /\ Incoming' = Incoming
      /\ Served \in 0 .. Len(issued) /\ Served' = Served
      /\ Open' <=> Open
  BY DEF IssuedNow, Open
<1>7. Registered'
  <2> SUFFICES ASSUME NEW t \in Topics, subs[t] # 0
               PROVE  /\ subs[t] \in 1 .. n
                      /\ Subscribes(subs[t], t)'
                      /\ \A i \in subs[t] + 1 .. n : ~Subscribes(i, t)'
    BY <1>3 DEF Registered
  <2>1. PICK s \in 1 .. Len(issued) : s = subs[t]
    BY <1>2 DEF Registered
  <2>2. Subscribes(s, t) /\ \A i \in s + 1 .. Len(issued) : ~Subscribes(i, t)
    BY <1>2, <2>1 DEF Registered
  <2>3. Subscribes(s, t)' /\ s \in 1 .. n /\ subs'[t] = s
    BY <1>3, <1>4, <2>1, <2>2
  <2>4. Subscribes(subs[t], t)'
    BY ONLY <2>3 DEF Subscribes, Names
  <2>5. ASSUME NEW i \in s + 1 .. n PROVE ~Subscribes(i, t)'
    <3>1. i = n \/ (i \in s + 1 .. Len(issued) /\ i \in 1 .. Len(issued))
      BY <1>3
    <3> QED BY <1>3, <1>4, <2>2, <3>1
  <2> QED BY <2>1, <2>3, <2>4, <2>5
<1>8. Telling'
  <2> SUFFICES ASSUME NEW i \in 1 .. Len(issued'), NEW t \in Topics, Subscribes(i, t)'
               PROVE  \/ subs[t] = i
                      \/ \E j \in i + 1 .. n : Subscribes(j, t)'
                      \/ \E m \in 1 .. Len(ran) :
                            \/ ran[m].cb = i /\ ran[m].reply.type = "null"
                            \/ ran[m].reply.type = "unsubscribe" /\ ran[m].reply.topic = t /\ ran[m].reply.id > i
    BY <1>3, <1>5 DEF Telling
  <2>1. i \in 1 .. Len(issued) /\ Subscribes(i, t)
    BY <1>3, <1>4
  <2>2. \A j \in i + 1 .. Len(issued) : j \in i + 1 .. n /\ j \in 1 .. Len(issued)
    BY <1>3, <2>1
  <2> QED BY <1>2, <1>4, <2>1, <2>2 DEF Telling
<1>9. Leaving'
  <2>1. ASSUME NEW k \in 1 .. Len(Incoming), Incoming[k].type = "unsubscribe" PROVE LeavingAt(k)'
    <3>1. LeavingAt(k)
      BY <1>2, <2>1 DEF Leaving
    <3>2. PICK c \in 1 .. Len(issued) : c = Incoming[k].id
      BY <3>1 DEF LeavingAt
    <3>3. Unsubscribes(c, Incoming[k].topic) /\ ~Confirmed(c, Incoming[k].topic) /\ (Open => c <= Served)
      BY <3>1, <3>2 DEF LeavingAt
    <3>4. PICK t : t = Incoming[k].topic
      OBVIOUS
    <3>5. Unsubscribes(c, t)' /\ ~Confirmed(c, t)' /\ c \in 1 .. Len(issued')
      BY <1>3, <1>4, <3>3, <3>4
    <3>6. Unsubscribes(Incoming[k].id, Incoming[k].topic)' /\ ~Confirmed(Incoming[k].id, Incoming[k].topic)'
      <4>1. Incoming'[k].id = c /\ Incoming'[k].topic = t
        BY <1>5, <3>2, <3>4
      <4> QED BY ONLY <3>5, <4>1 DEF Unsubscribes, Names, Confirmed
    <3>7. /\ Incoming[k].last => \A u \in Topics : subs[u] # 0 => EndsBy(k, u)
          /\ (\A u \in Topics : subs[u] # 0 => EndsBy(k, u)) => Incoming[k].last
      BY <3>1 DEF LeavingAt
    <3> QED BY <1>5, <3>2, <3>3, <3>5, <3>6, <3>7 DEF LeavingAt
  <2>2. ASSUME Open, NEW j \in 1 .. Len(issued'), NEW t \in Topics,
               j <= Served, Unsubscribes(j, t)', ~Confirmed(j, t)'
        PROVE  EndsBy(Len(Incoming), t)
    <3>1. j \in 1 .. Len(issued)
      BY <1>3, <1>5, <2>2
    <3> QED BY <1>2, <1>3, <1>4, <2>2, <3>1 DEF Leaving
  <2>3. \A t : EndsBy(Len(Incoming), t)' <=> EndsBy(Len(Incoming), t)
    BY <1>5 DEF EndsBy, Ends
  <2>4. \A k, l \in 1 .. Len(Incoming) : \A t \in Topics : Ends(k, t)' /\ Ends(l, t)' => k = l
    BY <1>2 DEF Leaving
  <2> QED BY <1>5, <2>1, <2>2, <2>3, <2>4 DEF Leaving
<1>10. Staying'
  <2>1. ASSUME NEW k \in 1 .. Len(Incoming) PROVE EndsBy(k, Incoming[k].topic)' <=> EndsBy(k, Incoming[k].topic)
    BY <1>5 DEF EndsBy, Ends
  <2> QED BY <1>2, <1>5, <2>1 DEF Staying
<1> QED BY <1>7, <1>8, <1>9, <1>10

\* Regular commands and MONITOR.
LEMMA IssuePlain ==
    ASSUME TypeInv, PubSubInv, Agreement, NEW kind, NEW topics \in Seq(Topics), NEW n,
           IssuedNow(n, kind, topics), kind \notin {"subscribe", "unsubscribe"}, UNCHANGED subs,
           AllConfirmed
    PROVE  Patient' /\ Lasting'
<1>2. Patient /\ Lasting /\ Asked
  BY DEF Agreement
<1>3. /\ \A t : ~Confirmed(n, t)
      /\ \A j, t : Confirmed(j, t)' <=> Confirmed(j, t)
      /\ \A t : ~Subscribes(n, t)'
      /\ \A t : ~Unsubscribes(n, t)'
      /\ \A i \in 1 .. Len(issued') : i \in 1 .. Len(issued) \/ i = n
      /\ Len(issued) \in Nat
      /\ Len(issued') = n
      /\ n = Len(issued) + 1
      /\ Earlier
  BY <1>2, NewCommand
<1>4. \A i \in 1 .. Len(issued) : \A t :
         /\ Subscribes(i, t)' <=> Subscribes(i, t)
         /\ Unsubscribes(i, t)' <=> Unsubscribes(i, t)
  BY <1>3, EarlierCommands
<1>5. ASSUME NEW j \in 1 .. Len(issued'), NEW t \in Topics, Unsubscribes(j, t)'
      PROVE  j \in 1 .. Len(issued) /\ Unsubscribes(j, t) /\ Confirmed(j, t)
  <2>1. j \in 1 .. Len(issued)
    BY <1>3, <1>5
  <2> QED BY <1>3, <1>4, <1>5, <2>1 DEF AllConfirmed
<1>6. ASSUME NEW j \in 1 .. Len(issued'), NEW l \in 1 .. Len(issued'), NEW t \in Topics,
             j < l, Unsubscribes(j, t)', Unsubscribes(l, t)'
      PROVE  \E i \in j + 1 .. l - 1 : Subscribes(i, t)'
  <2>1. j \in 1 .. Len(issued) /\ l \in 1 .. Len(issued) /\ Unsubscribes(j, t) /\ Unsubscribes(l, t)
    BY <1>5, <1>6
  <2>2. PICK i \in j + 1 .. l - 1 : Subscribes(i, t)
    BY <1>2, <1>6, <2>1 DEF Patient
  <2>3. i \in 1 .. Len(issued)
    BY <1>3, <2>1
  <2> QED BY <1>4, <2>2, <2>3
<1>7. Patient'
  BY <1>3, <1>5, <1>6 DEF Patient
<1>8. ASSUME NEW i \in 1 .. Len(issued'), NEW t \in Topics, Subscribes(i, t)'
      PROVE  subs[t] >= i \/ \E j \in i + 1 .. Len(issued') : Unsubscribes(j, t)' /\ Confirmed(j, t)'
  <2>1. i \in 1 .. Len(issued) /\ Subscribes(i, t)
    BY <1>3, <1>4, <1>8
  <2>2. \A j \in i + 1 .. Len(issued) : j \in i + 1 .. Len(issued') /\ j \in 1 .. Len(issued)
    BY <1>3, <2>1
  <2> QED BY <1>2, <1>3, <1>4, <2>1, <2>2 DEF Lasting
<1>9. Lasting'
  BY <1>2, <1>3, <1>5, <1>8 DEF Lasting
<1> QED BY <1>7, <1>9

\* UNSUBSCRIBE and PUNSUBSCRIBE.
LEMMA IssueUnsubscribe ==
    ASSUME TypeInv, PubSubInv, Agreement, NEW topics \in Seq(Topics), NEW n,
           IssuedNow(n, "unsubscribe", topics), UNCHANGED <<flags, subs, replies>>,
           \A i \in 1 .. Len(topics) : topics[i] \in Held,
           "SUBSCRIBED" \in flags,
           ~Monitored, ~Monitored', Rejected' <=> Rejected, \A k : Clean(k)' <=> Clean(k)
    PROVE  Patient' /\ Lasting' /\ Flagged' /\ Start' /\ Dealt'
<1>2. Registered /\ Patient /\ Lasting /\ Asked /\ Flagged /\ Start /\ Dealt
  BY DEF Agreement, PubSubInv
<1>3. /\ \A t : ~Confirmed(n, t)
      /\ \A j, t : Confirmed(j, t)' <=> Confirmed(j, t)
      /\ \A t : ~Subscribes(n, t)'
      /\ \A t : Unsubscribes(n, t)' => \E i \in 1 .. Len(topics) : topics[i] = t
      /\ ~Regular(n)'
      /\ \A i \in 1 .. Len(issued') : i \in 1 .. Len(issued) \/ i = n
      /\ Len(issued) \in Nat
      /\ Len(issued') = n
      /\ n = Len(issued) + 1
      /\ Earlier
  BY <1>2, NewCommand
<1>4. /\ \A i \in 1 .. Len(issued) : \A t :
            /\ Subscribes(i, t)' <=> Subscribes(i, t)
            /\ Unsubscribes(i, t)' <=> Unsubscribes(i, t)
      /\ \A i \in 1 .. Len(issued) : Regular(i)' <=> Regular(i)
      /\ \A i \in 1 .. Len(issued) : Late(i)' <=> Late(i)
  BY <1>3, EarlierCommands
<1>5. /\ peer' = peer
      /\ Incoming' = Incoming
      /\ Served \in 0 .. Len(issued) /\ Served' = Served
      /\ Open' <=> Open
      /\ issued'[n].kind = "unsubscribe"
      /\ \A i \in 1 .. Len(issued) : issued'[i] = issued[i]
  BY DEF IssuedNow, Open, Earlier
<1>6. ASSUME NEW t \in Topics, Unsubscribes(n, t)'
      PROVE  /\ \E i \in 1 .. Len(issued) :
                   Subscribes(i, t) /\ \A j \in i + 1 .. Len(issued) : ~Unsubscribes(j, t)
             /\ subs[t] # 0
             /\ subs[t] < n
  <2>1. On(Len(issued), t)
    BY <1>3, <1>6, HeldOn
  <2>2. \A j \in 1 .. Len(issued) : Unsubscribes(j, t) /\ Confirmed(j, t) => j <= Len(issued)
    BY <1>3
  <2>3. Len(issued) \in 0 .. Len(issued)
    BY <1>3
  <2>4. subs[t] # 0
    BY <1>2, <2>1, <2>2, <2>3, OnRegistered
  <2>5. subs[t] \in 1 .. Len(issued)
    BY <1>2, <2>4 DEF Registered
  <2> QED BY <1>3, <2>1, <2>4, <2>5 DEF On
<1>7. Patient'
  <2>1. ASSUME NEW j \in 1 .. Len(issued'), NEW t \in Topics, Unsubscribes(j, t)', ~Confirmed(j, t)',
               NEW i \in j + 1 .. Len(issued')
        PROVE  issued'[i].kind = "unsubscribe"
    <3>1. j \in 1 .. Len(issued) /\ (i = n \/ (i \in 1 .. Len(issued) /\ i \in j + 1 .. Len(issued)))
      BY <1>3
    <3>2. Unsubscribes(j, t) /\ ~Confirmed(j, t)
      BY <1>3, <1>4, <2>1, <3>1
    <3> QED BY <1>2, <1>5, <3>1, <3>2 DEF Patient
  <2>2. ASSUME NEW j \in 1 .. Len(issued'), NEW l \in 1 .. Len(issued'), NEW t \in Topics,
               j < l, Unsubscribes(j, t)', Unsubscribes(l, t)'
        PROVE  \E i \in j + 1 .. l - 1 : Subscribes(i, t)'
    <3>1. j \in 1 .. Len(issued) /\ Unsubscribes(j, t)
      BY <1>3, <1>4, <2>2
    <3>2. CASE l = n
      <4>1. PICK i \in 1 .. Len(issued) :
               Subscribes(i, t) /\ \A m \in i + 1 .. Len(issued) : ~Unsubscribes(m, t)
        BY <1>6, <2>2, <3>2
      <4>2. i # j
        BY <3>1, <4>1 DEF Subscribes, Unsubscribes
      <4>3. i > j
        BY <1>3, <3>1, <4>1, <4>2
      <4>4. i \in j + 1 .. l - 1
        BY <1>3, <3>1, <3>2, <4>3
      <4> QED BY <1>4, <4>1, <4>4
    <3>3. CASE l \in 1 .. Len(issued)
      <4>1. PICK i \in j + 1 .. l - 1 : Subscribes(i, t)
        BY <1>2, <1>4, <2>2, <3>1, <3>3 DEF Patient
      <4>2. i \in 1 .. Len(issued)
        BY <1>3, <3>1, <3>3
      <4> QED BY <1>4, <4>1, <4>2
    <3> QED BY <1>3, <3>2, <3>3
  <2> QED BY <2>1, <2>2 DEF Patient
<1>8. Lasting'
  <2>1. ASSUME NEW i \in 1 .. Len(issued'), NEW t \in Topics, Subscribes(i, t)'
        PROVE  subs[t] >= i \/ \E j \in i + 1 .. Len(issued') : Unsubscribes(j, t)' /\ Confirmed(j, t)'
    <3>1. i \in 1 .. Len(issued) /\ Subscribes(i, t)
      BY <1>3, <1>4, <2>1
    <3>2. \A j \in i + 1 .. Len(issued) : j \in i + 1 .. Len(issued') /\ j \in 1 .. Len(issued)
      BY <1>3, <3>1
    <3> QED BY <1>2, <1>3, <1>4, <3>1, <3>2 DEF Lasting
  <2>2. ASSUME NEW j \in 1 .. Len(issued'), NEW t \in Topics, Unsubscribes(j, t)'
        PROVE  /\ Confirmed(j, t)' => subs[t] = 0 \/ subs[t] > j
               /\ ~Confirmed(j, t)' => subs[t] # 0 /\ subs[t] < j
    <3>1. CASE j = n
      BY <1>3, <1>6, <2>2, <3>1
    <3>2. CASE j \in 1 .. Len(issued)
      BY <1>2, <1>3, <1>4, <2>2, <3>2 DEF Lasting
    <3> QED BY <1>3, <3>1, <3>2
  <2> QED BY <2>1, <2>2 DEF Lasting
<1>9. Flagged'
  BY <1>2 DEF Flagged
<1>10. Start'
  BY <1>2, <1>5 DEF Start, Fresh
<1>11. Dealt'
  <2>1. Queued'
    <3>1. \A i \in 1 .. Len(issued) : i \in 1 .. Len(issued')
      BY <1>3
    <3> QED BY <1>2, <1>4, <3>1 DEF Dealt, Queued
  <2>2. \A k : DealtAt(k) => DealtAt(k)'
    BY <1>5 DEF DealtAt
  <2>3. ASSUME Open, Clean(Len(Incoming) + 1) PROVE Complete'
    <3>1. Complete
      BY <1>2, <2>3 DEF Dealt
    <3>2. ASSUME NEW c \in Served' + 1 .. Len(issued'), Regular(c)', ~Late(c)'
          PROVE  \E k \in 1 .. Len(replies') : replies'[k] = c
      <4>1. c # n /\ c \in Served + 1 .. Len(issued) /\ c \in 1 .. Len(issued)
        BY <1>3, <1>5, <3>2
      <4> QED BY <1>4, <3>1, <3>2, <4>1 DEF Complete
    <3> QED BY <1>5, <3>1, <3>2 DEF Complete
  <2>4. Clean(Len(Incoming) + 1)' <=> Clean(Len(Incoming) + 1)
    BY <1>5 DEF Clean
  <2> QED BY <1>2, <1>5, <2>1, <2>2, <2>3, <2>4 DEF Dealt
<1> QED BY <1>7, <1>8, <1>9, <1>10, <1>11

\* A regular command: behind a subscription it goes to ac->sub.invalid, else to
\* ac->replies.
LEMMA IssueRegular ==
    ASSUME TypeInv, PubSubInv, Agreement, NEW kind \in {"command", "silent"}, NEW topics \in Seq(Topics),
           NEW n, IssuedNow(n, kind, topics), RegisterCallback(kind, topics, n), AllConfirmed,
           ~Monitored, ~Monitored', Rejected' <=> Rejected, \A k : Clean(k)' <=> Clean(k)
    PROVE  Flagged' /\ Start' /\ Dealt'
<1>2. Registered /\ Patient /\ Lasting /\ Asked /\ Flagged /\ Start /\ Leaving /\ Staying /\ Refusing /\ Dealt
  BY DEF Agreement, PubSubInv
<1>3. /\ Regular(n)'
      /\ \A i \in 1 .. Len(issued') : i \in 1 .. Len(issued) \/ i = n
      /\ Len(issued) \in Nat
      /\ Len(issued') = n
      /\ n = Len(issued) + 1
      /\ Earlier
  BY <1>2, NewCommand
<1>4. /\ \A i \in 1 .. Len(issued) : Regular(i)' <=> Regular(i)
      /\ \A i \in 1 .. Len(issued) : Late(i)' <=> Late(i)
      /\ \A m \in 0 .. Len(issued) : \A t : On(m, t)' <=> On(m, t)
  BY <1>3, EarlierCommands
<1>5. /\ peer' = peer
      /\ Incoming' = Incoming
      /\ Served \in 0 .. Len(issued) /\ Served' = Served
      /\ Open' <=> Open
  BY DEF IssuedNow, Open
<1>6. Late(n)' <=> "SUBSCRIBED" \in flags
  <2>1. "SUBSCRIBED" \in flags <=> \E t \in Topics : On(Len(issued), t)
    BY <1>2, SubscribedOn
  <2>2. n - 1 = Len(issued) /\ Len(issued) \in 0 .. Len(issued)
    BY <1>3
  <2>3. PICK m \in 0 .. Len(issued) : m = Len(issued)
    BY <2>2
  <2>4. Late(n)' <=> \E t \in Topics : On(m, t)'
    BY <1>3, <2>2, <2>3 DEF Late
  <2> QED BY <1>4, <2>1, <2>3, <2>4
<1>7. UNCHANGED <<flags, subs>>
  BY DEF RegisterCallback, Kinds
<1>8. Flagged'
  BY <1>2, <1>7 DEF Flagged
<1>9. Clean(Len(Incoming) + 1)' <=> Clean(Len(Incoming) + 1)
  BY <1>5 DEF Clean
<1>10. CASE "SUBSCRIBED" \in flags
  <2>1. replies' = replies
    BY <1>10 DEF RegisterCallback, Kinds
  <2>2. Start'
    BY <1>2, <1>5, <1>7, <1>10, <2>1 DEF Start, Fresh
  <2>3. Queued'
    <3>1. \A i \in 1 .. Len(issued) : i \in 1 .. Len(issued')
      BY <1>3
    <3> QED BY <1>2, <1>4, <2>1, <3>1 DEF Dealt, Queued
  <2>4. \A k : DealtAt(k) => DealtAt(k)'
    BY <1>5, <2>1 DEF DealtAt
  <2>5. ASSUME Open, Clean(Len(Incoming) + 1) PROVE Complete'
    <3>1. Complete
      BY <1>2, <2>5 DEF Dealt
    <3>2. ASSUME NEW c \in Served' + 1 .. Len(issued'), Regular(c)', ~Late(c)'
          PROVE  \E k \in 1 .. Len(replies') : replies'[k] = c
      <4>1. c # n /\ c \in Served + 1 .. Len(issued) /\ c \in 1 .. Len(issued)
        BY <1>3, <1>5, <1>6, <1>10, <3>2
      <4> QED BY <1>4, <2>1, <3>1, <3>2, <4>1 DEF Complete
    <3> QED BY <1>5, <2>1, <3>1, <3>2 DEF Complete
  <2> QED BY <1>2, <1>5, <1>8, <1>9, <2>2, <2>3, <2>4, <2>5 DEF Dealt
<1>11. CASE "SUBSCRIBED" \notin flags
  <2>0. replies \in Seq(Nat) /\ n \in Nat
    BY <1>3 DEF TypeInv, TypeOK
  <2>1. replies' = Append(replies, n)
    BY <1>11 DEF RegisterCallback, PushCallback, Kinds
  <2>2. PICK q \in Nat : q = Len(replies)
    BY <2>0
  <2>3. /\ Len(replies') = q + 1
        /\ \A k \in 1 .. q : replies'[k] = replies[k]
        /\ replies'[q + 1] = n
        /\ \A k \in 1 .. q + 1 : k \in 1 .. q \/ k = q + 1
    BY <2>0, <2>1, <2>2, AppendFacts
  <2>4. Start'
    <3> SUFFICES ASSUME peer = "connecting" \/ Rejected PROVE replies'[1] = 1 /\ replies' # <<>>
      BY <1>5 DEF Start, Fresh
    <3>1. Fresh
      BY <1>2 DEF Start
    <3>2. replies' # <<>>
      BY SMTT(30), <2>0, <2>1
    <3>3. CASE replies = <<>>
      <4>1. Len(issued) = 0 /\ q = 0
        BY <1>11, <2>2, <3>1, <3>3 DEF Fresh
      <4>2. n = 1 /\ q + 1 = 1
        BY <1>3, <4>1
      <4> QED BY <2>3, <3>2, <4>2
    <3>4. CASE replies # <<>>
      <4>1. 1 \in 1 .. q
        BY <2>0, <2>2, <3>4
      <4> QED BY <2>3, <3>1, <3>2, <3>4, <4>1 DEF Fresh
    <3> QED BY <3>3, <3>4
  <2>5. ASSUME NEW k \in 1 .. q PROVE replies[k] \in 1 .. Len(issued) /\ Regular(replies[k]) /\ ~Late(replies[k])
    BY <1>2, <2>2 DEF Dealt, Queued
  <2>6. ASSUME NEW k \in 1 .. q
        PROVE replies[k] \in 1 .. n /\ replies[k] < n /\ Regular(replies[k])' /\ ~Late(replies[k])'
    <3>1. PICK r \in 1 .. Len(issued) : r = replies[k]
      BY <2>5
    <3>2. Regular(r)' /\ ~Late(r)' /\ replies'[k] = r
      BY <1>4, <2>3, <2>5, <3>1
    <3>3. Regular(replies[k])' /\ ~Late(replies[k])'
      BY ONLY <3>2 DEF Regular, Late, On, Subscribes, Unsubscribes, Names
    <3> QED BY <1>3, <3>1, <3>3
  <2>7. Queued'
    <3>1. ASSUME NEW k \in 1 .. Len(replies')
          PROVE  replies'[k] \in 1 .. Len(issued') /\ Regular(replies[k])' /\ ~Late(replies[k])'
      <4>1. CASE k \in 1 .. q
        BY <1>3, <2>3, <2>6, <4>1
      <4>2. CASE k = q + 1
        <5>1. replies'[k] = n /\ Regular(n)' /\ ~Late(n)' /\ n \in 1 .. Len(issued')
          BY <1>3, <1>6, <1>11, <2>3, <4>2
        <5>2. Regular(replies[k])' /\ ~Late(replies[k])'
          BY ONLY <5>1 DEF Regular, Late, On, Subscribes, Unsubscribes, Names
        <5> QED BY <5>1, <5>2
      <4> QED BY <2>3, <4>1, <4>2
    <3>2. ASSUME NEW k \in 1 .. Len(replies'), NEW l \in 1 .. Len(replies'), k < l
          PROVE  replies'[k] < replies'[l]
      <4>1. k \in 1 .. q
        BY <2>3, <3>2
      <4>2. CASE l \in 1 .. q
        BY <1>2, <2>2, <2>3, <3>2, <4>1, <4>2 DEF Dealt, Queued
      <4>3. CASE l = q + 1
        BY <2>3, <2>6, <4>1, <4>3
      <4> QED BY <2>3, <4>2, <4>3
    <3> QED BY <3>1, <3>2 DEF Queued
  <2>8. \A t \in Topics : subs[t] = 0
    BY <1>2, <1>11 DEF Flagged
  <2>9. ASSUME NEW k \in 1 .. Len(Incoming), DealtAt(k)
        PROVE  DealtAt(k)' /\ (k <= q \/ Incoming[k].type = "bad" \/ Rejected)
    <3>1. Incoming[k].type \notin PubSubTypes /\ (Incoming[k].type = "error" => Rejected)
      BY <1>2, <2>8, NothingPushed
    <3>2. \/ Incoming[k].type = "bad"
          \/ Rejected
          \/ k <= q /\ Incoming[k].type = "data" /\ Incoming[k].id = replies[k]
      BY <2>2, <2>9, <3>1 DEF DealtAt
    <3>3. CASE k <= q /\ Incoming[k].type = "data" /\ Incoming[k].id = replies[k]
      <4>1. k \in 1 .. q /\ k <= Len(replies')
        BY <2>3, <3>3, IncomingType
      <4> QED BY <1>5, <2>3, <3>3, <4>1 DEF DealtAt
    <3> QED BY <1>5, <3>2, <3>3 DEF DealtAt
  <2>10. ASSUME Open, Clean(Len(Incoming) + 1) PROVE Complete'
    <3>1. Complete
      BY <1>2, <2>10 DEF Dealt
    <3>2. Len(Incoming) <= q
      <4> SUFFICES ASSUME Len(Incoming) > q PROVE FALSE
        BY <2>2, IncomingType
      <4>1. PICK k \in 1 .. Len(Incoming) : k = Len(Incoming)
        BY <2>2, IncomingType
      <4>2. Clean(k)
        BY <2>10, <4>1, IncomingType DEF Clean
      <4>3. DealtAt(k)
        BY <1>2, <4>2 DEF Dealt
      <4>4. Incoming[k].type = "bad" \/ Rejected
        BY <2>2, <2>9, <4>1, <4>3, IncomingType
      <4>5. k \in 1 .. (Len(Incoming) + 1) - 1
        BY <4>1, IncomingType
      <4>6. Incoming[k].type # "bad"
        BY <2>10, <4>5 DEF Clean
      <4> QED BY <2>10, <4>4, <4>6 DEF Open, Rejected
    <3>3. ASSUME NEW c \in Served' + 1 .. Len(issued'), Regular(c)', ~Late(c)'
          PROVE  \E k \in 1 .. Len(replies') : replies'[k] = c
      <4>1. CASE c = n
        <5>1. q + 1 \in 1 .. Len(replies')
          BY <2>3
        <5> QED BY <2>3, <4>1, <5>1
      <4>2. CASE c # n
        <5>1. c \in Served + 1 .. Len(issued) /\ c \in 1 .. Len(issued)
          BY <1>3, <1>5, <4>2
        <5>2. PICK k \in 1 .. q : replies[k] = c
          BY <1>4, <2>2, <3>1, <3>3, <5>1 DEF Complete
        <5>3. k \in 1 .. Len(replies') /\ replies'[k] = c
          BY <2>3, <5>2
        <5> QED BY <5>3
      <4> QED BY <4>1, <4>2
    <3>4. ASSUME NEW k \in 1 .. Len(replies')
          PROVE  /\ k <= Len(Incoming) => replies'[k] <= Served
                 /\ k > Len(Incoming) => replies'[k] > Served
      <4>1. CASE k \in 1 .. q
        BY <2>2, <2>3, <3>1, <4>1 DEF Complete
      <4>2. CASE k = q + 1
        BY <1>3, <1>5, <2>3, <3>2, <4>2, IncomingType
      <4> QED BY <2>3, <4>1, <4>2
    <3> QED BY <1>5, <3>3, <3>4 DEF Complete
  <2> QED BY <1>2, <1>5, <1>8, <1>9, <2>4, <2>7, <2>9, <2>10 DEF Dealt
<1> QED BY <1>10, <1>11

\* MONITOR, the first command.
LEMMA IssueMonitor ==
    ASSUME TypeInv, PubSubInv, Agreement, NEW topics \in Seq(Topics),
           NEW n, IssuedNow(n, "monitor", topics), RegisterCallback("monitor", topics, n),
           issued = <<>>, ~Monitored, Monitored', Rejected' <=> Rejected, \A k : Clean(k)' <=> Clean(k)
    PROVE  Flagged' /\ Start' /\ Watching'
<1>1. Registered /\ Patient /\ Lasting /\ Flagged /\ Leaving /\ Staying /\ Refusing /\ Dealt /\ Ordered
  BY DEF Agreement, PubSubInv
<1>2. Len(issued) = 0 /\ n = 1 /\ Incoming' = Incoming /\ cb' = cb /\ peer' = peer
  <2>1. Len(issued) = 0 /\ n = Len(issued) + 1
    BY DEF IssuedNow
  <2>2. Incoming' = Incoming /\ cb' = cb /\ peer' = peer
    BY DEF IssuedNow
  <2> QED BY <2>1, <2>2
<1>3. /\ flags' = flags \cup {"MONITORING"}
      /\ replies' = Append(replies, n)
      /\ subs' = subs
  BY DEF RegisterCallback, PushCallback
<1>4. replies \in Seq(Nat) /\ Len(replies) \in Nat
  BY DEF TypeInv, TypeOK
<1>5. Len(replies) = 0
  <2> SUFFICES ASSUME Len(replies) # 0 PROVE FALSE
    OBVIOUS
  <2>1. 1 \in 1 .. Len(replies)
    BY <1>4
  <2> QED BY <1>1, <1>2, <2>1 DEF Dealt, Queued
<1>6. Len(replies') = 1 /\ replies'[1] = 1
  BY <1>2, <1>3, <1>4, <1>5, AppendFacts
<1>7. replies' # <<>>
  BY <1>3, <1>4
<1>8. \A t \in Topics : subs[t] = 0
  BY <1>1, <1>2 DEF Registered
<1>9. AllConfirmed
  BY <1>2 DEF AllConfirmed
<1>10. Flagged'
  BY <1>1, <1>3, <1>8 DEF Flagged
<1>11. Start'
  BY <1>6, <1>7 DEF Start, Fresh
<1>12. cb = 0
  BY <1>1, <1>2 DEF Ordered
<1>13. ASSUME NEW k \in 1 .. Len(Incoming), Clean(k) PROVE WatchingAt(k)'
  <2>1. DealtAt(k)
    BY <1>1, <1>13 DEF Dealt
  <2>2. Incoming[k].type \notin PubSubTypes /\ (Incoming[k].type = "error" => Rejected)
    BY <1>1, <1>8, <1>9, NothingPushed
  <2>3. k >= 1
    BY IncomingType
  <2> QED BY <1>2, <1>5, <2>1, <2>2, <2>3 DEF DealtAt, WatchingAt
<1>14. Watching'
  BY <1>2, <1>6, <1>12, <1>13 DEF Watching
<1> QED BY <1>10, <1>11, <1>14

LEMMA PubSubCommand ==
    ASSUME Supports, TypeInv, PubSubInv, Commands
    PROVE  PubSubInv'
<1>1. PICK kind \in Kinds, topics \in Seq(Topics) :
         /\ AsyncCommand(kind, topics)
         /\ kind \in {"subscribe", "unsubscribe"} => topics \in TopicLists
  <2>1. <<>> \in Seq(Topics) /\ TopicLists \subseteq Seq(Topics)
    BY TopicsAssumption
  <2>2. {"subscribe", "unsubscribe"} \subseteq Kinds
    BY DEF Kinds
  <2> QED BY <2>1, <2>2 DEF Commands
<1>2. PICK n : n = Len(issued) + 1
  OBVIOUS
<1>3. IssuedNow(n, kind, topics) /\ Agreement
  BY <1>1, <1>2, CommandIssued
<1>4. RegisterCallback(kind, topics, n)
  BY <1>1, <1>2 DEF AsyncCommand
<1>5. Supported(kind, topics)
  BY <1>1 DEF AsyncCommand, Supports
<1>6. /\ \A i \in 1 .. Len(issued) : issued[i].kind # "monitor"
      /\ kind = "monitor" => issued = <<>>
      /\ kind = "unsubscribe" => \A k \in 1 .. Len(topics) : topics[k] \in Held
      /\ kind \notin {"monitor", "unsubscribe"} => Awaiting = {}
  BY <1>5 DEF Supported
<1>7. kind \in {"subscribe", "unsubscribe"} =>
         topics # <<>> /\ \A i, j \in 1 .. Len(topics) : topics[i] = topics[j] => i = j
  BY <1>1 DEF Supports
<1>8. /\ Numbered' /\ RightCallback' /\ Asked' /\ ServerSide' /\ Refusing'
      /\ Rejected' <=> Rejected
      /\ \A k, t : EndsBy(k, t)' <=> EndsBy(k, t)
      /\ \A k, t : Ends(k, t)' <=> Ends(k, t)
      /\ \A k : Clean(k)' <=> Clean(k)
      /\ ~Monitored
      /\ Monitored' <=> kind = "monitor"
  BY <1>3, <1>6, <1>7, IssueShared
<1>9. Ordered'
  BY <1>3, <1>4, IssueOrdered
<1>10. SUFFICES /\ Registered' /\ Telling' /\ Patient' /\ Lasting' /\ Flagged' /\ Start' /\ Leaving' /\ Staying'
                /\ Monitored' \/ Dealt'
                /\ Monitored' => Watching'
  BY <1>8, <1>9 DEF PubSubInv, Agreement
<1>11. CASE kind = "subscribe"
  <2>1. AllConfirmed
    BY <1>6, <1>11, NothingAwaited
  <2> QED BY <1>3, <1>4, <1>7, <1>8, <1>11, <2>1, IssueSubscribe
<1>12. CASE kind = "unsubscribe"
  <2>1. UNCHANGED <<flags, subs, replies>> /\ "SUBSCRIBED" \in flags
    BY <1>4, <1>12 DEF RegisterCallback, queues
  <2>2. Registered' /\ Telling' /\ Leaving' /\ Staying'
    BY <1>3, <1>8, <1>12, <2>1, IssueOthers
  <2>3. Patient' /\ Lasting' /\ Flagged' /\ Start' /\ Dealt'
    BY <1>3, <1>6, <1>8, <1>12, <2>1, IssueUnsubscribe
  <2> QED BY <1>8, <1>12, <2>2, <2>3
<1>13. CASE kind \in {"command", "silent"}
  <2>1. AllConfirmed
    BY <1>6, <1>13, NothingAwaited
  <2>2. UNCHANGED subs
    BY <1>4, <1>13 DEF RegisterCallback
  <2>3. Registered' /\ Telling' /\ Leaving' /\ Staying'
    BY <1>3, <1>8, <1>13, <2>2, IssueOthers
  <2>4. Patient' /\ Lasting'
    BY <1>3, <1>13, <2>1, <2>2, IssuePlain
  <2>5. Flagged' /\ Start' /\ Dealt'
    BY <1>3, <1>4, <1>8, <1>13, <2>1, IssueRegular
  <2> QED BY <1>8, <1>13, <2>3, <2>4, <2>5
<1>14. CASE kind = "monitor"
  <2>1. UNCHANGED subs /\ issued = <<>> /\ Len(issued) = 0
    BY <1>4, <1>6, <1>14 DEF RegisterCallback
  <2>2. AllConfirmed
    BY <2>1 DEF AllConfirmed
  <2>3. Registered' /\ Telling' /\ Leaving' /\ Staying'
    BY <1>3, <1>8, <1>14, <2>1, IssueOthers
  <2>4. Patient' /\ Lasting'
    BY <1>3, <1>14, <2>1, <2>2, IssuePlain
  <2>5. Flagged' /\ Start' /\ Watching'
    BY <1>3, <1>4, <1>8, <1>14, <2>1, IssueMonitor
  <2> QED BY <1>8, <1>14, <2>3, <2>4, <2>5
<1> QED BY <1>11, <1>12, <1>13, <1>14 DEF Kinds

-----------------------------------------------------------------------------
(* redisBufferRead and redisBufferWrite. *)

LEMMA PubSubRead ==
    ASSUME TypeInv, PubSubInv, NEW n \in 0 .. Len(sock), BufferRead(n)
    PROVE  PubSubInv'
<1>1. /\ pc = "read" /\ pc' = "process" /\ ctx = "live" /\ cb' = 0
      /\ rbuf' = rbuf \o SubSeq(sock, 1, n)
      /\ sock' = SubSeq(sock, n + 1, Len(sock))
      /\ UNCHANGED <<issued, replies, subs, invalid, obuf, wire, peer, srvSubs, srvMode, ran, flags, ctx, back, err>>
  BY DEF BufferRead, queues, historyVars, TypeInv, TypeOK, ControlOK
<1>2. ~Released /\ ~Released'
  BY <1>1 DEF Released
<1>3. sock \in Seq(Reply) /\ rbuf \in Seq(Reply)
  BY DEF TypeInv, TypeOK, ServerTypeOK
<1>4. UNCHANGED Incoming
  BY <1>1, <1>3, MoveFacts DEF Incoming
<1>5. Ordered'
  <2>1. 0 \in 0 .. Len(issued)
    BY Lengths
  <2> QED BY <1>1, <1>2, <2>1 DEF PubSubInv, Ordered, Released
<1>6. UNCHANGED promises
  BY <1>1 DEF promises
<1> QED BY <1>1, <1>2, <1>4, <1>5, <1>6, QuietPromises

LEMMA PubSubWrite ==
    ASSUME TypeInv, PubSubInv, NEW n \in 0 .. Len(obuf), BufferWrite(n)
    PROVE  PubSubInv'
<1> DEFINE cut == SubSeq(obuf, 1, n)
           left == SubSeq(obuf, n + 1, Len(obuf))
<1>1. /\ pc = "write" /\ pc' = "idle" /\ ctx = "live"
      /\ obuf' = left
      /\ wire' = IF peer = "up" THEN wire \o cut ELSE wire
      /\ UNCHANGED <<issued, replies, subs, invalid, rbuf, sock, peer, srvSubs, srvMode, ran, flags, ctx, back,
                     err, cb>>
  BY DEF BufferWrite, queues, historyVars, TypeInv, TypeOK, ControlOK
<1>2. ~Released /\ ~Released'
  BY <1>1 DEF Released
<1>3. wire \in Seq(Command) /\ obuf \in Seq(Command)
  BY DEF TypeInv, TypeOK, ServerTypeOK
<1>4. /\ cut \in Seq(Command)
      /\ Len(cut) = n
      /\ Len(left) = Len(obuf) - n
      /\ \A i \in 1 .. n : cut[i] = obuf[i]
      /\ \A i \in 1 .. Len(obuf) - n : left[i] = obuf[n + i]
  BY <1>3, CutFacts
<1> HIDE DEF cut, left
<1>5. Numbered /\ Ordered
  BY DEF PubSubInv
<1>6. UNCHANGED Incoming /\ UNCHANGED promises
  BY <1>1 DEF Incoming, promises
<1>7. peer # "connecting"
  BY <1>1, <1>2, <1>5 DEF Ordered
<1>8. Ordered'
  BY <1>1, <1>2, <1>5, <1>7 DEF Ordered, Released
<1>9. PICK a, o, w \in Nat : a = Len(issued) /\ o = Len(obuf) /\ w = Len(wire)
  BY Lengths
<1>10. n \in Nat /\ n <= o /\ o <= a /\ w + o <= a
  BY <1>2, <1>5, <1>9 DEF Numbered, Served
<1>11. /\ Len(obuf') = o - n
       /\ \A i \in 1 .. o - n : obuf'[i] = issued[a - (o - n) + i]
  <2>1. ASSUME NEW i \in 1 .. o - n PROVE left[i] = issued[a - (o - n) + i]
    <3>1. n + i \in 1 .. o /\ a - o + (n + i) = a - (o - n) + i
      BY <1>9, <1>10
    <3>2. obuf[n + i] = issued[a - o + (n + i)]
      BY <1>5, <1>9, <3>1 DEF Numbered
    <3> QED BY <1>4, <1>9, <3>1, <3>2
  <2> QED BY <1>1, <1>4, <1>9, <2>1
<1>12. CASE peer = "up"
  <2>1. /\ Len(wire') = w + n
        /\ \A i \in 1 .. w : wire'[i] = wire[i]
        /\ \A i \in 1 .. n : wire'[w + i] = cut[i]
    <3>1. wire' = wire \o cut
      BY <1>1, <1>12
    <3>2. /\ Len(wire \o cut) = Len(wire) + Len(cut)
          /\ \A i \in 1 .. Len(wire) : (wire \o cut)[i] = wire[i]
          /\ \A i \in 1 .. Len(cut) : (wire \o cut)[Len(wire) + i] = cut[i]
      <4>1. cut \in Seq(Command) /\ wire \in Seq(Command)
        BY <1>3, <1>4
      <4> QED BY ONLY <4>1, ConcatFacts
    <3> QED BY <1>4, <1>9, <3>1, <3>2
  <2>2. Served = a - o - w /\ Served' = a - (o - n) - (w + n)
    BY <1>1, <1>9, <1>11, <2>1 DEF Served
  <2>3. Served' = Served
    BY <1>9, <1>10, <2>2
  <2>4. ASSUME NEW i \in 1 .. Len(wire') PROVE wire'[i] = issued[Served + i]
    <3>1. CASE i \in 1 .. w
      BY <1>2, <1>5, <1>9, <2>1, <3>1 DEF Numbered
    <3>2. CASE i \notin 1 .. w
      <4>1. i - w \in 1 .. n /\ i = w + (i - w)
        BY <1>9, <1>10, <2>1, <3>2
      <4>2. PICK j \in 1 .. n : i = w + j
        BY <4>1
      <4>3. j \in 1 .. o /\ a - o + j = Served + i
        BY <1>9, <1>10, <2>2, <4>2
      <4>4. obuf[j] = issued[a - o + j]
        BY <1>5, <1>9, <4>3 DEF Numbered
      <4> QED BY <1>4, <2>1, <4>2, <4>3, <4>4
    <3> QED BY <3>1, <3>2
  <2>5. Numbered'
    <3>1. Len(obuf') <= Len(issued)
      BY <1>9, <1>10, <1>11
    <3>2. \A i \in 1 .. Len(obuf') : obuf'[i] = issued[Len(issued) - Len(obuf') + i]
      BY <1>9, <1>11
    <3>3. Served >= 0
      BY <1>2, <1>5 DEF Numbered
    <3> QED BY <1>1, <1>5, <1>12, <2>3, <2>4, <3>1, <3>2, <3>3 DEF Numbered, Monitored
  <2> QED BY <1>1, <1>2, <1>6, <1>7, <1>8, <2>3, <2>5, MovedPromises
<1>13. CASE peer # "up"
  <2>1. wire' = wire /\ wire = <<>> /\ Len(wire) = 0
    BY <1>1, <1>5, <1>13 DEF Numbered
  <2>2. Served' = a - (o - n) - 0
    BY <1>1, <1>9, <1>11, <2>1 DEF Served
  <2>3. Served' >= 0
    BY <1>9, <1>10, <2>2
  <2>4. Numbered'
    <3>1. Len(obuf') <= Len(issued)
      BY <1>9, <1>10, <1>11
    <3>2. \A i \in 1 .. Len(obuf') : obuf'[i] = issued[Len(issued) - Len(obuf') + i]
      BY <1>9, <1>11
    <3> QED BY <1>1, <1>5, <1>13, <2>1, <2>3, <3>1, <3>2 DEF Numbered, Monitored
  <2>5. ~Open
    BY <1>7, <1>13 DEF Open
  <2> QED BY <1>1, <1>2, <1>6, <1>7, <1>8, <2>4, <2>5, MovedPromises
<1> QED BY <1>12, <1>13

\* A monitor's callback is queued again.
LEMMA PubSubRequeue ==
    ASSUME TypeInv, PubSubInv, NoMoreReplies, ~DisconnectDue, "MONITORING" \in flags
    PROVE  PubSubInv'
<1>1. /\ pc = "process" /\ pc' = "idle" /\ ctx = "live"
      /\ replies' = Append(replies, cb)
      /\ UNCHANGED <<issued, subs, invalid, rbuf, sock, obuf, wire, peer, srvSubs, srvMode, ran, flags, ctx, back,
                     err, cb>>
  BY DEF NoMoreReplies, PushCallback, serverVars, buffers, historyVars, TypeInv, TypeOK, ControlOK
<1>2. ~Released /\ ~Released'
  BY <1>1 DEF Released
<1>3. Agreement /\ Ordered /\ Registered
  BY <1>2 DEF PubSubInv
<1>4. Monitored /\ Watching /\ Flagged /\ Start
  BY <1>3 DEF Agreement, Flagged
<1>5. replies \in Seq(Nat) /\ cb \in Nat
  BY DEF TypeInv, TypeOK
<1>6. /\ Len(replies') = Len(replies) + 1
      /\ \A k \in 1 .. Len(replies) : replies'[k] = replies[k]
      /\ replies'[Len(replies) + 1] = cb
      /\ \A k \in 1 .. Len(replies') : k \in 1 .. Len(replies) \/ k = Len(replies) + 1
  BY <1>1, <1>5, AppendFacts
<1>7. Incoming' = Incoming /\ Served' = Served
  BY <1>1 DEF Incoming, Served
<1>8. Ordered'
  BY <1>1, <1>2, <1>3, <1>6 DEF Ordered, Released
<1>9. Watching'
  BY <1>1, <1>4, <1>6, <1>7 DEF Watching, WatchingAt, Clean, Rejected
<1>10. Start'
  <2> SUFFICES ASSUME peer = "connecting" \/ Rejected PROVE replies' # <<>> /\ replies'[1] = 1
    BY <1>1, <1>7 DEF Start, Fresh, Rejected
  <2>1. Fresh
    BY <1>4 DEF Start
  <2>2. "SUBSCRIBED" \notin flags
    <3> SUFFICES ASSUME "SUBSCRIBED" \in flags PROVE FALSE
      OBVIOUS
    <3>1. PICK t \in Topics : subs[t] # 0
      BY <1>4 DEF Flagged
    <3>2. Subscribes(subs[t], t) /\ subs[t] \in 1 .. Len(issued)
      BY <1>3, <3>1 DEF Registered
    <3>3. subs[t] = 1
      BY <1>4, <3>2 DEF Monitored
    <3> QED BY <1>4, <3>2, <3>3 DEF Monitored, Subscribes
  <2>3. Len(issued) = 1
    BY <1>4 DEF Monitored
  <2>4. replies # <<>> /\ replies[1] = 1
    BY <2>1, <2>2, <2>3 DEF Fresh
  <2>5. 1 \in 1 .. Len(replies)
    BY <1>5, <2>4
  <2> QED BY <1>1, <1>5, <1>6, <2>4, <2>5
<1>11. UNCHANGED issued
  BY <1>1
<1>12. Numbered' /\ RightCallback'
  BY <1>1, <1>2, <1>7 DEF PubSubInv, Numbered, Monitored, RightCallback, TopicSet
<1>13. Registered' /\ Telling'
  BY <1>1, <1>11, SameCommands DEF PubSubInv, Registered, Telling
<1>14. \A j, t : Confirmed(j, t)' <=> Confirmed(j, t)
  BY <1>1 DEF Confirmed
<1>15. Patient' /\ Lasting' /\ Asked' /\ Flagged'
  BY <1>1, <1>3, <1>11, <1>14, SameCommands DEF Agreement, Patient, Lasting, Asked, Flagged
<1>16. ServerSide'
  <2>1. \A t : On(Served, t)' <=> On(Served, t)
    BY <1>7, <1>11, SameCommands DEF On
  <2> QED BY <1>1, <1>3, <1>7, <1>11, <1>14, <2>1, SameCommands DEF Agreement, ServerSide, Open
<1>17. \A k, t : EndsBy(k, t)' <=> EndsBy(k, t)
  BY <1>7 DEF EndsBy, Ends
<1>18. Leaving'
  BY <1>1, <1>3, <1>7, <1>11, <1>14, <1>17, SameCommands DEF Agreement, Leaving, LeavingAt, Ends, Open
<1>19. Staying'
  BY <1>1, <1>3, <1>7, <1>17 DEF Agreement, Staying
<1>20. Refusing'
  BY <1>1, <1>3, <1>7, <1>11, <1>14, SameCommands DEF Agreement, Refusing, RefusingAt, Rejected
<1>21. Monitored'
  BY <1>4, <1>11, SameCommands
<1> QED BY <1>8, <1>9, <1>10, <1>12, <1>13, <1>15, <1>16, <1>18, <1>19, <1>20, <1>21 DEF PubSubInv, Agreement

-----------------------------------------------------------------------------
(* __redisAsyncFree. *)

\* A callback has run: the one of command id, with reply r.
RanOnce(id, r) ==
    /\ Len(ran) \in Nat
    /\ Len(ran') = Len(ran) + 1
    /\ \A n \in 1 .. Len(ran) : ran'[n] = ran[n]
    /\ ran'[Len(ran) + 1].cb = id
    /\ ran'[Len(ran) + 1].reply = r

\* What __redisRunCallback does to the history.
LEMMA CallbackRan ==
    ASSUME TypeInv, NEW f, NEW id \in Nat, NEW r \in Reply \cup {NullReply}, NEW frame,
           RunCallback(f, id, r, frame)
    PROVE  /\ HasFn(id) => RanOnce(id, r) /\ pc' = "callback" /\ back' = frame
           /\ ~HasFn(id) => ran' = ran /\ pc' = frame /\ back' = back
           /\ flags' \in {f, f \cup {"IN_CALLBACK"}}
<1>1. [cb |-> id, reply |-> r] \in Runs
  BY DEF Runs
<1>2. ran \in Seq(Runs)
  BY DEF TypeInv, TypeOK, Runs
<1>3. PICK x \in Runs : x = [cb |-> id, reply |-> r]
  BY <1>1
<1>4. x.cb = id /\ x.reply = r
  BY <1>3
<1>5. HasFn(id) => ran' = Append(ran, x)
  BY <1>3 DEF RunCallback
<1>6. HasFn(id) => RanOnce(id, r)
  <2> SUFFICES ASSUME HasFn(id) PROVE RanOnce(id, r)
    OBVIOUS
  <2>1. /\ Len(ran') = Len(ran) + 1
        /\ \A i \in 1 .. Len(ran) : ran'[i] = ran[i]
        /\ ran'[Len(ran) + 1] = x
    BY <1>2, <1>5, AppendFacts
  <2> QED BY <1>4, <2>1, Lengths DEF RanOnce
<1> QED BY <1>6 DEF RunCallback

\* A callback that may run keeps the promise of RightCallback.
Right(id, r) ==
    /\ r.type = "data" => r.id = issued[id].id
    /\ r.type = "error" => r.id = issued[id].id \/ (r.id = 0 /\ issued[id].id = 1)
    /\ r.type \in PubSubTypes => issued[id].kind = "subscribe" /\ Names(id, r.topic)
    /\ r.type = "line" => issued[id].kind = "monitor"

LEMMA RightAgain ==
    ASSUME RightCallback, UNCHANGED issued, NEW id, NEW r, RanOnce(id, r), Right(id, r)
    PROVE  RightCallback'
<1>1. ASSUME NEW i \in 1 .. Len(ran')
      PROVE  LET c == issued[ran'[i].cb]
                 reply == ran'[i].reply
             IN  /\ reply.type = "data" => reply.id = c.id
                 /\ reply.type = "error" => reply.id = c.id \/ (reply.id = 0 /\ c.id = 1)
                 /\ reply.type \in PubSubTypes => c.kind = "subscribe" /\ reply.topic \in TopicSet(c)
                 /\ reply.type = "line" => c.kind = "monitor"
  <2>1. i \in 1 .. Len(ran) \/ i = Len(ran) + 1
    BY DEF RanOnce
  <2>2. CASE i \in 1 .. Len(ran)
    <3>1. ran'[i] = ran[i]
      BY <2>2 DEF RanOnce
    <3> QED BY <2>2, <3>1 DEF RightCallback
  <2>3. CASE i = Len(ran) + 1
    <3>1. ran'[i].cb = id /\ ran'[i].reply = r
      BY <2>3 DEF RanOnce
    <3>2. Names(id, r.topic) => r.topic \in TopicSet(issued[id])
      BY DEF Names, TopicSet
    <3> QED BY <3>1, <3>2 DEF Right
  <2> QED BY <2>1, <2>2, <2>3
<1> QED BY <1>1 DEF RightCallback

\* Who has been told stays told.
LEMMA ToldAgain ==
    ASSUME Telling, UNCHANGED issued, NEW id, NEW r, RanOnce(id, r), NEW t \in Topics, NEW i \in 1 .. Len(issued),
           Subscribes(i, t), subs[t] # i
    PROVE  \/ \E j \in i + 1 .. Len(issued) : Subscribes(j, t)
           \/ \E n \in 1 .. Len(ran') :
                 \/ ran'[n].cb = i /\ ran'[n].reply.type = "null"
                 \/ ran'[n].reply.type = "unsubscribe" /\ ran'[n].reply.topic = t /\ ran'[n].reply.id > i
<1>1. \A n \in 1 .. Len(ran) : n \in 1 .. Len(ran') /\ ran'[n] = ran[n]
  BY DEF RanOnce
<1> QED BY <1>1 DEF Telling

LEMMA PubSubTeardown ==
    ASSUME TypeInv, PubSubInv,
           \/ TeardownReplies \/ TeardownInvalid \/ TeardownSubs \/ TeardownEnds
           \/ DisconnectCallbackReturns
    PROVE  PubSubInv'
<1>1. Numbered /\ Registered /\ Telling /\ Ordered /\ RightCallback
  BY DEF PubSubInv
<1>2. pc \in {"teardown", "onDisconnect"} /\ ctx = "live" /\ Released
  BY DEF TeardownReplies, TeardownInvalid, TeardownSubs, TeardownEnds, DisconnectCallbackReturns, Released,
         TypeInv, TypeOK, ControlOK
<1>3. UNCHANGED <<issued, peer, wire, err>>
  BY DEF TeardownReplies, TeardownInvalid, TeardownSubs, TeardownEnds, DisconnectCallbackReturns, serverVars,
         historyVars
<1>4. ASSUME Released', obuf' = obuf \/ obuf' = <<>>
      PROVE  Numbered'
  <2>1. CASE obuf' = obuf
    BY <1>1, <1>3, <1>4, <2>1 DEF Numbered, Monitored
  <2>2. CASE obuf' = <<>>
    <3>1. Len(obuf') = 0 /\ Len(obuf') <= Len(issued)
      BY <2>2, Lengths
    <3> QED BY <1>1, <1>3, <1>4, <3>1 DEF Numbered, Monitored
  <2> QED BY <1>4, <2>1, <2>2
<1>5. CASE TeardownEnds \/ DisconnectCallbackReturns
  <2>1. /\ UNCHANGED <<flags, replies, invalid, subs, ran, cb>>
        /\ obuf' = obuf \/ obuf' = <<>>
        /\ pc' = "onDisconnect" \/ ctx' = "freed"
    BY <1>5 DEF TeardownEnds, DisconnectCallbackReturns, FreeContext, queues, buffers, historyVars
  <2>2. ctx' = "freed" => pc' # "onDisconnect"
    BY <1>5 DEF TeardownEnds, DisconnectCallbackReturns, FreeContext, TypeInv, ControlOK
  <2>3. \A t \in Topics : subs[t] = 0
    BY <1>1, <1>5 DEF TeardownEnds, DisconnectCallbackReturns, Ordered
  <2>4. Released'
    BY <2>1 DEF Released
  <2>5. ctx' = "live" => pc' = "onDisconnect"
    BY <1>5 DEF TeardownEnds, DisconnectCallbackReturns, FreeContext
  <2>6. Ordered'
    BY <1>1, <1>2, <1>3, <2>1, <2>3, <2>4, <2>5 DEF Ordered
  <2>7. Registered' /\ Telling'
    BY <1>1, <1>3, <2>1, SameCommands DEF Registered, Telling
  <2>8. RightCallback'
    BY <1>1, <1>3, <2>1 DEF RightCallback, TopicSet
  <2> QED BY <1>4, <2>1, <2>4, <2>6, <2>7, <2>8 DEF PubSubInv
<1>6. ASSUME NEW id \in 0 .. Len(issued), RunCallback(flags, id, NullReply, "teardown"),
             UNCHANGED <<obuf, ctx, cb>>, pc = "teardown",
             \A k \in 1 .. Len(replies') : replies'[k] \in 0 .. Len(issued),
             \A k \in 1 .. Len(invalid') : invalid'[k] \in 0 .. Len(issued),
             \A t \in Topics : subs'[t] = subs[t] \/ (subs'[t] = 0 /\ subs[t] = id)
      PROVE  PubSubInv'
  <2>0. NullReply \in Reply \cup {NullReply} /\ id \in Nat
    BY Lengths
  <2>1. /\ HasFn(id) => RanOnce(id, NullReply) /\ pc' = "callback" /\ back' = "teardown"
        /\ ~HasFn(id) => ran' = ran /\ pc' = "teardown" /\ back' = back
        /\ flags' \in {flags, flags \cup {"IN_CALLBACK"}}
    BY <1>6, <2>0, CallbackRan
  <2>2. Released'
    BY <2>1 DEF Released
  <2>3. Numbered'
    BY <1>4, <1>6, <2>2
  <2>4. NullReply.type = "null"
    BY DEF NullReply, PlainReply
  <2>5. Registered'
    <3>1. \A t \in Topics : subs'[t] # 0 => subs'[t] = subs[t]
      BY <1>6
    <3> QED BY <1>1, <1>3, <3>1 DEF Registered, Subscribes, Names
  <2>6. RightCallback'
    <3>1. CASE HasFn(id)
      <4>1. Right(id, NullReply)
        BY <2>4 DEF Right, PubSubTypes
      <4> QED BY <1>1, <1>3, <2>1, <3>1, <4>1, RightAgain
    <3>2. CASE ~HasFn(id)
      <4>1. ran' = ran /\ issued' = issued
        BY <1>3, <2>1, <3>2
      <4> QED BY <1>1, <4>1 DEF RightCallback, TopicSet
    <3> QED BY <3>1, <3>2
  <2>7. \A n \in 1 .. Len(ran') : ran'[n].cb \in 1 .. Len(issued)
    <3>1. CASE HasFn(id)
      <4>1. id \in 1 .. Len(issued)
        BY <3>1, Lengths DEF HasFn
      <4>2. \A n \in 1 .. Len(ran') : n \in 1 .. Len(ran) \/ n = Len(ran) + 1
        BY <2>1, <3>1 DEF RanOnce
      <4> QED BY <1>1, <2>1, <3>1, <4>1, <4>2 DEF RanOnce, Ordered
    <3>2. CASE ~HasFn(id)
      BY <1>1, <2>1, <3>2 DEF Ordered
    <3> QED BY <3>1, <3>2
  <2>8. Ordered'
    <3>1. pc' # "onDisconnect" /\ pc' # "onConnectErr" /\ ctx' = "live"
      BY <1>2, <1>6, <2>1
    <3>2. flags' \cap {"DISCONNECTING", "FREEING"} # {}
      BY <1>1, <1>2, <2>1 DEF Ordered
    <3>3. peer' = "connecting" => "CONNECTED" \notin flags'
      BY <1>1, <1>3, <2>1 DEF Ordered
    <3> QED BY <1>1, <1>3, <1>6, <2>2, <2>7, <3>1, <3>2, <3>3 DEF Ordered
  <2>9. Telling'
    <3> SUFFICES ASSUME NEW i \in 1 .. Len(issued), NEW t \in Topics, Subscribes(i, t)
                 PROVE  \/ subs'[t] = i
                        \/ \E j \in i + 1 .. Len(issued) : Subscribes(j, t)
                        \/ \E n \in 1 .. Len(ran') :
                              \/ ran'[n].cb = i /\ ran'[n].reply.type = "null"
                              \/ ran'[n].reply.type = "unsubscribe" /\ ran'[n].reply.topic = t
                                 /\ ran'[n].reply.id > i
      BY <1>3, SameCommands DEF Telling
    <3>1. CASE ~HasFn(id)
      <4>1. id # i
        BY <3>1, Lengths DEF HasFn, Subscribes
      <4> QED BY <1>1, <1>6, <2>1, <3>1, <4>1 DEF Telling
    <3>2. CASE HasFn(id)
      <4>1. CASE subs[t] # i
        BY <1>1, <1>3, <2>1, <3>2, <4>1, ToldAgain
      <4>2. CASE subs[t] = i /\ subs'[t] # i
        <5>1. id = i
          BY <1>6, <4>2
        <5>2. Len(ran) + 1 \in 1 .. Len(ran')
          BY <2>1, <3>2 DEF RanOnce
        <5> QED BY <2>1, <2>4, <3>2, <5>1, <5>2 DEF RanOnce
      <4> QED BY <4>1, <4>2
    <3> QED BY <3>1, <3>2
  <2> QED BY <2>2, <2>3, <2>5, <2>6, <2>8, <2>9 DEF PubSubInv
<1>7. CASE TeardownReplies
  <2>1. replies \in Seq(Nat) /\ replies # <<>>
    BY <1>7 DEF TeardownReplies, TypeInv, TypeOK
  <2>2. /\ Len(replies) \in Nat \ {0}
        /\ Head(replies) = replies[1]
        /\ Len(Tail(replies)) = Len(replies) - 1
        /\ \A i \in 1 .. Len(replies) - 1 : Tail(replies)[i] = replies[i + 1]
    BY <2>1, TailFacts
  <2>3. Head(replies) \in 0 .. Len(issued) /\ replies' = Tail(replies)
    BY <1>1, <1>7, <2>2 DEF Ordered, TeardownReplies
  <2>4. \A k \in 1 .. Len(replies') : replies'[k] \in 0 .. Len(issued)
    BY <1>1, <2>2, <2>3 DEF Ordered
  <2>5. /\ RunCallback(flags, Head(replies), NullReply, "teardown")
        /\ UNCHANGED <<obuf, ctx, cb, subs, invalid>>
        /\ pc = "teardown"
    BY <1>7 DEF TeardownReplies, buffers
  <2>6. \A k \in 1 .. Len(invalid') : invalid'[k] \in 0 .. Len(issued)
    BY <1>1, <2>5 DEF Ordered
  <2> QED BY <1>6, <2>3, <2>4, <2>5, <2>6
<1>8. CASE TeardownInvalid
  <2>1. invalid \in Seq(Nat) /\ invalid # <<>>
    BY <1>8 DEF TeardownInvalid, TypeInv, TypeOK
  <2>2. /\ Len(invalid) \in Nat \ {0}
        /\ Head(invalid) = invalid[1]
        /\ Len(Tail(invalid)) = Len(invalid) - 1
        /\ \A i \in 1 .. Len(invalid) - 1 : Tail(invalid)[i] = invalid[i + 1]
    BY <2>1, TailFacts
  <2>3. Head(invalid) \in 0 .. Len(issued) /\ invalid' = Tail(invalid)
    BY <1>1, <1>8, <2>2 DEF Ordered, TeardownInvalid
  <2>4. \A k \in 1 .. Len(invalid') : invalid'[k] \in 0 .. Len(issued)
    BY <1>1, <2>2, <2>3 DEF Ordered
  <2>5. /\ RunCallback(flags, Head(invalid), NullReply, "teardown")
        /\ UNCHANGED <<obuf, ctx, cb, subs, replies>>
        /\ pc = "teardown"
    BY <1>8 DEF TeardownInvalid, buffers
  <2>6. \A k \in 1 .. Len(replies') : replies'[k] \in 0 .. Len(issued)
    BY <1>1, <2>5 DEF Ordered
  <2> QED BY <1>6, <2>3, <2>4, <2>5, <2>6
<1>9. CASE TeardownSubs
  <2>1. PICK t \in Topics :
           /\ subs[t] # 0
           /\ subs' = [subs EXCEPT ![t] = 0]
           /\ RunCallback(flags, subs[t], NullReply, "teardown")
    BY <1>9 DEF TeardownSubs
  <2>2. subs[t] \in 0 .. Len(issued) /\ subs \in [Topics -> Nat]
    BY <1>1, <2>1, Lengths DEF Registered, TypeInv, TypeOK
  <2>3. \A u \in Topics : subs'[u] = subs[u] \/ (subs'[u] = 0 /\ subs[u] = subs[t])
    BY <2>1, <2>2
  <2>4. UNCHANGED <<obuf, ctx, cb, replies, invalid>> /\ pc = "teardown"
    BY <1>9 DEF TeardownSubs, buffers
  <2>5. /\ \A k \in 1 .. Len(replies') : replies'[k] \in 0 .. Len(issued)
        /\ \A k \in 1 .. Len(invalid') : invalid'[k] \in 0 .. Len(issued)
    BY <1>1, <2>4 DEF Ordered
  <2> QED BY <1>6, <2>1, <2>2, <2>3, <2>4, <2>5
<1> QED BY <1>5, <1>7, <1>8, <1>9

-----------------------------------------------------------------------------
(* redisProcessCallbacks takes a reply. *)

Shifted ==
    /\ Len(Incoming) \in Nat \ {0}
    /\ Len(Incoming') = Len(Incoming) - 1
    /\ \A k \in 1 .. Len(Incoming) - 1 : Incoming'[k] = Incoming[k + 1]

\* The first reply under way is taken; the callback of command id runs, if it
\* has a function.
Taken(id, r) ==
    /\ Shifted
    /\ r = Incoming[1]
    /\ UNCHANGED <<issued, obuf, wire, peer, srvSubs, srvMode>>
    /\ peer # "connecting" /\ ~Released /\ ~Released'
    /\ HasFn(id) => RanOnce(id, r)
    /\ ~HasFn(id) => ran' = ran

LEMMA ReplyTaken ==
    ASSUME TypeInv, PubSubInv, ProcessReply
    PROVE  /\ Shifted
           /\ Head(rbuf) = Incoming[1]
           /\ Head(rbuf) \in Reply
           /\ Incoming[1].type # "bad"
           /\ Agreement /\ peer # "connecting" /\ ~Released /\ ctx = "live"
           /\ 1 \in 1 .. Len(Incoming)
           /\ Clean(1)
<1>1. rbuf \in Seq(Reply) /\ sock \in Seq(Reply) /\ rbuf # <<>>
  BY DEF ProcessReply, TypeInv, TypeOK, ServerTypeOK
<1>2. rbuf' = Tail(rbuf) /\ sock' = sock /\ pc = "process" /\ Head(rbuf).type # "bad"
  BY DEF ProcessReply, serverVars
<1>3. PICK q \in Seq(Reply) : q = Incoming
  BY IncomingType
<1>4. q # <<>> /\ Head(q) = Head(rbuf) /\ Incoming' = Tail(q)
  BY <1>1, <1>2, <1>3, ConcatTail DEF Incoming
<1>5. /\ Len(q) \in Nat \ {0}
      /\ Head(q) = q[1]
      /\ Len(Tail(q)) = Len(q) - 1
      /\ \A i \in 1 .. Len(q) - 1 : Tail(q)[i] = q[i + 1]
  BY <1>4, TailFacts
<1>6. Shifted /\ Head(rbuf) = Incoming[1] /\ 1 \in 1 .. Len(Incoming)
  BY <1>3, <1>4, <1>5 DEF Shifted
<1>7. Head(rbuf) \in Reply
  BY <1>1, HeadTailType
<1>8. ~Released /\ ctx = "live"
  BY <1>2 DEF Released, TypeInv, TypeOK, ControlOK
<1>9. Agreement /\ peer # "connecting"
  BY <1>2, <1>8 DEF PubSubInv, Ordered
<1>10. Clean(1)
  BY DEF Clean
<1> QED BY <1>2, <1>6, <1>7, <1>8, <1>9, <1>10

\* What the replies left say is what they said.
LEMMA ShiftedReplies ==
    ASSUME Shifted
    PROVE  /\ \A k \in 1 .. Len(Incoming') :
                 /\ k + 1 \in 1 .. Len(Incoming)
                 /\ Incoming'[k] = Incoming[k + 1]
                 /\ \A t : Ends(k, t)' <=> Ends(k + 1, t)
                 /\ \A t : EndsBy(k, t)' => EndsBy(k + 1, t)
                 /\ \A t : EndsBy(k + 1, t) /\ ~Ends(1, t) => EndsBy(k, t)'
           /\ \A t : EndsBy(Len(Incoming), t) /\ ~Ends(1, t) => \E l \in 1 .. Len(Incoming') : Ends(l, t)'
           /\ Incoming[1].type \notin {"bad", "error"} =>
                 \A k \in 1 .. Len(Incoming') + 1 : Clean(k)' => Clean(k + 1)
<1>1. ASSUME NEW k \in 1 .. Len(Incoming')
      PROVE  /\ k \in Nat
             /\ k + 1 \in 1 .. Len(Incoming)
             /\ Incoming'[k] = Incoming[k + 1]
             /\ \A t : Ends(k, t)' <=> Ends(k + 1, t)
  <2>1. k \in Nat /\ k + 1 \in 1 .. Len(Incoming) /\ Incoming'[k] = Incoming[k + 1]
    BY DEF Shifted
  <2> QED BY <2>1 DEF Ends
<1>2. ASSUME NEW k \in 1 .. Len(Incoming'), NEW t, EndsBy(k, t)'
      PROVE  EndsBy(k + 1, t)
  <2>1. PICK l \in 1 .. k : Ends(l, t)'
    BY <1>2 DEF EndsBy
  <2>2. l \in 1 .. Len(Incoming') /\ l + 1 \in 1 .. k + 1
    BY <1>1, <2>1 DEF Shifted
  <2>3. Ends(l + 1, t)
    BY <1>1, <2>1, <2>2
  <2> QED BY <2>2, <2>3 DEF EndsBy
<1>3. ASSUME NEW l \in 1 .. Len(Incoming), NEW t, Ends(l, t), ~Ends(1, t)
      PROVE  \E m \in 1 .. Len(Incoming') : l = m + 1 /\ Ends(m, t)'
  <2>1. l # 1
    BY <1>3
  <2>2. l - 1 \in 1 .. Len(Incoming')
    BY <2>1 DEF Shifted
  <2>3. PICK m \in 1 .. Len(Incoming') : m = l - 1
    BY <2>2
  <2>4. l = m + 1
    BY <2>3 DEF Shifted
  <2> QED BY <1>1, <1>3, <2>4
<1>4. ASSUME NEW k \in 1 .. Len(Incoming'), NEW t, EndsBy(k + 1, t), ~Ends(1, t)
      PROVE  EndsBy(k, t)'
  <2>1. PICK l \in 1 .. k + 1 : Ends(l, t)
    BY <1>4 DEF EndsBy
  <2>2. l \in 1 .. Len(Incoming)
    BY <1>1, <2>1 DEF Shifted
  <2>3. PICK m \in 1 .. Len(Incoming') : l = m + 1 /\ Ends(m, t)'
    BY <1>3, <1>4, <2>1, <2>2
  <2>4. m \in 1 .. k
    BY <1>1, <2>1, <2>3
  <2> QED BY <2>3, <2>4 DEF EndsBy
<1>5. ASSUME NEW t, EndsBy(Len(Incoming), t), ~Ends(1, t)
      PROVE  \E l \in 1 .. Len(Incoming') : Ends(l, t)'
  <2>1. PICK l \in 1 .. Len(Incoming) : Ends(l, t)
    BY <1>5 DEF EndsBy
  <2> QED BY <1>3, <1>5, <2>1
<1>6. ASSUME Incoming[1].type \notin {"bad", "error"}, NEW k \in 1 .. Len(Incoming') + 1, Clean(k)'
      PROVE  Clean(k + 1)
  <2> SUFFICES ASSUME NEW l \in 1 .. (k + 1) - 1 PROVE Incoming[l].type \notin {"bad", "error"}
    BY DEF Clean
  <2>0. l \in Nat /\ k \in Nat /\ l >= 1 /\ l <= k
    BY DEF Shifted
  <2>1. CASE l = 1
    BY <1>6, <2>1
  <2>2. CASE l # 1
    <3>1. l - 1 \in 1 .. k - 1 /\ l - 1 \in 1 .. Len(Incoming')
      BY <2>0, <2>2 DEF Shifted
    <3>2. PICK m \in 1 .. Len(Incoming') : m = l - 1
      BY <3>1
    <3>3. m \in 1 .. k - 1 /\ l = m + 1
      BY <2>0, <3>1, <3>2
    <3>4. Incoming'[m].type \notin {"bad", "error"}
      BY <1>6, <3>3 DEF Clean
    <3> QED BY <1>1, <3>3, <3>4
  <2> QED BY <2>1, <2>2
<1> QED BY <1>1, <1>2, <1>4, <1>5, <1>6

\* What has been confirmed stays so; and the reply that is taken may confirm.
LEMMA TakenConfirms ==
    ASSUME NEW id, NEW r, Taken(id, r)
    PROVE  /\ \A j, t : Confirmed(j, t) => Confirmed(j, t)'
           /\ \A j, t : Confirmed(j, t)' =>
                 Confirmed(j, t) \/ (r.type = "unsubscribe" /\ r.id = j /\ r.topic = t)
           /\ r.type = "unsubscribe" /\ HasFn(id) => Confirmed(r.id, r.topic)'
<1>1. CASE ~HasFn(id)
  <2>1. ran' = ran
    BY <1>1 DEF Taken
  <2> QED BY <1>1, <2>1 DEF Confirmed
<1>2. CASE HasFn(id)
  <2>1. RanOnce(id, r)
    BY <1>2 DEF Taken
  <2>2. /\ \A n \in 1 .. Len(ran) : n \in 1 .. Len(ran') /\ ran'[n] = ran[n]
        /\ \A n \in 1 .. Len(ran') : n \in 1 .. Len(ran) \/ n = Len(ran) + 1
        /\ ran'[Len(ran) + 1].reply = r
        /\ Len(ran) + 1 \in 1 .. Len(ran')
    BY <2>1 DEF RanOnce
  <2>3. r.type = "unsubscribe" => Confirmed(r.id, r.topic)'
    <3> SUFFICES ASSUME NEW j, NEW t, r.type = "unsubscribe", j = r.id, t = r.topic PROVE Confirmed(j, t)'
      <4>1. r' = r
        BY DEF Taken
      <4> QED BY <4>1
    <3> QED BY <2>2 DEF Confirmed
  <2> QED BY <2>2, <2>3 DEF Confirmed
<1> QED BY <1>1, <1>2

\* What no reply changes.
LEMMA TakenNumbered ==
    ASSUME Numbered, NEW id, NEW r, Taken(id, r)
    PROVE  Numbered' /\ Served' = Served /\ (Open' <=> Open) /\ UNCHANGED issued
  BY DEF Numbered, Monitored, Served, Open, Taken

\* An error that is not the first reply answers a command.
LEMMA TakenNotRejected ==
    ASSUME TypeInv, Refusing, NEW id, NEW r, Taken(id, r)
    PROVE  ~Rejected' /\ Start' /\ \A k \in 1 .. Len(Incoming') : ~Rejected
<1>1. ASSUME Rejected' PROVE FALSE
  <2>1. Len(Incoming') = 1 /\ Incoming'[1].type = "error" /\ Incoming'[1].id = 0
    BY <1>1 DEF Rejected
  <2>2. 1 \in 1 .. Len(Incoming') /\ Shifted
    BY <2>1 DEF Taken
  <2>3. 1 + 1 \in 1 .. Len(Incoming) /\ Incoming'[1] = Incoming[1 + 1]
    BY <2>2, ShiftedReplies
  <2>4. Len(Incoming) # 1
    <3>1. PICK a \in Nat : a = Len(Incoming)
      BY IncomingType
    <3>2. 1 = a - 1
      BY <2>1, <2>2, <3>1 DEF Shifted
    <3> QED BY <3>1, <3>2
  <2>5. RefusingAt(1 + 1)
    BY <2>1, <2>3, <2>4 DEF Refusing, Rejected
  <2>6. Incoming[1 + 1].id \in 1 .. Len(issued)
    BY <2>5 DEF RefusingAt
  <2> QED BY <2>1, <2>3, <2>6, Lengths
<1>2. Start'
  BY <1>1 DEF Start, Taken
<1>3. \A k \in 1 .. Len(Incoming') : ~Rejected
  BY DEF Rejected, Taken, Shifted
<1> QED BY <1>1, <1>2, <1>3

LEMMA TakenOrdered ==
    ASSUME TypeInv, Ordered, ProcessReply, NEW f, NEW id \in 0 .. Len(issued), NEW r, r = Head(rbuf),
           RunCallback(f, id, r, "process"), f \subseteq flags, Shifted, r = Incoming[1], r \in Reply,
           peer # "connecting", ~Released, ctx = "live",
           \A k \in 1 .. Len(replies') : replies'[k] \in 0 .. Len(issued),
           \A k \in 1 .. Len(invalid') : invalid'[k] \in 0 .. Len(issued),
           cb' \in 0 .. Len(issued)
    PROVE  /\ Taken(id, r)
           /\ Ordered'
           /\ flags' \in {f, f \cup {"IN_CALLBACK"}}
<1>1. UNCHANGED <<issued, obuf, wire, peer, srvSubs, srvMode, ctx>> /\ pc = "process"
  BY DEF ProcessReply, serverVars
<1>2. id \in Nat
  BY Lengths
<1>3. /\ HasFn(id) => RanOnce(id, r) /\ pc' = "callback" /\ back' = "process"
      /\ ~HasFn(id) => ran' = ran /\ pc' = "process" /\ back' = back
      /\ flags' \in {f, f \cup {"IN_CALLBACK"}}
  BY <1>2, CallbackRan
<1>4. ~Released' /\ pc' \in {"callback", "process"}
  BY <1>1, <1>3 DEF Released
<1>5. Taken(id, r)
  BY <1>1, <1>3, <1>4 DEF Taken
<1>6. \A n \in 1 .. Len(ran') : ran'[n].cb \in 1 .. Len(issued)
  <2>1. CASE HasFn(id)
    <3>1. id \in 1 .. Len(issued)
      BY <2>1, Lengths DEF HasFn
    <3>2. \A n \in 1 .. Len(ran') : n \in 1 .. Len(ran) \/ n = Len(ran) + 1
      BY <1>3, <2>1 DEF RanOnce
    <3> QED BY <1>3, <2>1, <3>1, <3>2 DEF RanOnce, Ordered
  <2>2. CASE ~HasFn(id)
    BY <1>3, <2>2 DEF Ordered
  <2> QED BY <2>1, <2>2
<1>7. Ordered'
  BY <1>1, <1>4, <1>6 DEF Ordered
<1> QED BY <1>3, <1>5, <1>7

LEMMA TakenRight ==
    ASSUME RightCallback, NEW id, NEW r, Taken(id, r), HasFn(id) => Right(id, r)
    PROVE  RightCallback'
<1>1. UNCHANGED issued
  BY DEF Taken
<1>2. CASE HasFn(id)
  <2>1. RanOnce(id, r) /\ Right(id, r)
    BY <1>2 DEF Taken
  <2> QED BY <1>1, <2>1, RightAgain
<1>3. CASE ~HasFn(id)
  <2>1. ran' = ran
    BY <1>3 DEF Taken
  <2> QED BY <1>1, <2>1 DEF RightCallback, TopicSet
<1> QED BY <1>2, <1>3

LEMMA TakenTold ==
    ASSUME Telling, NEW id, NEW r, Taken(id, r), NEW t \in Topics, NEW i \in 1 .. Len(issued), Subscribes(i, t),
           subs[t] # i
    PROVE  \/ \E j \in i + 1 .. Len(issued) : Subscribes(j, t)
           \/ \E n \in 1 .. Len(ran') :
                 \/ ran'[n].cb = i /\ ran'[n].reply.type = "null"
                 \/ ran'[n].reply.type = "unsubscribe" /\ ran'[n].reply.topic = t /\ ran'[n].reply.id > i
<1>1. CASE HasFn(id)
  <2>1. RanOnce(id, r) /\ UNCHANGED issued
    BY <1>1 DEF Taken
  <2> QED BY <2>1, ToldAgain
<1>2. CASE ~HasFn(id)
  <2>1. ran' = ran
    BY <1>2 DEF Taken
  <2> QED BY <2>1 DEF Telling
<1> QED BY <1>1, <1>2

\* Nothing about the subscriptions changes with a reply that ends none.
LEMMA PassedReply ==
    ASSUME TypeInv, PubSubInv, Agreement, NEW id, NEW r, Taken(id, r), r.type # "unsubscribe", UNCHANGED subs,
           "SUBSCRIBED" \in flags' <=> "SUBSCRIBED" \in flags,
           "MONITORING" \in flags' <=> "MONITORING" \in flags
    PROVE  /\ Registered' /\ Telling'
           /\ Patient' /\ Lasting' /\ Asked' /\ Flagged' /\ ServerSide' /\ Leaving' /\ Staying' /\ Refusing'
<1>1. Numbered /\ Registered /\ Telling /\ Patient /\ Lasting /\ Asked /\ Flagged /\ ServerSide /\ Leaving /\ Staying
      /\ Refusing
  BY DEF PubSubInv, Agreement
<1>2. Served' = Served /\ (Open' <=> Open) /\ UNCHANGED issued
  BY <1>1, TakenNumbered
<1>3. \A j, t : Confirmed(j, t)' <=> Confirmed(j, t)
  BY TakenConfirms
<1>4. Shifted /\ UNCHANGED <<peer, srvSubs, srvMode>> /\ peer # "connecting" /\ r = Incoming[1]
  BY DEF Taken
<1>5. Registered'
  BY <1>1, <1>2, SameCommands DEF Registered
<1>6. Telling'
  BY <1>1, <1>2, TakenTold, SameCommands DEF Telling
<1>7. Patient' /\ Lasting' /\ Flagged'
  BY <1>1, <1>2, <1>3, SameCommands DEF Patient, Lasting, Flagged
<1>8. Asked'
  <2>1. CASE HasFn(id)
    <3>1. RanOnce(id, r)
      BY <2>1 DEF Taken
    <3>2. \A n \in 1 .. Len(ran') : n \in 1 .. Len(ran) \/ n = Len(ran) + 1
      BY <3>1 DEF RanOnce
    <3>3. \A n \in 1 .. Len(ran') : ran'[n].reply.type = "unsubscribe" => n \in 1 .. Len(ran) /\ ran'[n] = ran[n]
      BY <3>1, <3>2 DEF RanOnce
    <3> QED BY <1>1, <1>2, <3>3, SameCommands DEF Asked, Unsubscribes, Names
  <2>2. CASE ~HasFn(id)
    <3>1. ran' = ran
      BY <2>2 DEF Taken
    <3> QED BY <1>1, <1>2, <3>1 DEF Asked, Unsubscribes, Names
  <2> QED BY <2>1, <2>2
<1>9. ServerSide'
  <2>1. \A t : On(Served, t)' <=> On(Served, t)
    BY <1>2, SameCommands DEF On
  <2> QED BY <1>1, <1>2, <1>3, <1>4, <2>1, SameCommands DEF ServerSide
<1>10. \A t : ~Ends(1, t)
  BY <1>4 DEF Ends
<1>11. \A k \in 1 .. Len(Incoming') :
          /\ k + 1 \in 1 .. Len(Incoming)
          /\ Incoming'[k] = Incoming[k + 1]
          /\ \A t : Ends(k, t)' <=> Ends(k + 1, t)
          /\ \A t : EndsBy(k, t)' <=> EndsBy(k + 1, t)
  BY <1>4, <1>10, ShiftedReplies
<1>12. Leaving'
  <2>1. ASSUME NEW k \in 1 .. Len(Incoming'), Incoming'[k].type = "unsubscribe"
        PROVE  LeavingAt(k)'
    <3>1. LeavingAt(k + 1)
      BY <1>1, <1>11, <2>1 DEF Leaving
    <3> QED BY <1>2, <1>3, <1>11, <3>1, SameCommands DEF LeavingAt
  <2>2. ASSUME NEW k \in 1 .. Len(Incoming'), NEW l \in 1 .. Len(Incoming'), NEW t \in Topics,
               Ends(k, t)', Ends(l, t)'
        PROVE  k = l
    <3>1. k + 1 = l + 1
      BY <1>1, <1>11, <2>2 DEF Leaving
    <3>2. k \in Nat /\ l \in Nat
      BY <1>4 DEF Shifted
    <3> QED BY <3>1, <3>2
  <2>3. ASSUME Open, NEW j \in 1 .. Len(issued), NEW t \in Topics, j <= Served, Unsubscribes(j, t), ~Confirmed(j, t)
        PROVE  EndsBy(Len(Incoming), t)'
    <3>1. EndsBy(Len(Incoming), t)
      BY <1>1, <2>3 DEF Leaving
    <3>2. \E l \in 1 .. Len(Incoming') : Ends(l, t)'
      BY <1>4, <1>10, <3>1, ShiftedReplies
    <3> QED BY <3>2 DEF EndsBy
  <2> QED BY <1>2, <1>3, <2>1, <2>2, <2>3, SameCommands DEF Leaving
<1>13. Staying'
  BY <1>1, <1>11 DEF Staying
<1>14. Refusing'
  <2> SUFFICES ASSUME NEW k \in 1 .. Len(Incoming'), Incoming'[k].type = "error" PROVE RefusingAt(k)'
    BY DEF Refusing
  <2>1. RefusingAt(k + 1)
    BY <1>1, <1>11, TakenNotRejected DEF Refusing
  <2>2. \A l \in 1 .. k : l + 1 \in 1 .. k + 1 /\ l \in 1 .. Len(Incoming')
    BY <1>4 DEF Shifted
  <2> QED BY <1>2, <1>3, <1>11, <2>1, <2>2, SameCommands DEF RefusingAt
<1> QED BY <1>5, <1>6, <1>7, <1>8, <1>9, <1>12, <1>13, <1>14

\* A monitor has no subscriptions.
LEMMA MonitorAlone ==
    ASSUME TypeInv, Registered, Monitored
    PROVE  \A t \in Topics : subs[t] = 0
<1> SUFFICES ASSUME NEW t \in Topics, subs[t] # 0 PROVE FALSE
  OBVIOUS
<1>1. Subscribes(subs[t], t) /\ subs[t] \in 1 .. Len(issued)
  BY DEF Registered
<1>2. subs[t] = 1
  BY <1>1 DEF Monitored
<1> QED BY <1>1, <1>2 DEF Monitored, Subscribes

\* A reply of pub/sub finds its topic registered.
LEMMA ReplyRegistered ==
    ASSUME TypeInv, Registered, Lasting, Leaving, Staying, NEW k \in 1 .. Len(Incoming),
           Incoming[k].type \in PubSubTypes
    PROVE  subs[Incoming[k].topic] # 0
<1>1. CASE Incoming[k].type = "unsubscribe"
  <2>1. LeavingAt(k) /\ Incoming[k].topic \in Topics
    BY <1>1, IncomingType DEF Leaving
  <2> QED BY <2>1 DEF LeavingAt, Lasting
<1>2. CASE Incoming[k].type # "unsubscribe"
  BY <1>2 DEF Staying, PubSubTypes
<1> QED BY <1>1, <1>2

\* The assertion of redisProcessCallbacks does not fail.
LEMMA NothingUnexpected ==
    ASSUME TypeInv, PubSubInv, ProcessReply
    PROVE  ~SpontaneousUnexpected(Head(rbuf))
<1> SUFFICES ASSUME SpontaneousUnexpected(Head(rbuf)) PROVE FALSE
  OBVIOUS
<1>1. Head(rbuf) = Incoming[1] /\ Agreement /\ 1 \in 1 .. Len(Incoming) /\ Clean(1) /\ Incoming[1].type # "bad"
  BY ReplyTaken
<1>2. Incoming[1].type # "error" /\ flags \cap {"SUBSCRIBED", "MONITORING"} = {} /\ replies = <<>>
  BY <1>1 DEF SpontaneousUnexpected
<1>3. Registered /\ Lasting /\ Leaving /\ Staying /\ Flagged /\ (Monitored \/ Dealt)
  BY <1>1 DEF PubSubInv, Agreement
<1>4. DealtAt(1)
  BY <1>1, <1>2, <1>3 DEF Dealt, Flagged
<1>5. Len(replies) = 0
  BY <1>2
<1>6. Incoming[1].type \in PubSubTypes
  BY <1>1, <1>2, <1>4, <1>5 DEF DealtAt, Rejected
<1>7. subs[Incoming[1].topic] # 0 /\ Incoming[1].topic \in Topics
  BY <1>1, <1>3, <1>6, IncomingType, ReplyRegistered
<1> QED BY <1>2, <1>3, <1>7 DEF Flagged

\* An error reply nobody waits for.
LEMMA ProcessSpontaneous ==
    ASSUME TypeInv, PubSubInv, ProcessReply, SpontaneousError(Head(rbuf))
    PROVE  PubSubInv'
<1>1. peer # "connecting" /\ ~Released /\ ctx = "live"
  BY ReplyTaken
<1>2. /\ UNCHANGED <<issued, obuf, wire, peer, ctx, subs, ran, replies, invalid, cb>>
      /\ AsyncDisconnect(flags, "other", "idle")
  BY DEF ProcessReply, SpontaneousError, serverVars, queues
<1>3. Ordered <=> Staged /\ Listed
  BY DEF Ordered, Staged, Listed
<1>4. Ordered' <=> Staged' /\ Listed'
  BY DEF Ordered, Staged, Listed
<1>5. Staged /\ Listed
  BY <1>3 DEF PubSubInv
<1>6. Staged'
  BY <1>1, <1>2, <1>5, DisconnectStaged
<1>7. Listed'
  BY <1>2, <1>5 DEF Listed
<1>8. Released'
  BY <1>2 DEF AsyncDisconnect, Released
<1> QED BY <1>2, <1>4, <1>6, <1>7, <1>8, ReleasedPromises

\* The replies left are still in order, when the one that was taken had no callback
\* in ac->replies.
LEMMA DealtAgain ==
    ASSUME TypeInv, Numbered, Refusing, Dealt, NEW id, NEW r, Taken(id, r), UNCHANGED replies, replies = <<>>,
           r.type \notin {"bad", "error"}
    PROVE  Dealt'
<1>1. Shifted /\ r = Incoming[1]
  BY DEF Taken
<1>2. Served' = Served /\ (Open' <=> Open) /\ UNCHANGED issued
  BY TakenNumbered
<1>3. Len(replies) = 0 /\ Len(replies') = 0
  OBVIOUS
<1>4. Queued'
  BY <1>3 DEF Queued
<1>5. ASSUME NEW k \in 1 .. Len(Incoming'), Clean(k)'
      PROVE  DealtAt(k)'
  <2>1. k \in Nat /\ k + 1 \in 1 .. Len(Incoming) /\ Incoming'[k] = Incoming[k + 1] /\ k \in 1 .. Len(Incoming') + 1
    BY <1>1, ShiftedReplies DEF Shifted
  <2>2. Clean(k + 1)
    BY <1>1, <1>5, <2>1, ShiftedReplies
  <2>3. DealtAt(k + 1) /\ ~Rejected
    BY <2>1, <2>2, TakenNotRejected DEF Dealt
  <2> QED BY <1>3, <2>1, <2>3 DEF DealtAt
<1>6. ASSUME Open, Clean(Len(Incoming) + 1)' PROVE Complete'
  <2>1. PICK m \in 1 .. Len(Incoming') + 1 : m = Len(Incoming') + 1
    BY <1>1 DEF Shifted
  <2>2. Clean(m)'
    BY <1>6, <2>1 DEF Clean
  <2>3. Clean(m + 1) /\ m + 1 = Len(Incoming) + 1
    BY <1>1, <2>1, <2>2, ShiftedReplies DEF Shifted
  <2>4. Complete
    BY <1>6, <2>3 DEF Dealt
  <2> QED BY <1>2, <1>3, <2>4, SameCommands DEF Complete
<1> QED BY <1>2, <1>4, <1>5, <1>6 DEF Dealt

LEMMA WatchingAgain ==
    ASSUME TypeInv, Refusing, Watching, NEW id, NEW r, Taken(id, r), r.type # "bad", cb' \in 0 .. 1,
           \A k \in 1 .. Len(replies') : replies'[k] \in 0 .. 1
    PROVE  Watching'
<1>1. Shifted /\ r = Incoming[1]
  BY DEF Taken
<1>2. ASSUME NEW k \in 1 .. Len(Incoming'), Clean(k)'
      PROVE  WatchingAt(k)'
  <2>1. k \in Nat /\ k + 1 \in 1 .. Len(Incoming) /\ Incoming'[k] = Incoming[k + 1] /\ k \in 1 .. Len(Incoming') + 1
    BY <1>1, ShiftedReplies DEF Shifted
  <2>2. ~Rejected
    BY TakenNotRejected
  <2>3. 1 \in 1 .. Len(Incoming) /\ Clean(1)
    BY <1>1 DEF Shifted, Clean
  <2>4. r.type # "error"
    BY <1>1, <2>2, <2>3 DEF Watching, WatchingAt
  <2>5. Clean(k + 1)
    BY <1>1, <1>2, <2>1, <2>4, ShiftedReplies
  <2>6. WatchingAt(k + 1)
    BY <2>1, <2>5 DEF Watching
  <2> QED BY <2>1, <2>2, <2>6 DEF WatchingAt
<1> QED BY <1>2 DEF Watching

LEMMA ServedType ==
    ASSUME TypeInv
    PROVE  Served \in Int
<1>1. PICK a, o, w \in Nat : a = Len(issued) /\ o = Len(obuf) /\ w = Len(wire)
  BY Lengths
<1> QED BY <1>1 DEF Served

\* A reply that the first callback of ac->replies waits for.
LEMMA ProcessPending ==
    ASSUME TypeInv, PubSubInv, ProcessReply, ReplyToPending(Head(rbuf))
    PROVE  PubSubInv'
<1> DEFINE q == Len(replies)
<1>1. PICK r : r = Head(rbuf)
  OBVIOUS
<1>2. /\ Shifted /\ r = Incoming[1] /\ r \in Reply /\ r.type # "bad"
      /\ Agreement /\ peer # "connecting" /\ ~Released /\ ctx = "live"
      /\ 1 \in 1 .. Len(Incoming) /\ Clean(1)
  BY <1>1, ReplyTaken
<1>3. replies \in Seq(Nat) /\ replies # <<>>
  BY DEF ReplyToPending, TypeInv, TypeOK
<1>4. /\ q \in Nat \ {0}
      /\ Head(replies) = replies[1]
      /\ Len(replies') = q - 1
      /\ \A i \in 1 .. q - 1 : replies'[i] = replies[i + 1]
  BY <1>3, TailFacts DEF ReplyToPending
<1> HIDE DEF q
<1>5. PICK id : id = replies[1]
  OBVIOUS
<1>6. /\ RunCallback(flags, id, r, "process")
      /\ cb' = id
      /\ UNCHANGED <<subs, invalid>>
  BY <1>1, <1>4, <1>5 DEF ReplyToPending
<1>7. /\ Numbered /\ Ordered /\ RightCallback /\ Refusing /\ Start /\ (Monitored \/ Dealt)
      /\ Monitored => Watching
  BY <1>2 DEF PubSubInv, Agreement
<1>8. \A k \in 1 .. q : replies[k] \in 0 .. Len(issued)
  BY <1>7 DEF Ordered, q
<1>9. id \in 0 .. Len(issued)
  BY <1>4, <1>5, <1>8
<1>10. \A k \in 1 .. Len(replies') : k + 1 \in 1 .. q /\ replies'[k] = replies[k + 1]
  BY <1>4
<1>11. /\ \A k \in 1 .. Len(replies') : replies'[k] \in 0 .. Len(issued)
       /\ \A k \in 1 .. Len(invalid') : invalid'[k] \in 0 .. Len(issued)
  BY <1>6, <1>7, <1>8, <1>10 DEF Ordered
<1>12. Taken(id, r) /\ Ordered' /\ flags' \in {flags, flags \cup {"IN_CALLBACK"}}
  BY <1>1, <1>2, <1>6, <1>7, <1>9, <1>11, TakenOrdered
<1>13. Numbered' /\ Served' = Served /\ (Open' <=> Open) /\ UNCHANGED issued
  BY <1>7, <1>12, TakenNumbered
<1>14. Start' /\ \A k \in 1 .. Len(Incoming') : ~Rejected
  BY <1>7, <1>12, TakenNotRejected
<1>15. ASSUME Rejected PROVE id = 1
  BY <1>3, <1>5, <1>7, <1>15 DEF Start, Fresh
<1>16. HasFn(id) => id \in 1 .. Len(issued) /\ issued[id].id = id
  BY <1>7, <1>9, Lengths DEF HasFn, Numbered
<1>17. CASE Monitored
  <2>1. Watching /\ WatchingAt(1) /\ Len(issued) = 1 /\ issued[1].kind = "monitor"
    BY <1>2, <1>7, <1>17 DEF Watching, Monitored
  <2>2. /\ r.type \notin PubSubTypes
        /\ r.type = "data" => r.id = 1
        /\ r.type = "error" => r.id = 0
    BY <1>2, <2>1 DEF WatchingAt, Rejected, PubSubTypes
  <2>3. HasFn(id) => id = 1
    BY <1>16, <2>1
  <2>4. HasFn(id) => Right(id, r)
    BY <1>16, <2>1, <2>2, <2>3 DEF Right
  <2>5. RightCallback'
    BY <1>7, <1>12, <2>4, TakenRight
  <2>6. r.type # "unsubscribe"
    BY <2>2 DEF PubSubTypes
  <2>7. cb' \in 0 .. 1 /\ \A k \in 1 .. Len(replies') : replies'[k] \in 0 .. 1
    BY <1>6, <1>9, <1>11, <2>1
  <2>8. Watching'
    BY <1>2, <1>7, <1>12, <2>1, <2>7, WatchingAgain
  <2>9. Monitored'
    BY <1>13, <1>17, SameCommands
  <2>10. /\ Registered' /\ Telling'
         /\ Patient' /\ Lasting' /\ Asked' /\ Flagged' /\ ServerSide' /\ Leaving' /\ Staying' /\ Refusing'
    BY <1>2, <1>6, <1>12, <2>6, PassedReply
  <2> QED BY <1>12, <1>13, <1>14, <2>5, <2>8, <2>9, <2>10 DEF PubSubInv, Agreement
<1>18. CASE ~Monitored
  <2>1. Dealt /\ DealtAt(1)
    BY <1>2, <1>7, <1>18 DEF Dealt
  <2>2. Rejected \/ (r.type = "data" /\ r.id = id)
    BY <1>2, <1>4, <1>5, <2>1 DEF DealtAt, q
  <2>3. Rejected => r.type = "error" /\ r.id = 0
    BY <1>2 DEF Rejected
  <2>4. HasFn(id) => Right(id, r)
    BY <1>15, <1>16, <2>2, <2>3 DEF Right, PubSubTypes
  <2>5. RightCallback'
    BY <1>7, <1>12, <2>4, TakenRight
  <2>6. r.type # "unsubscribe"
    BY <2>2, <2>3
  <2>7. /\ Registered' /\ Telling'
        /\ Patient' /\ Lasting' /\ Asked' /\ Flagged' /\ ServerSide' /\ Leaving' /\ Staying' /\ Refusing'
    BY <1>2, <1>6, <1>12, <2>6, PassedReply
  <2>8. ~Monitored'
    BY <1>13, <1>18, SameCommands
  <2>9. Queued'
    <3>1. ASSUME NEW k \in 1 .. Len(replies')
          PROVE  replies'[k] \in 1 .. Len(issued) /\ Regular(replies'[k]) /\ ~Late(replies'[k])
      BY <1>10, <2>1 DEF Dealt, Queued, q
    <3>2. ASSUME NEW k \in 1 .. Len(replies'), NEW l \in 1 .. Len(replies'), k < l
          PROVE  replies'[k] < replies'[l]
      <4>1. k + 1 < l + 1
        BY <1>4, <3>2
      <4> QED BY <1>10, <2>1, <4>1 DEF Dealt, Queued, q
    <3>3. ASSUME NEW k \in 1 .. Len(replies')
          PROVE  (replies[k] \in 1 .. Len(issued) /\ Regular(replies[k]) /\ ~Late(replies[k]))'
      <4>1. PICK c : c = replies'[k]
        OBVIOUS
      <4>2. Regular(c)' /\ ~Late(c)' /\ c \in 1 .. Len(issued)
        BY <1>13, <3>1, <4>1, SameCommands
      <4> QED BY <1>13, <4>1, <4>2 DEF Regular, Late, On
    <3> QED BY <3>2, <3>3 DEF Queued
  <2>10. ASSUME NEW k \in 1 .. Len(Incoming'), Clean(k)'
         PROVE  DealtAt(k)'
    <3>1. k \in Nat /\ k + 1 \in 1 .. Len(Incoming) /\ Incoming'[k] = Incoming[k + 1]
          /\ k \in 1 .. Len(Incoming') + 1
      BY <1>2, ShiftedReplies DEF Shifted
    <3>2. ~Rejected /\ Incoming[1].type \notin {"bad", "error"}
      BY <1>2, <1>14, <2>2
    <3>3. Clean(k + 1)
      BY <1>2, <2>10, <3>1, <3>2, ShiftedReplies
    <3>4. DealtAt(k + 1)
      BY <2>1, <3>1, <3>3 DEF Dealt
    <3>5. k + 1 <= q => k <= Len(replies') /\ replies'[k] = replies[k + 1]
      BY <1>4, <3>1, Lengths
    <3>6. k + 1 > q => k > Len(replies')
      BY <1>4, <3>1
    <3> QED BY <3>1, <3>2, <3>4, <3>5, <3>6 DEF DealtAt, q
  <2>11. ASSUME Open, Clean(Len(Incoming) + 1)' PROVE Complete'
    <3>1. PICK m \in 1 .. Len(Incoming') + 1 : m = Len(Incoming') + 1
      BY <1>2 DEF Shifted
    <3>2. Clean(m)'
      BY <2>11, <3>1 DEF Clean
    <3>3. ~Rejected /\ Incoming[1].type \notin {"bad", "error"}
      BY <1>2, <2>2, <2>11 DEF Rejected, Open
    <3>4. Clean(m + 1) /\ m + 1 = Len(Incoming) + 1
      BY <1>2, <3>1, <3>2, <3>3, ShiftedReplies DEF Shifted
    <3>5. Complete
      BY <2>1, <2>11, <3>4 DEF Dealt
    <3>6. Len(Incoming) \in Nat /\ Len(Incoming') = Len(Incoming) - 1
      BY <1>2 DEF Shifted
    <3>7. ASSUME NEW k \in 1 .. Len(replies')
          PROVE  /\ k <= Len(Incoming') => replies'[k] <= Served
                 /\ k > Len(Incoming') => replies'[k] > Served
      <4>1. k \in Nat /\ (k <= Len(Incoming') => k + 1 <= Len(Incoming))
            /\ (k > Len(Incoming') => k + 1 > Len(Incoming))
        BY <1>4, <3>6
      <4> QED BY <1>10, <3>5, <4>1 DEF Complete, q
    <3>8. ASSUME NEW c \in Served + 1 .. Len(issued), Regular(c), ~Late(c)
          PROVE  \E k \in 1 .. Len(replies') : replies'[k] = c
      <4>1. PICK k \in 1 .. q : replies[k] = c
        BY <3>5, <3>8 DEF Complete, q
      <4>2. replies[1] <= Served
        BY <1>2, <1>4, <3>5 DEF Complete, q
      <4>3. k # 1
        BY <4>1, <4>2, ServedType
      <4>4. k - 1 \in 1 .. q - 1 /\ k = (k - 1) + 1
        BY <1>4, <4>1, <4>3
      <4>5. PICK l \in 1 .. q - 1 : k = l + 1
        BY <4>4
      <4> QED BY <1>4, <4>1, <4>5
    <3> QED BY <1>13, <3>7, <3>8, SameCommands DEF Complete
  <2> QED BY <1>12, <1>13, <1>14, <2>5, <2>7, <2>8, <2>9, <2>10, <2>11 DEF PubSubInv, Agreement, Dealt
<1> QED BY <1>17, <1>18

\* An unsubscribe reply is taken: the topic goes, and what is registered is what
\* the server has left.
LEMMA ReplyLeft ==
    ASSUME TypeInv, PubSubInv, Agreement, NEW r, r \in Reply, r.type = "unsubscribe", NEW t \in Topics, t = r.topic,
           NEW id, id = subs[t], Taken(id, r), subs' = [subs EXCEPT ![t] = 0], LeavingAt(1),
           "SUBSCRIBED" \in flags' <=> "SUBSCRIBED" \in flags /\ ~r.last,
           "MONITORING" \in flags' <=> "MONITORING" \in flags
    PROVE  /\ id # 0 /\ Subscribes(id, t)
           /\ Registered' /\ Telling'
           /\ Patient' /\ Lasting' /\ Asked' /\ Flagged' /\ ServerSide' /\ Leaving' /\ Staying' /\ Refusing'
<1>1. Numbered /\ Registered /\ Telling /\ Patient /\ Lasting /\ Asked /\ Flagged /\ ServerSide /\ Leaving /\ Staying
      /\ Refusing
  BY DEF PubSubInv, Agreement
<1>2. Served' = Served /\ (Open' <=> Open) /\ UNCHANGED issued
  BY <1>1, TakenNumbered
<1>3. Shifted /\ UNCHANGED <<peer, srvSubs, srvMode>> /\ peer # "connecting" /\ r = Incoming[1]
  BY DEF Taken
<1>4. PICK j \in 1 .. Len(issued) : j = r.id
  BY <1>3 DEF LeavingAt
<1>5. Unsubscribes(j, t) /\ ~Confirmed(j, t) /\ (Open => j <= Served)
  BY <1>3, <1>4 DEF LeavingAt
<1>6. subs \in [Topics -> Nat] /\ Len(issued) \in Nat
  BY Lengths DEF TypeInv, TypeOK
<1>7. id \in Nat /\ id # 0 /\ id < j
  BY <1>1, <1>5, <1>6 DEF Lasting
<1>8. Subscribes(id, t) /\ id \in 1 .. Len(issued)
  BY <1>1, <1>7 DEF Registered
<1>9. HasFn(id)
  BY <1>7, <1>8 DEF HasFn, Subscribes
<1>10. RanOnce(id, r)
  BY <1>9 DEF Taken
<1>11. Confirmed(j, t)'
  <2>1. r.id = j /\ r.topic = t
    BY <1>4
  <2>2. Confirmed(r.id, r.topic)'
    BY <1>9, TakenConfirms
  <2> QED BY ONLY <2>1, <2>2 DEF Confirmed
<1>12. /\ \A l, u : Confirmed(l, u) => Confirmed(l, u)'
       /\ \A l, u : Confirmed(l, u)' => Confirmed(l, u) \/ (l = j /\ u = t)
  BY <1>4, TakenConfirms
<1>13. \A l \in 1 .. Len(issued) : Unsubscribes(l, t) => Confirmed(l, t)'
  <2> SUFFICES ASSUME NEW l \in 1 .. Len(issued), Unsubscribes(l, t), ~Confirmed(l, t)' PROVE FALSE
    OBVIOUS
  <2>1. ~Confirmed(l, t) /\ l # j
    BY <1>11, <1>12
  <2>2. PICK a, b \in 1 .. Len(issued) :
           a < b /\ Unsubscribes(a, t) /\ Unsubscribes(b, t) /\ ~Confirmed(a, t)
    BY <1>5, <1>6, <2>1
  <2>3. PICK i \in a + 1 .. b - 1 : Subscribes(i, t)
    BY <1>1, <2>2 DEF Patient
  <2>4. i \in a + 1 .. Len(issued)
    BY <1>6, <2>2
  <2>5. issued[i].kind = "unsubscribe"
    BY <1>1, <2>2, <2>4 DEF Patient
  <2> QED BY <2>3, <2>5 DEF Subscribes
<1>14. subs'[t] = 0 /\ \A u \in Topics : u # t => subs'[u] = subs[u]
  BY <1>6
<1>15. Registered'
  <2>1. \A u \in Topics : subs'[u] # 0 => subs'[u] = subs[u]
    BY <1>14
  <2> QED BY <1>1, <1>2, <2>1 DEF Registered, Subscribes, Names
<1>16. Patient'
  BY <1>1, <1>2, <1>12, SameCommands DEF Patient
<1>17. Lasting'
  <2>1. ASSUME NEW u \in Topics, u # t
        PROVE  /\ \A i \in 1 .. Len(issued) : Subscribes(i, u) =>
                     subs'[u] >= i \/ \E l \in i + 1 .. Len(issued) : Unsubscribes(l, u) /\ Confirmed(l, u)'
               /\ \A l \in 1 .. Len(issued) : Unsubscribes(l, u) /\ Confirmed(l, u)' => subs'[u] = 0 \/ subs'[u] > l
               /\ \A l \in 1 .. Len(issued) : Unsubscribes(l, u) /\ ~Confirmed(l, u)' => subs'[u] # 0 /\ subs'[u] < l
    BY <1>1, <1>12, <1>14, <2>1 DEF Lasting
  <2>2. ASSUME NEW i \in 1 .. Len(issued), Subscribes(i, t)
        PROVE  \E l \in i + 1 .. Len(issued) : Unsubscribes(l, t) /\ Confirmed(l, t)'
    <3>1. CASE id >= i
      <4>1. j \in i + 1 .. Len(issued)
        BY <1>6, <1>7, <3>1
      <4> QED BY <1>5, <1>11, <4>1
    <3>2. CASE ~(id >= i)
      BY <1>1, <1>12, <2>2, <3>2 DEF Lasting
    <3> QED BY <3>1, <3>2
  <2> QED BY <1>2, <1>13, <1>14, <2>1, <2>2, SameCommands DEF Lasting
<1>18. Asked'
  <2>1. \A n \in 1 .. Len(ran') : n \in 1 .. Len(ran) \/ n = Len(ran) + 1
    BY <1>10 DEF RanOnce
  <2>2. ASSUME NEW n \in 1 .. Len(ran'), ran'[n].reply.type = "unsubscribe"
        PROVE  ran'[n].reply.id \in 1 .. Len(issued) /\ Unsubscribes(ran'[n].reply.id, ran'[n].reply.topic)
    <3>1. CASE n \in 1 .. Len(ran)
      <4>1. ran'[n] = ran[n]
        BY <1>10, <3>1 DEF RanOnce
      <4> QED BY <1>1, <2>2, <3>1, <4>1 DEF Asked
    <3>2. CASE n = Len(ran) + 1
      <4>1. ran'[n].reply = r
        BY <1>10, <3>2 DEF RanOnce
      <4> QED BY <1>4, <1>5, <4>1
    <3> QED BY <2>1, <3>1, <3>2
  <2> QED BY <1>2, <2>2 DEF Asked, Unsubscribes, Names
<1>19. Ends(1, t) /\ (\A u : EndsBy(1, u) => u = t) /\ EndsBy(1, t)
  BY <1>3 DEF Ends, EndsBy
<1>20. Flagged'
  <2>1. r.last <=> \A u \in Topics : subs'[u] = 0
    <3>1. r.last <=> \A u \in Topics : subs[u] # 0 => EndsBy(1, u)
      BY <1>3 DEF LeavingAt
    <3> QED BY <1>14, <1>19, <3>1
  <2>2. "SUBSCRIBED" \in flags
    BY <1>1, <1>7 DEF Flagged
  <2>3. Monitored' <=> Monitored
    BY <1>2, SameCommands
  <2> QED BY <1>1, <2>1, <2>2, <2>3 DEF Flagged
<1>21. ServerSide'
  <2>1. \A u : On(Served, u)' <=> On(Served, u)
    BY <1>2, SameCommands DEF On
  <2>2. Open => \A l \in 1 .. Len(issued) : \A u \in Topics : Unsubscribes(l, u) /\ Confirmed(l, u)' => l <= Served
    BY <1>1, <1>5, <1>12 DEF ServerSide
  <2> QED BY <1>1, <1>2, <1>3, <2>1, <2>2, SameCommands DEF ServerSide
<1>22. \A k \in 1 .. Len(Incoming') :
          /\ k \in Nat
          /\ k + 1 \in 1 .. Len(Incoming)
          /\ Incoming'[k] = Incoming[k + 1]
          /\ \A u : Ends(k, u)' <=> Ends(k + 1, u)
          /\ \A u : EndsBy(k, u)' => EndsBy(k + 1, u)
          /\ \A u : u # t /\ EndsBy(k + 1, u) => EndsBy(k, u)'
  <2>1. \A u : u # t => ~Ends(1, u)
    BY <1>3 DEF Ends
  <2>2. \A k \in 1 .. Len(Incoming') : k \in Nat
    BY <1>3 DEF Shifted
  <2> QED BY <1>3, <2>1, <2>2, ShiftedReplies
<1>23. \A k \in 1 .. Len(Incoming') : ~Ends(k, t)'
  <2> SUFFICES ASSUME NEW k \in 1 .. Len(Incoming'), Ends(k + 1, t) PROVE FALSE
    BY <1>22
  <2>1. k \in Nat /\ k + 1 \in 1 .. Len(Incoming) /\ 1 \in 1 .. Len(Incoming)
    BY <1>3, <1>22 DEF Shifted
  <2>2. k + 1 = 1 /\ k >= 1
    BY <1>1, <1>19, <2>1 DEF Leaving
  <2> QED BY <2>1, <2>2
<1>24. \A k \in 1 .. Len(Incoming') : EndsBy(k + 1, t)
  <2>1. \A k \in 1 .. Len(Incoming') : 1 \in 1 .. k + 1
    BY <1>22
  <2> QED BY <1>19, <2>1 DEF EndsBy
<1>25. Leaving'
  <2>1. ASSUME NEW k \in 1 .. Len(Incoming'), Incoming'[k].type = "unsubscribe"
        PROVE  LeavingAt(k)'
    <3>1. LeavingAt(k + 1)
      BY <1>1, <1>22, <2>1 DEF Leaving
    <3>2. Incoming'[k].topic # t
      BY <1>23, <2>1 DEF Ends
    <3>4. ~Confirmed(Incoming[k].id, Incoming[k].topic)'
      <4>1. PICK a, u : a = Incoming'[k].id /\ u = Incoming'[k].topic
        OBVIOUS
      <4>2. ~Confirmed(a, u) /\ u # t
        BY <1>22, <3>1, <3>2, <4>1 DEF LeavingAt
      <4>3. ~Confirmed(a, u)'
        BY <1>12, <4>2
      <4> QED BY ONLY <4>1, <4>3 DEF Confirmed
    <3>5. (\A u \in Topics : subs[u] # 0 => EndsBy(k + 1, u)) <=> \A u \in Topics : subs'[u] # 0 => EndsBy(k, u)'
      BY <1>14, <1>22, <1>24
    <3>6. Incoming'[k].last <=> \A u \in Topics : subs'[u] # 0 => EndsBy(k, u)'
      BY <1>22, <3>1, <3>5 DEF LeavingAt
    <3>7. /\ Incoming'[k].id \in 1 .. Len(issued)
          /\ Open => Incoming'[k].id <= Served
          /\ Unsubscribes(Incoming'[k].id, Incoming'[k].topic)
      BY <1>22, <3>1 DEF LeavingAt
    <3>8. Unsubscribes(Incoming[k].id, Incoming[k].topic)'
      BY <1>2, <3>7 DEF Unsubscribes, Names
    <3> QED BY <1>2, <3>4, <3>6, <3>7, <3>8 DEF LeavingAt
  <2>2. ASSUME NEW k \in 1 .. Len(Incoming'), NEW l \in 1 .. Len(Incoming'), NEW u \in Topics,
               Ends(k, u)', Ends(l, u)'
        PROVE  k = l
    <3>1. k + 1 = l + 1
      BY <1>1, <1>22, <2>2 DEF Leaving
    <3> QED BY <1>22, <3>1
  <2>3. ASSUME Open, NEW l \in 1 .. Len(issued), NEW u \in Topics, l <= Served, Unsubscribes(l, u), ~Confirmed(l, u)'
        PROVE  EndsBy(Len(Incoming), u)'
    <3>1. u # t
      BY <1>13, <2>3
    <3>2. ~Ends(1, u) /\ ~Confirmed(l, u)
      BY <1>3, <1>12, <2>3, <3>1 DEF Ends
    <3>3. EndsBy(Len(Incoming), u)
      BY <1>1, <2>3, <3>2 DEF Leaving
    <3>4. \E k \in 1 .. Len(Incoming') : Ends(k, u)'
      BY <1>3, <3>2, <3>3, ShiftedReplies
    <3> QED BY <3>4 DEF EndsBy
  <2> QED BY <1>2, <2>1, <2>2, <2>3, SameCommands DEF Leaving
<1>26. Staying'
  <2> SUFFICES ASSUME NEW k \in 1 .. Len(Incoming'), Incoming'[k].type \in {"subscribe", "message"}
               PROVE  subs'[Incoming'[k].topic] # 0 /\ ~EndsBy(k, Incoming[k].topic)'
    BY DEF Staying
  <2>1. PICK u : u = Incoming'[k].topic
    OBVIOUS
  <2>2. subs[u] # 0 /\ ~EndsBy(k + 1, u)
    BY <1>1, <1>22, <2>1 DEF Staying
  <2>3. u \in Topics
    <3>1. k + 1 \in 1 .. Len(Incoming) /\ Incoming[k + 1].type \in PubSubTypes /\ u = Incoming[k + 1].topic
      BY <1>22, <2>1 DEF PubSubTypes
    <3> QED BY <3>1, IncomingType
  <2>4. u # t
    BY <1>24, <2>2
  <2>5. subs'[u] # 0 /\ ~EndsBy(k, u)'
    BY <1>14, <1>22, <2>2, <2>3, <2>4
  <2>6. ~EndsBy(k, Incoming[k].topic)'
    BY ONLY <2>1, <2>5 DEF EndsBy, Ends
  <2> QED BY <2>1, <2>5, <2>6
<1>27. Refusing'
  <2> SUFFICES ASSUME NEW k \in 1 .. Len(Incoming'), Incoming'[k].type = "error" PROVE RefusingAt(k)'
    BY DEF Refusing
  <2>1. RefusingAt(k + 1)
    BY <1>1, <1>22, TakenNotRejected DEF Refusing
  <2>2. PICK c : c = Incoming'[k].id
    OBVIOUS
  <2>3. c = Incoming[k + 1].id
    BY <1>22, <2>2
  <2>4. /\ c \in 1 .. Len(issued)
        /\ Late(c)
        /\ \A l \in c + 1 .. Len(issued) : \A u \in Topics : ~Confirmed(l, u)
        /\ \A l \in 1 .. k + 1 : Incoming[l].type = "unsubscribe" => Incoming[l].id < c
    BY <2>1, <2>3 DEF RefusingAt
  <2>5. j < c
    <3>1. 1 \in 1 .. k + 1
      BY <1>22
    <3> QED BY <1>3, <1>4, <2>4, <3>1
  <2>6. \A l \in c + 1 .. Len(issued) : \A u \in Topics : ~Confirmed(l, u)'
    BY <1>6, <1>12, <2>4, <2>5
  <2>7. \A l \in 1 .. k : Incoming'[l].type = "unsubscribe" => Incoming'[l].id < c
    <3>1. \A l \in 1 .. k : l + 1 \in 1 .. k + 1 /\ l \in 1 .. Len(Incoming')
      BY <1>3 DEF Shifted
    <3> QED BY <1>22, <2>4, <3>1
  <2>8. Late(c)'
    BY <1>2, <2>4, SameCommands
  <2>9. Late(Incoming[k].id)'
    BY ONLY <2>2, <2>8 DEF Late, Regular, On
  <2> QED BY <1>2, <2>2, <2>4, <2>6, <2>7, <2>9 DEF RefusingAt
<1>28. Telling'
  <2> SUFFICES ASSUME NEW i \in 1 .. Len(issued), NEW u \in Topics, Subscribes(i, u)
               PROVE  \/ subs'[u] = i
                      \/ \E l \in i + 1 .. Len(issued) : Subscribes(l, u)
                      \/ \E n \in 1 .. Len(ran') :
                            \/ ran'[n].cb = i /\ ran'[n].reply.type = "null"
                            \/ ran'[n].reply.type = "unsubscribe" /\ ran'[n].reply.topic = u
                               /\ ran'[n].reply.id > i
    BY <1>2, SameCommands DEF Telling
  <2>1. CASE subs[u] # i
    BY <1>1, <2>1, TakenTold
  <2>2. CASE subs[u] = i /\ u # t
    BY <1>14, <2>2
  <2>3. CASE subs[u] = i /\ u = t
    <3>1. Len(ran) + 1 \in 1 .. Len(ran') /\ ran'[Len(ran) + 1].reply = r
      BY <1>10 DEF RanOnce
    <3>2. r.id > i
      BY <1>4, <1>7, <2>3
    <3> QED BY <2>3, <3>1, <3>2
  <2> QED BY <2>1, <2>2, <2>3
<1> QED BY <1>7, <1>8, <1>15, <1>16, <1>17, <1>18, <1>20, <1>21, <1>25, <1>26, <1>27, <1>28

\* A reply of pub/sub.
LEMMA ProcessSubscriber ==
    ASSUME TypeInv, PubSubInv, ProcessReply, ReplyToSubscriber(Head(rbuf))
    PROVE  PubSubInv'
<1>1. PICK r : r = Head(rbuf)
  OBVIOUS
<1>2. /\ Shifted /\ r = Incoming[1] /\ r \in Reply /\ r.type # "bad"
      /\ Agreement /\ peer # "connecting" /\ ~Released /\ ctx = "live"
      /\ 1 \in 1 .. Len(Incoming) /\ Clean(1)
  BY <1>1, ReplyTaken
<1>3. /\ replies = <<>> /\ UNCHANGED replies
      /\ r.type # "error"
      /\ "SUBSCRIBED" \in flags
      /\ cb' = SubscribeCallback(r)
      /\ subs' = IF r.type = "unsubscribe" THEN Unregister(r.topic) ELSE subs
      /\ r.type \in PubSubTypes => UNCHANGED invalid
      /\ RunCallback(IF EndsSubscribedMode(r) THEN flags \ {"SUBSCRIBED"} ELSE flags, cb', r, "process")
  BY <1>1 DEF ReplyToSubscriber
<1>4. /\ Numbered /\ Registered /\ Ordered /\ RightCallback /\ Refusing /\ Start /\ (Monitored \/ Dealt)
      /\ Lasting /\ Leaving /\ Staying /\ Flagged
  BY <1>2 DEF PubSubInv, Agreement
<1>5. ~Monitored /\ Dealt
  BY <1>3, <1>4, MonitorAlone DEF Flagged
<1>6. Len(replies) = 0
  BY <1>3
<1>7. r.type \in PubSubTypes
  BY <1>2, <1>3, <1>5, <1>6 DEF Dealt, DealtAt, Rejected
<1>8. PICK t \in Topics : t = r.topic
  BY <1>2, <1>7, IncomingType
<1>9. subs[t] # 0
  BY <1>2, <1>4, <1>7, <1>8, ReplyRegistered
<1>10. PICK id : id = subs[t]
  OBVIOUS
<1>11. cb' = id
  BY <1>3, <1>7, <1>8, <1>9, <1>10 DEF SubscribeCallback
<1>12. Subscribes(id, t) /\ id \in 1 .. Len(issued) /\ id \in 0 .. Len(issued)
  BY <1>4, <1>9, <1>10, Lengths DEF Registered
<1>13. PICK f : f = IF EndsSubscribedMode(r) THEN flags \ {"SUBSCRIBED"} ELSE flags
  OBVIOUS
<1>14. f \subseteq flags /\ RunCallback(f, id, r, "process")
  BY <1>3, <1>11, <1>13
<1>15. /\ \A k \in 1 .. Len(replies') : replies'[k] \in 0 .. Len(issued)
       /\ \A k \in 1 .. Len(invalid') : invalid'[k] \in 0 .. Len(issued)
       /\ cb' \in 0 .. Len(issued)
  BY <1>3, <1>4, <1>7, <1>11, <1>12 DEF Ordered
<1>16. Taken(id, r) /\ Ordered' /\ flags' \in {f, f \cup {"IN_CALLBACK"}}
  BY <1>1, <1>2, <1>4, <1>12, <1>14, <1>15, TakenOrdered
<1>17. Numbered' /\ Served' = Served /\ (Open' <=> Open) /\ UNCHANGED issued
  BY <1>4, <1>16, TakenNumbered
<1>18. Start'
  BY <1>4, <1>16, TakenNotRejected
<1>19. Right(id, r)
  BY <1>7, <1>8, <1>12 DEF Right, Subscribes, PubSubTypes
<1>20. RightCallback'
  BY <1>4, <1>16, <1>19, TakenRight
<1>21. Dealt'
  BY <1>2, <1>3, <1>4, <1>5, <1>16, DealtAgain
<1>22. ~Monitored'
  BY <1>5, <1>17, SameCommands
<1>23. SUFFICES /\ Registered' /\ Telling'
                /\ Patient' /\ Lasting' /\ Asked' /\ Flagged' /\ ServerSide' /\ Leaving' /\ Staying' /\ Refusing'
  BY <1>16, <1>17, <1>18, <1>20, <1>21, <1>22 DEF PubSubInv, Agreement
<1>24. CASE r.type = "unsubscribe"
  <2>1. LeavingAt(1)
    BY <1>2, <1>4, <1>24 DEF Leaving
  <2>2. subs' = [subs EXCEPT ![t] = 0]
    BY <1>3, <1>8, <1>24 DEF Unregister
  <2>3. EndsSubscribedMode(r) <=> r.last
    BY <1>8, <1>9, <1>24 DEF EndsSubscribedMode
  <2>4. /\ "SUBSCRIBED" \in flags' <=> "SUBSCRIBED" \in flags /\ ~r.last
        /\ "MONITORING" \in flags' <=> "MONITORING" \in flags
    BY <1>13, <1>16, <2>3
  <2> QED BY <1>2, <1>8, <1>10, <1>16, <1>24, <2>1, <2>2, <2>4, ReplyLeft
<1>25. CASE r.type # "unsubscribe"
  <2>1. subs' = subs
    BY <1>3, <1>25
  <2>2. f = flags
    BY <1>13, <1>25 DEF EndsSubscribedMode
  <2>3. /\ "SUBSCRIBED" \in flags' <=> "SUBSCRIBED" \in flags
        /\ "MONITORING" \in flags' <=> "MONITORING" \in flags
    BY <1>16, <2>2
  <2> QED BY <1>2, <1>16, <1>25, <2>1, <2>3, PassedReply
<1> QED BY <1>24, <1>25

\* A line of MONITOR output.
LEMMA ProcessMonitor ==
    ASSUME TypeInv, PubSubInv, ProcessReply, ReplyToMonitor(Head(rbuf))
    PROVE  PubSubInv'
<1>1. PICK r : r = Head(rbuf)
  OBVIOUS
<1>2. /\ Shifted /\ r = Incoming[1] /\ r \in Reply /\ r.type # "bad"
      /\ Agreement /\ peer # "connecting" /\ ~Released /\ ctx = "live"
      /\ 1 \in 1 .. Len(Incoming) /\ Clean(1)
  BY <1>1, ReplyTaken
<1>3. PICK id : id = cb
  OBVIOUS
<1>4. /\ r.type # "error"
      /\ "MONITORING" \in flags
      /\ RunCallback(flags, id, r, "process")
      /\ UNCHANGED <<replies, invalid, subs, cb>>
  BY <1>1, <1>3 DEF ReplyToMonitor, queues
<1>5. Numbered /\ Ordered /\ RightCallback /\ Refusing /\ Start /\ Flagged /\ (Monitored => Watching)
  BY <1>2 DEF PubSubInv, Agreement
<1>6. Monitored /\ Watching /\ WatchingAt(1) /\ Len(issued) = 1 /\ issued[1].kind = "monitor" /\ issued[1].id = 1
  BY SMTT(30), <1>2, <1>4, <1>5 DEF Flagged, Watching, Monitored, Numbered
<1>7. id \in 0 .. 1 /\ id \in 0 .. Len(issued)
  BY <1>3, <1>6 DEF Watching
<1>8. /\ \A k \in 1 .. Len(replies') : replies'[k] \in 0 .. 1
      /\ \A k \in 1 .. Len(invalid') : invalid'[k] \in 0 .. Len(issued)
      /\ cb' \in 0 .. 1
  BY <1>3, <1>4, <1>5, <1>6 DEF Ordered, Watching
<1>9. Taken(id, r) /\ Ordered' /\ flags' \in {flags, flags \cup {"IN_CALLBACK"}}
  BY <1>1, <1>2, <1>4, <1>5, <1>6, <1>7, <1>8, TakenOrdered
<1>10. Numbered' /\ UNCHANGED issued
  BY <1>5, <1>9, TakenNumbered
<1>11. Start'
  BY <1>5, <1>9, TakenNotRejected
<1>12. r.type \notin PubSubTypes /\ (r.type = "data" => r.id = 1) /\ r.type # "unsubscribe"
  BY <1>2, <1>4, <1>6 DEF WatchingAt, Rejected, PubSubTypes
<1>13. HasFn(id) => Right(id, r)
  BY <1>4, <1>6, <1>7, <1>12 DEF Right, HasFn
<1>14. RightCallback'
  BY <1>5, <1>9, <1>13, TakenRight
<1>15. Watching'
  BY <1>2, <1>5, <1>6, <1>8, <1>9, WatchingAgain
<1>16. Monitored'
  BY <1>6, <1>10, SameCommands
<1>17. /\ Registered' /\ Telling'
       /\ Patient' /\ Lasting' /\ Asked' /\ Flagged' /\ ServerSide' /\ Leaving' /\ Staying' /\ Refusing'
  BY <1>2, <1>4, <1>9, <1>12, PassedReply
<1> QED BY <1>9, <1>10, <1>11, <1>14, <1>15, <1>16, <1>17 DEF PubSubInv, Agreement

LEMMA PubSubProcess ==
    ASSUME TypeInv, PubSubInv, ProcessReply
    PROVE  PubSubInv'
<1>1. \/ ReplyToPending(Head(rbuf))
      \/ SpontaneousError(Head(rbuf))
      \/ SpontaneousUnexpected(Head(rbuf))
      \/ ReplyToSubscriber(Head(rbuf))
      \/ ReplyToMonitor(Head(rbuf))
  BY DEF ProcessReply
<1> QED BY <1>1, NothingUnexpected, ProcessPending, ProcessSpontaneous, ProcessSubscriber, ProcessMonitor

-----------------------------------------------------------------------------
(* The server. *)

\* A step of the server leaves the client alone.
Untouched ==
    /\ UNCHANGED <<issued, obuf, rbuf, replies, subs, invalid, flags, ran, cb, pc, back, ctx, err>>
    /\ ~Released /\ ~Released'
    /\ peer' # "connecting" \/ peer = "connecting"

LEMMA EnvironmentUntouched ==
    ASSUME TypeInv, PubSubInv, Environment
    PROVE  Untouched /\ Agreement
<1>1. UNCHANGED <<issued, obuf, rbuf, replies, subs, invalid, flags, ran, cb, pc, back, ctx, err>>
  BY DEF Environment, clientVars, controlVars, historyVars, buffers, queues
<1>2. ~Released
  BY DEF Environment, Released
<1>3. ~Released'
  BY <1>1, <1>2 DEF Released
<1>4. peer' # "connecting" \/ peer = "connecting"
  BY DEF Environment, ServerNext, Accept, Refuse, Reject, Serve, Push, Corrupt, Close
<1> QED BY <1>1, <1>2, <1>3, <1>4 DEF Untouched, PubSubInv

\* What the client knows is the same.
LEMMA UntouchedPromises ==
    ASSUME PubSubInv, Agreement, Untouched
    PROVE  /\ Registered' /\ Telling' /\ RightCallback' /\ Ordered' /\ Patient' /\ Lasting' /\ Asked' /\ Flagged'
           /\ \A j, t : Confirmed(j, t)' <=> Confirmed(j, t)
           /\ Queued => Queued'
<1>1. UNCHANGED <<issued, obuf, rbuf, replies, subs, invalid, flags, ran, cb, pc, back, ctx, err>>
  BY DEF Untouched
<1>2. \A j, t : Confirmed(j, t)' <=> Confirmed(j, t)
  BY <1>1 DEF Confirmed
<1>3. Registered' /\ Telling'
  BY <1>1, SameCommands DEF PubSubInv, Registered, Telling
<1>4. RightCallback'
  BY <1>1 DEF PubSubInv, RightCallback, TopicSet
<1>5. Ordered'
  BY <1>1 DEF PubSubInv, Ordered, Untouched
<1>6. Patient' /\ Lasting' /\ Asked' /\ Flagged'
  BY <1>1, <1>2, SameCommands DEF Agreement, Patient, Lasting, Asked, Flagged
<1>7. Queued => Queued'
  BY <1>1, SameCommands DEF Queued, Regular, Late, On
<1> QED BY <1>2, <1>3, <1>4, <1>5, <1>6, <1>7

\* connect(2) ends, or the peer closes, and nothing is sent.
LEMMA PeerMoves ==
    ASSUME TypeInv, PubSubInv, Agreement, Untouched, UNCHANGED <<sock, srvSubs, srvMode>>, Numbered',
           Open' => Open /\ Served' = Served, peer' # "connecting", ~Rejected, ~Rejected'
    PROVE  PubSubInv'
<1>1. UNCHANGED <<issued, obuf, rbuf, replies, subs, invalid, flags, ran, cb, pc, back, ctx, err>>
  BY DEF Untouched
<1>2. Incoming' = Incoming
  BY <1>1 DEF Incoming
<1>3. /\ Registered' /\ Telling' /\ RightCallback' /\ Ordered' /\ Patient' /\ Lasting' /\ Asked' /\ Flagged'
      /\ \A j, t : Confirmed(j, t)' <=> Confirmed(j, t)
      /\ Queued => Queued'
  BY UntouchedPromises
<1>4. ServerSide'
  <2>1. Open' => \A t : On(Served, t)' <=> On(Served, t)
    BY <1>1, SameCommands DEF On
  <2> QED BY <1>1, <1>3, <2>1, SameCommands DEF Agreement, ServerSide
<1>5. Start'
  BY DEF Start
<1>6. /\ \A k, t : Ends(k, t)' <=> Ends(k, t)
      /\ \A k, t : EndsBy(k, t)' <=> EndsBy(k, t)
      /\ \A k : Clean(k)' <=> Clean(k)
  BY <1>2 DEF Ends, EndsBy, Clean
<1>7. Leaving'
  BY <1>1, <1>2, <1>3, <1>6, SameCommands DEF Agreement, Leaving, LeavingAt
<1>8. Staying'
  BY <1>1, <1>2, <1>6 DEF Agreement, Staying
<1>9. Refusing'
  BY <1>1, <1>2, <1>3, SameCommands DEF Agreement, Refusing, RefusingAt
<1>10. Dealt => Dealt'
  <2> SUFFICES ASSUME Dealt PROVE Dealt'
    OBVIOUS
  <2>1. Queued'
    BY <1>3 DEF Dealt
  <2>2. \A k \in 1 .. Len(Incoming') : Clean(k)' => DealtAt(k)'
    BY <1>1, <1>2, <1>6 DEF Dealt, DealtAt
  <2>3. ASSUME Open', Clean(Len(Incoming) + 1)' PROVE Complete'
    <3>1. Clean(Len(Incoming) + 1)
      BY <1>2, <2>3 DEF Clean
    <3>2. Complete /\ Served' = Served
      BY <2>3, <3>1 DEF Dealt
    <3> QED BY <1>1, <1>2, <3>2, SameCommands DEF Complete
  <2> QED BY <2>1, <2>2, <2>3 DEF Dealt
<1>11. Watching => Watching'
  BY <1>1, <1>2, <1>6 DEF Watching, WatchingAt
<1>12. Monitored' <=> Monitored
  BY <1>1, SameCommands
<1> QED BY <1>3, <1>4, <1>5, <1>7, <1>8, <1>9, <1>10, <1>11, <1>12 DEF PubSubInv, Agreement

\* Accept, Refuse and Close.
LEMMA PubSubPeer ==
    ASSUME TypeInv, PubSubInv, Environment, Accept \/ Refuse \/ Close
    PROVE  PubSubInv'
<1>1. Untouched /\ Agreement /\ Numbered
  BY EnvironmentUntouched DEF PubSubInv
<1>2. UNCHANGED <<issued, obuf, rbuf>> /\ ~Released
  BY <1>1 DEF Untouched
<1>3. UNCHANGED <<sock, srvSubs, srvMode>> /\ peer \in {"connecting", "up"} /\ peer' # "connecting"
  BY DEF Accept, Refuse, Close
<1>4. ~Rejected
  BY <1>3 DEF Rejected
<1>5. Incoming' = Incoming
  BY <1>2, <1>3 DEF Incoming
<1>6. CASE Accept \/ Refuse
  <2>1. wire' = wire /\ peer = "connecting" /\ peer' \in {"up", "refused"} /\ wire = <<>>
    BY <1>1, <1>6 DEF Accept, Refuse, Numbered
  <2>2. Served' = Served /\ ~Rejected' /\ Open
    BY <1>2, <2>1 DEF Served, Rejected, Open
  <2>3. Numbered'
    BY <1>1, <1>2, <2>1, <2>2 DEF Numbered, Monitored
  <2> QED BY <1>1, <1>3, <1>4, <2>2, <2>3, PeerMoves
<1>7. CASE Close
  <2>1. peer = "up" /\ peer' = "closed" /\ wire' = <<>> /\ Len(wire') = 0
    BY <1>7 DEF Close
  <2>2. ~Rejected'
    <3> SUFFICES ASSUME Rejected' PROVE FALSE
      OBVIOUS
    <3>1. Len(Incoming) = 1 /\ Incoming[1].type = "error" /\ Incoming[1].id = 0
      BY <1>5 DEF Rejected
    <3>2. RefusingAt(1)
      BY <1>1, <1>4, <3>1 DEF Agreement, Refusing
    <3> QED BY <3>1, <3>2, Lengths DEF RefusingAt
  <2>3. Served' >= 0
    <3>1. PICK a, o \in Nat : a = Len(issued) /\ o = Len(obuf)
      BY Lengths
    <3>2. o <= a
      BY <1>1, <3>1 DEF Numbered
    <3>3. Served' = a - o - 0
      BY <1>2, <2>1, <3>1 DEF Served
    <3> QED BY <3>1, <3>2, <3>3
  <2>4. Numbered'
    BY <1>1, <1>2, <2>1, <2>3 DEF Numbered, Monitored
  <2>5. ~Open'
    BY <2>1 DEF Open
  <2> QED BY <1>1, <1>3, <1>4, <2>2, <2>4, <2>5, PeerMoves
<1> QED BY <1>6, <1>7

\* The server sends the replies rs.
Grown(rs) ==
    /\ Len(Incoming) \in Nat /\ Len(rs) \in Nat
    /\ Len(Incoming') = Len(Incoming) + Len(rs)
    /\ \A k \in 1 .. Len(Incoming) : Incoming'[k] = Incoming[k]
    /\ \A i \in 1 .. Len(rs) : Incoming'[Len(Incoming) + i] = rs[i]

LEMMA GrownConcat ==
    ASSUME TypeInv, NEW rs \in Seq(Reply), rbuf' = rbuf, sock' = sock \o rs
    PROVE  Grown(rs)
<1> DEFINE ss == sock \o rs
           rss == rbuf \o ss
           now == rbuf \o sock
<1>1. rbuf \in Seq(Reply) /\ sock \in Seq(Reply)
  BY DEF TypeInv, TypeOK, ServerTypeOK
<1>2. PICK a, b, c \in Nat : a = Len(rbuf) /\ b = Len(sock) /\ c = Len(rs)
  BY <1>1
<1>3. /\ ss \in Seq(Reply)
      /\ Len(ss) = b + c
      /\ \A i \in 1 .. b : ss[i] = sock[i]
      /\ \A i \in 1 .. c : ss[b + i] = rs[i]
  BY <1>1, <1>2, ConcatFacts
<1>4. /\ Len(now) = a + b
      /\ \A i \in 1 .. a : now[i] = rbuf[i]
      /\ \A i \in 1 .. b : now[a + i] = sock[i]
  BY <1>1, <1>2, ConcatFacts
<1> HIDE DEF ss, now
<1>5. /\ Len(rss) = a + (b + c)
      /\ \A i \in 1 .. a : rss[i] = rbuf[i]
      /\ \A i \in 1 .. b + c : rss[a + i] = ss[i]
  <2>1. /\ Len(rbuf \o ss) = Len(rbuf) + Len(ss)
        /\ \A i \in 1 .. Len(rbuf) : (rbuf \o ss)[i] = rbuf[i]
        /\ \A i \in 1 .. Len(ss) : (rbuf \o ss)[Len(rbuf) + i] = ss[i]
    <3>1. rbuf \in Seq(Reply) /\ ss \in Seq(Reply)
      BY <1>1, <1>3
    <3> QED BY ONLY <3>1, ConcatFacts
  <2> QED BY <1>2, <1>3, <2>1
<1>6. Incoming = now /\ Incoming' = rss
  BY DEF Incoming, now, ss
<1> HIDE DEF rss
<1>7. ASSUME NEW k \in 1 .. a + b PROVE rss[k] = now[k]
  <2>1. CASE k \in 1 .. a
    BY <1>4, <1>5, <2>1
  <2>2. CASE k \notin 1 .. a
    <3>1. k - a \in 1 .. b /\ k = a + (k - a)
      BY <1>2, <2>2
    <3>2. PICK i \in 1 .. b : k = a + i
      BY <3>1
    <3>3. i \in 1 .. b + c
      BY <1>2
    <3> QED BY <1>3, <1>4, <1>5, <3>2, <3>3
  <2> QED BY <2>1, <2>2
<1>8. ASSUME NEW i \in 1 .. c PROVE rss[(a + b) + i] = rs[i]
  <2>1. b + i \in 1 .. b + c /\ (a + b) + i = a + (b + i)
    BY <1>2
  <2> QED BY <1>3, <1>5, <2>1
<1>9. a + (b + c) = (a + b) + c /\ a + b \in Nat
  BY <1>2
<1> QED BY <1>2, <1>4, <1>5, <1>6, <1>7, <1>8, <1>9 DEF Grown

LEMMA GrownAppend ==
    ASSUME TypeInv, NEW x \in Reply, rbuf' = rbuf, sock' = Append(sock, x)
    PROVE  Grown(<<x>>)
<1>1. rbuf \in Seq(Reply) /\ sock \in Seq(Reply)
  BY DEF TypeInv, TypeOK, ServerTypeOK
<1>2. Incoming' = Append(Incoming, x)
  BY <1>1, ConcatAppend DEF Incoming
<1>3. PICK q \in Seq(Reply) : q = Incoming
  BY IncomingType
<1>4. /\ Len(q) \in Nat
      /\ Len(Append(q, x)) = Len(q) + 1
      /\ \A i \in 1 .. Len(q) : Append(q, x)[i] = q[i]
      /\ Append(q, x)[Len(q) + 1] = x
  BY AppendFacts
<1>5. Len(<<x>>) = 1 /\ <<x>>[1] = x
  OBVIOUS
<1>6. \A i \in 1 .. 1 : i = 1
  OBVIOUS
<1> QED BY <1>2, <1>3, <1>4, <1>5, <1>6 DEF Grown

\* What the a replies that were under way say, and what the new ones add.
Kept(a) ==
    /\ a \in Nat
    /\ \A k \in 1 .. a :
          /\ k \in 1 .. Len(Incoming')
          /\ Incoming'[k] = Incoming[k]
          /\ \A t : Ends(k, t)' <=> Ends(k, t)
          /\ \A t : EndsBy(k, t)' <=> EndsBy(k, t)

KeptClean(a) ==
    /\ \A k \in 1 .. a + 1 : Clean(k)' <=> Clean(k)
    /\ \A k \in 1 .. Len(Incoming') + 1 : Clean(k)' /\ k > a => Clean(a + 1)

New(rs, a) ==
    /\ a \in Nat
    /\ Len(Incoming') = a + Len(rs) /\ Len(rs) \in Nat
    /\ \A k \in 1 .. Len(Incoming') : k \in 1 .. a \/ \E i \in 1 .. Len(rs) : k = a + i
    /\ \A i \in 1 .. Len(rs) : a + i \in 1 .. Len(Incoming') /\ Incoming'[a + i] = rs[i]

NewEnds(rs, a) ==
    /\ \A i \in 1 .. Len(rs) : \A t :
          EndsBy(a + i, t)' <=> EndsBy(a, t) \/ \E m \in 1 .. i : rs[m].type = "unsubscribe" /\ rs[m].topic = t
    /\ \A t : (\E l \in 1 .. Len(Incoming') : Ends(l, t)') <=>
          EndsBy(a, t) \/ \E m \in 1 .. Len(rs) : rs[m].type = "unsubscribe" /\ rs[m].topic = t

LEMMA GrownReplies ==
    ASSUME NEW rs, Grown(rs), NEW a, a = Len(Incoming)
    PROVE  Kept(a) /\ KeptClean(a) /\ New(rs, a) /\ NewEnds(rs, a)
<1>1. /\ a \in Nat /\ Len(rs) \in Nat
      /\ Len(Incoming') = a + Len(rs)
      /\ \A k \in 1 .. a : Incoming'[k] = Incoming[k]
      /\ \A i \in 1 .. Len(rs) : Incoming'[a + i] = rs[i]
  BY DEF Grown
<1>2. PICK b \in Nat : b = Len(rs)
  BY <1>1
<1>3. ASSUME NEW k \in 1 .. a
      PROVE  /\ k \in 1 .. Len(Incoming')
             /\ Incoming'[k] = Incoming[k]
             /\ \A t : Ends(k, t)' <=> Ends(k, t)
  <2>1. k \in 1 .. Len(Incoming') /\ Incoming'[k] = Incoming[k]
    BY <1>1, <1>2
  <2> QED BY <2>1 DEF Ends
<1>4. ASSUME NEW k \in 1 .. a, NEW t
      PROVE  EndsBy(k, t)' <=> EndsBy(k, t)
  <2>1. \A l \in 1 .. k : l \in 1 .. a
    BY <1>1
  <2> QED BY <1>3, <2>1 DEF EndsBy
<1>5. ASSUME NEW k \in 1 .. a + 1 PROVE Clean(k)' <=> Clean(k)
  <2>1. \A l \in 1 .. k - 1 : l \in 1 .. a
    BY <1>1
  <2> QED BY <1>3, <2>1 DEF Clean
<1>6. ASSUME NEW k \in 1 .. Len(Incoming') + 1, Clean(k)', k > a
      PROVE  Clean(a + 1)
  <2>1. \A l \in 1 .. (a + 1) - 1 : l \in 1 .. k - 1 /\ l \in 1 .. a
    BY <1>1, <1>2, <1>6
  <2> QED BY <1>3, <1>6, <2>1 DEF Clean
<1>7. ASSUME NEW k \in 1 .. Len(Incoming')
      PROVE  k \in 1 .. a \/ \E i \in 1 .. b : k = a + i
  <2>1. CASE k > a
    <3>1. k - a \in 1 .. b /\ k = a + (k - a)
      BY <1>1, <1>2, <2>1
    <3> QED BY <3>1
  <2> QED BY <1>1, <1>2, <2>1
<1>8. ASSUME NEW i \in 1 .. b
      PROVE  /\ a + i \in 1 .. Len(Incoming')
             /\ Incoming'[a + i] = rs[i]
             /\ \A t : Ends(a + i, t)' <=> rs[i].type = "unsubscribe" /\ rs[i].topic = t
  <2>1. a + i \in 1 .. Len(Incoming') /\ Incoming'[a + i] = rs[i]
    BY <1>1, <1>2
  <2> QED BY <2>1 DEF Ends
<1>9. ASSUME NEW n \in 0 .. b, NEW t
      PROVE  (\E l \in 1 .. a + n : Ends(l, t)') <=>
                EndsBy(a, t) \/ \E m \in 1 .. n : rs[m].type = "unsubscribe" /\ rs[m].topic = t
  <2>1. ASSUME NEW l \in 1 .. a + n, Ends(l, t)'
        PROVE  EndsBy(a, t) \/ \E m \in 1 .. n : rs[m].type = "unsubscribe" /\ rs[m].topic = t
    <3>1. CASE l \in 1 .. a
      BY <1>3, <2>1, <3>1 DEF EndsBy
    <3>2. CASE l \notin 1 .. a
      <4>1. l - a \in 1 .. n /\ l = a + (l - a)
        BY <1>1, <1>2, <3>2
      <4>2. PICK m \in 1 .. n : l = a + m
        BY <4>1
      <4>3. m \in 1 .. b
        BY <1>2
      <4>4. Ends(a + m, t)'
        BY <2>1, <4>2
      <4> QED BY <1>8, <4>3, <4>4
    <3> QED BY <3>1, <3>2
  <2>2. ASSUME EndsBy(a, t) PROVE \E l \in 1 .. a + n : Ends(l, t)'
    <3>1. PICK l \in 1 .. a : Ends(l, t)
      BY <2>2 DEF EndsBy
    <3>2. l \in 1 .. a + n
      BY <1>1
    <3> QED BY <1>3, <3>1, <3>2
  <2>3. ASSUME NEW m \in 1 .. n, rs[m].type = "unsubscribe", rs[m].topic = t
        PROVE  \E l \in 1 .. a + n : Ends(l, t)'
    <3>1. m \in 1 .. b /\ a + m \in 1 .. a + n
      BY <1>1, <1>2
    <3> QED BY <1>8, <2>3, <3>1
  <2> QED BY <2>1, <2>2, <2>3
<1>10. ASSUME NEW i \in 1 .. b, NEW t
       PROVE  EndsBy(a + i, t)' <=>
                 EndsBy(a, t) \/ \E m \in 1 .. i : rs[m].type = "unsubscribe" /\ rs[m].topic = t
  <2>1. i \in 0 .. b
    BY <1>2
  <2>2. EndsBy(a + i, t)' <=> \E l \in 1 .. a + i : Ends(l, t)'
    BY DEF EndsBy
  <2> QED BY <1>9, <2>1, <2>2
<1>11. \A t : (\E l \in 1 .. Len(Incoming') : Ends(l, t)') <=>
                 EndsBy(a, t) \/ \E m \in 1 .. b : rs[m].type = "unsubscribe" /\ rs[m].topic = t
  <2>1. b \in 0 .. b /\ Len(Incoming') = a + b
    BY <1>1, <1>2
  <2> QED BY <1>9, <2>1
<1>12. Kept(a)
  BY <1>1, <1>3, <1>4 DEF Kept
<1>13. KeptClean(a)
  BY <1>5, <1>6 DEF KeptClean
<1>14. New(rs, a)
  BY <1>1, <1>2, <1>7, <1>8 DEF New
<1>15. NewEnds(rs, a)
  BY <1>2, <1>10, <1>11 DEF NewEnds
<1> QED BY <1>12, <1>13, <1>14, <1>15

\* The server sends the replies rs, and has executed a command more at most.
Answers(rs) ==
    /\ Untouched
    /\ Grown(rs)
    /\ peer = "up" /\ peer' = "up"
    /\ Served \in Nat
    /\ Served' \in {Served, Served + 1}

LEMMA AnswersAfter ==
    ASSUME TypeInv, PubSubInv, Agreement, NEW rs, Answers(rs)
    PROVE  /\ ~Rejected /\ ~Rejected' /\ Start' /\ Open /\ Open'
           /\ \A k \in 1 .. Len(Incoming) :
                 /\ Incoming[k].type = "unsubscribe" => LeavingAt(k)'
                 /\ Incoming[k].type = "error" => RefusingAt(k)'
                 /\ Incoming[k].type \in {"subscribe", "message"} =>
                       (subs[Incoming[k].topic] # 0 /\ ~EndsBy(k, Incoming[k].topic))'
                 /\ DealtAt(k) => DealtAt(k)'
                 /\ WatchingAt(k) => WatchingAt(k)'
<1>1. ~Rejected /\ ~Rejected' /\ Start' /\ Open /\ Open'
  BY DEF Answers, Rejected, Start, Open
<1>2. UNCHANGED <<issued, subs, replies, ran>> /\ Grown(rs)
  BY DEF Answers, Untouched
<1>3. \A j, t : Confirmed(j, t)' <=> Confirmed(j, t)
  BY UntouchedPromises DEF Answers
<1>4. PICK a : a = Len(Incoming)
  OBVIOUS
<1>5. /\ a \in Nat
      /\ \A k \in 1 .. a :
            /\ k \in 1 .. Len(Incoming')
            /\ Incoming'[k] = Incoming[k]
            /\ \A t : EndsBy(k, t)' <=> EndsBy(k, t)
  BY <1>2, <1>4, GrownReplies DEF Kept
<1>6. Leaving /\ Staying /\ Refusing
  BY DEF Agreement
<1>7. ASSUME NEW k \in 1 .. a, Incoming[k].type = "unsubscribe"
      PROVE  LeavingAt(k)'
  <2>1. LeavingAt(k)
    BY <1>4, <1>6, <1>7 DEF Leaving
  <2>2. PICK j, u : j = Incoming[k].id /\ u = Incoming[k].topic
    OBVIOUS
  <2>3. /\ j \in 1 .. Len(issued)
        /\ j <= Served
        /\ Unsubscribes(j, u)
        /\ ~Confirmed(j, u)
        /\ Incoming[k].last <=> \A t \in Topics : subs[t] # 0 => EndsBy(k, t)
    BY <1>1, <2>1, <2>2 DEF LeavingAt
  <2>4. j <= Served'
    <3>1. j \in Nat
      BY <2>3, Lengths
    <3> QED BY <2>3, <3>1 DEF Answers
  <2>5. Unsubscribes(j, u)' /\ ~Confirmed(j, u)'
    BY <1>2, <1>3, <2>3, SameCommands
  <2>6. j = Incoming'[k].id /\ u = Incoming'[k].topic
    BY <1>5, <2>2
  <2>7. Unsubscribes(Incoming[k].id, Incoming[k].topic)' /\ ~Confirmed(Incoming[k].id, Incoming[k].topic)'
    BY ONLY <2>5, <2>6 DEF Unsubscribes, Names, Confirmed
  <2>8. Incoming'[k].last <=> \A t \in Topics : subs'[t] # 0 => EndsBy(k, t)'
    BY <1>2, <1>5, <2>3
  <2> QED BY <1>2, <2>3, <2>4, <2>6, <2>7, <2>8 DEF LeavingAt
<1>8. ASSUME NEW k \in 1 .. a, Incoming[k].type = "error"
      PROVE  RefusingAt(k)'
  <2>1. RefusingAt(k)
    BY <1>1, <1>4, <1>6, <1>8 DEF Refusing
  <2>2. \A l \in 1 .. k : l \in 1 .. a
    BY <1>5
  <2> QED BY <1>2, <1>3, <1>5, <2>1, <2>2, SameCommands DEF RefusingAt
<1>9. ASSUME NEW k \in 1 .. a, Incoming[k].type \in {"subscribe", "message"}
      PROVE  (subs[Incoming[k].topic] # 0 /\ ~EndsBy(k, Incoming[k].topic))'
  <2>1. PICK u : u = Incoming[k].topic
    OBVIOUS
  <2>2. subs[u] # 0 /\ ~EndsBy(k, u)
    BY <1>4, <1>6, <1>9, <2>1 DEF Staying
  <2>3. u = Incoming'[k].topic /\ subs'[u] # 0 /\ ~EndsBy(k, u)'
    BY <1>2, <1>5, <2>1, <2>2
  <2> QED BY ONLY <2>3 DEF EndsBy, Ends
<1>10. ASSUME NEW k \in 1 .. a
       PROVE  (DealtAt(k) => DealtAt(k)') /\ (WatchingAt(k) => WatchingAt(k)')
  BY <1>1, <1>2, <1>5 DEF DealtAt, WatchingAt
<1> QED BY <1>1, <1>4, <1>7, <1>8, <1>9, <1>10

\* A topic that the server knows, or is about to know, is registered, and no reply
\* under way ends it.
LEMMA OnStays ==
    ASSUME TypeInv, Agreement, Open, Served \in Nat, NEW n \in 0 .. Len(issued), Served <= n, NEW t \in Topics, On(n, t)
    PROVE  subs[t] # 0 /\ ~EndsBy(Len(Incoming), t)
<1>1. Patient /\ Lasting /\ ServerSide /\ Leaving /\ Len(issued) \in Nat /\ n \in Nat
  BY Lengths DEF Agreement
<1>2. \A j \in 1 .. Len(issued) : Unsubscribes(j, t) /\ Confirmed(j, t) => j <= n
  <2> SUFFICES ASSUME NEW j \in 1 .. Len(issued), Unsubscribes(j, t), Confirmed(j, t) PROVE j <= n
    OBVIOUS
  <2>1. j <= Served
    BY <1>1 DEF ServerSide
  <2> QED BY <1>1, <2>1
<1>3. subs[t] # 0
  BY <1>1, <1>2, OnRegistered
<1>4. ASSUME EndsBy(Len(Incoming), t) PROVE FALSE
  <2>1. PICK l \in 1 .. Len(Incoming) : Ends(l, t)
    BY <1>4 DEF EndsBy
  <2>2. LeavingAt(l) /\ Incoming[l].topic = t
    BY <1>1, <2>1 DEF Leaving, Ends
  <2>3. PICK j \in 1 .. Len(issued) : j <= Served /\ Unsubscribes(j, t) /\ ~Confirmed(j, t)
    BY <2>2 DEF LeavingAt
  <2>4. PICK i \in 1 .. n : Subscribes(i, t) /\ \A m \in i + 1 .. n : ~Unsubscribes(m, t)
    BY DEF On
  <2>5. j # i
    BY <2>3, <2>4 DEF Subscribes, Unsubscribes
  <2>6. j \notin i + 1 .. n
    BY <2>3, <2>4
  <2>7. i \in j + 1 .. Len(issued)
    BY <1>1, <2>3, <2>5, <2>6
  <2>8. issued[i].kind = "unsubscribe"
    BY <1>1, <2>3, <2>7 DEF Patient
  <2> QED BY <2>4, <2>8 DEF Subscribes
<1> QED BY <1>3, <1>4

\* Nothing that ac->replies waits for comes after it.
LEMMA Drained ==
    ASSUME TypeInv, Agreement, Open, Served \in Nat, ~Monitored, Clean(Len(Incoming) + 1),
           NEW n \in 0 .. Len(issued), Served <= n, \A c \in Served + 1 .. n : ~Regular(c),
           \/ \E t \in Topics : On(n, t)
           \/ \A c \in n + 1 .. Len(issued) : ~Regular(c)
    PROVE  Len(replies) <= Len(Incoming) /\ Complete
<1>1. Patient /\ ServerSide /\ Dealt /\ Len(issued) \in Nat /\ n \in Nat /\ Len(replies) \in Nat
  BY Lengths DEF Agreement
<1>2. Complete /\ Queued
  BY <1>1 DEF Dealt
<1> SUFFICES ASSUME ~(Len(replies) <= Len(Incoming)) PROVE FALSE
  BY <1>2
<1>3. PICK k \in 1 .. Len(replies) : k = Len(Incoming) + 1
  BY <1>1, IncomingType
<1>4. PICK c \in 1 .. Len(issued) : c = replies[k]
  BY <1>2 DEF Queued
<1>5. Regular(c) /\ ~Late(c)
  BY <1>2, <1>4 DEF Queued
<1>6. c > Served
  <2>1. k > Len(Incoming)
    BY <1>3, IncomingType
  <2> QED BY <1>2, <1>4, <2>1 DEF Complete
<1>7. c > n
  BY <1>1, <1>5, <1>6
<1>8. PICK t \in Topics : On(n, t)
  BY <1>1, <1>5, <1>7
<1>9. PICK i \in 1 .. n : Subscribes(i, t) /\ \A m \in i + 1 .. n : ~Unsubscribes(m, t)
  BY <1>8 DEF On
<1>10. \A m \in i + 1 .. c - 1 : ~Unsubscribes(m, t)
  <2> SUFFICES ASSUME NEW m \in i + 1 .. c - 1, Unsubscribes(m, t) PROVE FALSE
    OBVIOUS
  <2>1. m > n /\ m \in 1 .. Len(issued) /\ c \in m + 1 .. Len(issued)
    BY <1>1, <1>4, <1>9
  <2>2. ~Confirmed(m, t)
    BY <1>1, <2>1 DEF ServerSide
  <2>3. issued[c].kind = "unsubscribe"
    BY <1>1, <2>1, <2>2 DEF Patient
  <2> QED BY <1>5, <2>3 DEF Regular
<1>11. i \in 1 .. c - 1
  BY <1>1, <1>4, <1>7
<1>12. On(c - 1, t)
  BY <1>9, <1>10, <1>11 DEF On
<1> QED BY <1>5, <1>12 DEF Late

\* What one command more does to a topic.
LEMMA OnNext ==
    ASSUME NEW n \in Nat, NEW t
    PROVE  On(n + 1, t) <=> Subscribes(n + 1, t) \/ (On(n, t) /\ ~Unsubscribes(n + 1, t))
<1>1. ASSUME On(n + 1, t) PROVE Subscribes(n + 1, t) \/ (On(n, t) /\ ~Unsubscribes(n + 1, t))
  <2>1. PICK i \in 1 .. n + 1 : Subscribes(i, t) /\ \A j \in i + 1 .. n + 1 : ~Unsubscribes(j, t)
    BY <1>1 DEF On
  <2>2. CASE i = n + 1
    BY <2>1, <2>2
  <2>3. CASE i # n + 1
    <3>1. i \in 1 .. n /\ n + 1 \in i + 1 .. n + 1 /\ \A j \in i + 1 .. n : j \in i + 1 .. n + 1
      BY <2>1, <2>3
    <3> QED BY <2>1, <3>1 DEF On
  <2> QED BY <2>2, <2>3
<1>2. ASSUME Subscribes(n + 1, t) PROVE On(n + 1, t)
  <2>1. n + 1 \in 1 .. n + 1 /\ \A j \in (n + 1) + 1 .. n + 1 : FALSE
    OBVIOUS
  <2> QED BY <1>2, <2>1 DEF On
<1>3. ASSUME On(n, t), ~Unsubscribes(n + 1, t) PROVE On(n + 1, t)
  <2>1. PICK i \in 1 .. n : Subscribes(i, t) /\ \A j \in i + 1 .. n : ~Unsubscribes(j, t)
    BY <1>3 DEF On
  <2>2. i \in 1 .. n + 1 /\ \A j \in i + 1 .. n + 1 : j \in i + 1 .. n \/ j = n + 1
    BY <2>1
  <2> QED BY <1>3, <2>1, <2>2 DEF On
<1> QED BY <1>1, <1>2, <1>3

\* The new replies end nothing.
LEMMA AnswersEndNothing ==
    ASSUME TypeInv, PubSubInv, Agreement, NEW rs, Answers(rs), NEW a, a = Len(Incoming),
           \A i \in 1 .. Len(rs) : rs[i].type # "unsubscribe",
           Served' # Served => \A t : ~Unsubscribes(Served + 1, t)
    PROVE  /\ Leaving'
           /\ \A i \in 1 .. Len(rs) : \A t : EndsBy(a + i, t)' <=> EndsBy(a, t)
<1>1. Grown(rs) /\ UNCHANGED <<issued, subs, replies, ran>> /\ Served \in Nat /\ Served' \in {Served, Served + 1}
  BY DEF Answers, Untouched
<1>2. Kept(a) /\ New(rs, a) /\ NewEnds(rs, a)
  BY <1>1, GrownReplies
<1>3. ASSUME NEW i \in 1 .. Len(rs), NEW t PROVE EndsBy(a + i, t)' <=> EndsBy(a, t)
  <2>1. \A m \in 1 .. i : m \in 1 .. Len(rs)
    BY <1>2 DEF New
  <2> QED BY <1>2, <2>1 DEF NewEnds
<1>4. ASSUME NEW k \in 1 .. Len(Incoming'), NEW t, Incoming'[k].type = "unsubscribe" \/ Ends(k, t)'
      PROVE  k \in 1 .. a
  <2>1. Incoming'[k].type = "unsubscribe"
    BY <1>4 DEF Ends
  <2>2. ASSUME NEW i \in 1 .. Len(rs), k = a + i PROVE FALSE
    BY <1>2, <2>1, <2>2 DEF New
  <2> QED BY <1>2, <2>2 DEF New
<1>5. Leaving
  BY DEF Agreement
<1>6. \A k \in 1 .. Len(Incoming') : Incoming'[k].type = "unsubscribe" => LeavingAt(k)'
  BY <1>2, <1>4, AnswersAfter DEF Kept
<1>7. \A k, l \in 1 .. Len(Incoming') : \A t \in Topics : Ends(k, t)' /\ Ends(l, t)' => k = l
  BY <1>2, <1>4, <1>5 DEF Leaving, Kept
<1>8. ASSUME NEW j \in 1 .. Len(issued), NEW t \in Topics, j <= Served', Unsubscribes(j, t), ~Confirmed(j, t)
      PROVE  EndsBy(Len(Incoming), t)'
  <2>1. j <= Served
    BY <1>1, <1>8, Lengths
  <2>2. EndsBy(a, t)
    BY <1>5, <1>8, <2>1 DEF Leaving, Answers, Open
  <2>3. \E l \in 1 .. Len(Incoming') : Ends(l, t)'
    BY <1>2, <2>2 DEF NewEnds
  <2> QED BY <2>3 DEF EndsBy
<1>9. \A j, t : Confirmed(j, t)' <=> Confirmed(j, t)
  BY UntouchedPromises DEF Answers
<1>10. Leaving'
  BY <1>1, <1>6, <1>7, <1>8, <1>9, SameCommands DEF Leaving
<1> QED BY <1>3, <1>10

\* The new replies are for callbacks that are not in ac->replies.
LEMMA AnswersDealt ==
    ASSUME TypeInv, PubSubInv, Agreement, NEW rs, Answers(rs), NEW a, a = Len(Incoming), ~Monitored,
           \A i \in 1 .. Len(rs) : rs[i].type \in PubSubTypes \cup {"error"},
           Clean(a + 1) => Len(replies) <= a /\ Complete
    PROVE  Dealt'
<1>1. Grown(rs) /\ UNCHANGED <<issued, subs, replies, ran>> /\ Served \in Nat /\ Served' \in {Served, Served + 1}
  BY DEF Answers, Untouched
<1>2. KeptClean(a) /\ New(rs, a)
  BY <1>1, GrownReplies
<1>3. a \in Nat /\ Len(Incoming') = a + Len(rs) /\ Len(rs) \in Nat
  BY <1>2 DEF New
<1>4. Dealt
  BY DEF Agreement
<1>5. Queued'
  BY <1>4, UntouchedPromises DEF Dealt, Answers
<1>6. ASSUME NEW k \in 1 .. Len(Incoming'), Clean(k)'
      PROVE  DealtAt(k)'
  <2>1. CASE k \in 1 .. a
    <3>1. k \in 1 .. a + 1
      BY <1>3, <2>1
    <3>2. DealtAt(k)
      BY <1>2, <1>4, <1>6, <2>1, <3>1 DEF Dealt, KeptClean
    <3> QED BY <2>1, <3>2, AnswersAfter
  <2>2. CASE \E i \in 1 .. Len(rs) : k = a + i
    <3>1. PICK i \in 1 .. Len(rs) : k = a + i
      BY <2>2
    <3>2. k > a /\ k \in 1 .. Len(Incoming') + 1
      BY <1>3, <3>1
    <3>3. Len(replies) <= a
      BY <1>2, <1>6, <3>2 DEF KeptClean
    <3>4. k > Len(replies')
      BY <1>1, <1>3, <3>2, <3>3, Lengths
    <3> QED BY <1>2, <3>1, <3>4 DEF DealtAt, New
  <2> QED BY <1>2, <2>1, <2>2 DEF New
<1>7. ASSUME Clean(Len(Incoming) + 1)' PROVE Complete'
  <2>1. PICK m \in 1 .. Len(Incoming') + 1 : m = Len(Incoming') + 1 /\ m > a
    BY <1>3
  <2>2. Clean(m)'
    BY <1>7, <2>1 DEF Clean
  <2>3. Len(replies) <= a /\ Complete
    BY <1>2, <2>1, <2>2 DEF KeptClean
  <2>4. ASSUME NEW k \in 1 .. Len(replies')
        PROVE  k <= Len(Incoming') /\ k <= a /\ replies'[k] <= Served'
    <3>1. k <= a /\ k <= Len(Incoming')
      BY <1>1, <1>3, <2>3, Lengths
    <3>2. replies[k] <= Served /\ replies[k] \in 1 .. Len(issued)
      BY <1>1, <1>4, <2>3, <3>1 DEF Complete, Dealt, Queued
    <3>3. replies'[k] \in Nat
      BY <1>1, <3>2, Lengths
    <3> QED BY <1>1, <3>1, <3>2, <3>3
  <2>5. ASSUME NEW k \in 1 .. Len(replies') PROVE ~(k > Len(Incoming'))
    BY <1>1, <1>3, <2>4, Lengths
  <2>6. ASSUME NEW c \in Served' + 1 .. Len(issued), Regular(c), ~Late(c)
        PROVE  \E k \in 1 .. Len(replies') : replies'[k] = c
    <3>1. c \in Served + 1 .. Len(issued)
      <4>1. PICK n, l \in Nat : n = Served /\ l = Served' /\ n <= l
        BY <1>1
      <4>2. c \in l + 1 .. Len(issued) /\ Len(issued) \in Nat
        BY <2>6, <4>1, Lengths
      <4>3. PICK e \in Nat : e = Len(issued)
        BY <4>2
      <4>4. n \in Nat /\ l \in Nat /\ n <= l /\ c \in l + 1 .. e /\ e \in Nat
        BY <4>1, <4>2, <4>3
      <4>5. c \in n + 1 .. e
        BY ONLY <4>4
      <4> QED BY <4>1, <4>3, <4>5
    <3> QED BY <1>1, <2>3, <2>6, <3>1 DEF Complete
  <2> QED BY <1>1, <2>4, <2>5, <2>6, SameCommands DEF Complete
<1> QED BY <1>5, <1>6, <1>7 DEF Dealt

\* The new replies are a monitor's.
LEMMA AnswersWatching ==
    ASSUME TypeInv, PubSubInv, Agreement, NEW rs, Answers(rs), NEW a, a = Len(Incoming), Monitored,
           \A i \in 1 .. Len(rs) : rs[i].type \in {"line", "bad"} \/ (rs[i].type = "data" /\ rs[i].id = 1)
    PROVE  Watching'
<1>1. Grown(rs) /\ UNCHANGED <<replies, cb>>
  BY DEF Answers, Untouched
<1>2. KeptClean(a) /\ New(rs, a)
  BY <1>1, GrownReplies
<1>3. Watching
  BY DEF Agreement
<1>4. ASSUME NEW k \in 1 .. Len(Incoming'), Clean(k)'
      PROVE  WatchingAt(k)'
  <2>1. CASE k \in 1 .. a
    <3>1. k \in 1 .. a + 1
      BY <1>2, <2>1 DEF New
    <3>2. WatchingAt(k)
      BY <1>2, <1>3, <1>4, <2>1, <3>1 DEF Watching, KeptClean
    <3> QED BY <2>1, <3>2, AnswersAfter
  <2>2. CASE \E i \in 1 .. Len(rs) : k = a + i
    <3>1. PICK i \in 1 .. Len(rs) : k = a + i
      BY <2>2
    <3>2. Incoming'[k] = rs[i]
      BY <1>2, <3>1 DEF New
    <3> QED BY <3>2 DEF WatchingAt
  <2> QED BY <1>2, <2>1, <2>2 DEF New
<1> QED BY <1>1, <1>3, <1>4 DEF Watching

\* All together.
LEMMA AnswersTogether ==
    ASSUME TypeInv, PubSubInv, Agreement, NEW rs, Answers(rs), NEW a, a = Len(Incoming), Numbered', ServerSide', Leaving',
           \A i \in 1 .. Len(rs) : rs[i].type = "error" => RefusingAt(a + i)',
           \A i \in 1 .. Len(rs) : rs[i].type \in {"subscribe", "message"} =>
              subs[rs[i].topic] # 0 /\ ~EndsBy(a + i, rs[i].topic)',
           Monitored \/ Dealt', Monitored => Watching'
    PROVE  PubSubInv'
<1>1. Grown(rs) /\ UNCHANGED <<issued, subs>>
  BY DEF Answers, Untouched
<1>2. Kept(a) /\ New(rs, a)
  BY <1>1, GrownReplies
<1>3. Refusing'
  <2> SUFFICES ASSUME NEW k \in 1 .. Len(Incoming'), Incoming'[k].type = "error" PROVE RefusingAt(k)'
    BY DEF Refusing
  <2>1. CASE k \in 1 .. a
    BY <1>2, <2>1, AnswersAfter DEF Kept
  <2>2. CASE \E i \in 1 .. Len(rs) : k = a + i
    <3>1. PICK i \in 1 .. Len(rs) : k = a + i
      BY <2>2
    <3>2. RefusingAt(a + i)'
      BY <1>2, <3>1 DEF New
    <3> QED BY <3>1, <3>2
  <2> QED BY <1>2, <2>1, <2>2 DEF New
<1>4. ASSUME NEW k \in 1 .. Len(Incoming'), Incoming'[k].type \in {"subscribe", "message"}
      PROVE  (subs[Incoming[k].topic] # 0 /\ ~EndsBy(k, Incoming[k].topic))'
  <2>1. CASE k \in 1 .. a
    BY <1>2, <1>4, <2>1, AnswersAfter DEF Kept
  <2>2. CASE \E i \in 1 .. Len(rs) : k = a + i
    <3>1. PICK i \in 1 .. Len(rs) : k = a + i
      BY <2>2
    <3>2. PICK u : u = rs[i].topic
      OBVIOUS
    <3>3. Incoming'[k] = rs[i]
      BY <1>2, <3>1 DEF New
    <3>4. subs[u] # 0 /\ ~EndsBy(k, u)'
      <4>1. subs[rs[i].topic] # 0 /\ ~EndsBy(a + i, rs[i].topic)'
        BY <1>4, <3>3
      <4> QED BY ONLY <3>1, <3>2, <4>1 DEF EndsBy, Ends
    <3>5. u = Incoming'[k].topic /\ subs'[u] # 0
      BY <1>1, <3>2, <3>3, <3>4
    <3> QED BY ONLY <3>4, <3>5 DEF EndsBy, Ends
  <2> QED BY <1>2, <2>1, <2>2 DEF New
<1>5. Staying'
  BY <1>4 DEF Staying
<1>6. /\ Registered' /\ Telling' /\ RightCallback' /\ Ordered' /\ Patient' /\ Lasting' /\ Asked' /\ Flagged'
  BY UntouchedPromises DEF Answers
<1>7. Start'
  BY AnswersAfter
<1>8. Monitored' <=> Monitored
  BY <1>1, SameCommands
<1> QED BY <1>3, <1>5, <1>6, <1>7, <1>8 DEF PubSubInv, Agreement

\* The server sends an error and closes.
LEMMA PubSubReject ==
    ASSUME TypeInv, PubSubInv, Environment, Reject
    PROVE  PubSubInv'
<1>1. Untouched /\ Agreement /\ Numbered
  BY EnvironmentUntouched DEF PubSubInv
<1>2. UNCHANGED <<issued, obuf, rbuf, replies, subs, flags, cb>> /\ ~Released
  BY <1>1 DEF Untouched
<1>3. /\ peer = "connecting" /\ peer' = "closed"
      /\ sock' = <<PlainReply("error", 0)>>
      /\ UNCHANGED <<wire, srvSubs, srvMode>>
  BY DEF Reject
<1>4. PICK x : x = PlainReply("error", 0)
  OBVIOUS
<1>5. x.type = "error" /\ x.id = 0
  BY <1>4 DEF PlainReply
<1>6. Len(Incoming) = 0 /\ Start /\ srvMode = "normal"
  BY <1>1, <1>3 DEF Agreement, ServerSide
<1>7. rbuf = <<>>
  <2>1. Len(rbuf) = 0
    BY <1>6, IncomingFacts, Lengths
  <2>2. rbuf \in Seq(Reply)
    BY DEF TypeInv, TypeOK
  <2> QED BY <2>1, <2>2, EmptyList
<1>8. Len(Incoming') = 1 /\ Incoming'[1] = x
  <2>1. Incoming' = <<>> \o <<x>>
    BY <1>2, <1>3, <1>4, <1>7 DEF Incoming
  <2>2. <<>> \o <<x>> = <<x>>
    OBVIOUS
  <2> QED BY <2>1, <2>2
<1>9. \A k \in 1 .. Len(Incoming') : Incoming'[k].type = "error" /\ k = 1
  BY <1>5, <1>8
<1>10. Rejected' /\ ~Open'
  BY <1>3, <1>5, <1>8 DEF Rejected, Open
<1>11. Served' = Served
  BY <1>2, <1>3 DEF Served
<1>12. Numbered'
  BY <1>1, <1>2, <1>3, <1>11 DEF Numbered, Monitored
<1>13. /\ Registered' /\ Telling' /\ RightCallback' /\ Ordered' /\ Patient' /\ Lasting' /\ Asked' /\ Flagged'
       /\ Queued => Queued'
  BY <1>1, UntouchedPromises
<1>14. ServerSide'
  BY <1>3, <1>6, <1>10 DEF ServerSide
<1>15. Start'
  BY <1>2, <1>3, <1>6 DEF Start, Fresh
<1>16. Leaving' /\ Staying' /\ Refusing'
  BY <1>9, <1>10 DEF Leaving, Staying, Refusing, Ends
<1>17. Dealt => Dealt'
  BY <1>10, <1>13 DEF Dealt, DealtAt
<1>18. Watching => Watching'
  BY <1>2, <1>10 DEF Watching, WatchingAt
<1>19. Monitored' <=> Monitored
  BY <1>2, SameCommands
<1> QED BY <1>1, <1>12, <1>13, <1>14, <1>15, <1>16, <1>17, <1>18, <1>19 DEF PubSubInv, Agreement

\* Without a command.
LEMMA AnswersUnasked ==
    ASSUME TypeInv, PubSubInv, Environment, peer = "up", peer' = "up", UNCHANGED <<wire, srvSubs, srvMode>>,
           NEW x \in Reply, sock' = Append(sock, x)
    PROVE  /\ Answers(<<x>>) /\ Agreement /\ Numbered' /\ ServerSide' /\ Served' = Served /\ Served \in Nat
           /\ Served <= Len(issued)
<1>1. Untouched /\ Agreement /\ Numbered
  BY EnvironmentUntouched DEF PubSubInv
<1>2. UNCHANGED <<issued, obuf, rbuf, ran>> /\ ~Released
  BY <1>1 DEF Untouched
<1>3. Grown(<<x>>)
  BY <1>2, GrownAppend
<1>4. Served' = Served
  BY <1>2 DEF Served
<1>5. Served \in Nat /\ Served <= Len(issued)
  <2>1. PICK a, o, w \in Nat : a = Len(issued) /\ o = Len(obuf) /\ w = Len(wire)
    BY Lengths
  <2>2. Served = a - o - w /\ Served >= 0
    BY <1>1, <1>2, <2>1 DEF Served, Numbered
  <2> QED BY <2>1, <2>2
<1>6. Numbered'
  BY <1>1, <1>2, <1>4 DEF Numbered, Monitored
<1>7. \A j, t : Confirmed(j, t)' <=> Confirmed(j, t)
  BY <1>2 DEF Confirmed
<1>8. \A t : On(Served, t)' <=> On(Served, t)
  BY <1>2, <1>4, SameCommands DEF On
<1>9. ServerSide'
  BY <1>1, <1>2, <1>4, <1>7, <1>8, SameCommands DEF Agreement, ServerSide, Open
<1> QED BY <1>1, <1>3, <1>4, <1>5, <1>6, <1>9 DEF Answers

\* A message, a line of MONITOR output, or bytes that are not RESP.
LEMMA PubSubPush ==
    ASSUME TypeInv, PubSubInv, Environment, Push \/ Corrupt
    PROVE  PubSubInv'
<1>1. peer = "up" /\ peer' = "up" /\ UNCHANGED <<wire, srvSubs, srvMode>>
  BY DEF Push, Corrupt
<1>2. PICK x \in Reply :
         /\ sock' = Append(sock, x)
         /\ \/ x.type = "message" /\ x.topic \in srvSubs
            \/ x.type = "line" /\ srvMode = "monitor"
            \/ x.type = "bad"
  <2>1. CASE Corrupt
    <3>1. PlainReply("bad", 0) \in Reply /\ PlainReply("bad", 0).type = "bad"
      BY PlainReplyType DEF PlainReply, ReplyTypes, PubSubTypes
    <3> QED BY <2>1, <3>1 DEF Corrupt
  <2>2. CASE Push
    <3>1. CASE \E t \in srvSubs :
                 sock' = Append(sock, [type |-> "message", id |-> 0, topic |-> t, last |-> FALSE])
      <4>1. PICK t \in srvSubs : sock' = Append(sock, [type |-> "message", id |-> 0, topic |-> t, last |-> FALSE])
        BY <3>1
      <4>2. t \in Topics
        BY DEF TypeInv, TypeOK, ServerTypeOK
      <4>3. PICK y : y = [type |-> "message", id |-> 0, topic |-> t, last |-> FALSE]
        OBVIOUS
      <4>4. y \in Reply /\ y.type = "message" /\ y.topic = t
        BY <4>2, <4>3 DEF Reply, ReplyTypes, PubSubTypes
      <4> QED BY <4>1, <4>3, <4>4
    <3>2. CASE srvMode = "monitor" /\ sock' = Append(sock, PlainReply("line", 0))
      <4>1. PlainReply("line", 0) \in Reply /\ PlainReply("line", 0).type = "line"
        BY PlainReplyType DEF PlainReply, ReplyTypes, PubSubTypes
      <4> QED BY <3>2, <4>1
    <3> QED BY <2>2, <3>1, <3>2 DEF Push
  <2> QED BY <2>1, <2>2
<1>3. PICK rs : rs = <<x>>
  OBVIOUS
<1>4. /\ Answers(rs) /\ Agreement /\ Numbered' /\ ServerSide' /\ Served' = Served /\ Served \in Nat
      /\ Served <= Len(issued)
  BY <1>1, <1>2, <1>3, AnswersUnasked
<1>5. Len(rs) = 1 /\ rs[1] = x /\ \A i \in 1 .. Len(rs) : i = 1
  BY <1>3
<1>6. PICK a : a = Len(Incoming)
  OBVIOUS
<1>7. \A i \in 1 .. Len(rs) : rs[i].type # "unsubscribe"
  BY <1>2, <1>5
<1>8. Leaving' /\ \A i \in 1 .. Len(rs) : \A t : EndsBy(a + i, t)' <=> EndsBy(a, t)
  BY <1>4, <1>6, <1>7, AnswersEndNothing
<1>9. ServerSide /\ (Monitored \/ Dealt) /\ Open /\ Registered
  BY <1>1, <1>4 DEF Agreement, Open, PubSubInv
<1>10. x.type = "message" => x.topic \in Topics /\ On(Served, x.topic)
  BY <1>2, <1>9 DEF ServerSide, TypeInv, TypeOK, ServerTypeOK
<1>11. Served \in 0 .. Len(issued)
  BY <1>4, Lengths
<1>12. ASSUME x.type = "message"
       PROVE  /\ subs[x.topic] # 0 /\ ~EndsBy(a, x.topic)
              /\ ~Monitored
              /\ Clean(a + 1) => Len(replies) <= a /\ Complete
  <2>1. PICK t \in Topics : t = x.topic /\ On(Served, t)
    BY <1>10, <1>12
  <2>2. subs[t] # 0 /\ ~EndsBy(Len(Incoming), t)
    BY <1>4, <1>9, <1>11, <2>1, OnStays
  <2>3. ~Monitored
    BY <1>9, <2>2, MonitorAlone
  <2>4. \A c \in Served + 1 .. Served : ~Regular(c)
    BY <1>4
  <2>5. Clean(a + 1) => Len(replies) <= a /\ Complete
    BY <1>4, <1>6, <1>9, <1>11, <2>1, <2>3, <2>4, Drained
  <2> QED BY <1>6, <2>1, <2>2, <2>3, <2>5
<1>13. \A i \in 1 .. Len(rs) : rs[i].type \in {"subscribe", "message"} =>
          subs[rs[i].topic] # 0 /\ ~EndsBy(a + i, rs[i].topic)'
  <2> SUFFICES ASSUME NEW i \in 1 .. Len(rs), rs[i].type \in {"subscribe", "message"}
               PROVE  subs[rs[i].topic] # 0 /\ ~EndsBy(a + i, rs[i].topic)'
    OBVIOUS
  <2>1. rs[i] = x /\ x.type = "message"
    BY <1>2, <1>5
  <2>2. PICK u : u = rs[i].topic
    OBVIOUS
  <2>3. subs[u] # 0 /\ ~EndsBy(a, u)
    BY <1>12, <2>1, <2>2
  <2>4. ~EndsBy(a + i, u)'
    BY <1>8, <2>3
  <2> QED BY <2>2, <2>3, <2>4
<1>14. \A i \in 1 .. Len(rs) : rs[i].type # "error"
  BY <1>2, <1>5
<1>15. Monitored => Watching'
  <2> SUFFICES ASSUME Monitored PROVE Watching'
    OBVIOUS
  <2>1. \A i \in 1 .. Len(rs) : rs[i].type \in {"line", "bad"} \/ (rs[i].type = "data" /\ rs[i].id = 1)
    BY <1>2, <1>5, <1>12
  <2> QED BY <1>4, <1>6, <2>1, AnswersWatching
<1>16. Monitored \/ Dealt'
  <2> SUFFICES ASSUME ~Monitored PROVE Dealt'
    OBVIOUS
  <2>1. CASE x.type = "message"
    <3>1. \A i \in 1 .. Len(rs) : rs[i].type \in PubSubTypes \cup {"error"}
      BY <1>5, <2>1 DEF PubSubTypes
    <3> QED BY <1>4, <1>6, <1>12, <2>1, <3>1, AnswersDealt
  <2>2. CASE x.type = "bad"
    <3>1. Grown(rs) /\ Untouched
      BY <1>4 DEF Answers
    <3>2. KeptClean(a) /\ New(rs, a)
      BY <1>6, <3>1, GrownReplies
    <3>3. Queued'
      BY <1>4, <1>9, <3>1, UntouchedPromises DEF Dealt
    <3>4. ASSUME NEW k \in 1 .. Len(Incoming'), Clean(k)'
          PROVE  DealtAt(k)'
      <4>1. CASE k \in 1 .. a
        <5>1. k \in 1 .. a + 1
          BY <3>2, <4>1 DEF New
        <5>2. DealtAt(k)
          BY <1>6, <1>9, <3>2, <3>4, <4>1, <5>1 DEF Dealt, KeptClean
        <5> QED BY <1>4, <1>6, <4>1, <5>2, AnswersAfter
      <4>2. CASE \E i \in 1 .. Len(rs) : k = a + i
        <5>1. Incoming'[k] = x
          BY <1>5, <3>2, <4>2 DEF New
        <5> QED BY <2>2, <5>1 DEF DealtAt
      <4> QED BY <3>2, <4>1, <4>2 DEF New
    <3>5. ~Clean(Len(Incoming) + 1)'
      <4>1. 1 \in 1 .. Len(rs) /\ Len(Incoming') = a + 1 /\ a + 1 \in Nat
        BY <1>5, <3>2 DEF New
      <4>2. a + 1 \in 1 .. Len(Incoming') /\ Incoming'[a + 1] = x
        BY <1>5, <3>2, <4>1 DEF New
      <4>3. a + 1 \in 1 .. (Len(Incoming') + 1) - 1
        BY <4>1, <4>2
      <4> QED BY <2>2, <4>2, <4>3 DEF Clean
    <3> QED BY <3>3, <3>4, <3>5 DEF Dealt
  <2>3. x.type # "line"
    BY <1>2, <1>9 DEF ServerSide
  <2> QED BY <1>2, <2>1, <2>2, <2>3
<1> QED BY <1>4, <1>6, <1>8, <1>13, <1>14, <1>15, <1>16, AnswersTogether

\* The server executes command s, the first on the wire.
Executes(s) ==
    /\ s \in 1 .. Len(issued)
    /\ Served \in Nat /\ s = Served + 1 /\ Served' = s
    /\ Head(wire) = issued[s]
    /\ issued[s] \in Command /\ issued[s].id = s
    /\ Untouched /\ Agreement /\ Numbered'
    /\ peer = "up" /\ peer' = "up"

LEMMA ServeExecutes ==
    ASSUME TypeInv, PubSubInv, Environment, Serve
    PROVE  \E s : Executes(s)
<1>1. Untouched /\ Agreement /\ Numbered
  BY EnvironmentUntouched DEF PubSubInv
<1>2. UNCHANGED <<issued, obuf>> /\ ~Released
  BY <1>1 DEF Untouched
<1>3. wire # <<>> /\ wire' = Tail(wire) /\ peer = "up" /\ peer' = "up"
  BY DEF Serve
<1>4. wire \in Seq(Command) /\ issued \in Seq(Command)
  BY DEF TypeInv, TypeOK, ServerTypeOK
<1>5. PICK a, o, w \in Nat : a = Len(issued) /\ o = Len(obuf) /\ w = Len(wire)
  BY Lengths
<1>6. /\ w >= 1
      /\ Head(wire) = wire[1]
      /\ Len(wire') = w - 1
      /\ \A i \in 1 .. w - 1 : wire'[i] = wire[i + 1]
  BY <1>3, <1>4, <1>5, TailFacts
<1>7. PICK n \in Nat : n = Served /\ n = a - o - w
  <2>1. Served = a - o - w
    BY <1>5 DEF Served
  <2>2. Served >= 0
    BY <1>1, <1>2 DEF Numbered
  <2>3. Served \in Nat
    BY <1>5, <2>1, <2>2
  <2> QED BY <2>1, <2>3
<1>8. Served' = n + 1
  <2>1. Served' = a - o - (w - 1)
    BY <1>2, <1>5, <1>6 DEF Served
  <2> QED BY <1>5, <1>7, <2>1
<1>9. n + 1 \in 1 .. Len(issued)
  BY <1>5, <1>6, <1>7
<1>10. \A i \in 1 .. w : wire[i] = issued[n + i]
  BY <1>1, <1>2, <1>5, <1>7 DEF Numbered
<1>11. Head(wire) = issued[n + 1]
  BY <1>5, <1>6, <1>10
<1>12. issued[n + 1] \in Command
  BY <1>4, <1>9, ElementType
<1>13. issued[n + 1].id = n + 1
  BY <1>1, <1>9 DEF Numbered
<1>14. ASSUME NEW i \in 1 .. Len(wire') PROVE wire'[i] = issued[(n + 1) + i]
  <2>1. i + 1 \in 1 .. w /\ n + (i + 1) = (n + 1) + i /\ i \in 1 .. w - 1
    BY <1>5, <1>6, <1>7
  <2> QED BY <1>6, <1>10, <2>1
<1>15. Numbered'
  BY <1>1, <1>2, <1>3, <1>7, <1>8, <1>14 DEF Numbered, Monitored
<1>16. PICK s : s = n + 1
  OBVIOUS
<1>17. Executes(s)
  BY <1>1, <1>3, <1>7, <1>8, <1>9, <1>11, <1>12, <1>13, <1>15, <1>16 DEF Executes
<1> QED BY <1>17

\* What the server knows afterwards.
LEMMA ServerKnows ==
    ASSUME TypeInv, PubSubInv, NEW s, Executes(s), srvMode' = "monitor" => Monitored, srvSubs' \subseteq Topics,
           \A t \in Topics : t \in srvSubs' <=> Subscribes(s, t) \/ (t \in srvSubs /\ ~Unsubscribes(s, t))
    PROVE  ServerSide'
<1>1. UNCHANGED <<issued, obuf, ran>> /\ Agreement /\ Served \in Nat /\ s = Served + 1 /\ Served' = s
      /\ peer = "up" /\ peer' = "up"
  BY DEF Executes, Untouched
<1>2. ServerSide /\ Open
  BY <1>1 DEF Agreement, Open
<1>3. PICK n \in Nat : n = Served
  BY <1>1
<1>4. \A t : On(s, t) <=> Subscribes(s, t) \/ (On(n, t) /\ ~Unsubscribes(s, t))
  BY <1>1, <1>3, OnNext
<1>5. \A t \in Topics : On(n, t) <=> t \in srvSubs
  BY <1>2, <1>3 DEF ServerSide
<1>6. \A t \in Topics : On(s, t) <=> t \in srvSubs'
  BY <1>4, <1>5
<1>7. \A t \in Topics : On(s, t)' <=> t \in srvSubs'
  BY <1>1, <1>6, SameCommands
<1>8. \A t \in Topics : On(Served, t)' <=> t \in srvSubs'
  BY ONLY <1>1, <1>7 DEF On
<1>9. \A j, t : Confirmed(j, t)' <=> Confirmed(j, t)
  BY <1>1 DEF Confirmed
<1>10. \A j \in 1 .. Len(issued) : \A t \in Topics : Unsubscribes(j, t) /\ Confirmed(j, t) => j <= s
  <2> SUFFICES ASSUME NEW j \in 1 .. Len(issued), NEW t \in Topics, Unsubscribes(j, t), Confirmed(j, t)
               PROVE  j <= s
    OBVIOUS
  <2>1. j <= n
    BY <1>2, <1>3 DEF ServerSide
  <2> QED BY <1>1, <1>3, <2>1, Lengths
<1>11. Monitored' <=> Monitored
  BY <1>1, SameCommands
<1> QED BY <1>1, <1>8, <1>9, <1>10, <1>11, SameCommands DEF ServerSide

\* SUBSCRIBE.
LEMMA ServeSubscribe ==
    ASSUME TypeInv, PubSubInv, NEW s, Executes(s), issued[s].kind = "subscribe", rbuf' = rbuf,
           srvSubs' = srvSubs \cup TopicSet(issued[s]), srvMode' = srvMode, sock' = sock \o SubscribeReplies(issued[s])
    PROVE  PubSubInv'
<1>1. PICK c : c = issued[s]
  OBVIOUS
<1>2. c \in Command /\ c.kind = "subscribe" /\ c.id = s
  BY <1>1 DEF Executes
<1>3. PICK rs \in Seq(Reply) : rs = SubscribeReplies(c)
  BY <1>2, SubscribeRepliesType
<1>4. /\ Len(rs) = Len(c.topics)
      /\ \A i \in 1 .. Len(rs) : rs[i].type = "subscribe" /\ rs[i].topic = c.topics[i]
  <2>1. Len(c.topics) \in Nat
    BY <1>2 DEF Command
  <2> QED BY <1>3, <2>1 DEF SubscribeReplies
<1>5. Grown(rs)
  BY <1>1, <1>3, GrownConcat
<1>6. /\ Answers(rs) /\ Agreement /\ Numbered' /\ Open /\ Served \in Nat /\ s = Served + 1 /\ Served' = s
      /\ s \in 1 .. Len(issued)
  BY <1>5 DEF Executes, Answers, Open
<1>7. PICK a : a = Len(Incoming)
  OBVIOUS
<1>8. \A t : (Subscribes(s, t) <=> t \in TopicSet(c)) /\ ~Unsubscribes(s, t)
  BY <1>1, <1>2 DEF Subscribes, Unsubscribes, Names, TopicSet
<1>9. TopicSet(c) \subseteq Topics /\ srvSubs \subseteq Topics
  <2>1. srvSubs \subseteq Topics
    BY DEF TypeInv, TypeOK, ServerTypeOK
  <2>2. c.topics \in Seq(Topics)
    BY <1>2 DEF Command
  <2>3. TopicSet(c) \subseteq Topics
    BY ONLY <2>2 DEF TopicSet
  <2> QED BY <2>1, <2>3
<1>10. srvMode = "monitor" => Monitored
  BY <1>6 DEF Agreement, ServerSide
<1>11. ServerSide'
  <2>1. srvSubs' \subseteq Topics
    BY <1>1, <1>9
  <2>2. \A t \in Topics : t \in srvSubs' <=> Subscribes(s, t) \/ (t \in srvSubs /\ ~Unsubscribes(s, t))
    BY <1>1, <1>8
  <2> QED BY <1>10, <2>1, <2>2, ServerKnows
<1>12. \A i \in 1 .. Len(rs) : rs[i].type # "unsubscribe"
  BY <1>4
<1>13. \A t : ~Unsubscribes(Served + 1, t)
  BY <1>6, <1>8
<1>14. Leaving' /\ \A i \in 1 .. Len(rs) : \A t : EndsBy(a + i, t)' <=> EndsBy(a, t)
  BY <1>6, <1>7, <1>12, <1>13, AnswersEndNothing
<1>15. s \in 0 .. Len(issued) /\ Served <= s
  BY <1>6, Lengths
<1>16. ASSUME NEW i \in 1 .. Len(rs)
       PROVE  /\ On(s, c.topics[i]) /\ c.topics[i] \in Topics
              /\ subs[rs[i].topic] # 0 /\ ~EndsBy(a + i, rs[i].topic)'
  <2>1. PICK t \in Topics : t = c.topics[i] /\ t = rs[i].topic /\ Subscribes(s, t)
    BY <1>4, <1>8, <1>9 DEF TopicSet
  <2>2. On(s, t)
    <3>1. On(Served + 1, t) <=> Subscribes(Served + 1, t) \/ (On(Served, t) /\ ~Unsubscribes(Served + 1, t))
      BY <1>6, OnNext
    <3> QED BY <1>6, <2>1, <3>1
  <2>3. subs[t] # 0 /\ ~EndsBy(Len(Incoming), t)
    BY <1>6, <1>15, <2>2, OnStays
  <2>4. ~EndsBy(a + i, t)'
    BY <1>7, <1>14, <2>3
  <2> QED BY <2>1, <2>2, <2>3, <2>4
<1>17. 1 \in 1 .. Len(rs)
  <2>1. c.topics # <<>> /\ c.topics \in Seq(Topics)
    BY <1>1, <1>2, <1>6 DEF PubSubInv, Numbered, Command
  <2>2. Len(c.topics) \in Nat \ {0}
    BY <2>1
  <2> QED BY <1>4, <2>2
<1>18. ~Monitored
  <2> SUFFICES ASSUME Monitored PROVE FALSE
    OBVIOUS
  <2>1. s = 1
    BY <1>6 DEF Monitored
  <2> QED BY <1>1, <1>2, <2>1 DEF Monitored
<1>19. Clean(a + 1) => Len(replies) <= a /\ Complete
  <2>1. \E t \in Topics : On(s, t)
    BY <1>16, <1>17
  <2>2. \A m \in Served + 1 .. s : ~Regular(m)
    <3>1. \A m \in Served + 1 .. s : m = s
      BY <1>6
    <3> QED BY <1>1, <1>2, <3>1 DEF Regular
  <2> QED BY <1>6, <1>7, <1>15, <1>18, <2>1, <2>2, Drained
<1>20. Dealt'
  <2>1. \A i \in 1 .. Len(rs) : rs[i].type \in PubSubTypes \cup {"error"}
    BY <1>4 DEF PubSubTypes
  <2> QED BY <1>6, <1>7, <1>18, <1>19, <2>1, AnswersDealt
<1>21. \A i \in 1 .. Len(rs) : rs[i].type # "error"
  BY <1>4
<1> QED BY <1>6, <1>7, <1>11, <1>14, <1>16, <1>18, <1>20, <1>21, AnswersTogether

\* UNSUBSCRIBE: a topic that is registered is known to the server, or the reply that
\* ends it is under way.
LEMMA KnownOrEnding ==
    ASSUME TypeInv, PubSubInv, NEW s, Executes(s), issued[s].kind = "unsubscribe", NEW u \in Topics, Unsubscribes(s, u),
           NEW t \in Topics
    PROVE  /\ subs[t] # 0 => t \in srvSubs \/ EndsBy(Len(Incoming), t)
           /\ t \in srvSubs => subs[t] # 0 /\ ~EndsBy(Len(Incoming), t)
<1>1. /\ Agreement /\ Open /\ Served \in Nat /\ s = Served + 1 /\ s \in 1 .. Len(issued)
      /\ Registered
  BY DEF Executes, Open, PubSubInv
<1>2. Patient /\ Lasting /\ ServerSide /\ Leaving /\ Len(issued) \in Nat /\ subs[t] \in Nat
  BY <1>1, Lengths DEF Agreement, TypeInv, TypeOK
<1>3. PICK n \in Nat : n = Served /\ n \in 0 .. Len(issued)
  BY <1>1, <1>2
<1>4. ASSUME subs[t] # 0 PROVE t \in srvSubs \/ EndsBy(Len(Incoming), t)
  <2>1. Subscribes(subs[t], t) /\ subs[t] \in 1 .. Len(issued)
    BY <1>1, <1>4 DEF Registered
  <2>2. ~Confirmed(s, u)
    BY <1>1, <1>2 DEF ServerSide
  <2>3. \A i \in s + 1 .. Len(issued) : issued[i].kind = "unsubscribe"
    BY <1>1, <1>2, <2>2 DEF Patient
  <2>4. subs[t] \notin s + 1 .. Len(issued) /\ subs[t] # s
    BY <2>1, <2>3 DEF Subscribes
  <2>5. subs[t] <= n
    BY <1>1, <1>2, <1>3, <2>1, <2>4
  <2>6. CASE \A j \in subs[t] + 1 .. n : ~Unsubscribes(j, t)
    <3>1. On(n, t)
      BY <1>1, <1>3, <1>4, <2>5, <2>6, RegisteredOn
    <3> QED BY <1>1, <1>2, <1>3, <3>1 DEF ServerSide
  <2>7. CASE \E j \in subs[t] + 1 .. n : Unsubscribes(j, t)
    <3>1. PICK j \in subs[t] + 1 .. n : Unsubscribes(j, t)
      BY <2>7
    <3>2. j \in 1 .. Len(issued) /\ j <= n /\ subs[t] < j
      BY <1>2, <1>3
    <3>3. ~Confirmed(j, t)
      BY <1>2, <1>4, <3>1, <3>2 DEF Lasting
    <3> QED BY <1>1, <1>2, <1>3, <3>1, <3>2, <3>3 DEF Leaving
  <2> QED BY <2>6, <2>7
<1>5. ASSUME t \in srvSubs PROVE subs[t] # 0 /\ ~EndsBy(Len(Incoming), t)
  <2>1. On(n, t)
    BY <1>1, <1>2, <1>3, <1>5 DEF ServerSide
  <2>2. Served <= n
    BY <1>3
  <2> QED BY <1>1, <1>3, <2>1, <2>2, OnStays
<1> QED BY <1>4, <1>5

LEMMA ServeUnsubscribe ==
    ASSUME TypeInv, PubSubInv, NEW s, Executes(s), issued[s].kind = "unsubscribe", rbuf' = rbuf,
           srvSubs' = srvSubs \ TopicSet(issued[s]), srvMode' = srvMode, sock' = sock \o UnsubscribeReplies(issued[s])
    PROVE  PubSubInv'
<1>1. PICK c : c = issued[s]
  OBVIOUS
<1>2. c \in Command /\ c.kind = "unsubscribe" /\ c.id = s /\ Len(c.topics) \in Nat
  BY <1>1 DEF Executes, Command
<1>3. PICK rs \in Seq(Reply) : rs = UnsubscribeReplies(c)
  BY <1>2, SubscribeRepliesType
<1>4. /\ Len(rs) = Len(c.topics)
      /\ \A i \in 1 .. Len(rs) :
            /\ rs[i].type = "unsubscribe" /\ rs[i].id = s /\ rs[i].topic = c.topics[i]
            /\ rs[i].last <=> srvSubs \subseteq {c.topics[j] : j \in 1 .. i}
  <2>1. Len(rs) = Len(c.topics)
    BY <1>2, <1>3 DEF UnsubscribeReplies
  <2>2. ASSUME NEW i \in 1 .. Len(rs)
        PROVE  /\ rs[i].type = "unsubscribe" /\ rs[i].id = s /\ rs[i].topic = c.topics[i]
               /\ rs[i].last <=> srvSubs \subseteq {c.topics[j] : j \in 1 .. i}
    <3>1. PICK L : L = (srvSubs \subseteq {c.topics[j] : j \in 1 .. i})
      OBVIOUS
    <3>2. rs[i] = [type |-> "unsubscribe", id |-> s, topic |-> c.topics[i], last |-> L]
      BY <1>2, <1>3, <2>1, <3>1, Zenon DEF UnsubscribeReplies
    <3>3. rs[i].type = "unsubscribe" /\ rs[i].id = s /\ rs[i].topic = c.topics[i] /\ rs[i].last = L
      BY <3>2
    <3> QED BY <3>1, <3>3
  <2> QED BY <2>1, <2>2
<1>5. Grown(rs)
  BY <1>1, <1>3, GrownConcat
<1>6. /\ Answers(rs) /\ Agreement /\ Numbered' /\ Open /\ Open' /\ Served \in Nat /\ s = Served + 1 /\ Served' = s
      /\ s \in 1 .. Len(issued) /\ UNCHANGED <<issued, subs, ran>>
  BY <1>5 DEF Executes, Answers, Open, Untouched
<1>7. PICK a : a = Len(Incoming)
  OBVIOUS
<1>8. \A t : (Unsubscribes(s, t) <=> t \in TopicSet(c)) /\ ~Subscribes(s, t)
  BY <1>1, <1>2 DEF Subscribes, Unsubscribes, Names, TopicSet
<1>9. TopicSet(c) \subseteq Topics /\ srvSubs \subseteq Topics
  <2>1. srvSubs \subseteq Topics
    BY DEF TypeInv, TypeOK, ServerTypeOK
  <2>2. c.topics \in Seq(Topics)
    BY <1>2 DEF Command
  <2>3. TopicSet(c) \subseteq Topics
    BY ONLY <2>2 DEF TopicSet
  <2> QED BY <2>1, <2>3
<1>10. srvMode = "monitor" => Monitored
  BY <1>6 DEF Agreement, ServerSide
<1>11. ServerSide'
  <2>1. srvSubs' \subseteq Topics
    BY <1>9
  <2>2. \A t \in Topics : t \in srvSubs' <=> Subscribes(s, t) \/ (t \in srvSubs /\ ~Unsubscribes(s, t))
    BY <1>1, <1>8
  <2> QED BY <1>10, <2>1, <2>2, ServerKnows
<1>12. Patient /\ ServerSide /\ Leaving /\ Len(issued) \in Nat /\ Dealt /\ ~Monitored
  <2>1. ~Monitored
    <3> SUFFICES ASSUME Monitored PROVE FALSE
      OBVIOUS
    <3>1. s = 1
      BY <1>6 DEF Monitored
    <3> QED BY <1>1, <1>2, <3>1 DEF Monitored
  <2> QED BY <1>6, <2>1, Lengths DEF Agreement
<1>13. \A j \in 1 .. Len(issued) : \A t \in Topics : Unsubscribes(j, t) /\ Confirmed(j, t) => j <= Served
  BY <1>6, <1>12 DEF ServerSide
<1>14. Kept(a) /\ New(rs, a) /\ NewEnds(rs, a)
  BY <1>5, <1>7, GrownReplies
<1>15. \A i \in 1 .. Len(rs) : c.topics[i] \in Topics /\ Unsubscribes(s, c.topics[i])
  BY <1>4, <1>8, <1>9 DEF TopicSet
<1>16. \A j, t : Confirmed(j, t)' <=> Confirmed(j, t)
  BY UntouchedPromises, <1>6 DEF Answers
<1>17. ASSUME NEW i \in 1 .. Len(rs)
       PROVE  LeavingAt(a + i)'
  <2>1. PICK k, u : k = a + i /\ u = c.topics[i]
    OBVIOUS
  <2>2. Incoming'[k] = rs[i] /\ Incoming'[k].id = s /\ Incoming'[k].topic = u
    BY <1>4, <1>14, <2>1 DEF New
  <2>3. u \in Topics /\ Unsubscribes(s, u)
    BY <1>15, <2>1
  <2>4. ~Confirmed(s, u)
    BY <1>6, <1>13, <2>3
  <2>5. Unsubscribes(s, u)' /\ ~Confirmed(s, u)'
    BY <1>6, <1>16, <2>3, <2>4, SameCommands
  <2>6. Unsubscribes(Incoming[k].id, Incoming[k].topic)' /\ ~Confirmed(Incoming[k].id, Incoming[k].topic)'
    BY ONLY <2>2, <2>5 DEF Unsubscribes, Names, Confirmed
  <2>7. \A t : EndsBy(k, t)' <=> EndsBy(a, t) \/ t \in {c.topics[j] : j \in 1 .. i}
    <3>1. \A m \in 1 .. i : m \in 1 .. Len(rs)
      BY <1>14 DEF New
    <3>2. \A t : (\E m \in 1 .. i : rs[m].type = "unsubscribe" /\ rs[m].topic = t) <=>
             t \in {c.topics[j] : j \in 1 .. i}
      BY SMTT(30), <1>4, <3>1
    <3>3. \A t : EndsBy(a + i, t)' <=>
             EndsBy(a, t) \/ \E m \in 1 .. i : rs[m].type = "unsubscribe" /\ rs[m].topic = t
      BY <1>14 DEF NewEnds
    <3> QED BY <2>1, <3>2, <3>3
  <2>8. \A t \in Topics : /\ subs[t] # 0 => t \in srvSubs \/ EndsBy(a, t)
                          /\ t \in srvSubs => subs[t] # 0 /\ ~EndsBy(a, t)
    BY <1>1, <1>2, <1>7, <2>3, KnownOrEnding
  <2>9. srvSubs \subseteq {c.topics[j] : j \in 1 .. i} <=> \A t \in Topics : subs[t] # 0 => EndsBy(k, t)'
    BY <1>9, <2>7, <2>8
  <2>10. Incoming'[k].last <=> \A t \in Topics : subs'[t] # 0 => EndsBy(k, t)'
    BY <1>4, <1>6, <2>2, <2>9
  <2>11. LeavingAt(k)'
    BY <1>6, <2>2, <2>6, <2>10 DEF LeavingAt
  <2> QED BY <2>1, <2>11
<1>18. ASSUME NEW k \in 1 .. a, NEW i \in 1 .. Len(rs), NEW t \in Topics, Ends(k, t), rs[i].topic = t
       PROVE  FALSE
  <2>1. LeavingAt(k) /\ Incoming[k].topic = t
    BY <1>7, <1>12, <1>18 DEF Leaving, Ends
  <2>2. PICK j \in 1 .. Len(issued) : j <= Served /\ Unsubscribes(j, t) /\ ~Confirmed(j, t)
    BY <1>6, <2>1 DEF LeavingAt
  <2>3. Unsubscribes(s, t) /\ j < s
    BY <1>4, <1>6, <1>15, <1>18, <2>2
  <2>4. PICK m \in j + 1 .. s - 1 : Subscribes(m, t)
    BY <1>6, <1>12, <2>2, <2>3 DEF Patient
  <2>5. m \in j + 1 .. Len(issued)
    BY <1>6, <1>12, <2>2, <2>4
  <2>6. issued[m].kind = "unsubscribe"
    BY <1>12, <2>2, <2>5 DEF Patient
  <2> QED BY <2>4, <2>6 DEF Subscribes
<1>19. ASSUME NEW k \in 1 .. Len(Incoming'), NEW l \in 1 .. Len(Incoming'), NEW t \in Topics, Ends(k, t)', Ends(l, t)'
       PROVE  k = l
  <2>1. ASSUME NEW m \in 1 .. Len(Incoming'), Ends(m, t)'
        PROVE  \/ m \in 1 .. a /\ Ends(m, t)
               \/ \E i \in 1 .. Len(rs) : m = a + i /\ rs[i].topic = t
    <3>1. CASE m \in 1 .. a
      BY <1>14, <2>1, <3>1 DEF Kept
    <3>2. CASE \E i \in 1 .. Len(rs) : m = a + i
      <4>1. PICK i \in 1 .. Len(rs) : m = a + i
        BY <3>2
      <4>2. Incoming'[m] = rs[i]
        BY <1>14, <4>1 DEF New
      <4>3. Incoming'[m].topic = t
        BY <2>1 DEF Ends
      <4> QED BY <4>1, <4>2, <4>3
    <3> QED BY <1>14, <3>1, <3>2 DEF New
  <2>2. CASE k \in 1 .. a /\ Ends(k, t) /\ l \in 1 .. a /\ Ends(l, t)
    BY <1>7, <1>12, <2>2 DEF Leaving
  <2>3. CASE \E i, j \in 1 .. Len(rs) : k = a + i /\ rs[i].topic = t /\ l = a + j /\ rs[j].topic = t
    <3>1. PICK i, j \in 1 .. Len(rs) : k = a + i /\ rs[i].topic = t /\ l = a + j /\ rs[j].topic = t
      BY <2>3
    <3>2. c.topics[i] = c.topics[j] /\ i \in 1 .. Len(c.topics) /\ j \in 1 .. Len(c.topics)
      BY <1>4, <3>1
    <3>3. i = j
      BY ZenonT(60), <1>1, <1>2, <1>6, <3>2 DEF PubSubInv, Numbered
    <3> QED BY <3>1, <3>3
  <2>4. CASE k \in 1 .. a /\ Ends(k, t) /\ \E i \in 1 .. Len(rs) : l = a + i /\ rs[i].topic = t
    BY <1>18, <2>4
  <2>5. CASE l \in 1 .. a /\ Ends(l, t) /\ \E i \in 1 .. Len(rs) : k = a + i /\ rs[i].topic = t
    BY <1>18, <2>5
  <2>6. /\ (k \in 1 .. a /\ Ends(k, t)) \/ \E i \in 1 .. Len(rs) : k = a + i /\ rs[i].topic = t
        /\ (l \in 1 .. a /\ Ends(l, t)) \/ \E i \in 1 .. Len(rs) : l = a + i /\ rs[i].topic = t
    BY <1>19, <2>1
  <2> QED BY <2>2, <2>3, <2>4, <2>5, <2>6
<1>20. ASSUME NEW j \in 1 .. Len(issued), NEW t \in Topics, j <= s, Unsubscribes(j, t), ~Confirmed(j, t)
       PROVE  EndsBy(Len(Incoming), t)'
  <2>1. EndsBy(a, t) \/ \E m \in 1 .. Len(rs) : rs[m].type = "unsubscribe" /\ rs[m].topic = t
    <3>1. CASE j = s
      <4>1. t \in TopicSet(c)
        BY <1>8, <1>20, <3>1
      <4>2. PICK m \in 1 .. Len(rs) : c.topics[m] = t
        BY <1>4, <4>1 DEF TopicSet
      <4> QED BY <1>4, <4>2
    <3>2. CASE j # s
      <4>1. j <= Served
        BY <1>6, <1>12, <1>20, <3>2
      <4> QED BY <1>6, <1>7, <1>12, <1>20, <4>1 DEF Leaving
    <3> QED BY <3>1, <3>2
  <2>2. \E l \in 1 .. Len(Incoming') : Ends(l, t)'
    BY <1>14, <2>1 DEF NewEnds
  <2> QED BY <2>2 DEF EndsBy
<1>21. Leaving'
  <2>1. ASSUME NEW k \in 1 .. Len(Incoming'), Incoming'[k].type = "unsubscribe" PROVE LeavingAt(k)'
    <3>1. CASE k \in 1 .. a
      BY <1>6, <1>7, <1>14, <2>1, <3>1, AnswersAfter DEF Kept
    <3>2. CASE \E i \in 1 .. Len(rs) : k = a + i
      <4>1. PICK i \in 1 .. Len(rs) : k = a + i
        BY <3>2
      <4> QED BY <1>17, <4>1
    <3> QED BY <1>14, <3>1, <3>2 DEF New
  <2> QED BY <1>6, <1>16, <1>19, <1>20, <2>1, SameCommands DEF Leaving
<1>22. Clean(a + 1) => Len(replies) <= a /\ Complete
  <2>1. PICK u \in Topics : Unsubscribes(s, u)
    <3>1. c.topics # <<>> /\ c.topics \in Seq(Topics)
      BY <1>1, <1>2, <1>6 DEF PubSubInv, Numbered, Command
    <3>2. 1 \in 1 .. Len(rs)
      BY <1>2, <1>4, <3>1
    <3> QED BY <1>15, <3>2
  <2>2. ~Confirmed(s, u)
    BY <1>6, <1>13, <2>1
  <2>3. \A i \in s + 1 .. Len(issued) : issued[i].kind = "unsubscribe"
    BY <1>6, <1>12, <2>1, <2>2 DEF Patient
  <2>4. \A m \in s + 1 .. Len(issued) : ~Regular(m)
    BY <2>3 DEF Regular
  <2>5. \A m \in Served + 1 .. s : ~Regular(m)
    <3>1. \A m \in Served + 1 .. s : m = s
      BY <1>6
    <3> QED BY <1>1, <1>2, <3>1 DEF Regular
  <2>6. s \in 0 .. Len(issued) /\ Served <= s
    BY <1>6, <1>12
  <2> QED BY <1>6, <1>7, <1>12, <2>4, <2>5, <2>6, Drained
<1>23. Dealt'
  <2>1. \A i \in 1 .. Len(rs) : rs[i].type \in PubSubTypes \cup {"error"}
    BY <1>4 DEF PubSubTypes
  <2> QED BY <1>6, <1>7, <1>12, <1>22, <2>1, AnswersDealt
<1>24. \A i \in 1 .. Len(rs) : rs[i].type # "error" /\ rs[i].type \notin {"subscribe", "message"}
  BY <1>4
<1> QED BY <1>6, <1>7, <1>11, <1>12, <1>21, <1>23, <1>24, AnswersTogether

\* A regular command, or MONITOR, of a subscriber is refused.
LEMMA ServeRefused ==
    ASSUME TypeInv, PubSubInv, NEW s, Executes(s), issued[s].kind \notin {"subscribe", "unsubscribe"}, rbuf' = rbuf,
           srvSubs # {}, UNCHANGED <<srvSubs, srvMode>>, sock' = Append(sock, PlainReply("error", s))
    PROVE  PubSubInv'
<1>1. PICK x : x = PlainReply("error", s)
  OBVIOUS
<1>2. /\ Agreement /\ Numbered' /\ Open /\ Served \in Nat /\ s = Served + 1 /\ Served' = s
      /\ s \in 1 .. Len(issued) /\ UNCHANGED <<issued, ran>> /\ issued[s] \in Command
  BY DEF Executes, Open, Untouched
<1>3. x \in Reply /\ x.type = "error" /\ x.id = s
  <2>1. s \in Nat /\ "error" \in ReplyTypes \ PubSubTypes
    BY <1>2, Lengths DEF ReplyTypes, PubSubTypes
  <2> QED BY <1>1, <2>1, PlainReplyType DEF PlainReply
<1>4. PICK rs : rs = <<x>>
  OBVIOUS
<1>5. Grown(rs)
  BY <1>1, <1>3, <1>4, GrownAppend
<1>6. Answers(rs)
  BY <1>2, <1>5 DEF Executes, Answers
<1>7. Len(rs) = 1 /\ rs[1] = x /\ \A i \in 1 .. Len(rs) : i = 1
  BY <1>4
<1>8. PICK a : a = Len(Incoming)
  OBVIOUS
<1>9. \A t : ~Subscribes(s, t) /\ ~Unsubscribes(s, t)
  BY DEF Subscribes, Unsubscribes
<1>10. ServerSide /\ Leaving /\ Registered /\ srvSubs \subseteq Topics /\ Len(issued) \in Nat
  BY <1>2, Lengths DEF Agreement, PubSubInv, TypeInv, TypeOK, ServerTypeOK
<1>11. ServerSide'
  BY <1>9, <1>10, ServerKnows DEF ServerSide
<1>12. PICK n \in Nat : n = Served /\ n \in 0 .. Len(issued)
  BY <1>2, <1>10
<1>13. PICK t \in Topics : On(n, t)
  BY <1>2, <1>10, <1>12 DEF ServerSide
<1>14. ~Monitored
  <2>1. Served <= n
    BY <1>12
  <2>2. subs[t] # 0
    BY <1>2, <1>12, <1>13, <2>1, OnStays
  <2> QED BY <1>10, <2>2, MonitorAlone
<1>15. Regular(s)
  BY <1>2, <1>14 DEF Regular, PubSubInv, Numbered, Command, Kinds
<1>16. Late(s)
  <2>1. s - 1 = n
    BY <1>2, <1>12
  <2> QED BY <1>13, <1>15, <2>1 DEF Late
<1>17. Leaving' /\ \A i \in 1 .. Len(rs) : \A u : EndsBy(a + i, u)' <=> EndsBy(a, u)
  <2>1. \A i \in 1 .. Len(rs) : rs[i].type # "unsubscribe"
    BY <1>3, <1>7
  <2>2. \A u : ~Unsubscribes(Served + 1, u)
    BY <1>2, <1>9
  <2> QED BY <1>2, <1>6, <1>8, <2>1, <2>2, AnswersEndNothing
<1>18. \A i \in 1 .. Len(rs) : RefusingAt(a + i)'
  <2> SUFFICES ASSUME NEW i \in 1 .. Len(rs) PROVE RefusingAt(a + i)'
    OBVIOUS
  <2>1. Kept(a) /\ New(rs, a)
    BY <1>5, <1>8, GrownReplies
  <2>2. PICK k \in Nat : k = a + i /\ k = a + 1 /\ Incoming'[k] = x
    BY <1>7, <2>1 DEF New
  <2>3. Late(s)'
    BY <1>2, <1>16, SameCommands
  <2>4. Incoming'[k].id = s
    BY <1>3, <2>2
  <2>5. Late(Incoming[k].id)'
    BY ONLY <2>3, <2>4 DEF Late, Regular, On
  <2>6. \A j, u : Confirmed(j, u)' <=> Confirmed(j, u)
    BY <1>2 DEF Confirmed
  <2>7. ASSUME NEW j \in s + 1 .. Len(issued), NEW u \in Topics PROVE ~Confirmed(j, u)
    <3> SUFFICES ASSUME Confirmed(j, u) PROVE FALSE
      OBVIOUS
    <3>1. Unsubscribes(j, u)
      BY <1>2 DEF Agreement, Asked, Confirmed
    <3>2. j \in 1 .. Len(issued) /\ ~(j <= Served)
      BY <1>2, <1>10
    <3> QED BY <1>2, <1>10, <3>1, <3>2 DEF ServerSide
  <2>8. ASSUME NEW l \in 1 .. k, Incoming'[l].type = "unsubscribe" PROVE Incoming'[l].id < s
    <3>1. l # k
      BY <1>3, <2>2, <2>8
    <3>2. l \in 1 .. a
      BY <2>1, <2>2, <3>1 DEF Kept
    <3>3. LeavingAt(l) /\ Incoming'[l] = Incoming[l]
      BY <1>8, <1>10, <2>1, <2>8, <3>2 DEF Leaving, Kept
    <3>4. Incoming[l].id <= Served /\ Incoming[l].id \in 1 .. Len(issued)
      BY <1>2, <3>3 DEF LeavingAt
    <3> QED BY <1>2, <1>10, <3>3, <3>4
  <2>9. RefusingAt(k)'
    BY <1>2, <2>4, <2>5, <2>6, <2>7, <2>8 DEF RefusingAt
  <2> QED BY <2>2, <2>9
<1>19. Clean(a + 1) => Len(replies) <= a /\ Complete
  <2>1. \A c \in Served + 1 .. n : ~Regular(c)
    BY <1>12
  <2>2. Served <= n
    BY <1>12
  <2> QED BY <1>2, <1>8, <1>12, <1>13, <1>14, <2>1, <2>2, Drained
<1>20. Dealt'
  <2>1. \A i \in 1 .. Len(rs) : rs[i].type \in PubSubTypes \cup {"error"}
    BY <1>3, <1>7
  <2> QED BY <1>2, <1>6, <1>8, <1>14, <1>19, <2>1, AnswersDealt
<1>21. \A i \in 1 .. Len(rs) : rs[i].type \notin {"subscribe", "message"}
  BY <1>3, <1>7
<1> QED BY <1>2, <1>6, <1>8, <1>11, <1>14, <1>17, <1>18, <1>20, <1>21, AnswersTogether

\* A regular command, or MONITOR, is answered.
LEMMA ServeData ==
    ASSUME TypeInv, PubSubInv, NEW s, Executes(s), issued[s].kind \notin {"subscribe", "unsubscribe"}, rbuf' = rbuf,
           srvSubs = {}, srvMode' = IF issued[s].kind = "monitor" THEN "monitor" ELSE srvMode, UNCHANGED srvSubs,
           sock' = Append(sock, PlainReply("data", s))
    PROVE  PubSubInv'
<1>1. PICK x : x = PlainReply("data", s)
  OBVIOUS
<1>2. /\ Agreement /\ Numbered' /\ Open /\ Served \in Nat /\ s = Served + 1 /\ Served' = s
      /\ s \in 1 .. Len(issued) /\ UNCHANGED <<issued, ran, replies>> /\ issued[s] \in Command /\ Untouched
  BY DEF Executes, Open, Untouched
<1>3. x \in Reply /\ x.type = "data" /\ x.id = s
  <2>1. s \in Nat /\ "data" \in ReplyTypes \ PubSubTypes
    BY <1>2, Lengths DEF ReplyTypes, PubSubTypes
  <2> QED BY <1>1, <2>1, PlainReplyType DEF PlainReply
<1>4. PICK rs : rs = <<x>>
  OBVIOUS
<1>5. Grown(rs)
  BY <1>1, <1>3, <1>4, GrownAppend
<1>6. Answers(rs)
  BY <1>2, <1>5 DEF Executes, Answers
<1>7. Len(rs) = 1 /\ rs[1] = x /\ \A i \in 1 .. Len(rs) : i = 1
  BY <1>4
<1>8. PICK a : a = Len(Incoming)
  OBVIOUS
<1>9. \A t : ~Subscribes(s, t) /\ ~Unsubscribes(s, t)
  BY DEF Subscribes, Unsubscribes
<1>10. ServerSide /\ srvSubs \subseteq Topics /\ Len(issued) \in Nat
  BY <1>2, Lengths DEF Agreement, TypeInv, TypeOK, ServerTypeOK
<1>11. issued[s].kind = "monitor" => Monitored
  BY <1>2 DEF PubSubInv, Numbered
<1>12. ServerSide'
  <2>1. srvMode' = "monitor" => Monitored
    BY <1>10, <1>11 DEF ServerSide
  <2> QED BY <1>9, <1>10, <2>1, ServerKnows
<1>13. Leaving'
  <2>1. \A i \in 1 .. Len(rs) : rs[i].type # "unsubscribe"
    BY <1>3, <1>7
  <2>2. \A u : ~Unsubscribes(Served + 1, u)
    BY <1>2, <1>9
  <2> QED BY <1>2, <1>6, <1>8, <2>1, <2>2, AnswersEndNothing
<1>14. Monitored => Watching'
  <2> SUFFICES ASSUME Monitored PROVE Watching'
    OBVIOUS
  <2>1. s = 1
    BY <1>2 DEF Monitored
  <2>2. \A i \in 1 .. Len(rs) : rs[i].type \in {"line", "bad"} \/ (rs[i].type = "data" /\ rs[i].id = 1)
    BY <1>3, <1>7, <2>1
  <2> QED BY <1>2, <1>6, <1>8, <2>2, AnswersWatching
<1>15. Monitored \/ Dealt'
  <2> SUFFICES ASSUME ~Monitored PROVE Dealt'
    OBVIOUS
  <2>1. Dealt /\ KeptClean(a) /\ New(rs, a)
    BY <1>2, <1>5, <1>8, GrownReplies DEF Agreement
  <2>2. Queued' /\ Queued
    BY <1>2, <2>1, UntouchedPromises DEF Dealt
  <2>3. a \in Nat /\ Len(Incoming') = a + 1 /\ Incoming'[a + 1] = x
    BY <1>7, <2>1 DEF New
  <2>4. Regular(s) /\ ~Late(s)
    <3>1. Regular(s)
      BY <1>2, <1>11 DEF Regular, Command, Kinds
    <3>2. PICK n \in Nat : n = Served /\ s - 1 = n
      BY <1>2
    <3>3. \A t \in Topics : ~On(n, t)
      BY <1>2, <1>10, <3>2 DEF ServerSide
    <3> QED BY <3>1, <3>2, <3>3 DEF Late
  <2>5. ASSUME Clean(a + 1)
        PROVE  Complete /\ a + 1 \in 1 .. Len(replies) /\ replies[a + 1] = s
    <3>1. Complete
      BY <1>2, <1>8, <2>1, <2>5 DEF Dealt
    <3>2. s \in Served + 1 .. Len(issued)
      BY <1>2, <1>10
    <3>3. PICK k \in 1 .. Len(replies) : replies[k] = s
      BY <2>4, <3>1, <3>2 DEF Complete
    <3>4. k > a
      <4>1. ~(k <= Len(Incoming))
        BY <1>2, <3>1, <3>3 DEF Complete
      <4> QED BY <1>8, <2>3, <3>3, <4>1, Lengths
    <3>5. a + 1 \in 1 .. Len(replies)
      BY <2>3, <3>3, <3>4, Lengths
    <3>6. replies[a + 1] > Served /\ replies[a + 1] \in 1 .. Len(issued)
      BY <1>8, <2>2, <2>3, <3>1, <3>5 DEF Complete, Queued
    <3>7. k = a + 1
      <4> SUFFICES ASSUME k # a + 1 PROVE FALSE
        OBVIOUS
      <4>1. a + 1 < k
        BY <2>3, <3>3, <3>4, Lengths
      <4>2. replies[a + 1] < replies[k]
        BY <2>2, <3>3, <3>5, <4>1 DEF Queued
      <4> QED BY <1>2, <1>10, <3>3, <3>6, <4>2
    <3> QED BY <3>1, <3>3, <3>5, <3>7
  <2>6. ASSUME NEW k \in 1 .. Len(Incoming'), Clean(k)'
        PROVE  DealtAt(k)'
    <3>1. CASE k \in 1 .. a
      <4>1. k \in 1 .. a + 1
        BY <2>3, <3>1
      <4>2. DealtAt(k)
        BY <1>8, <2>1, <2>6, <3>1, <4>1 DEF Dealt, KeptClean
      <4> QED BY <1>2, <1>6, <1>8, <3>1, <4>2, AnswersAfter
    <3>2. CASE k = a + 1
      <4>1. Clean(a + 1)
        <5>1. k \in 1 .. a + 1
          BY <2>3, <3>2
        <5> QED BY <2>1, <2>6, <3>2, <5>1 DEF KeptClean
      <4>2. k <= Len(replies') /\ replies'[k] = s
        BY <1>2, <2>3, <2>5, <3>2, <4>1, Lengths
      <4> QED BY <1>3, <2>3, <3>2, <4>2 DEF DealtAt
    <3> QED BY <2>3, <3>1, <3>2
  <2>7. ASSUME Clean(Len(Incoming) + 1)' PROVE Complete'
    <3>1. PICK m \in 1 .. Len(Incoming') + 1 : m = Len(Incoming') + 1 /\ m > a
      BY <2>3
    <3>2. Clean(m)'
      BY <2>7, <3>1 DEF Clean
    <3>3. Complete /\ a + 1 \in 1 .. Len(replies) /\ replies[a + 1] = s
      BY <2>1, <2>5, <3>1, <3>2 DEF KeptClean
    <3>4. ASSUME NEW k \in 1 .. Len(replies)
          PROVE  /\ k <= a + 1 => replies[k] <= s
                 /\ k > a + 1 => replies[k] > s
      <4>1. replies[k] \in 1 .. Len(issued)
        BY <2>2 DEF Queued
      <4>2. CASE k <= a
        <5>1. replies[k] <= Served
          BY <1>8, <3>3, <4>2 DEF Complete
        <5> QED BY <1>2, <1>10, <2>3, <4>1, <4>2, <5>1
      <4>3. CASE k = a + 1
        BY <1>2, <1>10, <2>3, <3>3, <4>3
      <4>4. CASE k > a + 1
        <5>1. replies[a + 1] < replies[k]
          BY <2>2, <3>3, <4>4 DEF Queued
        <5> QED BY <1>2, <1>10, <2>3, <3>3, <4>1, <4>4, <5>1
      <4> QED BY <2>3, <4>2, <4>3, <4>4, Lengths
    <3>5. ASSUME NEW c \in s + 1 .. Len(issued), Regular(c), ~Late(c)
          PROVE  \E k \in 1 .. Len(replies) : replies[k] = c
      <4>1. c \in Served + 1 .. Len(issued)
        BY <1>2, <1>10
      <4> QED BY <3>3, <3>5, <4>1 DEF Complete
    <3> QED BY <1>2, <2>3, <3>4, <3>5, SameCommands DEF Complete
  <2> QED BY <2>2, <2>6, <2>7 DEF Dealt
<1>16. \A i \in 1 .. Len(rs) : rs[i].type # "error" /\ rs[i].type \notin {"subscribe", "message"}
  BY <1>3, <1>7
<1> QED BY <1>2, <1>6, <1>8, <1>12, <1>13, <1>14, <1>15, <1>16, AnswersTogether

LEMMA PubSubServe ==
    ASSUME TypeInv, PubSubInv, Environment, Serve
    PROVE  PubSubInv'
<1>1. PICK s : Executes(s)
  BY ServeExecutes
<1>2. Head(wire) = issued[s] /\ issued[s].id = s /\ rbuf' = rbuf
  BY <1>1 DEF Executes, Untouched
<1>3. CASE /\ Head(wire).kind = "subscribe"
           /\ srvSubs' = srvSubs \cup TopicSet(Head(wire))
           /\ sock' = sock \o SubscribeReplies(Head(wire))
           /\ srvMode' = srvMode
  <2>1. /\ issued[s].kind = "subscribe"
        /\ srvSubs' = srvSubs \cup TopicSet(issued[s])
        /\ sock' = sock \o SubscribeReplies(issued[s])
        /\ srvMode' = srvMode
    BY <1>2, <1>3
  <2> QED BY <1>1, <1>2, <2>1, ServeSubscribe
<1>4. CASE /\ Head(wire).kind = "unsubscribe"
           /\ srvSubs' = srvSubs \ TopicSet(Head(wire))
           /\ sock' = sock \o UnsubscribeReplies(Head(wire))
           /\ srvMode' = srvMode
  <2>1. /\ issued[s].kind = "unsubscribe"
        /\ srvSubs' = srvSubs \ TopicSet(issued[s])
        /\ sock' = sock \o UnsubscribeReplies(issued[s])
        /\ srvMode' = srvMode
    BY <1>2, <1>4
  <2> QED BY <1>1, <1>2, <2>1, ServeUnsubscribe
<1>5. CASE /\ Head(wire).kind \notin {"subscribe", "unsubscribe"}
           /\ srvSubs # {}
           /\ sock' = Append(sock, PlainReply("error", Head(wire).id))
           /\ UNCHANGED <<srvSubs, srvMode>>
  <2>1. /\ issued[s].kind \notin {"subscribe", "unsubscribe"}
        /\ sock' = Append(sock, PlainReply("error", s))
    BY <1>2, <1>5
  <2> QED BY <1>1, <1>2, <1>5, <2>1, ServeRefused
<1>6. CASE /\ Head(wire).kind \notin {"subscribe", "unsubscribe"}
           /\ srvSubs = {}
           /\ sock' = Append(sock, PlainReply("data", Head(wire).id))
           /\ srvMode' = IF Head(wire).kind = "monitor" THEN "monitor" ELSE srvMode
           /\ srvSubs' = srvSubs
  <2>1. /\ issued[s].kind \notin {"subscribe", "unsubscribe"}
        /\ sock' = Append(sock, PlainReply("data", s))
        /\ srvMode' = IF issued[s].kind = "monitor" THEN "monitor" ELSE srvMode
    BY <1>2, <1>6
  <2> QED BY <1>1, <1>2, <1>6, <2>1, ServeData
<1> QED BY <1>3, <1>4, <1>5, <1>6 DEF Serve

LEMMA PubSubEnvironment ==
    ASSUME TypeInv, PubSubInv, Environment
    PROVE  PubSubInv'
<1>1. Accept \/ Refuse \/ Reject \/ Serve \/ Push \/ Corrupt \/ Close
  BY DEF Environment, ServerNext
<1> QED BY <1>1, PubSubPeer, PubSubReject, PubSubServe, PubSubPush

-----------------------------------------------------------------------------
(* What follows for an application that keeps to what is supported. *)

LEMMA PubSubStep ==
    ASSUME Supports, TypeInv, PubSubInv, [Next]_vars
    PROVE  PubSubInv'
<1>1. CASE \E n \in 0 .. Len(sock) : BufferRead(n)
  BY <1>1, PubSubRead
<1>2. CASE \E n \in 0 .. Len(obuf) : BufferWrite(n)
  BY <1>2, PubSubWrite
<1>3. CASE NoMoreReplies
  <2>1. CASE DisconnectDue \/ "MONITORING" \notin flags
    BY <1>3, <2>1, QuietSteps
  <2>2. CASE ~DisconnectDue /\ "MONITORING" \in flags
    BY <1>3, <2>2, PubSubRequeue
  <2> QED BY <2>1, <2>2
<1>4. CASE AppNext
  BY <1>4, PubSubCommand, QuietSteps DEF AppNext
<1>5. CASE TeardownReplies \/ TeardownInvalid \/ TeardownSubs \/ TeardownEnds \/ DisconnectCallbackReturns
  BY <1>5, PubSubTeardown
<1>6. CASE ReadEvent \/ WriteEvent \/ ConnectCallbackReturns \/ BufferFails \/ ProtocolError
              \/ CallbackReturns \/ UNCHANGED vars
  BY <1>6, QuietSteps
<1>7. CASE ProcessReply
  BY <1>7, PubSubProcess
<1>8. CASE Environment
  BY <1>8, PubSubEnvironment
<1> QED BY <1>1, <1>2, <1>3, <1>4, <1>5, <1>6, <1>7, <1>8 DEF Next, LoopNext

LEMMA PubSubInvariant ==
    ASSUME Supports
    PROVE  Spec => [](TypeInv /\ PubSubInv)
<1>1. TypeInv /\ PubSubInv /\ [Next]_vars => PubSubInv'
  BY PubSubStep
<1> QED BY <1>1, PubSubInit, TypeInit, TypeNext, PTL DEF Spec

\* Each callback is given only what it was registered for, also where an
\* application subscribes, unsubscribes and issues commands in between: the
\* reply to its command, a message of a topic it subscribed to, or a line of
\* MONITOR (redisProcessCallbacks, __redisGetSubscribeCallback).
THEOREM SubscriberGetsItsOwn ==
    ASSUME Supports
    PROVE  Spec => []RightCallback
<1>1. PubSubInv => RightCallback
  BY DEF PubSubInv
<1> QED BY <1>1, PubSubInvariant, PTL

\* Whenever nothing is in flight, the topics in ac->sub are those that the
\* server has for this client, and REDIS_SUBSCRIBED says whether there is one:
\* __redisAsyncCommand registers a topic before the server knows of it, and
\* __redisGetSubscribeCallback drops it, and the flag, when the last of several
\* unsubscribes is confirmed.
THEOREM ServerAgrees ==
    ASSUME Supports
    PROVE  Spec => []SubscriptionsAgree
<1>1. TypeInv /\ PubSubInv => SubscriptionsAgree
  <2> SUFFICES ASSUME TypeInv, PubSubInv, pc = "idle", ctx = "live", peer = "up",
                      obuf = <<>>, wire = <<>>, sock = <<>>, rbuf = <<>>
               PROVE  /\ {t \in Topics : subs[t] # 0} = srvSubs
                      /\ "SUBSCRIBED" \in flags <=> srvSubs # {}
    BY DEF SubscriptionsAgree
  <2>1. Agreement /\ Open /\ Registered
    BY DEF PubSubInv, Released, Open
  <2>2. Patient /\ Lasting /\ Flagged /\ ServerSide /\ Leaving /\ Len(issued) \in Nat
    BY <2>1, Lengths DEF Agreement
  <2>3. Served = Len(issued)
    <3>1. Len(obuf) = 0 /\ Len(wire) = 0
      OBVIOUS
    <3> QED BY <2>2, <3>1 DEF Served
  <2>4. Len(Incoming) = 0
    BY EmptyList DEF Incoming
  <2>5. AllConfirmed
    <3> SUFFICES ASSUME NEW j \in 1 .. Len(issued), NEW t \in Topics, Unsubscribes(j, t), ~Confirmed(j, t)
                 PROVE  FALSE
      BY DEF AllConfirmed
    <3>1. j <= Served
      BY <2>2, <2>3
    <3>2. EndsBy(Len(Incoming), t)
      BY <2>1, <2>2, <3>1 DEF Leaving
    <3> QED BY <2>4, <3>2 DEF EndsBy
  <2>6. PICK n \in 0 .. Len(issued) : n = Len(issued)
    BY <2>2
  <2>7. ASSUME NEW t \in Topics PROVE subs[t] # 0 <=> On(n, t)
    <3>1. ASSUME subs[t] # 0 PROVE On(n, t)
      <4>1. subs[t] \in 1 .. Len(issued)
        BY <2>2, <3>1, <2>1 DEF Registered
      <4>2. \A j \in subs[t] + 1 .. n : ~Unsubscribes(j, t)
        <5> SUFFICES ASSUME NEW j \in subs[t] + 1 .. n, Unsubscribes(j, t) PROVE FALSE
          OBVIOUS
        <5>1. j \in 1 .. Len(issued) /\ j > subs[t]
          BY <2>2, <2>6, <4>1
        <5>2. Confirmed(j, t)
          BY <2>5, <5>1 DEF AllConfirmed
        <5> QED BY <2>2, <3>1, <4>1, <5>1, <5>2 DEF Lasting
      <4> QED BY <2>1, <2>6, <3>1, <4>1, <4>2, RegisteredOn
    <3>2. ASSUME On(n, t) PROVE subs[t] # 0
      <4>1. \A j \in 1 .. Len(issued) : Unsubscribes(j, t) /\ Confirmed(j, t) => j <= n
        BY <2>2, <2>6
      <4> QED BY <2>2, <3>2, <4>1, OnRegistered
    <3> QED BY <3>1, <3>2
  <2>8. ASSUME NEW t \in Topics PROVE On(n, t) <=> t \in srvSubs
    BY <2>1, <2>2, <2>3, <2>6 DEF ServerSide
  <2>9. srvSubs \subseteq Topics
    BY DEF TypeInv, TypeOK, ServerTypeOK
  <2>10. {t \in Topics : subs[t] # 0} = srvSubs
    BY <2>7, <2>8, <2>9
  <2>11. "SUBSCRIBED" \in flags <=> \E t \in Topics : subs[t] # 0
    BY <2>2 DEF Flagged
  <2> QED BY <2>10, <2>11
<1> QED BY <1>1, PubSubInvariant, PTL

\* However the connection ends, a callback whose subscription was neither
\* replaced nor confirmed as ended is called with NULL before the context is
\* freed (__redisAsyncFree runs through both tables of ac->sub).
THEOREM SubscribersHear ==
    ASSUME Supports
    PROVE  Spec => []SubscribersTold
<1>1. TypeInv /\ PubSubInv => SubscribersTold
  <2> SUFFICES ASSUME TypeInv, PubSubInv, ctx = "freed",
                      NEW i \in 1 .. Len(issued), NEW t \in TopicSet(issued[i]),
                      issued[i].kind = "subscribe",
                      ~ \E j \in i + 1 .. Len(issued) :
                            issued[j].kind = "subscribe" /\ t \in TopicSet(issued[j])
               PROVE  \E n \in 1 .. Len(ran) :
                         LET reply == ran[n].reply
                         IN  \/ ran[n].cb = i /\ reply.type = "null"
                             \/ reply.type = "unsubscribe" /\ reply.topic = t /\ reply.id > i
    BY DEF SubscribersTold
  <2>1. issued \in Seq(Command) /\ issued[i] \in Command
    BY ElementType DEF TypeInv, TypeOK
  <2>2. t \in Topics /\ Names(i, t)
    <3>1. issued[i].topics \in Seq(Topics)
      BY <2>1 DEF Command
    <3> QED BY <3>1 DEF TopicSet, Names
  <2>3. \A j \in i + 1 .. Len(issued) : ~Subscribes(j, t)
    BY DEF Subscribes, Names, TopicSet
  <2>4. subs[t] = 0
    BY <2>2 DEF PubSubInv, Ordered
  <2>5. i # 0
    BY Lengths
  <2> QED BY <2>2, <2>3, <2>4, <2>5 DEF PubSubInv, Telling, Subscribes
<1> QED BY <1>1, PubSubInvariant, PTL

\* An application that subscribes, and ends its connections with redisAsyncFree
\* or leaves that to the server, meets no failing assert() either: nothing that
\* the server pushes arrives while neither REDIS_SUBSCRIBED nor
\* REDIS_MONITORING is set (redisProcessCallbacks).
THEOREM NothingPushedUnexpected ==
    ASSUME Supports, "disconnect" \notin AppCalls \cup ConnectCalls
    PROVE  Spec => []NoAssertFails
<1>1. Init => ClosingReleased
  BY DEF Init, ClosingReleased, NoAssertFails
<1>2. TypeInv /\ PubSubInv /\ ClosingReleased /\ [Next]_vars => ClosingReleased'
  <2> SUFFICES ASSUME TypeInv, PubSubInv, ClosingReleased, [Next]_vars PROVE ClosingReleased'
    OBVIOUS
  <2>1. pc = "onConnectErr" /\ ctx = "live" => err # "ok"
    BY DEF PubSubInv, Ordered
  <2>2. ProcessReply => ~SpontaneousUnexpected(Head(rbuf))
    BY NothingUnexpected
  <2> QED BY <2>1, <2>2, ClosingStep
<1>3. TypeInv /\ PubSubInv /\ [Next]_vars => PubSubInv'
  BY PubSubStep
<1>4. ClosingReleased => NoAssertFails
  BY DEF ClosingReleased
<1> QED BY <1>1, <1>2, <1>3, <1>4, PubSubInit, TypeInit, TypeNext, PTL DEF Spec

=============================================================================
