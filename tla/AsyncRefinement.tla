-------------------------- MODULE AsyncRefinement --------------------------
(***************************************************************************)
(* RedisAsync implements ReplyQueue, for an application that issues        *)
(* regular commands only.  The commands that are pending are those that    *)
(* ac->replies holds a callback of, which may be a NULL function.          *)
(***************************************************************************)
EXTENDS RedisAsync

\* What a callback was given, as ReplyQueue tells it.
Answer(r) ==
    CASE r.reply = NullReply                           -> "null"
      [] r.reply.type = "data" /\ r.reply.id = r.cb    -> "own"
      [] r.reply.type = "error" /\ r.reply.id = 0      -> "refusal"
      [] OTHER                                         -> "foreign"

Queue == INSTANCE ReplyQueue WITH
    accepted  <- Len(issued),
    mute      <- {i \in 1 .. Len(issued) : issued[i].kind = "silent"},
    pending   <- replies,
    delivered <- [i \in 1 .. Len(ran) |-> [id |-> ran[i].cb, answer |-> Answer(ran[i])]],
    gone      <- (ctx = "freed")

\* The connection is such a queue: no mix of replies, errors of the socket or
\* of the protocol, disconnects and frees, from the event loop or from inside
\* callbacks, delivers out of order, twice, to the wrong callback or not at
\* all, or goes back to replies after a NULL (redisProcessCallbacks,
\* __redisAsyncFree, __redisAsyncCommand).
ImplementsQueue == Queue!QueueSpec
=============================================================================
