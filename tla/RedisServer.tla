---------------------------- MODULE RedisServer ----------------------------
(***************************************************************************)
(* The far end of one connection of the asynchronous client: the TCP       *)
(* socket and the Redis server behind it.  It is not code of the           *)
(* repository; it is modelled from what src/async.c, src/hiredis.c and     *)
(* src/net.c expect of it:                                                 *)
(*                                                                         *)
(*  - a non-blocking connect(2) that succeeds, fails, or succeeds towards  *)
(*    a server that sends an error reply and closes (the "maximum number   *)
(*    of clients" and "loading" cases of redisProcessCallbacks);           *)
(*  - commands are served in the order in which they were written;         *)
(*  - SUBSCRIBE and UNSUBSCRIBE answer once for each topic and carry the   *)
(*    number of topics left, of which the client tests only whether it is  *)
(*    zero;                                                                *)
(*  - a connection that holds subscriptions refuses other commands with an *)
(*    error reply, receives published messages, and a connection in        *)
(*    MONITOR mode receives one line for each command of any client;       *)
(*  - the peer may close the connection at any time.                       *)
(*                                                                         *)
(* A topic stands for a channel or a pattern together with the dictionary  *)
(* (channels or patterns) that it belongs to.                              *)
(***************************************************************************)
EXTENDS Naturals, Sequences

CONSTANTS
    Topics,      \* channels and patterns
    TopicLists,  \* the argument lists of (P)SUBSCRIBE and (P)UNSUBSCRIBE
    Nil,         \* "no topic"
    MaxPushes    \* bound on the messages the server sends unasked

ASSUME TopicsAssumption ==
    /\ TopicLists \subseteq Seq(Topics)
    /\ Nil \notin Topics
    /\ MaxPushes \in Nat

VARIABLES
    peer,        \* state of the connection as the kernel knows it
    wire,        \* commands written by the client and not yet served
    sock,        \* replies sent by the server and not yet read
    srvSubs,     \* topics this connection is subscribed to, at the server
    srvMode,     \* whether this connection is in MONITOR mode, at the server
    pushes       \* number of unsolicited messages sent so far

serverVars == <<peer, wire, sock, srvSubs, srvMode, pushes>>

Kinds == {"command", "silent", "subscribe", "unsubscribe", "monitor"}

Command == [id : Nat, kind : Kinds, topics : Seq(Topics)]

ReplyTypes ==
    {"data", "error", "subscribe", "unsubscribe", "message", "line", "bad"}

PubSubTypes == {"subscribe", "unsubscribe", "message"}

\* id names the command that is answered, 0 when none is.  last says that the
\* third element of an unsubscribe reply is zero.
Reply ==
    {r \in [type : ReplyTypes, id : Nat, topic : Topics \cup {Nil}, last : BOOLEAN] :
        r.type \in PubSubTypes => r.topic \in Topics}

PlainReply(type, id) == [type |-> type, id |-> id, topic |-> Nil, last |-> FALSE]

\* What a callback is given when there is no reply.
NullReply == PlainReply("null", 0)

ServerTypeOK ==
    /\ peer \in {"connecting", "up", "closed", "refused"}
    /\ wire \in Seq(Command)
    /\ sock \in Seq(Reply)
    /\ srvSubs \subseteq Topics
    /\ srvMode \in {"normal", "monitor"}
    /\ pushes \in Nat

ServerInit ==
    /\ peer = "connecting"
    /\ wire = <<>>
    /\ sock = <<>>
    /\ srvSubs = {}
    /\ srvMode = "normal"
    /\ pushes = 0

-----------------------------------------------------------------------------
Accept ==
    /\ peer = "connecting"
    /\ peer' = "up"
    /\ UNCHANGED <<wire, sock, srvSubs, srvMode, pushes>>

Refuse ==
    /\ peer = "connecting"
    /\ peer' = "refused"
    /\ UNCHANGED <<wire, sock, srvSubs, srvMode, pushes>>

\* The server accepts, sends an error that answers no command, and closes.
Reject ==
    /\ peer = "connecting"
    /\ peer' = "closed"
    /\ sock' = <<PlainReply("error", 0)>>
    /\ UNCHANGED <<wire, srvSubs, srvMode, pushes>>

\* One reply for each topic of a (P)UNSUBSCRIBE.
UnsubscribeReplies(c) ==
    [i \in 1 .. Len(c.topics) |->
        [type |-> "unsubscribe", id |-> c.id, topic |-> c.topics[i],
         last |-> srvSubs \subseteq {c.topics[j] : j \in 1 .. i}]]

SubscribeReplies(c) ==
    [i \in 1 .. Len(c.topics) |->
        [type |-> "subscribe", id |-> c.id, topic |-> c.topics[i], last |-> FALSE]]

TopicSet(c) == {c.topics[i] : i \in 1 .. Len(c.topics)}

Serve ==
    /\ peer = "up"
    /\ wire # <<>>
    /\ wire' = Tail(wire)
    /\ LET c == Head(wire)
       IN  \/ /\ c.kind = "subscribe"
              /\ srvSubs' = srvSubs \cup TopicSet(c)
              /\ sock' = sock \o SubscribeReplies(c)
              /\ srvMode' = srvMode
           \/ /\ c.kind = "unsubscribe"
              /\ srvSubs' = srvSubs \ TopicSet(c)
              /\ sock' = sock \o UnsubscribeReplies(c)
              /\ srvMode' = srvMode
           \/ /\ c.kind \notin {"subscribe", "unsubscribe"}
              /\ srvSubs # {}
              /\ sock' = Append(sock, PlainReply("error", c.id))
              /\ UNCHANGED <<srvSubs, srvMode>>
           \/ /\ c.kind \notin {"subscribe", "unsubscribe"}
              /\ srvSubs = {}
              /\ sock' = Append(sock, PlainReply("data", c.id))
              /\ srvMode' = IF c.kind = "monitor" THEN "monitor" ELSE srvMode
              /\ srvSubs' = srvSubs
    /\ UNCHANGED <<peer, pushes>>

\* A message for a topic, or a line of MONITOR output, which no command asked
\* for.
Push ==
    /\ peer = "up"
    /\ pushes < MaxPushes
    /\ pushes' = pushes + 1
    /\ \/ \E t \in srvSubs :
            sock' = Append(sock, [type |-> "message", id |-> 0, topic |-> t, last |-> FALSE])
       \/ /\ srvMode = "monitor"
          /\ sock' = Append(sock, PlainReply("line", 0))
    /\ UNCHANGED <<peer, wire, srvSubs, srvMode>>

\* Bytes that are not RESP, which the reader refuses (src/read.c:95-103).
Corrupt ==
    /\ peer = "up"
    /\ pushes < MaxPushes
    /\ pushes' = pushes + 1
    /\ sock' = Append(sock, PlainReply("bad", 0))
    /\ UNCHANGED <<peer, wire, srvSubs, srvMode>>

\* The peer closes; what it had sent can still be read.
Close ==
    /\ peer = "up"
    /\ peer' = "closed"
    /\ wire' = <<>>
    /\ UNCHANGED <<sock, srvSubs, srvMode, pushes>>

ServerNext == Accept \/ Refuse \/ Reject \/ Serve \/ Push \/ Corrupt \/ Close
=============================================================================
