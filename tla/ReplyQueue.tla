----------------------------- MODULE ReplyQueue -----------------------------
(***************************************************************************)
(* What an asynchronous connection promises to an application that issues  *)
(* regular commands: a queue.  The callbacks of the commands run in order, *)
(* each once; each is given the reply to its own command, until, from some *)
(* command on, all of them are given NULL; and when the connection is gone *)
(* none is left behind.  A command without a callback takes its place in   *)
(* the queue and leaves it without a trace.  A server that turns the       *)
(* client away at once may give the first callback its refusal in place of *)
(* a reply.                                                                *)
(***************************************************************************)
EXTENDS Naturals, Sequences

VARIABLES
    accepted,   \* the number of commands accepted
    mute,       \* those that have no callback
    pending,    \* those that wait for an answer
    delivered,  \* what the callbacks were given, in the order in which they ran
    gone        \* the connection is gone

queueVars == <<accepted, mute, pending, delivered, gone>>

QueueInit ==
    /\ accepted = 0
    /\ mute = {}
    /\ pending = <<>>
    /\ delivered = <<>>
    /\ gone = FALSE

\* The first NULL ends the replies.
Ended == \E i \in 1 .. Len(delivered) : delivered[i].answer = "null"

\* A command is accepted, with or without a callback.
Accept ==
    /\ ~gone
    /\ ~Ended
    /\ accepted' = accepted + 1
    /\ mute' = mute \/ mute' = mute \cup {accepted'}
    /\ pending' = Append(pending, accepted')
    /\ UNCHANGED <<delivered, gone>>

Deliver(answer) ==
    /\ ~gone
    /\ pending # <<>>
    /\ Head(pending) \notin mute
    /\ pending' = Tail(pending)
    /\ delivered' = Append(delivered, [id |-> Head(pending), answer |-> answer])
    /\ UNCHANGED <<accepted, mute, gone>>

Reply ==
    /\ ~Ended
    /\ \/ Deliver("own")
       \/ pending # <<>> /\ Head(pending) = 1 /\ Deliver("refusal")

Null == Deliver("null")

\* The turn of a command that has no callback.
Skip ==
    /\ ~gone
    /\ pending # <<>>
    /\ Head(pending) \in mute
    /\ pending' = Tail(pending)
    /\ UNCHANGED <<accepted, mute, delivered, gone>>

Vanish ==
    /\ ~gone
    /\ pending = <<>>
    /\ gone' = TRUE
    /\ UNCHANGED <<accepted, mute, pending, delivered>>

QueueNext == Accept \/ Reply \/ Null \/ Skip \/ Vanish

QueueSpec == QueueInit /\ [][QueueNext]_queueVars
=============================================================================
