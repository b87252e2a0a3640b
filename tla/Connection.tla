----------------------------- MODULE Connection -----------------------------
(***************************************************************************)
(* The life of one redisContext: the ways to connect (src/net.c), commands *)
(* and replies on a blocking connection, timeouts, redisReconnect and the  *)
(* two ways to free it (src/hiredis.c).                                    *)
(*                                                                         *)
(* A step is a system call with its outcome.  Descriptors are the numbers  *)
(* of the process, which the rest of the application opens and closes too. *)
(* A command and a reply have two bytes each, so that both can be cut.     *)
(***************************************************************************)
EXTENDS Integers, Sequences, FiniteSets

CONSTANTS
    MaxFd,          \* bound on descriptors; what is below 1 is taken
    MaxAddrs,       \* the addresses a name has
    REDIS_CONNECT_RETRIES,
    MaxCmds,        \* bound on commands, for each connection
    MaxReconnects,  \* bound on calls of redisReconnect
    MaxInterrupts   \* bound on system calls that a signal interrupts

ASSUME ConnectionAssumption ==
    /\ MaxFd \in Nat /\ MaxAddrs \in Nat \ {0} /\ REDIS_CONNECT_RETRIES \in Nat \ {0}
    /\ MaxCmds \in Nat /\ MaxReconnects \in Nat /\ MaxInterrupts \in Nat

VARIABLES
    c,           \* the context
    pc,          \* what it is doing: a state of a call, "idle", "new" or "freed"
    addrs,       \* the addresses of servinfo that are left
    reuses,
    owner,       \* the descriptors that are open: descriptor -> "context" or "other"
    forgotten,   \* history: descriptors that addrretry has overwritten in c->fd
    stale,       \* history: the number in c->fd is one that redisReconnect has closed
    foreign,     \* history: the values of stale when the context closed a descriptor of someone else
    sock,        \* the socket of the connection, and the server behind it
    sent,        \* history: the commands appended since the last connect
    got,         \* history: the replies returned since
    reconnects,
    interrupts

vars == <<c, pc, addrs, reuses, owner, forgotten, stale, foreign, sock, sent, got, reconnects, interrupts>>

Fds == 1 .. MaxFd

\* redisContextInit: calloc, so that fd is 0.
NewContext(blocking, source, reuse) ==
    [type |-> "tcp", blocking |-> blocking, source |-> source, reuse |-> reuse, fd |-> 0,
     err |-> "none", connected |-> FALSE, obuf |-> <<>>, reader |-> <<>>]

\* bad are the commands that the server answers with bytes that are not RESP.
NoSocket ==
    [open |-> FALSE, timeout |-> FALSE, in |-> <<>>, out |-> <<>>, bad |-> {}, closed |-> FALSE]

\* redisConnect, redisConnectNonBlock, redisConnectUnix and redisConnectUnixNonBlock;
\* redisConnectBindNonBlock and redisConnectBindNonBlockWithReuse.
Kinds ==
    [unix : BOOLEAN, blocking : BOOLEAN, source : {FALSE}, reuse : {FALSE}]
    \cup [unix : {FALSE}, blocking : {FALSE}, source : {TRUE}, reuse : BOOLEAN]

Calls == {"resolve", "socket", "unixSocket", "setup", "unixSetup", "connect", "wait", "finish",
          "reader", "write", "read"}

Bytes == [cmd : 1 .. MaxCmds, half : {1, 2}]

\* Every variable holds a value of its C type.
TypeOK ==
    /\ c.fd \in Fds \cup {0, -1}
    /\ c.err \in {"none", "IO", "EOF", "OTHER", "TIMEOUT", "PROTOCOL"}
    /\ c.obuf \in Seq(Bytes)
    /\ c.reader \in Seq(Bytes)
    /\ pc \in Calls \cup {"idle", "new", "newUnix", "freed"}
    /\ addrs \in 0 .. MaxAddrs
    /\ reuses \in 0 .. REDIS_CONNECT_RETRIES
    /\ DOMAIN owner \subseteq Fds
    /\ forgotten \subseteq Fds
    /\ sock.in \in Seq(Bytes)
    /\ sock.out \in Seq(Bytes)
    /\ sock.bad \subseteq 1 .. MaxCmds
    /\ stale \in BOOLEAN
    /\ foreign \subseteq BOOLEAN
    /\ reconnects \in 0 .. MaxReconnects
    /\ interrupts \in 0 .. MaxInterrupts

Init ==
    /\ \E k \in Kinds :
          /\ c = NewContext(k.blocking, k.source, k.reuse)
          /\ pc = IF k.unix THEN "newUnix" ELSE "new"
    /\ addrs = 0
    /\ reuses = 0
    /\ owner = <<>>
    /\ forgotten = {}
    /\ stale = FALSE
    /\ foreign = {}
    /\ sock = NoSocket
    /\ sent = <<>>
    /\ got = <<>>
    /\ reconnects = 0
    /\ interrupts = 0

-----------------------------------------------------------------------------
(* Descriptors. *)

Free == Fds \ DOMAIN owner

Lowest == CHOOSE f \in Free : \A g \in Free : f <= g

Opened(who) == [f \in DOMAIN owner \cup {Lowest} |-> IF f = Lowest THEN who ELSE owner[f]]

\* close(fd), by the context.
Closes(fd) ==
    /\ owner' = [f \in DOMAIN owner \ {fd} |-> owner[f]]
    /\ foreign' = foreign \cup (IF fd \in DOMAIN owner /\ owner[fd] # "context" THEN {stale} ELSE {})

\* The rest of the application opens a file, or closes one of its own.
OtherOpens ==
    /\ pc = "idle"
    /\ Free # {}
    /\ \A f \in DOMAIN owner : owner[f] # "other"
    /\ owner' = Opened("other")
    /\ UNCHANGED <<c, pc, addrs, reuses, forgotten, stale, foreign, sock, sent, got, reconnects, interrupts>>

OtherCloses ==
    /\ pc = "idle"
    /\ \E fd \in DOMAIN owner :
          owner[fd] = "other" /\ owner' = [f \in DOMAIN owner \ {fd} |-> owner[f]]
    /\ UNCHANGED <<c, pc, addrs, reuses, forgotten, stale, foreign, sock, sent, got, reconnects, interrupts>>

-----------------------------------------------------------------------------
(* redisConnect and its family, and redisReconnect. *)

Connect ==
    /\ \/ pc = "new" /\ pc' = "resolve"
       \/ pc = "newUnix" /\ pc' = "unixSocket"
    /\ addrs' = 1
    /\ UNCHANGED <<c, reuses, owner, forgotten, stale, foreign, sock, sent, got, reconnects, interrupts>>

\* Mutant: the reader keeps what it has of a reply.
ReconnectedReader == [c EXCEPT !.err = "none", !.obuf = <<>>]

\* What redisReconnect resets: c->fd keeps the number that was closed.
Reconnected == [c EXCEPT !.err = "none", !.obuf = <<>>, !.reader = <<>>]

\* c->connection_type is that of the last connect that got far enough to set it:
\* a unix context whose first connect got no socket is connected over TCP, to no host.
Reconnect ==
    /\ pc = "idle"
    /\ reconnects < MaxReconnects
    /\ IF c.fd > 0 THEN Closes(c.fd) ELSE UNCHANGED <<owner, foreign>>
    /\ stale' = (c.fd > 0)
    /\ c' = Reconnected
    /\ pc' = IF c.type = "tcp" THEN "resolve" ELSE "unixSocket"
    /\ addrs' = 1
    /\ reuses' = 0
    /\ sock' = NoSocket
    /\ sent' = <<>>
    /\ got' = <<>>
    /\ reconnects' = reconnects + 1
    /\ UNCHANGED <<forgotten, interrupts>>

\* Mutant: the descriptor keeps its number when it is closed.
FdResetNot(x) == x

\* What redisContextCloseFd does to the context, besides the close.
FdReset(x) == [x EXCEPT !.fd = -1]

\* The call that connects returns with an error, and leaves c->fd as it is.
Fails(err) ==
    /\ c' = [c EXCEPT !.err = err]
    /\ pc' = "idle"
    /\ UNCHANGED <<owner, stale, foreign>>

\* It returns with an error, and closes the socket.
FailsAndCloses(err) ==
    /\ c' = FdReset([c EXCEPT !.err = err])
    /\ Closes(c.fd)
    /\ pc' = "idle"
    /\ UNCHANGED stale

\* getaddrinfo, for IPv4 and then for IPv6.
Resolve ==
    /\ pc = "resolve"
    /\ \/ /\ pc' = "socket"
          /\ addrs' \in 1 .. MaxAddrs
          /\ UNCHANGED <<c, owner, stale, foreign>>
       \/ /\ Fails("OTHER")
          /\ UNCHANGED addrs
    /\ UNCHANGED <<reuses, forgotten, sock, sent, got, reconnects, interrupts>>

\* socket(2).  Over TCP the next address is tried when it fails, until none is left.
Socket ==
    /\ pc \in {"socket", "unixSocket"}
    /\ \/ /\ addrs > 0
          /\ Free # {}
          /\ owner' = Opened("context")
          /\ c' = [c EXCEPT !.fd = Lowest]
          /\ stale' = FALSE
          /\ forgotten' = forgotten \ {Lowest}
          /\ pc' = IF pc = "socket" THEN "setup" ELSE "unixSetup"
          /\ UNCHANGED <<addrs, foreign>>
       \/ /\ pc = "socket"
          /\ addrs > 0
          /\ addrs' = addrs - 1
          /\ UNCHANGED <<c, pc, owner, stale, foreign, forgotten>>
       \/ /\ \/ pc = "unixSocket" /\ Fails("IO")
             \/ pc = "socket" /\ addrs = 0 /\ Fails("OTHER")
          /\ UNCHANGED <<addrs, forgotten>>
    /\ UNCHANGED <<reuses, sock, sent, got, reconnects, interrupts>>

\* redisSetBlocking(c,0), after which a unix context has its type, and the bind to
\* the source address.  SO_REUSEADDR fails without an error.
Setup ==
    /\ pc \in {"setup", "unixSetup"}
    /\ \/ /\ c' = [c EXCEPT !.type = IF pc = "setup" THEN "tcp" ELSE "unix"]
          /\ pc' = "connect"
          /\ UNCHANGED <<owner, stale, foreign>>
       \/ FailsAndCloses("IO")
       \/ pc = "setup" /\ c.source /\ Fails("OTHER")
       \/ pc = "setup" /\ c.reuse /\ Fails("none")
    /\ UNCHANGED <<addrs, reuses, forgotten, sock, sent, got, reconnects, interrupts>>

\* EHOSTUNREACH: the next address.
Unreachable ==
    /\ c.type = "tcp"
    /\ c' = FdReset(c)
    /\ Closes(c.fd)
    /\ pc' = "socket"
    /\ addrs' = addrs - 1
    /\ UNCHANGED <<reuses, stale, forgotten>>

\* EADDRNOTAVAIL where addresses are reused: again, with another socket; the
\* last time the call fails, without an error.
NotAvailable ==
    /\ c.reuse
    /\ reuses' = reuses + 1
    /\ IF reuses' >= REDIS_CONNECT_RETRIES
       THEN Fails("none") /\ UNCHANGED forgotten
       ELSE /\ forgotten' = forgotten \cup {c.fd}
            /\ pc' = "socket"
            /\ UNCHANGED <<c, owner, stale, foreign>>
    /\ UNCHANGED addrs

\* connect(2)
ConnectCall ==
    /\ pc = "connect"
    /\ \/ pc' = "finish" /\ UNCHANGED <<c, owner, stale, foreign, addrs, reuses, forgotten>>
       \/ pc' = "wait" /\ UNCHANGED <<c, owner, stale, foreign, addrs, reuses, forgotten>>
       \/ Unreachable
       \/ NotAvailable
    /\ UNCHANGED <<sock, sent, got, reconnects, interrupts>>

\* redisContextWaitReady: the connection is there in time; or the call fails, at
\* once, in poll or by the timeout, and closes; or the socket has an error.
WaitReady ==
    /\ pc = "wait"
    /\ \/ c.blocking /\ pc' = "finish" /\ UNCHANGED <<c, owner, stale, foreign>>
       \/ FailsAndCloses("IO")
       \/ c.blocking /\ Fails("IO")
    /\ UNCHANGED <<addrs, reuses, forgotten, sock, sent, got, reconnects, interrupts>>

\* redisSetBlocking(c,1) and redisSetTcpNoDelay.
Finish ==
    /\ pc = "finish"
    /\ \/ /\ c' = [c EXCEPT !.connected = TRUE]
          /\ pc' = "idle"
          /\ sock' = [NoSocket EXCEPT !.open = TRUE]
          /\ UNCHANGED <<owner, stale, foreign>>
       \/ /\ c.blocking \/ c.type = "tcp"
          /\ FailsAndCloses("IO")
          /\ UNCHANGED sock
    /\ UNCHANGED <<addrs, reuses, forgotten, sent, got, reconnects, interrupts>>

-----------------------------------------------------------------------------
(* The other calls. *)

\* redisSetTimeout; the option is one of the socket.
SetTimeout ==
    /\ pc = "idle"
    /\ c.blocking
    /\ \/ sock.open /\ sock' = [sock EXCEPT !.timeout = TRUE] /\ UNCHANGED c
       \/ c' = [c EXCEPT !.err = "IO"] /\ UNCHANGED sock
    /\ UNCHANGED <<pc, addrs, reuses, owner, forgotten, stale, foreign, sent, got, reconnects, interrupts>>

\* redisAppendCommand, also after an error.
AppendCommand ==
    /\ pc = "idle"
    /\ Len(sent) < MaxCmds
    /\ LET k == Len(sent) + 1
       IN  /\ sent' = Append(sent, k)
           /\ c' = [c EXCEPT !.obuf = @ \o <<[cmd |-> k, half |-> 1], [cmd |-> k, half |-> 2]>>]
    /\ UNCHANGED <<pc, addrs, reuses, owner, forgotten, stale, foreign, sock, got, reconnects, interrupts>>

\* redisGetReply
GetReply ==
    /\ pc = "idle"
    /\ pc' = "reader"
    /\ UNCHANGED <<c, addrs, reuses, owner, forgotten, stale, foreign, sock, sent, got, reconnects, interrupts>>

\* redisGetReplyFromReader: a reply is there, and is returned.
Reply(reader) == Len(reader) >= 2

\* The bytes are no reply; the reader keeps its error.
Illegal(reader) == reader # <<>> /\ reader[1].cmd \in sock.bad

\* Returns the reply of which r is the rest.
Returns(r) ==
    /\ c' = [c EXCEPT !.reader = SubSeq(r, 3, Len(r))]
    /\ got' = Append(got, IF r[1].cmd = r[2].cmd /\ r[1].half < r[2].half THEN r[1].cmd ELSE 0)
    /\ pc' = "idle"

Fail(err) == c' = [c EXCEPT !.err = err] /\ pc' = "idle"

\* A reply that was read before, or none.
TryReader ==
    /\ pc = "reader"
    /\ \/ /\ Illegal(c.reader)
          /\ Fail("PROTOCOL")
          /\ UNCHANGED got
       \/ /\ Reply(c.reader)
          /\ ~Illegal(c.reader)
          /\ Returns(c.reader)
       \/ /\ ~Reply(c.reader)
          /\ ~Illegal(c.reader)
          /\ pc' = IF c.blocking THEN "write" ELSE "idle"
          /\ UNCHANGED <<c, got>>
    /\ UNCHANGED <<addrs, reuses, owner, forgotten, stale, foreign, sock, sent, reconnects, interrupts>>

\* Mutant: an error is forgotten when the next call is made.
MayTransferAgain == TRUE

\* Bytes are read and written as long as the context has seen no error.
MayTransfer == c.err = "none"

\* A call is interrupted, and made again.
Interrupted ==
    /\ pc \in {"write", "read"}
    /\ MayTransfer
    /\ interrupts < MaxInterrupts
    /\ interrupts' = interrupts + 1
    /\ UNCHANGED <<c, pc, addrs, reuses, owner, forgotten, stale, foreign, sock, sent, got, reconnects>>

\* The calls that the error of an earlier one ends.
EarlyReturn ==
    /\ pc \in {"write", "read"}
    /\ ~MayTransfer
    /\ pc' = "idle"
    /\ UNCHANGED <<c, addrs, reuses, owner, forgotten, stale, foreign, sock, sent, got, reconnects, interrupts>>

\* The other end is there.
Connected == sock.open /\ ~sock.closed

\* redisBufferWrite, until the buffer is empty.  What is written to a socket that
\* the server has closed is lost, or the write fails.
BufferWrite ==
    /\ pc = "write"
    /\ MayTransfer
    /\ \/ c.obuf = <<>> /\ pc' = "read" /\ UNCHANGED <<c, sock>>
       \/ \E n \in 1 .. Len(c.obuf) :
             /\ sock.open
             /\ c' = [c EXCEPT !.obuf = SubSeq(@, n + 1, Len(@))]
             /\ sock' = [sock EXCEPT !.in = @ \o SubSeq(c.obuf, 1, n)]
             /\ UNCHANGED pc
       \/ c.obuf # <<>> /\ sock.timeout /\ Fail("TIMEOUT") /\ UNCHANGED sock
       \/ c.obuf # <<>> /\ ~Connected /\ Fail("IO") /\ UNCHANGED sock
    /\ UNCHANGED <<addrs, reuses, owner, forgotten, stale, foreign, sent, got, reconnects, interrupts>>

\* Mutant: the timeout is taken for a reason to try again.
ReadTimeoutAgain == FALSE

\* The receive timeout ends the read.
ReadTimeout == sock.timeout /\ sock.out = <<>>

\* redisBufferRead, until there is a reply.
BufferRead ==
    /\ pc = "read"
    /\ MayTransfer
    /\ \/ \E n \in 1 .. Len(sock.out) :
             LET r == c.reader \o SubSeq(sock.out, 1, n)
             IN  /\ sock' = [sock EXCEPT !.out = SubSeq(@, n + 1, Len(@))]
                 /\ \/ /\ Illegal(r)
                       /\ c' = [c EXCEPT !.reader = r, !.err = "PROTOCOL"]
                       /\ pc' = "idle"
                       /\ UNCHANGED got
                    \/ Reply(r) /\ ~Illegal(r) /\ Returns(r)
                    \/ /\ ~Reply(r) /\ ~Illegal(r)
                       /\ c' = [c EXCEPT !.reader = r]
                       /\ UNCHANGED <<got, pc>>
       \/ ReadTimeout /\ Fail("TIMEOUT") /\ UNCHANGED <<sock, got>>
       \/ sock.closed /\ sock.out = <<>> /\ Fail("EOF") /\ UNCHANGED <<sock, got>>
       \/ ~Connected /\ Fail("IO") /\ UNCHANGED <<sock, got>>
    /\ UNCHANGED <<addrs, reuses, owner, forgotten, stale, foreign, sent, reconnects, interrupts>>

\* redisFree
FreeContext ==
    /\ pc = "idle"
    /\ IF c.fd > 0 THEN Closes(c.fd) ELSE UNCHANGED <<owner, foreign>>
    /\ pc' = "freed"
    /\ sock' = NoSocket
    /\ UNCHANGED <<c, addrs, reuses, forgotten, stale, sent, got, reconnects, interrupts>>

\* redisFreeKeepFd: the descriptor belongs to the caller from now on.
FreeKeepFd ==
    /\ pc = "idle"
    /\ owner' = [f \in DOMAIN owner |-> IF f = c.fd THEN "other" ELSE owner[f]]
    /\ c' = [c EXCEPT !.fd = -1]
    /\ pc' = "freed"
    /\ UNCHANGED <<addrs, reuses, forgotten, stale, foreign, sock, sent, got, reconnects, interrupts>>

-----------------------------------------------------------------------------
(* The server (external): it answers commands in order, not always in RESP, and   *)
(* may go away.                                                            *)

Serve ==
    /\ Len(sock.in) >= 2
    /\ ~sock.closed
    /\ \E bad \in {sock.bad, sock.bad \cup {sock.in[1].cmd}} :
          sock' = [sock EXCEPT !.in = SubSeq(@, 3, Len(@)), !.out = @ \o SubSeq(sock.in, 1, 2),
                               !.bad = bad]
    /\ UNCHANGED <<c, pc, addrs, reuses, owner, forgotten, stale, foreign, sent, got, reconnects, interrupts>>

ServerCloses ==
    /\ sock.open
    /\ ~sock.closed
    /\ sock' = [sock EXCEPT !.closed = TRUE]
    /\ UNCHANGED <<c, pc, addrs, reuses, owner, forgotten, stale, foreign, sent, got, reconnects, interrupts>>

-----------------------------------------------------------------------------
InCall ==
    \/ Resolve \/ Socket \/ Setup \/ ConnectCall \/ WaitReady \/ Finish
    \/ TryReader \/ Interrupted \/ EarlyReturn \/ BufferWrite \/ BufferRead

Next ==
    \/ Connect \/ Reconnect \/ SetTimeout \/ AppendCommand \/ GetReply \/ FreeContext \/ FreeKeepFd
    \/ InCall
    \/ OtherOpens \/ OtherCloses
    \/ Serve \/ ServerCloses

Spec == Init /\ [][Next]_vars

\* A call goes on as long as its system calls return.
FairSpec == Spec /\ WF_vars(InCall)

-----------------------------------------------------------------------------
(* Properties *)

\* redisGetReply returns whole replies, and the k-th since the last connect is
\* the reply to the k-th command since then: what a reply of an earlier
\* connection has left, in the reader or on the way, is never taken for one.
RightReply == \A k \in DOMAIN got : got[k] = k

\* Every variable has its type.  The context closes a descriptor that belongs to
\* someone else only by a number that redisReconnect has closed before, when it
\* failed without a new socket; any other failure, in whichever call, leaves c->fd
\* -1 or the context's own.  The descriptors the context has open are the one in
\* c->fd and those that addrretry has forgotten; when it is freed, only the
\* forgotten ones are left.
FdsOwned ==
    /\ TypeOK
    /\ foreign \subseteq {TRUE}
    /\ \A f \in DOMAIN owner :
          owner[f] = "context" => f \in forgotten \/ (f = c.fd /\ pc # "freed")

\* redisFree and redisReconnect close the socket of the context (README.md:184),
\* never a descriptor that the rest of the application was given.
ClosesItsSocket == foreign = {}

\* After an error nothing is read from the socket and nothing written to it until
\* the context is connected again.
ErrorIsFinal ==
    [][c.err # "none" /\ c'.err # "none" =>
        Len(c'.obuf) >= Len(c.obuf) /\ Len(c'.reader) <= Len(c.reader)]_vars

\* A call that connects returns; a call that reads and writes returns if the socket
\* has a timeout, whatever the server does, signals or not.
CallsReturn == (pc \in Calls /\ (sock.timeout \/ pc \notin {"reader", "write", "read"})) ~> pc \notin Calls
=============================================================================
