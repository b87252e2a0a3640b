-------------------------- MODULE ConnectionProofs --------------------------
(***************************************************************************)
(* What a redisContext promises for every number of descriptors, addresses,*)
(* commands and reconnects: it closes its own descriptors only, replies    *)
(* match commands, and an error is final.                                  *)
(***************************************************************************)
EXTENDS Connection, SequenceFacts

-----------------------------------------------------------------------------
(* The descriptor that open(2) and socket(2) return. *)

LEMMA LowestFree ==
    ASSUME Free # {}
    PROVE  Lowest \in Fds /\ Lowest \notin DOMAIN owner
<1>1. Free \in SUBSET Nat
  BY ConnectionAssumption DEF Free, Fds
<1>2. \E f \in Free : \A g \in Free : f <= g
  BY <1>1, Least
<1>3. Lowest \in Free
  BY <1>2 DEF Lowest
<1> QED BY <1>3 DEF Free
-----------------------------------------------------------------------------
(* The invariant of descriptors. *)

ContextType ==
    [type : {"tcp", "unix"}, blocking : BOOLEAN, source : BOOLEAN, reuse : BOOLEAN, fd : Fds \cup {0, -1},
     err : {"none", "IO", "EOF", "OTHER", "TIMEOUT", "PROTOCOL"}, connected : BOOLEAN,
     obuf : Seq(Bytes), reader : Seq(Bytes)]

SocketType ==
    [open : BOOLEAN, timeout : BOOLEAN, in : Seq(Bytes), out : Seq(Bytes),
     bad : SUBSET (1 .. MaxCmds), closed : BOOLEAN]

Typed ==
    /\ c \in ContextType
    /\ sock \in SocketType
    /\ pc \in Calls \cup {"idle", "new", "newUnix", "freed"}
    /\ addrs \in 0 .. MaxAddrs
    /\ reuses \in 0 .. REDIS_CONNECT_RETRIES
    /\ DOMAIN owner \subseteq Fds
    /\ forgotten \subseteq Fds
    /\ stale \in BOOLEAN
    /\ foreign \subseteq BOOLEAN
    /\ reconnects \in 0 .. MaxReconnects
    /\ interrupts \in 0 .. MaxInterrupts
    /\ sent \in Seq(Nat)
    /\ got \in Seq(Nat)

\* The calls that have not created a socket yet, those that have, and the others.
Creating == {"new", "newUnix", "resolve", "socket", "unixSocket"}
Attached == {"setup", "unixSetup", "connect", "wait", "finish"}
Using == {"idle", "reader", "write", "read"}

Owns(fd) == fd \in DOMAIN owner /\ owner[fd] = "context"

\* The number in c->fd is that of a descriptor of the context, or none, or one that
\* redisReconnect has closed; a call that has created a socket has overwritten it.
Numbered ==
    /\ pc \in Attached => Owns(c.fd) /\ ~stale
    /\ pc \in Using \cup Creating /\ c.fd > 0 /\ ~stale => Owns(c.fd)

\* The context knows the descriptors it has open, but for those of addrretry.
Known ==
    /\ foreign \subseteq {TRUE}
    /\ \A f \in DOMAIN owner : owner[f] = "context" => f \in forgotten \/ f = c.fd
    /\ pc \in Creating \cup {"freed"} =>
          \A f \in DOMAIN owner : owner[f] = "context" => f \in forgotten

\* A socket that is being connected has a number, an address, and a retry left.
Tries ==
    /\ pc \in Attached => addrs > 0 /\ c.fd \in Fds
    /\ pc \in Creating \cup Attached => reuses < REDIS_CONNECT_RETRIES

FdInv == Typed /\ Numbered /\ Known /\ Tries

-----------------------------------------------------------------------------
(* The invariant of replies. *)

\* The place of a byte among those of the commands since the last connect.
Position(b) == 2 * (b.cmd - 1) + b.half

\* The bytes of s follow the first o.
From(s, o) == \A i \in 1 .. Len(s) : Position(s[i]) = o + i

\* After g replies were returned and n commands given, the bytes of the others are
\* in the reader, on their way back, on their way to the server, or in the output
\* buffer, in order and complete.
Streams(g, reader, out, in, obuf, n) ==
    LET o1 == 2 * g
        o2 == o1 + Len(reader)
        o3 == o2 + Len(out)
        o4 == o3 + Len(in)
    IN  /\ From(reader, o1)
        /\ From(out, o2)
        /\ From(in, o3)
        /\ From(obuf, o4)
        /\ o4 + Len(obuf) = 2 * n

Stream == Streams(Len(got), c.reader, sock.out, sock.in, c.obuf, Len(sent))

StreamInv ==
    /\ RightReply
    /\ pc # "freed" => Stream
    /\ pc \in Creating \cup Attached => sock = NoSocket

-----------------------------------------------------------------------------
(* Types. *)

Counted == Typed /\ Tries

LEMMA TypedInit == Init => Counted
<1> SUFFICES ASSUME Init PROVE Counted
  OBVIOUS
<1>1. PICK k \in Kinds : /\ c = NewContext(k.blocking, k.source, k.reuse)
                         /\ pc = IF k.unix THEN "newUnix" ELSE "new"
  BY DEF Init
<1>2. k.blocking \in BOOLEAN /\ k.source \in BOOLEAN /\ k.reuse \in BOOLEAN
  BY DEF Kinds
<1>3. <<>> \in Seq(Bytes) /\ <<>> \in Seq(Nat)
  OBVIOUS
<1>4. c \in ContextType
  BY <1>1, <1>2, <1>3 DEF ContextType, NewContext
<1>5. sock \in SocketType
  BY <1>3 DEF Init, SocketType, NoSocket
<1>6. DOMAIN owner \subseteq Fds
  BY DEF Init
<1>7. stale \in BOOLEAN /\ foreign \subseteq BOOLEAN
  BY Zenon DEF Init
<1>8. Typed
  BY <1>1, <1>3, <1>4, <1>5, <1>6, <1>7, ConnectionAssumption DEF Init, Typed
<1> QED BY <1>1, <1>8, ConnectionAssumption DEF Counted, Tries, Creating, Attached, Init

\* What the calls that end a connect do to the types.
LEMMA ClosedType ==
    ASSUME Typed, NEW fd, Closes(fd)
    PROVE  DOMAIN owner' \subseteq Fds /\ foreign' \subseteq BOOLEAN
  BY DEF Typed, Closes

LEMMA FailsType ==
    ASSUME Typed, NEW err \in {"none", "IO", "EOF", "OTHER", "TIMEOUT"},
           Fails(err) \/ FailsAndCloses(err)
    PROVE  /\ c' \in ContextType /\ pc' = "idle" /\ DOMAIN owner' \subseteq Fds
           /\ stale' = stale /\ foreign' \subseteq BOOLEAN
<1>1. CASE Fails(err)
  BY <1>1 DEF Fails, Typed, ContextType
<1>2. CASE FailsAndCloses(err)
  <2>1. c' \in ContextType /\ pc' = "idle" /\ stale' = stale
    BY <1>2 DEF FailsAndCloses, FdReset, Typed, ContextType
  <2>2. DOMAIN owner' \subseteq Fds /\ foreign' \subseteq BOOLEAN
    BY <1>2, ClosedType DEF FailsAndCloses
  <2> QED BY <2>1, <2>2
<1> QED BY <1>1, <1>2

LEMMA OpenedType ==
    ASSUME Typed, Free # {}, NEW who, owner' = Opened(who)
    PROVE  DOMAIN owner' \subseteq Fds /\ Lowest \in Fds
  BY LowestFree DEF Typed, Opened

LEMMA NoSocketType == NoSocket \in SocketType
<1>1. <<>> \in Seq(Bytes)
  OBVIOUS
<1> QED BY <1>1 DEF NoSocket, SocketType

LEMMA ReturnsType ==
    ASSUME Typed, NEW r \in Seq(Bytes), Reply(r), Returns(r)
    PROVE  c' \in ContextType /\ got' \in Seq(Nat) /\ pc' = "idle"
<1>1. Len(r) \in Nat /\ Len(r) >= 2
  BY DEF Reply
<1>2. SubSeq(r, 3, Len(r)) \in Seq(Bytes)
  BY <1>1, SubSeqType
<1>3. c' \in ContextType
  BY <1>2 DEF Returns, Typed, ContextType
<1>4. r[1] \in Bytes
  BY <1>1, ElementType
<1>5. (IF r[1].cmd = r[2].cmd /\ r[1].half < r[2].half THEN r[1].cmd ELSE 0) \in Nat
  BY <1>4, ConnectionAssumption DEF Bytes
<1>6. got' \in Seq(Nat)
  BY <1>5, AppendType DEF Returns, Typed
<1> QED BY <1>3, <1>6 DEF Returns

-----------------------------------------------------------------------------
(* One lemma for each group of actions. *)

\* The variables that the calls which connect leave alone.
LEMMA ConnectTyped ==
    ASSUME Counted, Connect \/ Reconnect \/ Resolve \/ Socket \/ Setup
    PROVE  Counted'
<1> USE ConnectionAssumption DEF Counted, Typed, Tries, Creating, Attached, Calls
<1>1. CASE Connect
  BY <1>1 DEF Connect
<1>2. CASE Reconnect
  <2>1. <<>> \in Seq(Bytes) /\ <<>> \in Seq(Nat)
    OBVIOUS
  <2>2. c' \in ContextType
    BY <1>2, <2>1 DEF Reconnect, Reconnected, ContextType
  <2>3. sock' \in SocketType
    BY <1>2, NoSocketType DEF Reconnect
  <2>4. DOMAIN owner' \subseteq Fds /\ foreign' \subseteq BOOLEAN
    BY <1>2, ClosedType DEF Reconnect
  <2>5. stale' \in BOOLEAN
    BY <1>2 DEF Reconnect
  <2> QED BY <1>2, <2>1, <2>2, <2>3, <2>4, <2>5 DEF Reconnect
<1>3. CASE Resolve
  <2>1. CASE pc' = "socket" /\ addrs' \in 1 .. MaxAddrs /\ UNCHANGED <<c, owner, stale, foreign>>
    BY <1>3, <2>1 DEF Resolve
  <2>2. CASE Fails("OTHER") /\ UNCHANGED addrs
    <3>1. /\ c' \in ContextType /\ pc' = "idle" /\ DOMAIN owner' \subseteq Fds
          /\ stale' = stale /\ foreign' \subseteq BOOLEAN
      BY <2>2, FailsType
    <3> QED BY <1>3, <2>2, <3>1 DEF Resolve
  <2> QED BY <1>3, <2>1, <2>2 DEF Resolve
<1>4. CASE Socket
  <2>1. CASE /\ addrs > 0 /\ Free # {} /\ owner' = Opened("context")
             /\ c' = [c EXCEPT !.fd = Lowest] /\ stale' = FALSE /\ forgotten' = forgotten \ {Lowest}
             /\ pc' \in {"setup", "unixSetup"} /\ UNCHANGED <<addrs, foreign>>
    <3>1. DOMAIN owner' \subseteq Fds /\ Lowest \in Fds
      BY <2>1, OpenedType
    <3>2. c' \in ContextType
      BY <2>1, <3>1 DEF ContextType
    <3>3. c'.fd \in Fds
      BY <2>1, <3>1 DEF ContextType
    <3>4. stale' \in BOOLEAN
      BY Zenon, <2>1
    <3> QED BY <1>4, <2>1, <3>1, <3>2, <3>3, <3>4 DEF Socket
  <2>2. CASE addrs > 0 /\ addrs' = addrs - 1 /\ UNCHANGED <<c, pc, owner, stale, foreign, forgotten>>
    BY <1>4, <2>2 DEF Socket
  <2>3. CASE (Fails("IO") \/ Fails("OTHER")) /\ UNCHANGED <<addrs, forgotten>>
    <3>1. /\ c' \in ContextType /\ pc' = "idle" /\ DOMAIN owner' \subseteq Fds
          /\ stale' = stale /\ foreign' \subseteq BOOLEAN
      BY <2>3, FailsType
    <3> QED BY <1>4, <2>3, <3>1 DEF Socket
  <2> QED BY <1>4, <2>1, <2>2, <2>3 DEF Socket
<1>5. CASE Setup
  <2>1. CASE /\ c' = [c EXCEPT !.type = IF pc = "setup" THEN "tcp" ELSE "unix"]
             /\ pc' = "connect" /\ UNCHANGED <<owner, stale, foreign>>
    <3>1. c' \in ContextType /\ c'.fd = c.fd
      BY <2>1 DEF ContextType
    <3> QED BY <1>5, <2>1, <3>1 DEF Setup
  <2>2. CASE FailsAndCloses("IO") \/ Fails("OTHER") \/ Fails("none")
    <3>1. /\ c' \in ContextType /\ pc' = "idle" /\ DOMAIN owner' \subseteq Fds
          /\ stale' = stale /\ foreign' \subseteq BOOLEAN
      BY <2>2, FailsType
    <3> QED BY <1>5, <3>1 DEF Setup
  <2> QED BY <1>5, <2>1, <2>2 DEF Setup
<1> QED BY <1>1, <1>2, <1>3, <1>4, <1>5

LEMMA ConnectedTyped ==
    ASSUME Counted, ConnectCall \/ WaitReady \/ Finish
    PROVE  Counted'
<1> USE ConnectionAssumption DEF Counted, Typed, Tries, Creating, Attached, Calls
<1>1. CASE ConnectCall
  <2>1. CASE pc' \in {"finish", "wait"} /\ UNCHANGED <<c, owner, stale, foreign, addrs, reuses, forgotten>>
    BY <1>1, <2>1 DEF ConnectCall
  <2>2. CASE Unreachable
    <3>1. c' \in ContextType
      BY <2>2 DEF Unreachable, FdReset, ContextType
    <3>2. DOMAIN owner' \subseteq Fds /\ foreign' \subseteq BOOLEAN
      BY <2>2, ClosedType DEF Unreachable
    <3> QED BY <1>1, <2>2, <3>1, <3>2 DEF ConnectCall, Unreachable
  <2>3. CASE NotAvailable
    <3>1. CASE reuses' >= REDIS_CONNECT_RETRIES
      <4>1. Fails("none") /\ UNCHANGED forgotten
        BY <2>3, <3>1 DEF NotAvailable
      <4>2. /\ c' \in ContextType /\ pc' = "idle" /\ DOMAIN owner' \subseteq Fds
            /\ stale' = stale /\ foreign' \subseteq BOOLEAN
        BY <4>1, FailsType
      <4> QED BY <1>1, <2>3, <4>1, <4>2 DEF ConnectCall, NotAvailable
    <3>2. CASE ~(reuses' >= REDIS_CONNECT_RETRIES)
      <4>1. /\ forgotten' = forgotten \cup {c.fd} /\ pc' = "socket"
            /\ UNCHANGED <<c, owner, stale, foreign>>
        BY <2>3, <3>2 DEF NotAvailable
      <4>2. c.fd \in Fds
        BY <1>1 DEF ConnectCall
      <4> QED BY <1>1, <2>3, <3>2, <4>1, <4>2 DEF ConnectCall, NotAvailable
    <3> QED BY <3>1, <3>2
  <2> QED BY <1>1, <2>1, <2>2, <2>3 DEF ConnectCall
<1>2. CASE WaitReady
  <2>1. CASE pc' = "finish" /\ UNCHANGED <<c, owner, stale, foreign>>
    BY <1>2, <2>1 DEF WaitReady
  <2>2. CASE FailsAndCloses("IO") \/ Fails("IO")
    <3>1. /\ c' \in ContextType /\ pc' = "idle" /\ DOMAIN owner' \subseteq Fds
          /\ stale' = stale /\ foreign' \subseteq BOOLEAN
      BY <2>2, FailsType
    <3> QED BY <1>2, <3>1 DEF WaitReady
  <2> QED BY <1>2, <2>1, <2>2 DEF WaitReady
<1>3. CASE Finish
  <2>1. CASE /\ c' = [c EXCEPT !.connected = TRUE] /\ pc' = "idle"
             /\ sock' = [NoSocket EXCEPT !.open = TRUE] /\ UNCHANGED <<owner, stale, foreign>>
    <3>1. c' \in ContextType
      BY <2>1 DEF ContextType
    <3>2. sock' \in SocketType
      BY <2>1, NoSocketType DEF SocketType
    <3> QED BY <1>3, <2>1, <3>1, <3>2 DEF Finish
  <2>2. CASE FailsAndCloses("IO") /\ UNCHANGED sock
    <3>1. /\ c' \in ContextType /\ pc' = "idle" /\ DOMAIN owner' \subseteq Fds
          /\ stale' = stale /\ foreign' \subseteq BOOLEAN
      BY <2>2, FailsType
    <3> QED BY <1>3, <2>2, <3>1 DEF Finish
  <2> QED BY <1>3, <2>1, <2>2 DEF Finish
<1> QED BY <1>1, <1>2, <1>3

\* What redisGetReply does with what is in the reader after a read.
Taken(r) ==
    \/ c' = [c EXCEPT !.reader = r, !.err = "PROTOCOL"] /\ pc' = "idle" /\ got' = got
    \/ Reply(r) /\ Returns(r)
    \/ c' = [c EXCEPT !.reader = r] /\ UNCHANGED <<got, pc>>

LEMMA TransferTyped ==
    ASSUME Counted, TryReader \/ Interrupted \/ EarlyReturn \/ BufferWrite \/ BufferRead
    PROVE  Counted'
<1> USE ConnectionAssumption DEF Counted, Typed, Tries, Creating, Attached, Calls
<1>0. c.obuf \in Seq(Bytes) /\ c.reader \in Seq(Bytes) /\ sock.in \in Seq(Bytes) /\ sock.out \in Seq(Bytes)
  BY DEF ContextType, SocketType
<1>1. CASE TryReader
  <2>1. CASE Reply(c.reader) /\ Returns(c.reader)
    <3>1. c' \in ContextType /\ got' \in Seq(Nat) /\ pc' = "idle"
      BY <1>0, <2>1, ReturnsType
    <3> QED BY <1>1, <3>1 DEF TryReader
  <2>2. CASE pc' \in {"write", "idle"} /\ UNCHANGED <<c, got>>
    BY <1>1, <2>2 DEF TryReader
  <2>3. CASE Fail("PROTOCOL") /\ UNCHANGED got
    <3>1. c' \in ContextType /\ pc' = "idle"
      BY ZenonT(60), <2>3 DEF Fail, ContextType
    <3> QED BY <1>1, <2>3, <3>1 DEF TryReader
  <2> QED BY <1>1, <2>1, <2>2, <2>3 DEF TryReader
<1>2. CASE Interrupted
  BY <1>2 DEF Interrupted
<1>3. CASE EarlyReturn
  BY <1>3 DEF EarlyReturn
<1>4. CASE BufferWrite
  <2>1. CASE pc' = "read" /\ UNCHANGED <<c, sock>>
    BY SMTT(30), <1>4, <2>1 DEF BufferWrite
  <2>2. CASE \E n \in 1 .. Len(c.obuf) :
               /\ sock.open
               /\ c' = [c EXCEPT !.obuf = SubSeq(@, n + 1, Len(@))]
               /\ sock' = [sock EXCEPT !.in = @ \o SubSeq(c.obuf, 1, n)]
               /\ UNCHANGED pc
    <3>1. PICK n \in 1 .. Len(c.obuf) :
               /\ c' = [c EXCEPT !.obuf = SubSeq(@, n + 1, Len(@))]
               /\ sock' = [sock EXCEPT !.in = @ \o SubSeq(c.obuf, 1, n)]
               /\ UNCHANGED pc
      BY <2>2
    <3>2. SubSeq(c.obuf, 1, n) \in Seq(Bytes) /\ SubSeq(c.obuf, n + 1, Len(c.obuf)) \in Seq(Bytes)
      BY <1>0, CutFacts
    <3>3. sock.in \o SubSeq(c.obuf, 1, n) \in Seq(Bytes)
      BY <1>0, <3>2, ConcatType
    <3>4. c' \in ContextType
      BY <3>1, <3>2 DEF ContextType
    <3>5. sock' \in SocketType
      BY <3>1, <3>3 DEF SocketType
    <3> QED BY <1>4, <3>1, <3>4, <3>5 DEF BufferWrite
  <2>3. CASE (Fail("TIMEOUT") \/ Fail("IO")) /\ UNCHANGED sock
    <3>1. c' \in ContextType /\ pc' = "idle"
      BY ZenonT(60), <2>3 DEF Fail, ContextType
    <3> QED BY <1>4, <2>3, <3>1 DEF BufferWrite
  <2> QED BY <1>4, <2>1, <2>2, <2>3 DEF BufferWrite
<1>5. CASE BufferRead
  <2>1. CASE \E n \in 1 .. Len(sock.out) :
             LET r == c.reader \o SubSeq(sock.out, 1, n)
             IN  /\ sock' = [sock EXCEPT !.out = SubSeq(@, n + 1, Len(@))]
                 /\ Taken(r)
    <3>1. PICK n \in 1 .. Len(sock.out) :
             LET r == c.reader \o SubSeq(sock.out, 1, n)
             IN  /\ sock' = [sock EXCEPT !.out = SubSeq(@, n + 1, Len(@))]
                 /\ Taken(r)
      BY <2>1
    <3> DEFINE r == c.reader \o SubSeq(sock.out, 1, n)
    <3>2. SubSeq(sock.out, 1, n) \in Seq(Bytes) /\ SubSeq(sock.out, n + 1, Len(sock.out)) \in Seq(Bytes)
      BY <1>0, CutFacts
    <3>3. r \in Seq(Bytes)
      BY <1>0, <3>2, ConcatType
    <3>4. sock' \in SocketType
      BY <3>1, <3>2 DEF SocketType
    <3>5. c' \in ContextType /\ got' \in Seq(Nat) /\ pc' \in {"idle", "read"}
      <4> HIDE DEF r
      <4>0. Taken(r)
        BY <3>1 DEF r
      <4>1. CASE Reply(r) /\ Returns(r)
        BY <3>3, <4>1, ReturnsType
      <4>2. CASE c' = [c EXCEPT !.reader = r] /\ got' = got /\ pc' = pc
        BY <1>5, <3>3, <4>2 DEF ContextType, BufferRead
      <4>3. CASE c' = [c EXCEPT !.reader = r, !.err = "PROTOCOL"] /\ pc' = "idle" /\ got' = got
        BY <3>3, <4>3 DEF ContextType
      <4> QED BY <4>0, <4>1, <4>2, <4>3 DEF Taken
    <3> QED BY <1>5, <3>4, <3>5 DEF BufferRead
  <2>2. CASE (Fail("TIMEOUT") \/ Fail("EOF") \/ Fail("IO")) /\ UNCHANGED <<sock, got>>
    <3>1. c' \in ContextType /\ pc' = "idle"
      BY ZenonT(60), <2>2 DEF Fail, ContextType
    <3> QED BY <1>5, <2>2, <3>1 DEF BufferRead
  <2> QED BY <1>5, <2>1, <2>2 DEF BufferRead, Taken
<1> QED BY <1>1, <1>2, <1>3, <1>4, <1>5

LEMMA OtherTyped ==
    ASSUME Counted,
           \/ SetTimeout \/ AppendCommand \/ GetReply \/ FreeContext \/ FreeKeepFd
           \/ OtherOpens \/ OtherCloses \/ Serve \/ ServerCloses \/ UNCHANGED vars
    PROVE  Counted'
<1> USE ConnectionAssumption DEF Counted, Typed, Tries, Creating, Attached, Calls
<1>0. c.obuf \in Seq(Bytes) /\ c.reader \in Seq(Bytes) /\ sock.in \in Seq(Bytes) /\ sock.out \in Seq(Bytes)
  BY DEF ContextType, SocketType
<1>1. CASE SetTimeout
  <2>1. sock' \in SocketType
    BY <1>1 DEF SetTimeout, SocketType
  <2>2. c' \in ContextType
    BY <1>1 DEF SetTimeout, ContextType
  <2> QED BY <1>1, <2>1, <2>2 DEF SetTimeout
<1>2. CASE AppendCommand
  <2> DEFINE k == Len(sent) + 1
             b == <<[cmd |-> k, half |-> 1], [cmd |-> k, half |-> 2]>>
  <2>1. k \in 1 .. MaxCmds /\ k \in Nat
    BY <1>2 DEF AppendCommand
  <2>2. b \in Seq(Bytes)
    BY <2>1 DEF Bytes
  <2>3. sent' = Append(sent, k) /\ c' = [c EXCEPT !.obuf = @ \o b]
    BY <1>2 DEF AppendCommand
  <2>4. c.obuf \o b \in Seq(Bytes)
    BY <1>0, <2>2, ConcatType
  <2>5. sent' \in Seq(Nat)
    BY <2>1, <2>3, AppendType
  <2> HIDE DEF b
  <2>6. c' \in ContextType
    BY <2>3, <2>4 DEF ContextType
  <2> QED BY <1>2, <2>5, <2>6 DEF AppendCommand
<1>3. CASE GetReply
  BY <1>3 DEF GetReply
<1>4. CASE FreeContext
  <2>1. DOMAIN owner' \subseteq Fds /\ foreign' \subseteq BOOLEAN
    BY <1>4, ClosedType DEF FreeContext
  <2> QED BY <1>4, <2>1, NoSocketType DEF FreeContext
<1>5. CASE FreeKeepFd
  <2>1. c' \in ContextType
    BY <1>5 DEF FreeKeepFd, ContextType
  <2> QED BY <1>5, <2>1 DEF FreeKeepFd
<1>6. CASE OtherOpens
  <2>1. DOMAIN owner' \subseteq Fds
    BY <1>6, OpenedType DEF OtherOpens
  <2> QED BY <1>6, <2>1 DEF OtherOpens
<1>7. CASE OtherCloses
  <2>1. DOMAIN owner' \subseteq Fds
    BY <1>7 DEF OtherCloses
  <2> QED BY <1>7, <2>1 DEF OtherCloses
<1>8. CASE Serve
  <2>1. 2 \in 0 .. Len(sock.in) /\ 2 + 1 = 3
    BY <1>0, <1>8 DEF Serve
  <2>2. SubSeq(sock.in, 1, 2) \in Seq(Bytes) /\ SubSeq(sock.in, 2 + 1, Len(sock.in)) \in Seq(Bytes)
    BY <1>0, <2>1, CutFacts
  <2>3. sock.out \o SubSeq(sock.in, 1, 2) \in Seq(Bytes)
    BY <1>0, <2>2, ConcatType
  <2>4. PICK bad \in {sock.bad, sock.bad \cup {sock.in[1].cmd}} :
            sock' = [sock EXCEPT !.in = SubSeq(@, 3, Len(@)), !.out = @ \o SubSeq(sock.in, 1, 2), !.bad = bad]
    BY <1>8 DEF Serve
  <2>5. sock.in[1] \in Bytes
    BY <1>0, <2>1, ElementType
  <2>6. bad \in SUBSET (1 .. MaxCmds)
    BY <2>5 DEF SocketType, Bytes
  <2>7. sock' \in SocketType
    BY <2>1, <2>2, <2>3, <2>4, <2>6 DEF SocketType
  <2> QED BY <1>8, <2>7 DEF Serve
<1>9. CASE ServerCloses
  <2>1. sock' \in SocketType
    BY <1>9 DEF ServerCloses, SocketType
  <2> QED BY <1>9, <2>1 DEF ServerCloses
<1>10. CASE UNCHANGED vars
  BY <1>10 DEF vars
<1> QED BY <1>1, <1>2, <1>3, <1>4, <1>5, <1>6, <1>7, <1>8, <1>9, <1>10

LEMMA TypedNext == Counted /\ [Next]_vars => Counted'
  BY ConnectTyped, ConnectedTyped, TransferTyped, OtherTyped DEF Next, InCall

-----------------------------------------------------------------------------
(* Descriptors. *)

\* close(2) of the descriptor in c->fd: the context's own, or one closed before.
LEMMA CloseOwn ==
    ASSUME FdInv, Closes(c.fd), Owns(c.fd) \/ stale
    PROVE  /\ foreign' \subseteq {TRUE}
           /\ \A f \in DOMAIN owner' : owner'[f] = "context" => f \in forgotten
           /\ c.fd \notin DOMAIN owner'
<1>1. stale \in BOOLEAN
  BY DEF FdInv, Typed
<1> QED BY <1>1 DEF FdInv, Known, Closes, Owns

\* A call that connects gives up: the descriptor stays open, or is closed.
LEMMA FailsFd ==
    ASSUME FdInv, forgotten' = forgotten, NEW err, Fails(err), c.fd > 0 /\ ~stale => Owns(c.fd)
    PROVE  (Numbered /\ Known)'
<1>1. c'.fd = c.fd /\ pc' = "idle" /\ UNCHANGED <<owner, stale, foreign>>
  BY DEF Fails, FdInv, Typed, ContextType
<1> QED BY <1>1 DEF FdInv, Numbered, Known, Owns, Creating, Attached, Using

LEMMA FailsAndClosesFd ==
    ASSUME FdInv, forgotten' = forgotten, NEW err, FailsAndCloses(err), Owns(c.fd)
    PROVE  (Numbered /\ Known)'
<1>1. c'.fd = -1 /\ pc' = "idle"
  BY DEF FailsAndCloses, FdReset, FdInv, Typed, ContextType
<1>2. foreign' \subseteq {TRUE} /\ \A f \in DOMAIN owner' : owner'[f] = "context" => f \in forgotten
  BY CloseOwn DEF FailsAndCloses
<1>3. ~(c'.fd > 0) /\ pc' \notin Attached /\ pc' \notin Creating \cup {"freed"}
  BY <1>1 DEF Creating, Attached
<1> QED BY <1>2, <1>3 DEF Numbered, Known

\* The context opens no other descriptor than by socket(2), and closes none of
\* someone else's but by a stale number; the application closes none of the context's.
LEMMA FdNext ==
    ASSUME FdInv, [Next]_vars
    PROVE  (Numbered /\ Known)'
<1> USE DEF FdInv
<1>0. c.fd \in Fds \cup {0, -1} /\ \A f \in Fds : f \in Nat /\ f > 0
  BY ConnectionAssumption DEF Typed, ContextType, Fds
<1>1. CASE Connect
  BY <1>1 DEF Connect, Numbered, Known, Owns, Creating, Attached, Using
<1>2. CASE Reconnect
  <2>1. /\ c'.fd = c.fd /\ pc' \in {"resolve", "unixSocket"} /\ forgotten' = forgotten
        /\ stale' = (c.fd > 0)
    BY <1>2 DEF Reconnect, Reconnected, Typed, ContextType
  <2>2. CASE c.fd > 0
    <3>1. Owns(c.fd) \/ stale
      BY <1>2, <2>2 DEF Reconnect, Numbered, Using, Typed
    <3>2. /\ foreign' \subseteq {TRUE}
          /\ \A f \in DOMAIN owner' : owner'[f] = "context" => f \in forgotten
      BY <1>2, <2>2, <3>1, CloseOwn DEF Reconnect
    <3> QED BY <2>1, <2>2, <3>2 DEF Numbered, Known, Creating, Attached, Using
  <2>3. CASE ~(c.fd > 0)
    <3>1. owner' = owner /\ foreign' = foreign
      BY <1>2, <2>3 DEF Reconnect
    <3>2. \A f \in DOMAIN owner : f # c.fd
      BY <1>0, <2>3 DEF Typed
    <3> QED BY <2>1, <2>3, <3>1, <3>2 DEF Numbered, Known, Creating, Attached, Using
  <2> QED BY <2>2, <2>3
<1>3. CASE Resolve
  <2>0. c.fd > 0 /\ ~stale => Owns(c.fd)
    BY <1>3 DEF Resolve, Numbered, Creating
  <2>1. CASE pc' = "socket" /\ addrs' \in 1 .. MaxAddrs /\ UNCHANGED <<c, owner, stale, foreign>>
    BY <1>3, <2>1 DEF Resolve, Numbered, Known, Owns, Creating, Attached, Using
  <2>2. CASE Fails("OTHER")
    BY <1>3, <2>0, <2>2, FailsFd DEF Resolve
  <2> QED BY <1>3, <2>1, <2>2 DEF Resolve
<1>4. CASE Socket
  <2>0. c.fd > 0 /\ ~stale => Owns(c.fd)
    BY <1>4 DEF Socket, Numbered, Creating
  <2>1. CASE /\ addrs > 0 /\ Free # {} /\ owner' = Opened("context")
             /\ c' = [c EXCEPT !.fd = Lowest] /\ stale' = FALSE /\ forgotten' = forgotten \ {Lowest}
             /\ pc' \in {"setup", "unixSetup"} /\ UNCHANGED <<addrs, foreign>>
    <3>1. Lowest \in Fds /\ Lowest \notin DOMAIN owner /\ c'.fd = Lowest
      BY <2>1, LowestFree DEF Typed, ContextType
    <3>2. /\ DOMAIN owner' = DOMAIN owner \cup {Lowest}
          /\ owner'[Lowest] = "context"
          /\ \A f \in DOMAIN owner : owner'[f] = owner[f]
      BY <2>1, <3>1 DEF Opened
    <3> QED BY <1>4, <2>1, <3>1, <3>2 DEF Socket, Numbered, Known, Owns, Creating, Attached, Using
  <2>2. CASE addrs' = addrs - 1 /\ UNCHANGED <<c, pc, owner, stale, foreign, forgotten>>
    BY <2>2 DEF Numbered, Known, Owns
  <2>3. CASE (Fails("IO") \/ Fails("OTHER")) /\ UNCHANGED forgotten
    BY <2>0, <2>3, FailsFd
  <2> QED BY <1>4, <2>1, <2>2, <2>3 DEF Socket
<1>5. CASE Setup
  <2>0. Owns(c.fd) /\ ~stale
    BY <1>5 DEF Setup, Numbered, Attached
  <2>1. CASE /\ c' = [c EXCEPT !.type = IF pc = "setup" THEN "tcp" ELSE "unix"]
             /\ pc' = "connect" /\ UNCHANGED <<owner, stale, foreign>>
    <3>1. c'.fd = c.fd
      BY <2>1 DEF Typed, ContextType
    <3> QED BY <1>5, <2>0, <2>1, <3>1 DEF Setup, Numbered, Known, Owns, Creating, Attached, Using
  <2>2. CASE FailsAndCloses("IO")
    BY <1>5, <2>0, <2>2, FailsAndClosesFd DEF Setup
  <2>3. CASE Fails("OTHER") \/ Fails("none")
    BY <1>5, <2>0, <2>3, FailsFd DEF Setup
  <2> QED BY <1>5, <2>1, <2>2, <2>3 DEF Setup
<1>6. CASE ConnectCall
  <2>0. Owns(c.fd) /\ ~stale /\ addrs > 0
    BY <1>6 DEF ConnectCall, Numbered, Tries, Attached
  <2>1. CASE pc' \in {"finish", "wait"} /\ UNCHANGED <<c, owner, stale, foreign, addrs, reuses, forgotten>>
    BY <1>6, <2>0, <2>1 DEF ConnectCall, Numbered, Known, Owns, Creating, Attached, Using
  <2>2. CASE Unreachable
    <3>1. c'.fd = -1 /\ pc' = "socket" /\ forgotten' = forgotten
      BY <2>2 DEF Unreachable, FdReset, Typed, ContextType
    <3>2. foreign' \subseteq {TRUE} /\ \A f \in DOMAIN owner' : owner'[f] = "context" => f \in forgotten
      BY <2>0, <2>2, CloseOwn DEF Unreachable
    <3>3. ~(c'.fd > 0) /\ pc' \notin Attached
      BY <3>1 DEF Attached
    <3> QED BY <3>1, <3>2, <3>3 DEF Numbered, Known
  <2>3. CASE NotAvailable
    <3>1. CASE Fails("none") /\ UNCHANGED forgotten
      BY <2>0, <3>1, FailsFd
    <3>2. CASE forgotten' = forgotten \cup {c.fd} /\ pc' = "socket" /\ UNCHANGED <<c, owner, stale, foreign>>
      BY <2>0, <3>2 DEF Numbered, Known, Owns, Creating, Attached, Using
    <3> QED BY <2>3, <3>1, <3>2 DEF NotAvailable
  <2> QED BY <1>6, <2>1, <2>2, <2>3 DEF ConnectCall
<1>7. CASE WaitReady
  <2>0. Owns(c.fd) /\ ~stale
    BY <1>7 DEF WaitReady, Numbered, Attached
  <2>1. CASE pc' = "finish" /\ UNCHANGED <<c, owner, stale, foreign>>
    BY <1>7, <2>0, <2>1 DEF WaitReady, Numbered, Known, Owns, Creating, Attached, Using
  <2>2. CASE FailsAndCloses("IO")
    BY <1>7, <2>0, <2>2, FailsAndClosesFd DEF WaitReady
  <2>3. CASE Fails("IO")
    BY <1>7, <2>0, <2>3, FailsFd DEF WaitReady
  <2> QED BY <1>7, <2>1, <2>2, <2>3 DEF WaitReady
<1>8. CASE Finish
  <2>0. Owns(c.fd) /\ ~stale
    BY <1>8 DEF Finish, Numbered, Attached
  <2>1. CASE /\ c' = [c EXCEPT !.connected = TRUE] /\ pc' = "idle" /\ UNCHANGED <<owner, stale, foreign>>
    <3>1. c'.fd = c.fd
      BY <2>1 DEF Typed, ContextType
    <3> QED BY <1>8, <2>0, <2>1, <3>1 DEF Finish, Numbered, Known, Owns, Creating, Attached, Using
  <2>2. CASE FailsAndCloses("IO")
    BY <1>8, <2>0, <2>2, FailsAndClosesFd DEF Finish
  <2> QED BY <1>8, <2>1, <2>2 DEF Finish
<1>9. CASE TryReader \/ Interrupted \/ EarlyReturn \/ BufferWrite \/ BufferRead
           \/ SetTimeout \/ AppendCommand \/ GetReply
  <2>1. c'.fd = c.fd
    <3>1. CASE TryReader \/ Interrupted \/ EarlyReturn \/ SetTimeout \/ AppendCommand \/ GetReply
      BY <3>1 DEF TryReader, Interrupted, EarlyReturn, SetTimeout, AppendCommand, GetReply, Returns, Fail,
                  Typed, ContextType
    <3>2. CASE BufferWrite
      BY <3>2 DEF BufferWrite, Fail, Typed, ContextType
    <3>3. CASE BufferRead
      BY <3>3 DEF BufferRead, Returns, Fail, Typed, ContextType
    <3> QED BY <1>9, <3>1, <3>2, <3>3
  <2>2. pc \in Using /\ pc' \in Using /\ UNCHANGED <<owner, stale, foreign, forgotten>>
    BY <1>9 DEF TryReader, Interrupted, EarlyReturn, BufferWrite, BufferRead, SetTimeout, AppendCommand,
                GetReply, Returns, Fail, Using
  <2>3. pc' \notin Attached /\ pc' \notin Creating \cup {"freed"}
    BY <2>2 DEF Creating, Attached, Using
  <2>4. Numbered'
    BY <2>1, <2>2, <2>3 DEF Numbered, Owns
  <2> QED BY <2>1, <2>2, <2>3, <2>4 DEF Known
<1>10. CASE FreeContext
  <2>1. c' = c /\ pc' = "freed" /\ forgotten' = forgotten
    BY <1>10 DEF FreeContext
  <2>2. CASE c.fd > 0
    <3>1. Owns(c.fd) \/ stale
      BY <1>10, <2>2 DEF FreeContext, Numbered, Using, Typed
    <3>2. foreign' \subseteq {TRUE} /\ \A f \in DOMAIN owner' : owner'[f] = "context" => f \in forgotten
      BY <1>10, <2>2, <3>1, CloseOwn DEF FreeContext
    <3> QED BY <2>1, <3>2 DEF Numbered, Known, Owns, Creating, Attached, Using
  <2>3. CASE ~(c.fd > 0)
    <3>1. owner' = owner /\ foreign' = foreign
      BY <1>10, <2>3 DEF FreeContext
    <3>2. \A f \in DOMAIN owner : f # c.fd
      BY <1>0, <2>3 DEF Typed
    <3> QED BY <2>1, <3>1, <3>2 DEF Numbered, Known, Creating, Attached, Using
  <2> QED BY <2>2, <2>3
<1>11. CASE FreeKeepFd
  <2>1. c'.fd = -1 /\ pc' = "freed" /\ UNCHANGED <<forgotten, stale, foreign>>
    BY <1>11 DEF FreeKeepFd, Typed, ContextType
  <2>2. \A f \in DOMAIN owner' : f \in DOMAIN owner /\ (owner'[f] = "context" => owner[f] = "context" /\ f # c.fd)
    BY <1>11 DEF FreeKeepFd
  <2> QED BY <2>1, <2>2 DEF Numbered, Known, Creating, Attached, Using
<1>12. CASE OtherOpens
  <2>1. Lowest \in Fds /\ Lowest \notin DOMAIN owner
    BY <1>12, LowestFree DEF OtherOpens
  <2>2. /\ DOMAIN owner' = DOMAIN owner \cup {Lowest}
        /\ owner'[Lowest] = "other"
        /\ \A f \in DOMAIN owner : owner'[f] = owner[f]
    BY <1>12, <2>1 DEF OtherOpens, Opened
  <2> QED BY <1>12, <2>1, <2>2 DEF OtherOpens, Numbered, Known, Owns, Creating, Attached, Using
<1>13. CASE OtherCloses
  BY <1>13 DEF OtherCloses, Numbered, Known, Owns, Creating, Attached, Using
<1>14. CASE Serve \/ ServerCloses \/ UNCHANGED vars
  <2>1. UNCHANGED <<c, pc, owner, forgotten, stale, foreign>>
    BY <1>14 DEF Serve, ServerCloses, vars
  <2> QED BY <2>1 DEF Numbered, Known, Owns
<1> QED BY <1>1, <1>2, <1>3, <1>4, <1>5, <1>6, <1>7, <1>8, <1>9, <1>10, <1>11, <1>12, <1>13, <1>14 DEF Next, InCall

\* Every variable keeps its type, and the context closes only descriptors of its
\* own and leaks none but those of addrretry (redisContextCloseFd, redisReconnect
\* and redisFree, src/net.c and src/hiredis.c), for every number of descriptors,
\* addresses and reconnects and whichever calls fail; the one exception is a number
\* that redisReconnect has closed and that no socket has replaced in c->fd.
THEOREM DescriptorsOwned == Spec => []FdsOwned
<1>1. Init => FdInv
  <2>1. Init => Numbered /\ Known
    <3> SUFFICES ASSUME Init PROVE Numbered /\ Known
      OBVIOUS
    <3>1. PICK k \in Kinds : /\ c = NewContext(k.blocking, k.source, k.reuse)
                             /\ pc = IF k.unix THEN "newUnix" ELSE "new"
      BY DEF Init
    <3>2. c.fd = 0 /\ pc \in {"new", "newUnix"} /\ DOMAIN owner = {} /\ foreign = {}
      BY <3>1 DEF Init, NewContext
    <3> QED BY <3>2 DEF Numbered, Known, Creating, Attached, Using
  <2> QED BY <2>1, TypedInit DEF FdInv, Counted
<1>2. FdInv /\ [Next]_vars => FdInv'
  BY FdNext, TypedNext DEF FdInv, Counted
<1>3. FdInv => FdsOwned
  <2> SUFFICES ASSUME FdInv PROVE FdsOwned
    OBVIOUS
  <2>1. TypeOK
    BY DEF FdInv, Typed, TypeOK, ContextType, SocketType
  <2>2. foreign \subseteq {TRUE} /\ \A f \in DOMAIN owner :
          owner[f] = "context" => f \in forgotten \/ (f = c.fd /\ pc # "freed")
    BY DEF FdInv, Known
  <2> QED BY <2>1, <2>2 DEF FdsOwned
<1> QED BY <1>1, <1>2, <1>3, PTL DEF Spec

-----------------------------------------------------------------------------
(* Replies. *)

LEMMA FromConcat ==
    ASSUME NEW s \in Seq(Bytes), NEW t \in Seq(Bytes), NEW o \in Nat,
           From(s, o), From(t, o + Len(s))
    PROVE  From(s \o t, o)
<1> DEFINE u == s \o t
<1>1. /\ Len(u) = Len(s) + Len(t)
      /\ \A i \in 1 .. Len(s) : u[i] = s[i]
      /\ \A i \in 1 .. Len(t) : u[Len(s) + i] = t[i]
  BY ConcatFacts
<1>2. Len(s) \in Nat /\ Len(t) \in Nat
  OBVIOUS
<1> HIDE DEF u
<1>3. ASSUME NEW i \in 1 .. Len(u) PROVE Position(u[i]) = o + i
  <2>1. CASE i <= Len(s)
    BY <1>1, <1>2, <2>1 DEF From
  <2>2. CASE i > Len(s)
    <3>1. PICK j \in 1 .. Len(t) : i = Len(s) + j
      <4>1. i - Len(s) \in 1 .. Len(t) /\ i = Len(s) + (i - Len(s))
        BY <1>1, <1>2, <2>2
      <4> QED BY <4>1
    <3>2. u[i] = t[j] /\ Position(t[j]) = (o + Len(s)) + j
      BY <1>1, <3>1 DEF From
    <3> QED BY <1>2, <3>1, <3>2
  <2> QED BY <1>2, <2>1, <2>2
<1> QED BY <1>3 DEF From, u

LEMMA FromCut ==
    ASSUME NEW s \in Seq(Bytes), NEW o \in Nat, NEW n \in 0 .. Len(s), From(s, o)
    PROVE  From(SubSeq(s, 1, n), o) /\ From(SubSeq(s, n + 1, Len(s)), o + n)
<1> DEFINE a == SubSeq(s, 1, n)
           b == SubSeq(s, n + 1, Len(s))
<1>1. /\ Len(a) = n /\ Len(b) = Len(s) - n
      /\ \A i \in 1 .. n : a[i] = s[i]
      /\ \A i \in 1 .. Len(s) - n : b[i] = s[n + i]
  BY CutFacts
<1>2. Len(s) \in Nat /\ n \in Nat /\ n <= Len(s)
  OBVIOUS
<1> HIDE DEF a, b
<1>3. From(a, o)
  BY <1>1, <1>2 DEF From
<1>4. ASSUME NEW i \in 1 .. Len(b) PROVE Position(b[i]) = (o + n) + i
  <2>1. n + i \in 1 .. Len(s) /\ b[i] = s[n + i]
    BY <1>1, <1>2
  <2>2. Position(s[n + i]) = o + (n + i)
    BY <2>1 DEF From
  <2> QED BY <1>2, <2>1, <2>2
<1> QED BY <1>3, <1>4 DEF From, a, b

LEMMA FromEmpty == \A o \in Nat : From(<<>>, o)
<1>1. Len(<<>>) = 0 /\ 1 .. 0 = {}
  OBVIOUS
<1> QED BY <1>1 DEF From

\* A place determines the command and the half.
LEMMA Halves ==
    ASSUME NEW a \in Nat, NEW g \in Nat, NEW h \in {1, 2}, NEW k \in {1, 2},
           2 * (a - 1) + h = 2 * g + k
    PROVE  a = g + 1 /\ h = k
<1>1. CASE h = k
  BY <1>1
<1>2. CASE h = 1 /\ k = 2
  BY <1>2
<1>3. CASE h = 2 /\ k = 1
  BY <1>3
<1> QED BY <1>1, <1>2, <1>3

\* The first reply of a stream is the reply that comes next.
LEMMA NextReply ==
    ASSUME NEW r \in Seq(Bytes), NEW g \in Nat, Reply(r), From(r, 2 * g)
    PROVE  /\ r[1].cmd = g + 1 /\ r[2].cmd = g + 1 /\ r[1].half < r[2].half
           /\ From(SubSeq(r, 3, Len(r)), 2 * (g + 1))
           /\ Len(SubSeq(r, 3, Len(r))) = Len(r) - 2
<1>1. Len(r) \in Nat /\ Len(r) >= 2 /\ 1 \in 1 .. Len(r) /\ 2 \in 1 .. Len(r) /\ 2 \in 0 .. Len(r)
  BY DEF Reply
<1>2. r[1] \in Bytes /\ r[2] \in Bytes
  BY <1>1, ElementType
<1>3. Position(r[1]) = 2 * g + 1 /\ Position(r[2]) = 2 * g + 2
  BY <1>1 DEF From
<1>4. \A k \in {1, 2} : r[k].cmd \in Nat /\ r[k].half \in {1, 2}
  BY <1>2, ConnectionAssumption DEF Bytes
<1>5. \A k \in {1, 2} : 2 * (r[k].cmd - 1) + r[k].half = 2 * g + k
  BY <1>3 DEF Position
<1>6. ASSUME NEW k \in {1, 2} PROVE r[k].cmd = g + 1 /\ r[k].half = k
  <2> DEFINE a == r[k].cmd
             h == r[k].half
  <2>1. a \in Nat /\ h \in {1, 2} /\ 2 * (a - 1) + h = 2 * g + k
    BY <1>4, <1>5
  <2> HIDE DEF a, h
  <2>2. a = g + 1 /\ h = k
    BY <2>1, Halves
  <2> QED BY <2>2 DEF a, h
<1>7. r[1].cmd = g + 1 /\ r[2].cmd = g + 1 /\ r[1].half < r[2].half
  BY <1>6
<1>8. 2 + 1 = 3 /\ 2 * g + 2 = 2 * (g + 1) /\ 2 * g \in Nat
  OBVIOUS
<1>9. From(SubSeq(r, 2 + 1, Len(r)), 2 * g + 2)
  BY <1>1, <1>8, FromCut
<1>10. Len(SubSeq(r, 2 + 1, Len(r))) = Len(r) - 2
  BY ZenonT(60), <1>1, CutFacts
<1> QED BY <1>7, <1>8, <1>9, <1>10

LEMMA Regroup ==
    ASSUME NEW o \in Nat, NEW i \in Nat, NEW j \in Nat, NEW k \in Nat, NEW l \in Nat, i + j = k + l
    PROVE  o + i + j = o + k + l
  OBVIOUS

\* Nothing is appended, sent or returned yet.
LEMMA StreamEmpty == Streams(0, <<>>, <<>>, <<>>, <<>>, 0)
<1>1. Len(<<>>) = 0 /\ 2 * 0 = 0 /\ 0 + 0 = 0 /\ 0 \in Nat
  OBVIOUS
<1> QED BY <1>1, FromEmpty DEF Streams

\* redisAppendCommand
LEMMA StreamAppend ==
    ASSUME NEW g \in Nat, NEW n \in Nat, n < MaxCmds, NEW r \in Seq(Bytes), NEW out \in Seq(Bytes),
           NEW in \in Seq(Bytes), NEW ob \in Seq(Bytes), Streams(g, r, out, in, ob, n)
    PROVE  Streams(g, r, out, in, ob \o <<[cmd |-> n + 1, half |-> 1], [cmd |-> n + 1, half |-> 2]>>, n + 1)
<1> DEFINE b == <<[cmd |-> n + 1, half |-> 1], [cmd |-> n + 1, half |-> 2]>>
           o == 2 * g + Len(r) + Len(out) + Len(in)
<1>1. /\ From(r, 2 * g) /\ From(out, 2 * g + Len(r)) /\ From(in, 2 * g + Len(r) + Len(out))
      /\ From(ob, o) /\ o + Len(ob) = 2 * n
  BY DEF Streams
<1>2. o \in Nat /\ Len(ob) \in Nat
  OBVIOUS
<1>3. b \in Seq(Bytes) /\ Len(b) = 2
  BY ConnectionAssumption DEF Bytes
<1>4. Position(b[1]) = 2 * n + 1 /\ Position(b[2]) = 2 * n + 2
  BY DEF Position
<1>5. From(b, o + Len(ob))
  <2> HIDE DEF b, o
  <2> QED BY <1>1, <1>3, <1>4 DEF From
<1>6. Len(ob \o b) = Len(ob) + Len(b)
  BY <1>3, ConcatFacts
<1> HIDE DEF b, o
<1>7. From(ob \o b, o)
  BY <1>1, <1>2, <1>3, <1>5, FromConcat
<1>8. o + Len(ob \o b) = 2 * (n + 1)
  <2> DEFINE i == Len(ob)
             j == Len(ob \o b)
  <2>1. j = i + 2 /\ i \in Nat /\ o + i = 2 * n
    BY <1>1, <1>2, <1>3, <1>6
  <2> HIDE DEF i, j
  <2>2. o + j = 2 * (n + 1)
    BY <1>2, <2>1
  <2> QED BY <2>2 DEF j
<1> QED BY <1>1, <1>7, <1>8 DEF Streams, b, o

\* Bytes move from one place to the one before it.
LEMMA FromMove ==
    ASSUME NEW s \in Seq(Bytes), NEW t \in Seq(Bytes), NEW k \in 0 .. Len(t), NEW o \in Nat,
           From(s, o), From(t, o + Len(s))
    PROVE  /\ s \o SubSeq(t, 1, k) \in Seq(Bytes) /\ SubSeq(t, k + 1, Len(t)) \in Seq(Bytes)
           /\ From(s \o SubSeq(t, 1, k), o)
           /\ From(SubSeq(t, k + 1, Len(t)), o + Len(s \o SubSeq(t, 1, k)))
           /\ Len(s \o SubSeq(t, 1, k)) + Len(SubSeq(t, k + 1, Len(t))) = Len(s) + Len(t)
<1> DEFINE a == SubSeq(t, 1, k)
           b == SubSeq(t, k + 1, Len(t))
           sa == s \o a
<1>1. a \in Seq(Bytes) /\ b \in Seq(Bytes) /\ Len(a) = k /\ Len(b) = Len(t) - k
  BY CutFacts
<1>2. o + Len(s) \in Nat /\ Len(s) \in Nat /\ k \in Nat /\ Len(t) \in Nat
  OBVIOUS
<1>3. From(a, o + Len(s)) /\ From(b, o + Len(s) + k)
  BY <1>2, FromCut
<1> HIDE DEF a, b
<1>4. sa \in Seq(Bytes) /\ Len(sa) = Len(s) + Len(a)
  BY <1>1, ConcatFacts
<1>5. From(sa, o)
  BY <1>1, <1>3, FromConcat
<1> HIDE DEF sa
<1>6. o + Len(s) + k = o + Len(sa) /\ Len(sa) + Len(b) = Len(s) + Len(t)
  BY <1>1, <1>2, <1>4
<1> QED BY <1>1, <1>3, <1>4, <1>5, <1>6 DEF a, b, sa

\* redisBufferWrite
LEMMA StreamWrite ==
    ASSUME NEW g \in Nat, NEW n \in Nat, NEW r \in Seq(Bytes), NEW out \in Seq(Bytes),
           NEW in \in Seq(Bytes), NEW ob \in Seq(Bytes), NEW k \in 0 .. Len(ob),
           Streams(g, r, out, in, ob, n)
    PROVE  Streams(g, r, out, in \o SubSeq(ob, 1, k), SubSeq(ob, k + 1, Len(ob)), n)
<1> DEFINE a == in \o SubSeq(ob, 1, k)
           b == SubSeq(ob, k + 1, Len(ob))
           o == 2 * g + Len(r) + Len(out)
<1>1. /\ From(r, 2 * g) /\ From(out, 2 * g + Len(r)) /\ From(in, o)
      /\ From(ob, o + Len(in)) /\ o + Len(in) + Len(ob) = 2 * n
  BY DEF Streams
<1>2. o \in Nat /\ Len(in) \in Nat /\ Len(ob) \in Nat
  OBVIOUS
<1> HIDE DEF o
<1>3. a \in Seq(Bytes) /\ b \in Seq(Bytes) /\ From(a, o) /\ From(b, o + Len(a)) /\ Len(a) + Len(b) = Len(in) + Len(ob)
  BY <1>1, <1>2, FromMove
<1> HIDE DEF a, b
<1>4. Len(a) \in Nat /\ Len(b) \in Nat
  BY <1>3
<1>5. o + Len(a) + Len(b) = o + Len(in) + Len(ob)
  <2> DEFINE i == Len(a)
             j == Len(b)
             l == Len(in)
             m == Len(ob)
  <2>1. i \in Nat /\ j \in Nat /\ l \in Nat /\ m \in Nat /\ i + j = l + m
    BY <1>2, <1>3, <1>4
  <2> HIDE DEF i, j, l, m
  <2>2. o + i + j = o + l + m
    BY <1>2, <2>1, Regroup
  <2> QED BY <2>2 DEF i, j, l, m
<1> QED BY <1>1, <1>3, <1>5 DEF Streams, a, b, o

\* The server answers.
LEMMA StreamServe ==
    ASSUME NEW g \in Nat, NEW n \in Nat, NEW r \in Seq(Bytes), NEW out \in Seq(Bytes),
           NEW in \in Seq(Bytes), NEW ob \in Seq(Bytes), NEW k \in 0 .. Len(in),
           Streams(g, r, out, in, ob, n)
    PROVE  Streams(g, r, out \o SubSeq(in, 1, k), SubSeq(in, k + 1, Len(in)), ob, n)
<1> DEFINE a == out \o SubSeq(in, 1, k)
           b == SubSeq(in, k + 1, Len(in))
           o == 2 * g + Len(r)
<1>1. /\ From(r, 2 * g) /\ From(out, o) /\ From(in, o + Len(out))
      /\ From(ob, o + Len(out) + Len(in)) /\ o + Len(out) + Len(in) + Len(ob) = 2 * n
  BY DEF Streams
<1>2. o \in Nat /\ Len(out) \in Nat /\ Len(in) \in Nat
  OBVIOUS
<1> HIDE DEF o
<1>3. a \in Seq(Bytes) /\ b \in Seq(Bytes) /\ From(a, o) /\ From(b, o + Len(a)) /\ Len(a) + Len(b) = Len(out) + Len(in)
  BY <1>1, <1>2, FromMove
<1> HIDE DEF a, b
<1>4. Len(a) \in Nat /\ Len(b) \in Nat
  BY <1>3
<1>5. o + Len(a) + Len(b) = o + Len(out) + Len(in)
  <2> DEFINE i == Len(a)
             j == Len(b)
             l == Len(out)
             m == Len(in)
  <2>1. i \in Nat /\ j \in Nat /\ l \in Nat /\ m \in Nat /\ i + j = l + m
    BY <1>2, <1>3, <1>4
  <2> HIDE DEF i, j, l, m
  <2>2. o + i + j = o + l + m
    BY <1>2, <2>1, Regroup
  <2> QED BY <2>2 DEF i, j, l, m
<1> QED BY <1>1, <1>3, <1>5 DEF Streams, a, b, o

\* redisBufferRead
LEMMA StreamRead ==
    ASSUME NEW g \in Nat, NEW n \in Nat, NEW r \in Seq(Bytes), NEW out \in Seq(Bytes),
           NEW in \in Seq(Bytes), NEW ob \in Seq(Bytes), NEW k \in 0 .. Len(out),
           Streams(g, r, out, in, ob, n)
    PROVE  Streams(g, r \o SubSeq(out, 1, k), SubSeq(out, k + 1, Len(out)), in, ob, n)
<1> DEFINE a == r \o SubSeq(out, 1, k)
           b == SubSeq(out, k + 1, Len(out))
           o == 2 * g
<1>1. /\ From(r, o) /\ From(out, o + Len(r)) /\ From(in, o + Len(r) + Len(out))
      /\ From(ob, o + Len(r) + Len(out) + Len(in)) /\ o + Len(r) + Len(out) + Len(in) + Len(ob) = 2 * n
  BY DEF Streams
<1>2. o \in Nat /\ Len(r) \in Nat /\ Len(out) \in Nat
  OBVIOUS
<1> HIDE DEF o
<1>3. a \in Seq(Bytes) /\ b \in Seq(Bytes) /\ From(a, o) /\ From(b, o + Len(a)) /\ Len(a) + Len(b) = Len(r) + Len(out)
  BY <1>1, <1>2, FromMove
<1> HIDE DEF a, b
<1>4. Len(a) \in Nat /\ Len(b) \in Nat
  BY <1>3
<1>5. o + Len(a) + Len(b) = o + Len(r) + Len(out)
  <2> DEFINE i == Len(a)
             j == Len(b)
             l == Len(r)
             m == Len(out)
  <2>1. i \in Nat /\ j \in Nat /\ l \in Nat /\ m \in Nat /\ i + j = l + m
    BY <1>2, <1>3, <1>4
  <2> HIDE DEF i, j, l, m
  <2>2. o + i + j = o + l + m
    BY <1>2, <2>1, Regroup
  <2> QED BY <2>2 DEF i, j, l, m
<1> QED BY <1>1, <1>3, <1>5 DEF Streams, a, b, o

\* redisGetReplyFromReader
LEMMA StreamReturn ==
    ASSUME NEW g \in Nat, NEW n \in Nat, NEW r \in Seq(Bytes), NEW out, NEW in, NEW ob,
           Streams(g, r, out, in, ob, n), Reply(r)
    PROVE  Streams(g + 1, SubSeq(r, 3, Len(r)), out, in, ob, n)
<1> DEFINE a == SubSeq(r, 3, Len(r))
<1>1. /\ From(r, 2 * g) /\ From(out, 2 * g + Len(r)) /\ From(in, 2 * g + Len(r) + Len(out))
      /\ From(ob, 2 * g + Len(r) + Len(out) + Len(in)) /\ 2 * g + Len(r) + Len(out) + Len(in) + Len(ob) = 2 * n
  BY DEF Streams
<1>2. From(a, 2 * (g + 1)) /\ Len(a) = Len(r) - 2
  BY <1>1, NextReply
<1>3. Len(r) \in Nat
  OBVIOUS
<1> HIDE DEF a
<1>4. 2 * (g + 1) + Len(a) = 2 * g + Len(r)
  BY <1>2, <1>3
<1> QED BY <1>1, <1>2, <1>4 DEF Streams, a

\* The context returns the reply of which r is the rest.
LEMMA ReturnsStream ==
    ASSUME Counted, RightReply, NEW r \in Seq(Bytes), Reply(r), Returns(r), sent' = sent,
           Streams(Len(got), r, sock'.out, sock.in, c.obuf, Len(sent)), sock'.in = sock.in
    PROVE  RightReply' /\ Stream' /\ pc' = "idle"
<1>1. Len(got) \in Nat /\ got \in Seq(Nat) /\ Len(sent) \in Nat
  BY DEF Counted, Typed
<1>2. From(r, 2 * Len(got))
  BY DEF Streams
<1>3. r[1].cmd = Len(got) + 1 /\ r[2].cmd = Len(got) + 1 /\ r[1].half < r[2].half
  BY <1>1, <1>2, NextReply
<1>4. got' = Append(got, Len(got) + 1) /\ Len(got) + 1 \in Nat
  BY <1>1, <1>3 DEF Returns
<1>5. /\ Len(got') = Len(got) + 1
      /\ \A i \in 1 .. Len(got) : got'[i] = got[i]
      /\ got'[Len(got) + 1] = Len(got) + 1
      /\ \A i \in 1 .. Len(got) + 1 : i \in 1 .. Len(got) \/ i = Len(got) + 1
  BY <1>1, <1>4, AppendFacts
<1>6. got' \in Seq(Nat) /\ DOMAIN got' = 1 .. Len(got') /\ DOMAIN got = 1 .. Len(got)
  BY <1>1, <1>4, AppendType
<1>7. RightReply'
  BY <1>5, <1>6 DEF RightReply
<1>8. c'.reader = SubSeq(r, 3, Len(r)) /\ c'.obuf = c.obuf
  BY DEF Returns, Counted, Typed, ContextType
<1>9. Streams(Len(got) + 1, SubSeq(r, 3, Len(r)), sock'.out, sock.in, c.obuf, Len(sent))
  BY <1>1, StreamReturn
<1>10. Stream'
  BY <1>5, <1>8, <1>9 DEF Stream
<1> QED BY <1>7, <1>10 DEF Returns

\* What a stream consists of stays as it is.
LEMMA StreamKept ==
    ASSUME c'.reader = c.reader, c'.obuf = c.obuf, sock'.in = sock.in, sock'.out = sock.out,
           UNCHANGED <<got, sent>>, Stream
    PROVE  Stream'
  BY DEF Stream

LEMMA StreamInit == Init => StreamInv
<1> SUFFICES ASSUME Init PROVE StreamInv
  OBVIOUS
<1>1. PICK k \in Kinds : c = NewContext(k.blocking, k.source, k.reuse)
  BY DEF Init
<1>2. c.reader = <<>> /\ c.obuf = <<>> /\ sock.in = <<>> /\ sock.out = <<>>
  BY <1>1 DEF Init, NewContext, NoSocket
<1>3. got = <<>> /\ sent = <<>> /\ Len(<<>>) = 0
  BY DEF Init
<1>4. Stream
  BY <1>2, <1>3, StreamEmpty DEF Stream
<1>5. RightReply
  BY <1>3 DEF RightReply
<1> QED BY <1>4, <1>5 DEF StreamInv, Init

\* Bytes keep their order on their way, and the end of a connection leaves none.
LEMMA StreamNext ==
    ASSUME Counted, StreamInv, [Next]_vars
    PROVE  StreamInv'
<1> USE DEF StreamInv
<1>0. /\ c.obuf \in Seq(Bytes) /\ c.reader \in Seq(Bytes) /\ sock.in \in Seq(Bytes) /\ sock.out \in Seq(Bytes)
      /\ got \in Seq(Nat) /\ sent \in Seq(Nat) /\ Len(got) \in Nat /\ Len(sent) \in Nat
  BY DEF Counted, Typed, ContextType, SocketType
<1>1. CASE Connect \/ Resolve \/ Socket \/ Setup \/ ConnectCall \/ WaitReady
  <2>1. c'.reader = c.reader /\ c'.obuf = c.obuf
    BY <1>1 DEF Connect, Resolve, Socket, Setup, ConnectCall, WaitReady, Fails, FailsAndCloses, FdReset,
                Unreachable, NotAvailable, Counted, Typed, ContextType
  <2>2. sock' = sock /\ got' = got /\ sent' = sent
    BY <1>1 DEF Connect, Resolve, Socket, Setup, ConnectCall, WaitReady
  <2>3. pc \in Creating \cup Attached /\ pc # "freed"
    BY <1>1 DEF Connect, Resolve, Socket, Setup, ConnectCall, WaitReady, Creating, Attached
  <2>4. Stream'
    BY <2>1, <2>2, <2>3, StreamKept
  <2> QED BY <2>2, <2>3, <2>4 DEF RightReply
<1>2. CASE Reconnect
  <2>1. c'.reader = <<>> /\ c'.obuf = <<>> /\ sock' = NoSocket /\ got' = <<>> /\ sent' = <<>>
    BY <1>2 DEF Reconnect, Reconnected, Counted, Typed, ContextType
  <2>2. sock'.in = <<>> /\ sock'.out = <<>> /\ Len(<<>>) = 0
    BY <2>1 DEF NoSocket
  <2>3. Stream'
    BY <2>1, <2>2, StreamEmpty DEF Stream
  <2>4. RightReply'
    BY <2>1 DEF RightReply
  <2> QED BY <2>1, <2>3, <2>4
<1>3. CASE Finish
  <2>1. c'.reader = c.reader /\ c'.obuf = c.obuf /\ pc' = "idle"
    BY <1>3 DEF Finish, FailsAndCloses, FdReset, Counted, Typed, ContextType
  <2>2. pc \in Attached /\ pc # "freed" /\ sock = NoSocket /\ got' = got /\ sent' = sent
    BY <1>3 DEF Finish, Attached
  <2>3. sock'.in = sock.in /\ sock'.out = sock.out
    BY <1>3, <2>2 DEF Finish, NoSocket
  <2>4. Stream'
    BY <2>1, <2>2, <2>3, StreamKept
  <2> QED BY <2>1, <2>2, <2>4 DEF RightReply, Creating, Attached
<1>4. CASE \/ SetTimeout \/ GetReply \/ Interrupted \/ EarlyReturn
           \/ (BufferWrite /\ sock' = sock /\ c'.obuf = c.obuf)
           \/ (BufferRead /\ sock' = sock /\ got' = got /\ c'.reader = c.reader)
           \/ OtherOpens \/ OtherCloses
  <2>1. c'.reader = c.reader /\ c'.obuf = c.obuf
    BY <1>4 DEF SetTimeout, GetReply, Interrupted, EarlyReturn, BufferWrite, BufferRead, OtherOpens,
                OtherCloses, Fail, Returns, Counted, Typed, ContextType
  <2>2. sock'.in = sock.in /\ sock'.out = sock.out
    BY <1>4 DEF SetTimeout, GetReply, Interrupted, EarlyReturn, OtherOpens, OtherCloses, Counted, Typed, SocketType
  <2>3. pc \in Using /\ pc' \in Using /\ got' = got /\ sent' = sent
    BY <1>4 DEF SetTimeout, GetReply, Interrupted, EarlyReturn, BufferWrite, BufferRead, OtherOpens,
                OtherCloses, Fail, Returns, Using
  <2>4. Stream'
    BY <2>1, <2>2, <2>3, StreamKept DEF Using
  <2> QED BY <2>3, <2>4 DEF RightReply, Using, Creating, Attached
<1>5. CASE AppendCommand
  <2> DEFINE k == Len(sent) + 1
             b == <<[cmd |-> k, half |-> 1], [cmd |-> k, half |-> 2]>>
  <2>1. /\ Len(sent) < MaxCmds /\ sent' = Append(sent, k) /\ c' = [c EXCEPT !.obuf = @ \o b]
        /\ UNCHANGED <<pc, sock, got>> /\ pc = "idle"
    BY <1>5 DEF AppendCommand
  <2>2. Streams(Len(got), c.reader, sock.out, sock.in, c.obuf, Len(sent))
    BY <2>1 DEF Stream
  <2>3. Streams(Len(got), c.reader, sock.out, sock.in, c.obuf \o b, k)
    BY <1>0, <2>1, <2>2, StreamAppend
  <2>4. k \in Nat
    BY <1>0
  <2>5. Len(sent') = k
    BY <1>0, <2>1, <2>4, AppendFacts
  <2> HIDE DEF k, b
  <2>6. c'.reader = c.reader /\ c'.obuf = c.obuf \o b
    BY <2>1 DEF Counted, Typed, ContextType
  <2>7. Stream'
    BY <2>1, <2>3, <2>5, <2>6 DEF Stream
  <2> QED BY <2>1, <2>7 DEF RightReply, Creating, Attached
<1>6. CASE TryReader
  <2>0. /\ pc = "reader" /\ UNCHANGED <<sock, sent>>
        /\ Streams(Len(got), c.reader, sock.out, sock.in, c.obuf, Len(sent))
    BY <1>6 DEF TryReader, Stream
  <2>1. CASE Reply(c.reader) /\ Returns(c.reader)
    <3>1. RightReply' /\ Stream' /\ pc' = "idle"
      BY <1>0, <2>0, <2>1, ReturnsStream
    <3> QED BY <3>1 DEF Creating, Attached
  <2>2. CASE UNCHANGED <<c, got>> /\ pc' \in {"write", "idle"}
    BY <2>0, <2>2 DEF RightReply, Stream, Creating, Attached
  <2>3. CASE Fail("PROTOCOL") /\ UNCHANGED got
    <3>1. c'.reader = c.reader /\ c'.obuf = c.obuf /\ pc' = "idle"
      BY <2>3 DEF Fail, Counted, Typed, ContextType
    <3>2. Stream'
      BY <2>0, <2>3, <3>1, StreamKept DEF Stream
    <3> QED BY <2>0, <2>3, <3>1, <3>2 DEF RightReply, Creating, Attached
  <2> QED BY <1>6, <2>1, <2>2, <2>3 DEF TryReader
<1>7. CASE BufferWrite /\ ~(sock' = sock /\ c'.obuf = c.obuf)
  <2>1. PICK n \in 1 .. Len(c.obuf) :
               /\ c' = [c EXCEPT !.obuf = SubSeq(@, n + 1, Len(@))]
               /\ sock' = [sock EXCEPT !.in = @ \o SubSeq(c.obuf, 1, n)]
               /\ UNCHANGED pc
    BY <1>7 DEF BufferWrite, Fail, Counted, Typed, ContextType
  <2>2. /\ c'.reader = c.reader /\ c'.obuf = SubSeq(c.obuf, n + 1, Len(c.obuf))
        /\ sock'.out = sock.out /\ sock'.in = sock.in \o SubSeq(c.obuf, 1, n)
    BY <2>1 DEF Counted, Typed, ContextType, SocketType
  <2>3. pc = "write" /\ pc' = "write" /\ UNCHANGED <<sent, got>>
    BY <1>7, <2>1 DEF BufferWrite
  <2>4. Streams(Len(got), c.reader, sock.out, sock.in, c.obuf, Len(sent)) /\ n \in 0 .. Len(c.obuf)
    BY <2>3 DEF Stream
  <2>5. Streams(Len(got), c.reader, sock.out, sock.in \o SubSeq(c.obuf, 1, n),
                SubSeq(c.obuf, n + 1, Len(c.obuf)), Len(sent))
    BY <1>0, <2>4, StreamWrite
  <2>6. Stream'
    BY <2>2, <2>3, <2>5 DEF Stream
  <2> QED BY <2>3, <2>6 DEF RightReply, Creating, Attached
<1>8. CASE BufferRead /\ ~(sock' = sock /\ got' = got /\ c'.reader = c.reader)
  <2>1. PICK n \in 1 .. Len(sock.out) :
             LET r == c.reader \o SubSeq(sock.out, 1, n)
             IN  /\ sock' = [sock EXCEPT !.out = SubSeq(@, n + 1, Len(@))]
                 /\ Taken(r)
    BY <1>8 DEF BufferRead, Taken, Fail, Counted, Typed, ContextType
  <2> DEFINE r == c.reader \o SubSeq(sock.out, 1, n)
  <2>2. sock'.in = sock.in /\ sock'.out = SubSeq(sock.out, n + 1, Len(sock.out))
    BY <2>1 DEF Counted, Typed, SocketType
  <2>3. pc = "read" /\ sent' = sent
    BY <1>8 DEF BufferRead
  <2>4. Streams(Len(got), c.reader, sock.out, sock.in, c.obuf, Len(sent)) /\ n \in 0 .. Len(sock.out)
    BY <2>3 DEF Stream
  <2>5. Streams(Len(got), r, SubSeq(sock.out, n + 1, Len(sock.out)), sock.in, c.obuf, Len(sent))
    BY <1>0, <2>4, StreamRead
  <2>6. SubSeq(sock.out, 1, n) \in Seq(Bytes)
    BY <1>0, <2>4, CutFacts
  <2>7. r \in Seq(Bytes)
    BY <1>0, <2>6, ConcatType
  <2>8. Taken(r)
    BY <2>1
  <2> HIDE DEF r
  <2>9. CASE Reply(r) /\ Returns(r)
    <3>1. RightReply' /\ Stream' /\ pc' = "idle"
      BY <2>2, <2>3, <2>5, <2>7, <2>9, ReturnsStream
    <3> QED BY <3>1 DEF Creating, Attached
  <2>10. CASE /\ c' = [c EXCEPT !.reader = r] \/ c' = [c EXCEPT !.reader = r, !.err = "PROTOCOL"]
              /\ got' = got /\ pc' \in {"read", "idle"}
    <3>1. c'.reader = r /\ c'.obuf = c.obuf /\ got' = got
      BY <2>10 DEF Counted, Typed, ContextType
    <3>2. Stream'
      BY <2>2, <2>3, <2>5, <3>1 DEF Stream
    <3> QED BY <2>10, <3>1, <3>2 DEF RightReply, Creating, Attached
  <2> QED BY <2>3, <2>8, <2>9, <2>10 DEF Taken
<1>9. CASE FreeContext \/ FreeKeepFd
  BY <1>9 DEF FreeContext, FreeKeepFd, RightReply, Creating, Attached
<1>10. CASE Serve
  <2>0. 2 \in 0 .. Len(sock.in) /\ 2 + 1 = 3 /\ UNCHANGED <<c, pc, sent, got>>
    BY <1>0, <1>10 DEF Serve
  <2>1. sock'.in = SubSeq(sock.in, 3, Len(sock.in)) /\ sock'.out = sock.out \o SubSeq(sock.in, 1, 2)
    BY <1>10 DEF Serve, Counted, Typed, SocketType
  <2>2. pc \notin Creating \cup Attached
    <3>1. Len(<<>>) = 0 /\ ~(0 >= 2)
      OBVIOUS
    <3>2. sock # NoSocket
      BY <1>10, <3>1 DEF Serve, NoSocket
    <3> QED BY <3>2
  <2>3. ASSUME pc # "freed" PROVE Stream'
    <3>1. Streams(Len(got), c.reader, sock.out, sock.in, c.obuf, Len(sent))
      BY <2>3 DEF Stream
    <3>2. Streams(Len(got), c.reader, sock.out \o SubSeq(sock.in, 1, 2),
                  SubSeq(sock.in, 2 + 1, Len(sock.in)), c.obuf, Len(sent))
      BY <1>0, <2>0, <3>1, StreamServe
    <3> QED BY <2>0, <2>1, <3>2 DEF Stream
  <2> QED BY <2>0, <2>2, <2>3 DEF RightReply
<1>11. CASE ServerCloses
  <2>1. sock'.in = sock.in /\ sock'.out = sock.out /\ UNCHANGED <<c, pc, sent, got>>
    BY <1>11 DEF ServerCloses, Counted, Typed, SocketType
  <2>2. pc \notin Creating \cup Attached
    BY <1>11 DEF ServerCloses, NoSocket
  <2> QED BY <2>1, <2>2 DEF RightReply, Stream
<1>12. CASE UNCHANGED vars
  BY <1>12 DEF vars, RightReply, Stream
<1> QED BY <1>1, <1>2, <1>3, <1>4, <1>5, <1>6, <1>7, <1>8, <1>9, <1>10, <1>11, <1>12 DEF Next, InCall

\* redisGetReply returns whole replies, the k-th to the k-th command since the last
\* connect, however writes and reads are cut, whichever calls fail or time out, and
\* however often the context is reconnected with a reply half read.
THEOREM RepliesInOrder == Spec => []RightReply
<1>1. Init => Counted /\ StreamInv
  BY TypedInit, StreamInit
<1>2. Counted /\ StreamInv /\ [Next]_vars => Counted' /\ StreamInv'
  BY TypedNext, StreamNext
<1>3. Counted /\ StreamInv => RightReply
  BY DEF StreamInv
<1> QED BY <1>1, <1>2, <1>3, PTL DEF Spec

-----------------------------------------------------------------------------
(* Errors. *)

\* After an error a step reads nothing and writes nothing.
LEMMA ErrorKept ==
    ASSUME Counted, Next, c.err # "none", c'.err # "none"
    PROVE  Len(c'.obuf) >= Len(c.obuf) /\ Len(c'.reader) <= Len(c.reader)
<1>0. c.obuf \in Seq(Bytes) /\ c.reader \in Seq(Bytes) /\ Len(c.obuf) \in Nat /\ Len(c.reader) \in Nat
  BY DEF Counted, Typed, ContextType
<1>1. CASE c'.obuf = c.obuf /\ c'.reader = c.reader
  BY <1>0, <1>1
<1>2. CASE AppendCommand
  <2> DEFINE k == Len(sent) + 1
             b == <<[cmd |-> k, half |-> 1], [cmd |-> k, half |-> 2]>>
  <2>1. k \in 1 .. MaxCmds /\ c' = [c EXCEPT !.obuf = @ \o b]
    BY <1>2, ConnectionAssumption DEF AppendCommand, Counted, Typed
  <2>2. b \in Seq(Bytes) /\ Len(b) = 2
    BY <2>1 DEF Bytes
  <2> HIDE DEF k, b
  <2>3. c'.obuf = c.obuf \o b /\ c'.reader = c.reader
    BY <2>1 DEF Counted, Typed, ContextType
  <2>4. Len(c.obuf \o b) = Len(c.obuf) + Len(b)
    BY <1>0, <2>2, ConcatFacts
  <2> QED BY <1>0, <2>2, <2>3, <2>4
<1>3. CASE TryReader /\ Reply(c.reader) /\ ~Illegal(c.reader)
  <2>1. Len(c.reader) >= 2 /\ 2 \in 0 .. Len(c.reader) /\ 2 + 1 = 3
    BY <1>0, <1>3 DEF Reply
  <2>2. Len(SubSeq(c.reader, 2 + 1, Len(c.reader))) = Len(c.reader) - 2
    BY <1>0, <2>1, CutFacts
  <2>3. c'.reader = SubSeq(c.reader, 3, Len(c.reader)) /\ c'.obuf = c.obuf
    BY <1>3 DEF TryReader, Returns, Counted, Typed, ContextType
  <2>4. Len(c'.reader) = Len(c.reader) - 2
    BY <2>1, <2>2, <2>3
  <2> QED BY <1>0, <2>3, <2>4
<1>4. CASE Reconnect
  BY <1>4 DEF Reconnect, Reconnected, Counted, Typed, ContextType
<1>5. CASE BufferWrite \/ BufferRead
  BY <1>5 DEF BufferWrite, BufferRead, MayTransfer
<1>6. CASE \/ Connect \/ Resolve \/ Socket \/ Setup \/ ConnectCall \/ WaitReady \/ Finish
           \/ (TryReader /\ (~Reply(c.reader) \/ Illegal(c.reader))) \/ SetTimeout \/ GetReply \/ FreeContext \/ FreeKeepFd
           \/ Interrupted \/ EarlyReturn \/ OtherOpens \/ OtherCloses \/ Serve \/ ServerCloses
  <2>1. c'.obuf = c.obuf /\ c'.reader = c.reader
    BY <1>6 DEF Connect, Resolve, Socket, Setup, ConnectCall, WaitReady, Finish, Fails, FailsAndCloses, FdReset,
                Unreachable, NotAvailable, TryReader, Fail, SetTimeout, GetReply, FreeContext, FreeKeepFd,
                Interrupted, EarlyReturn, OtherOpens, OtherCloses, Serve, ServerCloses,
                Counted, Typed, ContextType
  <2> QED BY <1>1, <2>1
<1> QED BY <1>2, <1>3, <1>4, <1>5, <1>6 DEF Next, InCall

\* After an error nothing is read from the socket and nothing is written to it
\* until redisReconnect has cleared the error: redisBufferRead and
\* redisBufferWrite return early, and replies that are there are still returned.
THEOREM ErrorsAreFinal == Spec => ErrorIsFinal
<1>1. Init => Counted
  BY TypedInit
<1>2. Counted /\ [Next]_vars => Counted'
  BY TypedNext
<1>3. Counted /\ [Next]_vars =>
        [c.err # "none" /\ c'.err # "none" =>
            Len(c'.obuf) >= Len(c.obuf) /\ Len(c'.reader) <= Len(c.reader)]_vars
  BY ErrorKept
<1> QED BY <1>1, <1>2, <1>3, PTL DEF Spec, ErrorIsFinal

=============================================================================
