------------------------------- MODULE Reader -------------------------------
(***************************************************************************)
(* The reply reader of src/read.c: redisReaderFeed, redisReaderGetReply    *)
(* and the stack machine between them, on the bytes that arrive.           *)
(*                                                                         *)
(* The bytes of a stream are fed in pieces of any size, and replies are    *)
(* asked for at any time: a reply may be cut anywhere, inside a nested     *)
(* array, a length or the end of a line.  What the reader keeps between    *)
(* two calls is the buffer, the position in it, the stack of tasks and the *)
(* part of the reply that has been built.                                  *)
(*                                                                         *)
(* A reply is the set of its parts: each object with its path from the     *)
(* root, its type and its value.  Memory is never exhausted, and numbers   *)
(* stay below 2^31.                                                        *)
(***************************************************************************)
EXTENDS Integers, Sequences, FiniteSets

CONSTANTS
    Streams,    \* what a server may send: [bytes, items, replies, ends, bad]
    MaxTasks,   \* the size of r->rstack
    DiscardAt   \* bytes after which the part of r->buf that was read is discarded

CR == 13
LF == 10
Digits == 48 .. 57

\* The type bytes: '-', '+', ':', '$' and '*'.
TypeBytes == {45, 43, 58, 36, 42}

TypeOf(byte) ==
    CASE byte = 45 -> "error" [] byte = 43 -> "status" [] byte = 58 -> "integer"
      [] byte = 36 -> "string" [] byte = 42 -> "array"

LineTypes == {"error", "status", "integer"}
Types == LineTypes \cup {"string", "array"}

Part == [path : Seq(Nat), type : Types \cup {"nil"}, val : Seq(Int)]

Min(S) == CHOOSE i \in S : \A j \in S : i <= j
Max(S) == CHOOSE i \in S : \A j \in S : j <= i

Decimal(s) ==
    LET v[i \in 0 .. Len(s)] == IF i = 0 THEN 0 ELSE v[i - 1] * 10 + (s[i] - 48)
    IN  v[Len(s)]

\* readLongLong: a sign and digits, up to the first CR; -1 for anything else.
LongLong(s) ==
    LET signed == s # <<>> /\ s[1] \in {45, 43}
        digits == IF signed THEN Tail(s) ELSE s
    IN  IF \A i \in DOMAIN digits : digits[i] \in Digits
        THEN IF signed /\ s[1] = 45 THEN -Decimal(digits) ELSE Decimal(digits)
        ELSE -1

\* The number that a line holds.
NumberOf(line) ==
    LET stops == {i \in DOMAIN line : line[i] = CR}
    IN  LongLong(IF stops = {} THEN line ELSE SubSeq(line, 1, Min(stops) - 1))

-----------------------------------------------------------------------------
(* What a stream says, if all of its bytes b are there.  An item is        *)
(* [at, path]: its first byte and its place, <<r>> for reply r, counted    *)
(* from 0, and <<r, i, j>> for element j of element i of it.               *)

LineEnds(b, at) == {i \in at + 1 .. Len(b) - 1 : b[i] = CR /\ b[i + 1] = LF}

Text(b, at) == SubSeq(b, at + 1, Min(LineEnds(b, at)) - 1)

Size(b, at) == NumberOf(Text(b, at))

ItemEnd(b, at) ==
    Min(LineEnds(b, at)) + 1 + IF b[at] = 36 /\ Size(b, at) >= 0 THEN Size(b, at) + 2 ELSE 0

Whole(b, at) ==
    at <= Len(b) /\ b[at] \in TypeBytes /\ LineEnds(b, at) # {} /\ ItemEnd(b, at) <= Len(b)

\* How many items are inside the item.
Arity(b, at) == IF b[at] = 42 /\ Size(b, at) > 0 THEN Size(b, at) ELSE 0

\* What an item is in the reply.
PartAt(b, item) ==
    LET at == item.at
        type == IF (b[at] = 36 /\ Size(b, at) < 0) \/ (b[at] = 42 /\ Size(b, at) = -1)
                THEN "nil" ELSE TypeOf(b[at])
        end == Min(LineEnds(b, at)) + 1
    IN  [path |-> Tail(item.path),
         type |-> type,
         val  |-> CASE type \in {"error", "status"}  -> Text(b, at)
                    [] type \in {"integer", "array"} -> <<Size(b, at)>>
                    [] type = "string"               -> SubSeq(b, end + 1, end + Size(b, at))
                    [] type = "nil"                  -> <<>>]

\* The order of the items: that of their paths, as in a dictionary.
Before(p, q) ==
    \E k \in 1 .. Len(q) :
        /\ Len(p) >= k - 1
        /\ \A i \in 1 .. k - 1 : p[i] = q[i]
        /\ Len(p) >= k => p[k] < q[k]

\* The items follow each other; the last one is where the stream ends or breaks.
Broken(s) ==
    LET z == s.items[Len(s.items)]
    IN  /\ z.at <= Len(s.bytes)
        /\ \/ s.bytes[z.at] \notin TypeBytes
           \/ s.bytes[z.at] = 42 /\ Len(z.path) = MaxTasks

ItemsFollow(s) ==
    LET m == Len(s.items)
    IN  /\ s.items \in Seq([at : Nat, path : Seq(Nat) \ {<<>>}])
        /\ m > 0
        /\ s.items[1] = [at |-> 1, path |-> <<0>>]
        /\ \A j \in 1 .. m - 1 :
              /\ Whole(s.bytes, s.items[j].at)
              /\ s.bytes[s.items[j].at] = 42 => Len(s.items[j].path) < MaxTasks
              /\ s.items[j + 1].at = ItemEnd(s.bytes, s.items[j].at) + 1
        /\ ~Broken(s) => ~Whole(s.bytes, s.items[m].at)

\* They are trees: an item is inside an array that has a place for it, and an
\* array has all that it announces, up to the end of the stream.
ItemsNest(s) ==
    LET m == Len(s.items)
        path(j) == s.items[j].path
        arity(j) == Arity(s.bytes, s.items[j].at)
    IN  /\ \A i, j \in 1 .. m : i < j => Before(path(i), path(j))
        /\ \A j \in 1 .. m : \A k \in 2 .. Len(path(j)) : \E i \in 1 .. m - 1 :
              path(i) = SubSeq(path(j), 1, k - 1) /\ path(j)[k] < arity(i)
        /\ \A i \in 1 .. m - 1 : \A k \in 0 .. arity(i) - 1 :
              \/ \E j \in 1 .. m : path(j) = Append(path(i), k)
              \/ Before(path(m), Append(path(i), k))

\* The replies that are complete, where each ends, and the byte at which the
\* stream breaks the protocol, 0 for none.
RepliesNamed(s) ==
    LET m == Len(s.items)
    IN  /\ Len(s.replies) = s.items[m].path[1]
        /\ Len(s.ends) = Len(s.replies)
        /\ \A r \in 1 .. Len(s.replies) :
              /\ s.replies[r] = {PartAt(s.bytes, s.items[j]) :
                                   j \in {j \in 1 .. m - 1 : s.items[j].path[1] = r - 1}}
              /\ \E j \in 2 .. m : s.items[j].path = <<r>> /\ s.ends[r] = s.items[j].at - 1
        /\ s.bad = IF Broken(s) THEN s.items[m].at ELSE 0

ASSUME ReaderAssumption == MaxTasks \in Nat \ {0} /\ DiscardAt \in Nat \ {0}

ASSUME StreamsAssumption ==
    \A s \in Streams :
        /\ s.bytes \in Seq(0 .. 255)
        /\ s.replies \in Seq(SUBSET Part)
        /\ s.ends \in Seq(Nat)
        /\ ItemsFollow(s)
        /\ ItemsNest(s)
        /\ RepliesNamed(s)

-----------------------------------------------------------------------------
VARIABLES
    stream,
    fed,      \* how many of its bytes have been fed
    buf,      \* r->buf
    pos,      \* r->pos
    tasks,    \* r->rstack up to r->ridx
    reply,    \* r->reply
    err,      \* r->err # 0
    busy,     \* in the loop of redisReaderGetReply
    out,      \* history: the replies that were returned
    drained   \* history: the last call, after the last byte fed, gave no reply

readerVars == <<buf, pos, tasks, reply, err>>
vars == <<stream, fed, readerVars, busy, out, drained>>

Task(idx) == [type |-> "none", elements |-> -1, idx |-> idx]

TaskType == [type : Types \cup {"none"}, elements : Int, idx : Int]

\* Every variable holds a value of its C type, the position is inside the
\* buffer and the stack of tasks inside its array.
TypeOK ==
    /\ stream \in Streams
    /\ fed \in 0 .. Len(stream.bytes)
    /\ buf \in Seq(0 .. 255)
    /\ pos \in 0 .. Len(buf)
    /\ tasks \in Seq(TaskType)
    /\ Len(tasks) <= MaxTasks
    /\ err \in BOOLEAN
    /\ busy \in BOOLEAN
    /\ drained \in BOOLEAN

\* redisReaderCreateWithFunctions
Init ==
    /\ stream \in Streams
    /\ fed = 0
    /\ buf = <<>>
    /\ pos = 0
    /\ tasks = <<>>
    /\ reply = {}
    /\ err = FALSE
    /\ busy = FALSE
    /\ out = <<>>
    /\ drained = FALSE

-----------------------------------------------------------------------------
(* Bytes. *)

\* Mutant: the last byte is not looked at.
NewlinesEarly == {i \in (pos + 1) .. (Len(buf) - 2) : buf[i] = CR /\ buf[i + 1] = LF}

Newlines == {i \in (pos + 1) .. (Len(buf) - 1) : buf[i] = CR /\ buf[i + 1] = LF}

\* seekNewline: where the line that begins at pos ends.
LineEnd == Min(Newlines)

Line == SubSeq(buf, pos + 1, LineEnd - 1)

Number == NumberOf(Line)

-----------------------------------------------------------------------------
(* Tasks. *)

Cur == tasks[Len(tasks)]

\* The path of the object that is being read.
Path == [i \in 1 .. Len(tasks) - 1 |-> tasks[i + 1].idx]

\* moveToNextTask: the next element of the innermost array that has one.
NextTasks(s) ==
    LET unfinished == {i \in 2 .. Len(s) : s[i].idx # s[i - 1].elements - 1}
        i == Max(unfinished)
    IN  IF unfinished = {} THEN <<>> ELSE Append(SubSeq(s, 1, i - 1), Task(s[i].idx + 1))

\* createStringObject and the like put a new object into its parent.
Built(type, val) == reply \cup {[path |-> Path, type |-> type, val |-> val]}

\* __redisReaderSetError
SetError ==
    /\ err' = TRUE
    /\ reply' = {}
    /\ buf' = <<>>
    /\ pos' = 0
    /\ tasks' = <<>>

Processing(types) == busy /\ tasks # <<>> /\ Cur.type \in types

\* processItem reads the type of the item.
ReadType ==
    /\ Processing({"none"})
    /\ pos < Len(buf)
    /\ \/ /\ buf[pos + 1] \in TypeBytes
          /\ tasks' = [tasks EXCEPT ![Len(tasks)].type = TypeOf(buf[pos + 1])]
          /\ pos' = pos + 1
          /\ UNCHANGED <<buf, reply, err>>
       \/ /\ buf[pos + 1] \notin TypeBytes
          /\ SetError
    /\ UNCHANGED <<stream, fed, busy, out, drained>>

ProcessLineItem ==
    /\ Processing(LineTypes)
    /\ Newlines # {}
    /\ reply' = Built(Cur.type, IF Cur.type = "integer" THEN <<Number>> ELSE Line)
    /\ pos' = LineEnd + 1
    /\ tasks' = NextTasks(tasks)
    /\ UNCHANGED <<stream, fed, buf, err, busy, out, drained>>

\* Mutant: the end of line behind the bytes is not counted.
BulkEndShort == IF Number < 0 THEN LineEnd + 1 ELSE LineEnd + 1 + Number

\* Where the item ends that a bulk header at pos announces.
BulkEnd == IF Number < 0 THEN LineEnd + 1 ELSE LineEnd + 1 + Number + 2

ProcessBulkItem ==
    /\ Processing({"string"})
    /\ Newlines # {}
    /\ BulkEnd <= Len(buf)
    /\ reply' = IF Number < 0 THEN Built("nil", <<>>)
                ELSE Built("string", SubSeq(buf, LineEnd + 2, LineEnd + 1 + Number))
    /\ pos' = BulkEnd
    /\ tasks' = NextTasks(tasks)
    /\ UNCHANGED <<stream, fed, buf, err, busy, out, drained>>

\* r->ridx is that of the last element of r->rstack.
TooDeep == Len(tasks) = MaxTasks

ProcessMultiBulkItem ==
    /\ Processing({"array"})
    /\ \/ /\ TooDeep
          /\ SetError
       \/ /\ ~TooDeep
          /\ Newlines # {}
          /\ reply' = IF Number = -1 THEN Built("nil", <<>>) ELSE Built("array", <<Number>>)
          /\ pos' = LineEnd + 1
          /\ tasks' = IF Number > 0
                      THEN Append([tasks EXCEPT ![Len(tasks)].elements = Number], Task(0))
                      ELSE NextTasks(tasks)
          /\ UNCHANGED <<buf, err>>
    /\ UNCHANGED <<stream, fed, busy, out, drained>>

\* processItem wants more bytes than there are.
Incomplete ==
    /\ tasks # <<>>
    /\ CASE Cur.type = "none" -> pos = Len(buf)
         [] Cur.type \in LineTypes -> Newlines = {}
         [] Cur.type = "string" -> (Newlines # {} => BulkEnd > Len(buf))
         [] Cur.type = "array" -> ~TooDeep /\ Newlines = {}

-----------------------------------------------------------------------------
(* The interface. *)

\* redisReaderFeed, for n bytes; it refuses them after an error.
Feed(n) ==
    /\ ~busy
    /\ ~err
    /\ fed + n <= Len(stream.bytes)
    /\ buf' = buf \o SubSeq(stream.bytes, fed + 1, fed + n)
    /\ fed' = fed + n
    /\ drained' = FALSE
    /\ UNCHANGED <<stream, pos, tasks, reply, err, busy, out>>

\* redisReaderGetReply, up to its loop.
GetReply ==
    /\ ~busy
    /\ ~err
    /\ buf # <<>>
    /\ busy' = TRUE
    /\ tasks' = IF tasks = <<>> THEN <<Task(-1)>> ELSE tasks
    /\ UNCHANGED <<stream, fed, buf, pos, reply, err, out, drained>>

\* Mutant: r->reply is not cleared.
GetReplyEndsKeeps ==
    /\ busy
    /\ err \/ tasks = <<>> \/ Incomplete
    /\ busy' = FALSE
    /\ out' = IF ~err /\ tasks = <<>> THEN Append(out, reply) ELSE out
    /\ drained' = (~err /\ tasks # <<>>)
    /\ UNCHANGED <<stream, fed, readerVars>>

\* Mutant: the loop ends only with a reply or an error.
GetReplyEndsLate ==
    /\ busy
    /\ err \/ tasks = <<>>
    /\ busy' = FALSE
    /\ out' = IF err THEN out ELSE Append(out, reply)
    /\ reply' = {}
    /\ drained' = FALSE
    /\ UNCHANGED <<stream, fed, buf, pos, tasks, err>>

\* The end of redisReaderGetReply.
GetReplyEnds ==
    /\ busy
    /\ err \/ tasks = <<>> \/ Incomplete
    /\ busy' = FALSE
    /\ IF ~err /\ pos >= DiscardAt
       THEN buf' = SubSeq(buf, pos + 1, Len(buf)) /\ pos' = 0
       ELSE UNCHANGED <<buf, pos>>
    /\ IF ~err /\ tasks = <<>>
       THEN out' = Append(out, reply) /\ reply' = {}
       ELSE UNCHANGED <<out, reply>>
    /\ drained' = (~err /\ tasks # <<>>)
    /\ UNCHANGED <<stream, fed, tasks, err>>

Loop == ReadType \/ ProcessLineItem \/ ProcessBulkItem \/ ProcessMultiBulkItem \/ GetReplyEnds

Next ==
    \/ \E n \in 1 .. Len(stream.bytes) : Feed(n)
    \/ GetReply
    \/ Loop

Spec == Init /\ [][Next]_vars /\ WF_vars(Loop)

-----------------------------------------------------------------------------
(* Properties. *)

\* The replies are those of the stream, in order and complete, wherever the
\* bytes were cut and whatever part of the buffer was discarded.  The position
\* stays in the buffer, and, as moveToNextTask asserts, a task that is not the
\* first one belongs to an array and is one of its elements.
RepliesOfStream ==
    /\ TypeOK
    /\ \A i \in 2 .. Len(tasks) :
          /\ tasks[i - 1].type = "array"
          /\ tasks[i].idx \in 0 .. tasks[i - 1].elements - 1
    /\ Len(out) <= Len(stream.replies)
    /\ \A i \in DOMAIN out : out[i] = stream.replies[i]

\* redisReaderGetReply returns no reply only when the bytes fed so far hold no
\* other complete reply and no protocol error.
NoneHeldBack ==
    drained => /\ Len(out) = Cardinality({i \in DOMAIN stream.ends : stream.ends[i] <= fed})
               /\ stream.bad = 0 \/ fed < stream.bad

\* An error is one of the stream: legal replies are read to the end, and those
\* before an error are returned.
ErrorOfStream ==
    err => /\ stream.bad \in 1 .. fed
           /\ out = stream.replies

\* Every call of redisReaderGetReply returns.
GetReplyReturns == busy ~> ~busy
=============================================================================
