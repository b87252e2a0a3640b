--------------------------- MODULE CommandParser ---------------------------
(***************************************************************************)
(* The command parser of src/command.c: redis_parse_cmd, on the bytes of a *)
(* command in the unified request protocol, with the classes of commands   *)
(* that tell it which arguments are keys.                                  *)
(*                                                                         *)
(* The four states that the code has for each bulk argument (its length, a *)
(* line feed, its bytes, a line feed) are one step.  A command that ends   *)
(* early ends the loop without an error, as it does in the code.  Numbers  *)
(* stay below 2^31.                                                        *)
(***************************************************************************)
EXTENDS Integers, Sequences, FiniteSets

CONSTANT Spelling   \* the names of the commands in use, in lower case: type -> bytes

CR == 13
LF == 10
Star == 42
Dollar == 36
Digits == 48 .. 57

redis_argz == {"PING", "QUIT"}

redis_arg0 ==
    {"EXISTS", "PERSIST", "PTTL", "SORT", "TTL", "TYPE", "DUMP", "DECR", "GET", "INCR",
     "STRLEN", "HGETALL", "HKEYS", "HLEN", "HVALS", "LLEN", "LPOP", "RPOP", "SCARD",
     "SMEMBERS", "SPOP", "ZCARD", "PFCOUNT", "AUTH"}

redis_arg1 ==
    {"EXPIRE", "EXPIREAT", "PEXPIRE", "PEXPIREAT", "APPEND", "DECRBY", "GETBIT", "GETSET",
     "INCRBY", "INCRBYFLOAT", "SETNX", "HEXISTS", "HGET", "LINDEX", "LPUSHX", "RPOPLPUSH",
     "RPUSHX", "SISMEMBER", "ZRANK", "ZREVRANK", "ZSCORE"}

redis_arg2 ==
    {"GETRANGE", "PSETEX", "SETBIT", "SETEX", "SETRANGE", "HINCRBY", "HINCRBYFLOAT", "HSET",
     "HSETNX", "LRANGE", "LREM", "LSET", "LTRIM", "SMOVE", "ZCOUNT", "ZLEXCOUNT", "ZINCRBY",
     "ZREMRANGEBYLEX", "ZREMRANGEBYRANK", "ZREMRANGEBYSCORE", "RESTORE"}

redis_arg3 == {"LINSERT"}

redis_argn ==
    {"BITCOUNT", "SET", "HDEL", "HMGET", "HMSET", "HSCAN", "LPUSH", "RPUSH", "SADD", "SDIFF",
     "SDIFFSTORE", "SINTER", "SINTERSTORE", "SREM", "SUNION", "SUNIONSTORE", "SRANDMEMBER",
     "SSCAN", "PFADD", "PFMERGE", "ZADD", "ZINTERSTORE", "ZRANGE", "ZRANGEBYSCORE", "ZREM",
     "ZREVRANGE", "ZRANGEBYLEX", "ZREVRANGEBYSCORE", "ZUNIONSTORE", "ZSCAN"}

redis_argx == {"MGET", "DEL"}

redis_argkvx == {"MSET"}

redis_argeval == {"EVAL", "EVALSHA"}

Types ==
    redis_argz \cup redis_arg0 \cup redis_arg1 \cup redis_arg2 \cup redis_arg3
    \cup redis_argn \cup redis_argx \cup redis_argkvx \cup redis_argeval

ASSUME ParserAssumption ==
    /\ DOMAIN Spelling \subseteq Types
    /\ \A t \in DOMAIN Spelling : Spelling[t] \in Seq(0 .. 255)

VARIABLES
    cmd,      \* r->cmd, as bytes
    p,        \* where the element begins that is parsed next
    state,    \* the kind of that element; "end" when the loop has ended
    narg,     \* r->narg
    rnarg,    \* the arguments that have not been seen
    type,     \* r->type
    keys,     \* r->keys: the first byte of each, and the CR behind it
    result    \* r->result

parserVars == <<cmd, p, state, narg, rnarg, type, keys, result>>

States == {"NARG", "REQ_TYPE", "KEY", "ARG1", "ARG2", "ARG3", "ARGN", "end"}

KeyPos == [start : Nat, end : Nat]

ParserTypeOK ==
    /\ cmd \in Seq(0 .. 255)
    /\ p \in Nat
    /\ state \in States
    /\ narg \in Nat
    /\ rnarg \in Nat
    /\ type \in Types \cup {"UNKNOWN"}
    /\ keys \in Seq(KeyPos)
    /\ result \in {"ok", "error"}

\* command_get, with the bytes of a command.
ParserInit(bytes) ==
    /\ cmd = bytes
    /\ p = 1
    /\ state = "NARG"
    /\ narg = 0
    /\ rnarg = 0
    /\ type = "UNKNOWN"
    /\ keys = <<>>
    /\ result = "ok"

-----------------------------------------------------------------------------
(* The element at p: a mark, a number, CR LF and, for a bulk, the bytes it *)
(* announces and CR LF.                                                    *)

Least(S) == CHOOSE i \in S : \A j \in S : i <= j

\* The number that the bytes i .. j-1 of s spell.
Decimal(s, i, j) ==
    LET v[k \in i .. j] == IF k = i THEN 0 ELSE v[k - 1] * 10 + (s[k - 1] - 48)
    IN  v[j]

\* The first byte of s from i on that is no digit.
DigitsEnd(s, i) ==
    IF i > Len(s) THEN i ELSE Least({j \in i .. Len(s) + 1 : j > Len(s) \/ s[j] \notin Digits})

There(i) == i <= Len(cmd)

NumEnd == DigitsEnd(cmd, p + 1)
Num == Decimal(cmd, p + 1, NumEnd)
Start == NumEnd + 2
End == Start + Num

Lower(byte) == IF byte \in 65 .. 90 THEN byte + 32 ELSE byte

\* The type that the name in the bulk stands for.
TypeOf(name) ==
    LET lower == [i \in DOMAIN name |-> Lower(name[i])]
    IN  IF \E t \in DOMAIN Spelling : Spelling[t] = lower
        THEN CHOOSE t \in DOMAIN Spelling : Spelling[t] = lower
        ELSE "UNKNOWN"

Bulk == SubSeq(cmd, Start, End - 1)

\* What a bulk has to be where it stands: the name of a command, or the number
\* of keys of EVAL, which is not 0.
BadContent ==
    \/ state = "REQ_TYPE" /\ TypeOf(Bulk) = "UNKNOWN"
    \/ /\ state = "ARG2"
       /\ type \in redis_argeval
       /\ \/ Num = 0
          \/ \E i \in DOMAIN Bulk : Bulk[i] \notin Digits
          \/ Decimal(Bulk, 1, Num + 1) = 0

\* The states of the element reach "goto error", on what there is of it.
Bad ==
    \/ There(p) /\ cmd[p] # (IF state = "NARG" THEN Star ELSE Dollar)
    \/ There(NumEnd) /\ cmd[NumEnd] # CR
    \/ There(NumEnd) /\ state = "NARG" /\ Num = 0
    \/ There(NumEnd) /\ state # "NARG" /\ rnarg = 0
    \/ There(NumEnd) /\ state = "REQ_TYPE" /\ Num = 0
    \/ There(NumEnd) /\ state \in {"ARG1", "ARG2", "ARG3", "ARGN"} /\ NumEnd = p + 1
    \/ There(NumEnd + 1) /\ cmd[NumEnd + 1] # LF
    \/ /\ state # "NARG"
       /\ There(Start)
       /\ \/ ~There(End)
          \/ cmd[End] # CR
          \/ BadContent
          \/ There(End + 1) /\ cmd[End + 1] # LF

\* The last byte of the element is there.
Whole == IF state = "NARG" THEN There(NumEnd + 1) ELSE There(Start) /\ There(End + 1)

-----------------------------------------------------------------------------
(* Which element follows. *)

\* The number of arguments behind the key, for the classes that have one.
ExactArgs(t) ==
    CASE t \in redis_arg0 -> 0
      [] t \in redis_arg1 -> 1
      [] t \in redis_arg2 -> 2
      [] t \in redis_arg3 -> 3

Position == [KEY |-> 0, ARG1 |-> 1, ARG2 |-> 2, ARG3 |-> 3]
ArgStates == <<"ARG1", "ARG2", "ARG3">>

\* Where more arguments follow, as long as there are any.
Until(left, next) == IF left = 0 THEN "end" ELSE next

\* Mutant: the values of MSET swallow the keys behind them.
FollowsValues(s, t, left, n) ==
    CASE s = "REQ_TYPE" -> IF t \in redis_argz THEN "end"
                           ELSE IF t \in redis_argeval THEN "ARG1" ELSE "KEY"
      [] s # "REQ_TYPE" /\ t \in redis_arg0 \cup redis_arg1 \cup redis_arg2 \cup redis_arg3 ->
            IF left # ExactArgs(t) - Position[s] THEN "error"
            ELSE IF left = 0 THEN "end" ELSE ArgStates[Position[s] + 1]
      [] s # "REQ_TYPE" /\ t \in redis_argn -> Until(left, IF s = "KEY" THEN "ARG1" ELSE "ARGN")
      [] s # "REQ_TYPE" /\ t \in redis_argx -> Until(left, "KEY")
      [] s # "REQ_TYPE" /\ t \in redis_argkvx ->
            IF s = "KEY" /\ left # 0 /\ n % 2 = 0 THEN "error" ELSE Until(left, "ARG1")
      [] s # "REQ_TYPE" /\ t \in redis_argeval ->
            CASE s = "ARG1" -> IF left < 2 THEN "error" ELSE "ARG2"
              [] s = "ARG2" -> IF left < 1 THEN "error" ELSE "KEY"
              [] OTHER      -> Until(left, "ARGN")

\* The branches of the states SW_..._LF: what follows an element of kind s in a
\* command of type t with n arguments, of which left have not been seen.
Follows(s, t, left, n) ==
    CASE s = "REQ_TYPE" -> IF t \in redis_argz THEN "end"
                           ELSE IF t \in redis_argeval THEN "ARG1" ELSE "KEY"
      [] s # "REQ_TYPE" /\ t \in redis_arg0 \cup redis_arg1 \cup redis_arg2 \cup redis_arg3 ->
            IF left # ExactArgs(t) - Position[s] THEN "error"
            ELSE IF left = 0 THEN "end" ELSE ArgStates[Position[s] + 1]
      [] s # "REQ_TYPE" /\ t \in redis_argn -> Until(left, IF s = "KEY" THEN "ARG1" ELSE "ARGN")
      [] s # "REQ_TYPE" /\ t \in redis_argx -> Until(left, "KEY")
      [] s # "REQ_TYPE" /\ t \in redis_argkvx ->
            IF s = "KEY" /\ left # 0 /\ n % 2 = 0 THEN "error"
            ELSE Until(left, IF s = "KEY" THEN "ARG1" ELSE "KEY")
      [] s # "REQ_TYPE" /\ t \in redis_argeval ->
            CASE s = "ARG1" -> IF left < 2 THEN "error" ELSE "ARG2"
              [] s = "ARG2" -> IF left < 1 THEN "error" ELSE "KEY"
              [] OTHER      -> Until(left, "ARGN")

-----------------------------------------------------------------------------
(* The loop. *)

\* "*<number of arguments> CR LF"
ParseNarg ==
    /\ state = "NARG"
    /\ ~Bad
    /\ Whole
    /\ narg' = Num
    /\ rnarg' = Num
    /\ p' = NumEnd + 2
    /\ state' = "REQ_TYPE"
    /\ UNCHANGED <<cmd, type, keys, result>>

\* What is known when the CR behind a bulk has been seen: its LF may be missing.
TypeSeen == IF state = "REQ_TYPE" THEN TypeOf(Bulk) ELSE type
KeysSeen == IF state = "KEY" THEN Append(keys, [start |-> Start, end |-> End]) ELSE keys

\* A bulk that is the name, a key or another argument.
ParseBulk ==
    /\ state \notin {"NARG", "end"}
    /\ ~Bad
    /\ Whole
    /\ rnarg' = rnarg - 1
    /\ type' = TypeSeen
    /\ keys' = KeysSeen
    /\ p' = End + 2
    /\ LET next == Follows(state, type', rnarg', narg)
       IN  /\ state' = IF next = "error" THEN "end" ELSE next
           /\ result' = IF next = "error" THEN "error" ELSE result
    /\ UNCHANGED <<cmd, narg>>

ParseError ==
    /\ state # "end"
    /\ Bad
    /\ state' = "end"
    /\ result' = "error"
    /\ UNCHANGED <<cmd, p, narg, rnarg, type, keys>>

\* The command ends inside an element: the loop ends, and r->result is still
\* what command_get has set.  An element that lacks only its LF has been taken.
ParseEnds ==
    /\ state # "end"
    /\ ~Bad
    /\ ~Whole
    /\ state' = "end"
    /\ narg' = IF state = "NARG" /\ There(NumEnd) THEN Num ELSE narg
    /\ type' = IF state # "NARG" /\ There(Start) THEN TypeSeen ELSE type
    /\ keys' = IF state # "NARG" /\ There(Start) THEN KeysSeen ELSE keys
    /\ UNCHANGED <<cmd, p, rnarg, result>>

Parse == ParseNarg \/ ParseBulk \/ ParseError \/ ParseEnds
=============================================================================
