----------------------------- MODULE MultiKey -----------------------------
(***************************************************************************)
(* How src/hircluster.c sends a command by its keys:                       *)
(* command_format_by_slot, command_pre_fragment, which splits MGET, DEL    *)
(* and MSET into one sub-command for each slot, and command_post_fragment, *)
(* which makes one reply of theirs.                                        *)
(*                                                                         *)
(* One command is formatted, parsed (CommandParser), split, executed and   *)
(* answered.  Sub-commands are built byte by byte into buffers whose size  *)
(* the code has computed before.  The cluster is abstracted to one server  *)
(* for each slot, which may fail; ClusterContext models how it is reached. *)
(***************************************************************************)
EXTENDS CommandParser, KeySlot

CONSTANTS
    ArgLists,     \* the commands that redisCommandArgv is called with
    RawCommands,  \* what redisClusterFormattedCommand is given otherwise
    Stores,       \* what the servers hold at first: key -> value
    MaxFaults     \* bound on the failures of servers

VARIABLES
    args,       \* history: the arguments of the command, <<>> for a raw one
    before,     \* history: what the servers held before the command
    store,      \* what they hold
    faults,
    piped,      \* the command is sent by redisClusterAppendCommand
    pc,
    slot,       \* the slot the whole command is sent to
    subs,       \* the sub-commands: slot -> sub-command
    fragSeq,    \* command->frag_seq, as the slots of the sub-commands
    commands,   \* the list of sub-commands, as slots
    replies,    \* sub_command->reply, in the order of the list
    reply       \* what the caller gets

multiVars == <<args, before, store, faults, piped, pc, slot, subs, fragSeq, commands, replies,
               reply>>
vars == <<parserVars, multiVars>>

Null == [type |-> "null"]
Error == [type |-> "error"]

-----------------------------------------------------------------------------
(* Numbers and lengths. *)

\* The digits of n, as sprintf("%d") writes them.
Decimals(n) ==
    LET width == Least({w \in 1 .. 9 : n < 10 ^ w})
    IN  [i \in 1 .. width |-> 48 + ((n \div 10 ^ (width - i)) % 10)]

\* hi_itoa(s, n), where the buffer holds the string s: for 0 it writes one digit
\* and no end, so that what stood behind it remains.
Itoa(s, n) == IF n = 0 THEN <<48>> \o Tail(s) ELSE Decimals(n)

\* uint_len
UintLen(n) == Least({w \in 1 .. 9 : n < 10 ^ w})

CRLF == <<CR, LF>>

Concat(seqs) ==
    LET c[i \in 0 .. Len(seqs)] == IF i = 0 THEN <<>> ELSE c[i - 1] \o seqs[i]
    IN  c[Len(seqs)]

\* redisFormatCommandArgv
Format(a) ==
    <<Star>> \o Decimals(Len(a)) \o CRLF
    \o Concat([i \in DOMAIN a |-> <<Dollar>> \o Decimals(Len(a[i])) \o CRLF \o a[i] \o CRLF])

-----------------------------------------------------------------------------
(* The servers (external). *)

\* The arguments of a command, and whether there is nothing but these.
Decode(bytes) ==
    LET first == DigitsEnd(bytes, 2)
        n == Decimal(bytes, 2, first)
        at[i \in 1 .. n + 1] ==
            IF i = 1 THEN first + 2
            ELSE IF at[i - 1] + 1 > Len(bytes) THEN Len(bytes) + 2
            ELSE LET e == DigitsEnd(bytes, at[i - 1] + 1)
                 IN  e + 2 + Decimal(bytes, at[i - 1] + 1, e) + 2
        from(i) == DigitsEnd(bytes, at[i] + 1) + 2
        whole == at[n + 1] = Len(bytes) + 1 /\ \A i \in 1 .. n : bytes[at[i]] = Dollar
    IN  IF whole THEN [i \in 1 .. n |-> SubSeq(bytes, from(i), at[i + 1] - 3)] ELSE <<>>

\* The keys of a command of each class, by the documentation of Redis.
KeysOf(a) ==
    LET t == TypeOf(a[1])
    IN  CASE t \in redis_argz    -> <<>>
          [] t \in redis_argx    -> Tail(a)
          [] t \in redis_argkvx  -> [i \in 1 .. Len(a) \div 2 |-> a[2 * i]]
          [] t \in redis_argeval -> IF Len(a) < 4 THEN <<>> ELSE <<a[4]>>
          [] OTHER               -> IF Len(a) < 2 THEN <<>> ELSE <<a[2]>>

\* What a server that holds st answers, and what it holds then.  Commands on
\* several keys are executed; of the others only the answer is of interest.
Execute(st, a) ==
    LET t == TypeOf(a[1])
        ks == KeysOf(a)
        set == {ks[i] : i \in DOMAIN ks}
        last(k) == CHOOSE i \in DOMAIN ks : ks[i] = k /\ \A j \in i + 1 .. Len(ks) : ks[j] # k
    IN  CASE t = "MGET" ->
                [reply |-> [type |-> "array",
                            elements |-> [i \in DOMAIN ks |->
                                            IF ks[i] \in DOMAIN st THEN <<st[ks[i]]>> ELSE <<>>]],
                 store |-> st]
          [] t = "DEL" ->
                [reply |-> [type |-> "integer", integer |-> Cardinality(set \cap DOMAIN st)],
                 store |-> [k \in DOMAIN st \ set |-> st[k]]]
          [] t = "MSET" /\ Len(a) % 2 = 1 ->
                [reply |-> [type |-> "status"],
                 store |-> [k \in DOMAIN st \cup set |->
                              IF k \in set THEN a[2 * last(k) + 1] ELSE st[k]]]
          [] t = "MSET" /\ Len(a) % 2 = 0 -> [reply |-> Error, store |-> st]
          [] OTHER -> [reply |-> [type |-> "status"], store |-> st]

\* The server of slot s gets bytes.  It refuses keys of other slots.
Served(s, bytes) ==
    LET a == Decode(bytes)
    IN  IF a = <<>> \/ \E i \in DOMAIN KeysOf(a) : ServerSlot(KeysOf(a)[i]) # s
        THEN [reply |-> Error, store |-> store]
        ELSE Execute(store, a)

\* The answers of a server that fails: an error, another type, an array with
\* nothing in it.
Failures == {Error, [type |-> "string"], [type |-> "array", elements |-> <<>>]}

Key(kp) == SubSeq(cmd, kp.start, kp.end - 1)

-----------------------------------------------------------------------------
SubCommand == [narg : Nat, keys : Seq(KeyPos), remain : Seq(Nat), clen : Nat, cmd : Seq(0 .. 255)]

NewSub == [narg |-> 0, keys |-> <<>>, remain |-> <<>>, clen |-> 0, cmd |-> <<>>]

\* Every variable holds a value of its C type.
TypeOK ==
    /\ ParserTypeOK
    /\ piped \in BOOLEAN
    /\ faults \in 0 .. MaxFaults
    /\ pc \in {"parse", "fragment", "build", "execute", "post", "returned", "undefined"}
    /\ slot \in -1 .. REDIS_CLUSTER_SLOTS - 1
    /\ DOMAIN subs \subseteq 0 .. REDIS_CLUSTER_SLOTS - 1
    /\ \A s \in DOMAIN subs : subs[s] \in SubCommand
    /\ fragSeq \in Seq(0 .. REDIS_CLUSTER_SLOTS - 1)
    /\ commands \in Seq(0 .. REDIS_CLUSTER_SLOTS - 1)
    /\ Len(replies) <= Len(commands)

Init ==
    /\ \/ \E a \in ArgLists : args = a /\ ParserInit(Format(a))
       \/ \E bytes \in RawCommands : args = <<>> /\ ParserInit(bytes)
    /\ before \in Stores
    /\ store = before
    /\ faults = 0
    /\ piped \in BOOLEAN
    /\ pc = "parse"
    /\ slot = -1
    /\ subs = <<>>
    /\ fragSeq = <<>>
    /\ commands = <<>>
    /\ replies = <<>>
    /\ reply = Null

-----------------------------------------------------------------------------
(* command_format_by_slot *)

ParseStep ==
    /\ pc = "parse"
    /\ Parse
    /\ UNCHANGED multiVars

\* The command is refused: it was not understood, or has no key.
Refuse ==
    /\ pc = "parse"
    /\ state = "end"
    /\ result # "ok" \/ keys = <<>>
    /\ pc' = "returned"
    /\ UNCHANGED <<parserVars, args, before, store, faults, piped, slot, subs, fragSeq, commands,
                   replies, reply>>

OneKey ==
    /\ pc = "parse"
    /\ state = "end"
    /\ result = "ok"
    /\ Len(keys) = 1
    /\ slot' = keyHashSlot(Key(keys[1]))
    /\ pc' = "execute"
    /\ UNCHANGED <<parserVars, args, before, store, faults, piped, subs, fragSeq, commands,
                   replies, reply>>

SeveralKeys ==
    /\ pc = "parse"
    /\ state = "end"
    /\ result = "ok"
    /\ Len(keys) > 1
    /\ pc' = "fragment"
    /\ UNCHANGED <<parserVars, args, before, store, faults, piped, slot, subs, fragSeq, commands,
                   replies, reply>>

-----------------------------------------------------------------------------
(* command_pre_fragment *)

\* The first digit behind a key of MSET: where the length of its value begins.
ValueDigits(kp) == {i \in kp.end + 1 .. Len(cmd) : cmd[i] \in Digits}

\* Mutant: the CR LF behind the value is left out.
RemainLenShort(kp) ==
    LET from == Least(ValueDigits(kp))
        to == DigitsEnd(cmd, from)
    IN  Decimal(cmd, from, to) + 2 + (to - kp.end)

\* sub_kp->remain_len: what is copied with a key of MSET, its value.
RemainLen(kp) ==
    LET from == Least(ValueDigits(kp))
        to == DigitsEnd(cmd, from)
    IN  Decimal(cmd, from, to) + 4 + (to - kp.end)

\* The value of a key of MSET is not all there: the code reads on behind the command.
ReadsBehind(kp) == ValueDigits(kp) = {} \/ kp.end - 1 + RemainLen(kp) > Len(cmd)

\* One key joins the sub-command of its slot.
FragmentKey ==
    /\ pc = "fragment"
    /\ Len(fragSeq) < Len(keys)
    /\ LET kp == keys[Len(fragSeq) + 1]
           s == keyHashSlot(Key(kp))
           sub == IF s \in DOMAIN subs THEN subs[s] ELSE NewSub
           len == kp.end - kp.start
           remain == IF type = "MSET" THEN RemainLen(kp) ELSE 0
       IN  IF type = "MSET" /\ ReadsBehind(kp)
           THEN /\ pc' = "undefined"
                /\ UNCHANGED <<slot, subs, fragSeq>>
           ELSE /\ subs' = [x \in DOMAIN subs \cup {s} |->
                              IF x # s THEN subs[x]
                              ELSE [sub EXCEPT !.narg = @ + 1,
                                               !.keys = Append(@, kp),
                                               !.remain = Append(@, remain),
                                               !.clen = @ + len + UintLen(len) + remain]]
                /\ fragSeq' = Append(fragSeq, s)
                /\ slot' = s
                /\ pc' = IF Len(fragSeq') = Len(keys) THEN "build" ELSE pc
    /\ UNCHANGED <<parserVars, args, before, store, faults, piped, commands, replies, reply>>

\* The name of the sub-commands, and what the header takes besides the number.
Header == Spelling[type]
HeaderLen == CASE type = "MGET" -> 13 [] type = "DEL" -> 12 [] type = "MSET" -> 13

\* The size of the buffer of a sub-command that has n arguments.
SubLen(sub, n) ==
    sub.clen + (IF type = "MSET" THEN 3 ELSE 5) * sub.narg + HeaderLen + Len(Decimals(n))

\* What is written into it.
SubBytes(sub, n) ==
    LET num[j \in 0 .. Len(sub.keys)] ==
            IF j = 0 THEN Decimals(n)
            ELSE Itoa(num[j - 1], sub.keys[j].end - sub.keys[j].start)
        one(j) == <<Dollar>> \o num[j] \o CRLF
                  \o (IF type = "MSET"
                      THEN SubSeq(cmd, sub.keys[j].start, sub.keys[j].end - 1 + sub.remain[j])
                      ELSE Key(sub.keys[j]) \o CRLF)
    IN  <<Star>> \o num[0] \o CRLF \o <<Dollar>> \o Decimals(Len(Header)) \o CRLF \o Header \o CRLF
        \o Concat([j \in DOMAIN sub.keys |-> one(j)])

\* The sub-command of the next slot is written.
BuildSub ==
    /\ pc = "build"
    /\ Len(commands) < Cardinality(DOMAIN subs)
    /\ LET s == Least(DOMAIN subs \ {commands[i] : i \in DOMAIN commands})
           sub == subs[s]
           n == IF type = "MSET" THEN 2 * sub.narg + 1 ELSE sub.narg + 1
       IN  /\ subs' = [subs EXCEPT ![s].narg = n,
                                   ![s].clen = SubLen(sub, n),
                                   ![s].cmd = SubBytes(sub, n)]
           /\ commands' = Append(commands, s)
    /\ UNCHANGED <<parserVars, args, before, store, faults, piped, pc, slot, fragSeq, replies,
                   reply>>

\* With one sub-command the command is sent as it is.
Built ==
    /\ pc = "build"
    /\ Len(commands) = Cardinality(DOMAIN subs)
    /\ commands' = IF Len(commands) = 1 THEN <<>> ELSE commands
    /\ fragSeq' = IF Len(commands) = 1 THEN <<>> ELSE fragSeq
    /\ pc' = "execute"
    /\ UNCHANGED <<parserVars, args, before, store, faults, piped, slot, subs, replies, reply>>

-----------------------------------------------------------------------------
(* redisClusterFormattedCommand, or redisClusterGetReply *)

\* The server of slot s answers, or fails.  Of a command that is not complete
\* it waits for the rest.
Answered(s, bytes, answer) ==
    /\ Decode(bytes) # <<>>
    /\ \/ /\ answer = Served(s, bytes).reply
          /\ store' = Served(s, bytes).store
          /\ UNCHANGED faults
       \/ /\ faults < MaxFaults
          /\ answer \in Failures
          /\ faults' = faults + 1
          /\ UNCHANGED store

ExecuteWhole ==
    /\ pc = "execute"
    /\ commands = <<>>
    /\ \E answer \in Failures \cup {Served(slot, cmd).reply} :
          /\ Answered(slot, cmd, answer)
          /\ reply' = answer
    /\ pc' = "returned"
    /\ UNCHANGED <<parserVars, args, before, piped, slot, subs, fragSeq, commands, replies>>

\* The bytes of a sub-command that are sent.
Sent(s) == SubSeq(subs[s].cmd, 1, subs[s].clen)

\* An error ends redisClusterFormattedCommand; in a pipeline all replies are read.
ExecuteSub ==
    /\ pc = "execute"
    /\ Len(replies) < Len(commands)
    /\ LET s == commands[Len(replies) + 1]
       IN  \E answer \in Failures \cup {Served(s, Sent(s)).reply} :
             /\ Answered(s, Sent(s), answer)
             /\ IF answer = Error /\ ~piped
                THEN /\ reply' = answer
                     /\ pc' = "returned"
                     /\ UNCHANGED replies
                ELSE /\ replies' = Append(replies, answer)
                     /\ pc' = IF Len(replies') = Len(commands) THEN "post" ELSE pc
                     /\ UNCHANGED reply
    /\ UNCHANGED <<parserVars, args, before, piped, slot, subs, fragSeq, commands>>

-----------------------------------------------------------------------------
(* command_post_fragment *)

\* Mutant: MSET has no reply worth looking at.
ExpectedButMset(r) ==
    CASE type = "MGET" -> r.type = "array"
      [] type = "DEL"  -> r.type = "integer"
      [] type = "MSET" -> TRUE

\* The type that the replies of the sub-commands must have.
Expected(r) ==
    CASE type = "MGET" -> r.type = "array"
      [] type = "DEL"  -> r.type = "integer"
      [] type = "MSET" -> r.type = "status"

ReplyOf(s) == replies[CHOOSE j \in DOMAIN commands : commands[j] = s]

\* Which element of its sub-command's reply belongs to the key i: the keys are
\* walked backwards, and each takes the last element that is left.
Element(i) ==
    Len(ReplyOf(fragSeq[i]).elements)
        - Cardinality({j \in i + 1 .. Len(fragSeq) : fragSeq[j] = fragSeq[i]})

\* The sum over the sub-commands.
Total ==
    LET t[j \in 0 .. Len(replies)] == IF j = 0 THEN 0 ELSE t[j - 1] + replies[j].integer
    IN  t[Len(replies)]

PostFragment ==
    /\ pc = "post"
    /\ LET bad == {j \in DOMAIN replies : ~Expected(replies[j])}
       IN  reply' =
             IF bad # {}
             THEN IF replies[Least(bad)] = Error THEN Error ELSE Null
             ELSE CASE type = "MGET" /\ (\E i \in DOMAIN fragSeq : Element(i) <= 0) -> Null
                    [] type = "MGET" /\ (\A i \in DOMAIN fragSeq : Element(i) > 0) ->
                          [type |-> "array",
                           elements |-> [i \in DOMAIN fragSeq |->
                                           ReplyOf(fragSeq[i]).elements[Element(i)]]]
                    [] type = "DEL"  -> [type |-> "integer", integer |-> Total]
                    [] type = "MSET" -> [type |-> "status"]
    /\ pc' = "returned"
    /\ UNCHANGED <<parserVars, args, before, store, faults, piped, slot, subs, fragSeq, commands,
                   replies>>

-----------------------------------------------------------------------------
Next ==
    \/ ParseStep
    \/ Refuse
    \/ OneKey
    \/ SeveralKeys
    \/ FragmentKey
    \/ BuildSub
    \/ Built
    \/ ExecuteWhole
    \/ ExecuteSub
    \/ PostFragment

Spec == Init /\ [][Next]_vars

-----------------------------------------------------------------------------
(* Properties *)

Formatted == args # <<>>

\* Every variable has its type, and the parser finds the keys of every command
\* it accepts, and nothing else: of MGET, DEL and MSET all of them, in order,
\* of EVAL and the rest the first.
KeysFound ==
    /\ TypeOK
    /\ state = "end" /\ result = "ok" /\ Formatted =>
          [i \in DOMAIN keys |-> Key(keys[i])] = KeysOf(args)

\* A sub-command fills the buffer that was computed for it, neither more
\* (command_pre_fragment would write behind it) nor less, and is complete: the
\* server of its slot waits for nothing more.  So it is as long as every number
\* in it has one digit: hi_itoa writes no end behind a 0, so the length of an
\* empty key behind a key of ten bytes or more is followed by what is left of
\* the length before it.
SubCommandsWhole ==
    \A i \in DOMAIN commands :
        /\ Len(subs[commands[i]].cmd) = subs[commands[i]].clen
        /\ Decode(Sent(commands[i])) # <<>>

\* However the keys are spread over the slots, repeated or mixed, the caller
\* gets the reply, and the servers hold the values, that one server would have
\* given for the command as a whole.  No server is sent a key of another slot:
\* it would have refused the command.
AsIfWhole ==
    pc = "returned" /\ result = "ok" /\ keys # <<>> /\ Formatted /\ faults = 0 =>
        /\ reply = Execute(before, args).reply
        /\ store = Execute(before, args).store

\* When a server has failed, the caller does not get a reply that looks like
\* that of a command that succeeded on all its keys.
NoFalseSuccess ==
    pc = "returned" /\ fragSeq # <<>> /\ faults > 0 => reply \in {Error, Null}
=============================================================================
