----------------------------- MODULE MCMultiKey -----------------------------
(***************************************************************************)
(* MultiKey for TLC: commands of every class, with too few, enough and too *)
(* many arguments; MGET, DEL and MSET with every choice of up to three     *)
(* keys; commands that are not well formed.                                *)
(***************************************************************************)
EXTENDS MultiKey, TLC

\* A command of each class.
MCSpelling ==
    "PING" :> <<112, 105, 110, 103>> @@
    "GET" :> <<103, 101, 116>> @@
    "GETSET" :> <<103, 101, 116, 115, 101, 116>> @@
    "HSET" :> <<104, 115, 101, 116>> @@
    "LINSERT" :> <<108, 105, 110, 115, 101, 114, 116>> @@
    "SET" :> <<115, 101, 116>> @@
    "MGET" :> <<109, 103, 101, 116>> @@
    "DEL" :> <<100, 101, 108>> @@
    "MSET" :> <<109, 115, 101, 116>> @@
    "EVAL" :> <<101, 118, 97, 108>>

\* The names as the application spells them.
Upper(name) == [i \in DOMAIN name |-> name[i] - 32]
Name(t) == Upper(MCSpelling[t])

\* The empty key; two keys with the same tag; an empty tag; a tag that is not closed.
A == <<97>>
TaggedA == <<123, 97, 125, 98>>
EmptyTag == <<123, 125, 97>>
OpenTag == <<123, 97>>
Keys == {<<>>, A, TaggedA, EmptyTag}

\* The empty value, a digit, and one that looks like the protocol.
Five == <<53>>
Values == {<<>>, Five, <<CR, LF, 36, 49>>}

Tuples(n, S) == [1 .. n -> S]

\* MSET of pairs of keys and values.
Pairs(ps) == [i \in 1 .. 2 * Len(ps) |-> ps[(i + 1) \div 2][IF i % 2 = 1 THEN 1 ELSE 2]]

MCArgLists ==
    {<<Name(t)>> \o ks : t \in {"MGET", "DEL"}, ks \in UNION {Tuples(n, Keys) : n \in 1 .. 3}}
    \cup {<<Name("MSET")>> \o Pairs(ps) : ps \in Tuples(2, Keys \X Values)}
    \cup {<<Name("MSET")>> \o Pairs(ps) : ps \in Tuples(3, Keys \X {Five})}
    \cup {<<Name(t)>> \o [i \in 1 .. n |-> A] : t \in DOMAIN MCSpelling, n \in 0 .. 5}
    \cup {<<Name("EVAL"), A, <<48 + n>>>> \o ks : n \in 0 .. 1,
                                                   ks \in UNION {Tuples(m, {<<>>, A}) : m \in 0 .. 2}}
    \cup {<<Name("GET"), <<byte>>>> : byte \in 0 .. 255}
    \cup {<<Name("GET"), k>> : k \in {OpenTag, <<>>, TaggedA, EmptyTag}}

Cut(bytes, n) == SubSeq(bytes, 1, Len(bytes) - n)

\* An inline command; no arguments; a name that is unknown; a length that is
\* wrong; commands that end behind the CR of a key, behind its LF, and in the
\* length of a value.
MCRawCommands ==
    LET mset == Format(<<Name("MSET"), A, Five, <<98>>, Five>>)
    IN  {Name("PING") \o CRLF,
         <<42, 48>> \o CRLF,
         Format(<<A>>),
         <<42, 50>> \o CRLF \o <<36, 51>> \o CRLF \o Name("GET") \o CRLF
            \o <<36, 49>> \o CRLF \o A \o A \o CRLF,
         Cut(Format(<<Name("MGET"), A, A>>), 7),
         Cut(Format(<<Name("MGET"), A, A>>), 1),
         Cut(Format(<<Name("GET"), A>>), 1),
         Cut(Format(<<Name("PING")>>), 1),
         Cut(mset, 8), Cut(mset, 7), Cut(mset, 5)}

MCStores == {<<>> :> Five, [k \in Keys |-> IF k = A THEN <<>> ELSE Five]}

\* An empty key behind one of ten letters in the same slot.
LongKey == <<117, 115, 101, 114, 58, 50, 56, 52, 56, 57>>
LongArgLists == {<<Name("MGET"), LongKey, <<>>, A>>}
=============================================================================
