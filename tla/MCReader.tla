------------------------------ MODULE MCReader ------------------------------
(***************************************************************************)
(* Reader for TLC.  The streams are encodings of known replies, so that    *)
(* what the reader returns can be compared with what was encoded.          *)
(***************************************************************************)
EXTENDS Reader

\* Reply trees.
Leaf(type, bytes) == [type |-> type, bytes |-> bytes]
Array(elements) == [type |-> "array", elements |-> elements]

Status == Leaf("status", <<79, 75>>)
Failure == Leaf("error", <<69>>)
Integer == Leaf("integer", <<45, 49, 50>>)
Nil == Leaf("nil", <<>>)
EmptyBulk == Leaf("string", <<>>)
Binary == Leaf("string", <<CR, LF, 36>>)

Digit(n) == <<48 + n>>

\* The encoding that a server uses.
RECURSIVE Encode(_), EncodeAll(_)
EncodeAll(s) == IF s = <<>> THEN <<>> ELSE Encode(Head(s)) \o EncodeAll(Tail(s))
Encode(t) ==
    CASE t.type = "status" -> <<43>> \o t.bytes \o <<CR, LF>>
      [] t.type = "error" -> <<45>> \o t.bytes \o <<CR, LF>>
      [] t.type = "integer" -> <<58>> \o t.bytes \o <<CR, LF>>
      [] t.type = "nil" -> <<36, 45, 49, CR, LF>>
      [] t.type = "string" -> <<36>> \o Digit(Len(t.bytes)) \o <<CR, LF>> \o t.bytes \o <<CR, LF>>
      [] t.type = "array" -> <<42>> \o Digit(Len(t.elements)) \o <<CR, LF>> \o EncodeAll(t.elements)

\* The parts of a reply.
RECURSIVE Parts(_, _)
Parts(t, path) ==
    IF t.type = "array"
    THEN {[path |-> path, type |-> "array", val |-> <<Len(t.elements)>>]}
         \cup UNION {Parts(t.elements[i], Append(path, i - 1)) : i \in DOMAIN t.elements}
    ELSE {[path |-> path, type |-> t.type, val |-> IF t.type = "integer" THEN <<-12>> ELSE t.bytes]}

RECURSIVE Nested(_)
Nested(depth) == IF depth = 0 THEN Status ELSE Array(<<Nested(depth - 1)>>)

Trees ==
    {Status, Failure, Integer, Nil, EmptyBulk, Binary, Array(<<>>),
     Array(<<Nil, Binary>>), Array(<<Array(<<Integer>>), Array(<<>>), Status>>)}

\* The items of a tree whose encoding begins at a byte.
RECURSIVE ItemsOf(_, _, _), ItemsOfAll(_, _, _)
ItemsOfAll(s, path, at) ==
    IF s = <<>> THEN <<>>
    ELSE LET front == SubSeq(s, 1, Len(s) - 1)
             k == Len(s)
         IN  ItemsOfAll(front, path, at)
             \o ItemsOf(s[k], Append(path, k - 1), at + Len(EncodeAll(front)))
ItemsOf(t, path, at) ==
    <<[at |-> at, path |-> path]>>
    \o IF t.type = "array" THEN ItemsOfAll(t.elements, path, at + 4) ELSE <<>>

\* A stream of replies, followed by other bytes and their items.
StreamOf(trees, rest, open, broken) ==
    LET n == Len(trees)
        start == Len(EncodeAll(trees))
        others == [j \in DOMAIN open |->
                     [at |-> start + open[j].at, path |-> <<n>> \o open[j].path]]
    IN  [bytes |-> EncodeAll(trees) \o rest,
         items |-> ItemsOfAll(trees, <<>>, 1) \o others,
         replies |-> [i \in DOMAIN trees |-> Parts(trees[i], <<>>)],
         ends |-> [i \in DOMAIN trees |-> Len(EncodeAll(SubSeq(trees, 1, i)))],
         bad |-> IF broken THEN others[Len(others)].at ELSE 0]

Item(at, path) == [at |-> at, path |-> path]
End == <<Item(1, <<>>)>>

\* Two replies; the deepest array there may be; one that is deeper, behind a
\* reply; a byte that is no type, at the top and in an array; a stream that ends
\* in an array; a null array and a length that is no number.
TestStreams ==
    {StreamOf(<<t, u>>, <<>>, End, FALSE) : t, u \in Trees}
    \cup {StreamOf(<<Nested(MaxTasks - 1)>>, <<>>, End, FALSE),
          StreamOf(<<Status>>, Encode(Nested(MaxTasks)),
                   [j \in 1 .. MaxTasks |-> Item(4 * j - 3, [i \in 1 .. j - 1 |-> 0])], TRUE),
          StreamOf(<<Integer>>, <<63, CR, LF>>, End, TRUE),
          StreamOf(<<>>, <<42, 50>> \o <<CR, LF>> \o Encode(Status) \o <<63>>,
                   <<Item(1, <<>>), Item(5, <<0>>), Item(10, <<1>>)>>, TRUE),
          StreamOf(<<Nil>>, <<42, 50>> \o <<CR, LF>> \o Encode(Status) \o <<36, 51, CR>>,
                   <<Item(1, <<>>), Item(5, <<0>>), Item(10, <<1>>)>>, FALSE),
          [bytes |-> <<42, 45, 49, CR, LF, 36, 63, CR, LF>>,
           items |-> <<Item(1, <<0>>), Item(6, <<1>>), Item(10, <<2>>)>>,
           replies |-> <<{[path |-> <<>>, type |-> "nil", val |-> <<>>]},
                         {[path |-> <<>>, type |-> "nil", val |-> <<>>]}>>,
           ends |-> <<5, 9>>, bad |-> 0]}
=============================================================================
