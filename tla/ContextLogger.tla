---------------------------- MODULE ContextLogger ----------------------------
(***************************************************************************)
(* The structured logger of pkg/logger.  A logger keeps the chain of       *)
(* attributes and groups by which it was derived from the service's, and   *)
(* puts what the context knows of a call in front of that chain whenever   *)
(* it writes.  Chains are Go slices: a logger has a length of an array     *)
(* that others may share, and "heap" is the sequence of these arrays.      *)
(***************************************************************************)
EXTENDS Naturals, Sequences

\* A link of a chain: attributes, each a key and its value, or else a group.
Attributes(attrs) == [attrs |-> attrs, group |-> ""]
Group(name) == [attrs |-> {}, group |-> name]

\* The service's logger, of no array.
New == [array |-> 0, len |-> 0]

Chain(heap, logger) ==
    IF logger.array = 0 THEN <<>> ELSE SubSeq(heap[logger.array], 1, logger.len)

\* Mutant of AppendOp: append writes the link into the array of the parent.
AppendOpInPlace(heap, logger, link) ==
    IF logger.array = 0
    THEN [heap |-> Append(heap, <<link>>), logger |-> [array |-> Len(heap) + 1, len |-> 1]]
    ELSE LET array == heap[logger.array]
             rest == SubSeq(array, logger.len + 2, Len(array))
         IN  [heap |-> [heap EXCEPT ![logger.array] =
                            Append(SubSeq(array, 1, logger.len), link) \o rest],
              logger |-> [logger EXCEPT !.len = @ + 1]]

\* A new array for each logger derived.
AppendOp(heap, logger, link) ==
    [heap |-> Append(heap, Append(Chain(heap, logger), link)),
     logger |-> [array |-> Len(heap) + 1, len |-> logger.len + 1]]

\* To add nothing gives the logger itself.
WithAttrs(heap, logger, attrs) ==
    IF attrs = {} THEN [heap |-> heap, logger |-> logger]
    ELSE AppendOp(heap, logger, Attributes(attrs))

WithGroup(heap, logger, name) ==
    IF name = "" THEN [heap |-> heap, logger |-> logger]
    ELSE AppendOp(heap, logger, Group(name))

\* The context of a call: its span, its request id, its user, each "" if absent.
EmptyContext == [span |-> "", request_id |-> "", user_id |-> ""]
WithRequestID(ctx, id) == IF id = "" THEN ctx ELSE [ctx EXCEPT !.request_id = id]

ContextAttrs(ctx) == {<<key, ctx[key]>> : key \in {k \in DOMAIN ctx : ctx[k] # ""}}

\* An attribute is written inside the groups that are open where it stands, each
\* known by the place where it was opened.
Opened(links, i) ==
    {<<k, links[k].group>> : k \in {j \in 1 .. (i - 1) : links[j].attrs = {}}}

Place(links) ==
    UNION {{[path |-> Opened(links, i), attr |-> a] : a \in links[i].attrs} : i \in DOMAIN links}

Outer == <<Attributes({<<"service", "identity">>})>>

\* Mutant of Handle: the context is read last, like the attributes of the record.
HandleContextLast(heap, logger, ctx, record) ==
    Place(Outer \o Chain(heap, logger) \o <<Attributes(ContextAttrs(ctx) \cup record)>>)

\* The attributes of a line.
Handle(heap, logger, ctx, record) ==
    LET context == IF ContextAttrs(ctx) = {} THEN <<>> ELSE <<Attributes(ContextAttrs(ctx))>>
    IN  Place(Outer \o context \o Chain(heap, logger) \o <<Attributes(record)>>)
=============================================================================
