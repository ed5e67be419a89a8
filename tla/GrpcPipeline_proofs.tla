------------------------- MODULE GrpcPipeline_proofs -------------------------
(***************************************************************************)
(* The safety of GrpcPipeline for any number of calls, any requests and    *)
(* any errors, and however many loggers a handler derives.                 *)
(***************************************************************************)
EXTENDS GrpcPipeline, ErrorKinds_proofs

-----------------------------------------------------------------------------
(* Lines: where the attributes of a line stand.                             *)

LEMMA LinkFields ==
    /\ \A attrs : Attributes(attrs).attrs = attrs /\ Attributes(attrs).group = ""
    /\ \A name : Group(name).attrs = {} /\ Group(name).group = name
    BY DEF Attributes, Group

\* The context of a call, by what is in it.
IsContext(context, s, r) == context = [span |-> s, request_id |-> r, user_id |-> ""]

\* What the context adds to a line.
LEMMA ContextAttrsOf ==
    ASSUME NEW context, NEW s, NEW r, IsContext(context, s, r)
    PROVE  /\ s # "" => <<"span", s>> \in ContextAttrs(context)
           /\ r # "" => <<"request_id", r>> \in ContextAttrs(context)
           /\ \A a \in ContextAttrs(context) :
                  a = <<"span", s>> \/ a = <<"request_id", r>>
<1>1. /\ DOMAIN context = {"span", "request_id", "user_id"}
      /\ context["span"] = s /\ context["request_id"] = r /\ context["user_id"] = ""
    BY DEF IsContext
<1>2. s # "" => <<"span", s>> \in ContextAttrs(context)
    BY <1>1 DEF ContextAttrs
<1>3. r # "" => <<"request_id", r>> \in ContextAttrs(context)
    BY <1>1 DEF ContextAttrs
<1>4. ASSUME NEW a \in ContextAttrs(context)
      PROVE  a = <<"span", s>> \/ a = <<"request_id", r>>
    <2>1. PICK key \in DOMAIN context : context[key] # "" /\ a = <<key, context[key]>>
        BY DEF ContextAttrs
    <2> QED  BY <1>1, <2>1
<1> QED  BY <1>2, <1>3, <1>4

\* The links that a line is made of: the service's, then those of the context,
\* then the logger's own, and last those of the record.
LaidOut(line, k, chain, context, record) ==
    /\ DOMAIN line = 1 .. (k + Len(chain) + 1)
    /\ line[1] = Attributes({<<"service", "identity">>})
    /\ k = 2 <=> ContextAttrs(context) # {}
    /\ k = 2 => line[2] = Attributes(ContextAttrs(context))
    /\ \A j \in 1 .. Len(chain) : line[k + j] = chain[j]
    /\ line[k + Len(chain) + 1] = Attributes(record)

\* A line is made of these.
LEMMA Layout ==
    ASSUME NEW c, NEW arrays, NEW logger, NEW context, NEW record,
           NEW chain \in Seq(Links(c)), chain = Chain(arrays, logger)
    PROVE  \E line : \E k \in {1, 2} :
               /\ Handle(arrays, logger, context, record) = Place(line)
               /\ LaidOut(line, k, chain, context, record)
<1> DEFINE service == Attributes({<<"service", "identity">>})
           known == Attributes(ContextAttrs(context))
           said == Attributes(record)
           Every == Links(c) \cup {service, known, said}
           ctxs == IF ContextAttrs(context) = {} THEN <<>> ELSE <<known>>
           k == IF ContextAttrs(context) = {} THEN 1 ELSE 2
           a == Outer \o ctxs
           b == a \o chain
           line == b \o <<said>>
<1>1. Handle(arrays, logger, context, record) = Place(line)
    BY DEF Handle
<1>2. Outer = <<service>>
    BY DEF Outer
<1>3. service \in Every /\ known \in Every /\ said \in Every /\ Links(c) \subseteq Every
    OBVIOUS
<1>4. chain \in Seq(Every) /\ Len(chain) \in Nat
    BY <1>3, SeqMonotonic, LenProperties
<1> HIDE DEF service, known, said, Every, line, b, a
<1>5. /\ <<service>> \in Seq(Every) /\ Len(<<service>>) = 1 /\ <<service>>[1] = service
      /\ <<said>> \in Seq(Every) /\ Len(<<said>>) = 1 /\ <<said>>[1] = said
      /\ <<known>> \in Seq(Every) /\ Len(<<known>>) = 1 /\ <<known>>[1] = known
    BY <1>3
<1>6. /\ ctxs \in Seq(Every) /\ Len(ctxs) = k - 1 /\ k \in {1, 2}
      /\ k = 2 => ctxs[1] = known
    BY <1>5, EmptySeq
<1>7. k = 2 <=> ContextAttrs(context) # {}
    OBVIOUS
<1> HIDE DEF ctxs, k
<1>8. /\ a \in Seq(Every) /\ Len(a) = k
      /\ a[1] = service /\ (k = 2 => a[2] = known)
    <2>1. /\ a \in Seq(Every) /\ Len(a) = 1 + (k - 1)
          /\ \A i \in 1 .. 1 + (k - 1) : a[i] = IF i <= 1 THEN <<service>>[i] ELSE ctxs[i - 1]
        BY <1>2, <1>5, <1>6, ConcatProperties DEF a
    <2> QED  BY <1>5, <1>6, <2>1
<1>9. /\ b \in Seq(Every) /\ Len(b) = k + Len(chain)
      /\ b[1] = service /\ (k = 2 => b[2] = known)
      /\ \A j \in 1 .. Len(chain) : b[k + j] = chain[j]
    <2>1. /\ b \in Seq(Every) /\ Len(b) = k + Len(chain)
          /\ \A i \in 1 .. k + Len(chain) : b[i] = IF i <= k THEN a[i] ELSE chain[i - k]
        BY <1>4, <1>8, ConcatProperties DEF b
    <2>2. ASSUME NEW j \in 1 .. Len(chain) PROVE b[k + j] = chain[j]
        <3>1. PICK i \in 1 .. k + Len(chain) : i = k + j
            BY <1>4, <1>6
        <3>2. ~(i <= k) /\ i - k = j
            BY <1>4, <1>6, <3>1
        <3>3. b[i] = IF i <= k THEN a[i] ELSE chain[i - k]
            BY <2>1
        <3>4. b[i] = chain[j]
            BY <3>2, <3>3
        <3> QED  BY <3>1, <3>4
    <2>3. /\ 1 \in 1 .. k + Len(chain) /\ 1 <= k
          /\ k = 2 => 2 \in 1 .. k + Len(chain) /\ 2 <= k
        BY <1>4, <1>6
    <2> QED  BY <1>4, <1>6, <1>8, <2>1, <2>2, <2>3
<1>10. /\ line \in Seq(Every) /\ Len(line) = k + Len(chain) + 1
       /\ line[1] = service /\ (k = 2 => line[2] = known)
       /\ \A j \in 1 .. Len(chain) : line[k + j] = chain[j]
       /\ line[k + Len(chain) + 1] = said
    <2>2. /\ line \in Seq(Every) /\ Len(line) = Len(b) + 1
          /\ \A i \in 1 .. Len(b) + 1 : line[i] = IF i <= Len(b) THEN b[i] ELSE <<said>>[i - Len(b)]
        BY <1>5, <1>9, ConcatProperties DEF line
    <2>3. \A i \in 1 .. k + Len(chain) : line[i] = b[i]
        BY <1>4, <1>6, <1>9, <2>2
    <2>4. /\ 1 \in 1 .. k + Len(chain)
          /\ k = 2 => 2 \in 1 .. k + Len(chain)
          /\ \A j \in 1 .. Len(chain) : k + j \in 1 .. k + Len(chain)
        BY <1>4, <1>6
    <2>5. line[k + Len(chain) + 1] = said
        <3>1. PICK n \in Nat : n = k + Len(chain)
            BY <1>4, <1>6
        <3>2. n + 1 \in 1 .. n + 1 /\ ~(n + 1 <= n) /\ n + 1 - n = 1
            OBVIOUS
        <3>3. line[n + 1] = IF n + 1 <= n THEN b[n + 1] ELSE <<said>>[n + 1 - n]
            BY <1>9, <2>2, <3>1, <3>2
        <3>4. line[n + 1] = <<said>>[1]
            BY <3>2, <3>3
        <3> QED  BY <1>5, <3>1, <3>4
    <2> QED  BY <1>9, <2>2, <2>3, <2>4, <2>5
<1>11. DOMAIN line = 1 .. (k + Len(chain) + 1)
    BY <1>10, LenProperties
<1>12. LaidOut(line, k, chain, context, record)
    BY <1>7, <1>10, <1>11 DEF LaidOut, service, known, said
<1> QED  BY <1>1, <1>6, <1>12

\* What is found under a key of a line.
LEMMA FoundAt ==
    ASSUME NEW line, NEW key, NEW x
    PROVE  x \in At(Place(line), key) <=>
               \E p \in DOMAIN line : \E a \in line[p].attrs :
                   a[1] = key /\ x = <<Opened(line, p), a[2]>>
<1> DEFINE places(p) == {[path |-> Opened(line, p), attr |-> a] : a \in line[p].attrs}
<1>1. Place(line) = UNION {places(p) : p \in DOMAIN line}
    BY DEF Place
<1>2. ASSUME x \in At(Place(line), key)
      PROVE  \E p \in DOMAIN line : \E a \in line[p].attrs :
                 a[1] = key /\ x = <<Opened(line, p), a[2]>>
    <2>1. PICK b \in Place(line) : b.attr[1] = key /\ x = <<b.path, b.attr[2]>>
        BY <1>2 DEF At
    <2>2. PICK p \in DOMAIN line : b \in places(p)
        BY <1>1
    <2>3. PICK a \in line[p].attrs : b = [path |-> Opened(line, p), attr |-> a]
        BY <2>2
    <2>4. b.attr = a /\ b.path = Opened(line, p)
        BY <2>3
    <2> QED  BY <2>1, <2>4
<1>3. ASSUME NEW p \in DOMAIN line, NEW a \in line[p].attrs,
             a[1] = key, x = <<Opened(line, p), a[2]>>
      PROVE  x \in At(Place(line), key)
    <2>1. [path |-> Opened(line, p), attr |-> a] \in places(p)
        OBVIOUS
    <2>2. PICK b \in Place(line) : b = [path |-> Opened(line, p), attr |-> a]
        BY <1>1, <2>1
    <2>3. b.attr = a /\ b.path = Opened(line, p)
        BY <2>2
    <2> QED  BY <1>3, <2>3 DEF At
<1> QED  BY <1>2, <1>3

\* A value that a line has outside of every group, and nothing else under its key.
OnTop(line, key, v) == At(line, key) = {<<{}, v>>}

\* A key that is in one link, outside of every group, is in the line once.
LEMMA FoundOnce ==
    ASSUME NEW line, NEW p \in DOMAIN line, NEW key, NEW v,
           <<key, v>> \in line[p].attrs, Opened(line, p) = {},
           \A i \in DOMAIN line : \A a \in line[i].attrs : a[1] = key => i = p /\ a[2] = v
    PROVE  OnTop(Place(line), key, v)
<1>1. <<{}, v>> \in At(Place(line), key)
    <2>1. PICK a \in line[p].attrs : a = <<key, v>>
        OBVIOUS
    <2>2. a[1] = key /\ <<{}, v>> = <<Opened(line, p), a[2]>>
        BY <2>1
    <2> QED  BY <2>2, FoundAt
<1>2. ASSUME NEW x \in At(Place(line), key) PROVE x = <<{}, v>>
    <2>1. PICK i \in DOMAIN line : \E a \in line[i].attrs :
              a[1] = key /\ x = <<Opened(line, i), a[2]>>
        BY FoundAt
    <2> QED  BY <2>1
<1> QED  BY <1>1, <1>2 DEF OnTop

\* A record, or a line's, that says nothing under the keys of the ids.
NoId(record) == \A a \in record : a[1] \notin {"span", "request_id"}

\* The ids of the context stand at the top of each line, and nowhere else.
LEMMA IdsOnTop ==
    ASSUME NEW c, NEW arrays, NEW logger, NEW context, NEW s, NEW r, NEW record,
           IsContext(context, s, r), NoId(record), Chain(arrays, logger) \in Seq(Links(c))
    PROVE  /\ s # "" => OnTop(Handle(arrays, logger, context, record), "span", s)
           /\ r # "" => OnTop(Handle(arrays, logger, context, record), "request_id", r)
<1>0. PICK chain \in Seq(Links(c)) : chain = Chain(arrays, logger)
    OBVIOUS
<1>1. /\ s # "" => <<"span", s>> \in ContextAttrs(context)
      /\ r # "" => <<"request_id", r>> \in ContextAttrs(context)
      /\ \A a \in ContextAttrs(context) : a = <<"span", s>> \/ a = <<"request_id", r>>
    BY ContextAttrsOf
<1>2. Len(chain) \in Nat /\ \A j \in 1 .. Len(chain) : chain[j] \in Links(c)
    BY LenProperties, ElementOfSeq
<1>3. SUFFICES ASSUME s # "" \/ r # ""
               PROVE  /\ s # "" => OnTop(Handle(arrays, logger, context, record), "span", s)
                      /\ r # "" => OnTop(Handle(arrays, logger, context, record), "request_id", r)
    OBVIOUS
<1>4. ContextAttrs(context) # {}
    BY <1>1, <1>3
<1>5. PICK line : /\ Handle(arrays, logger, context, record) = Place(line)
                  /\ DOMAIN line = 1 .. (2 + Len(chain) + 1)
                  /\ line[1] = Attributes({<<"service", "identity">>})
                  /\ line[2] = Attributes(ContextAttrs(context))
                  /\ \A j \in 1 .. Len(chain) : line[2 + j] = chain[j]
                  /\ line[2 + Len(chain) + 1] = Attributes(record)
    <2>1. PICK line : \E k \in {1, 2} :
              /\ Handle(arrays, logger, context, record) = Place(line)
              /\ LaidOut(line, k, chain, context, record)
        BY <1>0, Layout
    <2>2. LaidOut(line, 2, chain, context, record)
        BY <1>4, <2>1 DEF LaidOut
    <2> QED  BY <2>1, <2>2 DEF LaidOut
<1>6. /\ line[1].attrs = {<<"service", "identity">>}
      /\ line[2].attrs = ContextAttrs(context)
      /\ line[2 + Len(chain) + 1].attrs = record
    <2>1. \A attrs : Attributes(attrs).attrs = attrs
        BY LinkFields
    <2> QED  BY ONLY <1>5, <2>1
<1>7. ASSUME NEW i \in DOMAIN line, NEW a \in line[i].attrs, a[1] \in {"span", "request_id"}
      PROVE  i = 2
    <2>1. CASE i = 1
        BY <1>6, <1>7, <2>1
    <2>2. CASE i = 2 + Len(chain) + 1
        BY <1>6, <1>7, <2>2 DEF NoId
    <2>3. CASE i > 2 /\ i < 2 + Len(chain) + 1
        <3>1. PICK j \in 1 .. Len(chain) : i = 2 + j
            <4>1. i - 2 \in 1 .. Len(chain) /\ i = 2 + (i - 2)
                BY <1>2, <1>5, <2>3
            <4> QED  BY <4>1
        <3>2. line[i] = chain[j] /\ chain[j] \in Links(c)
            BY <1>2, <1>5, <3>1
        <3>3. line[i].attrs = {<<"step", c>>} \/ line[i].attrs = {}
            BY <3>2, LinkFields DEF Links
        <3> QED  BY <1>7, <3>3
    <2> QED  BY <1>2, <1>5, <2>1, <2>2, <2>3
<1>8. 2 \in DOMAIN line
    BY <1>2, <1>5
<1>9. Opened(line, 2) = {}
    <2>1. ASSUME NEW k \in 1 .. (2 - 1) PROVE line[k].attrs # {}
        <3>1. k = 1
            OBVIOUS
        <3> QED  BY <1>6, <3>1
    <2> QED  BY <2>1 DEF Opened
<1>10. \A a \in line[2].attrs : /\ a[1] = "span" => a[2] = s
                                /\ a[1] = "request_id" => a[2] = r
    <2>1. ASSUME NEW a \in line[2].attrs
          PROVE  /\ a[1] = "span" => a[2] = s
                 /\ a[1] = "request_id" => a[2] = r
        <3>1. a = <<"span", s>> \/ a = <<"request_id", r>>
            BY <1>1, <1>6
        <3>2. CASE a = <<"span", s>>
            BY <3>2
        <3>3. CASE a = <<"request_id", r>>
            BY <3>3
        <3> QED  BY <3>1, <3>2, <3>3
    <2> QED  BY <2>1
<1>11. ASSUME s # "" PROVE OnTop(Place(line), "span", s)
    <2>1. \A i \in DOMAIN line : \A a \in line[i].attrs : a[1] = "span" => i = 2 /\ a[2] = s
        BY <1>7, <1>10
    <2>2. <<"span", s>> \in line[2].attrs
        BY <1>1, <1>6, <1>11
    <2> QED  BY <1>8, <1>9, <2>1, <2>2, FoundOnce
<1>12. ASSUME r # "" PROVE OnTop(Place(line), "request_id", r)
    <2>1. \A i \in DOMAIN line : \A a \in line[i].attrs :
              a[1] = "request_id" => i = 2 /\ a[2] = r
        BY <1>7, <1>10
    <2>2. <<"request_id", r>> \in line[2].attrs
        BY <1>1, <1>6, <1>12
    <2> QED  BY <1>8, <1>9, <2>1, <2>2, FoundOnce
<1> QED  BY <1>5, <1>11, <1>12

\* The groups that a chain has before its i-th link.
GroupsBefore(links, i) == {j \in 1 .. (i - 1) : links[j].group = "db"}

\* The groups that are open at a link of a logger's own, in its chain and in the
\* line, are as many.
LEMMA Depth ==
    ASSUME NEW c, NEW links \in Seq(Links(c)), NEW line, NEW k \in {1, 2},
           \A m \in 1 .. k : line[m].attrs # {},
           \A j \in 1 .. Len(links) : line[k + j] = links[j],
           NEW i \in 1 .. (Len(links) + 1)
    PROVE  Cardinality(Opened(line, k + i))
               = Cardinality(GroupsBefore(links, i))
<1> DEFINE groups == GroupsBefore(links, i)
           f == [j \in groups |-> <<k + j, "db">>]
<1>1. Len(links) \in Nat /\ \A j \in 1 .. Len(links) : links[j] \in Links(c)
    BY LenProperties, ElementOfSeq
<1>2. ASSUME NEW j \in 1 .. (i - 1)
      PROVE  /\ line[k + j] = links[j]
             /\ links[j].attrs = {} <=> links[j].group = "db"
    <2>1. j \in 1 .. Len(links)
        BY <1>1
    <2>2. links[j] = Attributes({<<"step", c>>}) \/ links[j] = Group("db")
        BY <1>1, <2>1 DEF Links
    <2>3. CASE links[j] = Attributes({<<"step", c>>})
        <3>1. links[j].attrs = {<<"step", c>>} /\ links[j].group = ""
            BY <2>3, LinkFields
        <3> QED  BY <2>1, <3>1
    <2>4. CASE links[j] = Group("db")
        <3>1. links[j].attrs = {} /\ links[j].group = "db"
            BY <2>4, LinkFields
        <3> QED  BY <2>1, <3>1
    <2> QED  BY <2>2, <2>3, <2>4
<1> USE DEF GroupsBefore
<1>3. ASSUME NEW m \in 1 .. (k + i - 1), line[m].attrs = {}
      PROVE  \E j \in groups : m = k + j /\ line[m].group = "db"
    <2>1. m > k
        BY <1>3
    <2>2. PICK j \in 1 .. (i - 1) : m = k + j
        <3>1. m - k \in 1 .. (i - 1) /\ m = k + (m - k)
            BY <2>1
        <3> QED  BY <3>1
    <2>3. line[m] = links[j] /\ links[j].attrs = {}
        BY <1>2, <1>3, <2>2
    <2>4. links[j].group = "db"
        BY <1>2, <2>3
    <2> QED  BY <2>2, <2>3, <2>4
<1>4. ASSUME NEW j \in groups
      PROVE  /\ k + j \in 1 .. (k + i - 1)
             /\ line[k + j].attrs = {} /\ line[k + j].group = "db"
    BY <1>2
<1>5. Opened(line, k + i) = {<<k + j, "db">> : j \in groups}
    <2>1. ASSUME NEW x \in Opened(line, k + i) PROVE \E j \in groups : x = <<k + j, "db">>
        <3>1. PICK m \in 1 .. (k + i - 1) : line[m].attrs = {} /\ x = <<m, line[m].group>>
            BY DEF Opened
        <3> QED  BY <1>3, <3>1
    <2>2. ASSUME NEW j \in groups PROVE <<k + j, "db">> \in Opened(line, k + i)
        BY <1>4 DEF Opened
    <2> QED  BY <2>1, <2>2
<1> HIDE DEF groups
<1>6. f \in Bijection(groups, Opened(line, k + i))
    <2>1. \A j \in groups : j \in Nat
        BY DEF groups
    <2>2. f \in [groups -> Opened(line, k + i)]
        BY <1>5
    <2>3. \A x, y \in groups : f[x] = f[y] => x = y
        BY <2>1
    <2>4. \A x \in Opened(line, k + i) : \E j \in groups : f[j] = x
        BY <1>5
    <2> QED  BY <2>2, <2>3, <2>4 DEF Bijection, Injection, Surjection, IsInjective
<1>7. IsFiniteSet(groups)
    <2>1. IsFiniteSet(1 .. (i - 1))
        BY <1>1, FS_Interval
    <2> QED  BY <2>1, FS_Subset DEF groups
<1>8. Cardinality(Opened(line, k + i)) = Cardinality(groups)
    BY <1>6, <1>7, FS_Bijection DEF ExistsBijection
<1> QED  BY <1>8 DEF groups

\* A line that carries each attribute of a chain at the depth at which it was added,
\* and those of the record at the depth of the whole chain.
CarriesChain(attrs, c, links) ==
    LET steps == {i \in DOMAIN links : links[i].attrs # {}}
        depth(i) == Cardinality({j \in 1 .. (i - 1) : links[j].group = "db"})
    IN  /\ {<<Cardinality(a[1]), a[2]>> : a \in At(attrs, "step")} = {<<depth(i), c>> : i \in steps}
        /\ \A a \in At(attrs, "said") : Cardinality(a[1]) = depth(Len(links) + 1)

\* Whatever is written through a logger is such a line.
LEMMA ChainInLine ==
    ASSUME NEW c, NEW arrays, NEW logger, NEW context, NEW s, NEW r, NEW record,
           IsContext(context, s, r), record = {<<"said", c>>},
           NEW links \in Seq(Links(c)), links = Chain(arrays, logger)
    PROVE  CarriesChain(Handle(arrays, logger, context, record), c, links)
<1> DEFINE attrs == Handle(arrays, logger, context, record)
           steps == {i \in DOMAIN links : links[i].attrs # {}}
           depth(i) == Cardinality({j \in 1 .. (i - 1) : links[j].group = "db"})
<1>1. \A a \in ContextAttrs(context) : a = <<"span", s>> \/ a = <<"request_id", r>>
    BY ContextAttrsOf
<1> HIDE DEF attrs
<1>2. /\ Len(links) \in Nat /\ DOMAIN links = 1 .. Len(links)
      /\ \A j \in 1 .. Len(links) : links[j] \in Links(c)
    BY LenProperties, ElementOfSeq
<1>3. PICK line : \E k \in {1, 2} :
          /\ Handle(arrays, logger, context, record) = Place(line)
          /\ LaidOut(line, k, links, context, record)
    BY Layout
<1>4. PICK k \in {1, 2} :
         /\ attrs = Place(line)
         /\ DOMAIN line = 1 .. (k + Len(links) + 1)
         /\ line[1] = Attributes({<<"service", "identity">>})
         /\ k = 2 <=> ContextAttrs(context) # {}
         /\ k = 2 => line[2] = Attributes(ContextAttrs(context))
         /\ \A j \in 1 .. Len(links) : line[k + j] = links[j]
         /\ line[k + Len(links) + 1] = Attributes({<<"said", c>>})
    BY <1>3 DEF attrs, LaidOut
<1>5. /\ line[1].attrs = {<<"service", "identity">>}
      /\ k = 2 => line[2].attrs = ContextAttrs(context)
      /\ line[k + Len(links) + 1].attrs = {<<"said", c>>}
    <2>1. \A as : Attributes(as).attrs = as
        BY LinkFields
    <2> QED  BY ONLY <1>4, <2>1
<1>6. ASSUME NEW m \in 1 .. k
      PROVE  /\ line[m].attrs # {}
             /\ \A a \in line[m].attrs : a[1] \notin {"step", "said"}
    <2>1. CASE m = 1
        <3>1. line[m].attrs = {<<"service", "identity">>}
            BY <1>5, <2>1
        <3>2. ASSUME NEW a \in line[m].attrs PROVE a[1] \notin {"step", "said"}
            <4>1. a = <<"service", "identity">>
                BY <3>1
            <4> QED  BY <4>1
        <3> QED  BY <3>1, <3>2
    <2>2. CASE m = 2 /\ k = 2
        <3>1. line[m].attrs = ContextAttrs(context) /\ ContextAttrs(context) # {}
            BY <1>4, <1>5, <2>2
        <3>2. ASSUME NEW a \in line[m].attrs PROVE a[1] \notin {"step", "said"}
            <4>1. a = <<"span", s>> \/ a = <<"request_id", r>>
                BY <1>1, <3>1
            <4> QED  BY <4>1
        <3> QED  BY <3>1, <3>2
    <2> QED  BY <2>1, <2>2
<1>7. ASSUME NEW j \in 1 .. Len(links)
      PROVE  \/ links[j].attrs = {<<"step", c>>}
             \/ links[j].attrs = {}
    <2>1. links[j] = Attributes({<<"step", c>>}) \/ links[j] = Group("db")
        BY <1>2 DEF Links
    <2>2. CASE links[j] = Attributes({<<"step", c>>})
        BY <2>2, LinkFields
    <2>3. CASE links[j] = Group("db")
        BY <2>3, LinkFields
    <2> QED  BY <2>1, <2>2, <2>3
<1>8. ASSUME NEW i \in 1 .. (Len(links) + 1) PROVE Cardinality(Opened(line, k + i)) = depth(i)
    <2>1. /\ \A m \in 1 .. k : line[m].attrs # {}
          /\ \A j \in 1 .. Len(links) : line[k + j] = links[j]
        BY <1>4, <1>6
    <2>2. Cardinality(Opened(line, k + i)) = Cardinality(GroupsBefore(links, i))
        BY <2>1, Depth
    <2> QED  BY <2>2 DEF GroupsBefore
<1> HIDE DEF depth
<1>9. ASSUME NEW p \in DOMAIN line, NEW a \in line[p].attrs, a[1] = "step"
      PROVE  \E i \in steps : p = k + i /\ a[2] = c
    <2>1. ~(p \in 1 .. k)
        BY <1>6, <1>9
    <2>2. p # k + Len(links) + 1
        BY <1>5, <1>9
    <2>3. PICK i \in 1 .. Len(links) : p = k + i
        <3>1. p - k \in 1 .. Len(links) /\ p = k + (p - k)
            BY <1>2, <1>4, <2>1, <2>2
        <3> QED  BY <3>1
    <2>4. line[p] = links[i]
        BY <1>4, <2>3
    <2>5. links[i].attrs = {<<"step", c>>}
        BY <1>7, <1>9, <2>4
    <2> QED  BY <1>2, <1>9, <2>3, <2>4, <2>5
<1>10. ASSUME NEW p \in DOMAIN line, NEW a \in line[p].attrs, a[1] = "said"
       PROVE  p = k + (Len(links) + 1)
    <2>1. ~(p \in 1 .. k)
        BY <1>6, <1>10
    <2>2. ASSUME NEW i \in 1 .. Len(links), p = k + i PROVE FALSE
        BY <1>4, <1>7, <1>10, <2>2
    <2>3. SUFFICES ASSUME p # k + Len(links) + 1 PROVE FALSE
        BY <1>2
    <2>4. p - k \in 1 .. Len(links) /\ p = k + (p - k)
        BY <1>2, <1>4, <2>1, <2>3
    <2> QED  BY <2>2, <2>4
<1>11. ASSUME NEW x \in At(attrs, "step")
       PROVE  <<Cardinality(x[1]), x[2]>> \in {<<depth(i), c>> : i \in steps}
    <2>1. PICK p \in DOMAIN line : \E a \in line[p].attrs :
              a[1] = "step" /\ x = <<Opened(line, p), a[2]>>
        BY <1>4, FoundAt
    <2>2. PICK i \in steps : p = k + i /\ x = <<Opened(line, p), c>>
        BY <1>9, <2>1
    <2>3. Cardinality(Opened(line, p)) = depth(i)
        BY <1>2, <1>8, <2>2
    <2> QED  BY <2>2, <2>3
<1>12. ASSUME NEW i \in steps
       PROVE  \E x \in At(attrs, "step") : <<depth(i), c>> = <<Cardinality(x[1]), x[2]>>
    <2>1. i \in 1 .. Len(links) /\ links[i].attrs = {<<"step", c>>}
        BY <1>2, <1>7
    <2>2. k + i \in DOMAIN line /\ line[k + i].attrs = {<<"step", c>>}
        BY <1>2, <1>4, <2>1
    <2>3. <<Opened(line, k + i), c>> \in At(Place(line), "step")
        <3>1. PICK a \in line[k + i].attrs : a = <<"step", c>>
            BY <2>2
        <3>2. a[1] = "step" /\ <<Opened(line, k + i), c>> = <<Opened(line, k + i), a[2]>>
            BY <3>1
        <3> QED  BY <2>2, <3>2, FoundAt
    <2>4. Cardinality(Opened(line, k + i)) = depth(i)
        BY <1>2, <1>8, <2>1
    <2>5. PICK x \in At(attrs, "step") : x = <<Opened(line, k + i), c>>
        BY <1>4, <2>3
    <2> QED  BY <2>4, <2>5
<1>13. {<<Cardinality(a[1]), a[2]>> : a \in At(attrs, "step")} = {<<depth(i), c>> : i \in steps}
    BY <1>11, <1>12
<1>14. ASSUME NEW x \in At(attrs, "said") PROVE Cardinality(x[1]) = depth(Len(links) + 1)
    <2>1. PICK p \in DOMAIN line : \E a \in line[p].attrs :
              a[1] = "said" /\ x = <<Opened(line, p), a[2]>>
        BY <1>4, FoundAt
    <2>2. p = k + (Len(links) + 1) /\ x[1] = Opened(line, p)
        BY <1>10, <2>1
    <2> QED  BY <1>2, <1>8, <2>2
<1> QED  BY <1>13, <1>14 DEF attrs, depth, CarriesChain
-----------------------------------------------------------------------------
(* The invariant.                                                           *)

\* A call is as it was.
Same(d) ==
    /\ stage'[d] = stage[d] /\ request'[d] = request[d] /\ ctx'[d] = ctx[d]
    /\ header'[d] = header[d] /\ failure'[d] = failure[d] /\ status'[d] = status[d]
    /\ heap'[d] = heap[d] /\ loggers'[d] = loggers[d]

\* A step is of one call, and leaves the others alone.
LEMMA Alone ==
    ASSUME Total, NEW c \in Call, Step(c)
    PROVE  Total' /\ \A d \in Call : d # c => Same(d)
<1>1. ASSUME NEW r \in Request, Enter(c, r) PROVE Total' /\ \A d \in Call : d # c => Same(d)
    BY <1>1 DEF Total, Same, Enter, Goto
<1>2. CASE RefuseRequest(c)
    BY <1>2 DEF Total, Same, RefuseRequest, Goto
<1>3. CASE SeedRequestID(c)
    BY <1>3 DEF Total, Same, SeedRequestID, Goto
<1>4. CASE EnterLogging(c)
    BY <1>4 DEF Total, Same, EnterLogging, Goto
<1>5. ASSUME NEW links, NEW link, NEW made, Derive(c, links, link, made)
      PROVE  Total' /\ \A d \in Call : d # c => Same(d)
    BY <1>5 DEF Total, Same, Derive
<1>6. CASE Deny(c)
    BY <1>6 DEF Total, Same, Deny, Goto, Leave
<1>7. ASSUME NEW err \in Err, Return(c, err) PROVE Total' /\ \A d \in Call : d # c => Same(d)
    BY <1>7 DEF Total, Same, Return, Goto, Leave
<1>8. CASE LogCall(c)
    BY <1>8 DEF Total, Same, LogCall, Goto
<1>9. CASE Panic(c)
    BY <1>9 DEF Total, Same, Panic, Goto, Leave
<1>10. CASE Recover(c)
    BY <1>10 DEF Total, Same, Recover, Goto
<1> QED
    BY <1>1, <1>2, <1>3, <1>4, <1>5, <1>6, <1>7, <1>8, <1>9, <1>10
    DEF Step, DeriveAttrs, DeriveGroup

LEMMA Kept ==
    ASSUME NEW d \in Call, Same(d)
    PROVE  /\ EndOf(d) => EndOf(d)'
           /\ IdOf(d) => IdOf(d)'
           /\ ChainOf(d) => ChainOf(d)'
           /\ Logged(d)' = Logged(d) /\ LineOf(d)' = LineOf(d)
<1>1. EndOf(d) => EndOf(d)'
    BY DEF Same, EndOf, Denied, Replied, Panicked, Undecoded, Refuses
<1>2. IdOf(d) => IdOf(d)'
    BY DEF Same, IdOf, Seeded, Undecoded
<1>3. ChainOf(d) => ChainOf(d)'
    BY DEF Same, ChainOf
<1>4. Logged(d)' = Logged(d) /\ LineOf(d)' = LineOf(d)
    BY DEF Same, Logged, LineOf, PanicLine, CallLine
<1> QED  BY <1>1, <1>2, <1>3, <1>4

LEMMA EndStep ==
    ASSUME Total, NEW c \in Call, EndOf(c), Step(c)
    PROVE  EndOf(c)'
<1> USE DEF Total, EndOf, Goto, Denied, Replied, Panicked, Undecoded, Refuses
<1>1. ASSUME NEW r \in Request, Enter(c, r) PROVE EndOf(c)'
    BY <1>1, PipelineAssumption DEF Enter
<1>2. CASE RefuseRequest(c)
    BY <1>2 DEF RefuseRequest
<1>3. CASE SeedRequestID(c)
    BY <1>3 DEF SeedRequestID
<1>4. CASE EnterLogging(c)
    BY <1>4 DEF EnterLogging
<1>5. ASSUME NEW links, NEW link, NEW made, Derive(c, links, link, made) PROVE EndOf(c)'
    BY <1>5 DEF Derive
<1>6. CASE Deny(c)
    BY <1>6 DEF Deny, Leave
<1>7. ASSUME NEW err \in Err, Return(c, err) PROVE EndOf(c)'
    BY <1>7 DEF Return, Leave
<1>8. CASE LogCall(c)
    BY <1>8 DEF LogCall
<1>9. CASE Panic(c)
    BY <1>9 DEF Panic, Leave
<1>10. CASE Recover(c)
    BY <1>10 DEF Recover
<1> QED
    BY <1>1, <1>2, <1>3, <1>4, <1>5, <1>6, <1>7, <1>8, <1>9, <1>10
    DEF Step, DeriveAttrs, DeriveGroup

LEMMA IdStep ==
    ASSUME Total, NEW c \in Call, EndOf(c), IdOf(c), Step(c)
    PROVE  IdOf(c)'
<1> USE DEF Total, IdOf, Goto, Seeded, Undecoded
<1>1. ASSUME NEW r \in Request, Enter(c, r) PROVE IdOf(c)'
    BY <1>1 DEF Enter
<1>2. CASE RefuseRequest(c)
    BY <1>2 DEF RefuseRequest
<1>3. CASE SeedRequestID(c)
    <2> DEFINE id == IF request[c].id = "" THEN c ELSE request[c].id
    <2>1. id \in {c} \cup Id /\ id # ""
        <3>1. request[c].id \in Id \cup {""}
            BY DEF EndOf, Metadata
        <3> QED  BY <3>1, PipelineAssumption
    <2>2. /\ stage[c] = "requestID" /\ stage'[c] = "logging"
          /\ header'[c] = id /\ request'[c] = request[c] /\ failure' = failure
        BY <1>3 DEF SeedRequestID
    <2>3. ctx'[c] = [ctx[c] EXCEPT !.request_id = id]
        BY <1>3, <2>1, <2>2 DEF SeedRequestID, WithRequestID
    <2>4. ctx'[c] \in [span : {"", c}, request_id : {id}, user_id : {""}]
        BY <2>3
    <2> QED  BY <2>1, <2>2, <2>4
<1>4. CASE EnterLogging(c)
    BY <1>4 DEF EnterLogging
<1>5. ASSUME NEW links, NEW link, NEW made, Derive(c, links, link, made) PROVE IdOf(c)'
    BY <1>5 DEF Derive
<1>6. CASE Deny(c)
    BY <1>6 DEF Deny, Leave
<1>7. ASSUME NEW err \in Err, Return(c, err) PROVE IdOf(c)'
    BY <1>7 DEF Return, Leave
<1>8. CASE LogCall(c)
    BY <1>8 DEF LogCall
<1>9. CASE Panic(c)
    BY <1>9 DEF Panic, Leave
<1>10. CASE Recover(c)
    BY <1>10 DEF Recover
<1> QED
    BY <1>1, <1>2, <1>3, <1>4, <1>5, <1>6, <1>7, <1>8, <1>9, <1>10
    DEF Step, DeriveAttrs, DeriveGroup
\* The logger that is derived writes its parent's chain and the new link, and what
\* was written through the others is written as before.
LEMMA Derived ==
    ASSUME NEW S, NEW arrays \in Seq(Seq(S)), NEW logger, NEW links \in Seq(S), NEW link \in S,
           logger.array \in 0 .. Len(arrays), logger.len = Len(links),
           Chain(arrays, logger) = links
    PROVE  LET made == AppendOp(arrays, logger, link)
           IN  /\ made.heap \in Seq(Seq(S))
               /\ Append(links, link) \in Seq(S)
               /\ made.logger.array \in 0 .. Len(made.heap)
               /\ made.logger.len = Len(Append(links, link))
               /\ Chain(made.heap, made.logger) = Append(links, link)
               /\ \A l : l.array \in 0 .. Len(arrays) =>
                      /\ l.array \in 0 .. Len(made.heap)
                      /\ Chain(made.heap, l) = Chain(arrays, l)
<1> DEFINE longer == Append(links, link)
           after == Append(arrays, longer)
           new == [array |-> Len(arrays) + 1, len |-> Len(links) + 1]
<1>1. AppendOp(arrays, logger, link) = [heap |-> after, logger |-> new]
    BY DEF AppendOp
<1>2. longer \in Seq(S) /\ Len(longer) = Len(links) + 1 /\ Len(links) \in Nat
    BY AppendProperties, LenProperties
<1> HIDE DEF longer
<1>3. /\ after \in Seq(Seq(S)) /\ Len(after) = Len(arrays) + 1 /\ Len(arrays) \in Nat
      /\ \A i \in 1 .. Len(arrays) : after[i] = arrays[i]
      /\ after[Len(arrays) + 1] = longer
    BY <1>2, AppendProperties, LenProperties
<1> HIDE DEF after
<1>4. new.array = Len(arrays) + 1 /\ new.len = Len(links) + 1
    OBVIOUS
<1> HIDE DEF new
<1>5. Chain(after, new) = longer
    <2>1. Chain(after, new) = SubSeq(longer, 1, Len(longer))
        BY <1>2, <1>3, <1>4 DEF Chain
    <2> QED  BY <1>2, <2>1, SubSeqFull
<1>6. ASSUME NEW l, l.array \in 0 .. Len(arrays)
      PROVE  l.array \in 0 .. Len(after) /\ Chain(after, l) = Chain(arrays, l)
    <2>1. PICK i \in 0 .. Len(arrays) : l.array = i
        BY <1>6
    <2>2. i \in 0 .. Len(after)
        BY <1>3
    <2>3. i # 0 => i \in 1 .. Len(arrays)
        BY <1>3
    <2>4. i # 0 => after[i] = arrays[i]
        BY <1>3, <2>3
    <2> QED  BY <2>1, <2>2, <2>4 DEF Chain
<1>7. new.array \in 0 .. Len(after) /\ new.len = Len(longer)
    BY <1>2, <1>3, <1>4
<1> QED  BY <1>1, <1>2, <1>3, <1>5, <1>6, <1>7 DEF longer

LEMMA ChainDerived ==
    ASSUME Total, NEW c \in Call, ChainOf(c), NEW links \in DOMAIN loggers[c], NEW link \in Links(c),
           Derive(c, links, link, AppendOp(heap[c], loggers[c][links], link))
    PROVE  ChainOf(c)'
<1> DEFINE made == AppendOp(heap[c], loggers[c][links], link)
           longer == Append(links, link)
<1>1. /\ links \in Seq(Links(c)) /\ heap[c] \in Seq(Seq(Links(c)))
      /\ \A l \in DOMAIN loggers[c] :
          /\ l \in Seq(Links(c))
          /\ loggers[c][l].array \in 0 .. Len(heap[c])
          /\ loggers[c][l].len = Len(l)
          /\ Chain(heap[c], loggers[c][l]) = l
    BY DEF ChainOf
<1>2. /\ made.heap \in Seq(Seq(Links(c)))
      /\ longer \in Seq(Links(c))
      /\ made.logger.array \in 0 .. Len(made.heap)
      /\ made.logger.len = Len(longer)
      /\ Chain(made.heap, made.logger) = longer
      /\ \A l : l.array \in 0 .. Len(heap[c]) =>
             l.array \in 0 .. Len(made.heap) /\ Chain(made.heap, l) = Chain(heap[c], l)
    <2>1. PICK S, arrays, logger : S = Links(c) /\ arrays = heap[c] /\ logger = loggers[c][links]
        OBVIOUS
    <2>2. /\ arrays \in Seq(Seq(S)) /\ links \in Seq(S) /\ link \in S
          /\ logger.array \in 0 .. Len(arrays) /\ logger.len = Len(links)
          /\ Chain(arrays, logger) = links
        BY <1>1, <2>1
    <2> QED  BY <2>1, <2>2, Derived
<1>3. /\ heap'[c] = made.heap /\ stage[c] = "handler" /\ stage' = stage
      /\ loggers'[c] = [l \in DOMAIN loggers[c] \cup {longer} |->
                            IF l = longer THEN made.logger ELSE loggers[c][l]]
    BY DEF Derive, Total
<1> HIDE DEF made, longer
<1>4. ASSUME NEW l \in DOMAIN loggers'[c]
      PROVE  /\ l \in Seq(Links(c))
             /\ loggers'[c][l].array \in 0 .. Len(heap'[c])
             /\ loggers'[c][l].len = Len(l)
             /\ Chain(heap'[c], loggers'[c][l]) = l
    <2>1. CASE l = longer
        <3>1. loggers'[c][l] = made.logger
            BY <1>3, <2>1
        <3> QED  BY <1>2, <1>3, <2>1, <3>1
    <2>2. CASE l # longer
        <3>1. l \in DOMAIN loggers[c] /\ loggers'[c][l] = loggers[c][l]
            BY <1>3, <2>2
        <3> QED  BY <1>1, <1>2, <1>3, <3>1
    <2> QED  BY <2>1, <2>2
<1> QED  BY <1>2, <1>3, <1>4 DEF ChainOf

\* The service's logger has nothing of its own.
LEMMA Fresh ==
    /\ DOMAIN OnlyNew = {<<>>} /\ OnlyNew[<<>>] = New
    /\ New.array = 0 /\ New.len = 0 /\ Len(<<>>) = 0
    /\ \A S : <<>> \in Seq(S)
    BY EmptySeq DEF OnlyNew, New

LEMMA ChainStep ==
    ASSUME Total, NEW c \in Call, ChainOf(c), Step(c)
    PROVE  ChainOf(c)'
<1> USE DEF Total, Goto
<1>1. ASSUME heap' = heap, loggers' = loggers, stage[c] # "handler"
      PROVE  ChainOf(c)'
    BY <1>1 DEF ChainOf
<1>2. ASSUME heap'[c] = <<>>, loggers'[c] = OnlyNew PROVE ChainOf(c)'
    BY <1>2, Fresh DEF ChainOf, Chain
<1>3. CASE EnterLogging(c)
    BY <1>3 DEF EnterLogging, ChainOf
<1>4. ASSUME NEW links \in DOMAIN loggers[c], DeriveAttrs(c, links) PROVE ChainOf(c)'
    <2>1. {<<"step", c>>} # {}
        OBVIOUS
    <2> QED  BY <1>4, <2>1, ChainDerived DEF DeriveAttrs, WithAttrs, Links
<1>5. ASSUME NEW links \in DOMAIN loggers[c], DeriveGroup(c, links) PROVE ChainOf(c)'
    BY <1>5, ChainDerived DEF DeriveGroup, WithGroup, Links
<1>6. CASE Deny(c)
    BY <1>2, <1>6 DEF Deny, Leave
<1>7. ASSUME NEW err \in Err, Return(c, err) PROVE ChainOf(c)'
    BY <1>2, <1>7 DEF Return, Leave
<1>8. CASE Panic(c)
    BY <1>2, <1>8 DEF Panic, Leave
<1>9. ASSUME NEW r \in Request, Enter(c, r) PROVE ChainOf(c)'
    BY <1>1, <1>9 DEF Enter
<1>10. CASE RefuseRequest(c) \/ SeedRequestID(c) \/ LogCall(c) \/ Recover(c)
    BY <1>1, <1>10 DEF RefuseRequest, SeedRequestID, LogCall, Recover
<1> QED
    BY <1>3, <1>4, <1>5, <1>6, <1>7, <1>8, <1>9, <1>10 DEF Step

LEMMA LogStep ==
    ASSUME Total, NEW c \in Call, EndOf(c), ChainOf(c), LogInv, Step(c)
    PROVE  LogInv'
<1>1. \A d \in Call : d # c => Logged(d)' = Logged(d) /\ LineOf(d)' = LineOf(d)
    BY Alone, Kept
<1>2. ASSUME log' = log, ~Logged(c), ~Logged(c)' PROVE LogInv'
    BY <1>1, <1>2 DEF LogInv
<1>3. ASSUME log' = log \cup {LineOf(c)'}, ~Logged(c), Logged(c)' PROVE LogInv'
    BY <1>1, <1>3 DEF LogInv
<1>4. ASSUME stage[c] # "handler", NEW context, NEW record
      PROVE  Writes(c, <<>>, context, record) = Handle(<<>>, New, context, record)
    BY <1>4, Fresh DEF Writes, ChainOf
<1>5. CASE LogCall(c)
    <2>1. /\ stage[c] = "returned" /\ stage'[c] = "done" /\ failure[c].how # "panic"
          /\ failure[c].how # "undecoded" /\ failure' = failure /\ status' = status /\ ctx' = ctx
        BY <1>5 DEF LogCall, Goto, Total, EndOf, Denied, Replied, Returned
    <2>2. log' = log \cup {CallLine(c)}
        BY <1>4, <1>5, <2>1 DEF LogCall, Write, CallLine
    <2>3. LineOf(c)' = CallLine(c)
        BY <2>1 DEF LineOf, CallLine
    <2> QED  BY <1>3, <2>1, <2>2, <2>3 DEF Logged
<1>6. CASE Recover(c)
    <2>1. /\ stage[c] = "panicking" /\ stage'[c] = "done" /\ failure[c].how = "panic"
          /\ failure' = failure /\ ctx' = ctx
        BY <1>6 DEF Recover, Goto, Total, EndOf, Returned
    <2>2. log' = log \cup {PanicLine(c)}
        BY <1>4, <1>6, <2>1 DEF Recover, Write, PanicLine
    <2>3. LineOf(c)' = PanicLine(c)
        BY <2>1 DEF LineOf, PanicLine
    <2> QED  BY <1>3, <2>1, <2>2, <2>3 DEF Logged
<1> USE DEF Total, Goto, Logged
<1>7. ASSUME NEW r \in Request, Enter(c, r) PROVE LogInv'
    BY <1>2, <1>7 DEF Enter
<1>8. CASE RefuseRequest(c)
    BY <1>2, <1>8 DEF RefuseRequest, Returned
<1>9. CASE SeedRequestID(c) \/ EnterLogging(c)
    BY <1>2, <1>9 DEF SeedRequestID, EnterLogging
<1>10. ASSUME NEW links, NEW link, NEW made, Derive(c, links, link, made) PROVE LogInv'
    BY <1>2, <1>10 DEF Derive
<1>11. CASE Deny(c) \/ Panic(c)
    BY <1>2, <1>11 DEF Deny, Panic
<1>12. ASSUME NEW err \in Err, Return(c, err) PROVE LogInv'
    BY <1>2, <1>12 DEF Return
<1> QED
    BY <1>5, <1>6, <1>7, <1>8, <1>9, <1>10, <1>11, <1>12
    DEF Step, DeriveAttrs, DeriveGroup

LEMMA InitInv == Init => Inv
<1> SUFFICES ASSUME Init PROVE Inv
    OBVIOUS
<1>1. Total
    BY DEF Init, Total
<1>2. ASSUME NEW c \in Call PROVE EndOf(c)
    <2>1. NoRequest \in Metadata
        BY DEF NoRequest, Metadata
    <2> QED  BY <2>1 DEF Init, EndOf
<1>3. ASSUME NEW c \in Call PROVE IdOf(c)
    <2>1. stage[c] = "new" /\ header[c] = ""
        BY DEF Init
    <2>2. EmptyContext \in [span : {"", c}, request_id : {""}, user_id : {""}]
        BY DEF EmptyContext
    <2>3. [EmptyContext EXCEPT !.span = c] \in [span : {"", c}, request_id : {""}, user_id : {""}]
        BY <2>2
    <2>4. ctx[c] \in [span : {"", c}, request_id : {""}, user_id : {""}]
        BY <2>2, <2>3 DEF Init
    <2> QED  BY <2>1, <2>4 DEF IdOf
<1>4. ASSUME NEW c \in Call PROVE ChainOf(c)
    <2>1. stage[c] = "new" /\ heap[c] = <<>> /\ loggers[c] = OnlyNew
        BY DEF Init
    <2> QED  BY <2>1, Fresh DEF ChainOf, Chain
<1>5. LogInv
    BY DEF Init, LogInv, Logged
<1> QED  BY <1>1, <1>2, <1>3, <1>4, <1>5 DEF Inv

LEMMA NextInv == Inv /\ [Next]_vars => Inv'
<1> SUFFICES ASSUME Inv, [Next]_vars PROVE Inv'
    OBVIOUS
<1>1. CASE Next
    <2>1. PICK c \in Call : Step(c)
        BY <1>1 DEF Next
    <2>2. Total' /\ \A d \in Call : d # c => Same(d)
        BY <2>1, Alone DEF Inv
    <2>3. EndOf(c)' /\ IdOf(c)' /\ ChainOf(c)' /\ LogInv'
        BY <2>1, EndStep, IdStep, ChainStep, LogStep DEF Inv
    <2>4. ASSUME NEW d \in Call, d # c PROVE EndOf(d)' /\ IdOf(d)' /\ ChainOf(d)'
        BY <2>2, <2>4, Kept DEF Inv
    <2> QED  BY <2>2, <2>3, <2>4 DEF Inv
<1>2. CASE UNCHANGED vars
    <2>1. \A d \in Call : Same(d)
        BY <1>2 DEF vars, Same
    <2>2. ASSUME NEW d \in Call
          PROVE  /\ EndOf(d)' /\ IdOf(d)' /\ ChainOf(d)'
                 /\ Logged(d)' = Logged(d) /\ LineOf(d)' = LineOf(d)
        BY <2>1, Kept DEF Inv
    <2>3. LogInv'
        BY <1>2, <2>2 DEF LogInv, Inv, vars
    <2>4. Total'
        BY <1>2 DEF Total, Inv, vars
    <2> QED  BY <2>2, <2>3, <2>4 DEF Inv
<1> QED  BY <1>1, <1>2

\* The invariant holds in every state: each call is in a frame that its failure
\* and its status explain, its id and its loggers are its own, and the log is the
\* lines of the calls that are over.
THEOREM Invariance == Spec => []Inv
    BY InitInv, NextInv, PTL DEF Spec
-----------------------------------------------------------------------------
(* What a client is told.                                                   *)

LEMMA Fields ==
    /\ \A how, err : Returned(how, err).how = how /\ Returned(how, err).err = err
    /\ \A code, text : Says(code, text).code = code /\ Says(code, text).text = text
    BY DEF Returned, Says

\* An error is told as one of the service's own exactly if it is.
LEMMA StatusOf ==
    ASSUME NEW err \in Err
    PROVE  /\ ToStatus(err).code = "OK" <=> err = <<>>
           /\ OwnFault(err) => ToStatus(err) = Says("Internal", "generic")
           /\ Level(ToStatus(err).code) = "error" <=> OwnFault(err)
<1>1. err \in Seq(Link)
    BY PipelineAssumption
<1>2. As(err) \in Kind \cup {"none"}
    BY <1>1, AsType
<1>3. OwnFault(err) <=> err # <<>> /\ As(err) \in {"none", "internal"}
    BY <1>1, FaultOfOurs DEF OwnFault
<1> USE DEF ToStatus, IsKind, Level, IsServerFault
<1>4. CASE err = <<>>
    <2>0. As(err) = "none"
        <3>1. DOMAIN err = {}
            BY <1>4, EmptySeq, LenProperties
        <3> QED  BY <1>1, <3>1, AsNone
    <2>1. ToStatus(err) = Says("OK", "none")
        BY <1>4, <2>0
    <2>2. ToStatus(err).code = "OK"
        BY <2>1, Fields
    <2> HIDE DEF ToStatus
    <2> QED  BY <1>3, <1>4, <2>2
<1>5. CASE err # <<>> /\ As(err) \in {"none", "internal"}
    <2>1. ToStatus(err) = Says("Internal", "generic")
        BY <1>5
    <2>2. ToStatus(err).code = "Internal"
        BY <2>1, Fields
    <2> HIDE DEF ToStatus
    <2> QED  BY <1>3, <1>5, <2>1, <2>2
<1>6. ASSUME err # <<>>, As(err) \notin {"none", "internal"}
      PROVE  ToStatus(err) \in {Says("InvalidArgument", "message"), Says("NotFound", "message"),
                                Says("AlreadyExists", "message"),
                                Says("Unauthenticated", "message"),
                                Says("PermissionDenied", "message")}
    BY <1>2, <1>6 DEF Kind
<1>7. CASE err # <<>> /\ As(err) \notin {"none", "internal"}
    <2>1. ToStatus(err).code \in {"InvalidArgument", "NotFound", "AlreadyExists",
                                  "Unauthenticated", "PermissionDenied"}
        BY <1>6, <1>7, Fields
    <2> HIDE DEF ToStatus
    <2> QED  BY <1>3, <1>7, <2>1
<1> QED  BY <1>4, <1>5, <1>7

\* AnswerIsHonest for all calls, requests and errors: success is told of success
\* only, a failure of ours by nothing but its generic status, and a user only to
\* itself or to an admin.
THEOREM HonestAnswers == Spec => []AnswerIsHonest
<1>1. ASSUME Inv PROVE AnswerIsHonest
    <2> SUFFICES ASSUME NEW c \in Call, Over(c)
                 PROVE  /\ status[c].code = "OK" <=> failure[c] = Returned("error", <<>>)
                        /\ OfOurs(c) => status[c] = Says("Internal", "generic")
                        /\ status[c].code = "OK" /\ request[c].asks # "other" =>
                               \/ request[c].asks = request[c].md.userID /\ request[c].asks # None
                               \/ request[c].md.roles # None /\ "admin" \in request[c].md.roles
        BY DEF AnswerIsHonest
    <2>1. Denied(c) \/ Replied(c) \/ Panicked(c) \/ Undecoded(c)
        BY <1>1 DEF Inv, EndOf, Over
    <2>2. CASE Denied(c)
        BY <2>2, Fields DEF Denied, OfOurs, OwnFault
    <2>3. CASE Replied(c)
        <3>1. PICK err \in Err : failure[c] = Returned("error", err) /\ status[c] = ToStatus(err)
            BY <2>3 DEF Replied
        <3>2. failure[c].how = "error" /\ failure[c].err = err
            BY <3>1, Fields
        <3>3. /\ status[c].code = "OK" <=> failure[c] = Returned("error", <<>>)
              /\ OfOurs(c) => status[c] = Says("Internal", "generic")
            BY <3>1, <3>2, Fields, StatusOf DEF OfOurs
        <3>4. ASSUME request[c].asks # "other"
              PROVE  \/ request[c].asks = request[c].md.userID /\ request[c].asks # None
                     \/ request[c].md.roles # None /\ "admin" \in request[c].md.roles
            BY <2>3, <3>4 DEF Replied, Refuses, CanAccessUser, CallerFromMetadata, IsAdmin
        <3> QED  BY <3>3, <3>4
    <2>4. CASE Panicked(c)
        BY <2>4, Fields DEF Panicked
    <2>5. CASE Undecoded(c)
        BY <2>5, Fields DEF Undecoded, OfOurs, OwnFault
    <2> QED  BY <2>1, <2>2, <2>3, <2>4, <2>5
<1> QED  BY <1>1, Invariance, PTL

\* TransportsAgree for all calls, requests and errors: the two translations give an
\* error the same kind, and show its message or hide it alike.
THEOREM AgreeingTransports == Spec => []TransportsAgree
<1>1. ASSUME Inv PROVE TransportsAgree
    <2> SUFFICES ASSUME NEW c \in Call, failure[c].how = "error", failure[c].err # <<>>
                 PROVE  /\ <<status[c].code, ToGraphQLError(failure[c].err).code>> \in Names
                        /\ status[c].text = ToGraphQLError(failure[c].err).text
        BY DEF TransportsAgree
    <2>1. Replied(c)
        BY <1>1, Fields DEF Inv, EndOf, Denied, Panicked, Undecoded
    <2>2. PICK err \in Err : failure[c] = Returned("error", err) /\ status[c] = ToStatus(err)
        BY <2>1 DEF Replied
    <2>3. err # <<>> /\ failure[c].err = err
        BY <2>2, Fields
    <2>4. As(err) \in Kind \cup {"none"}
        BY AsType, PipelineAssumption
    <2> DEFINE alike(code, name, text) ==
            ToStatus(err) = Says(code, text) /\ ToGraphQLError(err) = Says(name, text)
    <2>5. \/ alike("InvalidArgument", "INVALID", "message")
          \/ alike("NotFound", "NOT_FOUND", "message")
          \/ alike("AlreadyExists", "CONFLICT", "message")
          \/ alike("Unauthenticated", "UNAUTHORIZED", "message")
          \/ alike("PermissionDenied", "FORBIDDEN", "message")
          \/ alike("Internal", "INTERNAL", "generic")
        BY <2>3, <2>4 DEF ToStatus, ToGraphQLError, IsKind, Kind
    <2> QED  BY <2>2, <2>3, <2>5, Fields DEF Names
<1> QED  BY <1>1, Invariance, PTL

\* The lines of a call that is over: its own, unless it could not be decoded.
LEMMA LinesOf ==
    ASSUME Inv, NEW c \in Call, Over(c)
    PROVE  {l \in log : l.of = c} = IF failure[c].how = "undecoded" THEN {} ELSE {LineOf(c)}
<1>1. \A d \in Call : LineOf(d).of = d
    BY DEF LineOf, PanicLine, CallLine
<1>2. log = {LineOf(d) : d \in {e \in Call : Logged(e)}}
    BY DEF Inv, LogInv
<1>3. CASE failure[c].how = "undecoded"
    BY <1>1, <1>2, <1>3 DEF Logged
<1>4. CASE failure[c].how # "undecoded"
    BY <1>1, <1>2, <1>4 DEF Logged, Over
<1> QED  BY <1>3, <1>4

\* FaultsRaiseErrors for all calls, requests and errors: each call that is over has
\* its line, at level error exactly when the fault is the service's own.
THEOREM FaultsAreErrors == Spec => []FaultsRaiseErrors
<1>1. ASSUME Inv PROVE FaultsRaiseErrors
    <2> SUFFICES ASSUME NEW c \in Call, Over(c)
                 PROVE  LET lines == {l \in log : l.of = c}
                        IN  /\ Cardinality(lines) = IF failure[c].how = "undecoded" THEN 0 ELSE 1
                            /\ (\E l \in lines : l.level = "error") <=> OfOurs(c)
        BY DEF FaultsRaiseErrors
    <2> DEFINE lines == {l \in log : l.of = c}
    <2>1. lines = IF failure[c].how = "undecoded" THEN {} ELSE {LineOf(c)}
        BY <1>1, LinesOf
    <2> HIDE DEF lines
    <2>2. Cardinality(lines) = IF failure[c].how = "undecoded" THEN 0 ELSE 1
        BY <2>1, FS_EmptySet, FS_Singleton
    <2>3. Denied(c) \/ Replied(c) \/ Panicked(c) \/ Undecoded(c)
        BY <1>1 DEF Inv, EndOf, Over
    <2>4. CASE Denied(c)
        <3>1. failure[c].how = "denied" /\ failure[c].err = <<>> /\ status[c].code = "PermissionDenied"
            BY <2>4, Fields DEF Denied
        <3>2. LineOf(c).level = "warn"
            BY <3>1 DEF LineOf, CallLine, Level, IsServerFault
        <3> QED  BY <2>1, <2>2, <3>1, <3>2 DEF lines, OfOurs, OwnFault
    <2>5. CASE Replied(c)
        <3>1. PICK err \in Err : failure[c] = Returned("error", err) /\ status[c] = ToStatus(err)
            BY <2>5 DEF Replied
        <3>2. failure[c].how = "error" /\ failure[c].err = err
            BY <3>1, Fields
        <3>3. LineOf(c).level = Level(ToStatus(err).code)
            BY <3>1, <3>2 DEF LineOf, CallLine
        <3>4. LineOf(c).level = "error" <=> OfOurs(c)
            BY <3>2, <3>3, StatusOf DEF OfOurs
        <3> QED  BY <2>1, <2>2, <3>2, <3>4 DEF lines
    <2>6. CASE Panicked(c)
        <3>1. failure[c].how = "panic"
            BY <2>6, Fields DEF Panicked
        <3>2. LineOf(c).level = "error"
            BY <3>1 DEF LineOf, PanicLine
        <3> QED  BY <2>1, <2>2, <3>1, <3>2 DEF lines, OfOurs
    <2>7. CASE Undecoded(c)
        <3>1. failure[c].how = "undecoded" /\ failure[c].err = <<>>
            BY <2>7, Fields DEF Undecoded
        <3> QED  BY <2>1, <2>2, <3>1 DEF lines, OfOurs, OwnFault
    <2> QED  BY <2>3, <2>4, <2>5, <2>6, <2>7
<1> QED  BY <1>1, Invariance, PTL
-----------------------------------------------------------------------------
(* What the log tells.                                                      *)

\* The context of a call has its id and its span, if it has one.
LEMMA ContextOf ==
    ASSUME NEW c \in Call, IdOf(c)
    PROVE  /\ IsContext(ctx[c], ctx[c].span, ctx[c].request_id)
           /\ ctx[c].span \in {"", c}
<1>1. ctx[c] \in [span : {"", c}, request_id : {"", c} \cup Id, user_id : {""}]
    BY DEF IdOf
<1> QED  BY <1>1 DEF IsContext

LEMMA HasId ==
    ASSUME NEW c \in Call, request[c] \in Metadata, Seeded(c)
    PROVE  /\ header[c] # "" /\ ctx[c].request_id = header[c]
           /\ request[c].id # "" => header[c] = request[c].id
    BY PipelineAssumption DEF Seeded

\* The ids on a line that is written through the service's own logger.
LEMMA OwnLine ==
    ASSUME NEW context, NEW s, NEW r, NEW record,
           IsContext(context, s, r), NoId(record)
    PROVE  /\ s # "" => OnTop(Handle(<<>>, New, context, record), "span", s)
           /\ r # "" => OnTop(Handle(<<>>, New, context, record), "request_id", r)
<1>1. PICK c, arrays, logger : c = "c" /\ arrays = <<>> /\ logger = New
    OBVIOUS
<1>2. Chain(arrays, logger) \in Seq(Links(c))
    BY <1>1, Fresh DEF Chain
<1>3. /\ s # "" => OnTop(Handle(arrays, logger, context, record), "span", s)
      /\ r # "" => OnTop(Handle(arrays, logger, context, record), "request_id", r)
    BY <1>2, IdsOnTop
<1> QED  BY <1>1, <1>3

\* LineIsCorrelated for all calls and ids: the id that the client has, and the span,
\* are outside of every group of each line of the call, whatever loggers its
\* handler writes it through, and an id is no other call's.
THEOREM CorrelatedLines == Spec => []LineIsCorrelated
<1>1. ASSUME Inv, NEW l \in log
      PROVE  /\ l.line = "call" => At(l.attrs, "request_id") = {<<{}, header[l.of]>>}
             /\ request[l.of].id # "" => header[l.of] = request[l.of].id
             /\ ctx[l.of].span # "" => At(l.attrs, "span") = {<<{}, l.of>>}
    <2>1. PICK c \in Call : Logged(c) /\ l = LineOf(c)
        BY <1>1 DEF Inv, LogInv
    <2>2. EndOf(c) /\ IdOf(c) /\ request[c] \in Metadata
        BY <1>1 DEF Inv, EndOf
    <2>3. Seeded(c)
        <3>1. ~Undecoded(c)
            BY <2>1, Fields DEF Logged, Undecoded
        <3> QED  BY <2>1, <2>2, <3>1 DEF IdOf, Logged
    <2>4. PICK context, s, r : /\ context = ctx[c] /\ s = ctx[c].span /\ r = ctx[c].request_id
                               /\ IsContext(context, s, r) /\ s \in {"", c}
        BY <2>2, ContextOf
    <2>5. r = header[c] /\ r # "" /\ (request[c].id # "" => header[c] = request[c].id)
        BY <2>2, <2>3, <2>4, HasId
    <2>6. CASE failure[c].how = "panic"
        <3>1. /\ l.of = c /\ l.line = "panic"
              /\ l.attrs = Handle(<<>>, New, [EmptyContext EXCEPT !.span = s], {<<"panic", c>>})
            BY <2>1, <2>4, <2>6 DEF LineOf, PanicLine
        <3>2. PICK bare, record : bare = [EmptyContext EXCEPT !.span = s] /\ record = {<<"panic", c>>}
            OBVIOUS
        <3>3. IsContext(bare, s, "")
            <4>1. EmptyContext \in [span : {""}, request_id : {""}, user_id : {""}]
                BY DEF EmptyContext
            <4>2. bare \in [span : {s}, request_id : {""}, user_id : {""}]
                BY <3>2, <4>1
            <4> QED  BY ONLY <4>2 DEF IsContext
        <3>4. NoId(record)
            <4> SUFFICES ASSUME NEW a \in record PROVE a[1] \notin {"span", "request_id"}
                BY DEF NoId
            <4>1. a = <<"panic", c>>
                BY <3>2
            <4> QED  BY <4>1
        <3>5. s # "" => OnTop(l.attrs, "span", s)
            BY <3>1, <3>2, <3>3, <3>4, OwnLine
        <3> QED  BY <2>4, <2>5, <3>1, <3>5 DEF OnTop
    <2>7. CASE failure[c].how # "panic"
        <3>1. /\ l.of = c /\ l.line = "call"
              /\ l.attrs = Handle(<<>>, New, ctx[c], {<<"grpc.code", status[c].code>>})
            BY <2>1, <2>7 DEF LineOf, CallLine
        <3>2. PICK record : record = {<<"grpc.code", status[c].code>>}
            OBVIOUS
        <3>3. NoId(record)
            <4> SUFFICES ASSUME NEW a \in record PROVE a[1] \notin {"span", "request_id"}
                BY DEF NoId
            <4>1. a = <<"grpc.code", status[c].code>>
                BY <3>2
            <4> QED  BY <4>1
        <3>4. /\ s # "" => OnTop(l.attrs, "span", s)
              /\ r # "" => OnTop(l.attrs, "request_id", r)
            BY <2>4, <3>1, <3>2, <3>3, OwnLine
        <3> QED  BY <2>4, <2>5, <3>1, <3>4 DEF OnTop
    <2> QED  BY <2>6, <2>7
<1>2. ASSUME Inv, NEW c \in Call, stage[c] = "handler", NEW links \in DOMAIN loggers[c]
      PROVE  At(Writes(c, links, ctx[c], {}), "request_id") = {<<{}, header[c]>>}
    <2>1. EndOf(c) /\ IdOf(c) /\ request[c] \in Metadata /\ ChainOf(c)
        BY <1>2 DEF Inv, EndOf
    <2>2. Seeded(c)
        BY <1>2, <2>1 DEF IdOf
    <2>3. PICK context, s, r : /\ context = ctx[c] /\ s = ctx[c].span /\ r = ctx[c].request_id
                               /\ IsContext(context, s, r)
        BY <2>1, ContextOf
    <2>4. r = header[c] /\ r # ""
        BY <2>1, <2>2, <2>3, HasId
    <2>5. PICK arrays, logger, record :
              arrays = heap[c] /\ logger = loggers[c][links] /\ record = {}
        OBVIOUS
    <2>6. links \in Seq(Links(c)) /\ links = Chain(arrays, logger)
        BY <2>1, <2>5 DEF ChainOf
    <2>7. OnTop(Handle(arrays, logger, context, record), "request_id", r)
        <3>1. NoId(record)
            BY <2>5 DEF NoId
        <3> QED  BY <2>3, <2>4, <2>6, <3>1, IdsOnTop
    <2> QED  BY <2>3, <2>4, <2>5, <2>7 DEF Writes, OnTop
<1>3. ASSUME Inv, NEW c \in Call, NEW d \in Call, header[c] = d PROVE c = d
    BY <1>3, PipelineAssumption DEF Inv, IdOf
<1>4. Inv => LineIsCorrelated
    BY <1>1, <1>2, <1>3 DEF LineIsCorrelated
<1> QED  BY <1>4, Invariance, PTL

\* LoggersKeepTheirChain for all calls and however many loggers: a logger writes what
\* it was made with, at the depths at which it was added, and nothing of the others.
THEOREM ChainsAreKept == Spec => []LoggersKeepTheirChain
<1>1. ASSUME Inv PROVE LoggersKeepTheirChain
    <2> SUFFICES ASSUME NEW c \in Call, NEW links \in DOMAIN loggers[c]
                 PROVE  CarriesChain(Writes(c, links, ctx[c], {<<"said", c>>}), c, links)
        BY DEF LoggersKeepTheirChain, CarriesChain
    <2>1. PICK context, s, r : context = ctx[c] /\ IsContext(context, s, r)
        BY <1>1, ContextOf DEF Inv
    <2>2. PICK arrays, logger, record :
              arrays = heap[c] /\ logger = loggers[c][links] /\ record = {<<"said", c>>}
        OBVIOUS
    <2>3. links \in Seq(Links(c)) /\ links = Chain(arrays, logger)
        BY <1>1, <2>2 DEF Inv, ChainOf
    <2>4. Writes(c, links, ctx[c], {<<"said", c>>}) = Handle(arrays, logger, context, record)
        BY <2>1, <2>2 DEF Writes
    <2> QED  BY <2>1, <2>2, <2>3, <2>4, ChainInLine
<1> QED  BY <1>1, Invariance, PTL
=============================================================================
