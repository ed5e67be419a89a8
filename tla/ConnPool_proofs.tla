-------------------------- MODULE ConnPool_proofs --------------------------
(***************************************************************************)
(* The safety of ConnPool for any number of calls and any pool: Inv is     *)
(* inductive and implies the properties that the runs check.  The only     *)
(* reasoning about sequences is in the lemmas on the queue.                *)
(***************************************************************************)
EXTENDS ConnPool, SequenceTheorems, TLAPS

\* What leaving the queue does: a waiting call's place closes up.
LEMMA Leave ==
    ASSUME NEW q \in Seq(Call), IsInjective(q), NEW i \in DOMAIN q
    PROVE  /\ RemoveAt(q, i) \in Seq(Call)
           /\ IsInjective(RemoveAt(q, i))
           /\ \A j \in DOMAIN RemoveAt(q, i) :
                 \E k \in DOMAIN q : k # i /\ RemoveAt(q, i)[j] = q[k]
<1> DEFINE r == RemoveAt(q, i)
           before == SubSeq(q, 1, i - 1)
           after == SubSeq(q, i + 1, Len(q))
<1>1. i \in 1 .. Len(q) /\ Len(q) \in Nat /\ DOMAIN q = 1 .. Len(q)
    BY LenProperties
<1>2. /\ before \in Seq(Call) /\ Len(before) = i - 1
      /\ \A j \in 1 .. i - 1 : before[j] = q[j]
    BY <1>1, SubSeqProperties
<1>3. /\ after \in Seq(Call) /\ Len(after) = Len(q) - i
      /\ \A j \in 1 .. Len(q) - i : after[j] = q[i + j]
    <2>1. /\ after \in Seq(Call)
          /\ Len(after) = IF i + 1 <= Len(q) THEN Len(q) - (i + 1) + 1 ELSE 0
          /\ \A j \in 1 .. Len(q) - (i + 1) + 1 : after[j] = q[(i + 1) + j - 1]
        BY <1>1, SubSeqProperties
    <2>2. Len(after) = Len(q) - i /\ Len(q) - (i + 1) + 1 = Len(q) - i
        BY <1>1, <2>1
    <2>3. ASSUME NEW j \in 1 .. Len(q) - i PROVE (i + 1) + j - 1 = i + j
        BY <1>1
    <2> QED  BY <2>1, <2>2, <2>3
<1>4. r = before \o after
    BY DEF RemoveAt
<1> HIDE DEF r, before, after
<1>5. /\ r \in Seq(Call) /\ Len(r) = Len(q) - 1
      /\ \A j \in 1 .. Len(q) - 1 : r[j] = IF j < i THEN q[j] ELSE q[j + 1]
    <2>1. /\ r \in Seq(Call) /\ Len(r) = Len(before) + Len(after)
          /\ \A j \in 1 .. Len(before) + Len(after) :
                r[j] = IF j <= Len(before) THEN before[j] ELSE after[j - Len(before)]
        BY <1>2, <1>3, <1>4, ConcatProperties
    <2>2. Len(before) + Len(after) = Len(q) - 1
        BY <1>1, <1>2, <1>3
    <2>3. ASSUME NEW j \in 1 .. Len(q) - 1
          PROVE  r[j] = IF j < i THEN q[j] ELSE q[j + 1]
        <3>1. CASE j < i
            BY <1>1, <1>2, <2>1, <2>2, <3>1
        <3>2. CASE ~(j < i)
            <4>1. j - (i - 1) \in 1 .. Len(q) - i /\ i + (j - (i - 1)) = j + 1
                BY <1>1, <3>2
            <4>2. after[j - (i - 1)] = q[i + (j - (i - 1))]
                BY <1>3, <4>1
            <4>3. j <= Len(before) <=> j <= i - 1
                BY <1>2
            <4>4. ~(j <= Len(before)) /\ j - Len(before) = j - (i - 1)
                BY <1>1, <1>2, <3>2, <4>3
            <4>5. r[j] = after[j - Len(before)]
                BY <2>1, <2>2, <4>4
            <4>6. after[j - Len(before)] = q[j + 1]
                BY <4>1, <4>2, <4>4
            <4> QED  BY <3>2, <4>5, <4>6
        <3> QED  BY <3>1, <3>2
    <2> QED  BY <2>1, <2>2, <2>3
<1>6. DOMAIN r = 1 .. Len(q) - 1
    BY <1>5, LenProperties
<1> DEFINE from(j) == IF j < i THEN j ELSE j + 1
<1>7. ASSUME NEW j \in DOMAIN r
      PROVE  from(j) \in DOMAIN q /\ from(j) # i /\ r[j] = q[from(j)]
    <2>1. j \in 1 .. Len(q) - 1
        BY <1>6
    <2>2. from(j) \in 1 .. Len(q) /\ from(j) # i
        BY <1>1, <2>1
    <2>3. r[j] = IF j < i THEN q[j] ELSE q[j + 1]
        BY <1>5, <2>1
    <2> QED  BY <1>1, <2>2, <2>3
<1>8. ASSUME NEW j \in DOMAIN r, NEW k \in DOMAIN r, from(j) = from(k)
      PROVE  j = k
    BY <1>1, <1>6, <1>8
<1> HIDE DEF from
<1>9. IsInjective(r)
    BY <1>7, <1>8 DEF IsInjective
<1> QED  BY <1>5, <1>7, <1>9 DEF r

\* The longest waiting call leaves at the head.
LEMMA LeaveFirst ==
    ASSUME NEW q \in Seq(Call), IsInjective(q), q # <<>>
    PROVE  /\ Head(q) \in Call /\ 1 \in DOMAIN q /\ Head(q) = q[1]
           /\ Tail(q) \in Seq(Call)
           /\ IsInjective(Tail(q))
           /\ \A j \in DOMAIN Tail(q) :
                 \E k \in DOMAIN q : k # 1 /\ Tail(q)[j] = q[k]
<1>1. /\ Head(q) \in Call /\ Tail(q) \in Seq(Call) /\ Head(q) = q[1]
      /\ Len(Tail(q)) = Len(q) - 1
      /\ \A j \in 1 .. Len(Tail(q)) : Tail(q)[j] = q[j + 1]
    BY HeadTailProperties
<1>2. DOMAIN q = 1 .. Len(q) /\ Len(q) \in Nat /\ Len(q) # 0
      /\ DOMAIN Tail(q) = 1 .. Len(q) - 1
    BY <1>1, LenProperties, EmptySeq
<1> QED  BY <1>1, <1>2 DEF IsInjective

\* A call joins the queue at the end.
LEMMA Join ==
    ASSUME NEW q \in Seq(Call), IsInjective(q), NEW c \in Call,
           \A i \in DOMAIN q : q[i] # c
    PROVE  /\ Append(q, c) \in Seq(Call)
           /\ IsInjective(Append(q, c))
           /\ \A i \in DOMAIN Append(q, c) :
                 Append(q, c)[i] = c \/ \E k \in DOMAIN q : Append(q, c)[i] = q[k]
<1>1. /\ Append(q, c) \in Seq(Call) /\ Len(Append(q, c)) = Len(q) + 1
      /\ \A i \in 1 .. Len(q) : Append(q, c)[i] = q[i]
      /\ Append(q, c)[Len(q) + 1] = c
    BY AppendProperties
<1>2. DOMAIN q = 1 .. Len(q) /\ Len(q) \in Nat
      /\ DOMAIN Append(q, c) = 1 .. Len(q) + 1
    BY <1>1, LenProperties
<1> QED  BY <1>1, <1>2 DEF IsInjective

-----------------------------------------------------------------------------
USE DEF vars

\* Nothing has happened yet.
LEMMA InitInv == Init => Inv
<1>1. <<>> \in Seq({"tx", "query"}) /\ <<>> \in Seq(Call) /\ DOMAIN <<>> = {}
    OBVIOUS
<1> QED
    BY <1>1, PoolAssumption
    DEF Init, Inv, TypeOK, NoLeak, NoHoldAndWait, WaitInv, Place, IsInjective

\* What a handler asks for is a sequence of transactions and queries.
LEMMA ProgramType ==
    ASSUME NEW kind \in DOMAIN Program
    PROVE  Program[kind] \in Seq({"tx", "query"})
<1>1. /\ <<"tx">> \in Seq({"tx", "query"}) /\ <<"tx", "query">> \in Seq({"tx", "query"})
      /\ <<"query", "query">> \in Seq({"tx", "query"}) /\ <<"query">> \in Seq({"tx", "query"})
      /\ <<"query", "query", "tx">> \in Seq({"tx", "query"})
    OBVIOUS
<1>2. kind \in {"register", "registerGraphQL", "login", "refresh", "getUser"}
    BY DEF Program
<1>3. /\ Program["register"] = <<"tx">> /\ Program["registerGraphQL"] = <<"tx", "query">>
      /\ Program["login"] = <<"query", "query">> /\ Program["getUser"] = <<"query">>
      /\ Program["refresh"] = <<"query", "query", "tx">>
    BY DEF Program
<1> QED  BY <1>1, <1>2, <1>3

\* What is left of it after its first part is one, and that part is either.
LEMMA TodoType ==
    ASSUME NEW s \in Seq({"tx", "query"}), s # <<>>
    PROVE  Head(s) \in {"tx", "query"} /\ Tail(s) \in Seq({"tx", "query"})
BY HeadTailProperties

\* A call that is done with its connection gives it back.
LEMMA GiveBackInv ==
    ASSUME Inv, NEW c \in Call, NEW p \in {"between", "done"},
           at[c] \in {"query", "locked", "failed", "panicked"},
           GiveBack(c), Goto(c, p), UNCHANGED queue,
           \/ UNCHANGED todo
           \/ todo' = [todo EXCEPT ![c] = Tail(@)]
    PROVE  Inv'
<1> USE DEF Inv, GiveBack, Goto
<1>1. todo[c] \in Seq({"tx", "query"}) /\ todo[c] # <<>>
    BY DEF TypeOK, WaitInv
<1>2. todo' \in [Call -> Seq({"tx", "query"})] /\ \A d \in Call : d # c => todo'[d] = todo[d]
    BY <1>1, TodoType DEF TypeOK
<1>3. /\ held' = [d \in Call |-> IF d = c THEN {} ELSE held[d]]
      /\ at' = [d \in Call |-> IF d = c THEN p ELSE at[d]]
    BY DEF TypeOK
<1>4. TypeOK'
    BY <1>2, <1>3 DEF TypeOK, Place
<1>5. \A k \in Conn : k \in free' <=> \A d \in Call : k \notin held'[d]
    <2> SUFFICES ASSUME NEW k \in Conn
                 PROVE  k \in free' <=> \A d \in Call : k \notin held'[d]
        OBVIOUS
    <2>1. CASE k \in held[c]
        BY <1>3, <2>1 DEF NoLeak, TypeOK
    <2>2. CASE k \notin held[c]
        BY <1>3, <2>2 DEF NoLeak
    <2> QED  BY <2>1, <2>2
<1>6. row' # c /\ \A d \in Call : d # c => (row' = d <=> row = d)
    BY PoolAssumption DEF TypeOK
<1>7. NoLeak' /\ NoHoldAndWait'
    BY <1>3, <1>5, <1>6 DEF NoLeak, NoHoldAndWait
<1>8. \A i \in DOMAIN queue : queue[i] \in Call /\ queue[i] # c
    BY DEF TypeOK, WaitInv
<1>9. WaitInv'
    BY <1>2, <1>3, <1>6, <1>8 DEF WaitInv
<1> QED  BY <1>4, <1>7, <1>9

\* A call that is free to take a connection takes one.
LEMMA TakeInv ==
    ASSUME Inv, NEW c \in Call, at[c] \in {"between", "waiting"}, todo[c] # <<>>,
           Goto(c, Head(todo[c])), Take(c), UNCHANGED <<todo, row>>,
           queue' \in Seq(Call), IsInjective(queue'),
           \A i \in DOMAIN queue' :
               queue'[i] # c /\ \E k \in DOMAIN queue : queue'[i] = queue[k]
    PROVE  Inv'
<1> USE DEF Inv, Take, Goto
<1>1. PICK k \in free : /\ held' = [held EXCEPT ![c] = @ \cup {k}]
                        /\ free' = free \ {k}
    OBVIOUS
<1>2. k \in Conn /\ held[c] = {} /\ row # c
    BY DEF TypeOK, NoLeak, NoHoldAndWait
<1>3. /\ held' = [d \in Call |-> IF d = c THEN {k} ELSE held[d]]
      /\ at' = [d \in Call |-> IF d = c THEN Head(todo[c]) ELSE at[d]]
    BY <1>1, <1>2 DEF TypeOK
<1>4. Head(todo[c]) \in {"tx", "query"}
    BY TodoType DEF TypeOK
<1>5. TypeOK'
    BY <1>1, <1>2, <1>3, <1>4 DEF TypeOK, Place
<1>6. NoLeak' /\ NoHoldAndWait'
    BY <1>1, <1>2, <1>3, <1>4 DEF NoLeak, NoHoldAndWait
<1>7. WaitInv'
    BY <1>2, <1>3, <1>4 DEF WaitInv, TypeOK
<1> QED  BY <1>5, <1>6, <1>7

\* Every step keeps Inv: one step of the proof per action.
LEMMA StepInv ==
    ASSUME Inv, [Next]_vars
    PROVE  Inv'
<1> USE DEF Inv, TypeOK, NoLeak, NoHoldAndWait, WaitInv, Place, Goto, GoOn
<1>1. ASSUME NEW c \in Call, NEW kind \in DOMAIN Program, Arrive(c, kind) PROVE Inv'
    BY <1>1, ProgramType DEF Arrive
<1>2. ASSUME NEW c \in Call, Acquire(c) PROVE Inv'
    BY <1>2, TakeInv DEF Acquire
<1>3. ASSUME NEW c \in Call, Enqueue(c) PROVE Inv'
    BY <1>3, Join DEF Enqueue
<1>4. ASSUME NEW c \in Call, Grant(c) PROVE Inv'
    <2>1. /\ queue # <<>> /\ c = queue[1] /\ 1 \in DOMAIN queue
          /\ queue' \in Seq(Call) /\ IsInjective(queue')
          /\ \A i \in DOMAIN queue' : \E k \in DOMAIN queue : k # 1 /\ queue'[i] = queue[k]
        BY <1>4, LeaveFirst DEF Grant
    <2>2. at[c] = "waiting" /\ todo[c] # <<>>
        BY <2>1
    <2>3. \A i \in DOMAIN queue' :
              queue'[i] # c /\ \E k \in DOMAIN queue : queue'[i] = queue[k]
        BY <2>1 DEF IsInjective
    <2>4. Goto(c, Head(todo[c])) /\ Take(c) /\ UNCHANGED <<todo, row>>
        BY <1>4 DEF Grant
    <2> HIDE DEF Inv, Goto
    <2> QED  BY <2>1, <2>2, <2>3, <2>4, TakeInv
<1>5. ASSUME NEW c \in Call, GiveUp(c) PROVE Inv'
    <2>1. PICK i \in DOMAIN queue : queue[i] = c /\ queue' = RemoveAt(queue, i)
        BY <1>5 DEF GiveUp
    <2>2. /\ queue' \in Seq(Call) /\ IsInjective(queue')
          /\ \A j \in DOMAIN queue' : \E k \in DOMAIN queue : k # i /\ queue'[j] = queue[k]
        BY <2>1, Leave
    <2>3. \A j \in DOMAIN queue' : queue'[j] # c
        BY <2>1, <2>2 DEF IsInjective
    <2> QED  BY <1>5, <2>2, <2>3 DEF GiveUp
<1>6. ASSUME NEW c \in Call, QueryEnds(c) PROVE Inv'
    BY <1>6, GiveBackInv DEF QueryEnds
<1>7. ASSUME NEW c \in Call, LockRow(c) PROVE Inv'
    BY <1>7 DEF LockRow
<1>8. ASSUME NEW c \in Call, CallbackFails(c) PROVE Inv'
    <2>1. PICK p \in {"failed", "panicked"} : at' = [at EXCEPT ![c] = p]
        BY <1>8 DEF CallbackFails
    <2> QED  BY <1>8, <2>1 DEF CallbackFails
<1>9. ASSUME NEW c \in Call, Commit(c) PROVE Inv'
    BY <1>9, GiveBackInv DEF Commit
<1>10. ASSUME NEW c \in Call, Rollback(c) PROVE Inv'
    BY <1>10, GiveBackInv DEF Rollback
<1>11. ASSUME NEW c \in Call, Finish(c) PROVE Inv'
    BY <1>11 DEF Finish
<1>12. CASE UNCHANGED vars
    BY <1>12
<1> QED
    BY <1>1, <1>2, <1>3, <1>4, <1>5, <1>6, <1>7, <1>8, <1>9, <1>10, <1>11, <1>12
    DEF Next, Work

\* Inv holds in every reachable state.
THEOREM PoolInvariance == Spec => []Inv
<1>1. Inv /\ [Next]_vars => Inv'
    BY StepInv
<1> QED  BY InitInv, <1>1, PTL DEF Spec

\* No connection and no lock is lost, shared or left behind, for a pool of any
\* size and any number of calls.
THEOREM Conservation == Spec => []NoLeak
<1>1. Inv => NoLeak
    BY DEF Inv
<1> QED  BY PoolInvariance, <1>1, PTL

\* Nobody waits for a connection while holding one or a lock.
THEOREM AcquisitionOrder == Spec => []NoHoldAndWait
<1>1. Inv => NoHoldAndWait
    BY DEF Inv
<1> QED  BY PoolInvariance, <1>1, PTL
=============================================================================
