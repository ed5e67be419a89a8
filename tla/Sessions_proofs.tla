-------------------------- MODULE Sessions_proofs --------------------------
(***************************************************************************)
(* The safety of Sessions for every set of calls, users, faults and        *)
(* schemas and every lifetime: Inv is inductive, it implies the properties *)
(* of what is stored and answered, and with it every step is a step of     *)
(* SessionRegistry or leaves it unchanged.                                 *)
(***************************************************************************)
EXTENDS Sessions, TLAPS

USE DEF vars, request, rows, world

\* Nothing has happened yet.
LEMMA InitInv == Init => Inv
BY SessionAssumption
   DEF Init, Inv, TypeOK, ControlInv, MemoryInv, TablesInv, AnswerInv, Location,
       Answer, Refusal, TxState, Status, InTx, Refreshes, Stopped

\* Every step keeps the variables in their types.
LEMMA TypeStep ==
    ASSUME Inv, [Next]_vars
    PROVE  TypeOK'
<1> USE SessionAssumption DEF Inv, TypeOK, Location, Answer, Refusal, TxState, Status, Stopped,
        ControlInv, InTx, Refreshes
<1>1. ASSUME NEW c \in Call, Arrive(c) PROVE TypeOK'
    <2>1. CASE RefuseLogin(c) \/ RefuseUnknown(c)
        BY <2>1 DEF RefuseLogin, RefuseUnknown, Reply
    <2>2. ASSUME NEW u \in User, Login(c, u) PROVE TypeOK'
        BY <2>2 DEF Login, Goto
    <2>3. ASSUME NEW t \in Call, Lookup(c, t) PROVE TypeOK'
        BY <2>3 DEF Lookup, Goto
    <2> QED  BY <1>1, <2>1, <2>2, <2>3 DEF Arrive
<1>2. ASSUME NEW c \in Call, Work(c) PROVE TypeOK'
    <2>1. CASE PersistLogin(c)
        BY <2>1 DEF PersistLogin, Goto
    <2>2. CASE Check(c)
        BY <2>2 DEF Check, Goto, Reply, IsExpired, ExpiresAt
    <2>3. CASE BeginRotation(c)
        BY <2>3 DEF BeginRotation, Goto
    <2>4. CASE Revoke(c)
        BY <2>4 DEF Revoke, Goto
    <2>5. CASE RevokeDangles(c)
        BY <2>5 DEF RevokeDangles, Goto
    <2>6. CASE InsertNext(c)
        BY <2>6 DEF InsertNext, Goto
    <2>7. CASE SendCommit(c)
        BY <2>7 DEF SendCommit, Goto
    <2>8. CASE CommitAcked(c)
        BY <2>8 DEF CommitAcked, Reply
    <2>9. CASE Rollback(c)
        BY <2>9 DEF Rollback, Reply
    <2> QED  BY <1>2, <2>1, <2>2, <2>3, <2>4, <2>5, <2>6, <2>7, <2>8, <2>9 DEF Work
<1>3. ASSUME NEW c \in Call, SignFails(c) \/ Trouble(c) PROVE TypeOK'
    BY <1>3 DEF SignFails, Trouble, NoTransaction, StatementFails, RollbackLost,
                CommitUnsent, CommitUnacked, Goto, Reply
<1>4. ASSUME NEW c \in Call, ServerCommit(c) PROVE TypeOK'
    BY <1>4 DEF ServerCommit
<1>5. ASSUME NEW c \in Call, ServerAbort(c) PROVE TypeOK'
    BY <1>5 DEF ServerAbort
<1>6. CASE Crash
    BY <1>6 DEF Crash
<1>7. CASE Tick \/ UNCHANGED vars
    BY <1>7 DEF Tick
<1> QED  BY <1>1, <1>2, <1>3, <1>4, <1>5, <1>6, <1>7 DEF Next

\* Every step keeps goroutine and transaction in step.
LEMMA ControlStep ==
    ASSUME Inv, [Next]_vars, TypeOK'
    PROVE  ControlInv'
<1> USE SessionAssumption DEF Inv, TypeOK, Location, Answer, Refusal, TxState, Status, Stopped,
        ControlInv, MemoryInv, AnswerInv, InTx, Refreshes, Undecided
<1>1. ASSUME NEW c \in Call, Arrive(c) PROVE ControlInv'
    <2>1. CASE RefuseLogin(c) \/ RefuseUnknown(c)
        BY <2>1 DEF RefuseLogin, RefuseUnknown, Reply
    <2>2. ASSUME NEW u \in User, Login(c, u) PROVE ControlInv'
        BY <2>2 DEF Login, Goto
    <2>3. ASSUME NEW t \in Call, Lookup(c, t) PROVE ControlInv'
        BY <2>3 DEF Lookup, Goto
    <2> QED  BY <1>1, <2>1, <2>2, <2>3 DEF Arrive
<1>2. ASSUME NEW c \in Call, Work(c) PROVE ControlInv'
    <2>1. CASE PersistLogin(c)
        BY <2>1 DEF PersistLogin, Goto
    <2>2. CASE Check(c)
        BY <2>2 DEF Check, Goto, Reply, IsExpired, ExpiresAt
    <2>3. CASE BeginRotation(c)
        BY <2>3 DEF BeginRotation, Goto
    <2>4. CASE Revoke(c)
        <3>1. "revoke" \in staged'[c] /\ pc'[c] = "insert" /\ tx'[c] = "open"
            BY <2>4 DEF Revoke, Goto
        <3>2. \A d \in Call \ {c} : staged'[d] = staged[d] /\ pc'[d] = pc[d]
            BY <2>4 DEF Revoke, Goto
        <3>3. UNCHANGED <<tx, presented, answer>>
            BY <2>4 DEF Revoke
        <3> QED  BY <3>1, <3>2, <3>3
    <2>5. CASE RevokeDangles(c)
        BY <2>5 DEF RevokeDangles, Goto
    <2>6. CASE InsertNext(c)
        <3>1. staged'[c] = {"revoke", "insert"} /\ pc'[c] = "commit" /\ tx'[c] = "open"
            BY <2>6 DEF InsertNext, Goto
        <3>2. \A d \in Call \ {c} : staged'[d] = staged[d] /\ pc'[d] = pc[d]
            BY <2>6 DEF InsertNext, Goto
        <3>3. UNCHANGED <<tx, presented, answer>>
            BY <2>6 DEF InsertNext
        <3> QED  BY <3>1, <3>2, <3>3
    <2>7. CASE SendCommit(c)
        BY <2>7 DEF SendCommit, Goto
    <2>8. CASE CommitAcked(c)
        BY <2>8 DEF CommitAcked, Reply
    <2>9. CASE Rollback(c)
        BY <2>9 DEF Rollback, Reply
    <2> QED  BY <1>2, <2>1, <2>2, <2>3, <2>4, <2>5, <2>6, <2>7, <2>8, <2>9 DEF Work
<1>3. ASSUME NEW c \in Call, SignFails(c) \/ Trouble(c) PROVE ControlInv'
    BY <1>3 DEF SignFails, Trouble, NoTransaction, StatementFails, RollbackLost,
                CommitUnsent, CommitUnacked, Goto, Reply
<1>4. ASSUME NEW c \in Call, ServerCommit(c) PROVE ControlInv'
    BY <1>4 DEF ServerCommit
<1>5. ASSUME NEW c \in Call, ServerAbort(c) PROVE ControlInv'
    BY <1>5 DEF ServerAbort
<1>6. CASE Crash
    BY <1>6 DEF Crash
<1>7. CASE Tick \/ UNCHANGED vars
    BY <1>7 DEF Tick
<1> QED  BY <1>1, <1>2, <1>3, <1>4, <1>5, <1>6, <1>7 DEF Next

\* Every step keeps what a call remembers true: what it presents was given to
\* somebody by a call that is over, and a revoked token stays revoked.
LEMMA MemoryStep ==
    ASSUME Inv, [Next]_vars, TypeOK'
    PROVE  MemoryInv'
<1> USE SessionAssumption DEF Inv, TypeOK, Location, Answer, Refusal, TxState, Status, Stopped,
        ControlInv, MemoryInv, TablesInv, AnswerInv, InTx, Refreshes, ExpiresAt, Undecided
<1>1. ASSUME NEW c \in Call, Arrive(c) PROVE MemoryInv'
    <2>1. CASE RefuseLogin(c) \/ RefuseUnknown(c)
        BY <2>1 DEF RefuseLogin, RefuseUnknown, Reply
    <2>2. ASSUME NEW u \in User, Login(c, u) PROVE MemoryInv'
        BY <2>2 DEF Login, Goto
    <2>3. ASSUME NEW t \in Call, Lookup(c, t) PROVE MemoryInv'
        BY <2>3 DEF Lookup, Goto
    <2> QED  BY <1>1, <2>1, <2>2, <2>3 DEF Arrive
<1>2. ASSUME NEW c \in Call, Work(c) PROVE MemoryInv'
    <2>1. CASE PersistLogin(c)
        BY <2>1 DEF PersistLogin, Goto
    <2>2. CASE Check(c)
        BY <2>2 DEF Check, Goto, Reply, IsExpired, ExpiresAt
    <2>3. CASE BeginRotation(c)
        BY <2>3 DEF BeginRotation, Goto
    <2>4. CASE Revoke(c)
        BY <2>4 DEF Revoke, Goto
    <2>5. CASE RevokeDangles(c)
        BY <2>5 DEF RevokeDangles, Goto
    <2>6. CASE InsertNext(c)
        BY <2>6 DEF InsertNext, Goto
    <2>7. CASE SendCommit(c)
        BY <2>7 DEF SendCommit, Goto
    <2>8. CASE CommitAcked(c)
        BY <2>8 DEF CommitAcked, Reply
    <2>9. CASE Rollback(c)
        BY <2>9 DEF Rollback, Reply
    <2> QED  BY <1>2, <2>1, <2>2, <2>3, <2>4, <2>5, <2>6, <2>7, <2>8, <2>9 DEF Work
<1>3. ASSUME NEW c \in Call, SignFails(c) \/ Trouble(c) PROVE MemoryInv'
    BY <1>3 DEF SignFails, Trouble, NoTransaction, StatementFails, RollbackLost,
                CommitUnsent, CommitUnacked, Goto, Reply
<1>4. ASSUME NEW c \in Call, ServerCommit(c) PROVE MemoryInv'
    BY <1>4 DEF ServerCommit
<1>5. ASSUME NEW c \in Call, ServerAbort(c) PROVE MemoryInv'
    BY <1>5 DEF ServerAbort
<1>6. CASE Crash
    BY <1>6 DEF Crash
<1>7. CASE Tick \/ UNCHANGED vars
    BY <1>7 DEF Tick
<1> QED  BY <1>1, <1>2, <1>3, <1>4, <1>5, <1>6, <1>7 DEF Next

\* Every step keeps the rows those of the committed transactions.
LEMMA TablesStep ==
    ASSUME Inv, [Next]_vars, TypeOK'
    PROVE  TablesInv'
<1> USE SessionAssumption DEF Inv, TypeOK, Location, Answer, Refusal, TxState, Status, Stopped,
        ControlInv, MemoryInv, TablesInv, AnswerInv, InTx, Refreshes, Undecided
<1>1. ASSUME NEW c \in Call, Arrive(c) PROVE TablesInv'
    <2>1. CASE RefuseLogin(c) \/ RefuseUnknown(c)
        BY <2>1 DEF RefuseLogin, RefuseUnknown, Reply
    <2>2. ASSUME NEW u \in User, Login(c, u) PROVE TablesInv'
        BY <2>2 DEF Login, Goto
    <2>3. ASSUME NEW t \in Call, Lookup(c, t) PROVE TablesInv'
        BY <2>3 DEF Lookup, Goto
    <2> QED  BY <1>1, <2>1, <2>2, <2>3 DEF Arrive
<1>2. ASSUME NEW c \in Call, Work(c) PROVE TablesInv'
    <2>1. CASE PersistLogin(c)
        BY <2>1 DEF PersistLogin, Goto
    <2>2. CASE Check(c)
        BY <2>2 DEF Check, Goto, Reply, IsExpired, ExpiresAt
    <2>3. CASE BeginRotation(c)
        BY <2>3 DEF BeginRotation, Goto
    <2>4. CASE Revoke(c)
        BY <2>4 DEF Revoke, Goto
    <2>5. CASE RevokeDangles(c)
        BY <2>5 DEF RevokeDangles, Goto
    <2>6. CASE InsertNext(c)
        BY <2>6 DEF InsertNext, Goto
    <2>7. CASE SendCommit(c)
        BY <2>7 DEF SendCommit, Goto
    <2>8. CASE CommitAcked(c)
        BY <2>8 DEF CommitAcked, Reply
    <2>9. CASE Rollback(c)
        BY <2>9 DEF Rollback, Reply
    <2> QED  BY <1>2, <2>1, <2>2, <2>3, <2>4, <2>5, <2>6, <2>7, <2>8, <2>9 DEF Work
<1>3. ASSUME NEW c \in Call, SignFails(c) \/ Trouble(c) PROVE TablesInv'
    BY <1>3 DEF SignFails, Trouble, NoTransaction, StatementFails, RollbackLost,
                CommitUnsent, CommitUnacked, Goto, Reply
<1>4. ASSUME NEW c \in Call, ServerCommit(c) PROVE TablesInv'
    BY <1>4 DEF ServerCommit
<1>5. ASSUME NEW c \in Call, ServerAbort(c) PROVE TablesInv'
    BY <1>5 DEF ServerAbort
<1>6. CASE Crash
    BY <1>6 DEF Crash
<1>7. CASE Tick \/ UNCHANGED vars
    BY <1>7 DEF Tick
<1> QED  BY <1>1, <1>2, <1>3, <1>4, <1>5, <1>6, <1>7 DEF Next

\* Every step keeps the answers true.
LEMMA AnswerStep ==
    ASSUME Inv, [Next]_vars, TypeOK'
    PROVE  AnswerInv'
<1> USE SessionAssumption DEF Inv, TypeOK, Location, Answer, Refusal, TxState, Status, Stopped,
        ControlInv, MemoryInv, AnswerInv, InTx, Refreshes, Undecided
<1>1. ASSUME NEW c \in Call, Arrive(c) PROVE AnswerInv'
    <2>1. CASE RefuseLogin(c) \/ RefuseUnknown(c)
        BY <2>1 DEF RefuseLogin, RefuseUnknown, Reply
    <2>2. ASSUME NEW u \in User, Login(c, u) PROVE AnswerInv'
        BY <2>2 DEF Login, Goto
    <2>3. ASSUME NEW t \in Call, Lookup(c, t) PROVE AnswerInv'
        BY <2>3 DEF Lookup, Goto
    <2> QED  BY <1>1, <2>1, <2>2, <2>3 DEF Arrive
<1>2. ASSUME NEW c \in Call, Work(c) PROVE AnswerInv'
    <2>1. CASE PersistLogin(c)
        BY <2>1 DEF PersistLogin, Goto
    <2>2. CASE Check(c)
        BY <2>2 DEF Check, Goto, Reply, IsExpired, ExpiresAt
    <2>3. CASE BeginRotation(c)
        BY <2>3 DEF BeginRotation, Goto
    <2>4. CASE Revoke(c)
        BY <2>4 DEF Revoke, Goto
    <2>5. CASE RevokeDangles(c)
        BY <2>5 DEF RevokeDangles, Goto
    <2>6. CASE InsertNext(c)
        BY <2>6 DEF InsertNext, Goto
    <2>7. CASE SendCommit(c)
        BY <2>7 DEF SendCommit, Goto
    <2>8. CASE CommitAcked(c)
        BY <2>8 DEF CommitAcked, Reply
    <2>9. CASE Rollback(c)
        BY <2>9 DEF Rollback, Reply
    <2> QED  BY <1>2, <2>1, <2>2, <2>3, <2>4, <2>5, <2>6, <2>7, <2>8, <2>9 DEF Work
<1>3. ASSUME NEW c \in Call, SignFails(c) \/ Trouble(c) PROVE AnswerInv'
    BY <1>3 DEF SignFails, Trouble, NoTransaction, StatementFails, RollbackLost,
                CommitUnsent, CommitUnacked, Goto, Reply
<1>4. ASSUME NEW c \in Call, ServerCommit(c) PROVE AnswerInv'
    BY <1>4 DEF ServerCommit
<1>5. ASSUME NEW c \in Call, ServerAbort(c) PROVE AnswerInv'
    BY <1>5 DEF ServerAbort
<1>6. CASE Crash
    BY <1>6 DEF Crash
<1>7. CASE Tick \/ UNCHANGED vars
    BY <1>7 DEF Tick
<1> QED  BY <1>1, <1>2, <1>3, <1>4, <1>5, <1>6, <1>7 DEF Next

\* The inductive invariant.
THEOREM SessionInvariance == Spec => []Inv
<1>1. ASSUME Inv, [Next]_vars PROVE Inv'
    BY <1>1, TypeStep, ControlStep, MemoryStep, TablesStep, AnswerStep DEF Inv
<1> QED  BY InitInv, <1>1, PTL DEF Spec

-----------------------------------------------------------------------------
(* What the invariant says to a client and to whoever reads the tables. *)

\* Whatever fails between its two statements, a rotation takes effect in whole:
\* a revoked token has a stored replacement, for the same user and made from it.
THEOREM Atomicity == Spec => []RotationIsAtomic
<1>1. ASSUME Inv PROVE RotationIsAtomic
    <2>1. ASSUME NEW t \in Call, status[t] = "revoked"
          PROVE  \E c \in Call : /\ replacedBy[t] = c
                                 /\ status[c] # "absent"
                                 /\ presented[c] = t
                                 /\ owner[c] = owner[t]
        <3>1. /\ replacedBy[t] \in Call
              /\ tx[replacedBy[t]] = "committed" /\ presented[replacedBy[t]] = t
            BY <1>1, <2>1 DEF Inv, TablesInv
        <3>2. presented[replacedBy[t]] # None
            BY <3>1, SessionAssumption
        <3>3. status[replacedBy[t]] # "absent" /\ owner[replacedBy[t]] = owner[t]
            BY <1>1, <3>1, <3>2 DEF Inv, TablesInv, MemoryInv, Refreshes
        <3> QED  BY <3>1, <3>3
    <2>2. ASSUME NEW c \in Call, status[c] # "absent", presented[c] # None
          PROVE  status[presented[c]] = "revoked"
        BY <1>1, <2>2 DEF Inv, TablesInv, Refreshes
    <2> QED  BY <2>1, <2>2 DEF RotationIsAtomic
<1> QED  BY SessionInvariance, <1>1, PTL

\* A token that was revoked when it was looked up buys nothing, at once or later.
THEOREM ReplayDetection == Spec => []ReplayIsReported
<1>1. Inv => ReplayIsReported
    BY DEF Inv, MemoryInv, TablesInv, ReplayIsReported, Undecided
<1> QED  BY SessionInvariance, <1>1, PTL

\* Each token of a chain was issued within the lifetime of the one before it.
THEOREM ChainContinuity == Spec => []ChainHasNoGap
<1>1. ASSUME Inv PROVE ChainHasNoGap
    <2> SUFFICES ASSUME NEW c \in Call, status[c] # "absent", presented[c] # None
                 PROVE  stamp[presented[c]] + TTL > stamp[c]
        BY DEF ChainHasNoGap
    <2>1. tx[c] # "none" /\ presented[c] \in Call /\ stamp[c] \in Nat
        BY <1>1, SessionAssumption DEF Inv, TypeOK, TablesInv
    <2>2. stamp[presented[c]] \in Nat
        BY <1>1, <2>1, SessionAssumption DEF Inv, TypeOK
    <2> QED
        BY <1>1, <2>1, <2>2, SessionAssumption DEF Inv, MemoryInv, Refreshes, ExpiresAt
<1> QED  BY SessionInvariance, <1>1, PTL

\* "ok" is said of a stored token only.
THEOREM TokensAreStored == Spec => []AcceptedIsDurable
<1>1. Inv => AcceptedIsDurable
    BY DEF Inv, TablesInv, AnswerInv, AcceptedIsDurable
<1> QED  BY SessionInvariance, <1>1, PTL

\* After a refusal neither a committed nor an undecided row of the call exists.
THEOREM RefusalsAreFinal == Spec => []RefusedLeavesNothing
<1>1. Inv => RefusedLeavesNothing
    BY DEF Inv, TablesInv, AnswerInv, RefusedLeavesNothing, Undecided
<1> QED  BY SessionInvariance, <1>1, PTL

\* No step deletes a token or brings a revoked one back.
THEOREM Permanence == Spec => RevocationIsPermanent
<1> DEFINE Kept == \A t \in Call : /\ status[t] # "absent" => status'[t] # "absent"
                                   /\ status[t] = "revoked" => status'[t] = "revoked"
<1>1. ASSUME Inv, [Next]_vars PROVE [Kept]_vars
    <2>1. ASSUME NEW c \in Call, ServerCommit(c) PROVE Kept
        BY <1>1, <2>1 DEF ServerCommit, Inv, TypeOK, Status, TablesInv
    <2>2. CASE UNCHANGED status
        BY <2>2
    <2>3. UNCHANGED status \/ \E c \in Call : ServerCommit(c)
        BY <1>1
        DEF Next, Arrive, RefuseLogin, RefuseUnknown, Login, Lookup, Work, PersistLogin,
            Check, BeginRotation, Revoke, RevokeDangles, InsertNext, SendCommit,
            CommitAcked, Rollback, SignFails, Trouble, NoTransaction, StatementFails,
            RollbackLost, CommitUnsent, CommitUnacked, ServerAbort, Crash, Tick
    <2> QED  BY <2>1, <2>2, <2>3
<1> QED  BY SessionInvariance, <1>1, PTL DEF Spec, RevocationIsPermanent

-----------------------------------------------------------------------------
(* Sessions implements SessionRegistry. *)

USE DEF Registry!registry

\* The registry as the tables show it, and a call's memory as its claim.
Tokens ==
    [c \in Call |->
        IF status[c] = "absent" THEN None
        ELSE [user |-> owner[c], from |-> presented[c], issued |-> stamp[c]]]
Used == {t \in Call : status[t] = "revoked"}
Claim ==
    [c \in Call |->
        IF presented[c] = None THEN None
        ELSE [token |-> presented[c], live |-> current[c] # "revoked"]]

\* A token is granted, in the eyes of the registry, exactly if its row is there.
LEMMA GrantedIffStored ==
    ASSUME Inv, NEW c \in Call
    PROVE  Tokens[c] # None <=> status[c] # "absent"
<1>1. CASE status[c] # "absent"
    <2>1. /\ owner[c] \in User
          /\ presented[c] \in Call \cup {None} /\ stamp[c] \in 0 .. MaxTime
        BY <1>1 DEF Inv, TypeOK, TablesInv, MemoryInv
    <2> QED  BY <1>1, <2>1, NoneAssumption DEF Tokens
<1>2. CASE status[c] = "absent"
    BY <1>2 DEF Tokens
<1> QED  BY <1>1, <1>2

\* A call has a claim exactly if it presented a token, and a live one exactly if
\* that was not revoked when it was looked up.
LEMMA ClaimIffPresented ==
    ASSUME Inv, NEW c \in Call
    PROVE  /\ Claim[c] # None <=> Refreshes(c)
           /\ Refreshes(c) => /\ Claim[c].token = presented[c]
                              /\ Claim[c].live <=> current[c] # "revoked"
<1>1. CASE Refreshes(c)
    <2>1. presented[c] \in Call /\ (current[c] # "revoked") \in BOOLEAN
        BY <1>1 DEF Inv, TypeOK, Refreshes
    <2>2. Claim[c] = [token |-> presented[c], live |-> current[c] # "revoked"]
        BY <1>1 DEF Claim, Refreshes
    <2>3. [token |-> presented[c], live |-> current[c] # "revoked"]
              \in [token : Call, live : BOOLEAN]
        BY <2>1
    <2>4. Claim[c] # None
        BY <2>2, <2>3, NoneAssumption
    <2>5. /\ Claim[c].token = presented[c]
          /\ Claim[c].live = (current[c] # "revoked")
        BY <2>2
    <2> QED  BY <1>1, <2>4, <2>5
<1>2. CASE ~Refreshes(c)
    BY <1>2 DEF Claim, Refreshes
<1> QED  BY <1>1, <1>2

\* A reply that the tables and the call's memory bear out is the registry's.
LEMMA Told ==
    ASSUME Inv, NEW c \in Call, answer[c] = "none",
           NEW a, answer' = [answer EXCEPT ![c] = a],
           Tokens' = Tokens, Used' = Used, Claim' = Claim,
           \/ a = "ok" /\ tx[c] = "committed"
           \/ a \in {"credentials", "invalid"} /\ tx[c] = "none" /\ ~Refreshes(c)
           \/ a = "revoked" /\ Refreshes(c) /\ current[c] = "revoked"
           \/ a \in {"expired", "notSigned"} /\ tx[c] = "none"
              /\ Refreshes(c) /\ current[c] # "revoked"
           \/ a = "internal" /\ (Refreshes(c) => current[c] # "revoked")
    PROVE  Registry!Next
<1>1. Registry!Tell(c, a)
    BY DEF Registry!Tell, Tokens, Used, Claim
<1>2. Registry!Granted(c) <=> tx[c] = "committed"
    BY GrantedIffStored DEF Registry!Granted, Tokens, Inv, TablesInv
<1>3. /\ Registry!Live(c) <=> Refreshes(c) /\ current[c] # "revoked"
      /\ Claim[c] # None <=> Refreshes(c)
    BY ClaimIffPresented DEF Registry!Live, Claim
<1>4. CASE a = "ok" /\ tx[c] = "committed"
    BY <1>1, <1>2, <1>4 DEF Registry!Next, Registry!Accept
<1>5. CASE a \in {"credentials", "invalid"} /\ tx[c] = "none" /\ ~Refreshes(c)
    BY <1>1, <1>2, <1>3, <1>5 DEF Registry!Next, Registry!RefuseStranger, Claim
<1>6. CASE a = "revoked" /\ Refreshes(c) /\ current[c] = "revoked"
    BY <1>1, <1>3, <1>6 DEF Registry!Next, Registry!RefuseReplay, Claim
<1>7. CASE /\ a \in {"expired", "notSigned"} /\ tx[c] = "none"
           /\ Refreshes(c) /\ current[c] # "revoked"
    BY <1>1, <1>2, <1>3, <1>7 DEF Registry!Next, Registry!Refuse
<1>8. CASE a = "internal" /\ (Refreshes(c) => current[c] # "revoked")
    BY <1>1, <1>3, <1>8 DEF Registry!Next, Registry!LeaveInDoubt, Claim
<1> QED  BY <1>4, <1>5, <1>6, <1>7, <1>8

\* Looking a row up is examining its token.
LEMMA Examined ==
    ASSUME Inv, NEW c \in Call, NEW t \in Call, Lookup(c, t)
    PROVE  Registry!Next
<1>1. tx[c] = "none" /\ answer[c] = "none" /\ status[c] = "absent" /\ ~Refreshes(c)
    BY DEF Lookup, Inv, TypeOK, Status, ControlInv, TablesInv
<1>2. Registry!Granted(t)
    BY GrantedIffStored DEF Registry!Granted, Tokens, Lookup, Inv, AnswerInv, TablesInv
<1>3. Tokens' = Tokens
    BY <1>1 DEF Lookup, Tokens, Inv, TypeOK
<1>4. Used' = Used
    BY DEF Lookup, Used
<1>5. Claim' = [Claim EXCEPT ![c] = [token |-> t, live |-> t \notin Used]]
    <2>1. presented'[c] = t /\ current'[c] = status[t] /\ t # None
        BY SessionAssumption DEF Lookup, Inv, TypeOK
    <2>2. \A d \in Call \ {c} : presented'[d] = presented[d] /\ current'[d] = current[d]
        BY DEF Lookup, Inv, TypeOK
    <2>3. (status[t] # "revoked") = (t \notin Used)
        BY DEF Used
    <2>4. Claim'[c] = [token |-> t, live |-> t \notin Used]
        BY <2>1, <2>3 DEF Claim
    <2>5. \A d \in Call \ {c} : Claim'[d] = Claim[d]
        BY <2>2 DEF Claim
    <2> QED  BY <2>4, <2>5 DEF Claim
<1>6. Claim[c] = None
    BY <1>1 DEF Claim, Refreshes
<1>7. answer' = answer
    BY DEF Lookup
<1>8. Registry!Examine(c, t)
    BY <1>1, <1>2, <1>3, <1>4, <1>5, <1>6, <1>7
    DEF Registry!Examine, Tokens, Used, Claim
<1> QED  BY <1>8 DEF Registry!Next

\* A login's INSERT that takes effect grants a token.
LEMMA LoggedIn ==
    ASSUME Inv, NEW c \in Call, ServerCommit(c), ~Refreshes(c)
    PROVE  Registry!Next
<1>1. /\ staged[c] = {"insert"} /\ owner[c] \in User /\ stamp[c] \in 0 .. MaxTime
      /\ status[c] = "absent" /\ presented[c] = None
      /\ answer[c] \in {"none", "internal"}
    BY DEF ServerCommit, Inv, TypeOK, Status, Answer, ControlInv, MemoryInv,
           TablesInv, AnswerInv, Refreshes
<1>2. /\ status' = [status EXCEPT ![c] = "active"]
      /\ UNCHANGED <<owner, presented, current, stamp, answer>>
    BY <1>1 DEF ServerCommit, Inv, TypeOK
<1>3. Tokens' = [Tokens EXCEPT ![c] =
                    [user |-> owner[c], from |-> None, issued |-> stamp[c]]]
    BY <1>1, <1>2 DEF Tokens, Inv, TypeOK
<1>4. Used' = Used /\ Claim' = Claim
    BY <1>1, <1>2 DEF Used, Claim, Inv, TypeOK
<1>5. ~Registry!Granted(c)
    BY <1>1, GrantedIffStored DEF Registry!Granted, Tokens
<1>6. Claim[c] = None
    BY <1>1 DEF Claim
<1>7. Registry!LogIn(c, owner[c], stamp[c])
    BY <1>1, <1>2, <1>3, <1>4, <1>5, <1>6
    DEF Registry!LogIn, Registry!Grant, Tokens, Used, Claim
<1> QED  BY <1>1, <1>7 DEF Registry!Next

\* A rotation that takes effect uses its token up and grants the next in one step.
LEMMA Rotated ==
    ASSUME Inv, NEW c \in Call, ServerCommit(c), Refreshes(c)
    PROVE  Registry!Next
<1> DEFINE t == presented[c]
<1>1. /\ staged[c] = {"revoke", "insert"} /\ tx[c] = "committing"
      /\ t \in Call /\ answer[t] = "ok" /\ tx[t] = "committed"
      /\ owner[t] = owner[c]
      /\ stamp[c] \in 0 .. MaxTime /\ stamp[c] < stamp[t] + TTL
    BY DEF ServerCommit, Inv, TypeOK, ControlInv, MemoryInv, AnswerInv, Refreshes,
           ExpiresAt
<1>2. /\ status[c] = "absent" /\ status[t] # "absent" /\ t # c
      /\ answer[c] \in {"none", "internal"} /\ current[c] # "revoked"
    BY <1>1 DEF Inv, TypeOK, Status, Answer, MemoryInv, TablesInv, AnswerInv
<1>3. /\ status' = [status EXCEPT ![c] = "active", ![t] = "revoked"]
      /\ UNCHANGED <<owner, presented, current, stamp, answer>>
    BY <1>1, <1>2 DEF ServerCommit, Inv, TypeOK
<1>4. Tokens' = [Tokens EXCEPT ![c] =
                    [user |-> owner[t], from |-> t, issued |-> stamp[c]]]
    BY <1>1, <1>2, <1>3 DEF Tokens, Inv, TypeOK
<1>5. Used' = Used \cup {t} /\ Claim' = Claim
    BY <1>1, <1>2, <1>3 DEF Used, Claim, Inv, TypeOK
<1>6. ~Registry!Granted(c)
    BY <1>2, GrantedIffStored DEF Registry!Granted, Tokens
<1>7. Registry!Live(c) /\ Claim[c].token = t
    BY <1>2, ClaimIffPresented DEF Registry!Live, Claim
<1>8. Tokens[t].user = owner[t] /\ Tokens[t].issued = stamp[t]
    BY <1>1, <1>2 DEF Tokens
<1> HIDE DEF t
<1>9. PICK instant \in 0 .. MaxTime : instant = stamp[c]
    BY <1>1
<1>10. Registry!Rotate(c, instant)
    BY <1>1, <1>2, <1>3, <1>4, <1>5, <1>6, <1>7, <1>8, <1>9
    DEF Registry!Rotate, Registry!Grant, Tokens, Used, Claim
<1> QED  BY <1>10 DEF Registry!Next

\* Every step is a step of the registry or invisible to it.
LEMMA StepSimulation ==
    ASSUME Inv, [Next]_vars
    PROVE  [Registry!Next]_(Registry!registry)
<1> DEFINE Silent == /\ Tokens' = Tokens /\ Used' = Used /\ Claim' = Claim
                     /\ answer' = answer
<1>1. Silent => UNCHANGED Registry!registry
    BY DEF Tokens, Used, Claim
<1>2. UNCHANGED <<status, owner, presented, stamp, current>>
          => Tokens' = Tokens /\ Used' = Used /\ Claim' = Claim
    BY DEF Tokens, Used, Claim
<1>3. ASSUME NEW c \in Call, Arrive(c) PROVE Registry!Next \/ Silent
    <2>1. CASE RefuseLogin(c) \/ RefuseUnknown(c)
        BY <1>2, <2>1, Told DEF RefuseLogin, RefuseUnknown, Reply, Inv, ControlInv
    <2>2. ASSUME NEW u \in User, Login(c, u) PROVE Silent
        <3>1. status[c] = "absent"
            BY <2>2 DEF Login, Inv, ControlInv, TablesInv
        <3> QED  BY <2>2, <3>1 DEF Login, Tokens, Used, Claim, Inv, TypeOK
    <2> QED  BY <1>3, <2>1, <2>2, Examined DEF Arrive
<1>4. ASSUME NEW c \in Call, Work(c) PROVE Registry!Next \/ Silent
    <2>1. CASE \/ PersistLogin(c) \/ BeginRotation(c) \/ Revoke(c) \/ RevokeDangles(c)
               \/ InsertNext(c) \/ SendCommit(c)
        BY <1>2, <2>1
        DEF PersistLogin, BeginRotation, Revoke, RevokeDangles, InsertNext, SendCommit
    <2>2. CASE Check(c)
        <3>1. /\ status[c] = "absent" /\ answer[c] = "none" /\ tx[c] = "none"
              /\ Refreshes(c)
            BY <2>2 DEF Check, Inv, ControlInv, TablesInv
        <3>2. Tokens' = Tokens /\ Used' = Used /\ Claim' = Claim
            BY <2>2, <3>1 DEF Check, Tokens, Used, Claim, Inv, TypeOK
        <3> QED  BY <2>2, <3>1, <3>2, Told DEF Check, Reply
    <2>3. CASE CommitAcked(c)
        BY <1>2, <2>3, Told DEF CommitAcked, Reply, Inv, TypeOK, Answer, ControlInv
    <2>4. CASE Rollback(c)
        <3>1. answer[c] = "none" /\ (Refreshes(c) => current[c] # "revoked")
            BY <2>4 DEF Rollback, Inv, TypeOK, Answer, ControlInv, MemoryInv
        <3> QED  BY <1>2, <2>4, <3>1, Told DEF Rollback, Reply
    <2> QED  BY <1>4, <2>1, <2>2, <2>3, <2>4 DEF Work
<1>5. ASSUME NEW c \in Call, SignFails(c) PROVE Registry!Next \/ Silent
    <2>1. /\ answer[c] = "none" /\ tx[c] = "none"
          /\ Refreshes(c) /\ current[c] # "revoked"
        BY <1>5 DEF SignFails, Inv, ControlInv, MemoryInv
    <2>2. Tokens' = Tokens /\ Used' = Used /\ Claim' = Claim
        BY <1>2, <1>5 DEF SignFails
    <2> QED  BY <1>5, <2>1, <2>2, Told DEF SignFails, Reply
<1>6. ASSUME NEW c \in Call, Trouble(c) PROVE Registry!Next \/ Silent
    <2>1. CASE StatementFails(c)
        BY <1>2, <2>1 DEF StatementFails
    <2>2. CASE NoTransaction(c) \/ RollbackLost(c) \/ CommitUnsent(c) \/ CommitUnacked(c)
        <3>1. answer[c] = "none" /\ (Refreshes(c) => current[c] # "revoked")
            BY <2>2
            DEF NoTransaction, RollbackLost, CommitUnsent, CommitUnacked, Inv,
                ControlInv, MemoryInv
        <3> QED
            BY <1>2, <2>2, <3>1, Told
            DEF NoTransaction, RollbackLost, CommitUnsent, CommitUnacked, Reply
    <2> QED  BY <1>6, <2>1, <2>2 DEF Trouble
<1>7. ASSUME NEW c \in Call, ServerCommit(c) PROVE Registry!Next
    BY <1>7, LoggedIn, Rotated
<1>8. CASE (\E c \in Call : ServerAbort(c)) \/ Crash \/ Tick \/ UNCHANGED vars
    BY <1>2, <1>8 DEF ServerAbort, Crash, Tick
<1> HIDE DEF Silent
<1> QED  BY <1>1, <1>3, <1>4, <1>5, <1>6, <1>7, <1>8 DEF Next

\* To its clients, sessions kept through transactions, commits whose outcome is
\* unknown, concurrent rotations and crashes are the atomic registry.
THEOREM SessionRefinement == Spec => ImplementsSessions
<1>1. Init => Registry!Init
    BY DEF Init, Registry!Init
<1> QED  BY <1>1, SessionInvariance, StepSimulation, PTL
         DEF Spec, ImplementsSessions, Registry!Spec
=============================================================================
