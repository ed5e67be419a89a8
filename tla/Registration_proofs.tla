------------------------ MODULE Registration_proofs ------------------------
(***************************************************************************)
(* The safety of Registration for every set of requests, addresses and     *)
(* passwords: Inv is inductive, it implies the properties that the runs    *)
(* check, and with it every step is a step of AccountRegistry or leaves it *)
(* unchanged.  One lemma per conjunct of Inv shows that a step keeps it.   *)
(***************************************************************************)
EXTENDS Registration, TLAPS

USE DEF vars, client, tables, staged

\* Nothing has happened yet.
LEMMA InitInv == Init => Inv
BY InputAssumption
   DEF Init, Inv, TypeOK, ControlInv, MemoryInv, TablesInv, LockInv, SerialInv,
       AnswerInv, Location, Api, Answer, TxState, InTx, Stopped, Undecided

\* Every step keeps the variables in their types.
LEMMA TypeStep ==
    ASSUME Inv, [Next]_vars
    PROVE  TypeOK'
<1> USE InputAssumption DEF TypeOK, Location, Api, Answer, TxState, InTx,
        Stopped, Inv, ControlInv, MemoryInv, User, Event, UserRow, EventRow,
        Normalised, Email, Spelling, Style, Undecided
<1>1. ASSUME NEW r \in Request, Arrive(r) PROVE TypeOK'
    <2>1. ASSUME NEW raw \in RawEmail, NEW length \in PasswordLength,
                 Reject(r, raw, length)
          PROVE  TypeOK'
        BY <2>1 DEF Reject, Reply
    <2>2. ASSUME NEW raw \in RawEmail, NEW length \in PasswordLength,
                 NEW api \in Api, Prepare(r, raw, length, api)
          PROVE  TypeOK'
        <3>1. raw.mailbox \in Mailbox
            BY DEF Spelling
        <3>2. Normalised(raw) \in Email
            BY <3>1 DEF Normalised, Email, Style
        <3> HIDE DEF Normalised, Email, Spelling
        <3> QED  BY <2>2, <3>2 DEF Prepare, Goto
    <2> QED  BY <1>1, <2>1, <2>2 DEF Arrive
<1>2. ASSUME NEW r \in Request, Work(r) PROVE TypeOK'
    <2>1. CASE BeginTx(r)
        BY <2>1 DEF BeginTx, Goto
    <2>2. CASE InsertUser(r)
        BY <2>2 DEF InsertUser, Goto
    <2>3. CASE InsertTaken(r)
        BY <2>3 DEF InsertTaken, Goto, Fail
    <2>4. CASE Publish(r)
        BY <2>4 DEF Publish, Goto
    <2>5. CASE Rollback(r)
        BY <2>5 DEF Rollback, Reply
    <2>6. CASE SendCommit(r)
        BY <2>6 DEF SendCommit, Goto
    <2>7. CASE CommitAcked(r)
        BY <2>7 DEF CommitAcked, Goto, Reply
    <2>8. CASE ReadBack(r)
        BY <2>8 DEF ReadBack, Reply
    <2> QED  BY <1>2, <2>1, <2>2, <2>3, <2>4, <2>5, <2>6, <2>7, <2>8 DEF Work
<1>3. ASSUME NEW r \in Request, Trouble(r) PROVE TypeOK'
    BY <1>3
    DEF Trouble, NoTransaction, StatementFails, RollbackLost,
        CommitUnsent, CommitUnacked, ReadBackFails, Goto, Reply, Fail
<1>4. ASSUME NEW r \in Request, ServerCommit(r) PROVE TypeOK'
    BY <1>4 DEF ServerCommit
<1>5. ASSUME NEW r \in Request, ServerAbort(r) PROVE TypeOK'
    BY <1>5 DEF ServerAbort
<1>6. CASE Crash
    BY <1>6 DEF Crash
<1>7. CASE UNCHANGED vars
    BY <1>7
<1> QED  BY <1>1, <1>2, <1>3, <1>4, <1>5, <1>6, <1>7 DEF Next

\* Every step keeps goroutine and transaction in step.
LEMMA ControlStep ==
    ASSUME Inv, [Next]_vars, TypeOK'
    PROVE  ControlInv'
<1> USE InputAssumption DEF TypeOK, Location, Api, Answer, TxState, InTx,
        Stopped, Inv, ControlInv, Undecided
<1>1. ASSUME NEW r \in Request, Arrive(r) PROVE ControlInv'
    BY <1>1 DEF Arrive, Reject, Prepare, Goto, Reply
<1>2. ASSUME NEW r \in Request, Work(r) PROVE ControlInv'
    <2>1. CASE BeginTx(r)
        BY <2>1 DEF BeginTx, Goto
    <2>2. CASE InsertUser(r)
        BY <2>2 DEF InsertUser, Goto
    <2>3. CASE InsertTaken(r)
        BY <2>3 DEF InsertTaken, Goto, Fail
    <2>4. CASE Publish(r)
        BY <2>4 DEF Publish, Goto
    <2>5. CASE Rollback(r)
        BY <2>5 DEF Rollback, Reply
    <2>6. CASE SendCommit(r)
        BY <2>6 DEF SendCommit, Goto
    <2>7. CASE CommitAcked(r)
        BY <2>7 DEF CommitAcked, Goto, Reply
    <2>8. CASE ReadBack(r)
        BY <2>8 DEF ReadBack, Reply
    <2> QED  BY <1>2, <2>1, <2>2, <2>3, <2>4, <2>5, <2>6, <2>7, <2>8 DEF Work
<1>3. ASSUME NEW r \in Request, Trouble(r) PROVE ControlInv'
    BY <1>3
    DEF Trouble, NoTransaction, StatementFails, RollbackLost,
        CommitUnsent, CommitUnacked, ReadBackFails, Goto, Reply, Fail
<1>4. ASSUME NEW r \in Request, ServerCommit(r) PROVE ControlInv'
    BY <1>4 DEF ServerCommit
<1>5. ASSUME NEW r \in Request, ServerAbort(r) PROVE ControlInv'
    BY <1>5 DEF ServerAbort
<1>6. CASE Crash
    BY <1>6 DEF Crash
<1>7. CASE UNCHANGED vars
    BY <1>7
<1> QED  BY <1>1, <1>2, <1>3, <1>4, <1>5, <1>6, <1>7 DEF Next

\* Every step keeps what the goroutine remembers true: an InsertTaken saw a
\* committed row of another request, and users never loses one.
LEMMA MemoryStep ==
    ASSUME Inv, [Next]_vars, TypeOK'
    PROVE  MemoryInv'
<1> USE InputAssumption DEF TypeOK, Location, Api, Answer, TxState, InTx,
        Stopped, Inv, ControlInv, MemoryInv, TablesInv, UserRow, User, Taken,
        Normalised, Email, Spelling, Style, Undecided
<1>1. ASSUME NEW r \in Request, Arrive(r) PROVE MemoryInv'
    BY <1>1 DEF Arrive, Reject, Prepare, Goto, Reply
<1>2. ASSUME NEW r \in Request, Work(r) PROVE MemoryInv'
    <2>1. CASE BeginTx(r)
        BY <2>1 DEF BeginTx, Goto
    <2>2. CASE InsertUser(r)
        BY <2>2 DEF InsertUser, Goto
    <2>3. CASE InsertTaken(r)
        BY <2>3 DEF InsertTaken, Goto, Fail
    <2>4. CASE Publish(r)
        BY <2>4 DEF Publish, Goto
    <2>5. CASE Rollback(r)
        BY <2>5 DEF Rollback, Reply
    <2>6. CASE SendCommit(r)
        BY <2>6 DEF SendCommit, Goto
    <2>7. CASE CommitAcked(r)
        BY <2>7 DEF CommitAcked, Goto, Reply
    <2>8. CASE ReadBack(r)
        BY <2>8 DEF ReadBack, Reply
    <2> QED  BY <1>2, <2>1, <2>2, <2>3, <2>4, <2>5, <2>6, <2>7, <2>8 DEF Work
<1>3. ASSUME NEW r \in Request, Trouble(r) PROVE MemoryInv'
    BY <1>3
    DEF Trouble, NoTransaction, StatementFails, RollbackLost,
        CommitUnsent, CommitUnacked, ReadBackFails, Goto, Reply, Fail
<1>4. ASSUME NEW r \in Request, ServerCommit(r) PROVE MemoryInv'
    BY <1>4 DEF ServerCommit
<1>5. ASSUME NEW r \in Request, ServerAbort(r) PROVE MemoryInv'
    BY <1>5 DEF ServerAbort
<1>6. CASE Crash
    BY <1>6 DEF Crash
<1>7. CASE UNCHANGED vars
    BY <1>7
<1> QED  BY <1>1, <1>2, <1>3, <1>4, <1>5, <1>6, <1>7 DEF Next

\* Only ServerCommit touches the tables; LockInv says that the email of the row
\* it adds is not there yet.
LEMMA TablesStep ==
    ASSUME Inv, [Next]_vars, TypeOK'
    PROVE  TablesInv'
<1> USE InputAssumption DEF TypeOK, Location, Api, Answer, TxState, InTx,
        Stopped, Inv, ControlInv, MemoryInv, TablesInv, LockInv, UserRow,
        EventRow, User, Event, Undecided, Taken
<1>1. ASSUME NEW r \in Request, Arrive(r) PROVE TablesInv'
    BY <1>1 DEF Arrive, Reject, Prepare, Goto, Reply
<1>2. ASSUME NEW r \in Request, Work(r) PROVE TablesInv'
    BY <1>2
    DEF Work, BeginTx, InsertUser, InsertTaken, Publish, Rollback,
        SendCommit, CommitAcked, ReadBack, Goto, Reply, Fail
<1>3. ASSUME NEW r \in Request, Trouble(r) PROVE TablesInv'
    BY <1>3
    DEF Trouble, NoTransaction, StatementFails, RollbackLost,
        CommitUnsent, CommitUnacked, ReadBackFails, Goto, Reply, Fail
<1>4. ASSUME NEW r \in Request, ServerCommit(r) PROVE TablesInv'
    BY <1>4 DEF ServerCommit
<1>5. ASSUME NEW r \in Request, ServerAbort(r) PROVE TablesInv'
    BY <1>5 DEF ServerAbort
<1>6. CASE Crash
    BY <1>6 DEF Crash
<1>7. CASE UNCHANGED vars
    BY <1>7
<1> QED  BY <1>1, <1>2, <1>3, <1>4, <1>5, <1>6, <1>7 DEF Next

\* A row is staged only when no other row, staged or committed, has its email;
\* and while it is staged InsertUser stages no other with it.
LEMMA LockStep ==
    ASSUME Inv, [Next]_vars, TypeOK'
    PROVE  LockInv'
<1> USE InputAssumption DEF TypeOK, Location, Api, Answer, TxState, InTx,
        Stopped, Inv, ControlInv, MemoryInv, LockInv, TablesInv, Undecided,
        Taken, Blocked, UserRow, User
<1>1. ASSUME NEW r \in Request, Arrive(r) PROVE LockInv'
    BY <1>1 DEF Arrive, Reject, Prepare, Goto, Reply
<1>2. ASSUME NEW r \in Request, Work(r) PROVE LockInv'
    <2>1. CASE BeginTx(r)
        BY <2>1 DEF BeginTx, Goto
    <2>2. CASE InsertUser(r)
        BY <2>2 DEF InsertUser, Goto
    <2>3. CASE InsertTaken(r)
        BY <2>3 DEF InsertTaken, Goto, Fail
    <2>4. CASE Publish(r)
        BY <2>4 DEF Publish, Goto
    <2>5. CASE Rollback(r)
        BY <2>5 DEF Rollback, Reply
    <2>6. CASE SendCommit(r)
        BY <2>6 DEF SendCommit, Goto
    <2>7. CASE CommitAcked(r)
        BY <2>7 DEF CommitAcked, Goto, Reply
    <2>8. CASE ReadBack(r)
        BY <2>8 DEF ReadBack, Reply
    <2> QED  BY <1>2, <2>1, <2>2, <2>3, <2>4, <2>5, <2>6, <2>7, <2>8 DEF Work
<1>3. ASSUME NEW r \in Request, Trouble(r) PROVE LockInv'
    BY <1>3
    DEF Trouble, NoTransaction, StatementFails, RollbackLost,
        CommitUnsent, CommitUnacked, ReadBackFails, Goto, Reply, Fail
<1>4. ASSUME NEW r \in Request, ServerCommit(r) PROVE LockInv'
    BY <1>4 DEF ServerCommit
<1>5. ASSUME NEW r \in Request, ServerAbort(r) PROVE LockInv'
    BY <1>5 DEF ServerAbort
<1>6. CASE Crash
    BY <1>6 DEF Crash
<1>7. CASE UNCHANGED vars
    BY <1>7 DEF Taken, Blocked
<1> QED  BY <1>1, <1>2, <1>3, <1>4, <1>5, <1>6, <1>7 DEF Next

\* Publish takes the next value of the sequence.
LEMMA SerialStep ==
    ASSUME Inv, [Next]_vars, TypeOK'
    PROVE  SerialInv'
<1> USE InputAssumption DEF TypeOK, Location, Api, Answer, TxState, InTx,
        Stopped, Inv, SerialInv
<1>1. ASSUME NEW r \in Request, Arrive(r) PROVE SerialInv'
    BY <1>1 DEF Arrive, Reject, Prepare, Goto, Reply
<1>2. ASSUME NEW r \in Request, Work(r) PROVE SerialInv'
    BY <1>2
    DEF Work, BeginTx, InsertUser, InsertTaken, Publish, Rollback,
        SendCommit, CommitAcked, ReadBack, Goto, Reply, Fail
<1>3. ASSUME NEW r \in Request, Trouble(r) PROVE SerialInv'
    BY <1>3
    DEF Trouble, NoTransaction, StatementFails, RollbackLost,
        CommitUnsent, CommitUnacked, ReadBackFails, Goto, Reply, Fail
<1>4. ASSUME NEW r \in Request, ServerCommit(r) PROVE SerialInv'
    BY <1>4 DEF ServerCommit
<1>5. ASSUME NEW r \in Request, ServerAbort(r) PROVE SerialInv'
    BY <1>5 DEF ServerAbort
<1>6. CASE Crash
    BY <1>6 DEF Crash
<1>7. CASE UNCHANGED vars
    BY <1>7
<1> QED  BY <1>1, <1>2, <1>3, <1>4, <1>5, <1>6, <1>7 DEF Next

\* A call has an account exactly if its transaction committed.
LEMMA AccountIffCommitted ==
    ASSUME Inv, NEW r \in Request
    PROVE  Registry!HasAccount(r) <=> tx[r] = "committed"
BY DEF Registry!HasAccount, Inv, TypeOK, User, TablesInv, UserRow

\* Every answer agrees with the transaction behind it.
LEMMA AnswerStep ==
    ASSUME Inv, [Next]_vars, TypeOK'
    PROVE  AnswerInv'
<1> USE InputAssumption DEF TypeOK, Location, Api, Answer, TxState, InTx,
        Stopped, Inv, ControlInv, MemoryInv, AnswerInv, TablesInv, UserRow,
        Undecided
<1>1. ASSUME NEW r \in Request, Arrive(r) PROVE AnswerInv'
    BY <1>1 DEF Arrive, Reject, Prepare, Goto, Reply
<1>2. ASSUME NEW r \in Request, Work(r) PROVE AnswerInv'
    <2>1. CASE BeginTx(r)
        BY <2>1 DEF BeginTx, Goto
    <2>2. CASE InsertUser(r)
        BY <2>2 DEF InsertUser, Goto
    <2>3. CASE InsertTaken(r)
        BY <2>3 DEF InsertTaken, Goto, Fail
    <2>4. CASE Publish(r)
        BY <2>4 DEF Publish, Goto
    <2>5. CASE Rollback(r)
        BY <2>5 DEF Rollback, Reply
    <2>6. CASE SendCommit(r)
        BY <2>6 DEF SendCommit, Goto
    <2>7. CASE CommitAcked(r)
        BY <2>7 DEF CommitAcked, Goto, Reply
    <2>8. CASE ReadBack(r)
        <3>1. \E u \in users : u.id = r
            BY <2>8, AccountIffCommitted DEF ReadBack, Registry!HasAccount
        <3>2. answer' = [answer EXCEPT ![r] = "ok"] /\ pc' = [pc EXCEPT ![r] = "done"]
            BY <2>8, <3>1 DEF ReadBack, Reply
        <3> QED  BY <2>8, <3>2 DEF ReadBack
    <2> QED  BY <1>2, <2>1, <2>2, <2>3, <2>4, <2>5, <2>6, <2>7, <2>8 DEF Work
<1>3. ASSUME NEW r \in Request, Trouble(r) PROVE AnswerInv'
    BY <1>3
    DEF Trouble, NoTransaction, StatementFails, RollbackLost,
        CommitUnsent, CommitUnacked, ReadBackFails, Goto, Reply, Fail
<1>4. ASSUME NEW r \in Request, ServerCommit(r) PROVE AnswerInv'
    BY <1>4 DEF ServerCommit
<1>5. ASSUME NEW r \in Request, ServerAbort(r) PROVE AnswerInv'
    BY <1>5 DEF ServerAbort
<1>6. CASE Crash
    BY <1>6 DEF Crash
<1>7. CASE UNCHANGED vars
    BY <1>7
<1> QED  BY <1>1, <1>2, <1>3, <1>4, <1>5, <1>6, <1>7 DEF Next

\* Inv holds of every reachable state.
THEOREM Invariance == Spec => []Inv
<1>1. Inv /\ [Next]_vars => Inv'
    BY TypeStep, ControlStep, MemoryStep, TablesStep, LockStep, SerialStep,
       AnswerStep DEF Inv
<1> QED  BY InitInv, <1>1, PTL DEF Spec

-----------------------------------------------------------------------------
(* What follows from Inv. *)

\* The variables keep their types: the goroutines, the transactions and the
\* rows stay in the states the code gives them.
THEOREM TypeCorrect == Spec => []TypeOK
<1>1. Inv => TypeOK
    BY DEF Inv
<1> QED  BY Invariance, <1>1, PTL

\* Addresses are normalised before they are stored and the unique index keeps
\* normalised addresses apart, so no mailbox ever has two accounts.
THEOREM MailboxUniqueness == Spec => []OneAccountPerMailbox
<1>1. ASSUME Inv PROVE OneAccountPerMailbox
    <2> SUFFICES ASSUME NEW u \in users, NEW v \in users,
                        u.email.mailbox = v.email.mailbox
                 PROVE  u = v
        BY DEF OneAccountPerMailbox
    <2>1. ASSUME NEW w \in users PROVE w.email \in Email /\ w.email.style = "lower"
        BY <1>1, InputAssumption
        DEF Inv, TypeOK, User, TablesInv, MemoryInv, UserRow
    <2>2. u.email = v.email
        BY <2>1 DEF Email
    <2> QED  BY <1>1, <2>2 DEF Inv, TablesInv
<1> QED  BY Invariance, <1>1, PTL

\* The outbox is transactional: the events committed are, one for one, those of
\* the users committed.
THEOREM OutboxAtomicity == Spec => []OneEventPerUser
<1>1. ASSUME Inv PROVE OneEventPerUser
    <2>1. ASSUME NEW u \in users
          PROVE  \E e \in outbox : e.aggregate = u.id /\ e.email = u.email
        <3>1. u.id \in Request /\ u = UserRow(u.id) /\ EventRow(u.id) \in outbox
            BY <1>1 DEF Inv, TypeOK, User, TablesInv
        <3>2. EventRow(u.id).aggregate = u.id /\ EventRow(u.id).email = u.email
            BY <3>1 DEF UserRow, EventRow
        <3> QED  BY <3>1, <3>2
    <2>2. \A e \in outbox : \E u \in users : u.id = e.aggregate
        BY <1>1 DEF Inv, TypeOK, Event, TablesInv, UserRow
    <2>3. ASSUME NEW e \in outbox, NEW f \in outbox,
                 e.aggregate = f.aggregate \/ e.serial = f.serial
          PROVE  e = f
        BY <1>1, <2>3
        DEF Inv, TypeOK, Event, TablesInv, EventRow, SerialInv, ControlInv
    <2> QED  BY <2>1, <2>2, <2>3 DEF OneEventPerUser
<1> QED  BY Invariance, <1>1, PTL

\* "ok" is said of a committed account only, and a committed account stays.
THEOREM Durability == Spec => []AcceptedIsDurable
<1>1. Inv => AcceptedIsDurable
    BY DEF Inv, TablesInv, AnswerInv, AcceptedIsDurable
<1> QED  BY Invariance, <1>1, PTL

\* After a refusal neither a committed nor an undecided row of the call exists.
THEOREM Finality == Spec => []RefusedIsFinal
<1>1. ASSUME Inv PROVE RefusedIsFinal
    <2> SUFFICES ASSUME NEW r \in Request,
                        answer[r] \in {"invalid", "conflict", "notFound"}
                 PROVE  (\A u \in users : u.id # r) /\ ~(r \in Undecided /\ stagedUser[r])
        BY DEF RefusedIsFinal
    <2>1. tx[r] = "none" \/ ~stagedUser[r]
        BY <1>1 DEF Inv, AnswerInv, MemoryInv
    <2>2. tx[r] # "committed"
        BY <1>1, <2>1 DEF Inv, ControlInv
    <2> QED  BY <1>1, <2>1, <2>2 DEF Inv, TablesInv, Undecided
<1> QED  BY Invariance, <1>1, PTL

\* "Email taken" is backed by somebody else's committed row.
THEOREM Honesty == Spec => []ConflictIsHonest
<1>1. Inv => ConflictIsHonest
    BY DEF Inv, AnswerInv, MemoryInv, ConflictIsHonest
<1> QED  BY Invariance, <1>1, PTL

-----------------------------------------------------------------------------
(* Registration implements AccountRegistry. *)

USE DEF Registry!registry

\* A reply that the transaction behind it bears out is an answer of the registry.
LEMMA Told ==
    ASSUME Inv, UNCHANGED tables, NEW r \in Request, answer[r] = "none",
           NEW a, answer' = [answer EXCEPT ![r] = a],
           \/ a = "ok" /\ tx[r] = "committed"
           \/ a = "invalid" /\ tx[r] = "none"
           \/ a = "conflict" /\ tx[r] # "committed" /\ users # {}
           \/ a = "internal"
    PROVE  Registry!Next
<1>1. Registry!Tell(r, a)
    BY DEF Registry!Tell
<1>2. CASE a = "ok"
    BY <1>1, <1>2, AccountIffCommitted DEF Registry!Next, Registry!Accept
<1>3. CASE a = "invalid"
    BY <1>1, <1>3, AccountIffCommitted DEF Registry!Next, Registry!RefuseInvalid
<1>4. CASE a = "conflict"
    BY <1>1, <1>4, AccountIffCommitted DEF Registry!Next, Registry!RefuseTaken
<1>5. CASE a = "internal"
    BY <1>1, <1>5 DEF Registry!Next, Registry!LeaveInDoubt
<1> QED  BY <1>2, <1>3, <1>4, <1>5

\* The commit of a transaction opens the account and announces it.
LEMMA Opened ==
    ASSUME Inv, NEW r \in Request, ServerCommit(r)
    PROVE  Registry!Next
<1> DEFINE row == [id |-> r, email |-> email[r]]
<1>1. stagedUser[r] /\ stagedEvent[r] # 0 /\ email[r] \in Email
    BY DEF ServerCommit, Inv, ControlInv, MemoryInv, TypeOK
<1>2. answer[r] \in {"none", "internal"}
    BY <1>1 DEF ServerCommit, Inv, TypeOK, Answer, AnswerInv, MemoryInv
<1>3. ~Registry!HasAccount(r)
    BY AccountIffCommitted DEF ServerCommit
<1>4. \A u \in users : u.email # email[r]
    BY <1>1 DEF ServerCommit, Inv, LockInv, Undecided, Taken
<1>5. users' = users \cup {row}
    BY <1>1 DEF ServerCommit, UserRow
<1>6. outbox' = outbox \cup {EventRow(r)} /\ EventRow(r).aggregate = r
                                        /\ EventRow(r).email = email[r]
    BY <1>1 DEF ServerCommit, EventRow
<1>7. {[id |-> e.aggregate, email |-> e.email] : e \in outbox'}
          = {[id |-> e.aggregate, email |-> e.email] : e \in outbox} \cup {row}
    BY <1>6
<1>8. answer' = answer
    BY DEF ServerCommit
<1> HIDE DEF row
<1>9. \E e \in Email : Registry!Open(r, e)
    BY <1>1, <1>2, <1>3, <1>4, <1>5, <1>7, <1>8 DEF Registry!Open, row
<1> QED  BY <1>9 DEF Registry!Next

\* Every step is a step of the registry or invisible to it.
LEMMA StepSimulation ==
    ASSUME Inv, [Next]_vars
    PROVE  [Registry!Next]_(Registry!registry)
<1> DEFINE Silent == UNCHANGED <<users, outbox, answer>>
<1>1. Silent => UNCHANGED Registry!registry
    BY DEF Registry!registry
<1>2. ASSUME NEW r \in Request, Arrive(r)
      PROVE  Registry!Next \/ Silent
    BY <1>2, Told DEF Arrive, Reject, Prepare, Reply, Inv, ControlInv
<1>3. ASSUME NEW r \in Request, Work(r)
      PROVE  Registry!Next \/ Silent
    <2>1. CASE BeginTx(r) \/ InsertUser(r) \/ InsertTaken(r) \/ Publish(r) \/ SendCommit(r)
        BY <2>1 DEF BeginTx, InsertUser, InsertTaken, Publish, SendCommit
    <2>2. CASE Rollback(r)
        BY <2>2, Told
        DEF Rollback, Reply, Inv, TypeOK, ControlInv, MemoryInv, InTx
    <2>3. CASE CommitAcked(r)
        BY <2>3, Told DEF CommitAcked, Reply, Inv, ControlInv, InTx
    <2>4. CASE ReadBack(r)
        <3>1. tx[r] = "committed" /\ answer[r] = "none"
            BY <2>4 DEF ReadBack, Inv, ControlInv
        <3>2. answer' = [answer EXCEPT ![r] = "ok"]
            BY <2>4, <3>1, AccountIffCommitted DEF ReadBack, Reply, Registry!HasAccount
        <3> QED  BY <2>4, <3>1, <3>2, Told DEF ReadBack
    <2> QED  BY <1>3, <2>1, <2>2, <2>3, <2>4 DEF Work
<1>4. ASSUME NEW r \in Request, Trouble(r)
      PROVE  Registry!Next \/ Silent
    <2>1. CASE NoTransaction(r) \/ CommitUnsent(r) \/ CommitUnacked(r) \/ ReadBackFails(r)
        BY <2>1, Told
        DEF NoTransaction, CommitUnsent, CommitUnacked, ReadBackFails, Reply, Inv,
            ControlInv, InTx
    <2>2. CASE StatementFails(r)
        BY <2>2 DEF StatementFails
    <2>3. CASE RollbackLost(r)
        BY <2>3, Told
        DEF RollbackLost, Reply, Inv, TypeOK, ControlInv, MemoryInv, InTx
    <2> QED  BY <1>4, <2>1, <2>2, <2>3 DEF Trouble
<1>5. ASSUME NEW r \in Request, ServerCommit(r) \/ ServerAbort(r)
      PROVE  Registry!Next \/ Silent
    BY <1>5, Opened DEF ServerAbort
<1>6. Crash \/ UNCHANGED vars => Silent
    BY DEF Crash
<1> HIDE DEF Silent
<1> QED  BY <1>1, <1>2, <1>3, <1>4, <1>5, <1>6 DEF Next

\* To its clients, registration through transactions, commits whose outcome is
\* unknown and crashes is the atomic registry.
THEOREM Refinement == Spec => ImplementsRegistry
<1>1. Init => Registry!Init
    BY DEF Init, Registry!Init
<1> QED  BY <1>1, Invariance, StepSimulation, PTL
         DEF Spec, ImplementsRegistry, Registry!Spec
=============================================================================
