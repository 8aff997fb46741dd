------------------------ MODULE BankingServiceProofs ------------------------
(***************************************************************************)
(* What the bank in memory guarantees for any number of threads, accounts  *)
(* and calls.                                                              *)
(***************************************************************************)
EXTENDS BankingService, Counting, TLAPS

(* Types *)

Kinds == {"none", "deposit", "withdrawal"}
EntryTypes == {"deposit", "withdrawal", "undo deposit", "undo withdrawal"}
Entries == [type : EntryTypes, amount : Int, after : Int]
Snapshots == [type : {"deposit", "withdrawal"}, amount : Int, prev : Int]
CallTypes == [kind : Kinds, account : Accounts, amount : Int]
Memories ==
  [prev : Int, base : Int, link : Seq(Entries), after : Int, undone : EntryTypes \cup {"none"},
   amount : Int, payload : Nat, prev_hash : Nat, hash : Nat]

\* The shared data.
DataTyped ==
  /\ balance \in [Accounts -> Int] /\ active \in [Accounts -> BOOLEAN]
  /\ floor \in [Accounts -> {n \in Int : n <= 0}]
  /\ history \in [Accounts -> Seq(Entries)]
  /\ undo \in [Accounts -> Seq(Snapshots)] /\ \A a \in Accounts : Len(undo[a]) <= MaxUndo
  /\ lock \in [Accounts -> Threads \cup {Free}]
  /\ transaction_queue \in Seq(Jobs) /\ loan_queue \subseteq [loan : Jobs, count : Nat]
  /\ hashes \in Nat /\ last_hash \in 0 .. hashes /\ asked \in 0 .. MaxJobs

\* What a thread keeps.
ThreadsTyped ==
  /\ pc \in [Threads -> Labels] /\ job \in [Threads -> Jobs \cup {NoJob}]
  /\ call \in [Threads -> CallTypes] /\ mem \in [Threads -> Memories]
  /\ \A w \in Threads : mem[w].hash <= hashes

Postings == {"check", "lock", "prev", "read", "write", "push", "unlock"}
Making == {"lock_made", "history_made", "stack_made"}
Holds == {"prev", "read", "write", "link", "prepend", "push", "unlock"}

\* What the step a thread is at says of the call it makes.
KnownOf(w) ==
  /\ pc[w] # "idle" => job[w] \in Jobs
  /\ pc[w] \in Postings => call[w].kind # "none"
  /\ pc[w] \in {"link", "prepend"} =>
       \/ call[w].kind # "none"
       \/ job[w].op = "create_account"
       \/ job[w].op = "undo_last_transaction" /\ mem[w].undone # "none"
  /\ pc[w] \in {"pop", "restore"} => job[w].op = "undo_last_transaction"
  /\ pc[w] = "restore" => mem[w].undone # "none"
  /\ pc[w] \in Making => job[w].op = "create_account"
  /\ pc[w] \in {"dequeue", "take"} => job[w].op = "process_queued_transactions"
  /\ job[w].op \in {"undo_last_transaction", "create_account"} => call[w].kind = "none"

Known == \A w \in Threads : KnownOf(w)

\* An account that is being created has exactly one thread that creates it, and
\* that is how far it has got.
Building ==
  /\ built \in [Accounts -> 0 .. 4]
  /\ \A w \in Threads :
       /\ pc[w] = "lock_made" => built[Of(w)] = 1
       /\ pc[w] = "history_made" => built[Of(w)] = 2
       /\ pc[w] = "stack_made" => built[Of(w)] = 3
       /\ \A v \in Threads : v # w /\ pc[v] \in Making /\ pc[w] \in Making => Of(v) # Of(w)

\* Who holds a lock is posting to the account.
Holding ==
  \A a \in Accounts, w \in Threads :
    lock[a] = w => pc[w] \in Holds /\ Of(w) = a /\ call[w].kind # "none"

Typed == DataTyped /\ ThreadsTyped /\ Known
Inv == Typed /\ Building /\ Holding

\* The calls are those of the constant Jobs.
LEMMA JobFacts ==
  ASSUME NEW j \in Jobs
  PROVE  /\ j \in Job /\ j.op \in Ops /\ j.account \in Accounts /\ j.target \in Accounts
         /\ j.amount \in Int
  BY JobsAssumption DEF Job

\* The records of an idle thread.
LEMMA IdleFacts ==
  /\ NoCall \in CallTypes /\ NoCall.kind = "none" /\ Blank \in Memories /\ Blank.hash = 0
  /\ NoJob.op = "none" /\ NoJob \in Jobs \cup {NoJob}
  <1>1. (CHOOSE a \in Accounts : TRUE) \in Accounts
    BY AccountsAssumption
  <1>2. <<>> \in Seq(Entries)
    OBVIOUS
  <1> QED BY <1>1, <1>2 DEF NoCall, Outer, Posting, CallTypes, Kinds, Blank, Memories, NoJob

\* A step of thread w changes nothing that another thread keeps.
LEMMA OthersStay ==
  ASSUME ThreadsTyped, NEW w \in Threads, Step(w) \/ \E j \in Jobs : Call(w, j),
         NEW v \in Threads, v # w
  PROVE  pc'[v] = pc[v] /\ job'[v] = job[v] /\ call'[v] = call[v] /\ mem'[v] = mem[v]
  <1> USE DEF ThreadsTyped
  <1>1. ASSUME NEW j \in Jobs, Call(w, j)
        PROVE  pc'[v] = pc[v] /\ job'[v] = job[v] /\ call'[v] = call[v] /\ mem'[v] = mem[v]
    BY <1>1 DEF Call, CallPosting, CallTransfer, CallFreeze, CallUndo, CallEnqueue,
       CallProcessQueue, CallApplyLoan, CallProcessLoan, CallCreate, Begins, Goto
  <1>2. ASSUME NEW ok, Resume(w, ok)
        PROVE  pc'[v] = pc[v] /\ job'[v] = job[v] /\ call'[v] = call[v] /\ mem'[v] = mem[v]
    BY <1>2 DEF Resume, Continue, Return, Goto
  <1>3. CASE Check(w) \/ AppendLog(w)
    BY <1>2, <1>3 DEF Check, AppendLog, Goto
  <1>4. CASE \/ Lock(w) \/ ReadPrev(w) \/ ReadBalance(w) \/ WriteBalance(w)
             \/ Link(w) \/ Prepend(w) \/ Push(w) \/ Unlock(w) \/ Raise(w)
    BY <1>4 DEF Lock, ReadPrev, ReadBalance, WriteBalance, Link, Prepend, Push, Pushes, Unlock,
       Raise, Remember, Return, Goto
  <1>5. CASE \/ Pop(w) \/ Restore(w) \/ Build(w) \/ Hash(w) \/ PrevHash(w) \/ LastHash(w)
             \/ Dequeue(w) \/ Take(w)
    BY <1>5 DEF Pop, Restore, Restores, Build, Hash, PrevHash, LastHash, Dequeue, Take, Remember,
       Return, Continue, Goto
  <1> QED BY <1>1, <1>3, <1>4, <1>5 DEF Step

\* What a step of w has to leave behind: its own records typed and known.
OwnTyped(w) ==
  /\ pc' \in [Threads -> Labels] /\ job' \in [Threads -> Jobs \cup {NoJob}]
  /\ call' \in [Threads -> CallTypes] /\ mem' \in [Threads -> Memories]
  /\ mem'[w].hash <= hashes' /\ KnownOf(w)'

\* A call that returns leaves its thread idle.
LEMMA ReturnTyped ==
  ASSUME Typed, NEW w \in Threads, Return(w), hashes' \in Nat
  PROVE  OwnTyped(w)
  <1>1. /\ pc' = [pc EXCEPT ![w] = "idle"] /\ job' = [job EXCEPT ![w] = NoJob]
        /\ call' = [call EXCEPT ![w] = NoCall] /\ mem' = [mem EXCEPT ![w] = Blank]
    BY DEF Return, Goto
  <1>2. "idle" \in Labels
    BY DEF Labels
  <1> QED BY <1>1, <1>2, IdleFacts
          DEF OwnTyped, Typed, ThreadsTyped, KnownOf, Postings, Making

\* So does one that goes on with another call inside it.
LEMMA ContinueTyped ==
  ASSUME Typed, NEW w \in Threads, NEW label, NEW c \in CallTypes, Continue(w, label, c),
         hashes' \in Nat, job[w] \in Jobs,
         job[w].op \notin {"undo_last_transaction", "create_account"},
         \/ label = "hash"
         \/ label = "check" /\ c.kind # "none"
         \/ label = "dequeue" /\ job[w].op = "process_queued_transactions"
  PROVE  OwnTyped(w)
  <1>1. /\ pc' = [pc EXCEPT ![w] = label] /\ job' = job
        /\ call' = [call EXCEPT ![w] = c] /\ mem' = [mem EXCEPT ![w] = Blank]
    BY DEF Continue, Goto
  <1>2. label \in Labels
    BY DEF Labels
  <1> QED BY <1>1, <1>2, IdleFacts
          DEF OwnTyped, Typed, ThreadsTyped, KnownOf, Postings, Making

\* And the end of a deposit or withdrawal, whatever asked for it.
LEMMA ResumeTyped ==
  ASSUME Typed, NEW w \in Threads, NEW ok, Resume(w, ok), hashes' \in Nat, pc[w] # "idle"
  PROVE  OwnTyped(w)
  <1>1. job[w] \in Jobs
    BY DEF Typed, Known, KnownOf
  <1>2. CASE job[w].op = "transfer" /\ call[w].kind = "withdrawal" /\ ok
    <2>1. Posting("deposit", job[w].target, job[w].amount) \in CallTypes
      BY <1>1, JobFacts DEF Posting, CallTypes, Kinds
    <2> QED BY <1>1, <1>2, <2>1, ContinueTyped DEF Resume, Posting
  <1>3. CASE \/ job[w].op = "transfer" /\ call[w].kind = "deposit"
             \/ job[w].op = "process_next_loan" /\ call[w].kind = "deposit"
    <2>1. Continue(w, "hash", NoCall)
      BY <1>3 DEF Resume
    <2> QED BY <1>1, <1>3, <2>1, ContinueTyped, IdleFacts
  <1>5. CASE job[w].op = "process_queued_transactions"
    <2>1. Continue(w, "dequeue", NoCall)
      BY <1>5 DEF Resume
    <2> QED BY <1>1, <1>5, <2>1, ContinueTyped, IdleFacts
  <1>4. CASE ~ \/ job[w].op = "transfer" /\ call[w].kind = "withdrawal" /\ ok
               \/ job[w].op = "transfer" /\ call[w].kind = "deposit"
               \/ job[w].op = "process_next_loan" /\ call[w].kind = "deposit"
               \/ job[w].op = "process_queued_transactions"
    <2>1. Return(w)
      BY <1>4 DEF Resume
    <2> QED BY <2>1, ReturnTyped
  <1> QED BY <1>2, <1>3, <1>4, <1>5

\* A call that a thread makes.
LEMMA BeginsTyped ==
  ASSUME Typed, NEW w \in Threads, NEW j \in Jobs, NEW label, NEW c \in CallTypes,
         Begins(w, j, label, c), hashes' \in Nat,
         \/ label = "hash"
         \/ label = "dequeue" /\ j.op = "process_queued_transactions"
         \/ label = "check" /\ c.kind # "none"
         \/ label = "pop" /\ j.op = "undo_last_transaction"
         \/ label = "lock_made" /\ j.op = "create_account",
         j.op \in {"undo_last_transaction", "create_account"} => c.kind = "none"
  PROVE  OwnTyped(w) /\ asked' \in 0 .. MaxJobs
  <1>1. /\ pc' = [pc EXCEPT ![w] = label] /\ job' = [job EXCEPT ![w] = j]
        /\ call' = [call EXCEPT ![w] = c] /\ mem' = [mem EXCEPT ![w] = Blank]
    BY DEF Begins, Goto
  <1>2. label \in Labels
    BY DEF Labels, Changing
  <1>3. asked' \in 0 .. MaxJobs
    BY JobsAssumption DEF Begins, Typed, DataTyped
  <1> QED BY <1>1, <1>2, <1>3, IdleFacts
          DEF OwnTyped, Typed, ThreadsTyped, KnownOf, Postings, Making

\* The operations that a thread may call.
LEMMA CallTyped ==
  ASSUME Typed, NEW w \in Threads, NEW j \in Jobs, Call(w, j)
  PROVE  OwnTyped(w) /\ DataTyped'
  <1> USE DEF DataTyped
  <1>1. /\ Outer(j.account) \in CallTypes /\ Outer(j.account).kind = "none"
        /\ NoCall \in CallTypes /\ NoCall.kind = "none"
        /\ \A k \in {"deposit", "withdrawal"} : /\ Posting(k, j.account, j.amount) \in CallTypes
                                                /\ Posting(k, j.account, j.amount).kind = k
    BY JobFacts, IdleFacts DEF Outer, Posting, CallTypes, Kinds
  <1>2. CASE CallPosting(w, j)
    <2>1. OwnTyped(w) /\ asked' \in 0 .. MaxJobs
      BY <1>1, <1>2, BeginsTyped DEF CallPosting, audit, Typed
    <2> QED BY <1>2, <2>1 DEF CallPosting, account, queues, audit, Typed
  <1>3. CASE CallTransfer(w, j)
    <2>1. OwnTyped(w) /\ asked' \in 0 .. MaxJobs
      BY <1>1, <1>3, BeginsTyped DEF CallTransfer, audit, Typed
    <2> QED BY <1>3, <2>1 DEF CallTransfer, account, queues, audit, Typed
  <1>4. CASE CallFreeze(w, j)
    <2>1. OwnTyped(w) /\ asked' \in 0 .. MaxJobs
      BY <1>1, <1>4, BeginsTyped DEF CallFreeze, audit, Typed
    <2> QED BY <1>4, <2>1 DEF CallFreeze, queues, audit, Typed
  <1>5. CASE CallUndo(w, j)
    <2>1. OwnTyped(w) /\ asked' \in 0 .. MaxJobs
      BY <1>1, <1>5, BeginsTyped DEF CallUndo, audit, Typed
    <2> QED BY <1>5, <2>1 DEF CallUndo, account, queues, audit, Typed
  <1>6. CASE CallEnqueue(w, j)
    <2>1. OwnTyped(w)
      BY <1>6 DEF CallEnqueue, audit, Typed, ThreadsTyped, OwnTyped, Known, KnownOf
    <2> QED BY <1>6, <2>1, JobsAssumption DEF CallEnqueue, account, queues, audit, Typed
  <1>7. CASE CallProcessQueue(w, j)
    <2>1. OwnTyped(w) /\ asked' \in 0 .. MaxJobs
      BY <1>1, <1>7, BeginsTyped DEF CallProcessQueue, audit, Typed
    <2> QED BY <1>7, <2>1 DEF CallProcessQueue, account, queues, audit, Typed
  <1>8. CASE CallApplyLoan(w, j)
    <2>1. OwnTyped(w) /\ asked' \in 0 .. MaxJobs
      BY <1>1, <1>8, BeginsTyped DEF CallApplyLoan, audit, Typed
    <2> QED BY <1>8, <2>1 DEF CallApplyLoan, account, audit, Typed
  <1>9. CASE CallProcessLoan(w, j)
    <2>1. PICK next \in loan_queue :
            /\ loan_queue' = loan_queue \ {next}
            /\ IF j.kind = "approved"
               THEN Begins(w, j, "check",
                           Posting("deposit", next.loan.account, next.loan.amount))
               ELSE Begins(w, j, "hash", NoCall)
      BY <1>9 DEF CallProcessLoan
    <2>2. next.loan \in Jobs
      BY DEF Typed
    <2>3. /\ Posting("deposit", next.loan.account, next.loan.amount) \in CallTypes
          /\ Posting("deposit", next.loan.account, next.loan.amount).kind = "deposit"
      BY <2>2, JobFacts DEF Posting, CallTypes, Kinds
    <2>4. OwnTyped(w) /\ asked' \in 0 .. MaxJobs
      BY <1>1, <1>9, <2>1, <2>3, BeginsTyped DEF CallProcessLoan, audit, Typed
    <2> QED BY <1>9, <2>1, <2>4 DEF CallProcessLoan, account, audit, Typed
  <1>10. CASE CallCreate(w, j)
    <2>1. OwnTyped(w) /\ asked' \in 0 .. MaxJobs
      BY <1>1, <1>10, BeginsTyped DEF CallCreate, audit, Typed
    <2> QED BY <1>10, <2>1, JobFacts DEF CallCreate, queues, audit, Typed
  <1> QED BY <1>2, <1>3, <1>4, <1>5, <1>6, <1>7, <1>8, <1>9, <1>10 DEF Call

\* A step that only remembers something and moves on.
LEMMA RememberTyped ==
  ASSUME Typed, NEW w \in Threads, NEW label \in Labels, NEW m \in Memories,
         Remember(w, label, m), m.hash <= hashes, job[w] \in Jobs, label # "idle",
         KnownOf(w)'
  PROVE  OwnTyped(w) /\ DataTyped'
  BY DEF Remember, Goto, OwnTyped, Typed, ThreadsTyped, DataTyped, account, queues, audit

\* The entry that a posting, an undo or a new account records.
LEMMA RecordedTyped ==
  ASSUME Typed, NEW w \in Threads, pc[w] = "prepend"
  PROVE  Entry(Recorded(w)[1], Recorded(w)[2], mem[w].after) \in Entries
  <1>1. job[w] \in Jobs /\ mem[w] \in Memories /\ call[w] \in CallTypes
    BY DEF Typed, ThreadsTyped, Known, KnownOf
  <1>2. CASE job[w].op = "create_account"
    BY <1>1, <1>2, JobFacts DEF Recorded, Entry, Entries, EntryTypes, Memories
  <1>3. CASE job[w].op = "undo_last_transaction"
    <2>1. mem[w].undone \in EntryTypes
      BY <1>1, <1>3 DEF Typed, Known, KnownOf, Memories
    <2> QED BY <1>1, <1>3, <2>1 DEF Recorded, Entry, Entries, Memories
  <1>4. CASE job[w].op \notin {"create_account", "undo_last_transaction"}
    <2>1. call[w].kind \in {"deposit", "withdrawal"}
      BY <1>1, <1>4 DEF Typed, Known, KnownOf, CallTypes, Kinds
    <2> QED BY <1>1, <1>4, <2>1 DEF Recorded, Entry, Entries, EntryTypes, Memories, CallTypes
  <1> QED BY <1>2, <1>3, <1>4

\* Every step of a thread keeps the types.
LEMMA StepTyped ==
  ASSUME Typed, NEW w \in Threads, Step(w)
  PROVE  OwnTyped(w) /\ DataTyped'
  <1>1. /\ mem[w] \in Memories /\ call[w] \in CallTypes /\ mem[w].hash <= hashes
        /\ Of(w) \in Accounts /\ hashes \in Nat /\ last_hash \in Nat
        /\ pc[w] # "idle" => job[w] \in Jobs
        /\ KnownOf(w)
    BY DEF Typed, ThreadsTyped, DataTyped, Known, KnownOf, Of, CallTypes
  <1>2. CASE Check(w)
    <2>1. CASE Resume(w, FALSE)
      BY <1>1, <1>2, <2>1, ResumeTyped
         DEF Check, account, queues, audit, Typed, DataTyped
    <2>2. CASE Goto(w, "lock") /\ UNCHANGED <<job, call, mem>>
      BY <1>1, <1>2, <2>2 DEF Check, account, queues, audit, Typed, DataTyped, ThreadsTyped,
         OwnTyped, KnownOf, Goto, Labels, Postings, Making
    <2> QED BY <1>2, <2>1, <2>2 DEF Check
  <1>3. CASE Lock(w)
    BY <1>1, <1>3 DEF Lock, account, queues, audit, Typed, DataTyped, ThreadsTyped,
       OwnTyped, KnownOf, Goto, Labels, Changing, Postings, Making
  <1>4. CASE ReadPrev(w)
    <2> DEFINE m == [mem[w] EXCEPT !.prev = balance[Of(w)]]
    <2>1. m \in Memories /\ m.hash = mem[w].hash
      BY <1>1 DEF Memories, Typed, DataTyped
    <2>2. Remember(w, "read", m) /\ pc[w] = "prev"
      BY <1>4 DEF ReadPrev
    <2>3. KnownOf(w)'
      BY <1>1, <2>2 DEF Remember, Goto, KnownOf, Typed, ThreadsTyped, Postings, Making
    <2> QED BY <1>1, <2>1, <2>2, <2>3, RememberTyped DEF Labels, Changing
  <1>5. CASE ReadBalance(w)
    <2> DEFINE m == [mem[w] EXCEPT !.base = balance[Of(w)]]
    <2>1. m \in Memories /\ m.hash = mem[w].hash
      BY <1>1 DEF Memories, Typed, DataTyped
    <2>2. Remember(w, "write", m) /\ pc[w] = "read"
      BY <1>5 DEF ReadBalance
    <2>3. KnownOf(w)'
      BY <1>1, <2>2 DEF Remember, Goto, KnownOf, Typed, ThreadsTyped, Postings, Making
    <2> QED BY <1>1, <2>1, <2>2, <2>3, RememberTyped DEF Labels, Changing
  <1>6. CASE WriteBalance(w)
    <2>1. Signed(call[w].kind, call[w].amount) \in Int
      <3>1. pc[w] = "write"
        BY <1>6 DEF WriteBalance
      <3>2. call[w].kind \in {"deposit", "withdrawal"} /\ call[w].amount \in Int
        BY <1>1, <3>1 DEF KnownOf, Postings, CallTypes, Kinds
      <3>3. Signed("deposit", call[w].amount) = call[w].amount
        BY DEF Signed
      <3>4. Signed("withdrawal", call[w].amount) = -call[w].amount
        BY DEF Signed
      <3> QED BY <3>2, <3>3, <3>4
    <2>2. mem[w].base \in Int
      BY <1>1 DEF Memories
    <2>3. DataTyped'
      BY <1>1, <1>6, <2>1, <2>2 DEF WriteBalance, queues, audit, Typed, DataTyped
    <2>4. OwnTyped(w)
      BY <1>1, <1>6 DEF WriteBalance, audit, Typed, ThreadsTyped, OwnTyped, KnownOf, Goto,
         Labels, Changing, Postings, Making
    <2> QED BY <2>3, <2>4
  <1>7. CASE Link(w)
    <2> DEFINE after == IF job[w].op = "create_account" THEN job[w].amount ELSE balance[Of(w)]
               m == [mem[w] EXCEPT !.link = history[Of(w)], !.after = after]
    <2>1. after \in Int /\ history[Of(w)] \in Seq(Entries)
      BY <1>1, <1>7, JobFacts DEF Link, Typed, DataTyped
    <2>2. m \in Memories /\ m.hash = mem[w].hash /\ m.undone = mem[w].undone
      BY <1>1, <2>1 DEF Memories
    <2>3. Remember(w, "prepend", m) /\ pc[w] = "link"
      BY <1>7 DEF Link
    <2>4. KnownOf(w)'
      BY <1>1, <2>2, <2>3 DEF Remember, Goto, KnownOf, Typed, ThreadsTyped, Postings, Making
    <2> QED BY <1>1, <2>2, <2>3, <2>4, RememberTyped DEF Labels, Changing
  <1>8. CASE Prepend(w)
    <2> DEFINE e == Entry(Recorded(w)[1], Recorded(w)[2], mem[w].after)
    <2>1. e \in Entries /\ mem[w].link \in Seq(Entries)
      BY <1>1, <1>8, RecordedTyped DEF Prepend, Memories
    <2>2. <<e>> \o mem[w].link \in Seq(Entries)
      BY <2>1
    <2>3. DataTyped'
      BY <1>1, <1>8, <2>2 DEF Prepend, queues, audit, Typed, DataTyped
    <2>4. OwnTyped(w)
      BY <1>1, <1>8 DEF Prepend, audit, Typed, ThreadsTyped, OwnTyped, KnownOf, Goto,
         Labels, Changing, Postings, Making
    <2> QED BY <2>3, <2>4
  <1>9. CASE Push(w)
    <2> DEFINE s == undo[Of(w)]
               kept == IF Len(s) >= MaxUndo THEN Tail(s) ELSE s
               snap == [type |-> call[w].kind, amount |-> call[w].amount, prev |-> mem[w].prev]
    <2>1. s \in Seq(Snapshots) /\ Len(s) <= MaxUndo /\ MaxUndo \in Nat \ {0}
      BY <1>1, AccountsAssumption DEF Typed, DataTyped
    <2>2. kept \in Seq(Snapshots) /\ Len(kept) < MaxUndo
      <3>1. CASE Len(s) >= MaxUndo
        <4>1. s # <<>>
          BY <2>1, <3>1
        <4> QED BY <2>1, <3>1, <4>1
      <3>2. CASE ~(Len(s) >= MaxUndo)
        BY <2>1, <3>2
      <3> QED BY <3>1, <3>2
    <2>3. snap \in Snapshots
      BY <1>1, <1>9 DEF Push, Pushes, KnownOf, Postings, CallTypes, Kinds, Memories, Snapshots
    <2>4. Append(kept, snap) \in Seq(Snapshots) /\ Len(Append(kept, snap)) <= MaxUndo
      BY <2>1, <2>2, <2>3
    <2>5. undo' = [undo EXCEPT ![Of(w)] = Append(kept, snap)]
      BY <1>9 DEF Push, Pushes
    <2>6. DataTyped'
      BY <1>1, <1>9, <2>4, <2>5 DEF Push, Pushes, queues, audit, Typed, DataTyped
    <2>7. OwnTyped(w)
      BY <1>1, <1>9 DEF Push, Pushes, audit, Typed, ThreadsTyped, OwnTyped, KnownOf, Goto,
         Labels, Changing, Postings, Making
    <2> QED BY <2>6, <2>7
  <1>10. CASE Unlock(w)
    BY <1>1, <1>10 DEF Unlock, account, queues, audit, Typed, DataTyped, ThreadsTyped,
       OwnTyped, KnownOf, Goto, Labels, Changing, Postings, Making
  <1>11. CASE Raise(w)
    BY <1>1, <1>11, ReturnTyped DEF Raise, account, queues, audit, Typed, DataTyped
  <1>12. CASE Pop(w)
    <2> DEFINE s == undo[Of(w)]
               op == s[Len(s)]
               m == [mem[w] EXCEPT !.prev = op.prev, !.amount = op.amount,
                                   !.undone = Undoing(op.type)]
    <2>1. s \in Seq(Snapshots) /\ Len(s) <= MaxUndo
      BY <1>1 DEF Typed, DataTyped
    <2>2. CASE s = <<>>
      BY <1>1, <1>12, <2>2, ReturnTyped DEF Pop, queues, audit, Typed, DataTyped
    <2>3. CASE s # <<>>
      <3>1. op \in Snapshots
        BY <2>1, <2>3
      <3>2. m \in Memories /\ m.hash = mem[w].hash /\ m.undone # "none"
        BY <1>1, <3>1 DEF Memories, Snapshots, Undoing, EntryTypes
      <3>3. SubSeq(s, 1, Len(s) - 1) \in Seq(Snapshots) /\ Len(SubSeq(s, 1, Len(s) - 1)) <= MaxUndo
        BY <2>1, <2>3, AccountsAssumption
      <3>4. /\ undo' = [undo EXCEPT ![Of(w)] = SubSeq(s, 1, Len(s) - 1)]
            /\ mem' = [mem EXCEPT ![w] = m]
            /\ Goto(w, "restore") /\ UNCHANGED <<job, call>>
        BY <1>12, <2>3 DEF Pop
      <3>5. DataTyped'
        BY <1>1, <1>12, <3>3, <3>4 DEF Pop, queues, audit, Typed, DataTyped
      <3>6. UNCHANGED hashes /\ pc[w] = "pop"
        BY <1>12 DEF Pop, audit
      <3>7. OwnTyped(w)
        BY <1>1, <3>2, <3>4, <3>6 DEF Typed, ThreadsTyped, OwnTyped, KnownOf, Goto,
           Labels, Changing, Postings, Making
      <3> QED BY <3>5, <3>7
    <2> QED BY <2>2, <2>3
  <1>13. CASE Restore(w)
    BY <1>1, <1>13 DEF Restore, Restores, queues, audit, Typed, DataTyped, ThreadsTyped,
       OwnTyped, KnownOf, Goto, Labels, Changing, Postings, Making, Memories
  <1>14. CASE Build(w)
    <2>1. job[w].op = "create_account"
      BY <1>1, <1>14 DEF Build, KnownOf, Making
    <2> QED BY <1>1, <1>14, <2>1 DEF Build, queues, audit, Typed, DataTyped, ThreadsTyped,
       OwnTyped, KnownOf, Goto, Labels, Changing, Postings, Making
  <1>15. CASE Hash(w)
    <2> DEFINE m == [mem[w] EXCEPT !.payload = last_hash, !.hash = hashes']
    <2>1. hashes' = hashes + 1 /\ hashes' \in Nat /\ last_hash \in 0 .. hashes
      BY <1>1, <1>15 DEF Hash, Typed, DataTyped
    <2>2. m \in Memories /\ m.hash = hashes'
      BY <1>1, <2>1 DEF Memories
    <2>3. mem' = [mem EXCEPT ![w] = m] /\ Goto(w, "prev_hash") /\ UNCHANGED <<job, call>>
      BY <1>15 DEF Hash
    <2>4. DataTyped'
      BY <1>15, <2>1 DEF Hash, account, queues, Typed, DataTyped
    <2>5. OwnTyped(w)
      BY <1>1, <1>15, <2>1, <2>2, <2>3 DEF Hash, Typed, ThreadsTyped, OwnTyped, KnownOf, Goto,
         Labels, Auditing, Postings, Making
    <2> QED BY <2>4, <2>5
  <1>16. CASE PrevHash(w)
    <2> DEFINE m == [mem[w] EXCEPT !.prev_hash = last_hash]
    <2>1. m \in Memories /\ m.hash = mem[w].hash
      BY <1>1 DEF Memories
    <2>2. Remember(w, "last_hash", m) /\ pc[w] = "prev_hash"
      BY <1>16 DEF PrevHash
    <2>3. KnownOf(w)'
      BY <1>1, <2>2 DEF Remember, Goto, KnownOf, Typed, ThreadsTyped, Postings, Making
    <2> QED BY <1>1, <2>1, <2>2, <2>3, RememberTyped DEF Labels, Auditing
  <1>17. CASE LastHash(w)
    <2>1. mem[w].hash \in 0 .. hashes
      BY <1>1 DEF Memories
    <2> QED BY <1>1, <1>17, <2>1 DEF LastHash, account, queues, Typed, DataTyped, ThreadsTyped,
       OwnTyped, KnownOf, Goto, Labels, Auditing, Postings, Making
  <1>18. CASE AppendLog(w)
    BY <1>1, <1>18, ResumeTyped DEF AppendLog, account, queues, Typed, DataTyped
  <1>19. CASE Dequeue(w)
    <2>1. CASE Return(w)
      BY <1>1, <1>19, <2>1, ReturnTyped DEF Dequeue, account, queues, audit, Typed, DataTyped
    <2>2. CASE Goto(w, "take") /\ UNCHANGED <<job, call, mem>>
      BY <1>1, <1>19, <2>2 DEF Dequeue, account, queues, audit, Typed, DataTyped, ThreadsTyped,
         OwnTyped, KnownOf, Goto, Labels, Postings, Making
    <2> QED BY <1>19, <2>1, <2>2 DEF Dequeue
  <1>20. CASE Take(w)
    <2>1. CASE transaction_queue = <<>>
      BY <1>1, <1>20, <2>1, ReturnTyped DEF Take, account, audit, Typed, DataTyped
    <2>2. CASE transaction_queue # <<>>
      <3> DEFINE txn == Head(transaction_queue)
      <3>1. txn \in Jobs /\ Tail(transaction_queue) \in Seq(Jobs)
        BY <2>2 DEF Typed, DataTyped
      <3>2. DataTyped'
        BY <1>20, <2>2, <3>1 DEF Take, account, audit, Typed, DataTyped
      <3>3. \A k \in {"deposit", "withdrawal"} :
              /\ Posting(k, txn.account, txn.amount) \in CallTypes
              /\ Posting(k, txn.account, txn.amount).kind = k
        BY <3>1, JobFacts DEF Posting, CallTypes, Kinds
      <3>a. /\ job[w] \in Jobs /\ job[w].op = "process_queued_transactions"
            /\ hashes' \in Nat
        BY <1>1, <1>20 DEF Take, KnownOf, audit
      <3>4. CASE txn.kind \in {"deposit", "withdrawal"}
        <4>1. Continue(w, "check", Posting(txn.kind, txn.account, txn.amount))
          BY <1>20, <2>2, <3>4 DEF Take
        <4> QED BY <3>2, <3>3, <3>4, <3>a, <4>1, ContinueTyped
      <3>5. CASE txn.kind \notin {"deposit", "withdrawal"}
        <4>1. Continue(w, "dequeue", NoCall)
          BY <1>20, <2>2, <3>5 DEF Take
        <4> QED BY <3>2, <3>a, <4>1, IdleFacts, ContinueTyped
      <3> QED BY <3>4, <3>5
    <2> QED BY <2>1, <2>2
  <1> QED BY <1>2, <1>3, <1>4, <1>5, <1>6, <1>7, <1>8, <1>9, <1>10, <1>11, <1>12, <1>13, <1>14,
             <1>15, <1>16, <1>17, <1>18, <1>19, <1>20 DEF Step

\* A step of a thread or a call that it makes.
Moves(w) == Step(w) \/ \E j \in Jobs : Call(w, j)

\* Every step keeps every thread's records typed and known.
LEMMA MoveTyped == ASSUME Typed, NEW w \in Threads, Moves(w) PROVE Typed'
  <1>1. OwnTyped(w) /\ DataTyped'
    BY StepTyped, CallTyped DEF Moves
  <1>2. hashes <= hashes' /\ hashes \in Nat /\ hashes' \in Nat
    <2>1. hashes \in Nat /\ hashes' \in Nat
      BY <1>1 DEF Typed, DataTyped
    <2>2. hashes' = hashes \/ Hash(w)
      BY DEF Moves, Step, Call, CallPosting, CallTransfer, CallFreeze, CallUndo, CallEnqueue,
         CallProcessQueue, CallApplyLoan, CallProcessLoan, CallCreate, Check, Lock, ReadPrev,
         ReadBalance, WriteBalance, Link, Prepend, Push, Pushes, Unlock, Raise, Pop, Restore,
         Restores, Build, PrevHash, LastHash, AppendLog, Dequeue, Take, Remember, audit
    <2> QED BY <2>1, <2>2 DEF Hash
  <1>3. ASSUME NEW v \in Threads, v # w PROVE mem'[v].hash <= hashes' /\ KnownOf(v)'
    <2>1. pc'[v] = pc[v] /\ job'[v] = job[v] /\ call'[v] = call[v] /\ mem'[v] = mem[v]
      BY <1>3, OthersStay DEF Moves, Typed
    <2>2. KnownOf(v)'
      BY <2>1 DEF Typed, Known, KnownOf
    <2>3. mem[v].hash \in Nat /\ mem[v].hash <= hashes
      BY DEF Typed, ThreadsTyped, Memories
    <2> QED BY <1>2, <2>1, <2>2, <2>3
  <1> QED BY <1>1, <1>3 DEF Typed, ThreadsTyped, Known, OwnTyped

\* Where a step without a lock or an account to build leads.
LEMMA OnlyBuildersBuild ==
  ASSUME Typed, NEW w \in Threads, Moves(w)
  PROVE  \/ Build(w)
         \/ \E j \in Jobs : CallCreate(w, j)
         \/ built' = built /\ (pc'[w] = pc[w] \/ pc'[w] \notin Making)
  <1> USE DEF Typed, ThreadsTyped, Making, Goto
  <1>1. ASSUME NEW ok, Resume(w, ok) PROVE pc'[w] \notin Making
    BY <1>1 DEF Resume, Continue, Return
  <1>2. ASSUME NEW j \in Jobs, Call(w, j), ~CallCreate(w, j)
        PROVE  built' = built /\ (pc'[w] = pc[w] \/ pc'[w] \notin Making)
    BY <1>2 DEF Call, CallPosting, CallTransfer, CallFreeze, CallUndo, CallEnqueue,
       CallProcessQueue, CallApplyLoan, CallProcessLoan, Begins, account
  <1>3. CASE Check(w) \/ AppendLog(w)
    BY <1>1, <1>3 DEF Check, AppendLog, account
  <1>4. CASE \/ Lock(w) \/ ReadPrev(w) \/ ReadBalance(w) \/ WriteBalance(w)
             \/ Link(w) \/ Prepend(w) \/ Push(w) \/ Unlock(w) \/ Raise(w)
    BY <1>4 DEF Lock, ReadPrev, ReadBalance, WriteBalance, Link, Prepend, Push, Pushes, Unlock,
       Raise, Remember, Return, account
  <1>5. CASE \/ Pop(w) \/ Restore(w) \/ Hash(w) \/ PrevHash(w) \/ LastHash(w)
             \/ Dequeue(w) \/ Take(w)
    BY <1>5 DEF Pop, Restore, Restores, Hash, PrevHash, LastHash, Dequeue, Take, Remember,
       Return, Continue, account
  <1> QED BY <1>2, <1>3, <1>4, <1>5 DEF Moves, Step

\* An account is published by one thread, which alone completes it.
LEMMA MoveBuilds == ASSUME Typed, Building, NEW w \in Threads, Moves(w) PROVE Building'
  <1>1. \A v \in Threads : v # w => pc'[v] = pc[v] /\ call'[v] = call[v]
    BY OthersStay DEF Moves, Typed
  <1>2. CASE Build(w)
    <2>1. /\ built' = [built EXCEPT ![Of(w)] = @ + 1] /\ call' = call /\ pc[w] \in Making
          /\ pc'[w] = CASE pc[w] = "lock_made" -> "history_made"
                        [] pc[w] = "history_made" -> "stack_made"
                        [] pc[w] = "stack_made" -> IF job[w].amount > 0 THEN "link" ELSE "hash"
          /\ Of(w) \in Accounts
      BY <1>2 DEF Build, Goto, Making, Typed, ThreadsTyped, Of, CallTypes
    <2>2. built[Of(w)] \in 1 .. 3 /\ built' \in [Accounts -> 0 .. 4]
      BY <2>1 DEF Building, Making
    <2>3. /\ pc[w] = "lock_made" => pc'[w] = "history_made" /\ built'[Of(w)] = 2
          /\ pc[w] = "history_made" => pc'[w] = "stack_made" /\ built'[Of(w)] = 3
          /\ pc[w] = "stack_made" => pc'[w] \notin Making
      BY <2>1, <2>2 DEF Building, Making
    <2>4. \A v \in Threads : v # w /\ pc[v] \in Making => built'[Of(v)] = built[Of(v)]
      BY <2>1, <2>2 DEF Building
    <2>5. \A v \in Threads : Of(v)' = Of(v)
      BY <2>1 DEF Of
    <2> QED BY <1>1, <2>1, <2>2, <2>3, <2>4, <2>5 DEF Building, Making
  <1>3. ASSUME NEW j \in Jobs, CallCreate(w, j) PROVE Building'
    <2>1. /\ built' = [built EXCEPT ![j.account] = 1] /\ built[j.account] = 0
          /\ pc'[w] = "lock_made" /\ Of(w)' = j.account /\ j.account \in Accounts
      BY <1>3, JobFacts DEF CallCreate, Begins, Goto, Typed, ThreadsTyped, Of, Outer, Posting
    <2>2. \A v \in Threads : v # w => Of(v)' = Of(v) /\ pc'[v] = pc[v]
      BY <1>1 DEF Of
    <2>3. \A v \in Threads : v # w /\ pc[v] \in Making => Of(v) # j.account
      BY <2>1 DEF Building, Making
    <2> QED BY <2>1, <2>2, <2>3 DEF Building, Making
  <1>4. CASE built' = built /\ (pc'[w] = pc[w] \/ pc'[w] \notin Making)
    <2>1. pc'[w] = pc[w] /\ pc[w] \in Making => call'[w] = call[w]
      BY DEF Moves, Step, Call, CallPosting, CallTransfer, CallFreeze, CallUndo, CallEnqueue,
         CallProcessQueue, CallApplyLoan, CallProcessLoan, CallCreate, Begins, Check, Lock,
         ReadPrev, ReadBalance, WriteBalance, Link, Prepend, Push, Pushes, Unlock, Raise, Pop,
         Restore, Restores, Build, Hash, PrevHash, LastHash, AppendLog, Dequeue, Take, Remember,
         Making
    <2> QED BY <1>1, <1>4, <2>1 DEF Building, Making, Of
  <1> QED BY <1>2, <1>3, <1>4, OnlyBuildersBuild

\* A lock is given back before its thread leaves the account.
LEMMA MoveHolds == ASSUME Typed, Holding, NEW w \in Threads, Moves(w) PROVE Holding'
  <1> USE ThreadsAssumption
  <1>1. \A v \in Threads : v # w => pc'[v] = pc[v] /\ call'[v] = call[v]
    BY OthersStay DEF Moves, Typed
  <1>2. CASE lock' = lock /\ (\A a \in Accounts : lock[a] # w)
    BY <1>1, <1>2 DEF Holding, Of
  <1>3. CASE lock' = lock /\ call'[w] = call[w] /\ pc'[w] \in Holds
    BY <1>1, <1>3 DEF Holding, Of
  <1>4. CASE Lock(w)
    <2>1. /\ lock' = lock \/ lock' = [lock EXCEPT ![Of(w)] = w]
          /\ call' = call /\ pc'[w] = "prev" /\ call[w].kind # "none"
      BY <1>4 DEF Lock, Goto, Typed, ThreadsTyped, Known, KnownOf, Postings
    <2>2. ASSUME NEW a \in Accounts, NEW v \in Threads, lock'[a] = v, v # w
          PROVE  pc'[v] \in Holds /\ call'[v].account = a /\ call'[v].kind # "none"
      <3>1. lock[a] = v
        BY <2>1, <2>2 DEF Typed, DataTyped
      <3> QED BY <1>1, <2>2, <3>1 DEF Holding, Of
    <2>3. ASSUME NEW a \in Accounts, lock'[a] = w
          PROVE  pc'[w] \in Holds /\ call'[w].account = a /\ call'[w].kind # "none"
      <3>1. lock[a] = w \/ a = call[w].account
        BY <2>1, <2>3 DEF Typed, DataTyped, Of
      <3> QED BY <2>1, <3>1 DEF Holding, Of, Holds
    <2> QED BY <2>2, <2>3 DEF Holding, Of
  <1>5. CASE lock' = [a \in Accounts |-> IF lock[a] = w THEN Free ELSE lock[a]]
    BY <1>1, <1>5 DEF Holding, Of
  <1>6. CASE Unlock(w) \/ Raise(w)
    BY <1>5, <1>6 DEF Unlock, Raise
  <1>7. CASE ReadPrev(w) \/ ReadBalance(w) \/ WriteBalance(w) \/ Link(w)
    <2>1. lock' = lock /\ call' = call /\ pc'[w] \in {"read", "write", "link", "prepend"}
      BY <1>7 DEF ReadPrev, ReadBalance, WriteBalance, Link, Remember, Goto, Typed, ThreadsTyped
    <2> QED BY <1>3, <2>1 DEF Holds
  <1>8. CASE Prepend(w) \/ Push(w)
    <2>1. /\ lock' = lock /\ call' = call
          /\ call[w].kind # "none" => pc'[w] \in {"push", "unlock"}
      BY <1>8 DEF Prepend, Push, Pushes, Goto, Typed, ThreadsTyped
    <2>2. CASE call[w].kind # "none"
      BY <1>3, <2>1, <2>2 DEF Holds
    <2>3. CASE call[w].kind = "none"
      BY <1>2, <2>1, <2>3 DEF Holding
    <2> QED BY <2>2, <2>3
  <1>9. CASE \/ Check(w) \/ Pop(w) \/ Restore(w) \/ Build(w) \/ Hash(w) \/ PrevHash(w)
             \/ LastHash(w) \/ AppendLog(w) \/ Dequeue(w) \/ Take(w)
    <2>1. lock' = lock /\ pc[w] \notin Holds
      BY <1>9 DEF Check, Pop, Restore, Restores, Build, Hash, PrevHash, LastHash, AppendLog,
         Dequeue, Take, Remember, Holds
    <2> QED BY <1>2, <2>1 DEF Holding
  <1>10. ASSUME NEW j \in Jobs, Call(w, j) PROVE Holding'
    <2>1. lock' = lock /\ pc[w] = "idle"
      BY <1>10 DEF Call, CallPosting, CallTransfer, CallFreeze, CallUndo, CallEnqueue,
         CallProcessQueue, CallApplyLoan, CallProcessLoan, CallCreate, Begins
    <2> QED BY <1>2, <2>1 DEF Holding, Holds
  <1> QED BY <1>4, <1>6, <1>7, <1>8, <1>9, <1>10 DEF Moves, Step

\* The bank as _seed_demo_data leaves it.
LEMMA InvInit == Init => Inv
  <1> SUFFICES ASSUME Init PROVE Inv
    OBVIOUS
  <1> USE AccountsAssumption, JobsAssumption, ThreadsAssumption DEF Init
  <1>1. \A a \in Seeded : SeedHistory(a) \in Seq(Entries)
    <2> TAKE a \in Seeded
    <2>1. /\ Entry("deposit", Credited[a], Opening[a] + Credited[a]) \in Entries
          /\ Entry("deposit", Opening[a], Opening[a]) \in Entries
      BY DEF Entry, Entries, EntryTypes
    <2> DEFINE x == IF Credited[a] > 0
                    THEN <<Entry("deposit", Credited[a], Opening[a] + Credited[a])>> ELSE <<>>
               y == IF Opening[a] > 0 THEN <<Entry("deposit", Opening[a], Opening[a])>> ELSE <<>>
    <2>2. x \in Seq(Entries) /\ y \in Seq(Entries)
      BY <2>1
    <2>3. x \o y \in Seq(Entries)
      BY <2>2
    <2> QED BY <2>3 DEF SeedHistory
  <1>2. \A a \in Seeded : SeedUndo(a) \in Seq(Snapshots) /\ Len(SeedUndo(a)) <= 1
    <2> TAKE a \in Seeded
    <2>1. [type |-> "deposit", amount |-> Credited[a], prev |-> Opening[a]] \in Snapshots
      BY DEF Snapshots
    <2> QED BY <2>1 DEF SeedUndo
  <1>3. <<>> \in Seq(Entries) /\ <<>> \in Seq(Snapshots) /\ Len(<<>>) = 0
    OBVIOUS
  <1>4. \A a \in Accounts : undo[a] \in Seq(Snapshots) /\ Len(undo[a]) <= MaxUndo
    BY <1>2, <1>3
  <1>5. undo \in [Accounts -> Seq(Snapshots)] /\ history \in [Accounts -> Seq(Entries)]
    BY <1>1, <1>3, <1>4
  <1>6. loan_queue \subseteq [loan : Jobs, count : Nat]
    OBVIOUS
  <1>7. DataTyped
    BY <1>4, <1>5, <1>6 DEF DataTyped, Genesis
  <1>8. ThreadsTyped /\ Known
    BY IdleFacts DEF ThreadsTyped, Known, KnownOf, Labels, Postings, Making
  <1>9. Building /\ Holding
    BY DEF Building, Holding, Making
  <1> QED BY <1>7, <1>8, <1>9 DEF Inv, Typed

\* Every step keeps the types, the construction of accounts and the locks in order.
LEMMA InvNext == Inv /\ [Next]_vars => Inv'
  <1> SUFFICES ASSUME Inv, [Next]_vars PROVE Inv'
    OBVIOUS
  <1>1. ASSUME NEW w \in Threads, Moves(w) PROVE Inv'
    BY <1>1, MoveTyped, MoveBuilds, MoveHolds DEF Inv
  <1>2. CASE UNCHANGED vars
    BY <1>2 DEF vars, account, queues, audit, Inv, Typed, DataTyped, ThreadsTyped, Known, KnownOf,
       Building, Holding, Of
  <1> QED BY <1>1, <1>2 DEF Next, Moves

\* Every variable keeps its type, and whoever holds the lock of an account is a
\* thread that is posting to it (balance_locks of services/banking_service.py).
THEOREM BankTypeCorrect == Spec => []TypeOK
  <1>1. Inv => TypeOK
    <2> SUFFICES ASSUME Inv PROVE TypeOK
      OBVIOUS
    <2>1. \A n \in DOMAIN transaction_queue : transaction_queue[n] \in Jobs
      BY DEF Inv, Typed, DataTyped
    <2>2. \A a \in Accounts, w \in Threads :
            lock[a] = w => /\ pc[w] \in {"prev", "read", "write", "link", "prepend", "push",
                                         "unlock"}
                           /\ Of(w) = a
      BY DEF Inv, Holding, Holds
    <2> QED BY <2>1, <2>2 DEF Inv, Typed, DataTyped, ThreadsTyped, Building, TypeOK
  <1> QED BY InvInit, InvNext, <1>1, PTL DEF Spec

-----------------------------------------------------------------------------
(* Checks and funds *)

\* Between the check and the posting.
AtIt == {"lock", "prev", "read", "write"}

\* What thread w has checked still holds, unless w is stale.
CurrentOf(w) ==
  /\ pc[w] \in AtIt => call[w].amount > 0 /\ built[Of(w)] >= 1
  /\ pc[w] \in AtIt /\ w \notin stale =>
       /\ active[Of(w)]
       /\ call[w].kind = "withdrawal" => balance[Of(w)] >= call[w].amount
  /\ pc[w] = "write" /\ w \notin stale => mem[w].base = balance[Of(w)]

Current == \A w \in Threads : CurrentOf(w)

\* Neither an account, nor a balance that an undo may restore, is below zero or the
\* debt the account was opened with, unless the account was overtaken.
Solvent(n, a, low, overtaken) == n >= low[a] \/ a \in overtaken
Funds ==
  /\ \A a \in Accounts : Solvent(balance[a], a, floor, tainted)
  /\ \A w \in Threads : Solvent(mem[w].prev, Of(w), floor, tainted)
  /\ \A a \in Accounts : \A n \in 1 .. Len(undo[a]) : Solvent(undo[a][n].prev, a, floor, tainted)

Paid == Inv /\ Current /\ Funds

\* The steps that touch the balance, the status or the bookkeeping about them.
LEMMA QuietMoves ==
  ASSUME NEW w \in Threads, Moves(w)
  PROVE  \/ WriteBalance(w) \/ Restore(w)
         \/ \E j \in Jobs : CallCreate(w, j) \/ CallFreeze(w, j)
         \/ UNCHANGED <<balance, active, floor, stale, tainted>>
  BY DEF Moves, Step, Call, CallPosting, CallTransfer, CallUndo, CallEnqueue,
     CallProcessQueue, CallApplyLoan, CallProcessLoan, Check, Lock, ReadPrev,
     ReadBalance, Link, Prepend, Push, Pushes, Unlock, Raise, Pop,
     Build, Hash, PrevHash, LastHash, AppendLog, Dequeue, Take, Remember, account, ghosts

\* Only a check leads to where an account is about to be posted to.
LEMMA OnlyChecksLeadThere ==
  ASSUME Typed, NEW w \in Threads, Moves(w)
  PROVE  Check(w) \/ Lock(w) \/ ReadPrev(w) \/ ReadBalance(w) \/ pc'[w] \notin AtIt
  <1> USE DEF Typed, ThreadsTyped, AtIt, Goto
  <1>1. ASSUME NEW ok, Resume(w, ok) PROVE pc'[w] \notin AtIt
    BY <1>1 DEF Resume, Continue, Return
  <1>2. ASSUME NEW j \in Jobs, Call(w, j) PROVE pc'[w] \notin AtIt
    BY <1>2 DEF Call, CallPosting, CallTransfer, CallFreeze, CallUndo, CallEnqueue,
       CallProcessQueue, CallApplyLoan, CallProcessLoan, CallCreate, Begins
  <1>3. CASE AppendLog(w)
    BY <1>1, <1>3 DEF AppendLog
  <1>4. CASE \/ WriteBalance(w) \/ Link(w) \/ Prepend(w) \/ Push(w) \/ Unlock(w) \/ Raise(w)
    BY <1>4 DEF WriteBalance, Link, Prepend, Push, Pushes, Unlock, Raise, Remember, Return
  <1>5. CASE \/ Pop(w) \/ Restore(w) \/ Build(w) \/ Hash(w) \/ PrevHash(w) \/ LastHash(w)
             \/ Dequeue(w) \/ Take(w)
    BY <1>5 DEF Pop, Restore, Restores, Build, Hash, PrevHash, LastHash, Dequeue, Take, Remember,
       Return, Continue
  <1> QED BY <1>2, <1>3, <1>4, <1>5 DEF Moves, Step

\* Whoever changes an account makes those stale that have checked it.
LEMMA ChangesOvertake ==
  ASSUME Typed, Building, Current, NEW w \in Threads, Moves(w), NEW v \in Threads, v # w
  PROVE  /\ v \in stale => v \in stale'
         /\ pc[v] \in AtIt => \/ v \in stale'
                              \/ /\ balance'[Of(v)] = balance[Of(v)]
                                 /\ active'[Of(v)] = active[Of(v)]
  <1> USE DEF Typed, DataTyped, AtIt, Checked
  <1>1. CASE WriteBalance(w)
    BY <1>1 DEF WriteBalance
  <1>2. CASE Restore(w)
    BY <1>2 DEF Restore, Restores
  <1>3. ASSUME NEW j \in Jobs, CallFreeze(w, j)
        PROVE  /\ v \in stale => v \in stale'
               /\ pc[v] \in AtIt => \/ v \in stale'
                                    \/ /\ balance'[Of(v)] = balance[Of(v)]
                                       /\ active'[Of(v)] = active[Of(v)]
    <2>1. /\ active' = [active EXCEPT ![j.account] = FALSE] /\ balance' = balance
          /\ stale' = stale \cup Checked(w, j.account)
      BY <1>3 DEF CallFreeze
    <2>2. CASE Of(v) = j.account
      BY <2>1, <2>2
    <2>3. CASE Of(v) # j.account
      <3>1. Of(v) \in Accounts /\ active \in [Accounts -> BOOLEAN]
        BY DEF ThreadsTyped, CallTypes, Of
      <3>2. [active EXCEPT ![j.account] = FALSE][Of(v)] = active[Of(v)]
        BY <2>3, <3>1, Zenon
      <3> QED BY <2>1, <3>2
    <2> QED BY <2>2, <2>3
  <1>4. ASSUME NEW j \in Jobs, CallCreate(w, j)
        PROVE  /\ v \in stale => v \in stale'
               /\ pc[v] \in AtIt => /\ balance'[Of(v)] = balance[Of(v)]
                                    /\ active'[Of(v)] = active[Of(v)]
    BY <1>4 DEF CallCreate, Current, CurrentOf
  <1> QED BY <1>1, <1>2, <1>3, <1>4, QuietMoves

\* An account that is there stays.
LEMMA AccountsStay ==
  ASSUME Typed, Building, NEW w \in Threads, Moves(w), NEW a \in Accounts
  PROVE  built'[a] >= built[a]
  <1>1. CASE Build(w)
    BY <1>1 DEF Build, Building, Typed, ThreadsTyped, CallTypes, Of
  <1>2. ASSUME NEW j \in Jobs, CallCreate(w, j) PROVE built'[a] >= built[a]
    BY <1>2 DEF CallCreate, Building
  <1>3. CASE built' = built
    BY <1>3 DEF Building
  <1> QED BY <1>1, <1>2, <1>3, OnlyBuildersBuild

\* A step of a thread keeps what it has read of an account current.
LEMMA MoveCurrent ==
  ASSUME Typed, Building, Current, NEW w \in Threads, Moves(w)
  PROVE  Current'
  <1>1. /\ Of(w) \in Accounts /\ call[w] \in CallTypes
        /\ \A v \in Threads : Of(v) \in Accounts /\ built[Of(v)] \in Nat /\ built'[Of(v)] \in Nat
    BY MoveBuilds DEF Typed, ThreadsTyped, CallTypes, Of, Building
  <1>2. ASSUME NEW v \in Threads, v # w PROVE CurrentOf(v)'
    <2>1. pc'[v] = pc[v] /\ call'[v] = call[v] /\ mem'[v] = mem[v] /\ Of(v)' = Of(v)
      BY <1>2, OthersStay DEF Moves, Typed, Of
    <2>2. built'[Of(v)] >= built[Of(v)]
      BY <1>1, AccountsStay
    <2>3. CASE pc[v] \notin AtIt
      BY <2>1, <2>3 DEF CurrentOf, AtIt
    <2>4. CASE pc[v] \in AtIt /\ v \in stale'
      BY <1>1, <2>1, <2>2, <2>4 DEF Current, CurrentOf
    <2>5. CASE pc[v] \in AtIt /\ v \notin stale'
      <3>1. /\ v \notin stale /\ balance'[Of(v)] = balance[Of(v)]
            /\ active'[Of(v)] = active[Of(v)]
        BY <1>2, <2>5, ChangesOvertake
      <3> QED BY <1>1, <2>1, <2>2, <2>5, <3>1 DEF Current, CurrentOf
    <2> QED BY <2>3, <2>4, <2>5
  <1>3. CurrentOf(w)'
    <2>1. CASE Check(w) /\ ~Refused(call[w])
      <3>1. /\ pc'[w] = "lock" /\ call' = call /\ UNCHANGED <<built, balance, active, stale>>
        BY <2>1 DEF Check, Goto, Typed, ThreadsTyped, account
      <3>2. call[w].amount > 0 /\ built[Of(w)] >= 1 /\ active[Of(w)]
        BY <1>1, <2>1 DEF Refused, Of, CallTypes
      <3>3. call[w].kind = "withdrawal" => balance[Of(w)] >= call[w].amount
        BY <1>1, <2>1 DEF Refused, Of, CallTypes, Typed, DataTyped
      <3> QED BY <3>1, <3>2, <3>3 DEF CurrentOf, Of
    <2>2. CASE Check(w) /\ Refused(call[w])
      <3>1. Resume(w, FALSE)
        BY <2>2 DEF Check
      <3>2. pc'[w] \notin AtIt
        BY <3>1 DEF Resume, Continue, Return, Goto, Typed, ThreadsTyped, AtIt
      <3> QED BY <3>2 DEF CurrentOf, AtIt
    <2>3. CASE Lock(w) \/ ReadPrev(w)
      <3>1. /\ pc[w] \in AtIt /\ pc'[w] \in {"prev", "read"} /\ call' = call
            /\ UNCHANGED <<built, balance, active, stale>>
        BY <2>3 DEF Lock, ReadPrev, Remember, Goto, Typed, ThreadsTyped, account, ghosts, AtIt
      <3> QED BY <3>1 DEF Current, CurrentOf, Of, AtIt
    <2>4. CASE ReadBalance(w)
      <3>1. /\ pc[w] \in AtIt /\ pc'[w] = "write" /\ call' = call
            /\ UNCHANGED <<built, balance, active, stale>>
            /\ mem'[w].base = balance[Of(w)]
        BY <2>4 DEF ReadBalance, Remember, Goto, Typed, ThreadsTyped, account, ghosts, AtIt,
           Memories
      <3> QED BY <3>1 DEF Current, CurrentOf, Of, AtIt
    <2>5. CASE pc'[w] \notin AtIt
      BY <2>5 DEF CurrentOf, AtIt
    <2> QED BY <2>1, <2>2, <2>3, <2>4, <2>5, OnlyChecksLeadThere
  <1> QED BY <1>2, <1>3 DEF Current

\* What a step leaves in the memory of its thread.
LEMMA MemoriesOfPrev ==
  ASSUME Typed, NEW w \in Threads, Moves(w)
  PROVE  \/ mem'[w] = Blank
         \/ call'[w] = call[w] /\ mem'[w].prev = mem[w].prev
         \/ ReadPrev(w)
         \/ Pop(w) /\ undo[Of(w)] # <<>>
  <1> USE DEF Typed, ThreadsTyped
  <1>1. ASSUME NEW ok, Resume(w, ok) PROVE mem'[w] = Blank
    BY <1>1 DEF Resume, Continue, Return
  <1>2. ASSUME NEW j \in Jobs, Call(w, j)
        PROVE  mem'[w] = Blank \/ (call'[w] = call[w] /\ mem'[w] = mem[w])
    <2>1. CallEnqueue(w, j) \/ mem' = [mem EXCEPT ![w] = Blank]
      BY <1>2 DEF Call, CallPosting, CallTransfer, CallFreeze, CallUndo, CallProcessQueue,
         CallApplyLoan, CallProcessLoan, CallCreate, Begins
    <2> QED BY <2>1 DEF CallEnqueue
  <1>3. CASE Check(w) \/ AppendLog(w)
    BY <1>1, <1>3 DEF Check, AppendLog
  <1>4. CASE \/ Lock(w) \/ WriteBalance(w) \/ Prepend(w) \/ Push(w) \/ Unlock(w) \/ Raise(w)
             \/ Pop(w) /\ undo[Of(w)] = <<>>
    BY <1>4 DEF Lock, WriteBalance, Prepend, Push, Pushes, Unlock, Raise, Pop, Remember, Return
  <1>5. CASE \/ Restore(w) \/ Build(w) \/ LastHash(w) \/ Dequeue(w) \/ Take(w)
    BY <1>5 DEF Restore, Restores, Build, LastHash, Dequeue, Take, Return, Continue
  <1>6. CASE ReadBalance(w) \/ Link(w) \/ Hash(w) \/ PrevHash(w)
    <2> USE DEF Memories
    <2>1. CASE ReadBalance(w)
      BY <2>1 DEF ReadBalance, Remember
    <2>2. CASE Link(w)
      BY <2>2 DEF Link, Remember
    <2>3. CASE Hash(w)
      BY <2>3 DEF Hash
    <2>4. CASE PrevHash(w)
      BY <2>4 DEF PrevHash, Remember
    <2> QED BY <1>6, <2>1, <2>2, <2>3, <2>4
  <1> QED BY <1>2, <1>3, <1>4, <1>5, <1>6 DEF Moves, Step

\* The floor of an account only falls, and only as the account is created.
LEMMA FloorsFall ==
  ASSUME DataTyped, NEW w \in Threads, Moves(w)
  PROVE  \A a \in Accounts : floor[a] \in Int /\ floor'[a] \in Int /\ floor'[a] <= floor[a]
  <1>1. floor \in [Accounts -> {n \in Int : n <= 0}]
    BY DEF DataTyped
  <1>2. CASE UNCHANGED floor
    BY <1>1, <1>2
  <1>3. ASSUME NEW j \in Jobs, CallCreate(w, j)
        PROVE  \A a \in Accounts : floor'[a] \in Int /\ floor'[a] <= floor[a]
    <2>1. floor' = [floor EXCEPT ![j.account] = IF j.amount < floor[j.account]
                                                THEN j.amount ELSE floor[j.account]]
      BY <1>3 DEF CallCreate
    <2> QED BY <1>1, <2>1, JobFacts
  <1>4. UNCHANGED floor \/ \E j \in Jobs : CallCreate(w, j)
    BY QuietMoves DEF WriteBalance, Restore, Restores, CallFreeze
  <1> QED BY <1>1, <1>2, <1>3, <1>4

\* What was solvent remains so.
LEMMA StaysSolvent ==
  ASSUME DataTyped, NEW w \in Threads, Moves(w), tainted \subseteq tainted',
         NEW a \in Accounts, NEW n \in Int, Solvent(n, a, floor, tainted)
  PROVE  Solvent(n, a, floor', tainted')
  BY FloorsFall DEF Solvent

\* A posting leaves the account solvent unless it was overtaken.
LEMMA WriteFunds ==
  ASSUME Typed, Current, Funds, NEW w \in Threads, WriteBalance(w)
  PROVE  /\ balance' = [balance EXCEPT ![Of(w)] = balance'[Of(w)]]
         /\ tainted \subseteq tainted'
         /\ Solvent(balance'[Of(w)], Of(w), floor', tainted')
  <1>1. /\ call[w] \in CallTypes /\ call[w].kind \in {"deposit", "withdrawal"} /\ pc[w] = "write"
        /\ Of(w) \in Accounts /\ Of(w)' = Of(w) /\ balance[Of(w)] \in Int
        /\ call[w].amount \in Int /\ call[w].amount > 0
    BY DEF WriteBalance, Typed, DataTyped, ThreadsTyped, Known, KnownOf, Postings, CallTypes, Kinds,
       Of, Current, CurrentOf, AtIt
  <1>2. /\ balance' = [balance EXCEPT ![Of(w)] = mem[w].base + Signed(call[w].kind, call[w].amount)]
        /\ tainted' = IF w \in stale THEN tainted \cup {Of(w)} ELSE tainted
    BY DEF WriteBalance
  <1>3. balance'[Of(w)] = mem[w].base + Signed(call[w].kind, call[w].amount)
    BY <1>1, <1>2 DEF Typed, DataTyped
  <1>9. floor' = floor /\ floor[Of(w)] \in Int /\ floor[Of(w)] <= 0
    BY <1>1 DEF WriteBalance, Typed, DataTyped
  <1>4. CASE w \in stale
    BY <1>1, <1>2, <1>3, <1>4 DEF Solvent
  <1>5. CASE w \notin stale
    <2>1. /\ mem[w].base = balance[Of(w)]
          /\ call[w].kind = "withdrawal" => balance[Of(w)] >= call[w].amount
      BY <1>1, <1>5 DEF Current, CurrentOf, AtIt
    <2>2. Signed("deposit", call[w].amount) = call[w].amount
      BY DEF Signed
    <2>3. Signed("withdrawal", call[w].amount) = -call[w].amount
      BY DEF Signed
    <2>4. Solvent(balance[Of(w)], Of(w), floor, tainted)
      BY <1>1 DEF Funds
    <2>5. CASE call[w].kind = "deposit"
      <3>1. balance'[Of(w)] = balance[Of(w)] + call[w].amount
        BY <1>3, <2>1, <2>2, <2>5
      <3>2. CASE balance[Of(w)] >= floor[Of(w)]
        <4>1. balance'[Of(w)] >= floor'[Of(w)]
          BY <1>1, <1>9, <3>1, <3>2
        <4> QED BY <1>2, <1>3, <4>1 DEF Solvent
      <3>3. CASE Of(w) \in tainted
        BY <1>2, <1>3, <3>3 DEF Solvent
      <3> QED BY <2>4, <3>2, <3>3 DEF Solvent
    <2>6. CASE call[w].kind = "withdrawal"
      <3>1. balance'[Of(w)] = balance[Of(w)] - call[w].amount
        BY <1>1, <1>3, <2>1, <2>3, <2>6
      <3>2. balance'[Of(w)] >= floor'[Of(w)]
        BY <1>1, <1>9, <2>1, <2>6, <3>1
      <3> QED BY <1>2, <1>3, <3>2 DEF Solvent
    <2> QED BY <1>1, <2>5, <2>6
  <1> QED BY <1>2, <1>3, <1>4, <1>5

\* The balances after any step.
LEMMA BalanceFunds ==
  ASSUME Typed, Current, Funds, NEW w \in Threads, Moves(w)
  PROVE  tainted \subseteq tainted' /\ \A a \in Accounts : Solvent(balance'[a], a, floor', tainted')
  <1>1. tainted \subseteq tainted'
    BY WriteFunds, QuietMoves DEF Restore, Restores, CallCreate, CallFreeze
  <1>2. ASSUME NEW a \in Accounts, balance'[a] = balance[a]
        PROVE  Solvent(balance'[a], a, floor', tainted')
    BY <1>1, <1>2, StaysSolvent DEF Funds, Typed, DataTyped
  <1>3. CASE WriteBalance(w)
    BY <1>2, <1>3, WriteFunds DEF Typed, DataTyped
  <1>4. CASE Restore(w)
    <2>1. balance' = [balance EXCEPT ![Of(w)] = mem[w].prev]
      BY <1>4 DEF Restore, Restores
    <2>2. Solvent(mem[w].prev, Of(w), floor, tainted) /\ mem[w].prev \in Int /\ Of(w) \in Accounts
      BY DEF Funds, Typed, ThreadsTyped, Memories, CallTypes, Of
    <2>3. Solvent(mem[w].prev, Of(w), floor', tainted')
      BY <1>1, <2>2, StaysSolvent DEF Typed
    <2> QED BY <1>1, <1>2, <2>1, <2>2, <2>3 DEF Typed, DataTyped
  <1>5. ASSUME NEW j \in Jobs, CallCreate(w, j)
        PROVE  \A a \in Accounts : Solvent(balance'[a], a, floor', tainted')
    <2>1. /\ balance' = [balance EXCEPT ![j.account] = j.amount]
          /\ floor' = [floor EXCEPT ![j.account] = IF j.amount < floor[j.account]
                                                THEN j.amount ELSE floor[j.account]]
      BY <1>5 DEF CallCreate
    <2>2. j.account \in Accounts /\ j.amount \in Int
      BY JobFacts
    <2>3. balance'[j.account] = j.amount /\ floor'[j.account] <= j.amount
      BY <2>1, <2>2 DEF Typed, DataTyped
    <2>4. Solvent(balance'[j.account], j.account, floor', tainted')
      BY <2>2, <2>3, FloorsFall DEF Solvent, Typed
    <2> QED BY <1>2, <2>1, <2>2, <2>4 DEF Typed, DataTyped
  <1>6. CASE balance' = balance
    BY <1>1, <1>2, <1>6
  <1> QED BY <1>1, <1>3, <1>4, <1>5, <1>6, QuietMoves DEF CallFreeze

\* What an undo stack keeps stays solvent.
LEMMA UndoKept ==
  ASSUME Typed, Funds, NEW w \in Threads, Moves(w), tainted \subseteq tainted',
         NEW a \in Accounts, NEW n \in 1 .. Len(undo[a])
  PROVE  Solvent(undo[a][n].prev, a, floor', tainted')
  <1>1. undo[a][n].prev \in Int
    <2>1. undo[a] \in Seq(Snapshots)
      BY DEF Typed, DataTyped
    <2>2. undo[a][n] \in Snapshots
      BY <2>1
    <2> QED BY <2>2 DEF Snapshots
  <1>2. Solvent(undo[a][n].prev, a, floor, tainted)
    BY DEF Funds
  <1> QED BY <1>1, <1>2, StaysSolvent DEF Typed

\* The balances that undo stacks keep, after any step.
LEMMA UndoFunds ==
  ASSUME Typed, Funds, NEW w \in Threads, Moves(w), tainted \subseteq tainted'
  PROVE  \A a \in Accounts : \A n \in 1 .. Len(undo'[a]) : Solvent(undo'[a][n].prev, a, floor', tainted')
  <1>1. /\ Of(w) \in Accounts /\ \A a \in Accounts : undo[a] \in Seq(Snapshots)
        /\ \A a \in Accounts : \A n \in 1 .. Len(undo[a]) : Solvent(undo[a][n].prev, a, floor', tainted')
    BY UndoKept DEF Typed, DataTyped, ThreadsTyped, CallTypes, Of
  <1>2. CASE undo' = undo
    BY <1>1, <1>2
  <1>3. CASE Push(w)
    <2> DEFINE s == undo[Of(w)]
               kept == IF Len(s) >= MaxUndo THEN Tail(s) ELSE s
               snap == [type |-> call[w].kind, amount |-> call[w].amount, prev |-> mem[w].prev]
    <2>1. undo' = [undo EXCEPT ![Of(w)] = Append(kept, snap)]
      BY <1>3 DEF Push, Pushes
    <2>2. /\ kept \in Seq(Snapshots)
          /\ \A n \in 1 .. Len(kept) : Solvent(kept[n].prev, Of(w), floor', tainted')
      <3>1. CASE Len(s) >= MaxUndo
        <4>1. s # <<>> /\ s \in Seq(Snapshots)
          BY <1>1, <3>1, AccountsAssumption
        <4>2. /\ Tail(s) \in Seq(Snapshots) /\ Len(Tail(s)) = Len(s) - 1 /\ Len(s) \in Nat
              /\ \A n \in 1 .. Len(Tail(s)) : Tail(s)[n] = s[n + 1]
          BY <4>1
        <4>3. \A n \in 1 .. Len(Tail(s)) : n + 1 \in 1 .. Len(s)
          BY <4>2
        <4> QED BY <1>1, <3>1, <4>2, <4>3
      <3>2. CASE ~(Len(s) >= MaxUndo)
        BY <1>1, <3>2
      <3> QED BY <3>1, <3>2
    <2>3. Solvent(snap.prev, Of(w), floor', tainted')
      <3>1. snap.prev = mem[w].prev /\ mem[w].prev \in Int
        BY DEF Typed, ThreadsTyped, Memories
      <3>2. Solvent(mem[w].prev, Of(w), floor, tainted)
        BY DEF Funds
      <3>3. Solvent(mem[w].prev, Of(w), floor', tainted')
        BY <1>1, <3>1, <3>2, StaysSolvent DEF Typed
      <3> QED BY <3>1, <3>3
    <2> HIDE DEF kept, snap
    <2>4. ASSUME NEW n \in 1 .. Len(Append(kept, snap)) PROVE Solvent(Append(kept, snap)[n].prev, Of(w), floor', tainted')
      <3>1. CASE n \in 1 .. Len(kept)
        BY <2>2, <3>1
      <3>2. CASE n = Len(kept) + 1
        BY <2>2, <2>3, <3>2
      <3> QED BY <2>2, <3>1, <3>2
    <2>5. Of(w)' = Of(w)
      BY <1>3 DEF Push, Pushes, Of
    <2>6. undo \in [Accounts -> Seq(Snapshots)]
      BY DEF Typed, DataTyped
    <2> QED BY <1>1, <2>1, <2>4, <2>5, <2>6
  <1>4. CASE Pop(w)
    <2> DEFINE s == undo[Of(w)]
    <2>1. CASE s # <<>>
      <3>1. undo' = [undo EXCEPT ![Of(w)] = SubSeq(s, 1, Len(s) - 1)]
        BY <1>4, <2>1 DEF Pop
      <3>2. \A n \in 1 .. Len(SubSeq(s, 1, Len(s) - 1)) :
              n \in 1 .. Len(s) /\ SubSeq(s, 1, Len(s) - 1)[n] = s[n]
        BY <1>1, <2>1
      <3>3. undo \in [Accounts -> Seq(Snapshots)]
        BY DEF Typed, DataTyped
      <3> QED BY <1>1, <3>1, <3>2, <3>3
    <2>2. CASE s = <<>>
      BY <1>2, <1>4, <2>2 DEF Pop
    <2> QED BY <2>1, <2>2
  <1> QED BY <1>2, <1>3, <1>4
          DEF Moves, Step, Call, CallPosting, CallTransfer, CallFreeze, CallUndo, CallEnqueue,
              CallProcessQueue, CallApplyLoan, CallProcessLoan, CallCreate, Check, Lock, ReadPrev,
              ReadBalance, WriteBalance, Link, Prepend, Unlock, Raise, Restore, Restores,
              Build, Hash, PrevHash, LastHash, AppendLog, Dequeue, Take, Remember, account

\* A step overdraws only an account that is tainted.
LEMMA MoveFunds ==
  ASSUME Typed, Current, Funds, NEW w \in Threads, Moves(w)
  PROVE  Funds'
  <1>1. tainted \subseteq tainted' /\ \A a \in Accounts : Solvent(balance'[a], a, floor', tainted')
    BY BalanceFunds
  <1>2. \A a \in Accounts : \A n \in 1 .. Len(undo'[a]) : Solvent(undo'[a][n].prev, a, floor', tainted')
    BY <1>1, UndoFunds
  <1>3. ASSUME NEW v \in Threads PROVE Solvent(mem'[v].prev, Of(v)', floor', tainted')
    <2>1. CASE mem'[v].prev = mem[v].prev /\ call'[v] = call[v]
      <3>1. Solvent(mem[v].prev, Of(v), floor, tainted) /\ Of(v)' = Of(v)
        BY <2>1 DEF Funds, Of
      <3>2. mem[v].prev \in Int /\ Of(v) \in Accounts
        BY DEF Typed, ThreadsTyped, Memories, CallTypes, Of
      <3> QED BY <1>1, <2>1, <3>1, <3>2, StaysSolvent DEF Typed
    <2>2. CASE v # w
      BY <2>1, <2>2, OthersStay DEF Moves, Typed
    <2>3. CASE mem'[v] = Blank
      <3>1. Of(v)' \in Accounts
        BY MoveTyped DEF Typed, ThreadsTyped, CallTypes, Of
      <3>2. floor'[Of(v)'] \in Int /\ floor'[Of(v)'] <= 0
        BY <3>1, MoveTyped DEF Typed, DataTyped
      <3> QED BY <2>3, <3>2 DEF Solvent, Blank
    <2>4. CASE call'[v] = call[v] /\ mem'[v].prev = mem[v].prev
      BY <2>1, <2>4
    <2>5. CASE v = w /\ ReadPrev(w)
      <3>1. mem'[w].prev = balance[Of(w)] /\ Of(w)' = Of(w) /\ Of(w) \in Accounts
        BY <2>5 DEF ReadPrev, Remember, Typed, ThreadsTyped, Memories, CallTypes, Of
      <3>2. Solvent(balance[Of(w)], Of(w), floor', tainted')
        BY <1>1, <3>1, StaysSolvent DEF Funds, Typed, DataTyped
      <3> QED BY <2>5, <3>1, <3>2
    <2>6. CASE v = w /\ Pop(w) /\ undo[Of(w)] # <<>>
      <3> DEFINE s == undo[Of(w)]
      <3>1. Of(w) \in Accounts /\ s \in Seq(Snapshots)
        BY DEF Typed, DataTyped, ThreadsTyped, CallTypes, Of
      <3>2. Len(s) \in 1 .. Len(s)
        BY <2>6, <3>1
      <3>3. mem'[w].prev = s[Len(s)].prev /\ Of(w)' = Of(w)
        BY <2>6 DEF Pop, Typed, ThreadsTyped, Memories, Of
      <3>4. Solvent(s[Len(s)].prev, Of(w), floor', tainted')
        BY <1>1, <3>1, <3>2, UndoKept
      <3> QED BY <2>6, <3>3, <3>4
    <2> QED BY <2>2, <2>3, <2>4, <2>5, <2>6, MemoriesOfPrev
  <1> QED BY <1>1, <1>2, <1>3 DEF Funds

\* Nothing is under way at first, and no opening balance is below its floor.
LEMMA PaidInit == Init => Paid
  <1> SUFFICES ASSUME Init PROVE Paid
    OBVIOUS
  <1>1. Inv
    BY InvInit
  <1>2. Current
    BY DEF Init, Current, CurrentOf, AtIt
  <1>3. \A a \in Accounts : balance[a] >= 0 /\ floor[a] = 0
    BY AccountsAssumption DEF Init
  <1>4. \A w \in Threads : mem[w].prev = 0
    BY DEF Init, Blank
  <1>5. ASSUME NEW a \in Accounts, NEW n \in 1 .. Len(undo[a]) PROVE undo[a][n].prev >= 0
    <2>1. undo[a] = <<>> \/ (a \in Seeded /\ undo[a] = SeedUndo(a))
      BY DEF Init
    <2>2. CASE undo[a] = <<>>
      BY <1>5, <2>2
    <2>3. CASE a \in Seeded /\ undo[a] = SeedUndo(a) /\ undo[a] # <<>>
      <3>1. undo[a] = <<[type |-> "deposit", amount |-> Credited[a], prev |-> Opening[a]]>>
        BY <2>3 DEF SeedUndo
      <3>2. n = 1
        BY <3>1
      <3> QED BY <2>3, <3>1, <3>2, AccountsAssumption
    <2> QED BY <2>1, <2>2, <2>3
  <1>6. \A w \in Threads : Of(w) \in Accounts
    BY <1>1 DEF Inv, Typed, ThreadsTyped, CallTypes, Of
  <1>7. Funds
    BY <1>3, <1>4, <1>5, <1>6 DEF Funds, Solvent
  <1> QED BY <1>1, <1>2, <1>7 DEF Paid

\* Every step of the service keeps Paid.
LEMMA PaidNext == Paid /\ [Next]_vars => Paid'
  <1> SUFFICES ASSUME Paid, [Next]_vars PROVE Paid'
    OBVIOUS
  <1>1. Inv'
    BY InvNext DEF Paid
  <1>2. ASSUME NEW w \in Threads, Moves(w) PROVE Paid'
    BY <1>1, <1>2, MoveCurrent, MoveFunds DEF Paid, Inv
  <1>3. CASE UNCHANGED vars
    BY <1>1, <1>3 DEF vars, account, ghosts, Paid, Current, CurrentOf, Funds, Solvent, Of
  <1> QED BY <1>2, <1>3 DEF Next, Moves

\* An account goes below zero, or deeper than the debt it was opened with, only where
\* a withdrawal was overtaken between its check of the funds and its posting (withdraw
\* and create_account of services/banking_service.py).
THEOREM OverdraftNeedsARace == Spec => []OverdraftOnlyWhereOvertaken
  <1>1. Paid => OverdraftOnlyWhereOvertaken
    BY DEF Paid, Inv, Typed, DataTyped, Funds, Solvent, OverdraftOnlyWhereOvertaken
  <1> QED BY PaidInit, PaidNext, <1>1, PTL DEF Spec

\* A frozen account is only posted to by a thread that checked it before the freeze
\* (freeze_account, deposit and withdraw of services/banking_service.py).
THEOREM FreezeStopsPostings == Spec => PostingsStopAfterFreeze
  <1>1. Paid => \A w \in Threads : pc[w] = "write" /\ ~active[Of(w)] => w \in stale
    BY DEF Paid, Current, CurrentOf, AtIt
  <1>2. Paid /\ [Next]_vars =>
          [\A w \in Threads : pc[w] = "write" /\ pc'[w] = "link" /\ ~active[Of(w)] =>
                              w \in stale]_vars
    BY <1>1
  <1> QED BY PaidInit, PaidNext, <1>2, PTL DEF Spec, PostingsStopAfterFreeze

-----------------------------------------------------------------------------
(* The audit log *)

LogEntries == [payload : Nat, hash : Nat, prev_hash : Nat]

\* The hash of the newest entry.
Newest == IF audit_logs = <<>> THEN Genesis ELSE audit_logs[Len(audit_logs)].hash

\* As long as no two entries were written at once, the one writer there is has seen
\* the newest entry, and last_hash is the hash of that entry or of the one to come.
Chained ==
  /\ audit_logs \in Seq(LogEntries)
  /\ ~overlapped =>
       /\ Verified
       /\ \A v, w \in Threads : pc[v] \in Auditing /\ pc[w] \in Auditing => v = w
       /\ (\A w \in Threads : pc[w] \notin Auditing) => last_hash = Newest
       /\ \A w \in Threads : pc[w] \in Auditing => mem[w].payload = Newest
       /\ \A w \in Threads : pc[w] \in {"last_hash", "append"} => mem[w].prev_hash = Newest
       /\ \A w \in Threads : pc[w] \in {"prev_hash", "last_hash"} => last_hash = Newest
       /\ \A w \in Threads : pc[w] = "append" => last_hash = mem[w].hash

\* Only hashing starts an audit entry, and the next three steps write it.
LEMMA QuietAudit ==
  ASSUME Typed, NEW w \in Threads, Moves(w)
  PROVE  \/ Hash(w) \/ PrevHash(w) \/ LastHash(w) \/ AppendLog(w)
         \/ /\ UNCHANGED <<audit, overlapped>>
            /\ pc[w] \notin Auditing \/ pc'[w] = pc[w]
            /\ pc'[w] \notin Auditing \/ (pc'[w] = pc[w] /\ mem'[w] = mem[w])
  <1> USE DEF Typed, ThreadsTyped, Auditing, Goto
  <1>1. ASSUME NEW ok, Resume(w, ok) PROVE pc'[w] \notin Auditing
    BY <1>1 DEF Resume, Continue, Return
  <1>2. ASSUME NEW j \in Jobs, Call(w, j)
        PROVE  /\ UNCHANGED <<audit, overlapped>> /\ pc[w] = "idle"
               /\ pc'[w] \notin Auditing
    BY <1>2 DEF Call, CallPosting, CallTransfer, CallFreeze, CallUndo, CallEnqueue,
       CallProcessQueue, CallApplyLoan, CallProcessLoan, CallCreate, Begins, ghosts
  <1>3. CASE Check(w)
    <2>1. pc[w] = "check" /\ UNCHANGED <<audit, overlapped>> /\ pc'[w] \notin Auditing
      BY <1>1, <1>3 DEF Check
    <2> QED BY <2>1
  <1>4. CASE \/ Lock(w) \/ ReadPrev(w) \/ ReadBalance(w) \/ WriteBalance(w)
             \/ Link(w) \/ Prepend(w) \/ Push(w) \/ Unlock(w) \/ Raise(w)
    BY <1>4 DEF Lock, ReadPrev, ReadBalance, WriteBalance, Link, Prepend, Push, Pushes, Unlock,
       Raise, Remember, Return, ghosts
  <1>5. CASE Pop(w) \/ Restore(w) \/ Build(w) \/ Dequeue(w) \/ Take(w)
    BY <1>5 DEF Pop, Restore, Restores, Build, Dequeue, Take, Return, Continue, ghosts
  <1> QED BY <1>2, <1>3, <1>4, <1>5 DEF Moves, Step

\* A step leaves the audit log chained, unless two appends overlapped.
LEMMA MoveChains ==
  ASSUME Typed, Chained, NEW w \in Threads, Moves(w)
  PROVE  Chained'
  <1>1. \A v \in Threads : v # w => pc'[v] = pc[v] /\ mem'[v] = mem[v]
    BY OthersStay DEF Moves, Typed
  <1>2. /\ mem[w] \in Memories /\ mem[w].hash \in Nat /\ last_hash \in Nat /\ hashes \in Nat
        /\ mem[w].payload \in Nat /\ mem[w].prev_hash \in Nat
    BY DEF Typed, ThreadsTyped, DataTyped, Memories
  <1>3. CASE Hash(w)
    <2>1. /\ pc[w] = "hash" /\ pc'[w] = "prev_hash" /\ mem'[w].payload = last_hash
          /\ UNCHANGED <<audit_logs, last_hash>>
          /\ overlapped' = (overlapped \/ \E v \in Threads \ {w} : pc[v] \in Auditing)
      BY <1>3 DEF Hash, Goto, Typed, ThreadsTyped, Memories
    <2>2. Newest' = Newest /\ (Verified => Verified')
      BY <2>1 DEF Newest, Verified
    <2>3. ~overlapped' => ~overlapped /\ \A v \in Threads : pc[v] \notin Auditing
      BY <2>1 DEF Auditing
    <2> QED BY <1>1, <2>1, <2>2, <2>3 DEF Chained, Auditing
  <1>4. CASE PrevHash(w)
    <2>1. /\ pc[w] = "prev_hash" /\ pc'[w] = "last_hash" /\ mem'[w].prev_hash = last_hash
          /\ mem'[w].payload = mem[w].payload
          /\ UNCHANGED <<audit_logs, last_hash, overlapped>>
      BY <1>4 DEF PrevHash, Remember, Goto, Typed, ThreadsTyped, Memories, audit, ghosts
    <2>2. Newest' = Newest /\ (Verified => Verified')
      BY <2>1 DEF Newest, Verified
    <2> QED BY <1>1, <2>1, <2>2 DEF Chained, Auditing
  <1>5. CASE LastHash(w)
    <2>1. /\ pc[w] = "last_hash" /\ pc'[w] = "append" /\ mem' = mem
          /\ last_hash' = mem[w].hash /\ UNCHANGED <<audit_logs, overlapped>>
      BY <1>5 DEF LastHash, Goto, Typed, ThreadsTyped, ghosts
    <2>2. Newest' = Newest /\ (Verified => Verified')
      BY <2>1 DEF Newest, Verified
    <2> QED BY <1>1, <2>1, <2>2 DEF Chained, Auditing
  <1>6. CASE AppendLog(w)
    <2> DEFINE e == [payload |-> mem[w].payload, hash |-> mem[w].hash,
                     prev_hash |-> mem[w].prev_hash]
    <2>1. /\ pc[w] = "append" /\ audit_logs' = Append(audit_logs, e)
          /\ UNCHANGED <<last_hash, overlapped>> /\ Resume(w, TRUE)
      BY <1>6 DEF AppendLog, ghosts
    <2>2. pc'[w] \notin Auditing
      BY <2>1 DEF Resume, Continue, Return, Goto, Typed, ThreadsTyped, Auditing
    <2>3. e \in LogEntries /\ audit_logs \in Seq(LogEntries)
      BY <1>2 DEF LogEntries, Chained
    <2>4. /\ audit_logs' \in Seq(LogEntries) /\ Len(audit_logs') = Len(audit_logs) + 1
          /\ audit_logs'[Len(audit_logs')] = e /\ audit_logs' # <<>>
          /\ \A n \in 1 .. Len(audit_logs) : audit_logs'[n] = audit_logs[n]
          /\ Len(audit_logs) \in Nat
          /\ DOMAIN audit_logs = 1 .. Len(audit_logs)
          /\ DOMAIN audit_logs' = 1 .. Len(audit_logs')
      BY <2>1, <2>3
    <2>5. Newest' = mem[w].hash
      BY <2>4 DEF Newest
    <2>6. ASSUME ~overlapped PROVE Verified'
      <3>1. mem[w].payload = Newest /\ mem[w].prev_hash = Newest /\ Verified
        BY <2>1, <2>6 DEF Chained, Auditing
      <3>2. ASSUME NEW n \in 1 .. Len(audit_logs')
            PROVE  LET prev == IF n = 1 THEN Genesis ELSE audit_logs'[n - 1].hash IN
                   audit_logs'[n].payload = prev /\ audit_logs'[n].prev_hash = prev
        <4>1. CASE n \in 1 .. Len(audit_logs)
          <5>1. n = 1 \/ n - 1 \in 1 .. Len(audit_logs)
            BY <2>4, <4>1
          <5> QED BY <2>4, <3>1, <4>1, <5>1 DEF Verified
        <4>2. CASE n = Len(audit_logs) + 1
          <5>1. CASE Len(audit_logs) = 0
            <6>1. audit_logs = <<>>
              BY <2>3, <5>1
            <6> QED BY <2>4, <3>1, <4>2, <5>1, <6>1 DEF Newest
          <5>2. CASE Len(audit_logs) # 0
            <6>1. audit_logs # <<>> /\ n - 1 = Len(audit_logs) /\ n # 1
                  /\ Len(audit_logs) \in 1 .. Len(audit_logs)
              BY <2>4, <4>2, <5>2
            <6>2. audit_logs'[n - 1].hash = Newest
              BY <2>4, <6>1 DEF Newest
            <6> QED BY <2>4, <3>1, <4>2, <6>1, <6>2
          <5> QED BY <5>1, <5>2
        <4> QED BY <2>4, <4>1, <4>2
      <3> QED BY <2>4, <3>2 DEF Verified
    <2>7. ASSUME ~overlapped
          PROVE  last_hash = mem[w].hash /\ \A v \in Threads : pc'[v] \notin Auditing
      BY <1>1, <2>1, <2>2, <2>7 DEF Chained, Auditing
    <2> HIDE DEF e
    <2> QED BY <2>1, <2>4, <2>5, <2>6, <2>7 DEF Chained, Auditing
  <1>7. CASE /\ UNCHANGED <<audit, overlapped>>
             /\ pc[w] \notin Auditing \/ pc'[w] = pc[w]
             /\ pc'[w] \notin Auditing \/ (pc'[w] = pc[w] /\ mem'[w] = mem[w])
    <2>1. UNCHANGED <<audit_logs, last_hash, overlapped>>
      BY <1>7 DEF audit
    <2>2. Newest' = Newest /\ (Verified => Verified')
      BY <2>1 DEF Newest, Verified
    <2>3. \A v \in Threads : /\ pc'[v] \in Auditing <=> pc[v] \in Auditing
                             /\ pc'[v] \in Auditing => pc'[v] = pc[v] /\ mem'[v] = mem[v]
      BY <1>1, <1>7
    <2> QED BY <2>1, <2>2, <2>3 DEF Chained, Auditing
  <1> QED BY <1>3, <1>4, <1>5, <1>6, <1>7, QuietAudit

\* The chain of audit entries verifies as long as no two were written at once
\* (log_audit and verify_audit_chain of services/banking_service.py).
THEOREM AuditChainHolds == Spec => []AuditChainVerifies
  <1>1. Init => Chained
    BY DEF Init, Chained, Verified, Newest, Auditing, Genesis
  <1>2. Inv /\ Chained /\ [Next]_vars => Chained'
    <2> SUFFICES ASSUME Inv, Chained, [Next]_vars PROVE Chained'
      OBVIOUS
    <2>1. ASSUME NEW w \in Threads, Moves(w) PROVE Chained'
      BY <2>1, MoveChains DEF Inv
    <2>2. CASE UNCHANGED vars
      BY <2>2 DEF vars, audit, ghosts, Chained, Verified, Newest
    <2> QED BY <2>1, <2>2 DEF Next, Moves
  <1>3. Chained => AuditChainVerifies
    BY DEF Chained, AuditChainVerifies
  <1> QED BY InvInit, InvNext, <1>1, <1>2, <1>3, PTL DEF Spec

-----------------------------------------------------------------------------
(* Undo and history *)

\* What an undo stack and a history say of a balance b.
Result(op) == op.prev + Signed(op.type, op.amount)
Leads(s, b) == s # <<>> => b = Result(s[Len(s)])
Tells(h, b) == h # <<>> => h[1].after = b

\* Each operation of a stack starts from the result of the one before, and each
\* entry of a history from the entry before.
Walks(s) == \A n \in 1 .. Len(s) - 1 : s[n + 1].prev = Result(s[n])
Explains(h) == \A n \in 1 .. Len(h) - 1 :
  h[n].after = h[n + 1].after + Signed(h[n].type, h[n].amount)

\* A thread is at an account.
At(w, a) == pc[w] \in Changing /\ Of(w) = a

\* An account that is not complete has a thread that is completing it.
Made == \A a \in Accounts :
  /\ built[a] = 1 => \E w \in Threads : pc[w] = "lock_made" /\ Of(w) = a
  /\ built[a] = 2 => \E w \in Threads : pc[w] = "history_made" /\ Of(w) = a
  /\ built[a] = 3 => \E w \in Threads : pc[w] = "stack_made" /\ Of(w) = a

\* The accounts that threads are at are there.
StandingOf(w) ==
  /\ pc[w] \in Changing => built[Of(w)] >= 1
  /\ pc[w] \in {"pop", "restore", "link", "prepend"} /\ call[w].kind = "none" =>
       built[Of(w)] = 4
Standing == \A w \in Threads : StandingOf(w)

\* No two threads are at one account, and who posts to it has its lock.
Alone ==
  /\ \A v, w \in Threads : At(v, Of(v)) /\ At(w, Of(v)) /\ Of(v) \notin raced => v = w
  /\ \A w \in Threads : pc[w] \in Holds /\ call[w].kind # "none" /\ Of(w) \notin raced =>
                        lock[Of(w)] = w

\* What the entry that a thread is recording does to the balance.
Change(w) == Signed(Recorded(w)[1], Recorded(w)[2])

\* What a thread that is at an account knows of it.
KeepsOf(w) ==
  LET b == balance[Of(w)]
      h == history[Of(w)]
      s == undo[Of(w)] IN
  /\ pc[w] \in {"prev", "read", "write", "pop", "restore", "unlock", "push"} => Tells(h, b)
  /\ pc[w] \in {"prev", "read", "write", "pop", "unlock"} => Leads(s, b)
  /\ pc[w] \in {"read", "write"} => mem[w].prev = b
  /\ pc[w] = "write" => mem[w].base = b
  /\ pc[w] \in {"link", "prepend", "push"} /\ call[w].kind # "none" =>
       b = mem[w].prev + Signed(call[w].kind, call[w].amount) /\ Leads(s, mem[w].prev)
  /\ pc[w] \in {"link", "prepend"} /\ call[w].kind = "none" => Leads(s, b)
  /\ pc[w] \in {"link", "prepend"} => Tells(h, b - Change(w))
  /\ pc[w] = "prepend" => mem[w].link = h /\ mem[w].after = b
  /\ pc[w] = "restore" => /\ mem[w].prev = b + Signed(mem[w].undone, mem[w].amount)
                          /\ Leads(s, mem[w].prev)
  /\ pc[w] \in Making => h = <<>> /\ s = <<>>
  /\ pc[w] \in Making \cup {"link"} /\ job[w].op = "create_account" => b = job[w].amount

Rests(a) == Leads(undo[a], balance[a]) /\ Tells(history[a], balance[a])

Keeps ==
  /\ \A a \in Accounts : built[a] = 0 => history[a] = <<>> /\ undo[a] = <<>>
  /\ \A a \in Accounts \ raced : /\ Walks(undo[a]) /\ Explains(history[a])
                                 /\ AtRest(a) => Rests(a)
  /\ \A w \in Threads : Of(w) \notin raced => KeepsOf(w)

Kept == Paid /\ Made /\ Standing /\ Alone /\ Keeps

-----------------------------------------------------------------------------
(* Who is where *)

\* A thread that is at an account without its lock undoes or creates.
LEMMA LocklessFacts ==
  ASSUME Typed, NEW w \in Threads, pc[w] \in Changing, call[w].kind = "none"
  PROVE  /\ w \in Lockless
         /\ pc[w] \in {"pop", "restore", "link", "prepend", "lock_made", "history_made",
                       "stack_made"}
  BY DEF Typed, ThreadsTyped, Known, KnownOf, Changing, Postings, Making, Lockless

\* Steps that come to an account, and steps of a thread that is there already.
LEMMA ComesOrStays ==
  ASSUME Typed, NEW w \in Threads, Moves(w)
  PROVE  \/ Lock(w)
         \/ \E j \in Jobs : CallUndo(w, j) \/ CallCreate(w, j)
         \/ pc'[w] \notin Changing
         \/ pc[w] \in Changing /\ call'[w] = call[w]
  <1> USE DEF Typed, ThreadsTyped, Changing, Goto
  <1>1. ASSUME NEW ok, Resume(w, ok) PROVE pc'[w] \notin Changing
    BY <1>1 DEF Resume, Continue, Return
  <1>2. ASSUME NEW j \in Jobs, Call(w, j), ~CallUndo(w, j), ~CallCreate(w, j)
        PROVE  pc'[w] \notin Changing
    BY <1>2 DEF Call, CallPosting, CallTransfer, CallFreeze, CallEnqueue,
       CallProcessQueue, CallApplyLoan, CallProcessLoan, Begins
  <1>3. CASE AppendLog(w)
    BY <1>1, <1>3 DEF AppendLog
  <1>4. CASE Check(w)
    <2>1. CASE Refused(call[w])
      BY <1>1, <1>4, <2>1 DEF Check
    <2>2. CASE ~Refused(call[w])
      BY <1>4, <2>2 DEF Check
    <2> QED BY <2>1, <2>2
  <1>5. CASE \/ ReadPrev(w) \/ ReadBalance(w) \/ WriteBalance(w) \/ Link(w)
             \/ Prepend(w) \/ Push(w) \/ Unlock(w) \/ Raise(w)
    BY <1>5 DEF ReadPrev, ReadBalance, WriteBalance, Link, Prepend, Push, Pushes, Unlock, Raise,
       Remember, Return
  <1>6. CASE \/ Pop(w) \/ Restore(w) \/ Build(w)
    BY <1>6 DEF Pop, Restore, Restores, Build, Return
  <1>7. CASE \/ Hash(w) \/ PrevHash(w) \/ LastHash(w) \/ Dequeue(w) \/ Take(w)
    BY <1>7 DEF Hash, PrevHash, LastHash, Dequeue, Take, Remember, Return, Continue
  <1> QED BY <1>2, <1>3, <1>4, <1>5, <1>6, <1>7 DEF Moves, Step

\* Only those that come look around.
LEMMA RacedGrows ==
  ASSUME NEW w \in Threads, Moves(w)
  PROVE  raced' = raced \/ Lock(w) \/ \E j \in Jobs : CallUndo(w, j)
  BY DEF Moves, Step, Call, CallPosting, CallTransfer, CallFreeze, CallEnqueue, CallProcessQueue,
     CallApplyLoan, CallProcessLoan, CallCreate, Check, ReadPrev, ReadBalance, WriteBalance, Link,
     Prepend, Push, Pushes, Unlock, Raise, Pop, Restore, Restores, Build, Hash, PrevHash, LastHash,
     AppendLog, Dequeue, Take, Remember, ghosts

\* An account that was raced stays so.
LEMMA RacedStays ==
  ASSUME NEW w \in Threads, Moves(w)
  PROVE  raced \subseteq raced'
  <1>1. CASE Lock(w)
    BY <1>1 DEF Lock, Enters
  <1>2. ASSUME NEW j \in Jobs, CallUndo(w, j) PROVE raced \subseteq raced'
    BY <1>2 DEF CallUndo, Enters
  <1> QED BY <1>1, <1>2, RacedGrows

\* A thread that completes an account does nothing else.
LEMMA MakersBuild ==
  ASSUME NEW w \in Threads, Moves(w), pc[w] \in Making
  PROVE  Build(w)
  BY DEF Moves, Step, Call, CallPosting, CallTransfer, CallFreeze, CallUndo, CallEnqueue,
     CallProcessQueue, CallApplyLoan, CallProcessLoan, CallCreate, Begins, Check, Lock, ReadPrev,
     ReadBalance, WriteBalance, Link, Prepend, Push, Pushes, Unlock, Raise, Pop, Restore, Restores,
     Hash, PrevHash, LastHash, AppendLog, Dequeue, Take, Remember, Making

\* An account that is being created keeps its creator.
LEMMA MoveMade ==
  ASSUME Typed, Building, Made, NEW w \in Threads, Moves(w)
  PROVE  Made'
  <1>1. \A v \in Threads : v # w => pc'[v] = pc[v] /\ Of(v)' = Of(v)
    BY OthersStay DEF Moves, Typed, Of
  <1>2. CASE Build(w)
    <2>1. /\ built' = [built EXCEPT ![Of(w)] = built[Of(w)] + 1] /\ Of(w)' = Of(w)
          /\ pc[w] \in Making /\ Of(w) \in Accounts
          /\ pc'[w] = CASE pc[w] = "lock_made" -> "history_made"
                        [] pc[w] = "history_made" -> "stack_made"
                        [] pc[w] = "stack_made" -> IF job[w].amount > 0 THEN "link" ELSE "hash"
      BY <1>2 DEF Build, Goto, Making, Typed, ThreadsTyped, Of, CallTypes
    <2>2. \/ built[Of(w)] = 1 /\ pc'[w] = "history_made"
          \/ built[Of(w)] = 2 /\ pc'[w] = "stack_made"
          \/ built[Of(w)] = 3
      BY <2>1 DEF Building, Making
    <2>3. ASSUME NEW a \in Accounts, a # Of(w)
          PROVE  built'[a] = built[a] /\ \A v \in Threads : pc[v] \in Making /\ Of(v) = a => v # w
      BY <2>1, <2>3 DEF Building
    <2>4. built'[Of(w)] = built[Of(w)] + 1
      BY <2>1 DEF Building
    <2>5. ASSUME NEW a \in Accounts, a # Of(w)
          PROVE  /\ built'[a] = 1 => \E v \in Threads : pc'[v] = "lock_made" /\ Of(v)' = a
                 /\ built'[a] = 2 => \E v \in Threads : pc'[v] = "history_made" /\ Of(v)' = a
                 /\ built'[a] = 3 => \E v \in Threads : pc'[v] = "stack_made" /\ Of(v)' = a
      BY <1>1, <2>3, <2>5 DEF Made, Making
    <2>6. /\ built'[Of(w)] \in {2, 3, 4}
          /\ built'[Of(w)] = 2 => pc'[w] = "history_made"
          /\ built'[Of(w)] = 3 => pc'[w] = "stack_made"
      BY <2>2, <2>4
    <2>7. /\ built'[Of(w)] # 1
          /\ built'[Of(w)] = 2 => \E v \in Threads : pc'[v] = "history_made" /\ Of(v)' = Of(w)
          /\ built'[Of(w)] = 3 => \E v \in Threads : pc'[v] = "stack_made" /\ Of(v)' = Of(w)
      <3>1. Of(w)' = Of(w)
        BY <2>1
      <3>2. pc'[w] = "history_made" => \E v \in Threads : pc'[v] = "history_made" /\ Of(v)' = Of(w)
        BY <3>1
      <3>3. pc'[w] = "stack_made" => \E v \in Threads : pc'[v] = "stack_made" /\ Of(v)' = Of(w)
        BY <3>1
      <3> QED BY <2>6, <3>2, <3>3
    <2> QED BY <2>5, <2>7 DEF Made
  <1>3. ASSUME NEW j \in Jobs, CallCreate(w, j) PROVE Made'
    <2>1. /\ built' = [built EXCEPT ![j.account] = 1] /\ pc[w] = "idle"
          /\ pc'[w] = "lock_made" /\ Of(w)' = j.account /\ j.account \in Accounts
      BY <1>3, JobFacts DEF CallCreate, Begins, Goto, Typed, ThreadsTyped, Of, Outer, Posting
    <2>2. \A a \in Accounts : a # j.account => built'[a] = built[a]
      BY <2>1 DEF Building
    <2>3. built'[j.account] = 1
      BY <2>1 DEF Building
    <2> QED BY <1>1, <2>1, <2>2, <2>3 DEF Made
  <1>4. CASE built' = built /\ (pc'[w] = pc[w] \/ pc'[w] \notin Making) /\ pc[w] \notin Making
    BY <1>1, <1>4 DEF Made, Making
  <1>5. CASE pc[w] \in Making
    BY <1>2, <1>5, MakersBuild
  <1> QED BY <1>2, <1>3, <1>4, <1>5, OnlyBuildersBuild

\* Nobody is at an account that is not there.
LEMMA MoveStanding ==
  ASSUME Typed, Building, Current, Standing, NEW w \in Threads, Moves(w)
  PROVE  Standing'
  <1>1. /\ \A v \in Threads : Of(v) \in Accounts /\ built[Of(v)] \in 0 .. 4
        /\ \A a \in Accounts : built'[a] \in 0 .. 4 /\ built'[a] >= built[a]
    BY MoveBuilds, AccountsStay DEF Typed, ThreadsTyped, CallTypes, Of, Building
  <1>2. ASSUME NEW v \in Threads, v # w PROVE StandingOf(v)'
    <2>1. pc'[v] = pc[v] /\ call'[v] = call[v] /\ Of(v)' = Of(v)
      BY <1>2, OthersStay DEF Moves, Typed, Of
    <2> QED BY <1>1, <2>1 DEF Standing, StandingOf
  <1>3. StandingOf(w)'
    <2> USE DEF StandingOf
    <2>1. CASE pc'[w] \notin Changing
      BY <2>1 DEF Changing
    <2>2. CASE Lock(w)
      <3>1. pc[w] = "lock" /\ pc'[w] = "prev" /\ Of(w)' = Of(w)
        BY <2>2 DEF Lock, Goto, Typed, ThreadsTyped, Of
      <3>2. built[Of(w)] >= 1
        BY <3>1 DEF Current, CurrentOf, AtIt
      <3> QED BY <1>1, <3>1, <3>2
    <2>3. ASSUME NEW j \in Jobs, CallUndo(w, j) PROVE StandingOf(w)'
      <3>1. Of(w)' = j.account /\ built'[j.account] = 4 /\ built'[j.account] >= 1
        BY <2>3 DEF CallUndo, Begins, Of, Outer, Posting, Typed, ThreadsTyped, account
      <3> QED BY <3>1
    <2>4. ASSUME NEW j \in Jobs, CallCreate(w, j) PROVE StandingOf(w)'
      <3>1. Of(w)' = j.account /\ built'[j.account] = 1 /\ pc'[w] = "lock_made"
        BY <2>4, JobFacts DEF CallCreate, Begins, Goto, Of, Outer, Posting, Typed, ThreadsTyped,
           Building
      <3> QED BY <3>1
    <2>5. CASE pc[w] \in Changing /\ call'[w] = call[w] /\ pc'[w] \in Changing
      <3>1. Of(w)' = Of(w) /\ built'[Of(w)] >= 1
        BY <1>1, <2>5 DEF Standing, Of
      <3>2. CASE call[w].kind # "none"
        BY <2>5, <3>1, <3>2
      <3>3. CASE call[w].kind = "none" /\ pc[w] \notin Making
        <4>1. built[Of(w)] = 4
          BY <2>5, <3>3, LocklessFacts DEF Standing, Making
        <4> QED BY <1>1, <3>1, <4>1
      <3>4. CASE pc[w] \in Making
        <4>1. CASE Build(w) /\ pc[w] = "stack_made"
          <5>1. built' = [built EXCEPT ![Of(w)] = built[Of(w)] + 1] /\ built[Of(w)] = 3
            BY <4>1 DEF Build, Building
          <5>2. built'[Of(w)] = 4
            BY <1>1, <5>1 DEF Building
          <5> QED BY <3>1, <5>2
        <4>2. CASE Build(w) /\ pc[w] \in {"lock_made", "history_made"}
          <5>1. pc'[w] \in Making
            BY <4>2 DEF Build, Goto, Typed, ThreadsTyped, Making
          <5> QED BY <3>1, <5>1 DEF Making
        <4> QED BY <3>4, <4>1, <4>2, MakersBuild DEF Making
      <3> QED BY <3>2, <3>3, <3>4
    <2> QED BY <2>1, <2>2, <2>3, <2>4, <2>5, ComesOrStays
  <1> QED BY <1>2, <1>3 DEF Standing

\* Where Lock finds an account that no other thread without its lock is at, the lock is
\* there and free, and no thread that holds it is at the account either.
LEMMA LockFacts ==
  ASSUME Typed, Building, Current, Made, Alone, NEW w \in Threads, Lock(w), Of(w) \notin raced'
  PROVE  /\ lock' = [lock EXCEPT ![Of(w)] = w] /\ lock[Of(w)] = Free
         /\ Of(w)' = Of(w) /\ pc'[w] = "prev"
         /\ \A v \in Threads : v # w /\ pc[v] \in Changing => Of(v) # Of(w)
  <1>1. /\ pc[w] = "lock" /\ pc'[w] = "prev" /\ Of(w)' = Of(w) /\ Of(w) \in Accounts
        /\ Of(w) \notin raced
        /\ \A v \in Lockless \ {w} : pc[v] \in Changing => Of(v) # Of(w)
    BY RacedStays DEF Lock, Goto, Typed, ThreadsTyped, CallTypes, Of, Enters
  <1>2. built[Of(w)] >= 1 /\ built[Of(w)] \in 0 .. 4
    BY <1>1 DEF Current, CurrentOf, AtIt, Building
  <1>3. built[Of(w)] # 1
    <2>1. SUFFICES ASSUME built[Of(w)] = 1 PROVE FALSE
      OBVIOUS
    <2>2. PICK v \in Threads : pc[v] = "lock_made" /\ Of(v) = Of(w)
      BY <1>1, <2>1 DEF Made
    <2>3. v \in Lockless /\ v # w /\ pc[v] \in Changing
      BY <1>1, <2>2 DEF Typed, Known, KnownOf, Making, Lockless, Changing
    <2> QED BY <1>1, <2>2, <2>3
  <1>4. lock' = [lock EXCEPT ![Of(w)] = w] /\ lock[Of(w)] = Free
    BY <1>2, <1>3 DEF Lock
  <1>5. ASSUME NEW v \in Threads, v # w, pc[v] \in Changing PROVE Of(v) # Of(w)
    <2>1. CASE call[v].kind = "none"
      BY <1>1, <1>5, <2>1, LocklessFacts
    <2>2. CASE call[v].kind # "none" /\ Of(v) = Of(w)
      <3>1. pc[v] \in Holds
        BY <1>5, <2>2 DEF Typed, Known, KnownOf, Changing, Holds, Making
      <3>2. lock[Of(w)] = v
        BY <1>1, <2>2, <3>1 DEF Alone
      <3> QED BY <1>4, <3>2, ThreadsAssumption
    <2> QED BY <2>1, <2>2
  <1> QED BY <1>1, <1>4, <1>5

\* Nobody joins a thread at an account unnoticed.
LEMMA MoveAlone ==
  ASSUME Typed, Building, Current, Made, Standing, Alone, NEW w \in Threads, Moves(w)
  PROVE  Alone'
  <1>1. \A v \in Threads : v # w => pc'[v] = pc[v] /\ call'[v] = call[v] /\ Of(v)' = Of(v)
    BY OthersStay DEF Moves, Typed, Of
  <1>2. raced \subseteq raced'
    BY RacedStays
  <1>3. ASSUME pc'[w] \in Changing, Of(w)' \notin raced', NEW v \in Threads, v # w,
               pc[v] \in Changing
        PROVE  Of(v) # Of(w)'
    <2>1. CASE Lock(w)
      <3>1. Of(w)' = Of(w)
        BY <2>1 DEF Lock, Of
      <3> QED BY <1>3, <2>1, <3>1, LockFacts
    <2>2. ASSUME NEW j \in Jobs, CallUndo(w, j) PROVE Of(v) # Of(w)'
      <3>1. Of(w)' = j.account
        BY <2>2 DEF CallUndo, Begins, Of, Outer, Posting, Typed, ThreadsTyped
      <3> QED BY <1>3, <2>2, <3>1 DEF CallUndo, Enters
    <2>3. ASSUME NEW j \in Jobs, CallCreate(w, j) PROVE Of(v) # Of(w)'
      <3>1. Of(w)' = j.account /\ built[j.account] = 0
        BY <2>3 DEF CallCreate, Begins, Of, Outer, Posting, Typed, ThreadsTyped
      <3> QED BY <1>3, <3>1 DEF Standing, StandingOf
    <2>4. CASE pc[w] \in Changing /\ call'[w] = call[w]
      <3>1. Of(w)' = Of(w)
        BY <2>4 DEF Of
      <3> QED BY <1>2, <1>3, <2>4, <3>1 DEF Alone, At
    <2> QED BY <1>3, <2>1, <2>2, <2>3, <2>4, ComesOrStays
  <1>4. ASSUME NEW u \in Threads, NEW v \in Threads, u # v, pc'[u] \in Changing,
               pc'[v] \in Changing, Of(u)' = Of(v)'
        PROVE  Of(u)' \in raced'
    <2>1. CASE u = w
      BY <1>1, <1>3, <1>4, <2>1
    <2>2. CASE v = w
      BY <1>1, <1>3, <1>4, <2>2
    <2>3. CASE u # w /\ v # w
      BY <1>1, <1>2, <1>4, <2>3 DEF Alone, At
    <2> QED BY <2>1, <2>2, <2>3
  <1>5. lock' = lock \/ Lock(w) \/ Unlock(w) \/ Raise(w)
    BY DEF Moves, Step, Call, CallPosting, CallTransfer, CallFreeze, CallUndo, CallEnqueue,
       CallProcessQueue, CallApplyLoan, CallProcessLoan, CallCreate, Check, ReadPrev,
       ReadBalance, WriteBalance, Link, Prepend, Push, Pushes, Pop, Restore, Restores, Build,
       Hash, PrevHash, LastHash, AppendLog, Dequeue, Take, Remember
  <1>6. ASSUME NEW v \in Threads, v # w, pc'[v] \in Holds, call'[v].kind # "none",
               Of(v)' \notin raced'
        PROVE  lock'[Of(v)'] = v
    <2>1. lock[Of(v)] = v /\ Of(v)' = Of(v) /\ Of(v) \in Accounts
      BY <1>1, <1>2, <1>6 DEF Alone, Typed, ThreadsTyped, CallTypes, Of
    <2>2. CASE Lock(w)
      <3>1. lock' = lock \/ (lock[Of(w)] = Free /\ lock' = [lock EXCEPT ![Of(w)] = w])
        BY <2>2 DEF Lock
      <3>2. lock[Of(w)] = Free => Of(v) # Of(w)
        BY <2>1, ThreadsAssumption
      <3> QED BY <2>1, <3>1, <3>2 DEF Typed, DataTyped
    <2>3. CASE Unlock(w) \/ Raise(w)
      <3>1. lock' = [a \in Accounts |-> IF lock[a] = w THEN Free ELSE lock[a]]
        BY <2>3 DEF Unlock, Raise
      <3> QED BY <1>6, <2>1, <3>1
    <2> QED BY <1>5, <2>1, <2>2, <2>3
  <1>7. ASSUME pc'[w] \in Holds, call'[w].kind # "none", Of(w)' \notin raced'
        PROVE  lock'[Of(w)'] = w
    <2>1. pc'[w] \in Changing
      BY <1>7 DEF Holds, Changing
    <2>2. CASE Lock(w)
      <3>1. Of(w)' = Of(w) /\ Of(w) \in Accounts
        BY <2>2 DEF Lock, Typed, ThreadsTyped, CallTypes, Of
      <3> QED BY <1>7, <2>2, <3>1, LockFacts DEF Typed, DataTyped
    <2>3. ASSUME NEW j \in Jobs, CallUndo(w, j) \/ CallCreate(w, j) PROVE FALSE
      BY <1>7, <2>3 DEF CallUndo, CallCreate, Begins, Outer, Posting, Typed, ThreadsTyped
    <2>4. CASE pc[w] \in Changing /\ call'[w] = call[w] /\ ~Lock(w)
      <3>1. Of(w)' = Of(w) /\ pc[w] \in Holds
        BY <1>7, <2>4 DEF Typed, Known, KnownOf, Changing, Holds, Making, Of
      <3>2. lock[Of(w)] = w
        BY <1>2, <1>7, <2>4, <3>1 DEF Alone
      <3>3. ~Unlock(w) /\ ~Raise(w)
        BY <1>7 DEF Unlock, Raise, Return, Goto, Typed, ThreadsTyped, Holds
      <3> QED BY <1>5, <2>4, <3>1, <3>2, <3>3
    <2> QED BY <2>1, <2>2, <2>3, <2>4, ComesOrStays
  <1> QED BY <1>4, <1>6, <1>7 DEF Alone, At

-----------------------------------------------------------------------------
(* What a thread does at an account *)

\* An entry counts a whole number, and undoing it counts the opposite.
LEMMA SignedInt ==
  ASSUME NEW t \in EntryTypes, NEW n \in Int
  PROVE  /\ Signed(t, n) \in Int
         /\ t \in {"deposit", "withdrawal"} =>
              Undoing(t) \in EntryTypes /\ Signed(Undoing(t), n) = -Signed(t, n)
  <1>1. CASE t = "deposit"
    BY <1>1 DEF Signed, Undoing, EntryTypes
  <1>2. CASE t = "withdrawal"
    BY <1>2 DEF Signed, Undoing, EntryTypes
  <1>3. CASE t = "undo deposit"
    <2>1. Signed("undo deposit", n) = -n
      BY DEF Signed
    <2>2. Signed(t, n) \in Int
      <3>1. Signed(t, n) = -n
        BY <1>3, <2>1, Zenon
      <3> QED BY <3>1
    <2>3. t \notin {"deposit", "withdrawal"}
      BY <1>3
    <2> QED BY <2>2, <2>3
  <1>4. CASE t = "undo withdrawal"
    BY <1>4 DEF Signed
  <1> QED BY <1>1, <1>2, <1>3, <1>4 DEF EntryTypes

\* The records of a thread that is at an account.
LEMMA ThreadFacts ==
  ASSUME Typed, NEW w \in Threads, pc[w] \in Changing
  PROVE  /\ Of(w) \in Accounts /\ call[w] \in CallTypes /\ mem[w] \in Memories
         /\ job[w] \in Jobs /\ job[w].amount \in Int /\ call[w].amount \in Int
         /\ mem[w].prev \in Int /\ mem[w].base \in Int /\ mem[w].amount \in Int
         /\ balance[Of(w)] \in Int
         /\ history[Of(w)] \in Seq(Entries) /\ undo[Of(w)] \in Seq(Snapshots)
         /\ call[w].kind # "none" =>
              call[w].kind \in {"deposit", "withdrawal"} /\ Signed(call[w].kind, call[w].amount) \in Int
         /\ mem[w].undone # "none" =>
              mem[w].undone \in EntryTypes /\ Signed(mem[w].undone, mem[w].amount) \in Int
  <1>1. /\ call[w] \in CallTypes /\ mem[w] \in Memories /\ Of(w) \in Accounts /\ job[w] \in Jobs
    BY DEF Typed, ThreadsTyped, Known, KnownOf, CallTypes, Of, Changing
  <1>2. /\ job[w].amount \in Int /\ call[w].amount \in Int /\ call[w].kind \in Kinds
        /\ mem[w].prev \in Int /\ mem[w].base \in Int /\ mem[w].amount \in Int
        /\ mem[w].undone \in EntryTypes \cup {"none"}
    BY <1>1, JobFacts DEF CallTypes, Memories
  <1>3. /\ balance[Of(w)] \in Int
        /\ history[Of(w)] \in Seq(Entries) /\ undo[Of(w)] \in Seq(Snapshots)
    BY <1>1 DEF Typed, DataTyped
  <1>4. call[w].kind # "none" => call[w].kind \in {"deposit", "withdrawal"} /\ call[w].kind \in EntryTypes
    BY <1>2 DEF Kinds, EntryTypes
  <1> QED BY <1>1, <1>2, <1>3, <1>4, SignedInt

\* The entry being recorded is the posting, the undone operation reversed, or the
\* initial deposit.
LEMMA ChangeFacts ==
  ASSUME Typed, NEW w \in Threads, pc[w] \in Changing
  PROVE  /\ call[w].kind # "none" => Change(w) = Signed(call[w].kind, call[w].amount)
         /\ job[w].op = "undo_last_transaction" => Change(w) = Signed(mem[w].undone, mem[w].amount)
         /\ pc[w] \in {"link", "prepend"} =>
              /\ Change(w) \in Int
              /\ Recorded(w)[1] \in EntryTypes /\ Recorded(w)[2] \in Int
  <1>1. /\ call[w].kind # "none" => job[w].op \notin {"create_account", "undo_last_transaction"}
        /\ pc[w] \in {"link", "prepend"} =>
             \/ call[w].kind # "none" \/ job[w].op = "create_account"
             \/ job[w].op = "undo_last_transaction" /\ mem[w].undone # "none"
    BY DEF Typed, Known, KnownOf
  <1>2. CASE job[w].op = "create_account"
    <2>1. Recorded(w) = <<"deposit", job[w].amount>>
      BY <1>2 DEF Recorded
    <2>2. "deposit" \in EntryTypes
      BY DEF EntryTypes
    <2>3. Change(w) = Signed("deposit", job[w].amount)
      BY <2>1 DEF Change
    <2>4. Recorded(w)[1] = "deposit" /\ Recorded(w)[2] = job[w].amount /\ job[w].amount \in Int
      BY <2>1, ThreadFacts
    <2>5. Change(w) \in Int
      BY <2>2, <2>3, <2>4, SignedInt
    <2> QED BY <1>1, <1>2, <2>2, <2>4, <2>5
  <1>3. CASE job[w].op = "undo_last_transaction"
    <2>1. Recorded(w) = <<mem[w].undone, mem[w].amount>>
      BY <1>3 DEF Recorded
    <2> QED BY <1>1, <1>3, <2>1, ThreadFacts DEF Change
  <1>4. CASE job[w].op \notin {"create_account", "undo_last_transaction"}
    <2>1. Recorded(w) = <<call[w].kind, call[w].amount>>
      BY <1>4 DEF Recorded
    <2>2. call[w].kind # "none" => call[w].kind \in EntryTypes
      BY ThreadFacts DEF EntryTypes
    <2> QED BY <1>1, <1>4, <2>1, <2>2, ThreadFacts DEF Change
  <1> QED BY <1>2, <1>3, <1>4

\* What a step of w, which is at account a, has to leave behind.
Leaves(w, a) ==
  /\ Walks(undo'[a]) /\ Explains(history'[a])
  /\ pc'[w] \in Changing => KeepsOf(w)'
  /\ pc'[w] \notin Changing => Leads(undo'[a], balance'[a]) /\ Tells(history'[a], balance'[a])

\* A step that moves no money and writes no record.
LEMMA ReadLeaves ==
  ASSUME Typed, NEW w \in Threads, KeepsOf(w), Walks(undo[Of(w)]), Explains(history[Of(w)]),
         ReadPrev(w) \/ ReadBalance(w) \/ Link(w) \/ Unlock(w)
  PROVE  Leaves(w, Of(w))
  <1>1. /\ UNCHANGED <<balance, history, undo, call, job>> /\ Of(w)' = Of(w)
    BY DEF ReadPrev, ReadBalance, Link, Unlock, Remember, account, Of
  <1>2. CASE ReadPrev(w)
    <2>1. /\ pc[w] = "prev" /\ pc'[w] = "read" /\ mem'[w].prev = balance[Of(w)]
      BY <1>2 DEF ReadPrev, Remember, Goto, Typed, ThreadsTyped, Memories
    <2> QED BY <1>1, <2>1 DEF Leaves, KeepsOf, Changing, Making
  <1>3. CASE ReadBalance(w)
    <2>1. /\ pc[w] = "read" /\ pc'[w] = "write" /\ mem'[w].prev = mem[w].prev
          /\ mem'[w].base = balance[Of(w)]
      BY <1>3 DEF ReadBalance, Remember, Goto, Typed, ThreadsTyped, Memories
    <2> QED BY <1>1, <2>1 DEF Leaves, KeepsOf, Changing, Making
  <1>4. CASE Link(w)
    <2>1. /\ pc[w] = "link" /\ pc'[w] = "prepend" /\ mem'[w].prev = mem[w].prev
          /\ mem'[w].link = history[Of(w)]
          /\ mem'[w].after = IF job[w].op = "create_account" THEN job[w].amount
                             ELSE balance[Of(w)]
          /\ mem'[w].undone = mem[w].undone /\ mem'[w].amount = mem[w].amount
      BY <1>4 DEF Link, Remember, Goto, Typed, ThreadsTyped, Memories
    <2>2. Change(w)' = Change(w)
      BY <1>1, <2>1 DEF Change, Recorded
    <2>3. mem'[w].after = balance[Of(w)]
      BY <2>1 DEF KeepsOf
    <2> QED BY <1>1, <2>1, <2>2, <2>3 DEF Leaves, KeepsOf, Changing, Making
  <1>5. CASE Unlock(w)
    <2>1. pc[w] = "unlock" /\ pc'[w] = "hash"
      BY <1>5 DEF Unlock, Goto, Typed, ThreadsTyped
    <2> QED BY <1>1, <2>1 DEF Leaves, KeepsOf, Changing
  <1> QED BY <1>2, <1>3, <1>4, <1>5

\* A posting, and an undo that puts the balance back.
LEMMA BalanceLeaves ==
  ASSUME Typed, NEW w \in Threads, KeepsOf(w), Walks(undo[Of(w)]), Explains(history[Of(w)]),
         WriteBalance(w) \/ Restore(w)
  PROVE  Leaves(w, Of(w))
  <1>1. /\ UNCHANGED <<history, undo, call, job, mem>> /\ Of(w)' = Of(w)
        /\ pc'[w] = "link" /\ pc[w] \in {"write", "restore"} /\ pc[w] \in Changing
    BY DEF WriteBalance, Restore, Restores, Of, Goto, Typed, ThreadsTyped, Changing
  <1>2. Change(w)' = Change(w)
    BY <1>1 DEF Change, Recorded
  <1>3. CASE WriteBalance(w)
    <2>1. pc[w] = "write" /\ call[w].kind # "none"
      BY <1>3 DEF WriteBalance, Typed, Known, KnownOf, Postings
    <2>2. balance'[Of(w)] = balance[Of(w)] + Signed(call[w].kind, call[w].amount)
      BY <1>1, <1>3, <2>1, ThreadFacts DEF WriteBalance, KeepsOf, Typed, DataTyped
    <2>3. balance'[Of(w)] - Change(w) = balance[Of(w)]
      BY <1>1, <2>1, <2>2, ThreadFacts, ChangeFacts
    <2>4. mem[w].prev = balance[Of(w)]
      BY <2>1 DEF KeepsOf
    <2>5. job[w].op # "create_account"
      BY <2>1 DEF Typed, Known, KnownOf
    <2> QED BY <1>1, <1>2, <2>1, <2>2, <2>3, <2>4, <2>5 DEF Leaves, KeepsOf, Changing, Making
  <1>4. CASE Restore(w)
    <2>1. /\ pc[w] = "restore" /\ call[w].kind = "none" /\ job[w].op = "undo_last_transaction"
          /\ mem[w].undone # "none"
      BY <1>4 DEF Restore, Restores, Typed, Known, KnownOf
    <2>2. balance'[Of(w)] = mem[w].prev
      BY <1>1, <1>4, ThreadFacts DEF Restore, Restores, Typed, DataTyped
    <2>3. balance'[Of(w)] - Change(w) = balance[Of(w)]
      <3>1. mem[w].prev = balance[Of(w)] + Signed(mem[w].undone, mem[w].amount)
        BY <2>1 DEF KeepsOf
      <3> QED BY <1>1, <2>1, <2>2, <3>1, ThreadFacts, ChangeFacts
    <2> QED BY <1>1, <1>2, <2>1, <2>2, <2>3 DEF Leaves, KeepsOf, Changing, Making
  <1> QED BY <1>3, <1>4

\* A new entry comes before the others and has the balance.
LEMMA PrependLeaves ==
  ASSUME Typed, NEW w \in Threads, KeepsOf(w), Walks(undo[Of(w)]), Explains(history[Of(w)]),
         Prepend(w)
  PROVE  Leaves(w, Of(w))
  <1> DEFINE b == balance[Of(w)]
             h == history[Of(w)]
             e == Entry(Recorded(w)[1], Recorded(w)[2], b)
  <1>1. /\ pc[w] = "prepend" /\ UNCHANGED <<balance, undo, call, job, mem>> /\ Of(w)' = Of(w)
        /\ pc'[w] = IF call[w].kind = "none" THEN "hash" ELSE "push"
        /\ pc[w] \in Changing /\ mem[w].link = h /\ mem[w].after = b
    BY DEF Prepend, Goto, Of, Changing, Typed, ThreadsTyped, KeepsOf
  <1>2. /\ Of(w) \in Accounts /\ h \in Seq(Entries) /\ b \in Int /\ Change(w) \in Int
    BY <1>1, ThreadFacts, ChangeFacts
  <1>3. history'[Of(w)] = <<e>> \o h
    BY <1>1, <1>2 DEF Prepend, Typed, DataTyped
  <1>4. e \in Entries /\ e.after = b /\ Signed(e.type, e.amount) = Change(w)
    BY <1>1, <1>2, ChangeFacts DEF Entry, Entries, Change
  <1> HIDE DEF e
  <1>5. /\ <<e>> \o h # <<>> /\ (<<e>> \o h)[1] = e /\ Len(<<e>> \o h) = Len(h) + 1
        /\ \A n \in 1 .. Len(h) : (<<e>> \o h)[n + 1] = h[n]
        /\ Len(h) \in Nat
    BY <1>2, <1>4
  <1>6. Explains(<<e>> \o h)
    <2>1. ASSUME NEW n \in 1 .. Len(<<e>> \o h) - 1
          PROVE  (<<e>> \o h)[n].after
                   = (<<e>> \o h)[n + 1].after + Signed((<<e>> \o h)[n].type, (<<e>> \o h)[n].amount)
      <3>1. n \in 1 .. Len(h) /\ (<<e>> \o h)[n + 1] = h[n]
        BY <1>5
      <3>2. CASE n = 1
        <4>1. h # <<>> /\ h[1].after = b - Change(w)
          BY <1>1, <1>2, <3>1 DEF KeepsOf, Tells
        <4>2. (<<e>> \o h)[n] = e /\ (<<e>> \o h)[n + 1] = h[1]
          BY <1>5, <3>1, <3>2
        <4>3. e.after = h[1].after + Signed(e.type, e.amount)
          BY <1>2, <1>4, <4>1
        <4> QED BY <4>2, <4>3
      <3>3. CASE n # 1
        <4>1. n - 1 \in 1 .. Len(h) - 1 /\ n - 1 \in 1 .. Len(h) /\ (n - 1) + 1 = n
          BY <1>5, <3>1, <3>3
        <4>2. (<<e>> \o h)[n] = h[n - 1]
          BY <1>5, <4>1
        <4>3. h[n - 1].after = h[n].after + Signed(h[n - 1].type, h[n - 1].amount)
          BY <4>1 DEF Explains
        <4> QED BY <3>1, <4>2, <4>3
      <3> QED BY <3>2, <3>3
    <2> QED BY <2>1 DEF Explains
  <1>7. Tells(<<e>> \o h, b)
    BY <1>4, <1>5 DEF Tells
  <1>8. CASE call[w].kind = "none"
    BY <1>1, <1>3, <1>6, <1>7, <1>8 DEF Leaves, KeepsOf, Changing
  <1>9. CASE call[w].kind # "none"
    BY <1>1, <1>3, <1>6, <1>7, <1>9 DEF Leaves, KeepsOf, Changing, Making
  <1> QED BY <1>8, <1>9

\* A new snapshot comes last and leads to the balance.
LEMMA PushLeaves ==
  ASSUME Typed, NEW w \in Threads, KeepsOf(w), Walks(undo[Of(w)]), Explains(history[Of(w)]),
         Push(w)
  PROVE  Leaves(w, Of(w))
  <1> DEFINE s == undo[Of(w)]
             kept == IF Len(s) >= MaxUndo THEN Tail(s) ELSE s
             snap == [type |-> call[w].kind, amount |-> call[w].amount, prev |-> mem[w].prev]
  <1>1. /\ pc[w] = "push" /\ UNCHANGED <<balance, history, call, job, mem>> /\ Of(w)' = Of(w)
        /\ pc'[w] = "unlock" /\ pc[w] \in Changing /\ call[w].kind # "none"
        /\ undo' = [undo EXCEPT ![Of(w)] = Append(kept, snap)]
    BY DEF Push, Pushes, Goto, Of, Changing, Typed, ThreadsTyped, Known, KnownOf, Postings
  <1>2. /\ Of(w) \in Accounts /\ s \in Seq(Snapshots) /\ snap \in Snapshots
        /\ MaxUndo \in Nat \ {0}
        /\ Leads(s, snap.prev) /\ Result(snap) = balance[Of(w)]
    BY <1>1, ThreadFacts, AccountsAssumption DEF KeepsOf, Snapshots, Result
  <1>3. undo'[Of(w)] = Append(kept, snap)
    BY <1>1, <1>2 DEF Typed, DataTyped
  <1> HIDE DEF snap
  <1>4. kept \in Seq(Snapshots) /\ Walks(kept) /\ Leads(kept, snap.prev)
    <2>1. CASE Len(s) >= MaxUndo
      <3>1. s # <<>> /\ kept = Tail(s)
        BY <1>2, <2>1
      <3>2. /\ Tail(s) \in Seq(Snapshots) /\ Len(Tail(s)) = Len(s) - 1 /\ Len(s) \in Nat \ {0}
            /\ \A n \in 1 .. Len(s) - 1 : Tail(s)[n] = s[n + 1]
        BY <1>2, <3>1
      <3>3. Walks(Tail(s))
        <4>1. ASSUME NEW n \in 1 .. Len(Tail(s)) - 1 PROVE Tail(s)[n + 1].prev = Result(Tail(s)[n])
          <5>1. n \in 1 .. Len(s) - 1 /\ n + 1 \in 1 .. Len(s) - 1
            BY <3>2
          <5>2. Tail(s)[n + 1] = s[(n + 1) + 1] /\ Tail(s)[n] = s[n + 1]
            BY <3>2, <5>1
          <5>3. s[(n + 1) + 1].prev = Result(s[n + 1])
            BY <5>1 DEF Walks
          <5> QED BY <5>2, <5>3
        <4> QED BY <4>1 DEF Walks
      <3>4. Leads(Tail(s), snap.prev)
        <4>1. CASE Tail(s) # <<>>
          <5>1. Len(s) - 1 \in 1 .. Len(s) - 1
            BY <3>2, <4>1
          <5>2. Tail(s)[Len(Tail(s))] = s[Len(s)]
            BY <3>2, <5>1
          <5> QED BY <1>2, <3>1, <5>2 DEF Leads
        <4>2. CASE Tail(s) = <<>>
          BY <4>2 DEF Leads
        <4> QED BY <4>1, <4>2
      <3> QED BY <3>1, <3>2, <3>3, <3>4
    <2>2. CASE ~(Len(s) >= MaxUndo)
      BY <1>2, <2>2
    <2> QED BY <2>1, <2>2
  <1> HIDE DEF kept
  <1>5. /\ Len(Append(kept, snap)) = Len(kept) + 1 /\ Len(kept) \in Nat
        /\ Append(kept, snap)[Len(kept) + 1] = snap
        /\ \A n \in 1 .. Len(kept) : Append(kept, snap)[n] = kept[n]
    BY <1>2, <1>4
  <1>6. Leads(Append(kept, snap), balance[Of(w)])
    BY <1>2, <1>5 DEF Leads
  <1>7. Walks(Append(kept, snap))
    <2>1. ASSUME NEW n \in 1 .. Len(Append(kept, snap)) - 1
          PROVE  Append(kept, snap)[n + 1].prev = Result(Append(kept, snap)[n])
      <3>1. n \in 1 .. Len(kept) /\ Append(kept, snap)[n] = kept[n]
        BY <1>5
      <3>2. CASE n = Len(kept)
        <4>1. kept # <<>>
          BY <1>4, <3>1
        <4> QED BY <1>4, <1>5, <3>1, <3>2, <4>1 DEF Leads
      <3>3. CASE n # Len(kept)
        <4>1. n \in 1 .. Len(kept) - 1 /\ n + 1 \in 1 .. Len(kept)
          BY <1>5, <3>1, <3>3
        <4> QED BY <1>4, <1>5, <3>1, <4>1 DEF Walks
      <3> QED BY <3>2, <3>3
    <2> QED BY <2>1 DEF Walks
  <1> QED BY <1>1, <1>3, <1>6, <1>7 DEF Leaves, KeepsOf, Changing, Making

\* The last snapshot comes off and says what to put back.
LEMMA PopLeaves ==
  ASSUME Typed, NEW w \in Threads, KeepsOf(w), Walks(undo[Of(w)]), Explains(history[Of(w)]),
         Pop(w)
  PROVE  Leaves(w, Of(w))
  <1> DEFINE s == undo[Of(w)]
             t == SubSeq(s, 1, Len(s) - 1)
             op == s[Len(s)]
  <1>1. /\ pc[w] = "pop" /\ UNCHANGED <<balance, history>> /\ pc[w] \in Changing
        /\ Tells(history[Of(w)], balance[Of(w)]) /\ Leads(s, balance[Of(w)])
    BY DEF Pop, Changing, KeepsOf
  <1>2. Of(w) \in Accounts /\ s \in Seq(Snapshots) /\ mem[w] \in Memories /\ balance[Of(w)] \in Int
    BY <1>1, ThreadFacts
  <1>3. CASE s = <<>>
    <2>1. pc'[w] = "idle" /\ undo' = undo
      BY <1>3 DEF Pop, Return, Goto, Typed, ThreadsTyped
    <2> QED BY <1>1, <2>1 DEF Leaves, Changing
  <1>4. CASE s # <<>>
    <2>1. /\ undo' = [undo EXCEPT ![Of(w)] = t] /\ pc'[w] = "restore"
          /\ UNCHANGED <<job, call>> /\ Of(w)' = Of(w)
          /\ mem'[w].prev = op.prev /\ mem'[w].amount = op.amount
          /\ mem'[w].undone = Undoing(op.type)
      <3>1. /\ undo' = [undo EXCEPT ![Of(w)] = t] /\ Goto(w, "restore")
            /\ UNCHANGED <<job, call>>
            /\ mem' = [mem EXCEPT ![w] = [mem[w] EXCEPT !.prev = op.prev, !.amount = op.amount,
                                                       !.undone = Undoing(op.type)]]
        BY <1>4 DEF Pop
      <3>2. mem'[w] = [mem[w] EXCEPT !.prev = op.prev, !.amount = op.amount,
                                     !.undone = Undoing(op.type)]
        BY <3>1 DEF Typed, ThreadsTyped
      <3>3. /\ mem'[w].prev = op.prev /\ mem'[w].amount = op.amount
            /\ mem'[w].undone = Undoing(op.type)
        BY <1>2, <3>2 DEF Memories
      <3>4. pc'[w] = "restore" /\ Of(w)' = Of(w)
        BY <3>1 DEF Goto, Typed, ThreadsTyped, Of
      <3> QED BY <3>1, <3>3, <3>4
    <2>2. undo'[Of(w)] = t
      BY <1>2, <2>1 DEF Typed, DataTyped
    <2>3. /\ op \in Snapshots /\ op.type \in {"deposit", "withdrawal"} /\ op.amount \in Int
          /\ op.prev \in Int /\ op.type \in EntryTypes
      <3>1. Len(s) \in 1 .. Len(s)
        BY <1>2, <1>4
      <3>2. op \in Snapshots
        BY <1>2, <3>1
      <3> QED BY <3>2 DEF Snapshots, EntryTypes
    <2>4. balance[Of(w)] = op.prev + Signed(op.type, op.amount)
      BY <1>1, <1>4 DEF Leads, Result
    <2>5. /\ Signed(Undoing(op.type), op.amount) = -Signed(op.type, op.amount)
          /\ Signed(op.type, op.amount) \in Int
      BY <2>3, SignedInt
    <2>6. mem'[w].prev = balance[Of(w)] + Signed(mem'[w].undone, mem'[w].amount)
      BY <2>1, <2>3, <2>4, <2>5
    <2>7. /\ Len(t) = Len(s) - 1 /\ Len(s) \in Nat \ {0}
          /\ \A n \in 1 .. Len(s) - 1 : t[n] = s[n]
          /\ t \in Seq(Snapshots)
      BY <1>2, <1>4
    <2> HIDE DEF t
    <2>8. Walks(t)
      <3>1. ASSUME NEW n \in 1 .. Len(t) - 1 PROVE t[n + 1].prev = Result(t[n])
        <4>1. n \in 1 .. Len(s) - 1 /\ n + 1 \in 1 .. Len(s) - 1
          BY <2>7
        <4> QED BY <2>7, <4>1 DEF Walks
      <3> QED BY <3>1 DEF Walks
    <2>9. Leads(t, op.prev)
      <3>1. CASE t # <<>>
        <4>1. Len(s) - 1 \in 1 .. Len(s) - 1 /\ (Len(s) - 1) + 1 = Len(s)
          BY <2>7, <3>1
        <4>2. s[Len(s)].prev = Result(s[Len(s) - 1])
          BY <4>1 DEF Walks
        <4> QED BY <2>7, <4>1, <4>2 DEF Leads
      <3>2. CASE t = <<>>
        BY <3>2 DEF Leads
      <3> QED BY <3>1, <3>2
    <2> QED BY <1>1, <2>1, <2>2, <2>6, <2>8, <2>9 DEF Leaves, KeepsOf, Changing, Making
  <1> QED BY <1>3, <1>4

\* An account that is being completed has the initial deposit and no record yet.
LEMMA BuildLeaves ==
  ASSUME Typed, NEW w \in Threads, KeepsOf(w), Walks(undo[Of(w)]), Explains(history[Of(w)]),
         Build(w)
  PROVE  Leaves(w, Of(w))
  <1>1. /\ pc[w] \in Making /\ UNCHANGED <<balance, history, undo, call, job, mem>>
        /\ Of(w)' = Of(w) /\ pc'[w] \in {"history_made", "stack_made", "link", "hash"}
        /\ job[w].op = "create_account" /\ call[w].kind = "none"
    BY DEF Build, Of, Goto, Typed, ThreadsTyped, Making, Known, KnownOf
  <1>2. /\ history[Of(w)] = <<>> /\ undo[Of(w)] = <<>> /\ balance[Of(w)] = job[w].amount
    BY <1>1 DEF KeepsOf
  <1>3. \A n : Tells(<<>>, n) /\ Leads(<<>>, n)
    BY DEF Tells, Leads
  <1> QED BY <1>1, <1>2, <1>3 DEF Leaves, KeepsOf, Changing, Making

\* KeyErrors happen only where an account was met while it was being created.
LEMMA NoRaise ==
  ASSUME Typed, Building, Made, Standing, Alone, NEW w \in Threads, Of(w) \notin raced
  PROVE  ~Raise(w)
  <1> SUFFICES ASSUME Raise(w) PROVE FALSE
    OBVIOUS
  <1>1. /\ pc[w] \in {"link", "push"} /\ built[Of(w)] < 4 /\ pc[w] \in Changing
        /\ Of(w) \in Accounts /\ built[Of(w)] \in 0 .. 4
    BY DEF Raise, Changing, Typed, ThreadsTyped, CallTypes, Of, Building
  <1>2. built[Of(w)] \in {1, 2, 3}
    BY <1>1 DEF Standing, StandingOf
  <1>3. PICK v \in Threads : pc[v] \in Making /\ Of(v) = Of(w)
    BY <1>1, <1>2 DEF Made, Making
  <1> QED BY <1>1, <1>3 DEF Alone, At, Changing, Making

\* A thread at an account that no other thread met keeps its records in order.
LEMMA OwnLeaves ==
  ASSUME Typed, Building, Made, Standing, Alone, Keeps, NEW w \in Threads, Moves(w),
         pc[w] \in Changing, Of(w) \notin raced
  PROVE  Leaves(w, Of(w))
  <1>1. KeepsOf(w) /\ Walks(undo[Of(w)]) /\ Explains(history[Of(w)])
    BY ThreadFacts DEF Keeps
  <1>2. \/ ReadPrev(w) \/ ReadBalance(w) \/ Link(w) \/ Unlock(w) \/ WriteBalance(w) \/ Restore(w)
        \/ Prepend(w) \/ Push(w) \/ Pop(w) \/ Build(w) \/ Raise(w)
    BY DEF Moves, Step, Call, CallPosting, CallTransfer, CallFreeze, CallUndo, CallEnqueue,
       CallProcessQueue, CallApplyLoan, CallProcessLoan, CallCreate, Begins, Check, Lock, Hash,
       PrevHash, LastHash, AppendLog, Dequeue, Take, Changing
  <1> QED BY <1>1, <1>2, NoRaise, ReadLeaves, BalanceLeaves, PrependLeaves, PushLeaves, PopLeaves,
             BuildLeaves

\* The records of an account change only by a thread that is at it or creates it.
LEMMA Untouched ==
  ASSUME Typed, NEW w \in Threads, Moves(w), NEW a \in Accounts, ~At(w, a),
         \A j \in Jobs : CallCreate(w, j) => j.account # a
  PROVE  balance'[a] = balance[a] /\ history'[a] = history[a] /\ undo'[a] = undo[a]
  <1> USE DEF Typed, DataTyped, At, Changing
  <1>1. CASE WriteBalance(w) \/ Restore(w)
    BY <1>1 DEF WriteBalance, Restore, Restores
  <1>2. CASE Prepend(w) \/ Push(w)
    BY <1>2 DEF Prepend, Push, Pushes
  <1>3. CASE Pop(w)
    <2>1. CASE undo[Of(w)] = <<>>
      BY <1>3, <2>1 DEF Pop
    <2>2. CASE undo[Of(w)] # <<>>
      BY <1>3, <2>2 DEF Pop
    <2> QED BY <2>1, <2>2
  <1>4. ASSUME NEW j \in Jobs, CallCreate(w, j)
        PROVE  balance'[a] = balance[a] /\ history'[a] = history[a] /\ undo'[a] = undo[a]
    BY <1>4 DEF CallCreate
  <1>5. CASE UNCHANGED <<balance, history, undo>>
    BY <1>5
  <1>6. \/ WriteBalance(w) \/ Restore(w) \/ Prepend(w) \/ Push(w) \/ Pop(w)
        \/ \E j \in Jobs : CallCreate(w, j)
        \/ UNCHANGED <<balance, history, undo>>
    BY DEF Moves, Step, Call, CallPosting, CallTransfer, CallFreeze, CallUndo, CallEnqueue,
       CallProcessQueue, CallApplyLoan, CallProcessLoan, Check, Lock, ReadPrev, ReadBalance,
       Link, Unlock, Raise, Build, Hash, PrevHash, LastHash, AppendLog, Dequeue, Take, Remember,
       account
  <1> QED BY <1>1, <1>2, <1>3, <1>4, <1>5, <1>6

\* An account that a thread comes to is at rest or new.
LEMMA ComesKeeps ==
  ASSUME Typed, Building, Current, Made, Standing, Alone, Keeps, NEW w \in Threads, Moves(w),
         pc[w] \notin Changing, pc'[w] \in Changing, Of(w)' \notin raced'
  PROVE  KeepsOf(w)'
  <1>1. CASE Lock(w)
    <2>1. /\ Of(w)' = Of(w) /\ pc'[w] = "prev" /\ Of(w) \notin raced /\ Of(w) \in Accounts
          /\ \A v \in Threads : pc[v] \in Changing => Of(v) # Of(w)
      <3>1. Of(w)' = Of(w) /\ Of(w) \in Accounts
        BY <1>1 DEF Lock, Of, Typed, ThreadsTyped, CallTypes
      <3> QED BY <1>1, <3>1, LockFacts, RacedStays
    <2>2. Rests(Of(w))
      BY <2>1 DEF Keeps, AtRest
    <2>3. UNCHANGED <<balance, history, undo>>
      BY <1>1 DEF Lock, account
    <2> QED BY <2>1, <2>2, <2>3 DEF KeepsOf, Rests, Making
  <1>2. ASSUME NEW j \in Jobs, CallUndo(w, j) PROVE KeepsOf(w)'
    <2>1. /\ Of(w)' = j.account /\ pc'[w] = "pop" /\ j.account \in Accounts
          /\ UNCHANGED <<balance, history, undo>>
      BY <1>2, JobFacts DEF CallUndo, Begins, Goto, Of, Outer, Posting, Typed, ThreadsTyped, account
    <2>2. /\ j.account \notin raced
          /\ \A v \in Threads : pc[v] \in Changing => Of(v) # j.account
      BY <1>2, <2>1 DEF CallUndo, Enters
    <2>3. Rests(j.account)
      BY <2>1, <2>2 DEF Keeps, AtRest
    <2> QED BY <2>1, <2>3 DEF KeepsOf, Rests, Making
  <1>3. ASSUME NEW j \in Jobs, CallCreate(w, j) PROVE KeepsOf(w)'
    <2>1. /\ Of(w)' = j.account /\ pc'[w] = "lock_made" /\ j.account \in Accounts
          /\ job'[w] = j /\ built[j.account] = 0 /\ UNCHANGED <<history, undo>>
          /\ balance'[j.account] = j.amount
      BY <1>3, JobFacts DEF CallCreate, Begins, Goto, Of, Outer, Posting, Typed, ThreadsTyped,
         DataTyped
    <2>2. history[j.account] = <<>> /\ undo[j.account] = <<>>
      BY <2>1 DEF Keeps
    <2> QED BY <2>1, <2>2 DEF KeepsOf, Making
  <1> QED BY <1>1, <1>2, <1>3, ComesOrStays

\* A step of a thread keeps what history, balance and undo stack know of each other.
LEMMA MoveKeeps ==
  ASSUME Typed, Building, Current, Made, Standing, Alone, Keeps, NEW w \in Threads, Moves(w)
  PROVE  Keeps'
  <1>1. \A v \in Threads : v # w => /\ pc'[v] = pc[v] /\ job'[v] = job[v] /\ call'[v] = call[v]
                                    /\ mem'[v] = mem[v] /\ Of(v)' = Of(v)
    BY OthersStay DEF Moves, Typed, Of
  <1>2. raced \subseteq raced'
    BY RacedStays
  <1>3. \A v \in Threads : pc[v] \in Changing => Of(v) \in Accounts /\ built[Of(v)] >= 1
    BY ThreadFacts DEF Standing, StandingOf
  <1>4. ASSUME NEW j \in Jobs, CallCreate(w, j)
        PROVE  /\ built[j.account] = 0 /\ Of(w)' = j.account /\ pc'[w] \in Changing
               /\ UNCHANGED <<history, undo>> /\ pc[w] \notin Changing
    BY <1>4 DEF CallCreate, Begins, Goto, Of, Outer, Posting, Typed, ThreadsTyped, Changing
  <1>5. ASSUME NEW a \in Accounts, built'[a] = 0 PROVE history'[a] = <<>> /\ undo'[a] = <<>>
    <2>1. built[a] = 0
      BY <1>5, AccountsStay DEF Building
    <2>2. ~At(w, a)
      BY <1>3, <2>1 DEF At
    <2>3. CASE \A j \in Jobs : CallCreate(w, j) => j.account # a
      BY <2>1, <2>2, <2>3, Untouched DEF Keeps
    <2>4. CASE \E j \in Jobs : CallCreate(w, j)
      BY <1>4, <2>1, <2>4 DEF Keeps
    <2> QED BY <2>3, <2>4
  <1>6. ASSUME NEW a \in Accounts, a \notin raced'
        PROVE  Walks(undo'[a]) /\ Explains(history'[a]) /\ (AtRest(a)' => Rests(a)')
    <2>1. CASE At(w, a)
      <3>1. Leaves(w, a)
        BY <1>2, <1>6, <2>1, OwnLeaves DEF At
      <3>2. pc'[w] \in Changing => Of(w)' = a
        <4>1. ~Lock(w) /\ \A j \in Jobs : ~CallUndo(w, j) /\ ~CallCreate(w, j)
          BY <2>1 DEF At, Changing, Lock, CallUndo, CallCreate, Begins
        <4> QED BY <2>1, <4>1, ComesOrStays DEF At, Of
      <3> QED BY <3>1, <3>2 DEF Leaves, AtRest, Rests
    <2>2. CASE \E j \in Jobs : CallCreate(w, j) /\ j.account = a
      <3>1. UNCHANGED <<history, undo>> /\ ~AtRest(a)'
        BY <1>4, <2>2 DEF AtRest
      <3> QED BY <1>2, <1>6, <3>1 DEF Keeps
    <2>3. CASE ~At(w, a) /\ \A j \in Jobs : CallCreate(w, j) => j.account # a
      <3>1. balance'[a] = balance[a] /\ history'[a] = history[a] /\ undo'[a] = undo[a]
        BY <2>3, Untouched
      <3>2. AtRest(a)' => AtRest(a)
        BY <1>1, <2>3 DEF AtRest, At
      <3> QED BY <1>2, <1>6, <3>1, <3>2 DEF Keeps, Rests
    <2> QED BY <2>1, <2>2, <2>3
  <1>7. ASSUME NEW v \in Threads, v # w, Of(v)' \notin raced' PROVE KeepsOf(v)'
    <2>1. CASE pc[v] \notin Changing
      BY <1>1, <1>7, <2>1 DEF KeepsOf, Changing, Making
    <2>2. CASE pc[v] \in Changing
      <3>1. Of(v) \notin raced /\ ~At(w, Of(v))
        BY <1>1, <1>2, <1>7, <2>2 DEF Alone, At
      <3>2. \A j \in Jobs : CallCreate(w, j) => j.account # Of(v)
        BY <1>3, <1>4, <2>2
      <3>3. /\ balance'[Of(v)] = balance[Of(v)] /\ history'[Of(v)] = history[Of(v)]
            /\ undo'[Of(v)] = undo[Of(v)]
        BY <1>3, <2>2, <3>1, <3>2, Untouched
      <3>4. KeepsOf(v)
        BY <3>1 DEF Keeps
      <3>5. Change(v)' = Change(v)
        BY <1>1, <1>7 DEF Change, Recorded
      <3> QED BY <1>1, <1>7, <3>3, <3>4, <3>5 DEF KeepsOf
    <2> QED BY <2>1, <2>2
  <1>8. ASSUME Of(w)' \notin raced' PROVE KeepsOf(w)'
    <2>1. CASE pc'[w] \notin Changing
      BY <2>1 DEF KeepsOf, Changing, Making
    <2>2. CASE pc'[w] \in Changing /\ pc[w] \notin Changing
      BY <1>8, <2>2, ComesKeeps
    <2>3. CASE pc'[w] \in Changing /\ pc[w] \in Changing
      <3>1. ~Lock(w) /\ \A j \in Jobs : ~CallUndo(w, j) /\ ~CallCreate(w, j)
        BY <2>3 DEF Changing, Lock, CallUndo, CallCreate, Begins
      <3>2. Of(w)' = Of(w)
        BY <2>3, <3>1, ComesOrStays DEF Of
      <3> QED BY <1>2, <1>8, <2>3, <3>2, OwnLeaves DEF Leaves
    <2> QED BY <2>1, <2>2, <2>3
  <1> QED BY <1>5, <1>6, <1>7, <1>8 DEF Keeps

\* It holds at the start, for the seeded accounts and those still to come.
LEMMA KeptInit == Init => Kept
  <1> SUFFICES ASSUME Init PROVE Kept
    OBVIOUS
  <1>1. Paid
    BY PaidInit
  <1>2. Made /\ Standing /\ Alone
    BY DEF Init, Made, Standing, StandingOf, Alone, At, Changing, Holds
  <1>3. \A a \in Accounts : built[a] = 0 => history[a] = <<>> /\ undo[a] = <<>>
    BY DEF Init
  <1>4. \A w \in Threads : KeepsOf(w)
    BY DEF Init, KeepsOf, Making
  <1>5. ASSUME NEW a \in Accounts PROVE Walks(undo[a]) /\ Explains(history[a]) /\ Rests(a)
    <2>1. CASE a \notin Seeded
      <3>1. undo[a] = <<>> /\ history[a] = <<>>
        BY <2>1 DEF Init
      <3>2. Walks(<<>>) /\ Explains(<<>>) /\ \A n : Leads(<<>>, n) /\ Tells(<<>>, n)
        BY DEF Walks, Explains, Leads, Tells
      <3> QED BY <3>1, <3>2 DEF Rests
    <2>2. CASE a \in Seeded
      <3> DEFINE x == Opening[a]
                 y == Credited[a]
      <3>1. /\ undo[a] = SeedUndo(a) /\ history[a] = SeedHistory(a) /\ balance[a] = x + y
            /\ x \in Nat /\ y \in Nat
        BY <2>2, AccountsAssumption DEF Init
      <3>2. Signed("deposit", y) = y
        BY DEF Signed
      <3>3. Walks(undo[a]) /\ Leads(undo[a], balance[a])
        <4>1. CASE y > 0
          <5>1. undo[a] = <<[type |-> "deposit", amount |-> y, prev |-> x]>>
            BY <3>1, <4>1 DEF SeedUndo
          <5> QED BY <3>1, <3>2, <5>1 DEF Walks, Leads, Result
        <4>2. CASE ~(y > 0)
          <5>1. undo[a] = <<>>
            BY <3>1, <4>2 DEF SeedUndo
          <5> QED BY <5>1 DEF Walks, Leads
        <4> QED BY <4>1, <4>2
      <3>4. Explains(history[a]) /\ Tells(history[a], balance[a])
        <4> DEFINE late == Entry("deposit", y, x + y)
                   early == Entry("deposit", x, x)
        <4>1. /\ late.after = x + y /\ late.type = "deposit" /\ late.amount = y
              /\ early.after = x
          BY DEF Entry
        <4>2. SeedHistory(a) = (IF y > 0 THEN <<late>> ELSE <<>>) \o (IF x > 0 THEN <<early>> ELSE <<>>)
          BY DEF SeedHistory
        <4> HIDE DEF late, early
        <4>3. CASE y > 0 /\ x > 0
          <5>1. history[a] = <<late>> \o <<early>>
            BY <3>1, <4>2, <4>3
          <5>2. Len(history[a]) = 2 /\ history[a][1] = late /\ history[a][2] = early
            BY <5>1
          <5> QED BY <3>1, <3>2, <4>1, <5>2 DEF Explains, Tells
        <4>4. CASE y > 0 /\ ~(x > 0)
          <5>1. history[a] = <<late>> \o <<>>
            BY <3>1, <4>2, <4>4
          <5>2. Len(history[a]) = 1 /\ history[a][1] = late
            BY <5>1
          <5> QED BY <3>1, <4>1, <5>2 DEF Explains, Tells
        <4>5. CASE ~(y > 0) /\ x > 0
          <5>1. history[a] = <<>> \o <<early>>
            BY <3>1, <4>2, <4>5
          <5>2. Len(history[a]) = 1 /\ history[a][1] = early
            BY <5>1
          <5>3. y = 0
            BY <3>1, <4>5
          <5> QED BY <3>1, <4>1, <5>2, <5>3 DEF Explains, Tells
        <4>6. CASE ~(y > 0) /\ ~(x > 0)
          <5>1. history[a] = <<>>
            BY <3>1, <4>2, <4>6
          <5> QED BY <5>1 DEF Explains, Tells
        <4> QED BY <4>3, <4>4, <4>5, <4>6
      <3> QED BY <3>3, <3>4 DEF Rests
    <2> QED BY <2>1, <2>2
  <1> QED BY <1>1, <1>2, <1>3, <1>4, <1>5 DEF Kept, Keeps

\* And no step breaks it.
LEMMA KeptNext == Kept /\ [Next]_vars => Kept'
  <1> SUFFICES ASSUME Kept, [Next]_vars PROVE Kept'
    OBVIOUS
  <1>1. Paid'
    BY PaidNext DEF Kept
  <1>2. ASSUME NEW w \in Threads, Moves(w) PROVE Kept'
    BY <1>1, <1>2, MoveMade, MoveStanding, MoveAlone, MoveKeeps DEF Kept, Paid, Inv
  <1>3. CASE UNCHANGED vars
    <2>1. UNCHANGED <<built, balance, history, undo, lock, pc, job, call, mem, raced>>
      BY <1>3 DEF vars, account, ghosts
    <2>2. Made' /\ Standing' /\ Alone'
      BY <2>1 DEF Kept, Made, Standing, StandingOf, Alone, At, Of
    <2>3. Keeps'
      BY <2>1 DEF Kept, Keeps, KeepsOf, Change, Recorded, AtRest, Rests, Of
    <2> QED BY <1>1, <2>2, <2>3 DEF Kept
  <1> QED BY <1>2, <1>3 DEF Next, Moves

\* Undoing operation after operation walks back through the balances the account had,
\* unless an undo or the creation of the account met another change
\* (undo_last_transaction of services/banking_service.py).
THEOREM UndoWalksBack == Spec => []UndoRestores
  <1>1. Kept => UndoRestores
    BY DEF Kept, Keeps, Rests, Walks, Leads, Result, UndoRestores
  <1> QED BY KeptInit, KeptNext, <1>1, PTL DEF Spec

\* The history of an account explains its balance, under the same proviso
\* (_record_transaction of services/banking_service.py).
THEOREM HistoryIsExact == Spec => []HistoryExplainsBalance
  <1>1. Kept => HistoryExplainsBalance
    BY DEF Kept, Keeps, Rests, Explains, Tells, HistoryExplainsBalance
  <1> QED BY KeptInit, KeptNext, <1>1, PTL DEF Spec

-----------------------------------------------------------------------------
(* Money *)

\* A transfer that has taken its amount from one account and has neither posted it
\* to the other nor given it up.
InTransit(w) ==
  /\ job[w].op = "transfer"
  /\ \/ call[w].kind = "withdrawal"
        /\ pc[w] \in {"link", "prepend", "push", "unlock", "hash"} \cup Auditing
     \/ call[w].kind = "deposit" /\ pc[w] \in {"check", "lock", "prev", "read", "write"}

\* What it carries.
Load(w) == IF InTransit(w) THEN call[w].amount ELSE 0
Carried == [w \in Threads |-> Load(w)]

\* The two halves of a transfer have one amount.
Halves == \A w \in Threads :
  job[w].op = "transfer" /\ call[w].kind # "none" => call[w].amount = job[w].amount

\* An account that is not there has no money.
Empty == \A a \in Accounts : built[a] = 0 => balance[a] = 0

\* Money is in an account or on its way to one.
Balanced ==
  /\ net \in Int /\ lost \in Int
  /\ raced = {} => Total(balance, Accounts) + Total(Carried, Threads) = net - lost

Conserved == Kept /\ Halves /\ Empty /\ Balanced

\* Steps that move no money: what the thread carries stays the same.
LEMMA QuietMoney ==
  ASSUME Typed, Halves, NEW w \in Threads, Moves(w)
  PROVE  \/ WriteBalance(w) \/ Restore(w) \/ Raise(w) \/ (Check(w) /\ Refused(call[w]))
         \/ \E j \in Jobs : CallCreate(w, j)
         \/ UNCHANGED <<balance, net, lost>> /\ Load(w)' = Load(w)
  <1> USE DEF Typed, ThreadsTyped, Goto, Load, InTransit, Auditing
  <1>1. KnownOf(w)
    BY DEF Known
  <1>2. ASSUME NEW j \in Jobs, Call(w, j), ~CallCreate(w, j)
        PROVE  UNCHANGED <<balance, net, lost>> /\ Load(w)' = Load(w)
    <2>1. UNCHANGED <<balance, net, lost>> /\ pc[w] = "idle"
      BY <1>2 DEF Call, CallPosting, CallTransfer, CallFreeze, CallUndo, CallEnqueue,
         CallProcessQueue, CallApplyLoan, CallProcessLoan, Begins, ghosts, account
    <2>2. CASE CallEnqueue(w, j)
      BY <2>1, <2>2 DEF CallEnqueue
    <2>3. CASE CallTransfer(w, j)
      <3>1. pc'[w] = "check" /\ call'[w].kind = "withdrawal"
        BY <2>3 DEF CallTransfer, Begins, Posting
      <3> QED BY <2>1, <3>1
    <2>4. CASE ~CallEnqueue(w, j) /\ ~CallTransfer(w, j)
      <3>1. job'[w].op # "transfer"
        BY <1>2, <2>4 DEF Call, CallPosting, CallFreeze, CallUndo, CallProcessQueue,
           CallApplyLoan, CallProcessLoan, Begins
      <3> QED BY <2>1, <3>1
    <2> QED BY <2>2, <2>3, <2>4
  <1>3. CASE Check(w) /\ ~Refused(call[w])
    BY <1>3 DEF Check, ghosts, account
  <1>4. CASE \/ Lock(w) \/ ReadPrev(w) \/ ReadBalance(w) \/ Link(w) \/ Push(w) \/ Unlock(w)
             \/ Hash(w) \/ PrevHash(w) \/ LastHash(w)
    BY <1>4 DEF Lock, ReadPrev, ReadBalance, Link, Push, Pushes, Unlock, Hash, PrevHash,
       LastHash, Remember, ghosts, account
  <1>5. CASE Prepend(w)
    <2>1. /\ pc[w] = "prepend" /\ pc'[w] = IF call[w].kind = "none" THEN "hash" ELSE "push"
          /\ UNCHANGED <<balance, net, lost, job, call>>
      BY <1>5 DEF Prepend, ghosts
    <2> QED BY <2>1
  <1>6. CASE Pop(w) \/ Build(w) \/ Dequeue(w) \/ Take(w)
    <2>1. job[w].op # "transfer" /\ UNCHANGED <<balance, net, lost>>
      BY <1>1, <1>6 DEF KnownOf, Pop, Build, Dequeue, Take, Making, ghosts, account
    <2>2. job'[w].op # "transfer"
      BY <1>6, <2>1, IdleFacts DEF Pop, Build, Dequeue, Take, Return, Continue
    <2> QED BY <2>1, <2>2
  <1>7. CASE AppendLog(w)
    <2>1. pc[w] = "append" /\ Resume(w, TRUE) /\ UNCHANGED <<balance, net, lost>>
      BY <1>7 DEF AppendLog, ghosts, account
    <2>2. CASE job[w].op = "transfer" /\ call[w].kind = "withdrawal"
      <3>1. Continue(w, "check", Posting("deposit", job[w].target, job[w].amount))
        BY <2>1, <2>2 DEF Resume
      <3>2. /\ job' = job /\ pc'[w] = "check"
            /\ call'[w].kind = "deposit" /\ call'[w].amount = job[w].amount
        BY <3>1 DEF Continue, Posting
      <3>3. call[w].amount = job[w].amount
        BY <2>2 DEF Halves
      <3> QED BY <2>1, <2>2, <3>2, <3>3
    <2>3. CASE job[w].op = "transfer" /\ call[w].kind # "withdrawal"
      <3>1. Continue(w, "hash", NoCall) \/ Return(w)
        BY <2>1, <2>3 DEF Resume
      <3>2. call'[w].kind = "none"
        BY <3>1, IdleFacts DEF Continue, Return
      <3> QED BY <2>1, <2>3, <3>2
    <2>4. CASE job[w].op # "transfer"
      <3>1. job'[w].op # "transfer"
        BY <2>1, <2>4, IdleFacts DEF Resume, Continue, Return
      <3> QED BY <2>1, <2>4, <3>1
    <2> QED BY <2>2, <2>3, <2>4
  <1> QED BY <1>2, <1>3, <1>4, <1>5, <1>6, <1>7 DEF Moves, Step

\* A call goes on with the amount it was made for.
LEMMA MoveHalves ==
  ASSUME Typed, Halves, NEW w \in Threads, Moves(w)
  PROVE  Halves'
  <1> USE DEF Typed, ThreadsTyped, Goto
  <1> DEFINE Same == job'[w].op = "transfer" /\ call'[w].kind # "none" =>
                       call'[w].amount = job'[w].amount
  <1>1. KnownOf(w)
    BY DEF Known
  <1>2. ASSUME NEW j \in Jobs, Call(w, j) PROVE Same
    <2>1. CASE CallEnqueue(w, j)
      BY <2>1 DEF CallEnqueue, Halves
    <2>2. CASE CallTransfer(w, j)
      BY <2>2 DEF CallTransfer, Begins, Posting
    <2>3. CASE ~CallEnqueue(w, j) /\ ~CallTransfer(w, j)
      <3>1. job'[w].op # "transfer"
        BY <1>2, <2>3 DEF Call, CallPosting, CallFreeze, CallUndo, CallProcessQueue,
           CallApplyLoan, CallProcessLoan, CallCreate, Begins
      <3> QED BY <3>1
    <2> QED BY <2>1, <2>2, <2>3
  <1>3. ASSUME NEW ok, Resume(w, ok) PROVE Same
    <2>1. CASE Continue(w, "check", Posting("deposit", job[w].target, job[w].amount))
      BY <2>1 DEF Continue, Posting
    <2>2. CASE Return(w) \/ \E label : Continue(w, label, NoCall)
      <3>1. call'[w].kind = "none"
        BY <2>2, IdleFacts DEF Continue, Return
      <3> QED BY <3>1
    <2> QED BY <1>3, <2>1, <2>2 DEF Resume
  <1>4. ASSUME Dequeue(w) \/ Take(w) PROVE Same
    <2>1. job[w].op # "transfer"
      BY <1>1, <1>4 DEF KnownOf, Dequeue, Take
    <2>2. job'[w].op # "transfer"
      BY <1>4, <2>1, IdleFacts DEF Dequeue, Take, Return, Continue
    <2> QED BY <2>2
  <1>5. ASSUME Return(w) PROVE Same
    <2>1. job'[w].op = "none"
      BY <1>5, IdleFacts DEF Return
    <2> QED BY <2>1
  <1>6. ASSUME UNCHANGED <<job, call>> PROVE Same
    BY <1>6 DEF Halves
  <1>7. \/ \E j \in Jobs : Call(w, j)
        \/ Resume(w, TRUE) \/ Resume(w, FALSE) \/ Dequeue(w) \/ Take(w) \/ Return(w)
        \/ UNCHANGED <<job, call>>
    BY DEF Moves, Step, Check, Lock, ReadPrev, ReadBalance, WriteBalance, Link, Prepend, Push,
       Pushes, Unlock, Raise, Pop, Restore, Restores, Build, Hash, PrevHash, LastHash,
       AppendLog, Remember
  <1>8. Same
    BY <1>2, <1>3, <1>4, <1>5, <1>6, <1>7
  <1>9. \A v \in Threads : v # w => job'[v] = job[v] /\ call'[v] = call[v]
    BY OthersStay DEF Moves
  <1> QED BY <1>8, <1>9 DEF Halves

\* Nobody puts money into an account that is not there.
LEMMA MoveEmpty ==
  ASSUME Typed, Building, Standing, Empty, NEW w \in Threads, Moves(w)
  PROVE  Empty'
  <1> SUFFICES ASSUME NEW a \in Accounts, built'[a] = 0 PROVE balance'[a] = 0
    BY DEF Empty
  <1>1. built[a] = 0
    BY AccountsStay DEF Building
  <1>2. ~At(w, a)
    BY <1>1 DEF Standing, StandingOf, At
  <1>3. \A j \in Jobs : CallCreate(w, j) => j.account # a
    BY <1>1 DEF CallCreate, Building
  <1> QED BY <1>1, <1>2, <1>3, Untouched DEF Empty

\* What came in and what was lost are numbers.
LEMMA MoveNumbers ==
  ASSUME Typed, net \in Int, lost \in Int, NEW w \in Threads, Moves(w)
  PROVE  net' \in Int /\ lost' \in Int
  <1>1. call[w].amount \in Int
    BY DEF Typed, ThreadsTyped, CallTypes
  <1>2. CASE WriteBalance(w)
    <2>1. pc[w] = "write" /\ pc[w] \in Changing /\ call[w].kind # "none"
      BY <1>2 DEF WriteBalance, Changing, Typed, Known, KnownOf, Postings
    <2>2. Signed(call[w].kind, call[w].amount) \in Int
      BY <2>1, ThreadFacts
    <2> QED BY <1>2, <2>2 DEF WriteBalance
  <1>3. CASE Restore(w)
    <2>1. mem[w].prev \in Int /\ balance[Of(w)] \in Int
      BY <1>3, ThreadFacts DEF Restore, Restores, Changing
    <2> QED BY <1>3, <2>1 DEF Restore, Restores
  <1>4. CASE Check(w)
    <2>1. net' = net /\ (lost' = lost + call[w].amount \/ lost' = lost)
      BY <1>4 DEF Check
    <2> QED BY <1>1, <2>1
  <1>5. ASSUME NEW j \in Jobs, CallCreate(w, j) PROVE net' \in Int /\ lost' \in Int
    BY <1>5, JobFacts DEF CallCreate
  <1>6. \/ WriteBalance(w) \/ Restore(w) \/ Check(w) \/ \E j \in Jobs : CallCreate(w, j)
        \/ UNCHANGED <<net, lost>>
    BY DEF Moves, Step, Call, CallPosting, CallTransfer, CallFreeze, CallUndo, CallEnqueue,
       CallProcessQueue, CallApplyLoan, CallProcessLoan, Lock, ReadPrev, ReadBalance, Link,
       Prepend, Push, Pushes, Unlock, Raise, Pop, Build, Hash, PrevHash, LastHash, AppendLog,
       Dequeue, Take, Remember, ghosts
  <1> QED BY <1>2, <1>3, <1>4, <1>5, <1>6

\* What a step does to the accounts and to what its thread carries is what came in, or
\* was lost.
LEMMA MoneyMoves ==
  ASSUME Kept, Halves, Empty, net \in Int, lost \in Int, NEW w \in Threads, Moves(w),
         raced' = {}
  PROVE  \E a \in Accounts :
           /\ \A x \in Accounts : x # a => balance'[x] = balance[x]
           /\ (balance'[a] - balance[a]) + (Load(w)' - Load(w)) = (net' - lost') - (net - lost)
  <1>1. /\ Typed /\ KnownOf(w) /\ Building /\ Made /\ Standing /\ Alone /\ raced = {}
        /\ KeepsOf(w) /\ Of(w) \in Accounts /\ call[w] \in CallTypes /\ call[w].amount \in Int
        /\ \A a \in Accounts : balance[a] \in Int
    <2>1. Of(w) \in Accounts /\ call[w] \in CallTypes /\ call[w].amount \in Int
      BY DEF Kept, Paid, Inv, Typed, ThreadsTyped, CallTypes, Of
    <2>2. raced = {}
      BY RacedStays
    <2> QED BY <2>1, <2>2 DEF Kept, Paid, Inv, Keeps, Typed, Known, DataTyped
  <1>2. CASE WriteBalance(w)
    <2> DEFINE change == Signed(call[w].kind, call[w].amount)
    <2>1. /\ pc[w] = "write" /\ pc'[w] = "link" /\ job' = job /\ call' = call /\ lost' = lost
          /\ net' = IF job[w].op = "transfer" THEN net ELSE net + change
          /\ mem[w].base = balance[Of(w)]
      BY <1>1, <1>2 DEF WriteBalance, Goto, KeepsOf, Typed, ThreadsTyped
    <2>2. balance' = [balance EXCEPT ![Of(w)] = balance[Of(w)] + change]
      BY <1>2, <2>1 DEF WriteBalance
    <2>3. call[w].kind \in {"deposit", "withdrawal"} /\ change \in Int
      <3>1. pc[w] \in Changing /\ call[w].kind # "none"
        BY <1>1, <2>1 DEF Changing, KnownOf, Postings
      <3> QED BY <1>1, <3>1, ThreadFacts
    <2>4. (Load(w)' - Load(w)) = IF job[w].op = "transfer" THEN 0 - change ELSE 0
      <3>1. CASE job[w].op = "transfer" /\ call[w].kind = "deposit"
        <4>1. Load(w)' = 0 /\ Load(w) = call[w].amount
          BY <2>1, <3>1 DEF Load, InTransit, Auditing
        <4> QED BY <1>1, <3>1, <4>1 DEF Signed
      <3>2. CASE job[w].op = "transfer" /\ call[w].kind = "withdrawal"
        <4>1. Load(w)' = call[w].amount /\ Load(w) = 0
          BY <2>1, <3>2 DEF Load, InTransit, Auditing
        <4> QED BY <1>1, <3>2, <4>1 DEF Signed
      <3>3. CASE job[w].op # "transfer"
        BY <2>1, <3>3 DEF Load, InTransit
      <3> QED BY <2>3, <3>1, <3>2, <3>3
    <2>5. /\ balance'[Of(w)] = balance[Of(w)] + change
          /\ \A x \in Accounts : x # Of(w) => balance'[x] = balance[x]
      BY <1>1, <2>2 DEF Typed, DataTyped
    <2> HIDE DEF change
    <2>6. (balance'[Of(w)] - balance[Of(w)]) + (Load(w)' - Load(w)) = (net' - lost') - (net - lost)
      BY <1>1, <2>1, <2>3, <2>4, <2>5
    <2> QED BY <1>1, <2>5, <2>6
  <1>3. CASE Restore(w)
    <2>1. /\ pc[w] = "restore" /\ UNCHANGED <<job, lost>>
          /\ balance' = [balance EXCEPT ![Of(w)] = mem[w].prev]
          /\ net' = net + mem[w].prev - balance[Of(w)]
      BY <1>3 DEF Restore, Restores
    <2>2. job[w].op # "transfer" /\ mem[w].prev \in Int
      BY <1>1, <2>1, ThreadFacts DEF KnownOf, Changing
    <2>3. Load(w)' = 0 /\ Load(w) = 0
      BY <2>1, <2>2 DEF Load, InTransit
    <2>4. /\ balance'[Of(w)] = mem[w].prev
          /\ \A x \in Accounts : x # Of(w) => balance'[x] = balance[x]
      BY <1>1, <2>1 DEF Typed, DataTyped
    <2>5. (balance'[Of(w)] - balance[Of(w)]) + (Load(w)' - Load(w)) = (net' - lost') - (net - lost)
      BY <1>1, <2>1, <2>2, <2>3, <2>4
    <2> QED BY <1>1, <2>4, <2>5
  <1>4. ASSUME NEW j \in Jobs, CallCreate(w, j)
        PROVE  \E a \in Accounts :
                 /\ \A x \in Accounts : x # a => balance'[x] = balance[x]
                 /\ (balance'[a] - balance[a]) + (Load(w)' - Load(w))
                      = (net' - lost') - (net - lost)
    <2>1. /\ pc[w] = "idle" /\ lost' = lost /\ net' = net + j.amount
          /\ balance' = [balance EXCEPT ![j.account] = j.amount]
          /\ j.op = "create_account" /\ job'[w] = j /\ built[j.account] = 0
      BY <1>1, <1>4 DEF CallCreate, Begins, Typed, ThreadsTyped
    <2>2. j.account \in Accounts /\ j.amount \in Int /\ balance[j.account] = 0
      BY <2>1, JobFacts DEF Empty
    <2>3. Load(w)' = 0 /\ Load(w) = 0
      BY <2>1 DEF Load, InTransit, Auditing
    <2>4. /\ balance'[j.account] = j.amount
          /\ \A x \in Accounts : x # j.account => balance'[x] = balance[x]
      BY <1>1, <2>1, <2>2 DEF Typed, DataTyped
    <2>5. (balance'[j.account] - balance[j.account]) + (Load(w)' - Load(w))
            = (net' - lost') - (net - lost)
      BY <2>1, <2>2, <2>3, <2>4
    <2> QED BY <2>2, <2>4, <2>5
  <1>5. CASE Check(w) /\ Refused(call[w])
    <2>1. /\ pc[w] = "check" /\ Resume(w, FALSE) /\ UNCHANGED <<balance, net>>
          /\ lost' = IF job[w].op = "transfer" /\ call[w].kind = "deposit"
                     THEN lost + call[w].amount ELSE lost
      BY <1>5 DEF Check, account
    <2>2. call[w].kind \in {"deposit", "withdrawal"}
      BY <1>1, <2>1 DEF KnownOf, Postings, CallTypes, Kinds
    <2>3. Load(w)' = 0
      <3>1. CASE job[w].op = "transfer"
        <4>1. Continue(w, "hash", NoCall) \/ Return(w)
          BY <2>1, <2>2, <3>1 DEF Resume
        <4>2. call'[w].kind = "none"
          BY <1>1, <4>1, IdleFacts DEF Continue, Return, Typed, ThreadsTyped
        <4> QED BY <4>2 DEF Load, InTransit
      <3>2. CASE job[w].op # "transfer"
        <4>1. job'[w].op # "transfer"
          BY <1>1, <2>1, <3>2, IdleFacts DEF Resume, Continue, Return, Typed, ThreadsTyped
        <4> QED BY <4>1 DEF Load, InTransit
      <3> QED BY <3>1, <3>2
    <2>4. Load(w) = IF job[w].op = "transfer" /\ call[w].kind = "deposit"
                    THEN call[w].amount ELSE 0
      BY <2>1, <2>2 DEF Load, InTransit, Auditing
    <2>5. (balance'[Of(w)] - balance[Of(w)]) + (Load(w)' - Load(w)) = (net' - lost') - (net - lost)
      BY <1>1, <2>1, <2>3, <2>4
    <2> QED BY <1>1, <2>1, <2>5
  <1>6. CASE UNCHANGED <<balance, net, lost>> /\ Load(w)' = Load(w)
    <2>1. Load(w) \in Int
      BY <1>1 DEF Load
    <2>2. (balance'[Of(w)] - balance[Of(w)]) + (Load(w)' - Load(w)) = (net' - lost') - (net - lost)
      BY <1>1, <1>6, <2>1
    <2> QED BY <1>1, <1>6, <2>2
  <1>7. ~Raise(w)
    BY <1>1, NoRaise
  <1> QED BY <1>1, <1>2, <1>3, <1>4, <1>5, <1>6, <1>7, QuietMoney

\* So money is in an account or on its way to one, as long as nothing raced.
LEMMA MoveBalanced ==
  ASSUME Conserved, Kept', NEW w \in Threads, Moves(w)
  PROVE  Balanced'
  <1>1. net' \in Int /\ lost' \in Int /\ net \in Int /\ lost \in Int
    BY MoveNumbers DEF Conserved, Balanced, Kept, Paid, Inv
  <1>2. ASSUME raced' = {}
        PROVE  Total(balance', Accounts) + Total(Carried', Threads) = net' - lost'
    <2>1. PICK a \in Accounts :
            /\ \A x \in Accounts : x # a => balance'[x] = balance[x]
            /\ (balance'[a] - balance[a]) + (Load(w)' - Load(w)) = (net' - lost') - (net - lost)
      BY <1>1, <1>2, MoneyMoves DEF Conserved
    <2>2. balance \in [Accounts -> Int] /\ balance' \in [Accounts -> Int]
      BY DEF Conserved, Kept, Paid, Inv, Typed, DataTyped
    <2>3. \A v \in Threads : call[v].amount \in Int /\ call'[v].amount \in Int
      BY DEF Conserved, Kept, Paid, Inv, Typed, ThreadsTyped, CallTypes
    <2>4. \A v \in Threads : Load(v) \in Int /\ Load(v)' \in Int
      BY <2>3 DEF Load
    <2>5. /\ Carried \in [Threads -> Int] /\ Carried' \in [Threads -> Int]
          /\ Carried[w] = Load(w) /\ Carried'[w] = Load(w)'
      BY <2>4 DEF Carried
    <2>6. \A v \in Threads : v # w => Carried'[v] = Carried[v]
      <3>1. \A v \in Threads : v # w => Load(v)' = Load(v)
        BY OthersStay DEF Conserved, Kept, Paid, Inv, Typed, Moves, Load, InTransit
      <3> QED BY <3>1 DEF Carried
    <2>7. /\ Total(balance, Accounts) \in Int
          /\ Total(balance', Accounts) = Total(balance, Accounts) + (balance'[a] - balance[a])
      BY <2>1, <2>2, AccountsAssumption, TotalChange
    <2>8. /\ Total(Carried, Threads) \in Int
          /\ Total(Carried', Threads) = Total(Carried, Threads) + (Load(w)' - Load(w))
      BY <2>5, <2>6, ThreadsAssumption, TotalChange
    <2>9. Total(balance, Accounts) + Total(Carried, Threads) = net - lost
      BY <1>2, RacedStays DEF Conserved, Balanced
    <2>10. Load(w) \in Int /\ Load(w)' \in Int /\ balance[a] \in Int /\ balance'[a] \in Int
      BY <2>2, <2>4
    <2> QED BY <1>1, <2>1, <2>7, <2>8, <2>9, <2>10
  <1> QED BY <1>1, <1>2 DEF Balanced

\* At first nothing is on its way.
LEMMA ConservedInit == Init => Conserved
  <1> SUFFICES ASSUME Init PROVE Conserved
    OBVIOUS
  <1>1. Kept
    BY KeptInit
  <1>2. Halves /\ Empty
    BY IdleFacts DEF Init, Halves, Empty
  <1>3. \A w \in Threads : Carried[w] = 0
    BY IdleFacts DEF Init, Carried, Load, InTransit
  <1>4. Total(Carried, Threads) = 0
    BY <1>3, ThreadsAssumption, TotalOfZeros
  <1>5. net = Total(balance, Accounts) /\ lost = 0
    BY DEF Init, Total
  <1>6. Total(balance, Accounts) \in Int
    BY <1>1, AccountsAssumption, TotalChange DEF Kept, Paid, Inv, Typed, DataTyped
  <1> QED BY <1>1, <1>2, <1>4, <1>5, <1>6 DEF Conserved, Balanced

\* Every step of the service keeps Conserved.
LEMMA ConservedNext == Conserved /\ [Next]_vars => Conserved'
  <1> SUFFICES ASSUME Conserved, [Next]_vars PROVE Conserved'
    OBVIOUS
  <1>1. Kept'
    BY KeptNext DEF Conserved
  <1>2. ASSUME NEW w \in Threads, Moves(w) PROVE Conserved'
    <2>1. Halves' /\ Empty'
      BY <1>2, MoveHalves, MoveEmpty DEF Conserved, Kept, Paid, Inv
    <2> QED BY <1>1, <1>2, <2>1, MoveBalanced DEF Conserved
  <1>3. CASE UNCHANGED vars
    <2>1. UNCHANGED <<built, balance, pc, job, call, raced, net, lost>>
      BY <1>3 DEF vars, account, ghosts
    <2>2. Halves' /\ Empty'
      BY <2>1 DEF Conserved, Halves, Empty
    <2>3. Carried' = Carried
      BY <2>1 DEF Carried, Load, InTransit
    <2>4. Balanced'
      BY <2>1, <2>3 DEF Conserved, Balanced
    <2> QED BY <1>1, <2>2, <2>4 DEF Conserved
  <1> QED BY <1>2, <1>3 DEF Next, Moves

\* When no call is under way, the accounts hold what came in less what went out and less
\* the transfers that were withdrawn and then refused by the target, unless an undo or
\* the creation of an account met another change (deposit, withdraw, transfer and
\* undo_last_transaction of services/banking_service.py).
THEOREM MoneyIsKept == Spec => []MoneyIsConserved
  <1>1. Conserved => MoneyIsConserved
    <2> SUFFICES ASSUME Conserved, \A w \in Threads : pc[w] = "idle", raced = {}
                 PROVE  Total(balance, Accounts) = net - lost
      BY DEF MoneyIsConserved, Total
    <2>1. \A w \in Threads : Carried[w] = 0
      BY DEF Carried, Load, InTransit, Auditing
    <2>2. Total(Carried, Threads) = 0
      BY <2>1, ThreadsAssumption, TotalOfZeros
    <2>3. Total(balance, Accounts) \in Int
      BY AccountsAssumption, TotalChange DEF Conserved, Kept, Paid, Inv, Typed, DataTyped
    <2> QED BY <2>2, <2>3 DEF Conserved, Balanced
  <1> QED BY ConservedInit, ConservedNext, <1>1, PTL DEF Spec
=============================================================================
