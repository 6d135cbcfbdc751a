---------------------- MODULE IntegrationMessages_proof ----------------------
(* The inductive invariant of the integration API and what follows from it. *)
EXTENDS IntegrationMessages, TLAPS

\* Who owns a row: only the request that inserted it is past "begin" with a
\* row, so its handler alone may store, call and finish.
Ownership ==
    \A r \in Request :
        /\ pc[r] \in {"idle", "begin", "find"} => log[r] = NoRow
        /\ pc[r] \in {"work", "await", "settle"} =>
               log[r] \in {"RECEIVED", "DISPATCHED"}
        /\ pc[r] = "fail" =>
               log[r] \in {"RECEIVED", "DISPATCHED", "ACCEPTED", "SUCCEEDED"}

\* Effects come after the row, and what a handler is about to report is done.
EffectOrder ==
    \A r \in Request :
        /\ Effected(r) => log[r] # NoRow
        /\ r \in stored => req[r].op = "results"
        /\ calls[r] # "none" => req[r].op = "invoke"
        /\ pc[r] = "work" => ~Effected(r)
        /\ pc[r] = "settle" /\ req[r].op = "results" =>
               r \in stored \/ req[r].cap \notin ResultTarget
        /\ pc[r] \in {"await", "settle"} /\ req[r].op = "invoke" => calls[r] # "none"
        /\ pc[r] = "await" => req[r].op = "invoke"
        /\ pc[r] = "settle" /\ req[r].op = "invoke" => calls[r] = "executed"
        /\ log[r] \in {"RECEIVED", "ACCEPTED", "REJECTED"} => req[r].op = "results"
        /\ log[r] \in {"DISPATCHED", "SUCCEEDED", "FAILED"} => req[r].op = "invoke"

Answered == \A r \in Request : answer[r].kind # "none" => pc[r] = "done"

IInv ==
    /\ TypeOK
    /\ OneRowPerKey
    /\ Ownership
    /\ EffectOrder
    /\ SuccessIsBacked
    /\ Answered
    /\ FreshAnswerIsDurable

------------------------------------------------------------------------------
(* The invariant holds initially and is kept by every step of one handler.  *)

LEMMA InitIInv == Init => IInv
  BY CapabilityAssumption
  DEF Init, IInv, TypeOK, OneRowPerKey, Ownership, EffectOrder, SuccessIsBacked,
      Answered, FreshAnswerIsDurable, Effected, NoAnswer, NoRow, AnswerKind, Awaiting

\* Inserting a row: the unique constraint gives OneRowPerKey.
LEMMA BeginKeepsIInv ==
  ASSUME IInv, NEW r \in Request, BeginMessage(r)
  PROVE  IInv'
<1> USE DEF IInv, BeginMessage, Goto, Reply, Opened, NoRow
<1>1. TypeOK'
  BY DEF TypeOK, Status, Awaiting, AnswerKind
<1>2. OneRowPerKey'
  BY DEF OneRowPerKey, KeyFree, KeyOf, Flow, TypeOK, Status
<1>3. Ownership'
  BY DEF Ownership, TypeOK
<1>4. EffectOrder'
  BY DEF EffectOrder, TypeOK, Body, Effected, Ownership
<1>5. SuccessIsBacked' /\ Answered' /\ FreshAnswerIsDurable'
  BY DEF SuccessIsBacked, Answered, FreshAnswerIsDurable, TypeOK, Succeeded, NoAnswer
<1> QED BY <1>1, <1>2, <1>3, <1>4, <1>5

\* Steps that touch neither the log nor the effects: moves and answers.
LEMMA MoveKeepsIInv ==
  ASSUME IInv, NEW r \in Request,
         \/ Arrive(r) \/ Refuse(r) \/ BeginConflicts(r) \/ AnswerDuplicate(r)
         \/ LogUnavailable(r) \/ StoreNothing(r) \/ StoreThrows(r)
         \/ CallAnswers(r) \/ CallFails(r) \/ FinishOkThrows(r)
  PROVE  IInv'
<1> USE DEF IInv, Arrive, Refuse, BeginConflicts, AnswerDuplicate, LogUnavailable,
            StoreNothing, StoreThrows, CallAnswers, CallFails, FinishOkThrows,
            Goto, Reply, NoRow
<1>1. TypeOK'
  BY DEF TypeOK, Status, Awaiting, AnswerKind
<1>2. OneRowPerKey' /\ SuccessIsBacked'
  BY DEF OneRowPerKey, KeyOf, Flow, SuccessIsBacked
<1>3. Ownership'
  BY DEF Ownership, TypeOK
<1>4. EffectOrder'
  BY DEF EffectOrder, TypeOK, Effected
<1>5. Answered' /\ FreshAnswerIsDurable'
  BY DEF Answered, FreshAnswerIsDurable, TypeOK, Succeeded, NoAnswer
<1> QED BY <1>1, <1>2, <1>3, <1>4, <1>5

\* Effects: a stored row, a call sent, a call executed.
LEMMA EffectKeepsIInv ==
  ASSUME IInv, NEW r \in Request,
         StoreResult(r) \/ SendCall(r) \/ ServiceExecutes(r)
  PROVE  IInv'
<1> USE DEF IInv, StoreResult, SendCall, ServiceExecutes, Goto, NoRow
<1>1. TypeOK'
  BY DEF TypeOK, Awaiting
<1>2. OneRowPerKey'
  BY DEF OneRowPerKey, KeyOf, Flow
<1>3. Ownership'
  BY DEF Ownership, TypeOK
<1>4. EffectOrder'
  BY DEF EffectOrder, Ownership, TypeOK, Effected
<1>5. SuccessIsBacked' /\ Answered' /\ FreshAnswerIsDurable'
  BY DEF SuccessIsBacked, Answered, FreshAnswerIsDurable, TypeOK, Body, Succeeded, Ownership
<1> QED BY <1>1, <1>2, <1>3, <1>4, <1>5

\* Finishing: the row's status changes, its key does not.
LEMMA FinishKeepsIInv ==
  ASSUME IInv, NEW r \in Request, FinishOk(r) \/ FinishFailed(r)
  PROVE  IInv'
<1> USE DEF IInv, FinishOk, FinishFailed, Goto, Reply, NoRow, Succeeded, Failed
<1>1. TypeOK'
  BY DEF TypeOK, Status, Awaiting, AnswerKind
<1>2. OneRowPerKey'
  BY DEF OneRowPerKey, KeyOf, Flow, Ownership, TypeOK
<1>3. Ownership'
  BY DEF Ownership, TypeOK, Body
<1>4. EffectOrder'
  BY DEF EffectOrder, Ownership, TypeOK, Effected, Body
<1>5. SuccessIsBacked'
  BY DEF SuccessIsBacked, EffectOrder, TypeOK, Body
<1>6. Answered' /\ FreshAnswerIsDurable'
  BY DEF Answered, FreshAnswerIsDurable, TypeOK, NoAnswer
<1> QED BY <1>1, <1>2, <1>3, <1>4, <1>5, <1>6

LEMMA CrashKeepsIInv == IInv /\ Crash => IInv'
<1> SUFFICES ASSUME IInv, Crash PROVE IInv'
  OBVIOUS
<1> USE DEF IInv, Crash, NoRow
<1>1. TypeOK'
  BY DEF TypeOK
<1>2. OneRowPerKey' /\ SuccessIsBacked'
  BY DEF OneRowPerKey, KeyOf, Flow, SuccessIsBacked
<1>3. Ownership'
  BY DEF Ownership, TypeOK, Awaiting
<1>4. EffectOrder'
  BY DEF EffectOrder, TypeOK, Effected, Awaiting
<1>5. Answered' /\ FreshAnswerIsDurable'
  BY DEF Answered, FreshAnswerIsDurable, TypeOK, Succeeded, Awaiting
<1> QED BY <1>1, <1>2, <1>3, <1>4, <1>5

LEMMA StepKeepsIInv == IInv /\ [Next]_vars => IInv'
<1> SUFFICES ASSUME IInv, [Next]_vars PROVE IInv'
  OBVIOUS
<1>1. ASSUME NEW r \in Request,
             Arrive(r) \/ Refuse(r) \/ Handle(r) \/ ServiceExecutes(r)
      PROVE  IInv'
  BY <1>1, BeginKeepsIInv, MoveKeepsIInv, EffectKeepsIInv, FinishKeepsIInv DEF Handle
<1>2. CASE Crash
  BY <1>2, CrashKeepsIInv
<1>3. CASE UNCHANGED vars
  BY <1>3
  DEF vars, IInv, TypeOK, OneRowPerKey, Ownership, EffectOrder, SuccessIsBacked,
      Answered, FreshAnswerIsDurable, KeyOf, Flow, Effected, Succeeded
<1> QED BY <1>1, <1>2, <1>3 DEF Next

LEMMA Invariance == Spec => []IInv
  BY InitIInv, StepKeepsIInv, PTL DEF Spec

------------------------------------------------------------------------------
(* The theorems.                                                            *)

\* The variables always have the types the handlers and tables give them.
THEOREM TypeCorrect == Spec => []TypeOK
<1>1. IInv => TypeOK
  BY DEF IInv
<1> QED BY <1>1, Invariance, PTL

\* The log never holds two rows of one (capability, direction, requestId).
THEOREM OneRow == Spec => []OneRowPerKey
<1>1. IInv => OneRowPerKey
  BY DEF IInv
<1> QED BY <1>1, Invariance, PTL

\* For any number of requests, capabilities and retries, under every fault
\* of FaultKind, one idempotency key has at most one business effect: an
\* effect needs its own row, and rows are unique per key.
THEOREM ExactlyOnce == Spec => []OneEffectPerKey
<1>1. IInv => OneEffectPerKey
  BY DEF IInv, OneEffectPerKey, OneRowPerKey, EffectOrder
<1> QED BY <1>1, Invariance, PTL

\* A recorded success is never without its stored row or executed call.
THEOREM SuccessBacked == Spec => []SuccessIsBacked
<1>1. IInv => SuccessIsBacked
  BY DEF IInv
<1> QED BY <1>1, Invariance, PTL

\* A fresh HTTP 200 is durable: the log keeps saying what was answered.
THEOREM AnswerDurable == Spec => []FreshAnswerIsDurable
<1>1. IInv => FreshAnswerIsDurable
  BY DEF IInv
<1> QED BY <1>1, Invariance, PTL

\* A handler never leaves its message open, unless a crash or the database made
\* it: also with every other fault, an answer follows the message's settlement.
THEOREM NoOpenMessageLeft == Spec => []OpenIsOwned
<1>1. Init => OpenIsOwned
  BY DEF Init, OpenIsOwned, NoRow
<1>2. IInv /\ OpenIsOwned /\ [Next]_vars => OpenIsOwned'
  <2> SUFFICES ASSUME IInv, OpenIsOwned, [Next]_vars, NEW q \in Request,
                      log'[q] \in {"RECEIVED", "DISPATCHED"}
               PROVE  pc'[q] \in {"work", "await", "settle", "fail"} \/ Abandoned(q)'
    BY DEF OpenIsOwned
  <2> USE DEF OpenIsOwned, Abandoned, IInv, TypeOK, NoAnswer
  <2>1. ASSUME NEW r \in Request, BeginMessage(r)
        PROVE  pc'[q] \in {"work", "await", "settle", "fail"} \/ Abandoned(q)'
    BY <2>1 DEF BeginMessage, Goto, Reply
  <2>2. ASSUME NEW r \in Request,
               \/ Arrive(r) \/ Refuse(r) \/ BeginConflicts(r) \/ LogUnavailable(r)
               \/ AnswerDuplicate(r)
        PROVE  pc'[q] \in {"work", "await", "settle", "fail"} \/ Abandoned(q)'
    BY <2>2 DEF Arrive, Refuse, BeginConflicts, LogUnavailable, AnswerDuplicate, Ownership,
                Goto, Reply, NoRow
  <2>3. ASSUME NEW r \in Request,
               \/ StoreNothing(r) \/ StoreThrows(r) \/ CallAnswers(r) \/ CallFails(r)
               \/ FinishOkThrows(r) \/ StoreResult(r) \/ SendCall(r)
               \/ ServiceExecutes(r)
        PROVE  pc'[q] \in {"work", "await", "settle", "fail"} \/ Abandoned(q)'
    BY <2>3 DEF StoreNothing, StoreThrows, CallAnswers, CallFails, FinishOkThrows,
                StoreResult, SendCall, ServiceExecutes, Goto
  <2>4. ASSUME NEW r \in Request, FinishOk(r) \/ FinishFailed(r)
        PROVE  pc'[q] \in {"work", "await", "settle", "fail"} \/ Abandoned(q)'
    BY <2>4 DEF FinishOk, FinishFailed, Goto, Reply, Succeeded, Failed
  <2>5. CASE Crash \/ UNCHANGED vars
    BY <2>5 DEF Crash, Awaiting, vars
  <2> QED BY <2>1, <2>2, <2>3, <2>4, <2>5 DEF Next, Handle
<1> QED BY <1>1, <1>2, Invariance, PTL DEF Spec

------------------------------------------------------------------------------
(* What a duplicate was told.                                               *)

\* A settled row has no handler left to change it, unless the answer of its
\* success was lost; and the row whose status a duplicate was told still has it.
LostAnswer(r) == "reply" \in Faults /\ log[r] = Succeeded(r) /\ pc[r] \in {"fail", "dead"}
SettledHandlerDone ==
    \A r \in Request : log[r] \in Settled => pc[r] = "done" \/ LostAnswer(r)
Holds(r, status) == log[r] = status \/ Retracted(r, status)
ToldIsLogged ==
    \A d \in Request :
        answer[d].kind = "duplicate" /\ answer[d].status \in Settled =>
            \E q \in Request : Holds(q, answer[d].status) /\ KeyOf(q) = KeyOf(d)

LEMMA RequestsKept ==
  ASSUME [Next]_vars
  PROVE  /\ req' = req
         /\ \A q \in Request : KeyOf(q)' = KeyOf(q) /\ Succeeded(q)' = Succeeded(q)
                               /\ Failed(q)' = Failed(q)
<1>1. req' = req
  BY DEF Next, Handle, vars, Arrive, Refuse,
     BeginMessage, BeginConflicts, AnswerDuplicate, LogUnavailable, StoreNothing,
     StoreResult, StoreThrows, SendCall, ServiceExecutes, CallAnswers, CallFails,
     FinishOk, FinishOkThrows, FinishFailed, Crash
<1> QED BY <1>1 DEF KeyOf, Flow, Succeeded, Failed

LEMMA StepKeepsSettledHandlerDone ==
  IInv /\ SettledHandlerDone /\ [Next]_vars => SettledHandlerDone'
<1> SUFFICES ASSUME IInv, SettledHandlerDone, [Next]_vars,
                    NEW q \in Request, log'[q] \in Settled
             PROVE  pc'[q] = "done" \/ LostAnswer(q)'
  BY DEF SettledHandlerDone
<1> DEFINE Goal == \/ pc'[q] = "done"
                   \/ "reply" \in Faults /\ log'[q] = Succeeded(q) /\ pc'[q] \in {"fail", "dead"}
<1>0. SUFFICES Goal
  BY RequestsKept DEF LostAnswer
<1> USE DEF SettledHandlerDone, LostAnswer, Settled, IInv, TypeOK
<1>1. ASSUME NEW r \in Request, BeginMessage(r) PROVE Goal
  <2>1. CASE q = r
    BY <1>1, <2>1 DEF BeginMessage, Opened
  <2>2. CASE q # r
    BY <1>1, <2>2 DEF BeginMessage, Goto, Reply
  <2> QED BY <2>1, <2>2
<1>2. ASSUME NEW r \in Request,
             \/ Arrive(r) \/ Refuse(r) \/ BeginConflicts(r) \/ LogUnavailable(r)
             \/ AnswerDuplicate(r)
      PROVE  Goal
  BY <1>2 DEF Arrive, Refuse, BeginConflicts, LogUnavailable, AnswerDuplicate,
              Goto, Reply
<1>3. ASSUME NEW r \in Request,
             \/ StoreNothing(r) \/ StoreThrows(r) \/ CallAnswers(r) \/ CallFails(r)
             \/ FinishOkThrows(r) \/ StoreResult(r) \/ SendCall(r)
             \/ ServiceExecutes(r)
      PROVE  Goal
  BY <1>3 DEF StoreNothing, StoreThrows, CallAnswers, CallFails, FinishOkThrows,
              StoreResult, SendCall, ServiceExecutes, Goto
<1>4. ASSUME NEW r \in Request, FinishOk(r) PROVE Goal
  <2>1. CASE q = r
    BY <1>4, <2>1 DEF FinishOk, Reply, Goto
  <2>2. CASE q # r
    BY <1>4, <2>2 DEF FinishOk, Reply, Goto
  <2> QED BY <2>1, <2>2
<1>5. ASSUME NEW r \in Request, FinishFailed(r) PROVE Goal
  BY <1>5 DEF FinishFailed, Reply
<1>6. CASE Crash
  BY <1>6 DEF Crash, Awaiting
<1>7. CASE UNCHANGED vars
  BY <1>7 DEF vars
<1> QED BY <1>1, <1>2, <1>3, <1>4, <1>5, <1>6, <1>7 DEF Next, Handle

\* Only the handler of a row changes it, so a settled row is left alone, or
\* its success is overwritten after a lost answer.
LEMMA SettledRowKept ==
  ASSUME IInv, SettledHandlerDone, [Next]_vars, NEW q \in Request, log[q] \in Settled
  PROVE  \/ log'[q] = log[q]
         \/ "reply" \in Faults /\ log[q] = Succeeded(q) /\ log'[q] = Failed(q)
<1>1. CASE pc[q] = "done" \/ pc[q] = "dead"
  BY <1>1 DEF IInv, TypeOK, Settled, NoRow, Next, Handle, vars, Arrive, Refuse,
     BeginMessage, BeginConflicts, AnswerDuplicate, LogUnavailable, StoreNothing,
     StoreResult, StoreThrows, SendCall, ServiceExecutes, CallAnswers, CallFails,
     FinishOk, FinishOkThrows, FinishFailed, Crash, Goto, Reply
<1>2. CASE pc[q] = "fail" /\ "reply" \in Faults /\ log[q] = Succeeded(q)
  <2>1. ASSUME NEW r \in Request, FinishFailed(r)
        PROVE  log'[q] = log[q] \/ log'[q] = Failed(q)
    BY <2>1 DEF FinishFailed, IInv, TypeOK
  <2>2. ASSUME [Next]_vars, \A r \in Request : ~FinishFailed(r) PROVE log'[q] = log[q]
    BY <1>2, <2>2 DEF IInv, TypeOK, Settled, NoRow, Next, Handle, vars, Arrive, Refuse,
       BeginMessage, BeginConflicts, AnswerDuplicate, LogUnavailable, StoreNothing,
       StoreResult, StoreThrows, SendCall, ServiceExecutes, CallAnswers, CallFails,
       FinishOk, FinishOkThrows, Crash, Goto, Reply
  <2> QED BY <1>2, <2>1, <2>2
<1> QED BY <1>1, <1>2 DEF SettledHandlerDone, LostAnswer

\* A step that tells d a duplicate's status reads it from a row of d's key.
LEMMA DuplicateReadsRow ==
  ASSUME IInv, [Next]_vars, NEW d \in Request, answer'[d].kind = "duplicate"
  PROVE  \/ answer'[d] = answer[d]
         \/ \E q \in Request : /\ log'[q] = answer'[d].status
                               /\ KeyOf(q) = KeyOf(d)
<1> USE DEF IInv, TypeOK
<1>1. ASSUME NEW r \in Request, AnswerDuplicate(r), d = r
      PROVE  \E q \in Request : log'[q] = answer'[d].status /\ KeyOf(q) = KeyOf(d)
  <2>1. PICK q \in Request : KeyOf(q) = KeyOf(r) /\ Reply(r, "duplicate", log[q])
    BY <1>1 DEF AnswerDuplicate
  <2>2. log'[q] = answer'[d].status
    BY <1>1, <2>1 DEF AnswerDuplicate, Reply
  <2> QED BY <1>1, <2>1, <2>2
<1>2. ASSUME NEW r \in Request, AnswerDuplicate(r), d # r PROVE answer'[d] = answer[d]
  BY <1>2 DEF AnswerDuplicate, Reply
<1>3. ASSUME NEW r \in Request,
             \/ Arrive(r) \/ Refuse(r) \/ BeginMessage(r) \/ BeginConflicts(r)
             \/ LogUnavailable(r)
      PROVE  answer'[d] = answer[d]
  BY <1>3 DEF Arrive, Refuse, BeginMessage, BeginConflicts, LogUnavailable, Goto, Reply
<1>4. ASSUME NEW r \in Request,
             \/ StoreNothing(r) \/ StoreThrows(r) \/ CallAnswers(r) \/ CallFails(r)
             \/ FinishOkThrows(r) \/ StoreResult(r) \/ SendCall(r)
             \/ ServiceExecutes(r) \/ FinishOk(r) \/ FinishFailed(r)
      PROVE  answer'[d] = answer[d]
  BY <1>4 DEF StoreNothing, StoreThrows, CallAnswers, CallFails, FinishOkThrows,
              StoreResult, SendCall, ServiceExecutes, FinishOk, FinishFailed, Goto, Reply
<1>5. CASE Crash \/ UNCHANGED vars
  BY <1>5 DEF Crash, vars
<1> QED BY <1>1, <1>2, <1>3, <1>4, <1>5 DEF Next, Handle

LEMMA StepKeepsToldIsLogged ==
  IInv /\ SettledHandlerDone /\ ToldIsLogged /\ [Next]_vars => ToldIsLogged'
<1> SUFFICES ASSUME IInv, SettledHandlerDone, ToldIsLogged, [Next]_vars,
                    NEW d \in Request, answer'[d].kind = "duplicate",
                    answer'[d].status \in Settled
             PROVE  \E q \in Request : Holds(q, answer[d].status)'
                                       /\ KeyOf(q)' = KeyOf(d)'
  BY DEF ToldIsLogged, Settled
<1> DEFINE s == answer'[d].status
<1> DEFINE HoldsNext(q) == \/ log'[q] = s
                           \/ "reply" \in Faults /\ s = Succeeded(q) /\ log'[q] = Failed(q)
<1>0. SUFFICES \E q \in Request : HoldsNext(q) /\ KeyOf(q) = KeyOf(d)
  BY RequestsKept DEF Holds, Retracted
<1>1. CASE answer'[d] = answer[d]
  <2>1. PICK q \in Request : Holds(q, answer[d].status) /\ KeyOf(q) = KeyOf(d)
    BY <1>1 DEF ToldIsLogged
  <2>2. log[q] \in Settled
    BY <1>1, <2>1 DEF Holds, Retracted, Failed, Settled
  <2>3. \/ log'[q] = log[q]
        \/ "reply" \in Faults /\ log[q] = Succeeded(q) /\ log'[q] = Failed(q)
    BY <2>2, SettledRowKept
  <2>4. Succeeded(q) # Failed(q)
    BY DEF Succeeded, Failed
  <2>5. HoldsNext(q)
    BY <1>1, <2>1, <2>3, <2>4 DEF Holds, Retracted
  <2> QED BY <2>1, <2>5
<1>2. CASE \E q \in Request : log'[q] = s /\ KeyOf(q) = KeyOf(d)
  BY <1>2
<1> QED BY <1>1, <1>2, DuplicateReadsRow

\* A settled status told to a duplicate is final, unless the answer of the
\* finishing update was lost.
THEOREM ToldStatusFinal == Spec => []ToldStatusHolds
<1>1. Init => SettledHandlerDone /\ ToldIsLogged
  BY DEF Init, SettledHandlerDone, ToldIsLogged, NoAnswer, NoRow, Settled
<1>2. IInv /\ SettledHandlerDone /\ ToldIsLogged /\ [Next]_vars
        => SettledHandlerDone' /\ ToldIsLogged'
  BY StepKeepsSettledHandlerDone, StepKeepsToldIsLogged
<1>3. IInv /\ ToldIsLogged => ToldStatusHolds
  <2> SUFFICES ASSUME IInv, ToldIsLogged, NEW d \in Request, NEW r \in Request,
                      answer[d].kind = "duplicate", answer[d].status \in Settled,
                      log[r] # NoRow, KeyOf(r) = KeyOf(d)
               PROVE  Holds(r, answer[d].status)
    BY DEF ToldStatusHolds, Holds
  <2>1. PICK q \in Request : Holds(q, answer[d].status) /\ KeyOf(q) = KeyOf(d)
    BY DEF ToldIsLogged
  <2>2. log[q] # NoRow
    BY <2>1 DEF Holds, Retracted, Failed, Settled, NoRow
  <2>3. q = r
    BY <2>1, <2>2 DEF IInv, OneRowPerKey
  <2> QED BY <2>1, <2>3
<1> QED BY <1>1, <1>2, <1>3, Invariance, PTL DEF Spec

------------------------------------------------------------------------------
(* The handlers implement the ledger.                                       *)

LEMMA KeyOfType == ASSUME TypeOK, NEW r \in Request PROVE KeyOf(r) \in AllKeys
  BY DEF TypeOK, KeyOf, Flow, AllKeys, Body

\* The entry of a key is named by the one row that has the key.
LEMMA EntryOfRow ==
  ASSUME TypeOK, OneRowPerKey, NEW r \in Request, log[r] # NoRow
  PROVE  Entries[KeyOf(r)] = EntryName(log[r])
<1>1. KeyOf(r) \in AllKeys
  BY KeyOfType
<1>2. RowsOf(KeyOf(r)) = {r}
  BY DEF RowsOf, OneRowPerKey
<1>3. (CHOOSE q \in RowsOf(KeyOf(r)) : TRUE) = r
  BY <1>2
<1> QED BY <1>1, <1>2, <1>3 DEF Entries

\* Writing the status of a request's own row changes the entry of its key
\* and no other.
LEMMA EntryWritten ==
  ASSUME TypeOK, OneRowPerKey, TypeOK', OneRowPerKey',
         NEW r \in Request, NEW s \in Status,
         log' = [log EXCEPT ![r] = s], req' = req
  PROVE  Entries' = [Entries EXCEPT ![KeyOf(r)] = EntryName(s)]
<1> DEFINE k == KeyOf(r)
<1>1. k \in AllKeys /\ KeyOf(r)' = k
  BY KeyOfType DEF KeyOf, Flow
<1>2. log'[r] = s /\ s # NoRow
  BY DEF TypeOK, Status, NoRow
<1>3. Entries'[k] = EntryName(s)
  <2>1. RowsOf(k)' = {r}
    BY <1>1, <1>2 DEF RowsOf, OneRowPerKey
  <2>2. (CHOOSE q \in RowsOf(k)' : TRUE) = r
    BY <2>1
  <2> QED BY <1>1, <1>2, <2>1, <2>2 DEF Entries
<1>4. ASSUME NEW j \in AllKeys, j # k PROVE Entries'[j] = Entries[j]
  <2>1. RowsOf(j)' = RowsOf(j)
    BY <1>4 DEF RowsOf, KeyOf, Flow, TypeOK
  <2>2. \A q \in RowsOf(j) : q # r
    BY <1>4 DEF RowsOf
  <2>3. \A q \in RowsOf(j) : log'[q] = log[q]
    BY <2>2 DEF RowsOf, TypeOK
  <2>4. CASE RowsOf(j) = {}
    BY <2>1, <2>4 DEF Entries
  <2>5. CASE RowsOf(j) # {}
    <3>1. (CHOOSE q \in RowsOf(j) : TRUE) \in RowsOf(j)
      BY <2>5
    <3>2. log'[CHOOSE q \in RowsOf(j)' : TRUE] = log[CHOOSE q \in RowsOf(j) : TRUE]
      BY <2>1, <2>3, <3>1
    <3>3. Entries'[j] = EntryName(log'[CHOOSE q \in RowsOf(j)' : TRUE])
      BY <2>1, <2>5 DEF Entries
    <3>4. Entries[j] = EntryName(log[CHOOSE q \in RowsOf(j) : TRUE])
      BY <2>5 DEF Entries
    <3> QED BY <3>2, <3>3, <3>4
  <2> QED BY <2>4, <2>5
<1> QED BY <1>1, <1>3, <1>4 DEF Entries

LEMMA LogKeptEntriesKept ==
  ASSUME log' = log, req' = req PROVE Entries' = Entries
  BY DEF Entries, RowsOf, KeyOf, Flow

LEMMA EffectsKept ==
  ASSUME req' = req, \A q \in Request : Performed(q)' <=> Performed(q)
  PROVE  Effects' = Effects
  BY DEF Effects, KeyOf, Flow

\* The first effect of a request is the first effect of its key.
LEMMA FirstEffect ==
  ASSUME IInv, NEW r \in Request, log[r] # NoRow, log' = log, req' = req,
         ~Performed(r), Performed(r)',
         \A q \in Request : q # r => (Performed(q)' <=> Performed(q))
  PROVE  Ledger!Perform(KeyOf(r))
<1> DEFINE k == KeyOf(r)
<1>1. k \in AllKeys /\ KeyOf(r)' = k
  BY KeyOfType DEF IInv, KeyOf, Flow
<1>2. Entries[k] # "absent"
  BY EntryOfRow DEF IInv, EntryName
<1>3. Effects[k] = {}
  BY <1>1 DEF Effects, IInv, OneRowPerKey, EffectOrder, Performed, Effected
<1>4. Effects'[k] = {r}
  BY <1>1, <1>3 DEF Effects, KeyOf, Flow
<1>5. ASSUME NEW j \in AllKeys, j # k PROVE Effects'[j] = Effects[j]
  BY <1>5 DEF Effects, KeyOf, Flow
<1>6. Effects' = [Effects EXCEPT ![k] = {r}]
  BY <1>1, <1>4, <1>5 DEF Effects
<1>7. Entries' = Entries
  BY LogKeptEntriesKept
<1> QED BY <1>2, <1>3, <1>6, <1>7 DEF Ledger!Perform

LEMMA StepImplements ==
  IInv /\ IInv' /\ [Next]_vars => [Ledger!LedgerNext]_(Ledger!ledgerVars)
<1> SUFFICES ASSUME IInv, IInv', [Next]_vars
             PROVE  Ledger!LedgerNext \/ (Entries' = Entries /\ Effects' = Effects)
  BY DEF Ledger!ledgerVars
<1>t. TypeOK /\ OneRowPerKey /\ TypeOK' /\ OneRowPerKey'
  BY DEF IInv
<1>k. \A r \in Request : KeyOf(r) \in AllKeys
  BY <1>t, KeyOfType
<1>1. ASSUME NEW r \in Request, BeginMessage(r) PROVE Ledger!LedgerNext
  <2>1. RowsOf(KeyOf(r)) = {}
    BY <1>1 DEF BeginMessage, KeyFree, RowsOf
  <2>2. Entries[KeyOf(r)] = "absent"
    BY <1>k, <2>1 DEF Entries
  <2>3. Entries' = [Entries EXCEPT ![KeyOf(r)] = EntryName(Opened(r))]
    BY <1>t, <1>1, EntryWritten DEF BeginMessage, Opened, Status
  <2>4. EntryName(Opened(r)) = "open"
    BY DEF EntryName, Opened
  <2>5. Effects' = Effects
    BY <1>1, EffectsKept DEF BeginMessage, Performed
  <2> QED BY <1>k, <2>2, <2>3, <2>4, <2>5 DEF Ledger!LedgerNext, Ledger!Open
<1>2. ASSUME NEW r \in Request,
             \/ Arrive(r) \/ Refuse(r) \/ BeginConflicts(r) \/ AnswerDuplicate(r)
             \/ LogUnavailable(r) \/ StoreNothing(r) \/ StoreThrows(r)
             \/ CallAnswers(r) \/ CallFails(r) \/ FinishOkThrows(r)
      PROVE  Entries' = Entries /\ Effects' = Effects
  BY <1>2, LogKeptEntriesKept, EffectsKept
  DEF Arrive, Refuse, BeginConflicts, AnswerDuplicate, LogUnavailable, StoreNothing,
      StoreThrows, CallAnswers, CallFails, FinishOkThrows, Performed
<1>3. ASSUME NEW r \in Request, StoreResult(r) PROVE Ledger!LedgerNext
  <2>1. log[r] # NoRow /\ ~Performed(r)
    BY <1>3 DEF StoreResult, IInv, Ownership, EffectOrder, Effected, Performed, NoRow
  <2>2. Performed(r)' /\ \A q \in Request : q # r => (Performed(q)' <=> Performed(q))
    BY <1>3 DEF StoreResult, Performed
  <2>3. Ledger!Perform(KeyOf(r))
    BY <1>3, <2>1, <2>2, FirstEffect DEF StoreResult
  <2> QED BY <1>k, <2>3 DEF Ledger!LedgerNext
<1>4. ASSUME NEW r \in Request, SendCall(r) PROVE Entries' = Entries /\ Effects' = Effects
  <2>1. calls[r] # "executed"
    BY <1>4 DEF SendCall, IInv, EffectOrder, Effected
  <2>2. \A q \in Request : Performed(q)' <=> Performed(q)
    BY <1>4, <1>t, <2>1 DEF SendCall, Performed, TypeOK
  <2> QED BY <1>4, <2>2, LogKeptEntriesKept, EffectsKept DEF SendCall
<1>5. ASSUME NEW r \in Request, ServiceExecutes(r) PROVE Ledger!LedgerNext
  <2>1. log[r] # NoRow /\ ~Performed(r)
    BY <1>5, <1>t DEF ServiceExecutes, IInv, EffectOrder, Effected, Performed, TypeOK
  <2>2. Performed(r)' /\ \A q \in Request : q # r => (Performed(q)' <=> Performed(q))
    BY <1>5, <1>t DEF ServiceExecutes, Performed, TypeOK
  <2>3. Ledger!Perform(KeyOf(r))
    BY <1>5, <2>1, <2>2, FirstEffect DEF ServiceExecutes
  <2> QED BY <1>k, <2>3 DEF Ledger!LedgerNext
<1>6. ASSUME NEW r \in Request, FinishOk(r) PROVE Ledger!LedgerNext
  <2>1. log[r] \in {"RECEIVED", "DISPATCHED"}
    BY <1>6 DEF FinishOk, IInv, Ownership
  <2>2. Entries[KeyOf(r)] = "open"
    BY <1>t, <2>1, EntryOfRow DEF EntryName, NoRow
  <2>3. Entries' = [Entries EXCEPT ![KeyOf(r)] = EntryName(Succeeded(r))]
    BY <1>t, <1>6, EntryWritten DEF FinishOk, Succeeded, Status
  <2>4. EntryName(Succeeded(r)) = "succeeded"
    BY DEF EntryName, Succeeded
  <2>5. Effects[KeyOf(r)] # {} \/ KeyOf(r) \in NeedNoEffect
    <3>1. Performed(r) \/ (Flow(r) = "INBOUND" /\ req[r].cap \notin ResultTarget)
      BY <1>6, <1>t DEF FinishOk, IInv, EffectOrder, Performed, Flow, TypeOK, Body
    <3>2. CASE Performed(r)
      BY <1>k, <3>2 DEF Effects
    <3>3. CASE Flow(r) = "INBOUND" /\ req[r].cap \notin ResultTarget
      BY <1>k, <3>3 DEF NeedNoEffect, KeyOf
    <3> QED BY <3>1, <3>2, <3>3
  <2>6. Effects' = Effects
    BY <1>6, EffectsKept DEF FinishOk, Performed
  <2> QED BY <1>k, <2>2, <2>3, <2>4, <2>5, <2>6 DEF Ledger!LedgerNext, Ledger!Succeed
<1>7. ASSUME NEW r \in Request, FinishFailed(r)
      PROVE  Ledger!LedgerNext \/ (Entries' = Entries /\ Effects' = Effects)
  <2>1. Effects' = Effects
    BY <1>7, EffectsKept DEF FinishFailed, Performed
  <2>2. CASE log' = log
    BY <1>7, <2>1, <2>2, LogKeptEntriesKept DEF FinishFailed
  <2>3. CASE log' = [log EXCEPT ![r] = Failed(r)]
    <3>1. log[r] \in {"RECEIVED", "DISPATCHED", "ACCEPTED", "SUCCEEDED"}
      BY <1>7 DEF FinishFailed, IInv, Ownership
    <3>2. Entries[KeyOf(r)] \in {"open", "succeeded"}
      BY <1>t, <3>1, EntryOfRow DEF EntryName, NoRow
    <3>3. Entries' = [Entries EXCEPT ![KeyOf(r)] = EntryName(Failed(r))]
      BY <1>t, <1>7, <2>3, EntryWritten DEF FinishFailed, Failed, Status
    <3>4. EntryName(Failed(r)) = "failed"
      BY DEF EntryName, Failed
    <3> QED BY <1>k, <2>1, <3>2, <3>3, <3>4 DEF Ledger!LedgerNext, Ledger!Fail
  <2> QED BY <1>7, <2>2, <2>3 DEF FinishFailed
<1>8. CASE Crash
  BY <1>8, LogKeptEntriesKept, EffectsKept DEF Crash, Performed
<1>9. CASE UNCHANGED vars
  BY <1>9, LogKeptEntriesKept, EffectsKept DEF vars, Performed
<1> QED
  BY <1>1, <1>2, <1>3, <1>4, <1>5, <1>6, <1>7, <1>8, <1>9 DEF Next, Handle

LEMMA InitImplements == Init => Ledger!LedgerInit
  BY DEF Init, Ledger!LedgerInit, Entries, Effects, RowsOf, Performed

\* The handlers, whatever faults and crashes interleave with them, implement
\* the message ledger: one entry and one effect per idempotency key, and no
\* success without its effect.
THEOREM Implementation == Spec => ImplementsLedger
<1>1. Init => Ledger!LedgerInit
  BY InitImplements
<1>2. IInv /\ IInv' /\ [Next]_vars => [Ledger!LedgerNext]_(Ledger!ledgerVars)
  BY StepImplements
<1> QED BY <1>1, <1>2, Invariance, PTL DEF Spec, ImplementsLedger, Ledger!LedgerSpec
==============================================================================
