---------------------- MODULE CustodySubmissionProofs ----------------------
(***************************************************************************)
(* Proofs about CustodySubmission, for any set of workers and any bounds.  *)
(***************************************************************************)
EXTENDS CustodySubmission, TLAPS

LEMMA ConstantFacts == 1 \in Keys /\ 1 \in Attempts /\ 0 \in Budgets /\ MaxBudget \in Budgets
  BY BoundsAssumption DEF Keys, Attempts, Budgets

\* The states of a call are well-typed and stay so.
TypeOKCall == 
  /\ pc \in [Workers -> {"idle"} \cup Working \cup Answers]
  /\ mode \in [Workers -> Modes]
  /\ key \in [Workers -> Keys]
  /\ budget \in [Workers -> Budgets]
  /\ seen \in [Workers -> Readings]
  /\ hash \in [Workers -> Attempts]

LEMMA FinishType ==
  ASSUME TypeOKCall, NEW w \in Workers, NEW a \in Answers, Finish(w, a)
  PROVE  TypeOKCall'
  BY ConstantFacts DEF TypeOKCall, Finish, Goto, Readings, Modes

LEMMA ReceiveType ==
  ASSUME TypeOKCall, NEW w \in Workers, NEW l \in Working, NEW r \in Readings, Receive(w, l, r)
  PROVE  TypeOKCall'
  BY DEF TypeOKCall, Receive, Goto

LEMMA StartPollType ==
  ASSUME TypeOKCall, NEW w \in Workers, NEW l \in Working, StartPoll(w, l)
  PROVE  TypeOKCall'
  BY ConstantFacts DEF TypeOKCall, StartPoll, Goto, Readings

LEMMA PollAgainType ==
  ASSUME TypeOKCall, NEW w \in Workers, NEW l \in Working, PollAgain(w, l)
  PROVE  TypeOKCall'
  BY BoundsAssumption DEF TypeOKCall, PollAgain, Goto, Readings, Budgets

LEMMA WorkerType ==
  ASSUME TypeOK, NEW w \in Workers, Worker(w)
  PROVE  TypeOK'
<1>1. TypeOKCall /\ key[w] \in Keys
  BY DEF TypeOK, TypeOKCall
<1>2. CASE Submit(w) \/ AwaitIntent(w) \/ AwaitOnChain(w)
  <2>1. PICK m \in Modes, l \in Working : Begin(w, m, l)
    BY <1>2 DEF Submit, AwaitIntent, AwaitOnChain, Modes, Working
  <2>. QED  BY <2>1, ConstantFacts DEF TypeOK, Begin, Goto, custodyVars
<1>3. CASE Refuse(w) \/ ReadFails(w)
  <2>1. TypeOKCall'
    BY <1>1, <1>3, FinishType DEF Refuse, ReadFails, Answers
  <2>. QED  BY <1>3, <2>1 DEF TypeOK, TypeOKCall, Refuse, ReadFails, custodyVars
<1>4. CASE DryRunPasses(w)
  BY <1>4 DEF TypeOK, DryRunPasses, Goto, Working, custodyVars
<1>5. CASE ServePost(w)
  <2>1. TypeOKCall'
    BY <1>1, <1>5, ReceiveType DEF ServePost, Working, Readings
  <2>. QED  BY <1>1, <1>5, <2>1 DEF TypeOK, TypeOKCall, ServePost, IntentStatus
<1>6. CASE PostUnanswered(w)
  <2>1. TypeOKCall'
    BY <1>1, <1>6, FinishType DEF PostUnanswered, Answers
  <2>. QED  BY <1>1, <1>6, <2>1 DEF TypeOK, TypeOKCall, PostUnanswered
<1>7. CASE HandlePost(w)
  <2>1. TypeOKCall'
    BY <1>1, <1>7, StartPollType DEF HandlePost, Working
  <2>. QED  BY <1>7, <2>1 DEF TypeOK, TypeOKCall, HandlePost, custodyVars
<1>8. CASE ServeIntent(w)
  <2>1. TypeOKCall'
    <3>1. \A k \in Keys : intent[k] \in Readings
      BY DEF TypeOK, Readings
    <3>. QED  BY <1>1, <1>8, <3>1, ReceiveType DEF ServeIntent, Working, Readings
  <2>. QED  BY <1>8, <2>1 DEF TypeOK, TypeOKCall, ServeIntent, custodyVars
<1>9. CASE IntentExecuted(w) \/ IntentDead(w) \/ IntentAgain(w) \/ IntentPending(w)
  <2>1. TypeOKCall'
    BY <1>1, <1>9, FinishType, StartPollType, PollAgainType
       DEF IntentExecuted, IntentDead, IntentAgain, IntentPending, Working, Answers
  <2>. QED
    BY <1>9, <2>1 DEF TypeOK, TypeOKCall, IntentExecuted, IntentDead, IntentAgain,
                      IntentPending, custodyVars
<1>10. CASE ServeTx(w)
  BY <1>10, ConstantFacts DEF TypeOK, ServeTx, Goto, Working, Readings, custodyVars
<1>11. CASE TxDead(w) \/ TxConfirmed(w) \/ TxAgain(w) \/ TxPending(w)
  <2>1. TypeOKCall'
    BY <1>1, <1>11, FinishType, StartPollType, PollAgainType
       DEF TxDead, TxConfirmed, TxAgain, TxPending, Working, Answers
  <2>. QED
    BY <1>11, <2>1 DEF TypeOK, TypeOKCall, TxDead, TxConfirmed, TxAgain, TxPending, custodyVars
<1>12. CASE ServeLedger(w)
  <2>1. TypeOKCall'
    <3>1. \A k \in Keys, i \in Attempts : result[k][i] # "none" => result[k][i] \in Readings
      BY DEF TypeOK, Readings, Results
    <3>2. hash[w] \in Attempts /\ "Unreadable" \in Readings
      BY <1>1 DEF TypeOKCall, Readings
    <3>. QED  BY <1>1, <1>12, <3>1, <3>2, ReceiveType DEF ServeLedger, Working
  <2>. QED  BY <1>12, <2>1 DEF TypeOK, TypeOKCall, ServeLedger, custodyVars
<1>13. CASE LedgerSuccess(w) \/ LedgerFailure(w) \/ LedgerPending(w)
  <2>1. TypeOKCall'
    BY <1>1, <1>13, FinishType DEF LedgerSuccess, LedgerFailure, LedgerPending, Answers
  <2>. QED
    BY <1>13, <2>1 DEF TypeOK, TypeOKCall, LedgerSuccess, LedgerFailure, LedgerPending, custodyVars
<1>14. CASE LedgerAgain(w)
  BY <1>14, BoundsAssumption
     DEF TypeOK, LedgerAgain, Goto, Working, Readings, Budgets, custodyVars
<1>15. CASE Return(w)
  BY <1>15, ConstantFacts, BoundsAssumption DEF TypeOK, Return, Keys, custodyVars
<1>16. CASE Crash(w)
  BY <1>16, ConstantFacts DEF TypeOK, Crash, Modes, Readings
<1>. QED
  BY <1>2, <1>3, <1>4, <1>5, <1>6, <1>7, <1>8, <1>9, <1>10, <1>11, <1>12, <1>13,
     <1>14, <1>15, <1>16 DEF Worker, Proceed

LEMMA CustodyType ==
  ASSUME TypeOK, NEW k \in Keys, Custody(k)
  PROVE  TypeOK'
<1>1. CASE LatePost(k)
  BY <1>1 DEF TypeOK, LatePost, IntentStatus, callVars
<1>2. CASE Reveal(k)
  BY <1>2 DEF TypeOK, Reveal, callVars
<1>3. ASSUME NEW s \in {"Executed"} \cup IntentFailures, Decide(k, s)  PROVE TypeOK'
  BY <1>3 DEF TypeOK, Decide, IntentStatus, callVars
<1>4. ASSUME NEW i \in Attempts, Register(k, i) \/ Replace(k, i)  PROVE TypeOK'
  <2>1. PICK s \in TxStatus : SetStatus(k, i, s)
    BY <1>4 DEF Register, Replace, TxStatus
  <2>2. status' \in [Keys -> [Attempts -> TxStatus]]
    BY <2>1 DEF TypeOK, SetStatus
  <2>. QED  BY <1>4, <2>2 DEF TypeOK, Register, Replace, callVars
<1>5. ASSUME NEW i \in Attempts, NEW s \in {"Expired", "GaveUp"}, GiveUp(k, i, s)  PROVE TypeOK'
  BY <1>5 DEF TypeOK, GiveUp, SetStatus, TxStatus, callVars
<1>6. ASSUME NEW i \in Attempts, NEW r \in {"tes", "tec"}, Apply(k, i, r)  PROVE TypeOK'
  BY <1>6 DEF TypeOK, Apply, Results, callVars
<1>7. ASSUME NEW i \in Attempts, NEW s \in {"Confirmed", "FailedOnChain"}, Report(k, i, s)  PROVE TypeOK'
  BY <1>7 DEF TypeOK, Report, SetStatus, TxStatus, callVars
<1>. QED
  BY <1>1, <1>2, <1>3, <1>4, <1>5, <1>6, <1>7 DEF Custody

\* Type correctness: every variable of the submission keeps its type.
THEOREM TypeCorrect == Spec => []TypeOK
<1>1. Init => TypeOK
  BY ConstantFacts DEF Init, TypeOK, Modes, Readings, IntentStatus, TxStatus, Results
<1>2. TypeOK /\ [Next]_vars => TypeOK'
  <2>1. CASE UNCHANGED vars
    BY <2>1 DEF TypeOK, vars
  <2>. QED  BY <2>1, WorkerType, CustodyType DEF Next
<1>. QED  BY <1>1, <1>2, PTL DEF Spec

-----------------------------------------------------------------------------
\* A dead key has not applied the write.
LEMMA DeadHasNotApplied ==
  ASSUME TypeOK, OrderInv, NEW k \in Keys, Dead(k)
  PROVE  ~AppliedAs(k, "tes")
<1>. SUFFICES ASSUME NEW i \in Attempts, result[k][i] = "tes"
              PROVE  FALSE
  BY DEF AppliedAs
<1>1. CASE intent[k] \in IntentFailures
  BY <1>1 DEF OrderInv, IntentFailures
<1>2. CASE \E j \in Attempts : status[k][j] \in {"Expired", "GaveUp"}
  BY <1>2 DEF OrderInv
<1>3. CASE AppliedAs(k, "tec")
  BY <1>3 DEF OrderInv, AppliedAs
<1>. QED  BY <1>1, <1>2, <1>3 DEF Dead

\* What a step of a worker may do to Custody, to the key in use and to the
\* other workers: at most create the intent of its own key.
WorkerFrame(w) ==
  /\ status' = status /\ result' = result
  /\ \A k \in Keys : intent'[k] = intent[k] \/ (k = key[w] /\ intent[k] = "None" /\ intent'[k] = "Open")
  /\ late' \subseteq late \cup {key[w]}
  /\ cur' = cur \/ (cur' = cur + 1 /\ pc[w] = "dead" /\ key[w] = cur)
  /\ key'[w] \in {key[w], cur, 1}
  /\ \A v \in Workers \ {w} : pc'[v] = pc[v] /\ key'[v] = key[v] /\ seen'[v] = seen[v] /\ budget'[v] = budget[v]

LEMMA WorkerFrames ==
  ASSUME TypeOK, NEW w \in Workers, Worker(w)
  PROVE  WorkerFrame(w)
<1>. USE DEF WorkerFrame
<1>1. CASE Submit(w) \/ AwaitIntent(w) \/ AwaitOnChain(w)
  <2>1. PICK m, l : Begin(w, m, l)
    BY <1>1 DEF Submit, AwaitIntent, AwaitOnChain
  <2>. QED  BY <2>1 DEF TypeOK, Begin, Goto, custodyVars
<1>2. CASE Refuse(w) \/ ReadFails(w) \/ PostUnanswered(w)
  BY <1>2 DEF TypeOK, Refuse, ReadFails, PostUnanswered, Finish, Goto, custodyVars
<1>3. CASE DryRunPasses(w)
  BY <1>3 DEF TypeOK, DryRunPasses, Goto, custodyVars
<1>4. CASE ServePost(w)
  BY <1>4 DEF TypeOK, ServePost, Receive, Goto
<1>5. CASE HandlePost(w) \/ ServeIntent(w) \/ ServeLedger(w)
  BY <1>5 DEF TypeOK, HandlePost, StartPoll, ServeIntent, ServeLedger, Receive, Goto, custodyVars
<1>6. CASE IntentExecuted(w) \/ TxConfirmed(w)
  BY <1>6 DEF TypeOK, IntentExecuted, TxConfirmed, StartPoll, Finish, Goto, custodyVars
<1>7. CASE IntentDead(w) \/ IntentPending(w) \/ TxDead(w) \/ TxPending(w)
  BY <1>7 DEF TypeOK, IntentDead, IntentPending, TxDead, TxPending, Finish, Goto, custodyVars
<1>8. CASE LedgerSuccess(w) \/ LedgerFailure(w) \/ LedgerPending(w)
  BY <1>8 DEF TypeOK, LedgerSuccess, LedgerFailure, LedgerPending, Finish, Goto, custodyVars
<1>9. CASE IntentAgain(w) \/ TxAgain(w)
  BY <1>9 DEF TypeOK, IntentAgain, TxAgain, PollAgain, Goto, custodyVars
<1>10. CASE LedgerAgain(w) \/ ServeTx(w)
  BY <1>10 DEF TypeOK, LedgerAgain, ServeTx, Goto, custodyVars
<1>11. CASE Return(w)
  BY <1>11 DEF TypeOK, Return, custodyVars
<1>12. CASE Crash(w)
  BY <1>12 DEF TypeOK, Crash
<1>. QED
  BY <1>1, <1>2, <1>3, <1>4, <1>5, <1>6, <1>7, <1>8, <1>9, <1>10, <1>11, <1>12
     DEF Worker, Proceed

\* Steps of workers keep what is known about orders and keys.
LEMMA WorkerKeepsOrders ==
  ASSUME TypeOK, OrderInv, NEW w \in Workers, WorkerFrame(w)
  PROVE  /\ OrderInv'
         /\ \A k \in Keys : Dead(k) => Dead(k)'
         /\ \A k \in Keys, r \in Results : AppliedAs(k, r) => AppliedAs(k, r)'
<1>1. \A k \in Keys : intent[k] # "Executed" <=> intent'[k] # "Executed"
  BY DEF WorkerFrame
<1>2. OrderInv'
  BY <1>1 DEF WorkerFrame, OrderInv
<1>3. \A k \in Keys : intent[k] \in IntentFailures => intent'[k] \in IntentFailures
  BY DEF WorkerFrame, IntentFailures
<1>. QED  BY <1>2, <1>3 DEF WorkerFrame, Dead, AppliedAs

LEMMA WorkerKeepsKeys ==
  ASSUME SubmissionInv, NEW w \in Workers, WorkerFrame(w)
  PROVE  KeysInv'
<1>. USE DEF SubmissionInv
<1>1. \A k \in Keys : Dead(k) => Dead(k)'
  BY WorkerKeepsOrders
<1>2. cur \in Nat /\ cur' \in Nat /\ cur <= cur' /\ 1 <= cur /\ \A k \in Keys : k \in Nat
  BY BoundsAssumption DEF TypeOK, WorkerFrame, Keys
<1>3. \A k \in Keys : k < cur' => Dead(k)'
  <2>. SUFFICES ASSUME NEW k \in Keys, k < cur'  PROVE Dead(k)
    BY <1>1
  <2>1. CASE k < cur
    BY <2>1 DEF KeysInv
  <2>2. CASE ~(k < cur)
    <3>1. cur' = cur + 1 /\ k = cur /\ pc[w] = "dead" /\ key[w] = cur
      BY <2>2, <1>2 DEF WorkerFrame
    <3>. QED  BY <3>1 DEF ReadingInv
  <2>. QED  BY <2>1, <2>2
<1>4. key[w] <= cur /\ key[w] \in Nat
  BY <1>2 DEF KeysInv, TypeOK
<1>5. \A k \in Keys : k > cur' => intent'[k] = "None" /\ k \notin late'
  BY <1>2, <1>4 DEF KeysInv, WorkerFrame
<1>6. \A v \in Workers : key'[v] <= cur'
  <2>. SUFFICES ASSUME NEW v \in Workers  PROVE key'[v] <= cur'
    OBVIOUS
  <2>1. key[v] \in Nat /\ key[v] <= cur
    BY <1>2 DEF KeysInv, TypeOK
  <2>2. key'[v] = key[v] \/ key'[v] = cur \/ key'[v] = 1
    BY DEF WorkerFrame
  <2>. QED  BY <2>1, <2>2, <1>2
<1>. QED  BY <1>3, <1>5, <1>6 DEF KeysInv

\* A reading of the call that a worker step advances is true.
LEMMA WorkerReadsTrue ==
  ASSUME SubmissionInv, NEW w \in Workers, Worker(w)
  PROVE  ReadingInv(w)'
<1>. DEFINE Silent == pc'[w] \notin {"dead", "ok"} /\ (pc'[w] \notin {"gotIntent", "gotTx", "gotLedger"})
<1>1. Silent => ReadingInv(w)'
  BY DEF ReadingInv
<1>2. CASE Submit(w) \/ AwaitIntent(w) \/ AwaitOnChain(w)
  <2>1. PICK m \in Modes, l \in {"dryRun", "posted", "getIntent", "getTx"} : Begin(w, m, l)
    BY <1>2 DEF Submit, AwaitIntent, AwaitOnChain, Modes
  <2>. QED  BY <1>1, <2>1 DEF SubmissionInv, TypeOK, Begin, Goto
<1>3. CASE Refuse(w) \/ ReadFails(w) \/ PostUnanswered(w)
  BY <1>1, <1>3 DEF SubmissionInv, TypeOK, Refuse, ReadFails, PostUnanswered, Finish, Goto
<1>4. CASE DryRunPasses(w) \/ ServePost(w) \/ HandlePost(w)
  BY <1>1, <1>4 DEF SubmissionInv, TypeOK, DryRunPasses, ServePost, HandlePost, Receive, StartPoll, Goto
<1>5. CASE ServeIntent(w)
  <2>1. pc'[w] = "gotIntent" /\ key'[w] = key[w] /\ intent' = intent
    BY <1>5 DEF SubmissionInv, TypeOK, ServeIntent, Receive, Goto, custodyVars
  <2>2. seen'[w] \in {intent[key[w]], "Unreadable"}
    BY <1>5 DEF SubmissionInv, TypeOK, ServeIntent, Receive
  <2>. QED  BY <2>1, <2>2 DEF ReadingInv, IntentFailures
<1>6. CASE IntentDead(w)
  <2>1. pc'[w] = "dead" /\ key'[w] = key[w] /\ intent' = intent
    BY <1>6 DEF SubmissionInv, TypeOK, IntentDead, Finish, Goto, custodyVars
  <2>2. intent[key[w]] \in IntentFailures
    BY <1>6 DEF SubmissionInv, ReadingInv, IntentDead
  <2>. QED  BY <2>1, <2>2 DEF ReadingInv, Dead
<1>7. CASE IntentExecuted(w) \/ TxConfirmed(w)
  BY <1>1, <1>7 DEF SubmissionInv, TypeOK, IntentExecuted, TxConfirmed, StartPoll, Finish, Goto
<1>8. CASE IntentAgain(w) \/ TxAgain(w) \/ LedgerAgain(w)
  BY <1>1, <1>8 DEF SubmissionInv, TypeOK, IntentAgain, TxAgain, LedgerAgain, PollAgain, Goto
<1>9. CASE IntentPending(w) \/ TxPending(w) \/ LedgerPending(w)
  BY <1>1, <1>9 DEF SubmissionInv, TypeOK, IntentPending, TxPending, LedgerPending, Finish, Goto
<1>10. CASE ServeTx(w)
  <2>1. /\ pc'[w] = "gotTx" /\ key'[w] = key[w]
        /\ intent' = intent /\ status' = status /\ result' = result
    BY <1>10 DEF SubmissionInv, TypeOK, ServeTx, Goto, custodyVars
  <2>2. ASSUME seen'[w] = "Dead"  PROVE Dead(key[w])
    <3>1. PICK i \in Attempts : ListingSays(key[w], "Dead", i)
      BY <1>10, <2>2 DEF SubmissionInv, TypeOK, ServeTx
    <3>2. deadReason(status[key[w]][i])
      BY <3>1 DEF ListingSays
    <3>. QED  BY <3>2 DEF deadReason, Dead, AppliedAs, SubmissionInv, OrderInv, TypeOK
  <2>. QED  BY <2>1, <2>2 DEF ReadingInv, Dead, AppliedAs
<1>11. CASE TxDead(w)
  <2>1. /\ pc'[w] = "dead" /\ key'[w] = key[w]
        /\ intent' = intent /\ status' = status /\ result' = result
    BY <1>11 DEF SubmissionInv, TypeOK, TxDead, Finish, Goto, custodyVars
  <2>2. Dead(key[w])
    BY <1>11 DEF SubmissionInv, ReadingInv, TxDead
  <2>. QED  BY <2>1, <2>2 DEF ReadingInv, Dead, AppliedAs
<1>12. CASE ServeLedger(w)
  <2>1. pc'[w] = "gotLedger" /\ key'[w] = key[w] /\ result' = result
    BY <1>12 DEF SubmissionInv, TypeOK, ServeLedger, Receive, Goto, custodyVars
  <2>2. seen'[w] \in {result[key[w]][hash[w]], "Unreadable"} /\ hash[w] \in Attempts
    BY <1>12 DEF SubmissionInv, TypeOK, ServeLedger, Receive
  <2>. QED  BY <2>1, <2>2 DEF ReadingInv, AppliedAs
<1>13. CASE LedgerSuccess(w)
  <2>1. pc'[w] = "ok" /\ key'[w] = key[w] /\ result' = result
    BY <1>13 DEF SubmissionInv, TypeOK, LedgerSuccess, Finish, Goto, custodyVars
  <2>2. AppliedAs(key[w], "tes")
    BY <1>13 DEF SubmissionInv, ReadingInv, LedgerSuccess
  <2>. QED  BY <2>1, <2>2 DEF ReadingInv, AppliedAs
<1>14. CASE LedgerFailure(w)
  <2>1. /\ pc'[w] = "dead" /\ key'[w] = key[w]
        /\ intent' = intent /\ status' = status /\ result' = result
    BY <1>14 DEF SubmissionInv, TypeOK, LedgerFailure, Finish, Goto, custodyVars
  <2>2. AppliedAs(key[w], "tec")
    BY <1>14 DEF SubmissionInv, ReadingInv, LedgerFailure
  <2>. QED  BY <2>1, <2>2 DEF ReadingInv, Dead, AppliedAs
<1>15. CASE Return(w) \/ Crash(w)
  BY <1>1, <1>15 DEF SubmissionInv, TypeOK, Return, Crash
<1>. QED
  BY <1>2, <1>3, <1>4, <1>5, <1>6, <1>7, <1>8, <1>9, <1>10, <1>11, <1>12, <1>13, <1>14, <1>15
     DEF Worker, Proceed

\* The readings of the other workers stay true.
LEMMA OthersReadTrue ==
  ASSUME SubmissionInv, NEW w \in Workers, WorkerFrame(w), NEW v \in Workers, v # w
  PROVE  ReadingInv(v)'
<1>1. /\ pc'[v] = pc[v] /\ key'[v] = key[v] /\ seen'[v] = seen[v] /\ key[v] \in Keys
  BY DEF WorkerFrame, SubmissionInv, TypeOK
<1>2. (Dead(key[v]) => Dead(key[v])') /\ result' = result
  BY <1>1, WorkerKeepsOrders DEF SubmissionInv, WorkerFrame
<1>3. intent[key[v]] \in IntentFailures => intent'[key[v]] = intent[key[v]]
  BY <1>1 DEF WorkerFrame, IntentFailures
<1>4. ReadingInv(v)
  BY DEF SubmissionInv
<1>. QED  BY <1>1, <1>2, <1>3, <1>4 DEF ReadingInv, AppliedAs, Dead

-----------------------------------------------------------------------------
\* What a step of Custody or of the ledger may do.
LEMMA CustodyKeepsOrders ==
  ASSUME TypeOK, OrderInv, NEW k \in Keys, Custody(k)
  PROVE  OrderInv'
<1>1. CASE LatePost(k)
  BY <1>1 DEF OrderInv, TypeOK, LatePost
<1>2. CASE Reveal(k)
  BY <1>2 DEF OrderInv, Reveal
<1>3. ASSUME NEW s \in {"Executed"} \cup IntentFailures, Decide(k, s)  PROVE OrderInv'
  BY <1>3 DEF OrderInv, TypeOK, Decide
<1>4. ASSUME NEW i \in Attempts, Register(k, i)  PROVE OrderInv'
  BY <1>4 DEF OrderInv, TypeOK, Register, SetStatus, NoResult, Attempts
<1>5. ASSUME NEW i \in Attempts, Replace(k, i)  PROVE OrderInv'
  BY <1>5 DEF OrderInv, TypeOK, Replace, SetStatus
<1>6. ASSUME NEW i \in Attempts, NEW s \in {"Expired", "GaveUp"}, GiveUp(k, i, s)  PROVE OrderInv'
  BY <1>6 DEF OrderInv, TypeOK, GiveUp, SetStatus, NoResult
<1>7. ASSUME NEW i \in Attempts, NEW r \in {"tes", "tec"}, Apply(k, i, r)  PROVE OrderInv'
  BY <1>7 DEF OrderInv, TypeOK, Apply, NoResult
<1>8. ASSUME NEW i \in Attempts, NEW s \in {"Confirmed", "FailedOnChain"}, Report(k, i, s)  PROVE OrderInv'
  BY <1>8 DEF OrderInv, TypeOK, Report, SetStatus
<1>. QED
  BY <1>1, <1>2, <1>3, <1>4, <1>5, <1>6, <1>7, <1>8 DEF Custody

\* Custody and the ledger never take back what a call may have read or answered,
\* and a key no caller has used yet is untouched.
CustodyFrame ==
  /\ pc' = pc /\ key' = key /\ seen' = seen /\ cur' = cur
  /\ \A k \in Keys : /\ Dead(k) => Dead(k)'
                     /\ intent[k] \in IntentFailures => intent'[k] = intent[k]
                     /\ intent[k] = "None" /\ k \notin late => intent'[k] = "None" /\ k \notin late'
  /\ \A k \in Keys, i \in Attempts : result[k][i] # "none" => result'[k][i] = result[k][i]

LEMMA CustodyFrames ==
  ASSUME TypeOK, OrderInv, NEW k \in Keys, Custody(k)
  PROVE  CustodyFrame
<1>. DEFINE Steady ==
       /\ \A j \in Keys : intent[j] \in IntentFailures => intent'[j] = intent[j]
       /\ \A j \in Keys, i \in Attempts :
            /\ status[j][i] \in {"Expired", "GaveUp"} => status'[j][i] = status[j][i]
            /\ result[j][i] # "none" => result'[j][i] = result[j][i]
<1>1. pc' = pc /\ key' = key /\ seen' = seen /\ cur' = cur
  BY DEF Custody, LatePost, Reveal, Decide, Register, Replace, GiveUp, Apply, Report, callVars
<1>2. Steady
  <2>1. CASE LatePost(k) \/ Reveal(k)
    BY <2>1 DEF TypeOK, LatePost, Reveal, IntentFailures
  <2>2. ASSUME NEW s \in {"Executed"} \cup IntentFailures, Decide(k, s)  PROVE Steady
    BY <2>2 DEF TypeOK, Decide, IntentFailures
  <2>3. ASSUME NEW i \in Attempts, Register(k, i)  PROVE Steady
    BY <2>3 DEF TypeOK, Register, SetStatus, Attempts
  <2>4. ASSUME NEW i \in Attempts, Replace(k, i)  PROVE Steady
    BY <2>4 DEF TypeOK, Replace, SetStatus
  <2>5. ASSUME NEW i \in Attempts, NEW s \in {"Expired", "GaveUp"}, GiveUp(k, i, s)  PROVE Steady
    BY <2>5 DEF TypeOK, GiveUp, SetStatus
  <2>6. ASSUME NEW i \in Attempts, NEW r \in {"tes", "tec"}, Apply(k, i, r)  PROVE Steady
    BY <2>6 DEF TypeOK, Apply, NoResult
  <2>7. ASSUME NEW i \in Attempts, NEW s \in {"Confirmed", "FailedOnChain"}, Report(k, i, s)  PROVE Steady
    BY <2>7 DEF TypeOK, Report, SetStatus
  <2>. QED  BY <2>1, <2>2, <2>3, <2>4, <2>5, <2>6, <2>7 DEF Custody
<1>3. \A j \in Keys : intent[j] = "None" /\ j \notin late => intent'[j] = "None" /\ j \notin late'
  BY DEF TypeOK, Custody, LatePost, Reveal, Decide, Register, Replace, GiveUp, Apply, Report
<1>4. \A j \in Keys : Dead(j) => Dead(j)'
  BY <1>2 DEF Dead, AppliedAs
<1>. QED  BY <1>1, <1>2, <1>3, <1>4 DEF CustodyFrame

LEMMA CustodyKeepsTheRest ==
  ASSUME SubmissionInv, CustodyFrame
  PROVE  KeysInv' /\ \A v \in Workers : ReadingInv(v)'
<1>1. KeysInv'
  BY DEF SubmissionInv, KeysInv, CustodyFrame
<1>2. ASSUME NEW v \in Workers  PROVE ReadingInv(v)'
  <2>1. key[v] \in Keys /\ ReadingInv(v)
    BY DEF SubmissionInv, TypeOK
  <2>2. \A r \in {"tes", "tec"} : AppliedAs(key[v], r) => AppliedAs(key[v], r)'
    BY <2>1 DEF AppliedAs, CustodyFrame
  <2>. QED  BY <2>1, <2>2 DEF ReadingInv, CustodyFrame, AppliedAs
<1>. QED  BY <1>1, <1>2

\* The submission's invariant is inductive, so it holds in every behaviour.
THEOREM SubmissionCorrect == Spec => []SubmissionInv
<1>1. Init => SubmissionInv
  <2>. SUFFICES ASSUME Init  PROVE SubmissionInv
    OBVIOUS
  <2>1. TypeOK
    BY ConstantFacts DEF Init, TypeOK, Modes, Readings, IntentStatus, TxStatus, Results
  <2>2. OrderInv
    BY DEF Init, OrderInv
  <2>3. KeysInv
    BY DEF Init, KeysInv, Keys
  <2>4. \A w \in Workers : ReadingInv(w)
    BY DEF Init, ReadingInv
  <2>. QED  BY <2>1, <2>2, <2>3, <2>4 DEF SubmissionInv
<1>2. SubmissionInv /\ [Next]_vars => SubmissionInv'
  <2>. SUFFICES ASSUME SubmissionInv, [Next]_vars  PROVE SubmissionInv'
    OBVIOUS
  <2>1. CASE UNCHANGED vars
    BY <2>1 DEF SubmissionInv, TypeOK, OrderInv, KeysInv, ReadingInv, Dead, AppliedAs, vars
  <2>2. ASSUME NEW w \in Workers, Worker(w)  PROVE SubmissionInv'
    <3>1. WorkerFrame(w)
      BY <2>2, WorkerFrames DEF SubmissionInv
    <3>2. TypeOK' /\ OrderInv' /\ KeysInv'
      BY <2>2, <3>1, WorkerType, WorkerKeepsOrders, WorkerKeepsKeys DEF SubmissionInv
    <3>3. \A v \in Workers : ReadingInv(v)'
      BY <2>2, <3>1, WorkerReadsTrue, OthersReadTrue
    <3>. QED  BY <3>2, <3>3 DEF SubmissionInv
  <2>3. ASSUME NEW k \in Keys, Custody(k)  PROVE SubmissionInv'
    <3>1. TypeOK' /\ OrderInv' /\ CustodyFrame
      BY <2>3, CustodyType, CustodyKeepsOrders, CustodyFrames DEF SubmissionInv
    <3>. QED  BY <3>1, CustodyKeepsTheRest DEF SubmissionInv
  <2>. QED  BY <2>1, <2>2, <2>3 DEF Next
<1>. QED  BY <1>1, <1>2, PTL DEF Spec

\* Only the key in use can have applied the write: the ones before it are dead,
\* nothing was ever proposed under the ones after it.
LEMMA AppliedIsCurrent ==
  ASSUME SubmissionInv, NEW k \in Keys, AppliedAs(k, "tes")
  PROVE  k = cur
<1>1. ~Dead(k)
  BY DeadHasNotApplied DEF SubmissionInv
<1>2. intent[k] = "Executed"
  BY DEF SubmissionInv, OrderInv, AppliedAs
<1>. QED  BY <1>1, <1>2 DEF SubmissionInv, KeysInv, TypeOK, Keys

\* The write is applied at most once: of two keys one was left behind, hence is
\* dead and has not applied it; under one key the ledger takes one attempt.
THEOREM WriteAppliedAtMostOnce == Spec => []AppliedAtMostOnce
<1>1. SubmissionInv => AppliedAtMostOnce
  <2>. SUFFICES ASSUME SubmissionInv,
                       NEW k1 \in Keys, NEW k2 \in Keys, NEW i1 \in Attempts, NEW i2 \in Attempts,
                       result[k1][i1] = "tes", result[k2][i2] = "tes"
                PROVE  k1 = k2 /\ i1 = i2
    BY DEF AppliedAtMostOnce
  <2>2. k1 = k2
    BY AppliedIsCurrent DEF AppliedAs
  <2>. QED  BY <2>2 DEF SubmissionInv, OrderInv
<1>. QED  BY <1>1, SubmissionCorrect, PTL

\* A result means tesSUCCESS on the ledger.
THEOREM SuccessIsReal == Spec => []SuccessIsOnLedger
<1>1. SubmissionInv => SuccessIsOnLedger
  BY DEF SubmissionInv, ReadingInv, SuccessIsOnLedger
<1>. QED  BY <1>1, SubmissionCorrect, PTL

\* A fresh key is safe after a terminal error.
THEOREM DeadIsFinal == Spec => []DeadNeverApplies
<1>1. SubmissionInv => DeadNeverApplies
  <2>. SUFFICES ASSUME SubmissionInv, NEW k \in Keys,
                       k < cur \/ \E w \in Workers : pc[w] = "dead" /\ key[w] = k
                PROVE  Dead(k) /\ ~AppliedAs(k, "tes")
    BY DEF DeadNeverApplies
  <2>1. Dead(k)
    BY DEF SubmissionInv, KeysInv, ReadingInv
  <2>. QED  BY <2>1, DeadHasNotApplied DEF SubmissionInv
<1>. QED  BY <1>1, SubmissionCorrect, PTL

-----------------------------------------------------------------------------
(* The refinement.  The abstract write's variables, by name.                *)

Fate(k) == IF AppliedAs(k, "tes") THEN "applied" ELSE IF Dead(k) THEN "dead" ELSE "open"
Verdict(w) == IF pc[w] \in {"ok", "dead"} THEN pc[w]
              ELSE IF pc[w] \in Answers THEN "unsure" ELSE "none"
fates == [k \in Keys |-> Fate(k)]
verdicts == [w \in Workers |-> Verdict(w)]

LEMMA WriteStutters ==
  ASSUME cur' = cur, fates' = fates, verdicts' = verdicts
  PROVE  UNCHANGED Write!vars
  BY DEF Write!vars, fates, verdicts, Fate, Verdict

\* A worker's step leaves every key's fate alone.
LEMMA WorkerKeepsFates ==
  ASSUME TypeOK, NEW w \in Workers, WorkerFrame(w)
  PROVE  /\ fates' = fates
         /\ \A k \in Keys : Dead(k)' <=> Dead(k)
         /\ \A k \in Keys : AppliedAs(k, "tes")' <=> AppliedAs(k, "tes")
<1>1. \A k \in Keys : Dead(k)' <=> Dead(k)
  BY DEF WorkerFrame, Dead, AppliedAs, IntentFailures
<1>2. \A k \in Keys : AppliedAs(k, "tes")' <=> AppliedAs(k, "tes")
  BY DEF WorkerFrame, AppliedAs
<1>3. \A k \in Keys : Fate(k)' = Fate(k)
  BY <1>1, <1>2 DEF Fate
<1>. QED  BY <1>1, <1>2, <1>3 DEF fates

\* A call that has answered only returns; every other step starts from a call
\* that has not, and keeps the key in use.
LEMMA OnlyReturnLeavesAnAnswer ==
  ASSUME TypeOK, NEW w \in Workers, Worker(w), ~Return(w)
  PROVE  pc[w] \notin Answers /\ cur' = cur
<1>. USE DEF Answers, Working
<1>1. CASE Submit(w) \/ AwaitIntent(w) \/ AwaitOnChain(w)
  BY <1>1 DEF Submit, AwaitIntent, AwaitOnChain, Begin
<1>2. CASE Refuse(w) \/ DryRunPasses(w) \/ ServePost(w) \/ PostUnanswered(w) \/ HandlePost(w)
  BY <1>2 DEF Refuse, DryRunPasses, ServePost, PostUnanswered, HandlePost
<1>3. CASE ServeIntent(w) \/ ReadFails(w) \/ IntentExecuted(w) \/ IntentDead(w) \/ IntentAgain(w)
           \/ IntentPending(w)
  BY <1>3 DEF ServeIntent, ReadFails, IntentExecuted, IntentDead, IntentAgain, IntentPending,
              IntentStillOpen
<1>4. CASE ServeTx(w) \/ TxDead(w) \/ TxConfirmed(w) \/ TxAgain(w) \/ TxPending(w)
  BY <1>4 DEF ServeTx, TxDead, TxConfirmed, TxAgain, TxPending, TxUnsettled
<1>5. CASE ServeLedger(w) \/ LedgerSuccess(w) \/ LedgerFailure(w) \/ LedgerAgain(w) \/ LedgerPending(w)
  BY <1>5 DEF ServeLedger, LedgerSuccess, LedgerFailure, LedgerAgain, LedgerPending
<1>6. CASE Crash(w)
  BY <1>6 DEF Crash
<1>. QED  BY <1>1, <1>2, <1>3, <1>4, <1>5, <1>6 DEF Worker, Proceed

\* A worker's step answers its caller, takes note of the answer, or is invisible.
LEMMA WorkerRefines ==
  ASSUME SubmissionInv, SubmissionInv', NEW w \in Workers, Worker(w)
  PROVE  Write!Next \/ UNCHANGED Write!vars
<1>1. /\ WorkerFrame(w) /\ fates' = fates
      /\ \A k \in Keys : Dead(k)' <=> Dead(k)
      /\ \A k \in Keys : AppliedAs(k, "tes")' <=> AppliedAs(k, "tes")
  BY WorkerFrames, WorkerKeepsFates DEF SubmissionInv
<1>2. \A v \in Workers \ {w} : Verdict(v)' = Verdict(v)
  BY <1>1 DEF WorkerFrame, Verdict
<1>3. verdicts' = [verdicts EXCEPT ![w] = Verdict(w)']
  BY <1>2 DEF verdicts
<1>4. cur \in 1..MaxKey /\ cur' \in 1..MaxKey
  BY DEF SubmissionInv, TypeOK, Keys
<1>5. CASE Return(w)
  <2>1. Verdict(w) # "none" /\ Verdict(w)' = "none"
    BY <1>5 DEF Return, Verdict, Answers, SubmissionInv, TypeOK
  <2>2. CASE cur' = cur
    <3>1. Write!Note(w)
      BY <1>1, <1>3, <2>1, <2>2 DEF Write!Note, fates, verdicts, Fate, Verdict
    <3>. QED  BY <3>1 DEF Write!Next
  <2>3. CASE cur' # cur
    <3>1. cur' = cur + 1 /\ cur < MaxKey /\ pc[w] = "dead" /\ key[w] = cur
      BY <1>5, <2>3 DEF Return
    <3>2. Dead(cur) /\ ~AppliedAs(cur, "tes")
      BY <1>4, <3>1, DeadHasNotApplied DEF SubmissionInv, ReadingInv, Keys
    <3>3. Fate(cur) = "dead" /\ Verdict(w) = "dead" /\ cur \in Write!Keys
      BY <1>4, <3>1, <3>2 DEF Fate, Verdict, Write!Keys
    <3>4. Write!Note(w)
      BY <1>1, <1>3, <2>1, <3>1, <3>3 DEF Write!Note, fates, verdicts, Fate, Verdict, Keys, Write!Keys
    <3>. QED  BY <3>4 DEF Write!Next
  <2>. QED  BY <2>2, <2>3
<1>6. CASE ~Return(w)
  <2>1. cur' = cur /\ Verdict(w) = "none"
    BY <1>6, OnlyReturnLeavesAnAnswer DEF SubmissionInv, Verdict, Answers
  <2>2. CASE Verdict(w)' = "none"
    <3>1. verdicts' = verdicts
      BY <1>3, <2>1, <2>2 DEF verdicts
    <3>. QED  BY <1>1, <2>1, <3>1, WriteStutters
  <2>3. CASE Verdict(w)' # "none"
    <3>1. PICK k \in Keys : k = key'[w] /\ k <= cur
      BY <2>1 DEF SubmissionInv, TypeOK, KeysInv
    <3>2. PICK v \in {"ok", "dead", "unsure"} : verdicts'[w] = v
      BY <2>3 DEF verdicts, Verdict
    <3>3. ASSUME v = "ok"  PROVE Fate(cur) = "applied"
      <4>1. AppliedAs(k, "tes")'
        BY <3>1, <3>2, <3>3 DEF verdicts, Verdict, SubmissionInv, ReadingInv, AppliedAs
      <4>2. AppliedAs(k, "tes") /\ k = cur
        BY <1>1, <4>1, AppliedIsCurrent DEF SubmissionInv
      <4>. QED  BY <4>2 DEF Fate
    <3>4. ASSUME v = "dead"  PROVE Fate(k) = "dead"
      <4>1. Dead(k)'
        BY <3>1, <3>2, <3>4 DEF verdicts, Verdict, SubmissionInv, ReadingInv, Dead, AppliedAs
      <4>2. Dead(k) /\ ~AppliedAs(k, "tes")
        BY <1>1, <4>1, DeadHasNotApplied DEF SubmissionInv
      <4>. QED  BY <4>2 DEF Fate
    <3>5. verdicts' = [verdicts EXCEPT ![w] = v]
      BY <1>3, <3>2 DEF verdicts
    <3>6. Write!Answer(w, v)
      BY <1>1, <1>4, <2>1, <3>1, <3>3, <3>4, <3>5 DEF Write!Answer, fates, verdicts, Fate, Verdict, Keys
    <3>. QED  BY <3>2, <3>6 DEF Write!Next
  <2>. QED  BY <2>2, <2>3
<1>. QED  BY <1>5, <1>6

\* The same of the state after a step.
LEMMA DeadKeys == SubmissionInv => \A k \in Keys : Dead(k) => ~AppliedAs(k, "tes")
  BY DeadHasNotApplied DEF SubmissionInv

LEMMA DeadHasNotAppliedNext ==
  SubmissionInv' => (\A k \in Keys : Dead(k) => ~AppliedAs(k, "tes"))'
  BY DeadKeys, PTL

\* A step of Custody or of the ledger settles the key in use, or is invisible: the
\* keys before it stay dead, those after it stay unused.
LEMMA CustodyRefines ==
  ASSUME SubmissionInv, SubmissionInv', NEW k \in Keys, Custody(k)
  PROVE  Write!Next \/ UNCHANGED Write!vars
<1>1. CustodyFrame
  BY CustodyFrames DEF SubmissionInv
<1>2. cur' = cur /\ verdicts' = verdicts
  BY <1>1 DEF CustodyFrame, verdicts, Verdict
<1>3. cur \in Keys /\ \A j \in Keys : j \in Nat
  BY DEF SubmissionInv, TypeOK, Keys
<1>4. ASSUME NEW j \in Keys, j # cur  PROVE Fate(j)' = Fate(j)
  <2>1. CASE j < cur
    <3>1. Dead(j) /\ Dead(j)'
      BY <1>1, <2>1 DEF SubmissionInv, KeysInv, CustodyFrame
    <3>2. ~AppliedAs(j, "tes") /\ ~AppliedAs(j, "tes")'
      BY <3>1, DeadHasNotApplied, DeadHasNotAppliedNext DEF SubmissionInv
    <3>. QED  BY <3>1, <3>2 DEF Fate
  <2>2. CASE j > cur
    <3>1. intent[j] = "None" /\ intent'[j] = "None"
      BY <1>2, <2>2 DEF SubmissionInv, KeysInv
    <3>2. \A i \in Attempts : status[j][i] = "None" /\ result[j][i] = "none"
      BY <3>1 DEF SubmissionInv, OrderInv
    <3>3. \A i \in Attempts : status'[j][i] = "None" /\ result'[j][i] = "none"
      BY <3>1 DEF SubmissionInv, OrderInv
    <3>4. Fate(j) = "open" /\ Fate(j)' = "open"
      BY <3>1, <3>2, <3>3 DEF Fate, Dead, AppliedAs, IntentFailures
    <3>. QED  BY <3>4
  <2>. QED  BY <1>3, <1>4, <2>1, <2>2
<1>5. PICK c \in Keys : c = cur
  BY <1>3
<1>6. ASSUME Fate(c) # "open"  PROVE Fate(c)' = Fate(c)
  <2>1. AppliedAs(c, "tes") => AppliedAs(c, "tes")'
    BY <1>1 DEF CustodyFrame, AppliedAs
  <2>2. Dead(c) => Dead(c)'
    BY <1>1 DEF CustodyFrame
  <2>3. Dead(c) => ~AppliedAs(c, "tes")'
    BY <2>2, DeadHasNotAppliedNext
  <2>. QED  BY <1>6, <2>1, <2>2, <2>3 DEF Fate
<1>7. CASE Fate(c)' = Fate(c)
  <2>1. fates' = fates
    BY <1>4, <1>5, <1>7 DEF fates
  <2>. QED  BY <1>2, <2>1, WriteStutters
<1>8. CASE Fate(c)' # Fate(c)
  <2>1. PICK outcome \in {"applied", "dead"} : fates'[c] = outcome
    BY <1>6, <1>8 DEF fates, Fate
  <2>2. fates[cur] = "open" /\ fates' = [fates EXCEPT ![cur] = outcome]
    BY <1>4, <1>5, <1>6, <1>8, <2>1 DEF fates
  <2>3. Write!Settle(outcome)
    BY <1>2, <2>2 DEF Write!Settle, fates, verdicts, Fate, Verdict
  <2>. QED  BY <2>3 DEF Write!Next
<1>. QED  BY <1>7, <1>8

\* The submission implements the abstract write: what the callers, Custody and the
\* ledger do together is a behaviour of one write that is applied at most once and
\* whose definite answers are true.
THEOREM SubmissionImplementsWrite == Spec => ImplementsAtMostOnceWrite
<1>1. Init => Write!Init
  BY DEF Init, Write!Init, Write!Keys, Keys, AppliedAs, Dead, IntentFailures, Answers
<1>2. SubmissionInv /\ SubmissionInv' /\ [Next]_vars => [Write!Next]_(Write!vars)
  <2>. SUFFICES ASSUME SubmissionInv, SubmissionInv', [Next]_vars
                PROVE  Write!Next \/ UNCHANGED Write!vars
    OBVIOUS
  <2>1. CASE UNCHANGED vars
    <3>1. cur' = cur /\ fates' = fates /\ verdicts' = verdicts
      BY <2>1 DEF vars, fates, verdicts, Fate, Verdict, AppliedAs, Dead
    <3>. QED  BY <3>1, WriteStutters
  <2>. QED  BY <2>1, WorkerRefines, CustodyRefines DEF Next
<1>. QED  BY <1>1, <1>2, SubmissionCorrect, PTL DEF Spec, ImplementsAtMostOnceWrite, Write!Spec
-----------------------------------------------------------------------------
(* How long a call can be                                                   *)

\* How many more steps a call can take at the most: two for each read of the loop it is
\* in that its budget may still pay for, then those of the loops that follow.
OfLoop == 2 * MaxBudget + 2
StepsFrom(p, b) == CASE p = "dryRun" -> 3 * OfLoop + 3
                     [] p = "posted" -> 3 * OfLoop + 2
                     [] p = "gotPost" -> 3 * OfLoop + 1
                     [] p = "getIntent" -> 2 * OfLoop + 2 * b + 2
                     [] p = "gotIntent" -> 2 * OfLoop + 2 * b + 1
                     [] p = "getTx" -> OfLoop + 2 * b + 2
                     [] p = "gotTx" -> OfLoop + 2 * b + 1
                     [] p = "getLedger" -> 2 * b + 2
                     [] p = "gotLedger" -> 2 * b + 1
                     [] OTHER -> 0
StepsLeft(w) == StepsFrom(pc[w], budget[w])

\* At each point of a call, written out.
LEMMA StepsAt ==
  ASSUME NEW b \in Budgets
  PROVE  /\ StepsFrom("dryRun", b) = 6 * MaxBudget + 9
         /\ StepsFrom("posted", b) = 6 * MaxBudget + 8
         /\ StepsFrom("gotPost", b) = 6 * MaxBudget + 7
         /\ StepsFrom("getIntent", b) = 4 * MaxBudget + 2 * b + 6
         /\ StepsFrom("gotIntent", b) = 4 * MaxBudget + 2 * b + 5
         /\ StepsFrom("getTx", b) = 2 * MaxBudget + 2 * b + 4
         /\ StepsFrom("gotTx", b) = 2 * MaxBudget + 2 * b + 3
         /\ StepsFrom("getLedger", b) = 2 * b + 2
         /\ StepsFrom("gotLedger", b) = 2 * b + 1
         /\ \A p \in {"idle"} \cup Answers : StepsFrom(p, b) = 0
         /\ MaxBudget \in Nat /\ b \in Nat /\ b <= MaxBudget
<1>1. /\ StepsFrom("dryRun", b) = 3 * OfLoop + 3
      /\ StepsFrom("posted", b) = 3 * OfLoop + 2
      /\ StepsFrom("gotPost", b) = 3 * OfLoop + 1
      /\ StepsFrom("getIntent", b) = 2 * OfLoop + 2 * b + 2
      /\ StepsFrom("gotIntent", b) = 2 * OfLoop + 2 * b + 1
      /\ StepsFrom("getTx", b) = OfLoop + 2 * b + 2
      /\ StepsFrom("gotTx", b) = OfLoop + 2 * b + 1
      /\ StepsFrom("getLedger", b) = 2 * b + 2
      /\ StepsFrom("gotLedger", b) = 2 * b + 1
  BY Zenon DEF StepsFrom
<1>2. \A p \in {"idle"} \cup Answers : StepsFrom(p, b) = 0
  BY Zenon DEF StepsFrom, Answers
<1>3. MaxBudget \in Nat /\ b \in Nat /\ b <= MaxBudget
  BY BoundsAssumption DEF Budgets
<1>. QED  BY <1>1, <1>2, <1>3 DEF OfLoop

LEMMA StepsAreNumbers ==
  ASSUME NEW p \in {"idle"} \cup Working \cup Answers, NEW b \in Budgets
  PROVE  StepsFrom(p, b) \in 0..(6 * MaxBudget + 9) /\ (p \in Working => StepsFrom(p, b) > 0)
<1>1. CASE p \in {"idle"} \cup Answers
  BY <1>1, StepsAt DEF Working, Answers
<1>2. CASE p \in Working
  BY <1>2, StepsAt DEF Working
<1>. QED  BY <1>1, <1>2

\* How a call goes on from one of its points to the next: forward, or round one of the
\* three loops with less time left.
Onward(p, b, q, c) ==
  \/ q \in Answers
  \/ p = "dryRun" /\ q = "posted"
  \/ p = "posted" /\ q = "gotPost"
  \/ p = "gotPost" /\ q = "getIntent"
  \/ p = "getIntent" /\ q = "gotIntent" /\ c = b
  \/ p = "gotIntent" /\ q = "getIntent" /\ c < b
  \/ p = "gotIntent" /\ q = "getTx"
  \/ p = "getTx" /\ q = "gotTx" /\ c = b
  \/ p = "gotTx" /\ q = "getTx" /\ c < b
  \/ p = "gotTx" /\ q = "getLedger"
  \/ p = "getLedger" /\ q = "gotLedger" /\ c = b
  \/ p = "gotLedger" /\ q = "getLedger" /\ c < b

LEMMA OnwardCounts ==
  ASSUME NEW p \in Working, NEW b \in Budgets, NEW q, NEW c \in Budgets, Onward(p, b, q, c)
  PROVE  StepsFrom(q, c) < StepsFrom(p, b)
<1>1. CASE q \in Answers
  <2>1. StepsFrom(q, c) = 0
    BY <1>1, StepsAt
  <2>2. StepsFrom(p, b) \in 0..(6 * MaxBudget + 9) /\ StepsFrom(p, b) > 0
    BY StepsAreNumbers
  <2>. QED  BY <2>1, <2>2
<1>2. CASE q \notin Answers
  BY <1>2, StepsAt DEF Onward
<1>. QED  BY <1>1, <1>2

\* What a call does by itself takes it onward.
LEMMA CallsGoOn ==
  ASSUME TypeOK, NEW w \in Workers, Proceed(w), pc[w] \in Working
  PROVE  Onward(pc[w], budget[w], pc'[w], budget'[w])
<1>. USE DEF Onward
<1>1. CASE Refuse(w) \/ ReadFails(w) \/ PostUnanswered(w)
  BY <1>1 DEF TypeOK, Refuse, ReadFails, PostUnanswered, Finish, Goto, Answers
<1>2. CASE DryRunPasses(w)
  BY <1>2 DEF TypeOK, DryRunPasses, Goto
<1>3. CASE ServePost(w) \/ HandlePost(w)
  BY <1>3 DEF TypeOK, ServePost, HandlePost, Receive, StartPoll, Goto
<1>4. CASE ServeIntent(w) \/ ServeLedger(w)
  BY <1>4 DEF TypeOK, ServeIntent, ServeLedger, Receive, Goto
<1>5. CASE IntentExecuted(w) \/ TxConfirmed(w)
  BY <1>5 DEF TypeOK, IntentExecuted, TxConfirmed, StartPoll, Finish, Goto, Answers
<1>6. CASE IntentDead(w) \/ IntentPending(w) \/ TxDead(w) \/ TxPending(w)
  BY <1>6 DEF TypeOK, IntentDead, IntentPending, TxDead, TxPending, Finish, Goto, Answers
<1>7. CASE LedgerSuccess(w) \/ LedgerFailure(w) \/ LedgerPending(w)
  BY <1>7 DEF TypeOK, LedgerSuccess, LedgerFailure, LedgerPending, Finish, Goto, Answers
<1>8. CASE IntentAgain(w) \/ TxAgain(w)
  <2>1. PICK left \in 0..(budget[w] - 1) : budget' = [budget EXCEPT ![w] = left]
    BY <1>8 DEF IntentAgain, TxAgain, PollAgain
  <2>2. budget'[w] < budget[w]
    BY <2>1, BoundsAssumption DEF TypeOK, Budgets
  <2>. QED
    BY <1>8, <2>2 DEF TypeOK, IntentAgain, TxAgain, IntentStillOpen, TxUnsettled, PollAgain, Goto
<1>9. CASE ServeTx(w)
  BY <1>9 DEF TypeOK, ServeTx, Goto
<1>10. CASE LedgerAgain(w)
  <2>1. PICK delay \in 1..MaxBudget : delay < budget[w] /\ budget' = [budget EXCEPT ![w] = budget[w] - delay]
    BY <1>10 DEF LedgerAgain
  <2>2. budget'[w] < budget[w]
    BY <2>1, BoundsAssumption DEF TypeOK, Budgets
  <2>. QED  BY <1>10, <2>2 DEF TypeOK, LedgerAgain, Goto
<1>11. CASE Return(w)
  BY <1>11 DEF Return, Answers, Working
<1>. QED
  BY <1>1, <1>2, <1>3, <1>4, <1>5, <1>6, <1>7, <1>8, <1>9, <1>10, <1>11 DEF Proceed

\* No call goes on for ever, whatever it is answered: each step of its own leaves it
\* fewer, of at most 6 * MaxBudget + 9, and nothing that others do adds to them.
THEOREM CallsAreFinite ==
  Spec => [][ \A w \in Workers : pc[w] \in Working =>
                /\ StepsLeft(w) \in 1..(6 * MaxBudget + 9)
                /\ StepsLeft(w)' <= StepsLeft(w)
                /\ Proceed(w) => StepsLeft(w)' < StepsLeft(w) ]_vars
<1>. DEFINE Fewer(w) == /\ StepsLeft(w) \in 1..(6 * MaxBudget + 9)
                        /\ StepsLeft(w)' <= StepsLeft(w)
                        /\ Proceed(w) => StepsLeft(w)' < StepsLeft(w)
            Fewest == \A w \in Workers : pc[w] \in Working => Fewer(w)
<1>1. TypeOK /\ TypeOK' /\ Next => Fewest
  <2>. SUFFICES ASSUME TypeOK, TypeOK', Next, NEW w \in Workers, pc[w] \in Working
                PROVE  Fewer(w)
    OBVIOUS
  <2>1. /\ pc[w] \in Working /\ budget[w] \in Budgets /\ budget'[w] \in Budgets
        /\ pc'[w] \in {"idle"} \cup Working \cup Answers /\ MaxBudget \in Nat
    BY BoundsAssumption DEF TypeOK
  <2>2. StepsLeft(w) \in 1..(6 * MaxBudget + 9) /\ StepsLeft(w)' \in 0..(6 * MaxBudget + 9)
    <3>1. StepsLeft(w) \in 0..(6 * MaxBudget + 9) /\ StepsLeft(w) > 0
      BY <2>1, StepsAreNumbers DEF StepsLeft
    <3>2. PICK q \in {"idle"} \cup Working \cup Answers, c \in Budgets : q = pc'[w] /\ c = budget'[w]
      BY <2>1
    <3>3. StepsFrom(q, c) \in 0..(6 * MaxBudget + 9)
      BY StepsAreNumbers
    <3>. QED  BY <2>1, <3>1, <3>2, <3>3 DEF StepsLeft
  <2>3. CASE Proceed(w)
    <3>1. StepsLeft(w)' < StepsLeft(w)
      BY <2>1, <2>3, CallsGoOn, OnwardCounts DEF StepsLeft
    <3>. QED  BY <2>2, <3>1
  <2>4. CASE Crash(w)
    <3>1. pc'[w] = "idle"
      BY <2>4 DEF TypeOK, Crash
    <3>2. StepsLeft(w)' = 0
      BY <2>1, <3>1, StepsAt DEF StepsLeft
    <3>. QED  BY <2>2, <3>2
  <2>5. CASE pc'[w] = pc[w] /\ budget'[w] = budget[w] /\ ~Proceed(w)
    <3>1. StepsLeft(w)' = StepsLeft(w)
      BY <2>5 DEF StepsLeft
    <3>. QED  BY <2>2, <2>5, <3>1
  <2>6. ASSUME NEW v \in Workers, v # w, Worker(v)  PROVE pc'[w] = pc[w] /\ budget'[w] = budget[w]
    BY <2>6, WorkerFrames DEF WorkerFrame
  <2>7. ASSUME NEW k \in Keys, Custody(k)  PROVE pc'[w] = pc[w] /\ budget'[w] = budget[w]
    BY <2>7 DEF Custody, LatePost, Reveal, Decide, Register, Replace, GiveUp, Apply, Report, callVars
  <2>8. Submit(w) \/ AwaitIntent(w) \/ AwaitOnChain(w) => pc[w] = "idle"
    BY DEF Submit, AwaitIntent, AwaitOnChain, Begin
  <2>. QED  BY <2>1, <2>3, <2>4, <2>5, <2>6, <2>7, <2>8 DEF Next, Worker, Working
<1>2. TypeOK /\ TypeOK' /\ [Next]_vars => [Fewest]_vars
  BY <1>1
<1>. QED  BY <1>2, TypeCorrect, PTL DEF Spec
=============================================================================
