------------------------- MODULE CustodySubmission -------------------------
(***************************************************************************)
(* Native submission through Ripple Custody: RippleCustody.submitNative,   *)
(* submitAsync, the handle's wait, and client.intent.await/awaitOnChain.   *)
(*                                                                         *)
(* Several workers (processes, or concurrent calls of one process) drive   *)
(* ONE logical write.  They share the idempotency key currently in use,    *)
(* `cur'; the key is the id of the Custody intent.  A worker proposes the  *)
(* intent, waits for it to be Executed, waits for the order's XRPL         *)
(* transaction, then reads that transaction's engine result off the        *)
(* ledger.  Requests may time out, and a proposal that timed out may still *)
(* be processed much later.  Workers may crash at any moment: a call keeps *)
(* nothing but what is in memory.                                          *)
(*                                                                         *)
(* Custody and the ledger are external: they are modelled from what the    *)
(* polling code says it relies on.                                         *)
(***************************************************************************)
EXTENDS Naturals

CONSTANTS Workers,     \* concurrent callers driving the write
          MaxKey,      \* bound: idempotency keys the callers may use
          MaxAttempt,  \* bound: transactions of one order (fee bumps + 1)
          MaxBudget    \* timeoutMs, in ticks: further reads a poll may make

ASSUME BoundsAssumption == /\ MaxKey \in Nat \ {0}
                           /\ MaxAttempt \in Nat \ {0}
                           /\ MaxBudget \in Nat \ {0}

Keys == 1..MaxKey
Attempts == 1..MaxAttempt
Budgets == 0..MaxBudget

IntentFailures == {"Rejected", "Expired", "Failed"}
IntentStatus == {"None", "Open", "Executed"} \cup IntentFailures
\* A transaction as Custody lists it; "GaveUp" is processing Failed/Interrupted
\* and "FailedOnChain" a ledger failure.  "None": not registered.
TxStatus == {"None", "Detected", "Replaced", "Expired", "GaveUp",
             "Confirmed", "FailedOnChain"}
Results == {"none", "tes", "tec"}

\* What a call is doing.  A name starting with "got" holds an answer in `seen'.
Working == {"dryRun", "posted", "gotPost", "getIntent", "gotIntent",
            "getTx", "gotTx", "getLedger", "gotLedger"}
\* How a call ends: SubmissionResult, resolved handle, awaitOnChain's result,
\* IntentPendingError, a terminal error, a refusal before the POST, and an
\* outcome left unknown (CustodyTimeoutError, CustodyApiError).
Answers == {"ok", "executed", "confirmed", "pending", "dead", "refused", "unknown"}
Modes == {"sync", "wait", "onChain"}
Readings == {"nothing", "Created", "Conflict", "Unreadable", "Superseded",
             "InFlight", "Dead", "Confirmed", "tes", "tec"} \cup IntentStatus

VARIABLES
  cur,      \* the key the callers currently use
  pc, mode, key, budget, seen, hash,   \* per worker: the call in progress
  late,     \* keys whose proposal is still in the network, its sender gone
  intent,   \* Custody: status of the intent with this id
  visible,  \* Custody: the intent's read model has caught up
  status,   \* Custody: the order's transactions, oldest first
  result    \* ledger: validated engine result of each transaction

callVars == <<pc, mode, key, budget, seen, hash>>
custodyVars == <<late, intent, visible, status, result>>
vars == <<cur, pc, mode, key, budget, seen, hash, late, intent, visible, status, result>>

TypeOK ==
  /\ cur \in Keys
  /\ pc \in [Workers -> {"idle"} \cup Working \cup Answers]
  /\ mode \in [Workers -> Modes]
  /\ key \in [Workers -> Keys]
  /\ budget \in [Workers -> Budgets]
  /\ seen \in [Workers -> Readings]
  /\ hash \in [Workers -> Attempts]
  /\ late \in SUBSET Keys
  /\ intent \in [Keys -> IntentStatus]
  /\ visible \in [Keys -> BOOLEAN]
  /\ status \in [Keys -> [Attempts -> TxStatus]]
  /\ result \in [Keys -> [Attempts -> Results]]

Init ==
  /\ cur = 1
  /\ pc = [w \in Workers |-> "idle"]
  /\ mode = [w \in Workers |-> "sync"]
  /\ key = [w \in Workers |-> 1]
  /\ budget = [w \in Workers |-> 0]
  /\ seen = [w \in Workers |-> "nothing"]
  /\ hash = [w \in Workers |-> 1]
  /\ late = {}
  /\ intent = [k \in Keys |-> "None"]
  /\ visible = [k \in Keys |-> FALSE]
  /\ status = [k \in Keys |-> [i \in Attempts |-> "None"]]
  /\ result = [k \in Keys |-> [i \in Attempts |-> "none"]]

-----------------------------------------------------------------------------
(* Steps of a call.  Finish and the polls share these three shapes.         *)

Goto(w, label) == pc' = [pc EXCEPT ![w] = label]

\* The call ends with `answer'; its locals are gone.
Finish(w, answer) ==
  /\ Goto(w, answer)
  /\ seen' = [seen EXCEPT ![w] = "nothing"]
  /\ hash' = [hash EXCEPT ![w] = 1]
  /\ budget' = [budget EXCEPT ![w] = 0]
  /\ mode' = [mode EXCEPT ![w] = "sync"]
  /\ UNCHANGED key

\* An answer reaches the call.
Receive(w, label, reading) ==
  /\ Goto(w, label)
  /\ seen' = [seen EXCEPT ![w] = reading]
  /\ UNCHANGED <<mode, key, budget, hash>>

\* The call moves on to a loop of reads, with a whole timeout ahead of it.
StartPoll(w, label) ==
  /\ Goto(w, label)
  /\ seen' = [seen EXCEPT ![w] = "nothing"]
  /\ budget' = [budget EXCEPT ![w] = MaxBudget]
  /\ UNCHANGED <<mode, key, hash>>

\* Defect kept for comparison: the sleep does not bring the deadline nearer.
PollForever(w, label) ==
  /\ budget[w] > 0
  /\ Goto(w, label)
  /\ seen' = [seen EXCEPT ![w] = "nothing"]
  /\ UNCHANGED <<mode, key, budget, hash>>

\* A fruitless read with time left: sleep, then read again.  The sleep is
\* clamped to what remains, so it may use all of it, and then one more read
\* is made with nothing left.
PollAgain(w, label) ==
  /\ budget[w] > 0
  /\ \E left \in 0..(budget[w] - 1) : budget' = [budget EXCEPT ![w] = left]
  /\ Goto(w, label)
  /\ seen' = [seen EXCEPT ![w] = "nothing"]
  /\ UNCHANGED <<mode, key, hash>>

-----------------------------------------------------------------------------
(* Proposing the intent: postNativeIntent                                   *)

Begin(w, m, label) ==
  /\ pc[w] = "idle"
  /\ Goto(w, label)
  /\ mode' = [mode EXCEPT ![w] = m]
  /\ key' = [key EXCEPT ![w] = cur]
  /\ budget' = [budget EXCEPT ![w] = IF label \in {"getIntent", "getTx"} THEN MaxBudget ELSE 0]
  /\ UNCHANGED <<cur, seen, hash>> /\ UNCHANGED custodyVars

\* submitAndWait ("sync") or submitAsync and then its handle's wait ("wait"),
\* with the dry-run first when the caller or the custodian asks for one.
Submit(w) == \E m \in {"sync", "wait"}, label \in {"dryRun", "posted"} : Begin(w, m, label)

\* client.intent.await and client.intent.awaitOnChain resume by intent id.
AwaitIntent(w) == Begin(w, "wait", "getIntent")
AwaitOnChain(w) == Begin(w, "onChain", "getTx")

\* requireAccountId, the version guard or the dry-run refuses: nothing is sent.
Refuse(w) ==
  /\ pc[w] = "dryRun"
  /\ Finish(w, "refused")
  /\ UNCHANGED cur /\ UNCHANGED custodyVars

DryRunPasses(w) ==
  /\ pc[w] = "dryRun"
  /\ Goto(w, "posted")
  /\ UNCHANGED <<cur, mode, key, budget, seen, hash>> /\ UNCHANGED custodyVars

\* Custody processes the POST: it creates the intent, or answers 409 when it
\* already has one under this id.
ServePost(w) ==
  /\ pc[w] = "posted"
  /\ LET k == key[w]
     IN IF intent[k] = "None"
        THEN /\ Receive(w, "gotPost", "Created")
             /\ intent' = [intent EXCEPT ![k] = "Open"]
        ELSE /\ Receive(w, "gotPost", "Conflict")
             /\ UNCHANGED intent
  /\ UNCHANGED <<cur, late, visible, status, result>>

\* No answer in time, or a transport failure: CustodyTimeoutError, or the error
\* as it came.  The proposal may be processed at any later moment, or never.
PostUnanswered(w) ==
  /\ pc[w] = "posted"
  /\ Finish(w, "unknown")
  /\ late' = late \cup {key[w]}
  /\ UNCHANGED <<cur, intent, visible, status, result>>

\* Defect kept for comparison: a 409 is re-thrown like any other error.
RethrowConflict(w) ==
  /\ pc[w] = "gotPost"
  /\ IF seen[w] = "Conflict" THEN Finish(w, "unknown") ELSE StartPoll(w, "getIntent")
  /\ UNCHANGED cur /\ UNCHANGED custodyVars

\* Created, or a 409 absorbed: either way the call goes on with the intent.
HandlePost(w) ==
  /\ pc[w] = "gotPost"
  /\ StartPoll(w, "getIntent")
  /\ UNCHANGED cur /\ UNCHANGED custodyVars

-----------------------------------------------------------------------------
(* Waiting for the intent: waitForIntentOutcome, pollIntentUntilExecuted    *)

\* GET the intent: a 404 while the read model lags, and a read that times out,
\* both count as "nothing known yet".
ServeIntent(w) ==
  /\ pc[w] = "getIntent"
  /\ \/ Receive(w, "gotIntent", IF visible[key[w]] THEN intent[key[w]] ELSE "Unreadable")
     \/ Receive(w, "gotIntent", "Unreadable")
  /\ UNCHANGED cur /\ UNCHANGED custodyVars

\* Any other failure of a GET is thrown to the caller.
ReadFails(w) ==
  /\ pc[w] \in {"getIntent", "getTx"}
  /\ Finish(w, "unknown")
  /\ UNCHANGED cur /\ UNCHANGED custodyVars

\* A synchronous submission goes on to the order's transaction; a handle (and
\* client.intent.await) is done.
IntentExecuted(w) ==
  /\ pc[w] = "gotIntent" /\ seen[w] = "Executed"
  /\ IF mode[w] = "sync" THEN StartPoll(w, "getTx") ELSE Finish(w, "executed")
  /\ UNCHANGED cur /\ UNCHANGED custodyVars

IntentDead(w) ==
  /\ pc[w] = "gotIntent" /\ seen[w] \in IntentFailures
  /\ Finish(w, "dead")
  /\ UNCHANGED cur /\ UNCHANGED custodyVars

IntentStillOpen(w) == pc[w] = "gotIntent" /\ seen[w] \notin {"Executed"} \cup IntentFailures

IntentAgain(w) ==
  /\ IntentStillOpen(w)
  /\ PollAgain(w, "getIntent")
  /\ UNCHANGED cur /\ UNCHANGED custodyVars

IntentPending(w) ==
  /\ IntentStillOpen(w) /\ budget[w] = 0
  /\ Finish(w, "pending")
  /\ UNCHANGED cur /\ UNCHANGED custodyVars

-----------------------------------------------------------------------------
(* Waiting for the transaction: pollTransactionOnChain                      *)

Registered(k, i) == status[k][i] # "None"

\* The attempt that stands for the order: the newest not marked Replaced.
currentTransaction(k, i) ==
  /\ status[k][i] \notin {"None", "Replaced"}
  /\ \A j \in Attempts : j > i => status[k][j] \in {"None", "Replaced"}

deadReason(s) == s \in {"Expired", "GaveUp", "FailedOnChain"}

\* Defect kept for comparison: an order with only Replaced attempts is dead.
ReplacedListingIsDead(k, reading, i) ==
  \/ /\ currentTransaction(k, i)
     /\ reading = IF deadReason(status[k][i]) THEN "Dead"
                  ELSE IF status[k][i] = "Confirmed" THEN "Confirmed" ELSE "InFlight"
  \/ /\ \A j \in Attempts : ~currentTransaction(k, j)
     /\ i = 1
     /\ reading = IF \E j \in Attempts : Registered(k, j) THEN "Dead" ELSE "nothing"

\* What one listing of the order's transactions says, and of which attempt.
ListingSays(k, reading, i) ==
  \/ /\ currentTransaction(k, i)
     /\ reading = IF deadReason(status[k][i]) THEN "Dead"
                  ELSE IF status[k][i] = "Confirmed" THEN "Confirmed" ELSE "InFlight"
  \/ /\ \A j \in Attempts : ~currentTransaction(k, j)
     /\ i = 1
     /\ reading = IF \E j \in Attempts : Registered(k, j) THEN "Superseded" ELSE "nothing"

ServeTx(w) ==
  /\ pc[w] = "getTx"
  /\ \E reading \in {"nothing", "Superseded", "InFlight", "Dead", "Confirmed"}, i \in Attempts :
       /\ \/ ListingSays(key[w], reading, i)
          \/ reading = "nothing" /\ i = 1          \* timed out: an empty listing
       /\ seen' = [seen EXCEPT ![w] = reading]
       /\ hash' = [hash EXCEPT ![w] = IF reading = "Confirmed" THEN i ELSE 1]
  /\ Goto(w, "gotTx")
  /\ UNCHANGED <<cur, mode, key, budget>> /\ UNCHANGED custodyVars

TxDead(w) ==
  /\ pc[w] = "gotTx" /\ seen[w] = "Dead"
  /\ Finish(w, "dead")
  /\ UNCHANGED cur /\ UNCHANGED custodyVars

\* Defect kept for comparison: a transaction on the ledger counts as success.
HashIsSuccess(w) ==
  /\ pc[w] = "gotTx" /\ seen[w] = "Confirmed"
  /\ Finish(w, IF mode[w] = "sync" THEN "ok" ELSE "confirmed")
  /\ UNCHANGED cur /\ UNCHANGED custodyVars

\* A submission checks the engine result; awaitOnChain returns the hash.
TxConfirmed(w) ==
  /\ pc[w] = "gotTx" /\ seen[w] = "Confirmed"
  /\ IF mode[w] = "sync" THEN StartPoll(w, "getLedger") ELSE Finish(w, "confirmed")
  /\ UNCHANGED cur /\ UNCHANGED custodyVars

TxUnsettled(w) == pc[w] = "gotTx" /\ seen[w] \notin {"Dead", "Confirmed"}

TxAgain(w) ==
  /\ TxUnsettled(w)
  /\ PollAgain(w, "getTx")
  /\ UNCHANGED cur /\ UNCHANGED custodyVars

\* Defect kept for comparison: a transaction still in flight is called dead.
TxTimeoutIsDead(w) ==
  /\ TxUnsettled(w) /\ budget[w] = 0
  /\ Finish(w, "dead")
  /\ UNCHANGED cur /\ UNCHANGED custodyVars

TxPending(w) ==
  /\ TxUnsettled(w) /\ budget[w] = 0
  /\ Finish(w, "pending")
  /\ UNCHANGED cur /\ UNCHANGED custodyVars

-----------------------------------------------------------------------------
(* Reading the engine result: assertOnLedgerSuccess                         *)

\* The `tx' request: a failed request, or a transaction this server has not
\* validated yet, reads as "Unreadable".
ServeLedger(w) ==
  /\ pc[w] = "getLedger"
  /\ \/ Receive(w, "gotLedger", IF result[key[w]][hash[w]] = "none"
                                THEN "Unreadable" ELSE result[key[w]][hash[w]])
     \/ Receive(w, "gotLedger", "Unreadable")
  /\ UNCHANGED cur /\ UNCHANGED custodyVars

LedgerSuccess(w) ==
  /\ pc[w] = "gotLedger" /\ seen[w] = "tes"
  /\ Finish(w, "ok")
  /\ UNCHANGED cur /\ UNCHANGED custodyVars

LedgerFailure(w) ==
  /\ pc[w] = "gotLedger" /\ seen[w] = "tec"
  /\ Finish(w, "dead")
  /\ UNCHANGED cur /\ UNCHANGED custodyVars

\* This loop is not clamped: it goes on only if the next delay ends before the
\* deadline, and otherwise leaves the time that remains unused (LedgerPending:
\* the delay may always be the longer one).
LedgerAgain(w) ==
  /\ pc[w] = "gotLedger" /\ seen[w] = "Unreadable"
  /\ \E delay \in 1..MaxBudget :
       /\ delay < budget[w]
       /\ budget' = [budget EXCEPT ![w] = budget[w] - delay]
  /\ Goto(w, "getLedger")
  /\ seen' = [seen EXCEPT ![w] = "nothing"]
  /\ UNCHANGED <<cur, mode, key, hash>> /\ UNCHANGED custodyVars

\* Defect kept for comparison: an unreadable result is taken for success.
UnreadableIsSuccess(w) ==
  /\ pc[w] = "gotLedger" /\ seen[w] = "Unreadable"
  /\ Finish(w, "ok")
  /\ UNCHANGED cur /\ UNCHANGED custodyVars

LedgerPending(w) ==
  /\ pc[w] = "gotLedger" /\ seen[w] = "Unreadable"
  /\ Finish(w, "pending")
  /\ UNCHANGED cur /\ UNCHANGED custodyVars

-----------------------------------------------------------------------------
(* The callers                                                              *)

\* The caller's rule: the key is replaced by a fresh one only once it is known
\* dead, and every other answer is retried, if at all, under the same key.
Return(w) ==
  /\ pc[w] \in Answers
  /\ cur' = IF pc[w] = "dead" /\ key[w] = cur /\ cur < MaxKey THEN cur + 1 ELSE cur
  /\ pc' = [pc EXCEPT ![w] = "idle"]
  /\ key' = [key EXCEPT ![w] = 1]
  /\ UNCHANGED <<mode, budget, seen, hash>> /\ UNCHANGED custodyVars

\* The process dies.  What it had sent may still be processed.
Crash(w) ==
  /\ pc[w] \in Working
  /\ pc' = [pc EXCEPT ![w] = "idle"]
  /\ mode' = [mode EXCEPT ![w] = "sync"]
  /\ key' = [key EXCEPT ![w] = 1]
  /\ budget' = [budget EXCEPT ![w] = 0]
  /\ seen' = [seen EXCEPT ![w] = "nothing"]
  /\ hash' = [hash EXCEPT ![w] = 1]
  /\ late' = IF pc[w] = "posted" THEN late \cup {key[w]} ELSE late
  /\ UNCHANGED <<cur, intent, visible, status, result>>

-----------------------------------------------------------------------------
(* Custody and the ledger                                                   *)

\* A proposal whose sender is gone arrives: created, or a duplicate.
LatePost(k) ==
  /\ k \in late
  /\ late' = late \ {k}
  /\ intent' = [intent EXCEPT ![k] = IF @ = "None" THEN "Open" ELSE @]
  /\ UNCHANGED <<cur, visible, status, result>> /\ UNCHANGED callVars

Reveal(k) ==
  /\ intent[k] # "None" /\ ~visible[k]
  /\ visible' = [visible EXCEPT ![k] = TRUE]
  /\ UNCHANGED <<cur, late, intent, status, result>> /\ UNCHANGED callVars

\* Approval, policy and expiry settle the intent (Approved and Executing are
\* as undecided as Open to every reader).
Decide(k, s) ==
  /\ intent[k] = "Open" /\ s \in {"Executed"} \cup IntentFailures
  /\ intent' = [intent EXCEPT ![k] = s]
  /\ UNCHANGED <<cur, late, visible, status, result>> /\ UNCHANGED callVars

NoResult(k) == \A j \in Attempts : result[k][j] = "none"
SetStatus(k, i, s) == status' = [status EXCEPT ![k] = [@ EXCEPT ![i] = s]]

\* The order's first transaction, or a resubmission at a higher fee of one
\* that is not settled (already marked Replaced, or about to be).
Register(k, i) ==
  /\ intent[k] = "Executed" /\ NoResult(k)
  /\ \A j \in Attempts : IF j < i THEN status[k][j] \in {"Detected", "Replaced"}
                                  ELSE status[k][j] = "None"
  /\ SetStatus(k, i, "Detected")
  /\ UNCHANGED <<cur, late, intent, visible, result>> /\ UNCHANGED callVars

\* An attempt another one supersedes: a later one registered, or about to be,
\* or an earlier one that won.  An attempt on the ledger is never superseded.
Replace(k, i) ==
  /\ status[k][i] = "Detected" /\ result[k][i] = "none"
  /\ \/ \E j \in Attempts : (j > i /\ status[k][j] = "Detected") \/ result[k][j] # "none"
     \/ i < MaxAttempt /\ status[k][i + 1] = "None"
  /\ SetStatus(k, i, "Replaced")
  /\ UNCHANGED <<cur, late, intent, visible, result>> /\ UNCHANGED callVars

\* Custody gives up on the order: its only attempt left can no longer apply.
GiveUp(k, i, s) ==
  /\ status[k][i] = "Detected" /\ NoResult(k) /\ s \in {"Expired", "GaveUp"}
  /\ \A j \in Attempts \ {i} : status[k][j] \in {"None", "Replaced"}
  /\ SetStatus(k, i, s)
  /\ UNCHANGED <<cur, late, intent, visible, result>> /\ UNCHANGED callVars

\* The attempts of an order share an account Sequence: the ledger takes one.
Apply(k, i, r) ==
  /\ status[k][i] = "Detected" /\ NoResult(k) /\ r \in {"tes", "tec"}
  /\ result' = [result EXCEPT ![k] = [@ EXCEPT ![i] = r]]
  /\ UNCHANGED <<cur, late, intent, visible, status>> /\ UNCHANGED callVars

\* Custody notices.  A tec may be listed as a failure or as plain Confirmed.
Report(k, i, s) ==
  /\ status[k][i] = "Detected"
  /\ \/ result[k][i] # "none" /\ s = "Confirmed"
     \/ result[k][i] = "tec" /\ s = "FailedOnChain"
  /\ SetStatus(k, i, s)
  /\ UNCHANGED <<cur, late, intent, visible, result>> /\ UNCHANGED callVars

-----------------------------------------------------------------------------
(* What a call does by itself once begun: every request ends, at the latest
   with its own timeout. *)
Proceed(w) ==
  \/ Refuse(w) \/ DryRunPasses(w)
  \/ ServePost(w) \/ PostUnanswered(w) \/ HandlePost(w)
  \/ ServeIntent(w) \/ ReadFails(w)
  \/ IntentExecuted(w) \/ IntentDead(w) \/ IntentAgain(w) \/ IntentPending(w)
  \/ ServeTx(w) \/ TxDead(w) \/ TxConfirmed(w) \/ TxAgain(w) \/ TxPending(w)
  \/ ServeLedger(w) \/ LedgerSuccess(w) \/ LedgerFailure(w)
  \/ LedgerAgain(w) \/ LedgerPending(w)
  \/ Return(w)

Worker(w) == Submit(w) \/ AwaitIntent(w) \/ AwaitOnChain(w) \/ Proceed(w) \/ Crash(w)

Custody(k) ==
  \/ LatePost(k) \/ Reveal(k)
  \/ \E s \in {"Executed"} \cup IntentFailures : Decide(k, s)
  \/ \E i \in Attempts :
       \/ Register(k, i) \/ Replace(k, i)
       \/ \E s \in {"Expired", "GaveUp"} : GiveUp(k, i, s)
       \/ \E r \in {"tes", "tec"} : Apply(k, i, r)
       \/ \E s \in {"Confirmed", "FailedOnChain"} : Report(k, i, s)

Next == (\E w \in Workers : Worker(w)) \/ (\E k \in Keys : Custody(k))

Spec == Init /\ [][Next]_vars

(***************************************************************************)
(* Properties                                                              *)
(***************************************************************************)

AppliedAs(k, r) == \E i \in Attempts : result[k][i] = r

\* Nothing the key's order can still do will apply the write.
Dead(k) ==
  \/ intent[k] \in IntentFailures
  \/ \E i \in Attempts : status[k][i] \in {"Expired", "GaveUp"}
  \/ AppliedAs(k, "tec")

\* The write is applied to the ledger at most once, whatever is retried, times
\* out, arrives late or crashes: two successful transactions are one and the
\* same (postNativeIntent's id and 409 rule, and the pending/dead verdicts the
\* callers choose their next key by).
AppliedAtMostOnce ==
  \A k1, k2 \in Keys, i1, i2 \in Attempts :
    result[k1][i1] = "tes" /\ result[k2][i2] = "tes" => k1 = k2 /\ i1 = i2

\* A submission that returns a result has been applied, with tesSUCCESS
\* (submitNative returns only past assertOnLedgerSuccess).
SuccessIsOnLedger == \A w \in Workers : pc[w] = "ok" => AppliedAs(key[w], "tes")

\* A key reported dead, to a call that has not returned yet or to one that
\* moved the callers to the next key, has not applied the write and cannot:
\* "retry only with a fresh idempotency key" is safe advice.
DeadNeverApplies ==
  \A k \in Keys :
    (k < cur \/ \E w \in Workers : pc[w] = "dead" /\ key[w] = k)
      => Dead(k) /\ ~AppliedAs(k, "tes")

\* The ledger takes one transaction of an order, and only a live attempt; an
\* order Custody gave up on has none left; nothing is registered for an intent
\* that is not Executed.
OrderInv ==
  \A k \in Keys, i \in Attempts :
    /\ \A j \in Attempts : result[k][i] # "none" /\ result[k][j] # "none" => i = j
    /\ result[k][i] # "none" => status[k][i] \in {"Detected", "Confirmed", "FailedOnChain"}
    /\ status[k][i] = "FailedOnChain" => result[k][i] = "tec"
    /\ status[k][i] \in {"Expired", "GaveUp"} =>
         \A j \in Attempts : /\ result[k][j] = "none"
                             /\ j # i => status[k][j] \in {"None", "Replaced"}
    /\ intent[k] # "Executed" => status[k][i] = "None"

\* Keys are used in order, and each one left behind is dead.
KeysInv ==
  /\ \A k \in Keys : /\ k < cur => Dead(k)
                     /\ k > cur => intent[k] = "None" /\ k \notin late
  /\ \A w \in Workers : key[w] <= cur

\* What a call has read, or has answered, is true of its key.
ReadingInv(w) ==
  /\ pc[w] = "gotIntent" /\ seen[w] \in IntentFailures => intent[key[w]] = seen[w]
  /\ pc[w] = "gotTx" /\ seen[w] = "Dead" => Dead(key[w])
  /\ pc[w] = "gotLedger" /\ seen[w] \in {"tes", "tec"} => AppliedAs(key[w], seen[w])
  /\ pc[w] = "dead" => Dead(key[w])
  /\ pc[w] = "ok" => AppliedAs(key[w], "tes")

\* The inductive invariant of the submission: no step of a caller, of Custody or
\* of the ledger leaves it, and it implies the three properties above.
SubmissionInv == TypeOK /\ OrderInv /\ KeysInv /\ \A w \in Workers : ReadingInv(w)

\* Requests end and timers fire.
FairSpec == Spec /\ \A w \in Workers : WF_vars(Proceed(w))

\* Every call comes back, with no help from Custody or the ledger: each of the
\* three loops runs into its deadline.
CallsReturn == \A w \in Workers : pc[w] \in Working ~> pc[w] \notin Working

SubmitSync(w) == \E label \in {"dryRun", "posted"} : Begin(w, "sync", label)
Settle(k) == \E i \in Attempts :
  \/ Register(k, i) \/ Replace(k, i)
  \/ \E s \in {"Expired", "GaveUp"} : GiveUp(k, i, s)
  \/ \E r \in {"tes", "tec"} : Apply(k, i, r)
  \/ \E s \in {"Confirmed", "FailedOnChain"} : Report(k, i, s)

\* Callers keep retrying, and Custody and the ledger get on with it.
Settling ==
  /\ \A w \in Workers : SF_vars(SubmitSync(w))
  /\ \A k \in Keys : /\ WF_vars(Reveal(k)) /\ WF_vars(Settle(k))
                     /\ WF_vars(\E s \in {"Executed"} \cup IntentFailures : Decide(k, s))

\* A crash, a refusal, or a request without a proper answer.
Disturbance ==
  \E w \in Workers :
    \/ pc[w] \in Working /\ pc'[w] = "idle"
    \/ pc[w] = "dryRun" /\ pc'[w] = "refused"
    \/ pc[w] \in {"posted", "getIntent", "getTx"} /\ pc'[w] = "unknown"
    \/ pc[w] = "getIntent" /\ pc'[w] = "gotIntent" /\ seen'[w] = "Unreadable" /\ visible[key[w]]
    \/ pc[w] = "getTx" /\ pc'[w] = "gotTx" /\ ~ListingSays(key[w], seen'[w], hash'[w])
    \/ pc[w] = "getLedger" /\ pc'[w] = "gotLedger" /\ seen'[w] = "Unreadable"

\* If everyone gets on with it and disturbances stop, retrying under the documented rule ends: a call
\* returns success, or the callers have found every key they have dead.  A 409
\* must therefore lead a retry to the existing intent's outcome.
RetriesConclude ==
  (Settling /\ <>[][~Disturbance]_vars)
    => <>(\/ \E w \in Workers : pc[w] = "ok"
          \/ cur = MaxKey /\ \E w \in Workers : pc[w] = "dead" /\ key[w] = MaxKey)

\* The write as the callers see it: which key is in use, what became of each
\* key, and the definite answers given.
Write == INSTANCE AtMostOnceWrite WITH
  current <- cur,
  fate <- [k \in Keys |-> IF AppliedAs(k, "tes") THEN "applied"
                          ELSE IF Dead(k) THEN "dead" ELSE "open"],
  verdict <- [w \in Workers |-> IF pc[w] \in {"ok", "dead"} THEN pc[w]
                                ELSE IF pc[w] \in Answers THEN "unsure" ELSE "none"]

\* The calls, Custody and the ledger together behave as one write that is
\* applied at most once and whose definite answers are true.
ImplementsAtMostOnceWrite == Write!Spec
=============================================================================
