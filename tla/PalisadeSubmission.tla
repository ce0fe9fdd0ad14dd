------------------------ MODULE PalisadeSubmission ------------------------
(***************************************************************************)
(* Native submission through Palisade: PalisadeCustody.submitAndWait,      *)
(* submitAsync and the handles of PalisadeTxTracker.                       *)
(*                                                                         *)
(* Workers (processes, or concurrent calls of one process) drive ONE       *)
(* logical write under the idempotency key in use, `cur'.  Palisade knows  *)
(* a transaction by an id of its own, learnt from the answer to the POST:  *)
(* a call whose POST goes unanswered cannot ask after its transaction.     *)
(* Only a transfer carries the key, so only transfers are de-duplicated.   *)
(*                                                                         *)
(* Palisade and the ledger are external: a transaction is CONFIRMED once   *)
(* it is on the ledger, whatever its engine result, and REJECTED or FAILED *)
(* only if it never gets there (PalisadeRejectedError).                    *)
(***************************************************************************)
EXTENDS Naturals

CONSTANTS Workers,    \* concurrent callers driving the write
          MaxKey,     \* bound: idempotency keys the callers may use
          MaxTx,      \* bound: transactions Palisade may be made to create
          MaxBudget   \* timeoutMs, in ticks: further reads a poll may make

ASSUME BoundsAssumption == /\ MaxKey \in Nat \ {0}
                           /\ MaxTx \in Nat \ {0}
                           /\ MaxBudget \in Nat \ {0}

Keys == 1..MaxKey
Txs == 1..MaxTx

\* What is written: a Payment Palisade can transfer, another transactor with a
\* native operation, or a transaction with no native form (its transactor has
\* none, or one of its fields has no slot).
Operations == {"transfer", "operation", "unmappable"}

Failures == {"REJECTED", "FAILED"}
TxStatus == {"None", "PENDING", "CONFIRMED"} \cup Failures
Results == {"none", "tes", "tec"}

\* A name starting with "got" holds an answer in `seen'.
Working == {"posted", "getTx", "gotTx", "getLedger", "gotLedger"}
\* SubmissionResult, resolved wait, resolved poll, IntentPendingError, terminal
\* error, SignerCapabilityError before anything is sent, the raw path taken
\* instead, an outcome left unknown (PalisadeApiError, a transport error).
Answers == {"ok", "confirmed", "snapshot", "pending", "dead", "refused", "raw", "unknown"}
Modes == {"sync", "async", "wait", "poll"}

VARIABLES
  operation, allowRaw,           \* the write and the custodian's option, fixed
  cur,                           \* the key the callers currently use
  used,                          \* keys a POST has been sent under
  careful,                       \* history: no operation was sent twice under a key
  pc, mode, key, tx, budget, seen,  \* per worker: the call in progress
  submitted,                     \* per worker: the status its handle was made with
  late,                          \* keys with a POST in the network, its sender gone
  owner, status, result          \* Palisade and ledger: each transaction

callVars == <<pc, mode, key, tx, budget, seen, submitted>>
callerVars == <<operation, allowRaw, cur, used, careful>>
backendVars == <<late, owner, status, result>>
vars == <<operation, allowRaw, cur, used, careful, pc, mode, key, tx, budget, seen,
          submitted, late, owner, status, result>>

TypeOK ==
  /\ operation \in Operations /\ allowRaw \in BOOLEAN
  /\ cur \in Keys /\ used \in SUBSET Keys /\ careful \in BOOLEAN
  /\ pc \in [Workers -> {"idle", "handle"} \cup Working \cup Answers]
  /\ mode \in [Workers -> Modes]
  /\ key \in [Workers -> Keys]
  /\ tx \in [Workers -> 0..MaxTx]
  /\ budget \in [Workers -> 0..MaxBudget]
  /\ seen \in [Workers -> {"nothing", "Unreadable"} \cup TxStatus \cup Results]
  /\ submitted \in [Workers -> TxStatus]
  /\ late \in SUBSET Keys
  /\ owner \in [Txs -> 0..MaxKey]
  /\ status \in [Txs -> TxStatus]
  /\ result \in [Txs -> Results]

Init ==
  /\ operation \in Operations /\ allowRaw \in BOOLEAN
  /\ cur = 1 /\ used = {} /\ careful = TRUE
  /\ pc = [w \in Workers |-> "idle"]
  /\ mode = [w \in Workers |-> "sync"]
  /\ key = [w \in Workers |-> 1]
  /\ tx = [w \in Workers |-> 0]
  /\ budget = [w \in Workers |-> 0]
  /\ seen = [w \in Workers |-> "nothing"]
  /\ submitted = [w \in Workers |-> "None"]
  /\ late = {}
  /\ owner = [t \in Txs |-> 0]
  /\ status = [t \in Txs |-> "None"]
  /\ result = [t \in Txs |-> "none"]

-----------------------------------------------------------------------------
(* Steps of a call                                                          *)

Goto(w, label) == pc' = [pc EXCEPT ![w] = label]

\* The call ends; a handle, and the id of its transaction, outlive it.
Finish(w, answer) ==
  /\ Goto(w, answer)
  /\ seen' = [seen EXCEPT ![w] = "nothing"]
  /\ budget' = [budget EXCEPT ![w] = 0]
  /\ UNCHANGED <<mode, key, tx, submitted>>

Receive(w, label, reading) ==
  /\ Goto(w, label)
  /\ seen' = [seen EXCEPT ![w] = reading]
  /\ UNCHANGED <<mode, key, tx, budget, submitted>>

-----------------------------------------------------------------------------
(* Sending the write                                                        *)

HasNativeForm == operation # "unmappable"

\* assertContextHonored, walletRef, or a write this path cannot carry: an async
\* one without a native form, or any such one with raw signing disabled.
Refuse(w) ==
  /\ pc[w] = "idle"
  /\ Finish(w, "refused")
  /\ UNCHANGED callerVars /\ UNCHANGED backendVars

\* submitAndWait leaves a write without a native form to the raw path.
FallBack(w) ==
  /\ pc[w] = "idle" /\ ~HasNativeForm /\ allowRaw
  /\ Goto(w, "raw")
  /\ mode' = [mode EXCEPT ![w] = "sync"]
  /\ key' = [key EXCEPT ![w] = cur]
  /\ UNCHANGED <<tx, budget, seen, submitted>> /\ UNCHANGED callerVars /\ UNCHANGED backendVars

\* Defect kept for comparison: the transfer is sent without its externalId.
CarriesNoKey == FALSE

\* The key goes along as externalId, on the one body that has a field for it.
CarriesKey == operation = "transfer"

Submit(w) ==
  /\ pc[w] = "idle" /\ HasNativeForm
  /\ Goto(w, "posted")
  /\ \E m \in {"sync", "async"} : mode' = [mode EXCEPT ![w] = m]
  /\ key' = [key EXCEPT ![w] = cur]
  /\ used' = used \cup {cur}
  /\ careful' = (careful /\ (CarriesKey \/ cur \notin used))
  /\ UNCHANGED <<operation, allowRaw, cur, tx, budget, seen, submitted>>
  /\ UNCHANGED backendVars

\* The transaction that a POST under key k comes to stand for: the one already
\* made, if the key tells, and otherwise a new one.
Resolves(k, t) ==
  IF CarriesKey /\ \E u \in Txs : owner[u] = k
  THEN owner[t] = k
  ELSE owner[t] = 0 /\ \A u \in Txs : u < t => owner[u] # 0

Made(k, t) ==
  /\ Resolves(k, t)
  /\ owner' = [owner EXCEPT ![t] = k]
  /\ status' = [status EXCEPT ![t] = IF @ = "None" THEN "PENDING" ELSE @]
  /\ UNCHANGED result

\* The answer shows the transaction as it now is: submitAndWait polls on from
\* there, submitAsync makes a handle of it.
ServePost(w) ==
  /\ pc[w] = "posted"
  /\ \E t \in Txs :
       /\ Made(key[w], t)
       /\ tx' = [tx EXCEPT ![w] = t]
       /\ IF mode[w] = "sync"
          THEN /\ Goto(w, "gotTx")
               /\ seen' = [seen EXCEPT ![w] = status'[t]]
               /\ budget' = [budget EXCEPT ![w] = MaxBudget]
               /\ UNCHANGED submitted
          ELSE /\ Goto(w, "handle")
               /\ submitted' = [submitted EXCEPT ![w] = status'[t]]
               /\ UNCHANGED <<seen, budget>>
  /\ UNCHANGED <<mode, key, late>> /\ UNCHANGED callerVars

\* Defect kept for comparison: any error of the native path leads to the raw one.
AnyErrorFallsBack(w) ==
  /\ pc[w] = "posted"
  /\ Finish(w, IF allowRaw THEN "raw" ELSE "unknown")
  /\ late' = late \cup {key[w]}
  /\ UNCHANGED <<owner, status, result>> /\ UNCHANGED callerVars

\* An error answer, or none.  The POST may be processed at any later moment.
PostFails(w) ==
  /\ pc[w] = "posted"
  /\ Finish(w, "unknown")
  /\ late' = late \cup {key[w]}
  /\ UNCHANGED <<owner, status, result>> /\ UNCHANGED callerVars

-----------------------------------------------------------------------------
(* Handles                                                                  *)

\* wait() starts from the answer the handle was made of, however old.
Wait(w) ==
  /\ pc[w] = "handle"
  /\ Goto(w, "gotTx")
  /\ mode' = [mode EXCEPT ![w] = "wait"]
  /\ seen' = [seen EXCEPT ![w] = submitted[w]]
  /\ budget' = [budget EXCEPT ![w] = MaxBudget]
  /\ UNCHANGED <<key, tx, submitted>> /\ UNCHANGED callerVars /\ UNCHANGED backendVars

Poll(w) ==
  /\ pc[w] = "handle"
  /\ Goto(w, "getTx")
  /\ mode' = [mode EXCEPT ![w] = "poll"]
  /\ UNCHANGED <<key, tx, budget, seen, submitted>> /\ UNCHANGED callerVars /\ UNCHANGED backendVars

-----------------------------------------------------------------------------
(* Waiting for a terminal status: PalisadeTxTracker.pollUntil               *)

\* poll() hands over whatever it finds.
ServeTx(w) ==
  /\ pc[w] = "getTx"
  /\ IF mode[w] = "poll" THEN Finish(w, "snapshot") ELSE Receive(w, "gotTx", status[tx[w]])
  /\ UNCHANGED callerVars /\ UNCHANGED backendVars

\* A failed GET is thrown to the caller.
ReadFails(w) ==
  /\ pc[w] = "getTx"
  /\ Finish(w, "unknown")
  /\ UNCHANGED callerVars /\ UNCHANGED backendVars

TxRejected(w) ==
  /\ pc[w] = "gotTx" /\ seen[w] \in Failures
  /\ Finish(w, "dead")
  /\ UNCHANGED callerVars /\ UNCHANGED backendVars

\* wait() is content; submitAndWait reads the engine result, for which it needs
\* the hash, and Palisade may not have given one.
TxConfirmed(w) ==
  /\ pc[w] = "gotTx" /\ seen[w] = "CONFIRMED"
  /\ \/ mode[w] = "wait" /\ Finish(w, "confirmed")
     \/ mode[w] = "sync" /\ Finish(w, "pending")
     \/ /\ mode[w] = "sync"
        /\ Goto(w, "getLedger")
        /\ seen' = [seen EXCEPT ![w] = "nothing"]
        /\ budget' = [budget EXCEPT ![w] = MaxBudget]
        /\ UNCHANGED <<mode, key, tx, submitted>>
  /\ UNCHANGED callerVars /\ UNCHANGED backendVars

\* Both loops go on only if the next delay ends before the deadline.
PollAgain(w, label) ==
  /\ \E delay \in 1..MaxBudget :
       /\ delay <= budget[w]
       /\ budget' = [budget EXCEPT ![w] = budget[w] - delay]
  /\ Goto(w, label)
  /\ seen' = [seen EXCEPT ![w] = "nothing"]
  /\ UNCHANGED <<mode, key, tx, submitted>>

TxAgain(w) ==
  /\ pc[w] = "gotTx" /\ seen[w] = "PENDING"
  /\ PollAgain(w, "getTx")
  /\ UNCHANGED callerVars /\ UNCHANGED backendVars

TxPending(w) ==
  /\ pc[w] = "gotTx" /\ seen[w] = "PENDING"
  /\ Finish(w, "pending")
  /\ UNCHANGED callerVars /\ UNCHANGED backendVars

-----------------------------------------------------------------------------
(* Reading the engine result: assertOnLedgerSuccess                         *)

ServeLedger(w) ==
  /\ pc[w] = "getLedger"
  /\ \/ result[tx[w]] # "none" /\ Receive(w, "gotLedger", result[tx[w]])
     \/ Receive(w, "gotLedger", "Unreadable")
  /\ UNCHANGED callerVars /\ UNCHANGED backendVars

LedgerResult(w) ==
  /\ pc[w] = "gotLedger" /\ seen[w] \in {"tes", "tec"}
  /\ Finish(w, IF seen[w] = "tes" THEN "ok" ELSE "dead")
  /\ UNCHANGED callerVars /\ UNCHANGED backendVars

LedgerAgain(w) ==
  /\ pc[w] = "gotLedger" /\ seen[w] = "Unreadable"
  /\ PollAgain(w, "getLedger")
  /\ UNCHANGED callerVars /\ UNCHANGED backendVars

\* Defect kept for comparison: an unreadable result is taken for success.
UnreadableIsSuccess(w) ==
  /\ pc[w] = "gotLedger" /\ seen[w] = "Unreadable"
  /\ Finish(w, "ok")
  /\ UNCHANGED callerVars /\ UNCHANGED backendVars

LedgerPending(w) ==
  /\ pc[w] = "gotLedger" /\ seen[w] = "Unreadable"
  /\ Finish(w, "pending")
  /\ UNCHANGED callerVars /\ UNCHANGED backendVars

-----------------------------------------------------------------------------
(* The callers                                                              *)

Forget(w) ==
  /\ Goto(w, "idle")
  /\ mode' = [mode EXCEPT ![w] = "sync"]
  /\ key' = [key EXCEPT ![w] = 1]
  /\ tx' = [tx EXCEPT ![w] = 0]
  /\ budget' = [budget EXCEPT ![w] = 0]
  /\ seen' = [seen EXCEPT ![w] = "nothing"]
  /\ submitted' = [submitted EXCEPT ![w] = "None"]

\* The caller's rule: a fresh key only once the key in use is known dead.  A
\* handle may be asked again, or dropped.
Return(w) ==
  /\ pc[w] \in Answers
  /\ cur' = IF pc[w] = "dead" /\ key[w] = cur /\ cur < MaxKey THEN cur + 1 ELSE cur
  /\ \/ Forget(w)
     \/ /\ mode[w] \in {"wait", "poll"} /\ Goto(w, "handle")
        /\ mode' = [mode EXCEPT ![w] = "async"]
        /\ UNCHANGED <<key, tx, budget, seen, submitted>>
  /\ UNCHANGED <<operation, allowRaw, used, careful>> /\ UNCHANGED backendVars

\* The process dies, or a handle is dropped: the transaction's id is gone.
Crash(w) ==
  /\ pc[w] \in Working \cup {"handle"}
  /\ Forget(w)
  /\ late' = IF pc[w] = "posted" THEN late \cup {key[w]} ELSE late
  /\ UNCHANGED <<owner, status, result>> /\ UNCHANGED callerVars

-----------------------------------------------------------------------------
(* Palisade and the ledger                                                  *)

LatePost(k) ==
  /\ k \in late
  /\ late' = late \ {k}
  /\ \E t \in Txs : Made(k, t)
  /\ UNCHANGED callerVars /\ UNCHANGED callVars

\* Approval fails, or Palisade does: only short of the ledger.
Fail(t, s) ==
  /\ status[t] = "PENDING" /\ result[t] = "none"
  /\ status' = [status EXCEPT ![t] = s]
  /\ UNCHANGED <<late, owner, result>> /\ UNCHANGED callerVars /\ UNCHANGED callVars

Apply(t, r) ==
  /\ status[t] = "PENDING" /\ result[t] = "none"
  /\ result' = [result EXCEPT ![t] = r]
  /\ UNCHANGED <<late, owner, status>> /\ UNCHANGED callerVars /\ UNCHANGED callVars

Confirm(t) ==
  /\ status[t] = "PENDING" /\ result[t] # "none"
  /\ status' = [status EXCEPT ![t] = "CONFIRMED"]
  /\ UNCHANGED <<late, owner, result>> /\ UNCHANGED callerVars /\ UNCHANGED callVars

-----------------------------------------------------------------------------
Worker(w) ==
  \/ Refuse(w) \/ FallBack(w) \/ Submit(w)
  \/ ServePost(w) \/ PostFails(w)
  \/ Wait(w) \/ Poll(w) \/ ServeTx(w) \/ ReadFails(w)
  \/ TxRejected(w) \/ TxConfirmed(w) \/ TxAgain(w) \/ TxPending(w)
  \/ ServeLedger(w) \/ LedgerResult(w) \/ LedgerAgain(w) \/ LedgerPending(w)
  \/ Return(w) \/ Crash(w)

Backend ==
  \/ \E k \in Keys : LatePost(k)
  \/ \E t \in Txs : \/ Confirm(t)
                    \/ \E s \in Failures : Fail(t, s)
                    \/ \E r \in {"tes", "tec"} : Apply(t, r)

Next == Backend \/ \E w \in Workers : Worker(w)

Spec == Init /\ [][Next]_vars

(***************************************************************************)
(* Properties                                                              *)
(***************************************************************************)

IsTransfer == operation = "transfer"
DeadTx(t) == status[t] \in Failures \/ result[t] = "tec"

\* The write is applied at most once: a transfer under any retries, late POSTs
\* and crashes, for its key goes along; another operation as long as its callers
\* resend it only when the attempt before is dead (domain/model.ts says so).
AppliedAtMostOnce ==
  IsTransfer \/ careful =>
    \A t, u \in Txs : result[t] = "tes" /\ result[u] = "tes" => t = u

\* How a native attempt ends is true of what Palisade and the ledger have done.
\* submitAndWait returns a result only for a transaction applied with tesSUCCESS
\* (CONFIRMED alone does not say so), a handle's wait only for one that is on the
\* ledger; one reported dead never applies, whatever comes late; and a write handed
\* to the raw path has not been sent natively as well, since the catch in
\* submitAndWait sees no capability error once something has been posted.
EndsAreTrue ==
  \A w \in Workers :
    /\ pc[w] = "ok" => result[tx[w]] = "tes"
    /\ pc[w] = "confirmed" => result[tx[w]] # "none"
    /\ pc[w] = "dead" => DeadTx(tx[w])
    /\ pc[w] = "raw" => key[w] \notin used \cup late /\ \A t \in Txs : owner[t] # key[w]

-----------------------------------------------------------------------------
(* The inductive invariant.                                                  *)

\* A transaction exists for a POST under a key; Palisade fails it only short of the
\* ledger, and confirms it only on it.
TxInv ==
  \A t \in Txs :
    /\ (owner[t] = 0) <=> (status[t] = "None")
    /\ owner[t] \in used \cup {0}
    /\ status[t] \in Failures \cup {"None"} => result[t] = "none"
    /\ status[t] = "CONFIRMED" => result[t] # "none"

\* Keys are used in order, and each one left behind has a dead transaction.
KeysInv ==
  /\ late \subseteq used /\ used \subseteq 1..cur
  /\ operation = "unmappable" => used = {}
  /\ \A k \in Keys : k < cur => \E t \in Txs : owner[t] = k /\ DeadTx(t)

\* A key stands for one transaction: Palisade tells by the key, or nothing else is
\* or will be under way with it.
OneEach ==
  /\ IsTransfer \/ careful => \A t, u \in Txs : owner[t] # 0 /\ owner[t] = owner[u] => t = u
  /\ ~IsTransfer /\ careful =>
       /\ \A k \in late, t \in Txs : owner[t] # k
       /\ \A w \in Workers : pc[w] = "posted" =>
            /\ key[w] \notin late /\ \A t \in Txs : owner[t] # key[w]
            /\ \A v \in Workers : pc[v] = "posted" /\ key[v] = key[w] => v = w

\* A call that has its transaction's id holds true answers about it.
CallInv(w) ==
  LET HasTx == tx[w] \in Txs /\ owner[tx[w]] = key[w]
  IN  /\ key[w] <= cur
      /\ pc[w] = "posted" => key[w] \in used
      /\ pc[w] \in {"idle", "posted"} => submitted[w] = "None"
      /\ pc[w] = "raw" => operation = "unmappable"
      /\ pc[w] \in (Working \ {"posted"}) \cup {"handle", "ok", "confirmed", "dead"} => HasTx
      /\ mode[w] \in {"wait", "poll"} => HasTx
      /\ submitted[w] \in Failures \cup {"CONFIRMED"} => HasTx /\ status[tx[w]] = submitted[w]
      /\ pc[w] = "gotTx" /\ seen[w] \in Failures \cup {"CONFIRMED"} => status[tx[w]] = seen[w]
      /\ pc[w] = "gotLedger" /\ seen[w] \in {"tes", "tec"} => result[tx[w]] = seen[w]
      /\ pc[w] = "ok" => result[tx[w]] = "tes"
      /\ pc[w] = "confirmed" => result[tx[w]] # "none"
      /\ pc[w] = "dead" => DeadTx(tx[w])

NativeInv == TypeOK /\ TxInv /\ KeysInv /\ OneEach /\ \A w \in Workers : CallInv(w)

-----------------------------------------------------------------------------
\* A transfer behaves as one write that is applied at most once and whose
\* definite answers are true; of other writes no such promise is made (they map
\* to a write nobody has begun).
AppliedUnder(k) == IsTransfer /\ \E t \in Txs : owner[t] = k /\ result[t] = "tes"
DeadUnder(k) == IsTransfer /\ \E t \in Txs : owner[t] = k /\ DeadTx(t)

Write == INSTANCE AtMostOnceWrite WITH
  current <- IF IsTransfer THEN cur ELSE 1,
  fate <- [k \in Keys |-> IF AppliedUnder(k) THEN "applied"
                          ELSE IF DeadUnder(k) THEN "dead" ELSE "open"],
  verdict <- [w \in Workers |-> IF ~IsTransfer \/ pc[w] \notin Answers THEN "none"
                                ELSE IF pc[w] \in {"ok", "dead"} THEN pc[w] ELSE "unsure"]

ImplementsAtMostOnceWrite == Write!Spec
=============================================================================
