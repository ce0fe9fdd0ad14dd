---------------------- MODULE PalisadeSubmissionProofs ----------------------
(***************************************************************************)
(* Proofs about PalisadeSubmission, for any set of workers and any bounds. *)
(***************************************************************************)
EXTENDS PalisadeSubmission, TLAPS

LEMMA ConstantFacts == 1 \in Keys /\ 0 \in 0..MaxBudget /\ MaxBudget \in 0..MaxBudget /\ 0 \in 0..MaxTx
  BY BoundsAssumption DEF Keys

-----------------------------------------------------------------------------
(* Palisade and the ledger                                                  *)

\* What may happen to the transactions in any step: one that exists keeps its
\* key, and what has become of it is final.
TxFrame ==
  /\ operation' = operation
  /\ cur' \in Nat /\ cur <= cur'
  /\ used \subseteq used'
  /\ \A t \in Txs :
       /\ owner[t] # 0 => owner'[t] = owner[t]
       /\ status[t] \in Failures \cup {"CONFIRMED"} => status'[t] = status[t]
       /\ result[t] # "none" => result'[t] = result[t]

\* A POST creates a transaction that is pending under its key, unless it finds
\* the one it stands for.
LEMMA MadeFrame ==
  ASSUME TypeOK, TxInv, NEW k \in Keys, NEW t \in Txs, Made(k, t)
  PROVE  /\ owner' \in [Txs -> 0..MaxKey] /\ status' \in [Txs -> TxStatus]
         /\ \A u \in Txs \ {t} : owner'[u] = owner[u] /\ status'[u] = status[u]
         /\ result' = result
         /\ owner'[t] = k /\ k # 0
         /\ \/ owner[t] = k /\ status'[t] = status[t]
            \/ /\ owner[t] = 0 /\ status[t] = "None" /\ status'[t] = "PENDING" /\ result[t] = "none"
               /\ CarriesKey => \A u \in Txs : owner[u] # k
<1>1. k \in 0..MaxKey /\ k # 0
  BY BoundsAssumption DEF Keys
<1>2. owner' = [owner EXCEPT ![t] = k] /\ result' = result
  BY DEF Made
<1>3. status' = [status EXCEPT ![t] = IF status[t] = "None" THEN "PENDING" ELSE status[t]]
  BY DEF Made
<1>4. owner' \in [Txs -> 0..MaxKey] /\ status' \in [Txs -> TxStatus]
  BY <1>1, <1>2, <1>3 DEF TypeOK, TxStatus
<1>5. \A u \in Txs \ {t} : owner'[u] = owner[u] /\ status'[u] = status[u]
  BY <1>2, <1>3 DEF TypeOK
<1>6. owner'[t] = k
  BY <1>2 DEF TypeOK
<1>7. \/ owner[t] = k
      \/ owner[t] = 0 /\ (CarriesKey => \A u \in Txs : owner[u] # k)
  BY DEF Made, Resolves
<1>8. CASE owner[t] = k
  BY <1>1, <1>2, <1>3, <1>4, <1>5, <1>6, <1>8 DEF TypeOK, TxInv
<1>9. CASE owner[t] = 0 /\ (CarriesKey => \A u \in Txs : owner[u] # k)
  <2>1. status[t] = "None" /\ result[t] = "none"
    BY <1>9 DEF TxInv, Failures
  <2>2. status'[t] = "PENDING"
    BY <1>3, <2>1 DEF TypeOK
  <2>. QED  BY <1>1, <1>2, <1>4, <1>5, <1>6, <1>9, <2>1, <2>2
<1>. QED  BY <1>7, <1>8, <1>9

\* A POST that is processed keeps what is known about transactions and keys, and
\* lets no second transaction stand for a key.
LEMMA MadeKeeps ==
  ASSUME TypeOK, TxInv, KeysInv, OneEach, NEW k \in used, NEW t \in Txs, Made(k, t),
         UNCHANGED callerVars, late' \subseteq late,
         ~IsTransfer /\ careful => \A u \in Txs : owner[u] # k
  PROVE  TxFrame /\ TxInv' /\ KeysInv'
         /\ (IsTransfer \/ careful => \A u, v \in Txs : owner'[u] # 0 /\ owner'[u] = owner'[v] => u = v)
<1>0. k \in Keys
  BY DEF TypeOK
<1>. USE MadeFrame, <1>0
<1>1. TxFrame
  BY DEF TxFrame, callerVars, TypeOK, Keys, TxInv, Failures
<1>2. TxInv'
  BY DEF TxInv, callerVars, Failures
<1>3. \A u \in Txs : DeadTx(u) => DeadTx(u)' /\ owner[u] # 0
  BY DEF TxInv, DeadTx, Failures
<1>4. KeysInv'
  <2>1. \A j \in Keys : j # 0
    BY DEF Keys
  <2>2. ASSUME NEW j \in Keys, j < cur  PROVE \E u \in Txs : owner'[u] = j /\ DeadTx(u)'
    BY <1>1, <1>3, <2>1, <2>2 DEF KeysInv, TxFrame
  <2>. QED  BY <2>2 DEF KeysInv, callerVars
<1>5. ASSUME IsTransfer \/ careful, NEW u \in Txs, NEW v \in Txs, owner'[u] # 0, owner'[u] = owner'[v]
      PROVE  u = v
  <2>1. owner[u] # 0 /\ owner[u] = owner[v] => u = v
    BY <1>5 DEF OneEach
  <2>2. IsTransfer <=> CarriesKey
    BY DEF IsTransfer, CarriesKey
  <2>. QED  BY <1>5, <2>1, <2>2
<1>. QED  BY <1>1, <1>2, <1>4, <1>5
-----------------------------------------------------------------------------
(* A call                                                                   *)

\* The variables of a call are well-typed, before and after a step of worker w.
CallType ==
  /\ pc \in [Workers -> {"idle", "handle"} \cup Working \cup Answers]
  /\ mode \in [Workers -> Modes]
  /\ key \in [Workers -> Keys]
  /\ tx \in [Workers -> 0..MaxTx]
  /\ budget \in [Workers -> 0..MaxBudget]
  /\ seen \in [Workers -> {"nothing", "Unreadable"} \cup TxStatus \cup Results]
  /\ submitted \in [Workers -> TxStatus]

OthersRest(w) ==
  \A v \in Workers \ {w} :
    /\ pc'[v] = pc[v] /\ mode'[v] = mode[v] /\ key'[v] = key[v] /\ tx'[v] = tx[v]
    /\ seen'[v] = seen[v] /\ submitted'[v] = submitted[v] /\ budget'[v] = budget[v]

\* What a call knows stays true while the transactions only settle.
LEMMA OthersKnow ==
  ASSUME TypeOK, NEW v \in Workers, CallInv(v), TxFrame,
         pc'[v] = pc[v], mode'[v] = mode[v], key'[v] = key[v], tx'[v] = tx[v],
         seen'[v] = seen[v], submitted'[v] = submitted[v]
  PROVE  CallInv(v)'
<1>1. key[v] <= cur' /\ key[v] \in Keys /\ key[v] # 0
  BY DEF TypeOK, TxFrame, CallInv, Keys
<1>2. tx[v] \in Txs /\ owner[tx[v]] = key[v] => owner'[tx[v]] = key[v]
  BY <1>1 DEF TxFrame
<1>3. ASSUME tx[v] \in Txs
      PROVE  /\ \A s \in Failures \cup {"CONFIRMED"} : status[tx[v]] = s => status'[tx[v]] = s
             /\ \A r \in {"tes", "tec"} : result[tx[v]] = r => result'[tx[v]] = r
             /\ result[tx[v]] # "none" => result'[tx[v]] # "none"
             /\ DeadTx(tx[v]) => DeadTx(tx[v])'
  BY <1>3 DEF TxFrame, DeadTx
<1>4. pc[v] \in {"gotTx", "gotLedger", "ok", "confirmed", "dead"} => tx[v] \in Txs
  BY DEF CallInv, Working
<1>. QED  BY <1>1, <1>2, <1>3, <1>4 DEF CallInv, TxFrame

\* Most steps of a call only read: they leave the callers' keys and the backend alone.
Reads(w) ==
  \/ Refuse(w) \/ FallBack(w) \/ Wait(w) \/ Poll(w) \/ ServeTx(w) \/ ReadFails(w)
  \/ TxRejected(w) \/ TxConfirmed(w) \/ TxAgain(w) \/ TxPending(w)
  \/ ServeLedger(w) \/ LedgerResult(w) \/ LedgerAgain(w) \/ LedgerPending(w)

LEMMA FinishType ==
  ASSUME CallType, NEW w \in Workers, NEW a \in Answers, Finish(w, a)
  PROVE  CallType' /\ OthersRest(w)
  BY ConstantFacts DEF CallType, Finish, Goto, OthersRest

LEMMA ReceiveType ==
  ASSUME CallType, NEW w \in Workers, NEW l \in Working,
         NEW r \in {"nothing", "Unreadable"} \cup TxStatus \cup Results, Receive(w, l, r)
  PROVE  CallType' /\ OthersRest(w)
  BY DEF CallType, Receive, Goto, OthersRest

LEMMA PollAgainType ==
  ASSUME CallType, NEW w \in Workers, NEW l \in Working, PollAgain(w, l)
  PROVE  CallType' /\ OthersRest(w)
<1>1. PICK d \in 1..MaxBudget : d <= budget[w] /\ budget' = [budget EXCEPT ![w] = budget[w] - d]
  BY DEF PollAgain
<1>2. budget' \in [Workers -> 0..MaxBudget]
  BY <1>1, BoundsAssumption DEF CallType
<1>. QED  BY <1>2 DEF CallType, PollAgain, Goto, OthersRest

\* A step that only reads leaves the call with answers that are true.
LEMMA ReadsKnow ==
  ASSUME NativeInv, NEW w \in Workers, Reads(w)
  PROVE  /\ CallType' /\ OthersRest(w) /\ CallInv(w)'
         /\ UNCHANGED callerVars /\ UNCHANGED backendVars
         /\ pc'[w] # "posted"
<1>. USE DEF Answers, Working
<1>1. CallType /\ CallInv(w) /\ key[w] \in Keys /\ cur \in Keys /\ \A k \in Keys : k <= k
  BY DEF NativeInv, TypeOK, CallType, Keys
<1>2. UNCHANGED callerVars /\ UNCHANGED backendVars
  BY DEF Reads, Refuse, FallBack, Wait, Poll, ServeTx, ReadFails, TxRejected, TxConfirmed, TxAgain,
         TxPending, ServeLedger, LedgerResult, LedgerAgain, LedgerPending
<1>3. UNCHANGED <<operation, cur, used, owner, status, result>>
  BY <1>2 DEF callerVars, backendVars
<1>. USE DEF CallInv, DeadTx
<1>4. CASE Refuse(w) \/ ReadFails(w) \/ TxPending(w) \/ LedgerPending(w)
  <2>1. PICK a \in {"refused", "unknown", "pending"} : Finish(w, a)
    BY <1>4 DEF Refuse, ReadFails, TxPending, LedgerPending
  <2>2. CallType' /\ OthersRest(w)
    BY <1>1, <2>1, FinishType
  <2>. QED  BY <1>1, <1>2, <1>3, <2>1, <2>2 DEF Finish, Goto, CallType
<1>5. CASE FallBack(w)
  BY <1>1, <1>2, <1>3, <1>5 DEF FallBack, Goto, CallType, OthersRest, HasNativeForm, Modes, Failures
<1>6. CASE Wait(w)
  BY <1>1, <1>2, <1>3, <1>6, ConstantFacts DEF Wait, Goto, CallType, OthersRest, Modes
<1>7. CASE Poll(w)
  BY <1>1, <1>2, <1>3, <1>7 DEF Poll, Goto, CallType, OthersRest, Modes
<1>8. CASE ServeTx(w)
  <2>1. tx[w] \in Txs /\ status[tx[w]] \in TxStatus
    BY <1>1, <1>8 DEF ServeTx, NativeInv, TypeOK
  <2>2. CASE Finish(w, "snapshot")
    <3>1. CallType' /\ OthersRest(w)
      BY <1>1, <2>2, FinishType
    <3>. QED  BY <1>1, <1>2, <1>3, <1>8, <2>2, <3>1 DEF ServeTx, Finish, Goto, CallType
  <2>3. CASE Receive(w, "gotTx", status[tx[w]])
    <3>1. CallType' /\ OthersRest(w)
      BY <1>1, <2>1, <2>3, ReceiveType
    <3>. QED  BY <1>1, <1>2, <1>3, <1>8, <2>3, <3>1 DEF ServeTx, Receive, Goto, CallType
  <2>. QED  BY <1>8, <2>2, <2>3 DEF ServeTx
<1>9. CASE TxRejected(w)
  <2>1. CallType' /\ OthersRest(w)
    BY <1>1, <1>9, FinishType DEF TxRejected
  <2>. QED  BY <1>1, <1>2, <1>3, <1>9, <2>1 DEF TxRejected, Finish, Goto, CallType
<1>10. CASE TxConfirmed(w)
  <2>1. status[tx[w]] = "CONFIRMED" /\ tx[w] \in Txs /\ result[tx[w]] # "none"
    BY <1>1, <1>10 DEF TxConfirmed, NativeInv, TxInv
  <2>2. CASE Finish(w, "confirmed") \/ Finish(w, "pending")
    <3>1. CallType' /\ OthersRest(w)
      BY <1>1, <2>2, FinishType
    <3>. QED  BY <1>1, <1>2, <1>3, <1>10, <2>1, <2>2, <3>1 DEF TxConfirmed, Finish, Goto, CallType
  <2>3. CASE pc' = [pc EXCEPT ![w] = "getLedger"]
    BY <1>1, <1>2, <1>3, <1>10, <2>1, <2>3, ConstantFacts DEF TxConfirmed, Finish, Goto, CallType, OthersRest
  <2>. QED  BY <1>10, <2>2, <2>3 DEF TxConfirmed, Goto
<1>11. CASE TxAgain(w)
  <2>1. CallType' /\ OthersRest(w)
    BY <1>1, <1>11, PollAgainType DEF TxAgain
  <2>. QED  BY <1>1, <1>2, <1>3, <1>11, <2>1 DEF TxAgain, PollAgain, Goto, CallType
<1>12. CASE LedgerAgain(w)
  <2>1. CallType' /\ OthersRest(w)
    BY <1>1, <1>12, PollAgainType DEF LedgerAgain
  <2>. QED  BY <1>1, <1>2, <1>3, <1>12, <2>1 DEF LedgerAgain, PollAgain, Goto, CallType
<1>13. CASE ServeLedger(w)
  <2>1. tx[w] \in Txs /\ result[tx[w]] \in Results
    BY <1>1, <1>13 DEF ServeLedger, NativeInv, TypeOK
  <2>2. PICK r \in {"Unreadable", result[tx[w]]} : Receive(w, "gotLedger", r)
    BY <1>13 DEF ServeLedger
  <2>3. CallType' /\ OthersRest(w)
    BY <1>1, <2>1, <2>2, ReceiveType
  <2>. QED  BY <1>1, <1>2, <1>3, <1>13, <2>1, <2>2, <2>3 DEF ServeLedger, Receive, Goto, CallType
<1>14. CASE LedgerResult(w)
  <2>1. PICK a \in {"ok", "dead"} : Finish(w, a) /\ (a = "ok" <=> seen[w] = "tes")
    BY <1>14 DEF LedgerResult
  <2>2. CallType' /\ OthersRest(w)
    BY <1>1, <2>1, FinishType
  <2>. QED  BY <1>1, <1>2, <1>3, <1>14, <2>1, <2>2 DEF LedgerResult, Finish, Goto, CallType
<1>. QED
  BY <1>4, <1>5, <1>6, <1>7, <1>8, <1>9, <1>10, <1>11, <1>12, <1>13, <1>14 DEF Reads
\* A call with nothing under way knows nothing that could be false.
LEMMA ForgetKnows ==
  ASSUME TypeOK, NEW w \in Workers, Forget(w), cur' \in Keys
  PROVE  CallType' /\ OthersRest(w) /\ CallInv(w)' /\ pc'[w] = "idle"
<1>1. CallType
  BY DEF TypeOK, CallType
<1>2. CallType' /\ OthersRest(w)
  BY <1>1, ConstantFacts DEF CallType, Forget, Goto, OthersRest, Modes, TxStatus
<1>3. /\ pc'[w] = "idle" /\ mode'[w] = "sync" /\ key'[w] = 1 /\ seen'[w] = "nothing"
      /\ submitted'[w] = "None"
  BY <1>1 DEF CallType, Forget, Goto
<1>4. CallInv(w)'
  BY <1>3 DEF CallInv, Working, Failures, Keys
<1>. QED  BY <1>2, <1>3, <1>4

-----------------------------------------------------------------------------
(* Each step keeps the invariant                                            *)

\* The other calls keep what they know.
LEMMA OthersKeep ==
  ASSUME NativeInv, NEW w \in Workers, OthersRest(w), TxFrame, CallInv(w)'
  PROVE  \A v \in Workers : CallInv(v)'
<1>. SUFFICES ASSUME NEW v \in Workers, v # w  PROVE CallInv(v)'
  OBVIOUS
<1>. QED  BY OthersKnow DEF NativeInv, OthersRest

LEMMA SameTxs ==
  ASSUME TypeOK, UNCHANGED <<operation, owner, status, result>>, cur' \in Keys, cur <= cur',
         used \subseteq used'
  PROVE  TxFrame
  BY DEF TxFrame, Keys

LEMMA ReadsKeep ==
  ASSUME NativeInv, NEW w \in Workers, Reads(w)
  PROVE  NativeInv'
<1>. USE ReadsKnow
<1>1. TypeOK'
  BY DEF NativeInv, TypeOK, CallType, callerVars, backendVars
<1>0. UNCHANGED <<operation, cur, used, careful, late, owner, status, result>>
  BY DEF callerVars, backendVars
<1>2. TxInv' /\ KeysInv'
  BY <1>0 DEF NativeInv, TxInv, KeysInv, DeadTx
<1>3. OneEach'
  <2>1. \A v \in Workers : pc'[v] = "posted" => pc[v] = "posted" /\ key'[v] = key[v]
    BY DEF OthersRest
  <2>. QED  BY <2>1 DEF NativeInv, OneEach, IsTransfer, callerVars, backendVars
<1>4. TxFrame
  BY SameTxs DEF NativeInv, TypeOK, callerVars, backendVars, Keys
<1>. QED  BY <1>1, <1>2, <1>3, <1>4, OthersKeep DEF NativeInv

LEMMA SubmitKeeps ==
  ASSUME NativeInv, NEW w \in Workers, Submit(w)
  PROVE  NativeInv'
<1>1. /\ cur \in Keys /\ cur \in Nat /\ cur # 0 /\ cur' = cur
      /\ UNCHANGED <<operation, late, owner, status, result>>
      /\ used' = used \cup {cur} /\ (careful' => careful)
  BY DEF NativeInv, TypeOK, Keys, Submit, backendVars
<1>2. CallType' /\ OthersRest(w) /\ pc'[w] = "posted" /\ key'[w] = cur /\ mode'[w] \in {"sync", "async"}
      /\ submitted'[w] = "None"
  BY <1>1 DEF NativeInv, TypeOK, CallInv, CallType, Submit, Goto, OthersRest, Working, Modes
<1>3. TypeOK'
  BY <1>1, <1>2 DEF NativeInv, TypeOK, CallType, Submit
<1>4. TxInv' /\ KeysInv'
  <2>1. used' \subseteq 1..cur
    BY <1>1 DEF NativeInv, KeysInv
  <2>. QED  BY <1>1, <2>1 DEF NativeInv, TxInv, KeysInv, DeadTx, Submit, HasNativeForm
<1>5. OneEach'
  <2>. SUFFICES ASSUME ~IsTransfer, careful'
                PROVE  /\ \A t, u \in Txs : owner[t] # 0 /\ owner[t] = owner[u] => t = u
                       /\ \A k \in late, t \in Txs : owner[t] # k
                       /\ \A v \in Workers : pc'[v] = "posted" =>
                            /\ key'[v] \notin late /\ \A t \in Txs : owner[t] # key'[v]
                            /\ \A x \in Workers : pc'[x] = "posted" /\ key'[x] = key'[v] => x = v
    BY <1>1 DEF NativeInv, OneEach, IsTransfer
  <2>1. cur \notin used /\ careful
    BY DEF Submit, CarriesKey, IsTransfer
  <2>2. cur \notin late /\ \A t \in Txs : owner[t] # cur
    BY <1>1, <2>1 DEF NativeInv, KeysInv, TxInv
  <2>3. \A v \in Workers \ {w} : pc'[v] = "posted" => pc[v] = "posted" /\ key'[v] = key[v] /\ key[v] # cur
    BY <1>2, <2>1 DEF OthersRest, NativeInv, CallInv
  <2>. QED  BY <1>2, <2>1, <2>2, <2>3 DEF NativeInv, OneEach
<1>6. CallInv(w)'
  BY <1>1, <1>2 DEF CallInv, Working, Failures
<1>7. TxFrame
  BY <1>1, SameTxs DEF NativeInv
<1>. QED  BY <1>2, <1>3, <1>4, <1>5, <1>6, <1>7, OthersKeep DEF NativeInv

LEMMA ServePostKeeps ==
  ASSUME NativeInv, NEW w \in Workers, ServePost(w)
  PROVE  NativeInv'
<1>1. PICK t \in Txs :
        /\ Made(key[w], t)
        /\ tx' = [tx EXCEPT ![w] = t]
        /\ \/ /\ mode[w] = "sync" /\ Goto(w, "gotTx")
              /\ seen' = [seen EXCEPT ![w] = status'[t]]
              /\ budget' = [budget EXCEPT ![w] = MaxBudget]
              /\ UNCHANGED submitted
           \/ /\ Goto(w, "handle")
              /\ submitted' = [submitted EXCEPT ![w] = status'[t]]
              /\ UNCHANGED <<seen, budget>>
  BY DEF ServePost
<1>2. UNCHANGED <<mode, key, late>> /\ UNCHANGED callerVars /\ pc[w] = "posted"
  BY DEF ServePost
<1>3. /\ key[w] \in used /\ key[w] \in Keys /\ key[w] <= cur
      /\ ~IsTransfer /\ careful => \A u \in Txs : owner[u] # key[w]
      /\ submitted[w] = "None"
  BY <1>2 DEF NativeInv, TypeOK, CallInv, OneEach
<1>4. PICK s \in TxStatus : s = status'[t]
  BY <1>1, <1>3, MadeFrame DEF NativeInv
<1>5. CallType' /\ OthersRest(w) /\ pc'[w] # "posted"
  <2>1. CallType /\ t \in 0..MaxTx
    BY DEF NativeInv, TypeOK, CallType, Txs
  <2>2. tx' \in [Workers -> 0..MaxTx] /\ \A v \in Workers \ {w} : tx'[v] = tx[v]
    BY <1>1, <2>1 DEF CallType
  <2>3. CASE pc' = [pc EXCEPT ![w] = "gotTx"] /\ seen' = [seen EXCEPT ![w] = s]
             /\ budget' = [budget EXCEPT ![w] = MaxBudget] /\ UNCHANGED submitted
    BY <1>2, <2>1, <2>2, <2>3, ConstantFacts DEF CallType, OthersRest, Working
  <2>4. CASE pc' = [pc EXCEPT ![w] = "handle"] /\ submitted' = [submitted EXCEPT ![w] = s]
             /\ UNCHANGED <<seen, budget>>
    BY <1>2, <2>1, <2>2, <2>4 DEF CallType, OthersRest
  <2>. QED  BY <1>1, <1>4, <2>3, <2>4 DEF Goto
<1>6. TypeOK'
  BY <1>1, <1>2, <1>3, <1>5, MadeFrame DEF NativeInv, TypeOK, CallType, callerVars
<1>7. /\ TxFrame /\ TxInv' /\ KeysInv'
      /\ (IsTransfer \/ careful => \A u, v \in Txs : owner'[u] # 0 /\ owner'[u] = owner'[v] => u = v)
  BY <1>1, <1>2, <1>3, MadeKeeps DEF NativeInv
<1>8. OneEach'
  <2>. SUFFICES ASSUME ~IsTransfer, careful
                PROVE  /\ \A k \in late, u \in Txs : owner'[u] # k
                       /\ \A v \in Workers : pc'[v] = "posted" =>
                            /\ key[v] \notin late /\ \A u \in Txs : owner'[u] # key[v]
                            /\ \A x \in Workers : pc'[x] = "posted" /\ key[x] = key[v] => x = v
    BY <1>2, <1>7 DEF OneEach, IsTransfer, callerVars
  <2>1. key[w] \notin late /\ \A v \in Workers : pc[v] = "posted" /\ key[v] = key[w] => v = w
    BY <1>2 DEF NativeInv, OneEach
  <2>2. \A u \in Txs : owner'[u] \in {owner[u], key[w]}
    BY <1>1, <1>3, MadeFrame DEF NativeInv
  <2>3. \A v \in Workers : pc'[v] = "posted" => pc[v] = "posted" /\ key[v] # key[w]
    BY <1>5, <2>1 DEF OthersRest
  <2>. QED  BY <2>1, <2>2, <2>3 DEF NativeInv, OneEach
<1>9. CallInv(w)'
  <2>1. owner'[t] = key[w]
    BY <1>1, <1>3, MadeFrame DEF NativeInv
  <2>2. tx'[w] = t /\ key'[w] = key[w] /\ mode'[w] = mode[w] /\ cur' = cur /\ operation' = operation
    BY <1>1, <1>2 DEF NativeInv, TypeOK, callerVars
  <2>3. \/ pc'[w] = "gotTx" /\ seen'[w] = status'[t] /\ submitted'[w] = "None"
        \/ pc'[w] = "handle" /\ submitted'[w] = status'[t]
    BY <1>1, <1>3 DEF NativeInv, TypeOK, Goto
  <2>. QED  BY <1>3, <2>1, <2>2, <2>3 DEF CallInv, Failures, Working
<1>. QED  BY <1>5, <1>6, <1>7, <1>8, <1>9, OthersKeep DEF NativeInv

\* A POST given up on may still be processed: its key joins the late ones.
LEMMA GivenUpKeeps ==
  ASSUME NativeInv, NEW w \in Workers, CallType', OthersRest(w), CallInv(w)', pc'[w] # "posted",
         late' = IF pc[w] = "posted" THEN late \cup {key[w]} ELSE late,
         UNCHANGED <<owner, status, result>>, UNCHANGED callerVars
  PROVE  NativeInv'
<1>1. TypeOK'
  BY DEF NativeInv, TypeOK, CallType, callerVars
<1>0. UNCHANGED <<operation, cur, used, careful>>
  BY DEF callerVars
<1>2. TxInv' /\ KeysInv'
  <2>1. TxInv /\ KeysInv /\ late' \subseteq used
    BY DEF NativeInv, KeysInv, CallInv
  <2>. QED  BY <1>0, <2>1 DEF TxInv, KeysInv, DeadTx
<1>3. OneEach'
  <2>1. \A v \in Workers : pc'[v] = "posted" => v # w /\ pc[v] = "posted" /\ key'[v] = key[v]
    BY DEF OthersRest
  <2>2. /\ operation' = operation /\ careful' = careful /\ owner' = owner
        /\ \A k \in late' : k \in late \/ (k = key[w] /\ pc[w] = "posted")
    BY DEF callerVars
  <2>3. OneEach
    BY DEF NativeInv
  <2>. QED  BY <2>1, <2>2, <2>3 DEF OneEach, IsTransfer
<1>4. TxFrame
  BY SameTxs DEF NativeInv, TypeOK, callerVars, Keys
<1>. QED  BY <1>1, <1>2, <1>3, <1>4, OthersKeep DEF NativeInv

LEMMA LeavingKeeps ==
  ASSUME NativeInv, NEW w \in Workers, PostFails(w) \/ Crash(w)
  PROVE  NativeInv'
<1>1. UNCHANGED <<owner, status, result>> /\ UNCHANGED callerVars
      /\ late' = IF pc[w] = "posted" THEN late \cup {key[w]} ELSE late
  BY DEF PostFails, Crash
<1>2. CASE PostFails(w)
  <2>1. CallType' /\ OthersRest(w)
    BY <1>2, FinishType DEF PostFails, NativeInv, TypeOK, CallType, Answers
  <2>2. CallInv(w)' /\ pc'[w] # "posted"
    BY <1>1, <1>2 DEF PostFails, Finish, Goto, NativeInv, TypeOK, CallInv, callerVars, Working, DeadTx, Failures
  <2>. QED  BY <1>1, <2>1, <2>2, GivenUpKeeps
<1>3. CASE Crash(w)
  <2>1. CallType' /\ OthersRest(w) /\ CallInv(w)' /\ pc'[w] # "posted"
    BY <1>1, <1>3, ForgetKnows DEF Crash, NativeInv, TypeOK, callerVars
  <2>. QED  BY <1>1, <2>1, GivenUpKeeps
<1>. QED  BY <1>2, <1>3

LEMMA ReturnKeeps ==
  ASSUME NativeInv, NEW w \in Workers, Return(w)
  PROVE  NativeInv'
<1>1. UNCHANGED <<operation, used, careful, late, owner, status, result>>
  BY DEF Return, backendVars
<1>2. /\ cur \in Keys /\ cur' \in Keys /\ cur \in Nat /\ cur' \in Nat
      /\ \/ cur' = cur
         \/ cur' = cur + 1 /\ pc[w] = "dead" /\ key[w] = cur
  BY BoundsAssumption DEF Return, NativeInv, TypeOK, Keys
<1>3. CallType' /\ OthersRest(w) /\ CallInv(w)' /\ pc'[w] # "posted"
  <2>1. CASE Forget(w)
    BY <1>2, <2>1, ForgetKnows DEF NativeInv
  <2>2. CASE mode[w] \in {"wait", "poll"} /\ Goto(w, "handle") /\ mode' = [mode EXCEPT ![w] = "async"]
             /\ UNCHANGED <<key, tx, budget, seen, submitted>>
    <3>1. CallType' /\ OthersRest(w) /\ pc'[w] = "handle" /\ mode'[w] = "async"
      BY <2>2 DEF NativeInv, TypeOK, CallType, Goto, OthersRest, Modes
    <3>2. key[w] <= cur' /\ tx[w] \in Txs /\ owner[tx[w]] = key[w]
          /\ (submitted[w] \in Failures \cup {"CONFIRMED"} => status[tx[w]] = submitted[w])
      BY <1>2, <2>2 DEF NativeInv, TypeOK, CallInv, Keys
    <3>. QED  BY <1>1, <2>2, <3>1, <3>2 DEF CallInv, Working
  <2>. QED  BY <2>1, <2>2 DEF Return
<1>4. TypeOK'
  BY <1>1, <1>2, <1>3 DEF NativeInv, TypeOK, CallType, Return
<1>5. TxInv'
  BY <1>1 DEF NativeInv, TxInv
<1>6. KeysInv'
  <2>1. ASSUME NEW k \in Keys, k < cur'  PROVE \E t \in Txs : owner[t] = k /\ DeadTx(t)
    <3>1. CASE k < cur
      BY <3>1 DEF NativeInv, KeysInv
    <3>2. CASE ~(k < cur)
      <4>1. k = cur /\ pc[w] = "dead" /\ key[w] = cur
        BY <1>2, <2>1, <3>2 DEF Keys
      <4>. QED  BY <4>1 DEF NativeInv, CallInv
    <3>. QED  BY <3>1, <3>2
  <2>2. used \subseteq 1..cur'
    BY <1>2 DEF NativeInv, KeysInv
  <2>. QED  BY <1>1, <2>1, <2>2 DEF NativeInv, KeysInv, DeadTx
<1>7. OneEach'
  <2>1. \A v \in Workers : pc'[v] = "posted" => pc[v] = "posted" /\ key'[v] = key[v]
    BY <1>3 DEF OthersRest
  <2>. QED  BY <1>1, <2>1 DEF NativeInv, OneEach, IsTransfer
<1>8. TxFrame
  BY <1>1, <1>2, SameTxs DEF NativeInv
<1>. QED  BY <1>3, <1>4, <1>5, <1>6, <1>7, <1>8, OthersKeep DEF NativeInv

LEMMA BackendKeeps ==
  ASSUME NativeInv, Backend
  PROVE  NativeInv'
<1>1. UNCHANGED callerVars /\ UNCHANGED callVars
  BY DEF Backend, LatePost, Fail, Apply, Confirm
<1>2. CASE \E k \in Keys : LatePost(k)
  <2>1. PICK k \in Keys, t \in Txs : k \in late /\ late' = late \ {k} /\ Made(k, t)
    BY <1>2 DEF LatePost
  <2>2. k \in used /\ (~IsTransfer /\ careful => \A u \in Txs : owner[u] # k)
    BY <2>1 DEF NativeInv, KeysInv, OneEach
  <2>3. TypeOK'
    BY <1>1, <2>1, MadeFrame DEF NativeInv, TypeOK, callerVars, callVars
  <2>4. /\ TxFrame /\ TxInv' /\ KeysInv'
        /\ (IsTransfer \/ careful => \A u, v \in Txs : owner'[u] # 0 /\ owner'[u] = owner'[v] => u = v)
    BY <1>1, <2>1, <2>2, MadeKeeps DEF NativeInv
  <2>5. OneEach'
    <3>1. \A u \in Txs : owner'[u] \in {owner[u], k}
      BY <2>1, MadeFrame DEF NativeInv
    <3>. QED  BY <1>1, <2>1, <2>4, <3>1 DEF NativeInv, OneEach, IsTransfer, callerVars, callVars
  <2>6. \A v \in Workers : CallInv(v)'
    BY <1>1, <2>4, OthersKnow DEF NativeInv, callVars
  <2>. QED  BY <2>3, <2>4, <2>5, <2>6 DEF NativeInv
<1>3. CASE \E t \in Txs : \/ Confirm(t)
                          \/ \E s \in Failures : Fail(t, s)
                          \/ \E r \in {"tes", "tec"} : Apply(t, r)
  <2>1. PICK t \in Txs : \/ Confirm(t)
                         \/ \E s \in Failures : Fail(t, s)
                         \/ \E r \in {"tes", "tec"} : Apply(t, r)
    BY <1>3
  <2>. USE DEF Confirm, Fail, Apply, Failures
  <2>2. TypeOK' /\ owner' = owner /\ late' = late
    BY <1>1, <2>1 DEF NativeInv, TypeOK, callerVars, callVars, TxStatus, Results
  <2>3. TxInv' /\ TxFrame
    BY <1>1, <2>1 DEF NativeInv, TypeOK, TxInv, TxFrame, callerVars, Keys
  <2>4. \A u \in Txs : DeadTx(u) => DeadTx(u)'
    BY <2>3 DEF TxFrame, DeadTx
  <2>5. KeysInv' /\ OneEach'
    BY <1>1, <2>2, <2>4 DEF NativeInv, KeysInv, OneEach, IsTransfer, callerVars, callVars
  <2>6. \A v \in Workers : CallInv(v)'
    BY <1>1, <2>3, OthersKnow DEF NativeInv, callVars
  <2>. QED  BY <2>2, <2>3, <2>5, <2>6 DEF NativeInv
<1>. QED  BY <1>2, <1>3 DEF Backend

\* The invariant of the native submission is inductive: one transaction stands for
\* a key, and what a call has learnt of its transaction stays true.
THEOREM NativeCorrect == Spec => []NativeInv
<1>1. Init => NativeInv
  <2>. SUFFICES ASSUME Init  PROVE NativeInv
    OBVIOUS
  <2>1. TypeOK
    <3>1. 0 \in 0..MaxKey
      BY BoundsAssumption
    <3>. QED  BY <3>1, ConstantFacts DEF Init, TypeOK, Modes, TxStatus, Results
  <2>2. TxInv /\ KeysInv /\ OneEach
    BY DEF Init, TxInv, KeysInv, OneEach, Keys, Failures
  <2>3. \A w \in Workers : CallInv(w)
    <3>. SUFFICES ASSUME NEW w \in Workers  PROVE CallInv(w)
      OBVIOUS
    <3>1. /\ pc[w] = "idle" /\ mode[w] = "sync" /\ key[w] = 1 /\ seen[w] = "nothing"
          /\ submitted[w] = "None" /\ cur = 1
      BY DEF Init
    <3>. QED  BY <3>1 DEF CallInv, Working, Failures
  <2>. QED  BY <2>1, <2>2, <2>3 DEF NativeInv
<1>2. NativeInv /\ [Next]_vars => NativeInv'
  <2>. SUFFICES ASSUME NativeInv, [Next]_vars  PROVE NativeInv'
    OBVIOUS
  <2>1. CASE UNCHANGED vars
    BY <2>1 DEF NativeInv, TypeOK, TxInv, KeysInv, OneEach, CallInv, DeadTx, IsTransfer, vars
  <2>2. ASSUME NEW w \in Workers, Worker(w)  PROVE NativeInv'
    BY <2>2, ReadsKeep, SubmitKeeps, ServePostKeeps, LeavingKeeps, ReturnKeeps DEF Worker, Reads
  <2>. QED  BY <2>1, <2>2, BackendKeeps DEF Next
<1>. QED  BY <1>1, <1>2, PTL DEF Spec

-----------------------------------------------------------------------------
\* Only the key in use can have applied the write: each one left behind stands for
\* a transaction that is dead.
LEMMA AppliedIsCurrent ==
  ASSUME NativeInv, IsTransfer \/ careful, NEW t \in Txs, result[t] = "tes"
  PROVE  owner[t] = cur
<1>1. status[t] # "None" /\ ~DeadTx(t)
  BY DEF NativeInv, TxInv, DeadTx, Failures
<1>2. owner[t] \in Keys /\ owner[t] \in used /\ owner[t] # 0
  BY <1>1 DEF NativeInv, TxInv, TypeOK
<1>3. ~(owner[t] < cur)
  <2>. SUFFICES ASSUME owner[t] < cur  PROVE FALSE
    OBVIOUS
  <2>1. PICK u \in Txs : owner[u] = owner[t] /\ DeadTx(u)
    BY <1>2 DEF NativeInv, KeysInv
  <2>. QED  BY <1>1, <1>2, <2>1 DEF NativeInv, OneEach
<1>. QED  BY <1>2, <1>3 DEF NativeInv, KeysInv, TypeOK, Keys

\* A transfer is applied at most once whatever is retried, and another operation as
\* long as its callers resend it only after a dead attempt.
THEOREM NativeAppliedAtMostOnce == Spec => []AppliedAtMostOnce
<1>1. NativeInv => AppliedAtMostOnce
  <2>. SUFFICES ASSUME NativeInv, IsTransfer \/ careful, NEW t \in Txs, NEW u \in Txs,
                       result[t] = "tes", result[u] = "tes"
                PROVE  t = u
    BY DEF AppliedAtMostOnce
  <2>1. owner[t] = cur /\ owner[u] = cur /\ cur # 0
    BY AppliedIsCurrent DEF NativeInv, TypeOK, Keys
  <2>. QED  BY <2>1 DEF NativeInv, OneEach
<1>. QED  BY <1>1, NativeCorrect, PTL

\* How a native attempt ends is true of Palisade and the ledger.
THEOREM NativeEndsAreTrue == Spec => []EndsAreTrue
<1>1. NativeInv => EndsAreTrue
  <2>. SUFFICES ASSUME NativeInv, NEW w \in Workers
                PROVE  /\ pc[w] = "ok" => result[tx[w]] = "tes"
                       /\ pc[w] = "confirmed" => result[tx[w]] # "none"
                       /\ pc[w] = "dead" => DeadTx(tx[w])
                       /\ pc[w] = "raw" => /\ key[w] \notin used \cup late
                                           /\ \A t \in Txs : owner[t] # key[w]
    BY DEF EndsAreTrue
  <2>1. CallInv(w)
    BY DEF NativeInv
  <2>2. ASSUME pc[w] = "raw"  PROVE key[w] \notin used \cup late /\ \A t \in Txs : owner[t] # key[w]
    <3>1. used = {} /\ late = {} /\ key[w] # 0
      BY <2>1, <2>2 DEF CallInv, NativeInv, KeysInv, TypeOK, Keys
    <3>. QED  BY <3>1 DEF NativeInv, TxInv
  <2>. QED  BY <2>1, <2>2 DEF CallInv
<1>. QED  BY <1>1, NativeCorrect, PTL
-----------------------------------------------------------------------------
(* The refinement.  The abstract write's variables, by name.                *)

Fate(k) == IF AppliedUnder(k) THEN "applied" ELSE IF DeadUnder(k) THEN "dead" ELSE "open"
Verdict(w) == IF ~IsTransfer \/ pc[w] \notin Answers THEN "none"
              ELSE IF pc[w] \in {"ok", "dead"} THEN pc[w] ELSE "unsure"
current == IF IsTransfer THEN cur ELSE 1
fates == [k \in Keys |-> Fate(k)]
verdicts == [w \in Workers |-> Verdict(w)]

LEMMA WriteStutters ==
  ASSUME current' = current, fates' = fates, verdicts' = verdicts
  PROVE  UNCHANGED Write!vars
  BY DEF Write!vars, current, fates, verdicts, Fate, Verdict

\* Of a write that is no transfer nothing is promised.
LEMMA OtherWritesStutter ==
  ASSUME ~IsTransfer, operation' = operation
  PROVE  UNCHANGED Write!vars
<1>1. ~IsTransfer'
  BY DEF IsTransfer
<1>2. current' = current
  BY <1>1 DEF current
<1>3. \A k \in Keys : Fate(k) = "open" /\ Fate(k)' = "open"
  BY <1>1 DEF Fate, AppliedUnder, DeadUnder
<1>4. \A w \in Workers : Verdict(w) = "none" /\ Verdict(w)' = "none"
  BY <1>1 DEF Verdict
<1>. QED  BY <1>2, <1>3, <1>4, WriteStutters DEF fates, verdicts

\* The fate of a transfer's key is its transaction's, and a definite answer tells it.
LEMMA FatesAndVerdicts ==
  NativeInv /\ IsTransfer =>
    /\ \A t \in Txs : owner[t] # 0 => fates[owner[t]] = IF result[t] = "tes" THEN "applied"
                                                        ELSE IF DeadTx(t) THEN "dead" ELSE "open"
    /\ \A w \in Workers :
         /\ verdicts[w] = "ok" => fates[cur] = "applied"
         /\ verdicts[w] = "dead" => key[w] \in 1..cur /\ fates[key[w]] = "dead"
<1>. SUFFICES ASSUME NativeInv, IsTransfer
              PROVE  /\ \A t \in Txs : owner[t] # 0 =>
                          fates[owner[t]] = IF result[t] = "tes" THEN "applied"
                                            ELSE IF DeadTx(t) THEN "dead" ELSE "open"
                     /\ \A w \in Workers :
                          /\ verdicts[w] = "ok" => fates[cur] = "applied"
                          /\ verdicts[w] = "dead" => key[w] \in 1..cur /\ fates[key[w]] = "dead"
  OBVIOUS
<1>1. ASSUME NEW t \in Txs, owner[t] # 0
      PROVE  fates[owner[t]] = IF result[t] = "tes" THEN "applied"
                               ELSE IF DeadTx(t) THEN "dead" ELSE "open"
  <2>1. \A u \in Txs : owner[u] = owner[t] => u = t
    BY <1>1 DEF NativeInv, OneEach
  <2>2. owner[t] \in Keys
    BY <1>1 DEF NativeInv, TypeOK, TxInv
  <2>3. (AppliedUnder(owner[t]) <=> result[t] = "tes") /\ (DeadUnder(owner[t]) <=> DeadTx(t))
    BY <2>1 DEF AppliedUnder, DeadUnder
  <2>. QED  BY <2>2, <2>3 DEF fates, Fate
<1>2. ASSUME NEW w \in Workers
      PROVE  /\ verdicts[w] = "ok" => fates[cur] = "applied"
             /\ verdicts[w] = "dead" => key[w] \in 1..cur /\ fates[key[w]] = "dead"
  <2>1. (verdicts[w] = "ok" => pc[w] = "ok") /\ (verdicts[w] = "dead" => pc[w] = "dead")
    BY DEF verdicts, Verdict
  <2>2. key[w] \in Keys /\ key[w] # 0 /\ key[w] \in 1..cur /\ CallInv(w)
    BY DEF NativeInv, TypeOK, CallInv, Keys
  <2>3. ASSUME pc[w] = "ok"  PROVE fates[cur] = "applied"
    <3>1. tx[w] \in Txs /\ owner[tx[w]] = key[w] /\ result[tx[w]] = "tes"
      BY <2>2, <2>3 DEF CallInv
    <3>2. key[w] = cur
      BY <3>1, AppliedIsCurrent
    <3>. QED  BY <1>1, <2>2, <3>1, <3>2
  <2>4. ASSUME pc[w] = "dead"  PROVE fates[key[w]] = "dead"
    <3>1. tx[w] \in Txs /\ owner[tx[w]] = key[w] /\ DeadTx(tx[w])
      BY <2>2, <2>4 DEF CallInv
    <3>2. result[tx[w]] # "tes"
      BY <3>1 DEF NativeInv, TxInv, DeadTx
    <3>. QED  BY <1>1, <2>2, <3>1, <3>2
  <2>. QED  BY <2>1, <2>2, <2>3, <2>4
<1>. QED  BY <1>1, <1>2

LEMMA FatesAndVerdictsNext ==
  NativeInv' /\ IsTransfer' =>
    ( /\ \A t \in Txs : owner[t] # 0 => fates[owner[t]] = IF result[t] = "tes" THEN "applied"
                                                          ELSE IF DeadTx(t) THEN "dead" ELSE "open"
      /\ \A w \in Workers :
           /\ verdicts[w] = "ok" => fates[cur] = "applied"
           /\ verdicts[w] = "dead" => key[w] \in 1..cur /\ fates[key[w]] = "dead" )'
  BY FatesAndVerdicts, PTL

\* A POST that is processed settles nothing: the transaction it makes is pending.
LEMMA MadeSettlesNothing ==
  ASSUME TypeOK, TxInv, NEW k \in Keys, NEW t \in Txs, Made(k, t), operation' = operation
  PROVE  fates' = fates
<1>1. \A u \in Txs, j \in Keys : owner'[u] = j /\ result'[u] = "tes" <=> owner[u] = j /\ result[u] = "tes"
  BY MadeFrame DEF Keys
<1>2. \A u \in Txs, j \in Keys : owner'[u] = j /\ DeadTx(u)' <=> owner[u] = j /\ DeadTx(u)
  BY MadeFrame DEF Keys, DeadTx, Failures
<1>3. \A j \in Keys : (AppliedUnder(j)' <=> AppliedUnder(j)) /\ (DeadUnder(j)' <=> DeadUnder(j))
  BY <1>1, <1>2 DEF AppliedUnder, DeadUnder, IsTransfer
<1>4. \A j \in Keys : Fate(j)' = Fate(j)
  BY <1>3 DEF Fate
<1>. QED  BY <1>4 DEF fates

\* A worker's step leaves the fates, the other workers and, unless an answer is
\* taken note of, the key in use alone.
LEMMA WorkerFrames ==
  ASSUME NativeInv, NEW w \in Workers, Worker(w)
  PROVE  /\ operation' = operation /\ fates' = fates /\ OthersRest(w)
         /\ Return(w) \/ (pc[w] \notin Answers /\ cur' = cur)
<1>1. CASE ServePost(w)
  <2>1. PICK t \in Txs : Made(key[w], t)
    BY <1>1 DEF ServePost
  <2>2. operation' = operation /\ cur' = cur /\ key[w] \in Keys
    BY <1>1 DEF ServePost, callerVars, NativeInv, TypeOK
  <2>3. fates' = fates
    BY <2>1, <2>2, MadeSettlesNothing DEF NativeInv
  <2>4. OthersRest(w) /\ pc[w] \notin Answers
    BY <1>1 DEF ServePost, Goto, OthersRest, Answers, NativeInv, TypeOK
  <2>. QED  BY <2>2, <2>3, <2>4
<1>2. CASE ~ServePost(w)
  <2>1. UNCHANGED <<operation, owner, status, result>>
    BY <1>2 DEF Worker, Submit, PostFails, Return, Crash, callerVars, backendVars,
                Refuse, FallBack, Wait, Poll, ServeTx, ReadFails, TxRejected, TxConfirmed, TxAgain,
                TxPending, ServeLedger, LedgerResult, LedgerAgain, LedgerPending
  <2>2. fates' = fates
    BY <2>1 DEF fates, Fate, AppliedUnder, DeadUnder, DeadTx, IsTransfer
  <2>3. Return(w) \/ (pc[w] \notin Answers /\ cur' = cur)
    BY <1>2 DEF Worker, Submit, PostFails, Crash, callerVars, Answers, Working,
                Refuse, FallBack, Wait, Poll, ServeTx, ReadFails, TxRejected, TxConfirmed, TxAgain,
                TxPending, ServeLedger, LedgerResult, LedgerAgain, LedgerPending
  <2>4. OthersRest(w)
    <3>1. CASE Submit(w) \/ PostFails(w)
      BY <3>1 DEF Submit, PostFails, Finish, Goto, OthersRest, NativeInv, TypeOK
    <3>2. CASE Return(w) \/ Crash(w)
      BY <3>2 DEF Return, Crash, Forget, Goto, OthersRest, NativeInv, TypeOK
    <3>3. CASE Reads(w)
      BY <3>3, ReadsKnow
    <3>. QED  BY <1>2, <3>1, <3>2, <3>3 DEF Worker, Reads
  <2>. QED  BY <2>1, <2>2, <2>3, <2>4
<1>. QED  BY <1>1, <1>2

\* A worker's step answers its caller, takes note of the answer, or is invisible.
LEMMA WorkerRefines ==
  ASSUME NativeInv, NativeInv', IsTransfer, NEW w \in Workers, Worker(w)
  PROVE  Write!Next \/ UNCHANGED Write!vars
<1>1. operation' = operation /\ IsTransfer' /\ fates' = fates /\ OthersRest(w)
  BY WorkerFrames DEF IsTransfer
<1>2. current = cur /\ current' = cur' /\ cur \in Keys /\ cur' \in Keys
  BY <1>1 DEF current, NativeInv, TypeOK
<1>3. verdicts' = [verdicts EXCEPT ![w] = Verdict(w)']
  BY <1>1 DEF verdicts, Verdict, OthersRest, IsTransfer
<1>4. verdicts[w] = Verdict(w)
  BY DEF verdicts
<1>5. CASE Return(w)
  <2>1. verdicts[w] # "none" /\ Verdict(w)' = "none"
    BY <1>4, <1>5 DEF Return, Forget, Goto, Verdict, Answers, NativeInv, TypeOK
  <2>2. cur' = cur \/ (cur' = cur + 1 /\ cur < MaxKey /\ verdicts[w] = "dead" /\ key[w] = cur)
    BY <1>4, <1>5 DEF Return, Verdict, Answers
  <2>3. cur' # cur => fates[cur] = "dead"
    BY <2>2, FatesAndVerdicts
  <2>4. Write!Note(w)
    BY <1>1, <1>2, <1>3, <2>1, <2>2, <2>3 DEF Write!Note, current, fates, verdicts, Fate, Verdict
  <2>. QED  BY <2>4 DEF Write!Next
<1>6. CASE pc[w] \notin Answers /\ cur' = cur
  <2>1. verdicts[w] = "none"
    BY <1>4, <1>6 DEF Verdict
  <2>2. CASE Verdict(w)' = "none"
    <3>1. verdicts' = verdicts
      BY <1>3, <2>1, <2>2 DEF verdicts
    <3>. QED  BY <1>1, <1>2, <1>6, <3>1, WriteStutters
  <2>3. CASE Verdict(w)' # "none"
    <3>1. PICK v \in {"ok", "dead", "unsure"} : v = Verdict(w)'
      BY <2>3 DEF Verdict
    <3>2. verdicts' = [verdicts EXCEPT ![w] = v] /\ verdicts'[w] = v
      BY <1>3, <3>1 DEF verdicts
    <3>3. PICK k : k = key'[w]
      OBVIOUS
    <3>4. (v = "ok" => fates[cur] = "applied") /\ (v = "dead" => k \in 1..cur /\ fates[k] = "dead")
      BY <1>1, <1>6, <3>2, <3>3, FatesAndVerdictsNext
    <3>5. Write!Answer(w, v)
      BY <1>1, <1>2, <1>6, <2>1, <3>2, <3>4 DEF Write!Answer, current, fates, verdicts, Fate, Verdict
    <3>. QED  BY <3>1, <3>5 DEF Write!Next
  <2>. QED  BY <2>2, <2>3
<1>. QED  BY <1>5, <1>6, WorkerFrames

\* Palisade or the ledger settles the key in use, or is invisible: a transaction
\* that is not settled yet is the one of that key.
LEMMA BackendRefines ==
  ASSUME NativeInv, NativeInv', IsTransfer, Backend
  PROVE  Write!Next \/ UNCHANGED Write!vars
<1>1. UNCHANGED callerVars /\ UNCHANGED callVars
  BY DEF Backend, LatePost, Fail, Apply, Confirm
<1>2. operation' = operation /\ IsTransfer' /\ cur' = cur /\ pc' = pc
  BY <1>1 DEF callerVars, callVars, IsTransfer
<1>3. current' = current /\ current = cur /\ verdicts' = verdicts
  BY <1>2 DEF current, verdicts, Verdict
<1>4. CASE \E k \in Keys : LatePost(k)
  <2>1. PICK k \in Keys, t \in Txs : Made(k, t)
    BY <1>4 DEF LatePost
  <2>2. fates' = fates
    BY <1>2, <2>1, MadeSettlesNothing DEF NativeInv
  <2>. QED  BY <1>3, <2>2, WriteStutters
<1>5. CASE \E t \in Txs : Confirm(t)
  <2>1. \A u \in Txs : DeadTx(u)' <=> DeadTx(u)
    BY <1>5 DEF Confirm, DeadTx, Failures, NativeInv, TypeOK
  <2>2. fates' = fates
    BY <1>2, <1>5, <2>1 DEF Confirm, fates, Fate, AppliedUnder, DeadUnder
  <2>. QED  BY <1>3, <2>2, WriteStutters
<1>6. CASE \E t \in Txs : (\E s \in Failures : Fail(t, s)) \/ (\E r \in {"tes", "tec"} : Apply(t, r))
  <2>1. PICK t \in Txs : (\E s \in Failures : Fail(t, s)) \/ (\E r \in {"tes", "tec"} : Apply(t, r))
    BY <1>6
  <2>2. status[t] = "PENDING" /\ result[t] = "none" /\ owner' = owner /\ ~DeadTx(t)
        /\ \A u \in Txs \ {t} : status'[u] = status[u] /\ result'[u] = result[u]
    BY <2>1 DEF Fail, Apply, DeadTx, Failures, NativeInv, TypeOK
  <2>3. owner[t] \in Keys /\ owner[t] \in used /\ owner[t] # 0
    BY <2>2 DEF NativeInv, TxInv, TypeOK
  <2>4. owner[t] = cur
    <3>1. ~(owner[t] < cur)
      BY <2>2, <2>3 DEF NativeInv, KeysInv, OneEach
    <3>2. owner[t] \in 1..cur /\ cur \in Nat
      BY <2>3 DEF NativeInv, KeysInv, TypeOK, Keys
    <3>. QED  BY <3>1, <3>2
  <2>5. fates[cur] = "open"
    BY <2>2, <2>3, <2>4, FatesAndVerdicts
  <2>6. PICK o \in {"applied", "dead"} : o = IF result'[t] = "tes" THEN "applied" ELSE "dead"
    OBVIOUS
  <2>7. result'[t] # "tes" => DeadTx(t)'
    BY <2>1 DEF Fail, Apply, DeadTx, NativeInv, TypeOK
  <2>8. fates'[cur] = o
    BY <1>2, <2>2, <2>3, <2>4, <2>6, <2>7, FatesAndVerdictsNext
  <2>9. \A k \in Keys \ {cur} : Fate(k)' = Fate(k)
    <3>. SUFFICES ASSUME NEW k \in Keys \ {cur}  PROVE Fate(k)' = Fate(k)
      OBVIOUS
    <3>1. \A u \in Txs : owner[u] = k => u # t
      BY <2>4
    <3>2. (AppliedUnder(k)' <=> AppliedUnder(k)) /\ (DeadUnder(k)' <=> DeadUnder(k))
      BY <1>2, <2>2, <3>1 DEF AppliedUnder, DeadUnder, DeadTx, IsTransfer
    <3>. QED  BY <3>2 DEF Fate
  <2>10. fates' = [fates EXCEPT ![cur] = o]
    BY <2>8, <2>9 DEF fates
  <2>11. Write!Settle(o)
    BY <1>2, <1>3, <2>5, <2>10 DEF Write!Settle, current, fates, verdicts, Fate, Verdict
  <2>. QED  BY <2>11 DEF Write!Next
<1>. QED  BY <1>4, <1>5, <1>6 DEF Backend

\* A transfer through Palisade implements the abstract write: what its callers,
\* Palisade and the ledger do together is a behaviour of one write that is applied
\* at most once and whose definite answers are true.
THEOREM TransferImplementsWrite == Spec => ImplementsAtMostOnceWrite
<1>1. Init => Write!Init
  <2>. SUFFICES ASSUME Init  PROVE Write!Init
    OBVIOUS
  <2>1. \A k \in Keys : ~AppliedUnder(k) /\ ~DeadUnder(k)
    BY DEF Init, AppliedUnder, DeadUnder, Keys
  <2>2. \A w \in Workers : pc[w] \notin Answers
    BY DEF Init, Answers
  <2>. QED  BY <2>1, <2>2 DEF Init, Write!Init, Write!Keys, Keys
<1>2. NativeInv /\ NativeInv' /\ [Next]_vars => [Write!Next]_(Write!vars)
  <2>. SUFFICES ASSUME NativeInv, NativeInv', [Next]_vars
                PROVE  Write!Next \/ UNCHANGED Write!vars
    OBVIOUS
  <2>1. CASE UNCHANGED vars
    <3>1. current' = current /\ fates' = fates /\ verdicts' = verdicts
      BY <2>1 DEF vars, current, fates, verdicts, Fate, Verdict, AppliedUnder, DeadUnder, DeadTx, IsTransfer
    <3>. QED  BY <3>1, WriteStutters
  <2>2. CASE ~IsTransfer /\ Next
    <3>1. operation' = operation
      BY <2>2, WorkerFrames DEF Next, Backend, LatePost, Fail, Apply, Confirm, callerVars
    <3>. QED  BY <2>2, <3>1, OtherWritesStutter
  <2>3. CASE IsTransfer /\ Next
    BY <2>3, WorkerRefines, BackendRefines DEF Next
  <2>. QED  BY <2>1, <2>2, <2>3
<1>. QED  BY <1>1, <1>2, NativeCorrect, PTL DEF Spec, ImplementsAtMostOnceWrite, Write!Spec

-----------------------------------------------------------------------------
(* How long a call can be                                                   *)

\* How many more steps a call can take at the most: two for each read of the loop it is
\* in that its budget may still pay for, then those of the loops that follow.
StepsFrom(p, b) == CASE p = "posted" -> 4 * MaxBudget + 4
                     [] p = "getTx" -> 2 * MaxBudget + 2 * b + 4
                     [] p = "gotTx" -> 2 * MaxBudget + 2 * b + 3
                     [] p = "getLedger" -> 2 * b + 2
                     [] p = "gotLedger" -> 2 * b + 1
                     [] OTHER -> 0
StepsLeft(w) == StepsFrom(pc[w], budget[w])

Resting == {"idle", "handle"} \cup Answers

\* At each point of a call, written out.
LEMMA StepsAt ==
  ASSUME NEW b \in 0..MaxBudget
  PROVE  /\ StepsFrom("posted", b) = 4 * MaxBudget + 4
         /\ StepsFrom("getTx", b) = 2 * MaxBudget + 2 * b + 4
         /\ StepsFrom("gotTx", b) = 2 * MaxBudget + 2 * b + 3
         /\ StepsFrom("getLedger", b) = 2 * b + 2
         /\ StepsFrom("gotLedger", b) = 2 * b + 1
         /\ \A p \in Resting : StepsFrom(p, b) = 0
         /\ MaxBudget \in Nat /\ b \in Nat /\ b <= MaxBudget
<1>1. /\ StepsFrom("posted", b) = 4 * MaxBudget + 4
      /\ StepsFrom("getTx", b) = 2 * MaxBudget + 2 * b + 4
      /\ StepsFrom("gotTx", b) = 2 * MaxBudget + 2 * b + 3
      /\ StepsFrom("getLedger", b) = 2 * b + 2
      /\ StepsFrom("gotLedger", b) = 2 * b + 1
  BY Zenon DEF StepsFrom
<1>2. \A p \in Resting : StepsFrom(p, b) = 0
  BY Zenon DEF StepsFrom, Resting, Answers
<1>3. MaxBudget \in Nat /\ b \in Nat /\ b <= MaxBudget
  BY BoundsAssumption
<1>. QED  BY <1>1, <1>2, <1>3

LEMMA StepsAreNumbers ==
  ASSUME NEW p \in Resting \cup Working, NEW b \in 0..MaxBudget
  PROVE  StepsFrom(p, b) \in 0..(4 * MaxBudget + 4) /\ (p \in Working => StepsFrom(p, b) > 0)
<1>1. CASE p \in Resting
  BY <1>1, StepsAt DEF Resting, Working, Answers
<1>2. CASE p \in Working
  BY <1>2, StepsAt DEF Working
<1>. QED  BY <1>1, <1>2

\* How a call goes on from one of its points to the next: forward, or round one of the two
\* loops with less time left.
Onward(p, b, q, c) ==
  \/ q \in Resting
  \/ p = "posted" /\ q = "gotTx"
  \/ p = "getTx" /\ q = "gotTx" /\ c = b
  \/ p = "gotTx" /\ q = "getTx" /\ c < b
  \/ p = "gotTx" /\ q = "getLedger"
  \/ p = "getLedger" /\ q = "gotLedger" /\ c = b
  \/ p = "gotLedger" /\ q = "getLedger" /\ c < b

LEMMA OnwardCounts ==
  ASSUME NEW p \in Working, NEW b \in 0..MaxBudget, NEW q, NEW c \in 0..MaxBudget, Onward(p, b, q, c)
  PROVE  StepsFrom(q, c) < StepsFrom(p, b)
<1>1. CASE q \in Resting
  <2>1. StepsFrom(q, c) = 0
    BY <1>1, StepsAt
  <2>2. StepsFrom(p, b) \in 0..(4 * MaxBudget + 4) /\ StepsFrom(p, b) > 0
    BY StepsAreNumbers
  <2>. QED  BY <2>1, <2>2
<1>2. CASE q \notin Resting
  BY <1>2, StepsAt DEF Onward
<1>. QED  BY <1>1, <1>2

\* Every step of a call under way takes it onward.
LEMMA CallsGoOn ==
  ASSUME TypeOK, NEW w \in Workers, Worker(w), pc[w] \in Working
  PROVE  Onward(pc[w], budget[w], pc'[w], budget'[w])
<1>. USE DEF Onward
<1>1. CASE Refuse(w) \/ FallBack(w) \/ Submit(w) \/ Wait(w) \/ Poll(w) \/ Return(w)
  BY <1>1 DEF Refuse, FallBack, Submit, Wait, Poll, Return, Working, Answers
<1>2. CASE ServePost(w)
  BY <1>2 DEF TypeOK, ServePost, Goto, Resting
<1>3. CASE PostFails(w) \/ ReadFails(w)
  BY <1>3 DEF TypeOK, PostFails, ReadFails, Finish, Goto, Resting, Answers
<1>4. CASE ServeTx(w) \/ ServeLedger(w)
  BY <1>4 DEF TypeOK, ServeTx, ServeLedger, Receive, Finish, Goto, Resting, Answers
<1>5. CASE TxRejected(w) \/ TxPending(w) \/ LedgerResult(w) \/ LedgerPending(w)
  BY <1>5 DEF TypeOK, TxRejected, TxPending, LedgerResult, LedgerPending, Finish, Goto, Resting, Answers
<1>6. CASE TxConfirmed(w)
  BY <1>6 DEF TypeOK, TxConfirmed, Finish, Goto, Resting, Answers
<1>7. CASE TxAgain(w) \/ LedgerAgain(w)
  <2>1. PICK delay \in 1..MaxBudget :
          delay <= budget[w] /\ budget' = [budget EXCEPT ![w] = budget[w] - delay]
    BY <1>7 DEF TxAgain, LedgerAgain, PollAgain
  <2>2. budget'[w] < budget[w]
    BY <2>1, BoundsAssumption DEF TypeOK
  <2>. QED  BY <1>7, <2>2 DEF TypeOK, TxAgain, LedgerAgain, PollAgain, Goto
<1>8. CASE Crash(w)
  BY <1>8 DEF TypeOK, Crash, Forget, Goto, Resting
<1>. QED  BY <1>1, <1>2, <1>3, <1>4, <1>5, <1>6, <1>7, <1>8 DEF Worker

\* No call goes on for ever, whatever Palisade answers: each step of its own leaves it
\* fewer, of at most 4 * MaxBudget + 4, and nothing that others do adds to them.  That a
\* request is answered at all is not in the code, which sets no timeout.
THEOREM CallsAreFinite ==
  Spec => [][ \A w \in Workers : pc[w] \in Working =>
                /\ StepsLeft(w) \in 1..(4 * MaxBudget + 4)
                /\ StepsLeft(w)' <= StepsLeft(w)
                /\ Worker(w) => StepsLeft(w)' < StepsLeft(w) ]_vars
<1>. DEFINE Fewer(w) == /\ StepsLeft(w) \in 1..(4 * MaxBudget + 4)
                        /\ StepsLeft(w)' <= StepsLeft(w)
                        /\ Worker(w) => StepsLeft(w)' < StepsLeft(w)
            Fewest == \A w \in Workers : pc[w] \in Working => Fewer(w)
<1>1. NativeInv /\ NativeInv' /\ Next => Fewest
  <2>. SUFFICES ASSUME NativeInv, NativeInv', Next, NEW w \in Workers, pc[w] \in Working
                PROVE  Fewer(w)
    OBVIOUS
  <2>1. /\ TypeOK /\ MaxBudget \in Nat
        /\ pc[w] \in Working /\ budget[w] \in 0..MaxBudget /\ budget'[w] \in 0..MaxBudget
        /\ pc'[w] \in Resting \cup Working
    BY BoundsAssumption DEF NativeInv, TypeOK, Resting
  <2>2. StepsLeft(w) \in 1..(4 * MaxBudget + 4) /\ StepsLeft(w)' \in 0..(4 * MaxBudget + 4)
    <3>1. StepsLeft(w) \in 0..(4 * MaxBudget + 4) /\ StepsLeft(w) > 0
      BY <2>1, StepsAreNumbers DEF StepsLeft
    <3>2. PICK q \in Resting \cup Working, c \in 0..MaxBudget : q = pc'[w] /\ c = budget'[w]
      BY <2>1
    <3>3. StepsFrom(q, c) \in 0..(4 * MaxBudget + 4)
      BY StepsAreNumbers
    <3>. QED  BY <2>1, <3>1, <3>2, <3>3 DEF StepsLeft
  <2>3. CASE Worker(w)
    <3>1. StepsLeft(w)' < StepsLeft(w)
      BY <2>1, <2>3, CallsGoOn, OnwardCounts DEF StepsLeft
    <3>. QED  BY <2>2, <3>1
  <2>4. CASE pc'[w] = pc[w] /\ budget'[w] = budget[w] /\ ~Worker(w)
    <3>1. StepsLeft(w)' = StepsLeft(w)
      BY <2>4 DEF StepsLeft
    <3>. QED  BY <2>2, <2>4, <3>1
  <2>5. ASSUME NEW v \in Workers, v # w, Worker(v)  PROVE pc'[w] = pc[w] /\ budget'[w] = budget[w]
    BY <2>5, WorkerFrames DEF OthersRest
  <2>6. CASE Backend
    <3>1. pc' = pc /\ budget' = budget
      BY <2>6 DEF Backend, LatePost, Confirm, Fail, Apply, callVars
    <3>. QED  BY <2>3, <2>4, <3>1
  <2>. QED  BY <2>3, <2>4, <2>5, <2>6 DEF Next
<1>2. NativeInv /\ NativeInv' /\ [Next]_vars => [Fewest]_vars
  BY <1>1
<1>. QED  BY <1>2, NativeCorrect, PTL DEF Spec
=============================================================================
