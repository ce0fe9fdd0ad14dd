-------------------------- MODULE SignedWriteProofs --------------------------
(***************************************************************************)
(* Proofs about SignedWrite, for any set of writes and any bounds.         *)
(***************************************************************************)
EXTENDS SignedWrite, TLAPS

LEMMA NoTxIsNoTransaction == NoTx \notin Tx
<1>. SUFFICES ASSUME NoTx \in Tx  PROVE FALSE
  OBVIOUS
<1>1. DOMAIN NoTx = {"writer"}
  BY DEF NoTx
<1>2. \A t \in Tx : "seq" \in DOMAIN t
  BY DEF Tx
<1>. QED  BY <1>1, <1>2

LEMMA ConstantFacts == 1 \in Keys /\ 1 \in Ledgers
  BY BoundsAssumption DEF Keys, Ledgers

\* A transaction on the ledger is the one its Sequence was spent on, with one result.
LEMMA OnLedgerFacts ==
  ASSUME TypeOK, ChainInv, NEW t \in Tx, NEW r \in {"tes", "tec"}
  PROVE  OnLedger(t, r) <=> (t.seq \in Seqs /\ chain[t.seq] = [tx |-> t, result |-> r])
<1>1. t.seq \in Seqs
  BY DEF Tx
<1>2. ASSUME NEW s \in Seqs, chain[s] = [tx |-> t, result |-> r]  PROVE s = t.seq
  <2>1. chain[s].tx = t
    BY <1>2
  <2>2. chain[s] \notin {Unspent, Rival}
    BY <2>1, NoTxIsNoTransaction DEF Unspent, Rival
  <2>. QED  BY <2>1, <2>2 DEF ChainInv
<1>. QED  BY <1>1, <1>2 DEF OnLedger

-----------------------------------------------------------------------------
(* Types                                                                    *)

LEMMA FinishType ==
  ASSUME TypeOK, NEW w \in Workers, NEW a \in Answers, Finish(w, a)
  PROVE  /\ pc' \in [Workers -> {"idle", "done"} \cup Working \cup Answers]
         /\ UNCHANGED <<key, tx, blob, doubt, careful>>
  BY DEF TypeOK, Finish

LEMMA AskType ==
  ASSUME TypeOK, NEW w \in Workers, NEW k \in Keys, NEW t \in Tx, Ask(w, k, t)
  PROVE  /\ request' \in [Workers -> [Keys -> [status : RequestStatus, preimage : Tx \cup {NoTx}]]]
         /\ \A v \in Workers, j \in Keys :
              request'[v][j] = IF v = w /\ j = k THEN [status |-> "Open", preimage |-> t] ELSE request[v][j]
<1>1. [status |-> "Open", preimage |-> t] \in [status : RequestStatus, preimage : Tx \cup {NoTx}]
  BY DEF RequestStatus
<1>2. request[w] \in [Keys -> [status : RequestStatus, preimage : Tx \cup {NoTx}]]
  BY DEF TypeOK
<1>. QED  BY <1>1, <1>2 DEF TypeOK, Ask

LEMMA SignedType ==
  ASSUME TypeOK, NEW w \in Workers, NEW t \in Tx, NEW p \in Tx, Signed(w, t, p)
  PROVE  /\ pc' \in [Workers -> {"idle", "done"} \cup Working \cup Answers]
         /\ blob' \in [Workers -> Blob \cup {NoBlob}]
         /\ pc'[w] = "signed" /\ blob'[w] = [tx |-> t, sig |-> p] /\ blob'[w] \in Blob
         /\ \A v \in Workers \ {w} : pc'[v] = pc[v] /\ blob'[v] = blob[v]
         /\ UNCHANGED <<key, tx, doubt, careful>>
<1>1. [tx |-> t, sig |-> p] \in Blob
  BY DEF Blob
<1>2. "signed" \in Working
  BY DEF Working
<1>. QED  BY <1>1, <1>2 DEF TypeOK, Signed
-----------------------------------------------------------------------------
(* Steps of workers                                                         *)

\* What a step of a worker may do: advance its own call, broadcast the signed
\* transaction of its call, ask for a signature under its key or leave the request
\* for one in the network, and take the next key after a definite failure.
WorkerFrame(w) ==
  /\ UNCHANGED <<backend, chain, now>>
  /\ careful' => careful
  /\ net' = net \/ (pc[w] = "signed" /\ net' = net \cup {blob[w]})
  /\ \A v \in Workers \ {w} :
       /\ pc'[v] = pc[v] /\ key'[v] = key[v] /\ tx'[v] = tx[v]
       /\ blob'[v] = blob[v] /\ doubt'[v] = doubt[v]
  /\ \A v \in Workers, k \in Keys :
       \/ request'[v][k] = request[v][k]
       \/ /\ v = w /\ k = key[w] /\ ~Asked(w, k) /\ backend # "local" /\ pc[w] = "filled"
          /\ request'[v][k] = [status |-> "Open", preimage |-> tx[w]]
  /\ late' = late \/ (backend # "local" /\ pc[w] = "filled" /\ late' = late \cup {<<key[w], tx[w]>>})
  /\ key'[w] = key[w] \/ (key'[w] = key[w] + 1 /\ pc[w] \in {"failed", "rejected"})

LEMMA WorkerType ==
  ASSUME SignedInv, NEW w \in Workers, Worker(w)
  PROVE  TypeOK' /\ WorkerFrame(w)
<1>. USE DEF ledgerVars
<1>1. TypeOK /\ CallInv(w) /\ pc[w] \in {"idle", "done"} \cup Working \cup Answers
  BY DEF SignedInv, TypeOK
<1>2. CASE Autofill(w)
  <2>1. PICK s \in Seqs : tx' = [tx EXCEPT ![w] = [writer |-> w, seq |-> s, last |-> now + Window]]
    BY <1>2 DEF Autofill
  <2>2. now + Window \in Ledgers
    BY <1>1, <1>2, BoundsAssumption DEF Autofill, TypeOK, Ledgers
  <2>3. [writer |-> w, seq |-> s, last |-> now + Window] \in Tx
    BY <2>2 DEF Tx
  <2>4. tx' \in [Workers -> Tx \cup {NoTx}] /\ \A v \in Workers \ {w} : tx'[v] = tx[v]
    BY <1>1, <2>1, <2>3 DEF TypeOK
  <2>. QED  BY <1>1, <1>2, <2>4 DEF Autofill, TypeOK, WorkerFrame, Working
<1>3. CASE Refuse(w) \/ SignatureRefused(w) \/ TimesOut(w) \/ ReadFails(w) \/ Lapse(w) \/ WaitFails(w)
  <2>1. PICK a \in {"refused", "rejected", "pending", "unknown", "lapsed"} : Finish(w, a)
    BY <1>3 DEF Refuse, SignatureRefused, TimesOut, ReadFails, Lapse, WaitFails
  <2>2. UNCHANGED <<backend, late, request>> /\ UNCHANGED ledgerVars
    BY <1>3 DEF Refuse, SignatureRefused, TimesOut, ReadFails, Lapse, WaitFails
  <2>3. pc' \in [Workers -> {"idle", "done"} \cup Working \cup Answers]
    BY <1>1, <2>1, FinishType DEF Answers
  <2>. QED  BY <1>1, <2>1, <2>2, <2>3 DEF TypeOK, WorkerFrame, Finish
<1>4. CASE Validated(w)
  <2>1. PICK a \in {"ok", "failed"} : Finish(w, a)
    BY <1>4 DEF Validated
  <2>2. pc' \in [Workers -> {"idle", "done"} \cup Working \cup Answers]
    BY <1>1, <2>1, FinishType DEF Answers
  <2>. QED  BY <1>1, <1>4, <2>1, <2>2 DEF Validated, TypeOK, WorkerFrame, Finish
<1>5. CASE SignLocally(w)
  <2>1. tx[w] \in Tx /\ Signed(w, tx[w], tx[w])
    BY <1>1, <1>5 DEF SignLocally, CallInv
  <2>. QED  BY <1>1, <1>5, <2>1, SignedType DEF SignLocally, TypeOK, WorkerFrame
<1>6. CASE RequestSignature(w)
  <2>1. tx[w] \in Tx /\ key[w] \in Keys
    BY <1>1, <1>6 DEF RequestSignature, CallInv, TypeOK
  <2>2. pc' \in [Workers -> {"idle", "done"} \cup Working \cup Answers]
        /\ \A v \in Workers \ {w} : pc'[v] = pc[v]
    BY <1>1, <1>6 DEF RequestSignature, TypeOK, Working, Answers
  <2>3. CASE Asked(w, key[w])
    BY <1>1, <1>6, <2>2, <2>3 DEF RequestSignature, TypeOK, WorkerFrame
  <2>4. CASE ~Asked(w, key[w])
    <3>1. Ask(w, key[w], tx[w])
      BY <1>6, <2>4 DEF RequestSignature
    <3>2. /\ request' \in [Workers -> [Keys -> [status : RequestStatus, preimage : Tx \cup {NoTx}]]]
          /\ \A v \in Workers, j \in Keys :
               request'[v][j] = IF v = w /\ j = key[w] THEN [status |-> "Open", preimage |-> tx[w]]
                                                       ELSE request[v][j]
      BY <1>1, <2>1, <3>1, AskType
    <3>. QED  BY <1>1, <1>6, <2>2, <2>4, <3>2 DEF RequestSignature, TypeOK, WorkerFrame
  <2>. QED  BY <2>3, <2>4
<1>7. CASE RequestFails(w)
  <2>1. tx[w] \in Tx /\ key[w] \in Keys
    BY <1>1, <1>7 DEF RequestFails, CallInv, TypeOK
  <2>2. pc' \in [Workers -> {"idle", "done"} \cup Working \cup Answers]
    BY <1>1, <1>7, FinishType DEF RequestFails, Answers
  <2>. QED  BY <1>1, <1>7, <2>1, <2>2 DEF RequestFails, Finish, TypeOK, WorkerFrame
<1>8. CASE CollectSignature(w)
  <2>1. request[w][key[w]].preimage \in Tx /\ tx[w] \in Tx
    BY <1>1, <1>8 DEF CollectSignature, CallInv, SignedInv, RequestInv, TypeOK
  <2>2. PICK t \in Tx : Signed(w, t, request[w][key[w]].preimage)
    BY <1>8, <2>1 DEF CollectSignature
  <2>. QED  BY <1>1, <1>8, <2>1, <2>2, SignedType DEF CollectSignature, TypeOK, WorkerFrame
<1>9. CASE Submit(w)
  <2>1. blob[w] \in Blob
    BY <1>1, <1>9 DEF Submit, CallInv
  <2>. QED  BY <1>1, <1>9, <2>1 DEF Submit, TypeOK, WorkerFrame, Working
<1>10. CASE SubmitFails(w)
  <2>1. blob[w] \in Blob
    BY <1>1, <1>10 DEF SubmitFails, CallInv
  <2>2. pc' \in [Workers -> {"idle", "done"} \cup Working \cup Answers]
    BY <1>1, <1>10, FinishType DEF SubmitFails, Answers
  <2>. QED  BY <1>1, <1>10, <2>1, <2>2 DEF SubmitFails, Finish, TypeOK, WorkerFrame
<1>11. CASE Return(w)
  <2>1. key' \in [Workers -> Keys] /\ \A v \in Workers \ {w} : key'[v] = key[v]
    BY <1>1, <1>11, BoundsAssumption DEF Return, TypeOK, Keys
  <2>2. key'[w] = key[w] \/ (key'[w] = key[w] + 1 /\ pc[w] \in {"failed", "rejected"})
    BY <1>1, <1>11 DEF Return, TypeOK
  <2>3. pc' \in [Workers -> {"idle", "done"} \cup Working \cup Answers]
        /\ tx' \in [Workers -> Tx \cup {NoTx}] /\ blob' \in [Workers -> Blob \cup {NoBlob}]
        /\ \A v \in Workers \ {w} : pc'[v] = pc[v] /\ tx'[v] = tx[v] /\ blob'[v] = blob[v]
    BY <1>1, <1>11 DEF Return, TypeOK
  <2>4. doubt' \in [Workers -> BOOLEAN] /\ \A v \in Workers \ {w} : doubt'[v] = doubt[v]
    BY <1>1, <1>11 DEF Return, TypeOK
  <2>. QED  BY <1>1, <1>11, <2>1, <2>2, <2>3, <2>4 DEF Return, TypeOK, WorkerFrame
<1>12. CASE Crash(w)
  BY <1>1, <1>12 DEF Crash, TypeOK, WorkerFrame
<1>. QED
  BY <1>2, <1>3, <1>4, <1>5, <1>6, <1>7, <1>8, <1>9, <1>10, <1>11, <1>12 DEF Worker, Advance, Fail
\* What has happened to a transaction on the ledger is not disturbed by a worker.
LEMMA SameLedger ==
  ASSUME UNCHANGED <<chain, now>>
  PROVE  /\ \A t, r : OnLedger(t, r)' <=> OnLedger(t, r)
         /\ \A t : Gone(t)' <=> Gone(t)
         /\ \A q : DeadRequest(q)' <=> DeadRequest(q)
<1>1. \A t, r : OnLedger(t, r)' <=> OnLedger(t, r)
  BY DEF OnLedger
<1>2. \A t : Gone(t)' <=> Gone(t)
  BY <1>1 DEF Gone
<1>3. \A q : DeadRequest(q)' <=> DeadRequest(q)
  BY <1>1 DEF DeadRequest
<1>. QED  BY <1>1, <1>2, <1>3

\* A worker's step keeps what is known about requests: a key is left behind only
\* with a dead request.
LEMMA WorkerKeepsRequests ==
  ASSUME SignedInv, NEW w \in Workers, WorkerFrame(w)
  PROVE  RequestInv'
<1>1. /\ TypeOK /\ RequestInv /\ CallInv(w) /\ key[w] \in Keys
      /\ \A q : DeadRequest(q)' <=> DeadRequest(q)
  BY SameLedger DEF SignedInv, TypeOK, WorkerFrame
<1>2. backend' = backend /\ \A v \in Workers : key[v] \in Nat /\ key'[v] \in {key[v], key[v] + 1}
  BY <1>1 DEF WorkerFrame, TypeOK, Keys
<1>3. ASSUME NEW v \in Workers, NEW k \in Keys
      PROVE  /\ Asked(v, k)' => request'[v][k].preimage \in Tx /\ request'[v][k].preimage.writer = v
             /\ k > key'[v] => ~Asked(v, k)'
             /\ backend # "local" /\ k < key'[v] => DeadRequest(request[v][k])'
             /\ backend = "local" => ~Asked(v, k)'
  <2>0. k \in Nat
    BY DEF Keys
  <2>1. CASE v = w /\ k = key[w] /\ ~Asked(w, k) /\ backend # "local" /\ pc[w] = "filled"
             /\ request'[v][k] = [status |-> "Open", preimage |-> tx[w]]
    <3>1. tx[w] \in Tx /\ tx[w].writer = w
      BY <1>1, <2>1 DEF CallInv
    <3>2. key'[w] = key[w]
      BY <2>1 DEF WorkerFrame
    <3>3. request'[v][k].preimage = tx[w] /\ key'[v] = k
      BY <2>1, <3>2
    <3>. QED  BY <2>0, <2>1, <3>1, <3>3
  <2>2. CASE request'[v][k] = request[v][k]
    <3>1. Asked(v, k)' <=> Asked(v, k)
      BY <2>2 DEF Asked
    <3>2. k > key'[v] => k > key[v]
      BY <1>2, <2>0
    <3>3. ASSUME backend # "local", k < key'[v]  PROVE DeadRequest(request[v][k])
      <4>1. CASE k < key[v]
        BY <1>1, <3>3, <4>1 DEF RequestInv
      <4>2. CASE ~(k < key[v])
        <5>1. v = w /\ k = key[w] /\ pc[w] \in {"failed", "rejected"}
          BY <1>2, <2>0, <3>3, <4>2 DEF WorkerFrame
        <5>2. CASE pc[w] = "failed"
          <6>1. request[v][k] = [status |-> "Signed", preimage |-> blob[w].tx] /\ OnLedger(blob[w].tx, "tec")
            BY <1>1, <3>3, <5>1, <5>2 DEF CallInv
          <6>. QED  BY <6>1 DEF DeadRequest
        <5>3. CASE pc[w] = "rejected"
          BY <1>1, <5>1, <5>3 DEF CallInv, DeadRequest
        <5>. QED  BY <5>1, <5>2, <5>3
      <4>. QED  BY <4>1, <4>2
    <3>4. DeadRequest(request[v][k]) => DeadRequest(request[v][k])'
      BY <2>2 DEF WorkerFrame, DeadRequest, OnLedger
    <3>. QED  BY <1>1, <2>2, <3>1, <3>2, <3>3, <3>4 DEF RequestInv
  <2>. QED  BY <2>1, <2>2 DEF WorkerFrame
<1>4. ASSUME NEW p \in late'  PROVE p[1] <= key'[p[2].writer]
  <2>1. CASE p \in late
    <3>1. p[1] \in Nat /\ p[2].writer \in Workers /\ p[1] <= key[p[2].writer]
      BY <1>1, <2>1 DEF TypeOK, RequestInv, Keys, Tx
    <3>. QED  BY <1>2, <3>1
  <2>2. CASE p \notin late
    <3>1. p[1] = key[w] /\ p[2] = tx[w] /\ pc[w] = "filled"
      BY <1>4, <2>2 DEF WorkerFrame
    <3>2. p[2].writer = w
      BY <1>1, <3>1 DEF CallInv
    <3>. QED  BY <1>2, <3>1, <3>2
  <2>. QED  BY <2>1, <2>2
<1>5. backend = "local" => late' = {}
  BY <1>1 DEF WorkerFrame, RequestInv
<1>. QED  BY <1>2, <1>3, <1>4, <1>5 DEF RequestInv

\* A worker broadcasts only what was signed for its write.
LEMMA WorkerKeepsNet ==
  ASSUME SignedInv, NEW w \in Workers, WorkerFrame(w)
  PROVE  NetInv' /\ ChainInv'
<1>1. /\ TypeOK /\ NetInv /\ ChainInv /\ CallInv(w) /\ key[w] \in Keys
      /\ UNCHANGED <<backend, chain>> /\ net \subseteq net'
  BY DEF SignedInv, TypeOK, WorkerFrame
<1>2. ChainInv'
  BY <1>1 DEF ChainInv
<1>3. \A v \in Workers, k \in Keys : Asked(v, k) => request'[v][k] = request[v][k]
  BY DEF WorkerFrame
<1>4. ASSUME NEW b \in net'
      PROVE  /\ b.tx = b.sig
             /\ backend # "local" => \E k \in Keys :
                  request'[b.tx.writer][k] = [status |-> "Signed", preimage |-> b.tx]
  <2>1. b.tx = b.sig /\ b.tx.writer \in Workers
        /\ (backend # "local" => \E k \in Keys :
              request[b.tx.writer][k] = [status |-> "Signed", preimage |-> b.tx])
    <3>1. CASE b \in net
      BY <1>1, <3>1 DEF NetInv, SignatureCovers, TypeOK, Blob, Tx
    <3>2. CASE b \notin net
      <4>1. b = blob[w] /\ pc[w] = "signed"
        BY <1>4, <3>2 DEF WorkerFrame
      <4>. QED  BY <1>1, <4>1 DEF CallInv
    <3>. QED  BY <3>1, <3>2
  <2>2. \A k \in Keys : request[b.tx.writer][k] = [status |-> "Signed", preimage |-> b.tx] => Asked(b.tx.writer, k)
    BY DEF Asked
  <2>. QED  BY <1>3, <2>1, <2>2
<1>. QED  BY <1>1, <1>2, <1>4 DEF NetInv, SignatureCovers

\* The other writes do not notice.
LEMMA OthersKeep ==
  ASSUME SignedInv, NEW w \in Workers, WorkerFrame(w), NEW v \in Workers, v # w
  PROVE  CallInv(v)' /\ LocalInv(v)'
<1>1. /\ TypeOK /\ CallInv(v) /\ LocalInv(v) /\ CallInv(w) /\ key[v] \in Keys
      /\ UNCHANGED <<backend, chain, now>> /\ (careful' => careful)
      /\ pc'[v] = pc[v] /\ key'[v] = key[v] /\ tx'[v] = tx[v] /\ blob'[v] = blob[v] /\ doubt'[v] = doubt[v]
      /\ \A k \in Keys : request'[v][k] = request[v][k]
  BY DEF SignedInv, TypeOK, WorkerFrame
<1>2. (\A t, r : OnLedger(t, r)' <=> OnLedger(t, r)) /\ (\A t : Gone(t)' <=> Gone(t))
  BY <1>1, SameLedger
<1>3. CallInv(v)'
  BY <1>1, <1>2 DEF CallInv, Asked
<1>4. Sent(v)' = Sent(v)
  BY <1>1 DEF Sent, WorkerFrame, CallInv
<1>5. LocalInv(v)'
  BY <1>1, <1>2, <1>4 DEF LocalInv
<1>. QED  BY <1>3, <1>5

\* The call that is advanced holds its write's transaction and its signature.
LEMMA WorkerKeepsCall ==
  ASSUME SignedInv, NEW w \in Workers, Worker(w), WorkerFrame(w)
  PROVE  CallInv(w)'
<1>. DEFINE Holding == {"filled", "awaiting", "rejected", "signed", "submitted", "ok", "failed", "lapsed"}
<1>1. /\ TypeOK /\ CallInv(w) /\ RequestInv /\ key[w] \in Keys
      /\ UNCHANGED <<backend, chain, now>>
      /\ \A t, r : OnLedger(t, r)' <=> OnLedger(t, r)
  BY SameLedger DEF SignedInv, TypeOK, WorkerFrame
<1>2. pc'[w] \notin Holding => CallInv(w)'
  BY DEF CallInv
<1>3. CASE Autofill(w)
  <2>1. pc'[w] = "filled"
    BY <1>1, <1>3 DEF Autofill, TypeOK
  <2>2. PICK s \in Seqs : tx' = [tx EXCEPT ![w] = [writer |-> w, seq |-> s, last |-> now + Window]]
    BY <1>3 DEF Autofill
  <2>3. tx'[w] = [writer |-> w, seq |-> s, last |-> now + Window]
    BY <1>1, <2>2 DEF TypeOK
  <2>4. now + Window \in Ledgers
    BY <1>1, <1>3, BoundsAssumption DEF Autofill, TypeOK, Ledgers
  <2>. QED  BY <2>1, <2>3, <2>4 DEF CallInv, Tx
<1>4. CASE Refuse(w) \/ TimesOut(w) \/ ReadFails(w) \/ WaitFails(w) \/ RequestFails(w) \/ SubmitFails(w)
  <2>1. pc'[w] \in {"refused", "pending", "unknown"}
    BY <1>1, <1>4 DEF Refuse, TimesOut, ReadFails, WaitFails, RequestFails, SubmitFails, Finish, TypeOK
  <2>. QED  BY <1>2, <2>1
<1>5. CASE Return(w) \/ Crash(w)
  <2>1. pc'[w] \in {"idle", "done"}
    BY <1>1, <1>5 DEF Return, Crash, TypeOK
  <2>. QED  BY <1>2, <2>1
<1>6. CASE SignLocally(w)
  <2>1. tx[w] \in Tx /\ tx[w].writer = w /\ Signed(w, tx[w], tx[w]) /\ backend = "local"
    BY <1>1, <1>6 DEF SignLocally, CallInv
  <2>2. pc'[w] = "signed" /\ blob'[w] = [tx |-> tx[w], sig |-> tx[w]] /\ blob'[w] \in Blob
    BY <1>1, <2>1, SignedType
  <2>. QED  BY <1>1, <2>1, <2>2 DEF CallInv
<1>7. CASE RequestSignature(w)
  <2>1. tx[w] \in Tx /\ tx[w].writer = w /\ backend # "local" /\ tx' = tx /\ key' = key
    BY <1>1, <1>7 DEF RequestSignature, CallInv
  <2>2. CASE Asked(w, key[w])
    <3>1. request' = request /\ pc'[w] = IF backend = "ripple" THEN "conflict" ELSE "awaiting"
      BY <1>1, <1>7, <2>2 DEF RequestSignature, TypeOK
    <3>. QED  BY <1>1, <2>1, <2>2, <3>1 DEF CallInv, Asked
  <2>3. CASE ~Asked(w, key[w])
    <3>1. pc'[w] = "awaiting" /\ Ask(w, key[w], tx[w])
      BY <1>1, <1>7, <2>3 DEF RequestSignature, TypeOK
    <3>2. request'[w][key[w]] = [status |-> "Open", preimage |-> tx[w]]
      BY <1>1, <2>1, <3>1, AskType
    <3>. QED  BY <1>1, <2>1, <3>1, <3>2 DEF CallInv, Asked
  <2>. QED  BY <2>2, <2>3
<1>8. CASE CollectSignature(w)
  <2>1. PICK p \in Tx : p = request[w][key[w]].preimage /\ p.writer = w
    BY <1>1, <1>8 DEF CollectSignature, CallInv, RequestInv
  <2>2. backend = "ripple" => tx[w] = p
    BY <1>1, <1>8, <2>1 DEF CollectSignature, CallInv
  <2>3. Signed(w, p, p)
    BY <1>8, <2>1, <2>2 DEF CollectSignature
  <2>4. pc'[w] = "signed" /\ blob'[w] = [tx |-> p, sig |-> p] /\ blob'[w] \in Blob
    BY <1>1, <2>3, SignedType
  <2>5. request'[w][key'[w]] = [status |-> "Signed", preimage |-> p]
    <3>1. request[w][key[w]] \in [status : RequestStatus, preimage : Tx \cup {NoTx}]
      BY <1>1 DEF TypeOK
    <3>. QED  BY <1>8, <2>1, <2>3, <3>1 DEF CollectSignature, Signed
  <2>. QED  BY <1>1, <2>1, <2>4, <2>5 DEF CallInv
<1>9. CASE SignatureRefused(w)
  <2>1. pc'[w] = "rejected" /\ request' = request /\ key' = key
    BY <1>1, <1>9 DEF SignatureRefused, Finish, TypeOK
  <2>. QED  BY <1>1, <1>9, <2>1 DEF SignatureRefused, CallInv, Asked
<1>10. CASE Submit(w)
  <2>1. pc'[w] = "submitted" /\ UNCHANGED <<request, key, blob>>
    BY <1>1, <1>10 DEF Submit, TypeOK
  <2>. QED  BY <1>1, <1>10, <2>1 DEF Submit, CallInv
<1>11. CASE Validated(w)
  <2>1. PICK r \in {"tes", "tec"} : OnLedger(blob[w].tx, r) /\ Finish(w, IF r = "tes" THEN "ok" ELSE "failed")
    BY <1>11 DEF Validated
  <2>2. pc'[w] = (IF r = "tes" THEN "ok" ELSE "failed") /\ UNCHANGED <<request, key, blob>>
    BY <1>1, <1>11, <2>1 DEF Validated, Finish, TypeOK
  <2>. QED  BY <1>1, <1>11, <2>1, <2>2 DEF Validated, CallInv
<1>12. CASE Lapse(w)
  <2>1. pc'[w] = "lapsed" /\ UNCHANGED <<request, key, blob>>
    BY <1>1, <1>12 DEF Lapse, Finish, TypeOK
  <2>. QED  BY <1>1, <1>12, <2>1 DEF Lapse, CallInv
<1>. QED
  BY <1>3, <1>4, <1>5, <1>6, <1>7, <1>8, <1>9, <1>10, <1>11, <1>12 DEF Worker, Advance, Fail
\* A careful local writer starts again only when all it has sent is gone.
LEMMA WorkerKeepsLocal ==
  ASSUME SignedInv, NEW w \in Workers, Worker(w), WorkerFrame(w)
  PROVE  LocalInv(w)'
<1>. DEFINE Sending == {"submitted", "ok", "failed", "lapsed", "unknown"}
<1>. SUFFICES ASSUME backend = "local", careful'
              PROVE  /\ doubt'[w] => pc'[w] = "idle"
                     /\ \A b, c \in Sent(w)' : Gone(b.tx) \/ Gone(c.tx) \/ b = c
                     /\ ~doubt'[w] /\ pc'[w] # "done" => \A b \in Sent(w)' :
                          Gone(b.tx) \/ (b = blob'[w] /\ pc'[w] \in Sending)
  <2>1. \A t : Gone(t)' <=> Gone(t)
    BY SameLedger DEF WorkerFrame
  <2>. QED  BY <2>1 DEF LocalInv, WorkerFrame
<1>1. TypeOK /\ CallInv(w) /\ careful /\ pc[w] # "awaiting" /\ pc[w] # "rejected"
  BY DEF SignedInv, WorkerFrame, CallInv
<1>2. /\ doubt[w] => pc[w] = "idle"
      /\ \A b, c \in Sent(w) : Gone(b.tx) \/ Gone(c.tx) \/ b = c
      /\ ~doubt[w] /\ pc[w] # "done" => \A b \in Sent(w) :
           Gone(b.tx) \/ (b = blob[w] /\ pc[w] \in Sending)
  BY <1>1 DEF SignedInv, LocalInv
<1>3. CASE Autofill(w) \/ Refuse(w) \/ SignLocally(w)
  <2>1. ~doubt[w] /\ pc[w] \in {"idle", "filled"} /\ Sent(w)' = Sent(w) /\ doubt' = doubt
    BY <1>2, <1>3 DEF Autofill, Refuse, SignLocally, Signed, Finish, Sent, ledgerVars
  <2>2. pc'[w] # "done"
    BY <1>1, <1>3 DEF Autofill, Refuse, SignLocally, Signed, Finish, TypeOK
  <2>. QED  BY <1>2, <2>1, <2>2
<1>4. CASE Submit(w) \/ SubmitFails(w)
  <2>1. pc[w] = "signed" /\ doubt' = doubt /\ ~doubt[w] /\ blob' = blob /\ pc'[w] \in Sending
    BY <1>1, <1>2, <1>4 DEF Submit, SubmitFails, Finish, TypeOK
  <2>2. \A b \in Sent(w)' : b \in Sent(w) \/ b = blob[w]
    BY DEF Sent, WorkerFrame
  <2>. QED  BY <1>2, <2>1, <2>2
<1>5. CASE Validated(w) \/ Lapse(w) \/ WaitFails(w)
  <2>1. /\ pc[w] = "submitted" /\ doubt' = doubt /\ ~doubt[w] /\ blob' = blob
        /\ pc'[w] \in Sending /\ Sent(w)' = Sent(w)
    BY <1>1, <1>2, <1>5 DEF Validated, Lapse, WaitFails, Finish, TypeOK, Sent, ledgerVars
  <2>. QED  BY <1>2, <2>1
<1>6. CASE Return(w)
  <2>1. pc[w] \in Answers /\ ~doubt[w] /\ Sent(w)' = Sent(w) /\ doubt'[w] = LeavesDoubt(w)
    BY <1>1, <1>2, <1>6 DEF Return, Answers, Sent, ledgerVars, TypeOK, LeavesDoubt
  <2>2. pc'[w] = IF pc[w] = "ok" THEN "done" ELSE "idle"
    BY <1>1, <1>6 DEF Return, TypeOK
  <2>3. doubt'[w] => pc'[w] = "idle"
    BY <2>1, <2>2 DEF LeavesDoubt
  <2>4. ASSUME ~doubt'[w], pc'[w] # "done", NEW b \in Sent(w)  PROVE Gone(b.tx)
    <3>1. pc[w] # "ok" /\ pc[w] # "done" /\ pc[w] # "submitted"
      BY <2>1, <2>2, <2>4 DEF Answers
    <3>2. Gone(b.tx) \/ (b = blob[w] /\ pc[w] \in {"failed", "lapsed", "unknown"})
      BY <1>2, <2>1, <3>1
    <3>3. ~LeavesDoubt(w)
      BY <2>1, <2>4
    <3>4. pc[w] # "unknown" /\ (pc[w] = "lapsed" => ~OnLedger(blob[w].tx, "tes"))
      BY <3>3 DEF LeavesDoubt
    <3>5. pc[w] = "failed" => Gone(blob[w].tx)
      BY <1>1 DEF CallInv, Gone
    <3>6. pc[w] = "lapsed" => Gone(blob[w].tx)
      BY <1>1, <3>4 DEF CallInv, Gone
    <3>. QED  BY <3>2, <3>4, <3>5, <3>6
  <2>. QED  BY <1>2, <2>1, <2>3, <2>4
<1>7. CASE Crash(w)
  <2>1. doubt'[w] = TRUE /\ pc'[w] = "idle" /\ Sent(w)' = Sent(w)
    BY <1>1, <1>7 DEF Crash, TypeOK, Sent, ledgerVars
  <2>. QED  BY <1>2, <2>1
<1>8. ~(RequestSignature(w) \/ RequestFails(w) \/ CollectSignature(w) \/ SignatureRefused(w)
        \/ TimesOut(w) \/ ReadFails(w))
  BY <1>1 DEF RequestSignature, RequestFails, CollectSignature, SignatureRefused, TimesOut, ReadFails
<1>. QED  BY <1>3, <1>4, <1>5, <1>6, <1>7, <1>8 DEF Worker, Advance, Fail

LEMMA WorkerKeeps ==
  ASSUME SignedInv, NEW w \in Workers, Worker(w)
  PROVE  SignedInv'
<1>1. TypeOK' /\ WorkerFrame(w)
  BY WorkerType
<1>2. RequestInv' /\ NetInv' /\ ChainInv' /\ CallInv(w)' /\ LocalInv(w)'
  BY <1>1, WorkerKeepsRequests, WorkerKeepsNet, WorkerKeepsCall, WorkerKeepsLocal
<1>3. \A v \in Workers : CallInv(v)' /\ LocalInv(v)'
  BY <1>1, <1>2, OthersKeep
<1>. QED  BY <1>1, <1>2, <1>3 DEF SignedInv

-----------------------------------------------------------------------------
(* Steps of the custodian and of the ledger                                 *)

\* A custodian creates the request of a key in use, or decides it.
BackendFrame ==
  /\ UNCHANGED backend /\ UNCHANGED callVars /\ UNCHANGED ledgerVars
  /\ late' \subseteq late
  /\ \A v \in Workers, k \in Keys :
       \/ request'[v][k] = request[v][k]
       \/ /\ request[v][k].status \in {"None", "Open"} /\ backend # "local" /\ k = key[v]
          /\ request'[v][k].status # "None"
          /\ request'[v][k].preimage \in Tx /\ request'[v][k].preimage.writer = v
          /\ Asked(v, k) => request'[v][k].preimage = request[v][k].preimage

\* A request that is not settled is that of the key in use.
LEMMA UnsettledIsCurrent ==
  ASSUME TypeOK, RequestInv, backend # "local", NEW v \in Workers, NEW k \in Keys,
         request[v][k].status \in {"None", "Open"}, k <= key[v]
  PROVE  k = key[v]
<1>1. ~DeadRequest(request[v][k])
  BY DEF DeadRequest
<1>. QED  BY <1>1 DEF RequestInv, TypeOK, Keys

LEMMA BackendFrames ==
  ASSUME SignedInv, Backend
  PROVE  TypeOK' /\ BackendFrame
<1>1. TypeOK /\ RequestInv
  BY DEF SignedInv
<1>2. ASSUME NEW p \in late, LateRequest(p[1], p[2])  PROVE TypeOK' /\ BackendFrame
  <2>1. PICK k \in Keys, t \in Tx : p = <<k, t>>
    BY <1>1 DEF TypeOK
  <2>2. LateRequest(k, t) /\ t.writer \in Workers /\ backend # "local" /\ k <= key[t.writer]
    BY <1>1, <1>2, <2>1 DEF RequestInv, Tx
  <2>3. CASE Asked(t.writer, k)
    BY <1>1, <2>2, <2>3 DEF LateRequest, BackendFrame, TypeOK, callVars, ledgerVars
  <2>4. CASE ~Asked(t.writer, k)
    <3>1. Ask(t.writer, k, t) /\ request[t.writer][k].status = "None"
      BY <2>2, <2>4 DEF LateRequest, Asked
    <3>2. k = key[t.writer]
      BY <1>1, <2>2, <3>1, UnsettledIsCurrent
    <3>3. /\ request' \in [Workers -> [Keys -> [status : RequestStatus, preimage : Tx \cup {NoTx}]]]
          /\ \A v \in Workers, j \in Keys :
               request'[v][j] = IF v = t.writer /\ j = k THEN [status |-> "Open", preimage |-> t]
                                                         ELSE request[v][j]
      BY <1>1, <2>2, <3>1, AskType
    <3>4. TypeOK'
      BY <1>1, <2>2, <3>3 DEF LateRequest, TypeOK, callVars, ledgerVars
    <3>. QED  BY <2>2, <2>4, <3>1, <3>2, <3>3, <3>4 DEF LateRequest, BackendFrame
  <2>. QED  BY <2>3, <2>4
<1>3. ASSUME NEW v \in Workers, NEW k \in Keys, NEW s \in {"Signed", "Failed"}, Decide(v, k, s)
      PROVE  TypeOK' /\ BackendFrame
  <2>1. request[v][k].status = "Open" /\ Asked(v, k) /\ backend # "local" /\ k <= key[v]
    BY <1>1, <1>3 DEF Decide, Asked, RequestInv, TypeOK, Keys
  <2>2. k = key[v]
    BY <1>1, <2>1, UnsettledIsCurrent
  <2>. DEFINE q == [status |-> s, preimage |-> request[v][k].preimage]
  <2>3. request[v] \in [Keys -> [status : RequestStatus, preimage : Tx \cup {NoTx}]]
        /\ request[v][k] \in [status : RequestStatus, preimage : Tx \cup {NoTx}]
    BY <1>1 DEF TypeOK
  <2>4. q \in [status : RequestStatus, preimage : Tx \cup {NoTx}]
        /\ q = [request[v][k] EXCEPT !.status = s]
    BY <2>3 DEF RequestStatus
  <2>5. request' = [request EXCEPT ![v] = [request[v] EXCEPT ![k] = q]]
    BY <1>3, <2>4 DEF Decide
  <2>6. request' \in [Workers -> [Keys -> [status : RequestStatus, preimage : Tx \cup {NoTx}]]]
    BY <1>1, <2>3, <2>4, <2>5 DEF TypeOK
  <2>7. \A x \in Workers, j \in Keys :
          request'[x][j] = IF x = v /\ j = k THEN q ELSE request[x][j]
    BY <1>1, <2>5 DEF TypeOK
  <2>8. TypeOK'
    BY <1>1, <1>3, <2>6 DEF Decide, TypeOK, callVars, ledgerVars
  <2>. QED  BY <1>1, <1>3, <2>1, <2>2, <2>4, <2>7, <2>8 DEF Decide, BackendFrame, RequestInv
<1>. QED  BY <1>2, <1>3 DEF Backend

LEMMA BackendKeeps ==
  ASSUME SignedInv, Backend
  PROVE  SignedInv'
<1>1. /\ TypeOK' /\ BackendFrame
      /\ TypeOK /\ RequestInv /\ NetInv /\ ChainInv
      /\ UNCHANGED <<backend, pc, key, tx, blob, doubt, careful, net, chain, now>>
  BY BackendFrames DEF SignedInv, BackendFrame, callVars, ledgerVars
<1>2. \A t, r : OnLedger(t, r)' <=> OnLedger(t, r)
  BY <1>1, SameLedger
<1>3. ASSUME NEW v \in Workers, NEW k \in Keys
      PROVE  /\ Asked(v, k) => Asked(v, k)'
             /\ request[v][k].status \in {"Signed", "Failed"} => request'[v][k] = request[v][k]
             /\ Asked(v, k) => request'[v][k].preimage = request[v][k].preimage
  BY <1>1 DEF BackendFrame, Asked
<1>4. RequestInv'
  <2>1. ASSUME NEW v \in Workers, NEW k \in Keys
        PROVE  /\ Asked(v, k)' => request'[v][k].preimage \in Tx /\ request'[v][k].preimage.writer = v
               /\ k > key[v] => ~Asked(v, k)'
               /\ backend # "local" /\ k < key[v] => DeadRequest(request[v][k])'
               /\ backend = "local" => ~Asked(v, k)'
    <3>1. CASE request'[v][k] = request[v][k]
      <4>1. Asked(v, k)' <=> Asked(v, k)
        BY <3>1 DEF Asked
      <4>2. DeadRequest(request[v][k]) => DeadRequest(request[v][k])'
        BY <1>1, <3>1 DEF DeadRequest, OnLedger
      <4>. QED  BY <1>1, <3>1, <4>1, <4>2 DEF RequestInv
    <3>2. CASE request'[v][k] # request[v][k]
      <4>1. k = key[v] /\ backend # "local" /\ request'[v][k].preimage \in Tx
            /\ request'[v][k].preimage.writer = v
        BY <1>1, <3>2 DEF BackendFrame
      <4>. QED  BY <4>1 DEF Keys
    <3>. QED  BY <3>1, <3>2
  <2>2. (backend = "local" => late' = {}) /\ \A p \in late' : p[1] <= key[p[2].writer]
    BY <1>1 DEF RequestInv, BackendFrame
  <2>. QED  BY <1>1, <2>1, <2>2 DEF RequestInv
<1>5. NetInv' /\ ChainInv'
  <2>1. ASSUME NEW b \in net, backend # "local"
        PROVE  \E k \in Keys : request'[b.tx.writer][k] = [status |-> "Signed", preimage |-> b.tx]
    <3>1. PICK k \in Keys : request[b.tx.writer][k] = [status |-> "Signed", preimage |-> b.tx]
      BY <1>1, <2>1 DEF NetInv
    <3>2. b.tx.writer \in Workers /\ request[b.tx.writer][k].status = "Signed"
      BY <1>1, <3>1 DEF TypeOK, Blob, Tx
    <3>. QED  BY <1>3, <3>1, <3>2
  <2>. QED  BY <1>1, <2>1 DEF NetInv, ChainInv, SignatureCovers
<1>6. ASSUME NEW w \in Workers  PROVE CallInv(w)' /\ LocalInv(w)'
  <2>1. CallInv(w) /\ LocalInv(w) /\ key[w] \in Keys
    BY DEF SignedInv, TypeOK
  <2>2. CallInv(w)'
    BY <1>1, <1>2, <1>3, <2>1 DEF CallInv
  <2>3. LocalInv(w)'
    BY <1>1, <2>1, SameLedger DEF LocalInv, Sent
  <2>. QED  BY <2>2, <2>3
<1>. QED  BY <1>1, <1>4, <1>5, <1>6 DEF SignedInv
\* The ledger closes, and spends a Sequence that was not spent before.
LedgerFrame ==
  /\ UNCHANGED <<backend, late, request, net>> /\ UNCHANGED callVars
  /\ now <= now' /\ now' \in Ledgers
  /\ \A t \in Tx, r \in {"tes", "tec"} : OnLedger(t, r) => OnLedger(t, r)'
  /\ \A t \in Tx : Gone(t) => Gone(t)'

LEMMA LedgerFrames ==
  ASSUME SignedInv, Ledger
  PROVE  TypeOK' /\ ChainInv' /\ LedgerFrame
<1>1. TypeOK /\ ChainInv /\ NetInv /\ now \in Nat
  BY DEF SignedInv, TypeOK, Ledgers
<1>2. CASE Close
  <2>1. now' = now + 1 /\ now' \in Ledgers /\ UNCHANGED <<backend, late, request, net, chain>>
        /\ UNCHANGED callVars
    BY <1>1, <1>2, BoundsAssumption DEF Close, TypeOK, Ledgers
  <2>2. TypeOK' /\ ChainInv'
    BY <1>1, <2>1 DEF TypeOK, ChainInv, callVars
  <2>3. \A t, r : OnLedger(t, r)' <=> OnLedger(t, r)
    BY <2>1 DEF OnLedger
  <2>4. \A t \in Tx : Gone(t) => Gone(t)'
    <3>1. \A t \in Tx : t.last \in Nat
      BY DEF Tx, Ledgers
    <3>. QED  BY <1>1, <2>1, <2>3, <3>1 DEF Gone
  <2>. QED  BY <1>1, <2>1, <2>2, <2>3, <2>4 DEF LedgerFrame
<1>3. ASSUME NEW s \in Seqs, chain[s] = Unspent,
             NEW e \in [tx : Tx, result : {"tes", "tec"}] \cup {Rival}, chain' = [chain EXCEPT ![s] = e],
             e # Rival => e.tx.seq = s /\ now <= e.tx.last /\ [tx |-> e.tx, sig |-> e.tx] \in net,
             UNCHANGED <<backend, late, request, net, now>>, UNCHANGED callVars
      PROVE  TypeOK' /\ ChainInv' /\ LedgerFrame
  <2>2. TypeOK'
    BY <1>1, <1>3 DEF TypeOK, callVars
  <2>3. chain'[s] = e /\ \A r \in Seqs \ {s} : chain'[r] = chain[r]
    BY <1>1, <1>3 DEF TypeOK
  <2>4. ChainInv'
    BY <1>1, <1>3, <2>3 DEF ChainInv
  <2>5. ASSUME NEW t \in Tx, NEW r \in {"tes", "tec"}, OnLedger(t, r)  PROVE OnLedger(t, r)'
    <3>1. PICK x \in Seqs : chain[x] = [tx |-> t, result |-> r]
      BY <2>5 DEF OnLedger
    <3>2. chain[x].result # "none"
      BY <3>1
    <3>3. x # s
      BY <1>3, <3>2 DEF Unspent
    <3>. QED  BY <2>3, <3>1, <3>3 DEF OnLedger
  <2>6. ASSUME NEW t \in Tx, now > t.last, OnLedger(t, "tes")'  PROVE OnLedger(t, "tes")
    <3>1. PICK x \in Seqs : chain'[x] = [tx |-> t, result |-> "tes"]
      BY <2>6 DEF OnLedger
    <3>2. CASE x = s
      <4>1. e = [tx |-> t, result |-> "tes"] /\ e.tx = t
        BY <2>3, <3>1, <3>2
      <4>2. e # Rival
        BY <4>1, NoTxIsNoTransaction DEF Rival
      <4>3. now <= e.tx.last
        BY <1>3, <4>2
      <4>. QED  BY <1>1, <2>6, <4>1, <4>3 DEF Tx, Ledgers
    <3>. QED  BY <2>3, <3>1, <3>2 DEF OnLedger
  <2>7. \A t \in Tx : Gone(t) => Gone(t)'
    BY <1>3, <2>5, <2>6 DEF Gone
  <2>. QED  BY <1>1, <1>3, <2>2, <2>4, <2>5, <2>7 DEF LedgerFrame, TypeOK
<1>4. CASE Compete
  <2>1. PICK s \in Seqs : IsNextSeq(s) /\ chain' = [chain EXCEPT ![s] = Rival]
    BY <1>4 DEF Compete
  <2>. QED  BY <1>3, <1>4, <2>1 DEF Compete, IsNextSeq, Spent
<1>5. ASSUME NEW b \in net, NEW r \in {"tes", "tec"}, Apply(b, r)
      PROVE  TypeOK' /\ ChainInv' /\ LedgerFrame
  <2>1. b.tx \in Tx /\ b.tx.seq \in Seqs /\ [tx |-> b.tx, sig |-> b.tx] = b
    BY <1>1, <1>5 DEF Apply, TypeOK, Blob, Tx
  <2>2. chain[b.tx.seq] = Unspent /\ chain' = [chain EXCEPT ![b.tx.seq] = [tx |-> b.tx, result |-> r]]
        /\ now <= b.tx.last
    BY <1>5, <2>1 DEF Apply, IsNextSeq, Spent
  <2>. DEFINE e == [tx |-> b.tx, result |-> r]
  <2>3. e \in [tx : Tx, result : {"tes", "tec"}] \cup {Rival} /\ e.tx = b.tx
    BY <2>1
  <2>4. chain' = [chain EXCEPT ![b.tx.seq] = e]
    BY <2>2
  <2>5. UNCHANGED <<backend, late, request, net, now>> /\ UNCHANGED callVars
    BY <1>5 DEF Apply
  <2>6. e.tx.seq = b.tx.seq /\ now <= e.tx.last /\ [tx |-> e.tx, sig |-> e.tx] \in net
    BY <2>1, <2>2, <2>3
  <2>. HIDE DEF e
  <2>. QED  BY <1>3, <2>1, <2>2, <2>3, <2>4, <2>5, <2>6
<1>. QED  BY <1>2, <1>4, <1>5 DEF Ledger

LEMMA LedgerKeeps ==
  ASSUME SignedInv, Ledger
  PROVE  SignedInv'
<1>1. /\ TypeOK' /\ ChainInv' /\ LedgerFrame
      /\ TypeOK /\ RequestInv /\ NetInv
      /\ UNCHANGED <<backend, pc, key, tx, blob, doubt, careful, late, request, net>>
  BY LedgerFrames DEF SignedInv, LedgerFrame, callVars
<1>2. RequestInv'
  <2>1. ASSUME NEW v \in Workers, NEW k \in Keys, DeadRequest(request[v][k])
        PROVE  DeadRequest(request[v][k])'
    <3>1. PICK q : q = request[v][k]
      OBVIOUS
    <3>2. CASE q.status = "Failed"
      BY <1>1, <3>1, <3>2 DEF DeadRequest
    <3>3. CASE q.status = "Signed" /\ OnLedger(q.preimage, "tec")
      <4>1. q.preimage \in Tx
        BY <1>1, <3>1, <3>3 DEF RequestInv, Asked
      <4>2. OnLedger(q.preimage, "tec")'
        BY <1>1, <3>3, <4>1 DEF LedgerFrame
      <4>. QED  BY <1>1, <3>1, <3>3, <4>2 DEF DeadRequest
    <3>. QED  BY <2>1, <3>1, <3>2, <3>3 DEF DeadRequest
  <2>. QED  BY <1>1, <2>1 DEF RequestInv, Asked
<1>3. NetInv'
  BY <1>1 DEF NetInv, SignatureCovers
<1>4. ASSUME NEW w \in Workers  PROVE CallInv(w)' /\ LocalInv(w)'
  <2>1. CallInv(w) /\ LocalInv(w)
    BY DEF SignedInv
  <2>2. CallInv(w)'
    <3>1. pc[w] \in {"ok", "failed", "lapsed"} => blob[w].tx \in Tx
      BY <2>1 DEF CallInv, Blob
    <3>2. pc[w] = "lapsed" => now' > blob[w].tx.last
      BY <1>1, <2>1, <3>1 DEF CallInv, LedgerFrame, TypeOK, Tx, Ledgers
    <3>3. (pc[w] = "ok" => OnLedger(blob[w].tx, "tes")') /\ (pc[w] = "failed" => OnLedger(blob[w].tx, "tec")')
      BY <1>1, <2>1, <3>1 DEF CallInv, LedgerFrame
    <3>. QED  BY <1>1, <2>1, <3>2, <3>3 DEF CallInv, Asked
  <2>3. LocalInv(w)'
    <3>1. Sent(w)' = Sent(w) /\ \A b \in Sent(w) : Gone(b.tx) => Gone(b.tx)'
      BY <1>1 DEF Sent, LedgerFrame, TypeOK, Blob
    <3>. QED  BY <1>1, <2>1, <3>1 DEF LocalInv
  <2>. QED  BY <2>2, <2>3
<1>. QED  BY <1>1, <1>2, <1>3, <1>4 DEF SignedInv

-----------------------------------------------------------------------------
\* The invariant of signed writes is inductive, so it holds in every behaviour.
THEOREM SignedCorrect == Spec => []SignedInv
<1>1. Init => SignedInv
  <2>. SUFFICES ASSUME Init  PROVE SignedInv
    OBVIOUS
  <2>1. TypeOK
    BY ConstantFacts DEF Init, TypeOK, RequestStatus
  <2>2. ChainInv /\ RequestInv /\ NetInv
    BY DEF Init, ChainInv, RequestInv, NetInv, SignatureCovers, Asked, Keys
  <2>3. \A w \in Workers : CallInv(w) /\ LocalInv(w)
    BY DEF Init, CallInv, LocalInv, Sent
  <2>. QED  BY <2>1, <2>2, <2>3 DEF SignedInv
<1>2. SignedInv /\ [Next]_vars => SignedInv'
  <2>. SUFFICES ASSUME SignedInv, [Next]_vars  PROVE SignedInv'
    OBVIOUS
  <2>1. CASE UNCHANGED vars
    <3>1. TypeOK' /\ ChainInv' /\ RequestInv' /\ NetInv'
      BY <2>1 DEF SignedInv, TypeOK, ChainInv, RequestInv, NetInv, SignatureCovers, DeadRequest,
                  Asked, OnLedger, vars
    <3>2. \A w \in Workers : CallInv(w)' /\ LocalInv(w)'
      BY <2>1, SameLedger DEF SignedInv, CallInv, LocalInv, Asked, OnLedger, Sent, vars
    <3>. QED  BY <3>1, <3>2 DEF SignedInv
  <2>. QED  BY <2>1, WorkerKeeps, BackendKeeps, LedgerKeeps DEF Next
<1>. QED  BY <1>1, <1>2, PTL DEF Spec

\* A signature approved late is only ever broadcast with what it was made for.
THEOREM SignaturesCover == Spec => []SignatureCovers
<1>1. SignedInv => SignatureCovers
  BY DEF SignedInv, NetInv
<1>. QED  BY <1>1, SignedCorrect, PTL

\* Success and failure are reported of the worker's own write.
THEOREM AnswersAreOfTheirOwnWrite == Spec => []AnswersAreOwn
<1>1. SignedInv => AnswersAreOwn
  BY DEF SignedInv, CallInv, AnswersAreOwn
<1>. QED  BY <1>1, SignedCorrect, PTL

\* A write is applied at most once.  With a custodian the keys left behind are dead,
\* so two applications are of the one transaction signed under the key in use; a
\* careful local writer had at most one transaction that could still apply.
THEOREM SignedWriteAppliedOnce == Spec => []WriteAppliedOnce
<1>1. SignedInv => WriteAppliedOnce
  <2>. SUFFICES ASSUME SignedInv, backend # "local" \/ careful, NEW s1 \in Seqs, NEW s2 \in Seqs,
                       chain[s1].result = "tes", chain[s1] # Rival,
                       chain[s2].result = "tes", chain[s2] # Rival,
                       chain[s1].tx.writer = chain[s2].tx.writer
                PROVE  s1 = s2
    BY DEF WriteAppliedOnce
  <2>1. TypeOK /\ ChainInv /\ NetInv /\ RequestInv
    BY DEF SignedInv
  <2>2. ASSUME NEW s \in Seqs, chain[s].result = "tes", chain[s] # Rival
        PROVE  /\ chain[s].tx \in Tx /\ chain[s].tx.seq = s /\ chain[s].tx.writer \in Workers
               /\ [tx |-> chain[s].tx, sig |-> chain[s].tx] \in net
               /\ OnLedger(chain[s].tx, "tes") /\ ~OnLedger(chain[s].tx, "tec")
    <3>1. chain[s] \notin {Unspent, Rival}
      BY <2>2 DEF Unspent
    <3>2. chain[s] \in [tx : Tx, result : {"tes", "tec"}]
      BY <2>1, <3>1 DEF TypeOK
    <3>3. chain[s].tx \in Tx /\ chain[s] = [tx |-> chain[s].tx, result |-> "tes"]
      BY <2>2, <3>2
    <3>4. chain[s].tx.seq = s /\ [tx |-> chain[s].tx, sig |-> chain[s].tx] \in net
      BY <2>1, <3>1 DEF ChainInv
    <3>5. OnLedger(chain[s].tx, "tes")
      BY <3>3 DEF OnLedger
    <3>6. ~OnLedger(chain[s].tx, "tec")
      <4>1. PICK t \in Tx : t = chain[s].tx
        BY <3>3
      <4>2. OnLedger(t, "tec") => chain[t.seq] = [tx |-> t, result |-> "tec"]
        BY <2>1, OnLedgerFacts
      <4>. QED  BY <2>2, <3>4, <4>1, <4>2
    <3>. QED  BY <3>3, <3>4, <3>5, <3>6 DEF Tx
  <2>3. PICK t1 \in Tx, t2 \in Tx : t1 = chain[s1].tx /\ t2 = chain[s2].tx
    BY <2>2
  <2>4. PICK v \in Workers : v = t1.writer /\ v = t2.writer
    BY <2>2, <2>3
  <2>5. CASE backend # "local"
    <3>1. ASSUME NEW t \in Tx, t.writer = v, [tx |-> t, sig |-> t] \in net, ~OnLedger(t, "tec")
          PROVE  t = request[v][key[v]].preimage
      <4>1. PICK k \in Keys : request[v][k] = [status |-> "Signed", preimage |-> t]
        BY <2>1, <2>5, <3>1 DEF NetInv
      <4>2. ~DeadRequest(request[v][k]) /\ Asked(v, k)
        BY <3>1, <4>1 DEF DeadRequest, Asked
      <4>3. ~(k < key[v]) /\ ~(k > key[v])
        BY <2>1, <2>5, <4>2 DEF RequestInv
      <4>4. k = key[v]
        BY <2>1, <4>3 DEF TypeOK, Keys
      <4>. QED  BY <4>1, <4>4
    <3>2. t1 = t2
      BY <2>2, <2>3, <2>4, <3>1
    <3>. QED  BY <2>2, <2>3, <3>2
  <2>6. CASE backend = "local"
    <3>1. ~Gone(t1) /\ ~Gone(t2)
      BY <2>2, <2>3 DEF Gone
    <3>2. [tx |-> t1, sig |-> t1] \in Sent(v) /\ [tx |-> t2, sig |-> t2] \in Sent(v)
      BY <2>2, <2>3, <2>4 DEF Sent
    <3>3. \A b, c \in Sent(v) : Gone(b.tx) \/ Gone(c.tx) \/ b = c
      BY <2>6 DEF SignedInv, LocalInv
    <3>4. [tx |-> t1, sig |-> t1] = [tx |-> t2, sig |-> t2]
      BY <3>1, <3>2, <3>3
    <3>5. t1 = t2
      BY <3>4
    <3>. QED  BY <2>2, <2>3, <3>5
  <2>. QED  BY <2>5, <2>6
<1>. QED  BY <1>1, SignedCorrect, PTL

-----------------------------------------------------------------------------
(* Each write signed through a custodian implements AtMostOnceWrite.         *)

\* The state of the abstract write, by name.
current(v) == IF backend = "local" THEN 1 ELSE key[v]
fates(v) == [k \in Keys |-> Fate(v, k)]
verdicts(v) == [u \in {v} |-> Verdict(u)]

LEMMA WriteStutters ==
  ASSUME NEW v, current(v)' = current(v), fates(v)' = fates(v), verdicts(v)' = verdicts(v)
  PROVE  UNCHANGED Write(v)!vars
BY DEF Write!vars, current, fates, verdicts

\* The keys before the one in use are dead and those after it open; a definite answer
\* is of the key in use and true.
FatesHold(v) ==
  /\ key[v] \in Keys
  /\ \A k \in Keys : backend # "local" /\ k < key[v] => Fate(v, k) = "dead"
  /\ \A k \in Keys : (backend = "local" \/ k > key[v]) => Fate(v, k) = "open"
  /\ \A k \in Keys : DeadRequest(request[v][k]) => Fate(v, k) = "dead"
  /\ Verdict(v) = "ok" => Fate(v, key[v]) = "applied"
  /\ Verdict(v) = "dead" => Fate(v, key[v]) = "dead"

LEMMA FateFacts == SignedInv => \A v \in Workers : FatesHold(v)
<1>. SUFFICES ASSUME SignedInv, NEW v \in Workers  PROVE FatesHold(v)
  OBVIOUS
<1>1. TypeOK /\ ChainInv /\ RequestInv /\ CallInv(v) /\ key[v] \in Keys
  BY DEF SignedInv, TypeOK
<1>2. ASSUME NEW t \in Tx, OnLedger(t, "tec")  PROVE ~OnLedger(t, "tes")
  <2>1. chain[t.seq] = [tx |-> t, result |-> "tec"]
    BY <1>1, <1>2, OnLedgerFacts
  <2>2. OnLedger(t, "tes") => chain[t.seq] = [tx |-> t, result |-> "tes"]
    BY <1>1, OnLedgerFacts
  <2>3. [tx |-> t, result |-> "tec"].result # [tx |-> t, result |-> "tes"].result
    OBVIOUS
  <2>. QED  BY <2>1, <2>2, <2>3
<1>3. ASSUME NEW k \in Keys, DeadRequest(request[v][k])  PROVE Fate(v, k) = "dead"
  <2>1. ~AppliedUnder(v, k)
    BY <1>1, <1>2, <1>3 DEF AppliedUnder, DeadRequest, RequestInv, Asked
  <2>. QED  BY <1>3, <2>1 DEF Fate
<1>4. ASSUME NEW k \in Keys, ~Asked(v, k)  PROVE Fate(v, k) = "open"
  BY <1>4 DEF Fate, Asked, AppliedUnder, DeadRequest
<1>5. /\ \A k \in Keys : backend # "local" /\ k < key[v] => Fate(v, k) = "dead"
      /\ \A k \in Keys : (backend = "local" \/ k > key[v]) => Fate(v, k) = "open"
  BY <1>1, <1>3, <1>4 DEF RequestInv
<1>6. ASSUME backend # "local", pc[v] \in {"ok", "failed"}
      PROVE  Fate(v, key[v]) = IF pc[v] = "ok" THEN "applied" ELSE "dead"
  <2>1. PICK t \in Tx : t = blob[v].tx
    BY <1>1, <1>6 DEF CallInv, Blob
  <2>2. request[v][key[v]] = [status |-> "Signed", preimage |-> t]
    BY <1>1, <1>6, <2>1 DEF CallInv
  <2>3. request[v][key[v]].status = "Signed" /\ request[v][key[v]].preimage = t
    BY <2>2
  <2>4. (pc[v] = "ok" => OnLedger(t, "tes")) /\ (pc[v] = "failed" => OnLedger(t, "tec"))
    BY <1>1, <2>1 DEF CallInv
  <2>5. CASE pc[v] = "ok"
    BY <2>3, <2>4, <2>5 DEF Fate, AppliedUnder
  <2>6. CASE pc[v] = "failed"
    BY <1>1, <1>3, <2>3, <2>4, <2>6 DEF DeadRequest
  <2>. QED  BY <1>6, <2>5, <2>6
<1>7. ASSUME backend # "local", pc[v] = "rejected"  PROVE Fate(v, key[v]) = "dead"
  BY <1>1, <1>3, <1>7 DEF CallInv, DeadRequest
<1>8. /\ Verdict(v) = "ok" => backend # "local" /\ pc[v] = "ok"
      /\ Verdict(v) = "dead" => backend # "local" /\ pc[v] \in {"failed", "rejected"}
  BY DEF Verdict
<1>9. (Verdict(v) = "ok" => Fate(v, key[v]) = "applied") /\ (Verdict(v) = "dead" => Fate(v, key[v]) = "dead")
  BY <1>6, <1>7, <1>8
<1>. QED  BY <1>1, <1>3, <1>5, <1>9 DEF FatesHold

LEMMA FateFactsNext == SignedInv' => (\A v \in Workers : FatesHold(v))'
BY FateFacts, PTL

\* A worker settles no key: it asks for a signature at most.
LEMMA WorkersSettleNothing ==
  ASSUME SignedInv, NEW w \in Workers, WorkerFrame(w), NEW v \in Workers
  PROVE  backend' = backend /\ fates(v)' = fates(v)
<1>1. backend' = backend /\ chain' = chain /\ now' = now
  BY DEF WorkerFrame
<1>2. (\A t, r : OnLedger(t, r)' <=> OnLedger(t, r)) /\ (\A q : DeadRequest(q)' <=> DeadRequest(q))
  BY <1>1, SameLedger
<1>3. ASSUME NEW k \in Keys  PROVE Fate(v, k)' = Fate(v, k)
  <2>1. CASE request'[v][k] = request[v][k]
    BY <1>1, <2>1 DEF Fate, AppliedUnder, DeadRequest, OnLedger
  <2>2. CASE ~Asked(v, k) /\ request'[v][k].status = "Open"
    BY <2>2 DEF Fate, AppliedUnder, DeadRequest, Asked
  <2>. QED  BY <2>1, <2>2 DEF WorkerFrame
<1>. QED  BY <1>1, <1>3 DEF fates

\* The custodian decides a request that is open, the ledger adds to what it has.
LEMMA SettledStaysSettled ==
  ASSUME SignedInv, SignedInv', BackendFrame \/ LedgerFrame, NEW v \in Workers, NEW k \in Keys
  PROVE  Fate(v, k) # "open" => Fate(v, k)' = Fate(v, k)
<1>1. TypeOK /\ RequestInv /\ FatesHold(v)'
  BY FateFactsNext DEF SignedInv
<1>2. ASSUME NEW t \in Tx, NEW r \in {"tes", "tec"}, OnLedger(t, r)  PROVE OnLedger(t, r)'
  <2>1. CASE BackendFrame
    BY <1>2, <2>1 DEF BackendFrame, ledgerVars, OnLedger
  <2>2. CASE LedgerFrame
    BY <1>2, <2>2 DEF LedgerFrame
  <2>. QED  BY <2>1, <2>2
<1>3. PICK q : q = request[v][k]
  OBVIOUS
<1>4. ASSUME q.status \in {"Signed", "Failed"}  PROVE request'[v][k] = q /\ q.preimage \in Tx
  BY <1>1, <1>3, <1>4 DEF BackendFrame, LedgerFrame, RequestInv, Asked
<1>5. CASE Fate(v, k) = "applied"
  <2>1. q.status = "Signed" /\ OnLedger(q.preimage, "tes")
    BY <1>3, <1>5 DEF Fate, AppliedUnder
  <2>2. OnLedger(q.preimage, "tes")' /\ request'[v][k] = q
    BY <1>2, <1>4, <2>1
  <2>3. AppliedUnder(v, k)'
    BY <2>1, <2>2 DEF AppliedUnder
  <2>. QED  BY <1>5, <2>3 DEF Fate
<1>6. CASE Fate(v, k) = "dead"
  <2>1. q.status = "Failed" \/ (q.status = "Signed" /\ OnLedger(q.preimage, "tec"))
    BY <1>3, <1>6 DEF Fate, DeadRequest
  <2>2. (OnLedger(q.preimage, "tec") => OnLedger(q.preimage, "tec")') /\ request'[v][k] = q
    BY <1>2, <1>4, <2>1
  <2>3. DeadRequest(request[v][k])'
    BY <2>1, <2>2 DEF DeadRequest
  <2>. QED  BY <1>1, <1>6, <2>3 DEF FatesHold
<1>. QED  BY <1>5, <1>6 DEF Fate

\* So a step of theirs settles the key in use at most.
LEMMA OthersSettle ==
  ASSUME SignedInv, SignedInv', BackendFrame \/ LedgerFrame, NEW v \in Workers
  PROVE  Write(v)!Next \/ UNCHANGED Write(v)!vars
<1>1. backend' = backend /\ key' = key /\ pc' = pc
  BY DEF BackendFrame, LedgerFrame, callVars
<1>2. current(v)' = current(v) /\ verdicts(v)' = verdicts(v)
  BY <1>1 DEF current, verdicts, Verdict
<1>3. FatesHold(v) /\ FatesHold(v)'
  BY FateFacts, FateFactsNext
<1>4. PICK k \in Keys : k = key[v]
  BY <1>3 DEF FatesHold
<1>5. \A j \in Keys : Fate(v, j)' = Fate(v, j) \/ (backend # "local" /\ j = k /\ Fate(v, j) = "open")
  BY <1>1, <1>3, <1>4, SettledStaysSettled DEF FatesHold, Keys
<1>6. CASE \A j \in Keys : Fate(v, j)' = Fate(v, j)
  <2>1. fates(v)' = fates(v)
    BY <1>6 DEF fates
  <2>. QED  BY <1>2, <2>1, WriteStutters
<1>7. CASE backend # "local" /\ Fate(v, k) = "open" /\ Fate(v, k)' # "open"
  <2>1. PICK o \in {"applied", "dead"} : o = Fate(v, k)'
    BY <1>7 DEF Fate
  <2>2. fates(v)' = [fates(v) EXCEPT ![k] = o]
    BY <1>5, <2>1 DEF fates
  <2>3. fates(v)[k] = "open" /\ current(v) = k
    BY <1>4, <1>7 DEF fates, current
  <2>4. Write(v)!Settle(o)
    BY <1>2, <2>2, <2>3 DEF Write!Settle, current, fates, verdicts
  <2>. QED  BY <2>1, <2>4 DEF Write!Next
<1>. QED  BY <1>5, <1>6, <1>7

\* A worker's step answers its own caller, or the caller takes note, or it is invisible.
LEMMA WorkerAnswers ==
  ASSUME SignedInv, SignedInv', NEW w \in Workers, Worker(w), NEW v \in Workers
  PROVE  Write(v)!Next \/ UNCHANGED Write(v)!vars
<1>1. WorkerFrame(w) /\ TypeOK
  BY WorkerType DEF SignedInv
<1>2. backend' = backend /\ fates(v)' = fates(v)
  BY <1>1, WorkersSettleNothing
<1>3. FatesHold(v) /\ FatesHold(v)'
  BY FateFacts, FateFactsNext
<1>4. CASE backend = "local"
  <2>1. current(v)' = current(v) /\ verdicts(v)' = verdicts(v)
    BY <1>2, <1>4 DEF current, verdicts, Verdict
  <2>. QED  BY <1>2, <2>1, WriteStutters
<1>5. CASE v # w
  <2>1. key'[v] = key[v] /\ pc'[v] = pc[v]
    BY <1>1, <1>5 DEF WorkerFrame
  <2>2. current(v)' = current(v) /\ verdicts(v)' = verdicts(v)
    BY <1>2, <2>1 DEF current, verdicts, Verdict
  <2>. QED  BY <1>2, <2>2, WriteStutters
<1>6. CASE backend # "local" /\ v = w /\ Return(v)
  <2>1. Verdict(v) # "none" /\ Verdict(v)' = "none"
    BY <1>1, <1>6 DEF Return, Verdict, Answers, TypeOK
  <2>2. key'[v] = key[v] \/ (key'[v] = key[v] + 1 /\ key[v] < MaxKey /\ Verdict(v) = "dead")
    BY <1>1, <1>6 DEF Return, Verdict, Answers, TypeOK
  <2>3. verdicts(v)[v] = Verdict(v) /\ verdicts(v)' = [verdicts(v) EXCEPT ![v] = "none"]
    BY <2>1 DEF verdicts
  <2>4. current(v) = key[v] /\ current(v)' = key'[v] /\ fates(v)[key[v]] = Fate(v, key[v])
    BY <1>2, <1>3, <1>6 DEF current, fates, FatesHold
  <2>5. \/ current(v)' = current(v)
        \/ /\ verdicts(v)[v] = "dead" /\ fates(v)[current(v)] = "dead" /\ current(v) < MaxKey
           /\ current(v)' = current(v) + 1
    BY <1>3, <2>2, <2>3, <2>4 DEF FatesHold
  <2>6. Write(v)!Note(v)
    BY <1>2, <2>1, <2>3, <2>5 DEF Write!Note, current, fates, verdicts
  <2>. QED  BY <2>6 DEF Write!Next
<1>7. CASE backend # "local" /\ v = w /\ ~Return(v)
  <2>1. pc[v] \notin Answers /\ key'[v] = key[v]
    BY <1>1, <1>7 DEF Worker, Autofill, Advance, Fail, Crash, SignLocally, RequestSignature, CollectSignature,
       SignatureRefused, TimesOut, Submit, Validated, Lapse, Refuse, RequestFails, ReadFails, SubmitFails, WaitFails,
       Finish, Signed, Answers, Working
  <2>2. Verdict(v) = "none" /\ current(v)' = current(v)
    BY <1>2, <2>1 DEF Verdict, current
  <2>3. CASE Verdict(v)' = "none"
    <3>1. verdicts(v)' = verdicts(v)
      BY <2>2, <2>3 DEF verdicts
    <3>. QED  BY <1>2, <2>2, <3>1, WriteStutters
  <2>4. CASE Verdict(v)' # "none"
    <3>1. PICK a \in {"ok", "dead", "unsure"} : a = Verdict(v)'
      BY <2>4 DEF Verdict
    <3>2. verdicts(v)[v] = "none" /\ verdicts(v)' = [verdicts(v) EXCEPT ![v] = a]
      BY <2>2, <3>1 DEF verdicts
    <3>3. PICK k \in Keys : k = key[v] /\ k = current(v)
      BY <1>3, <1>7 DEF FatesHold, current
    <3>4. (a = "ok" => fates(v)[k] = "applied") /\ (a = "dead" => fates(v)[k] = "dead")
      <4>1. fates(v)[k] = fates(v)'[k]
        BY <1>2
      <4>2. fates(v)'[k] = Fate(v, k)'
        BY DEF fates
      <4>3. (a = "ok" => Fate(v, k)' = "applied") /\ (a = "dead" => Fate(v, k)' = "dead")
        BY <1>3, <2>1, <3>1, <3>3 DEF FatesHold
      <4>. QED  BY <4>1, <4>2, <4>3
    <3>5. k \in 1..k
      BY DEF Keys
    <3>6. Write(v)!Answer(v, a)
      BY <1>2, <2>2, <3>2, <3>3, <3>4, <3>5 DEF Write!Answer, current, fates, verdicts
    <3>. QED  BY <3>1, <3>6 DEF Write!Next
  <2>. QED  BY <2>3, <2>4
<1>. QED  BY <1>4, <1>5, <1>6, <1>7

\* Whatever is signed through a custodian is a write that is applied at most once and
\* whose definite answers are true, each write of the account by itself.
THEOREM SignedWriteImplementsWrite ==
  ASSUME NEW v \in Workers
  PROVE  Spec => Write(v)!Spec
<1>1. Init => Write(v)!Init
  <2>. SUFFICES ASSUME Init  PROVE Write(v)!Init
    OBVIOUS
  <2>1. ASSUME NEW k \in Keys  PROVE Fate(v, k) = "open"
    <3>1. request[v][k].status = "None"
      BY DEF Init
    <3>. QED  BY <3>1 DEF Fate, AppliedUnder, DeadRequest
  <2>2. Verdict(v) = "none"
    BY DEF Init, Verdict, Answers
  <2>3. current(v) = 1 /\ fates(v) = [k \in Keys |-> "open"] /\ verdicts(v) = [u \in {v} |-> "none"]
    BY <2>1, <2>2 DEF Init, current, fates, verdicts
  <2>. QED  BY <2>3 DEF Write!Init, Write!Keys, Keys, current, fates, verdicts
<1>2. SignedInv /\ SignedInv' /\ [Next]_vars => [Write(v)!Next]_(Write(v)!vars)
  <2>. SUFFICES ASSUME SignedInv, SignedInv', [Next]_vars
                PROVE  Write(v)!Next \/ UNCHANGED Write(v)!vars
    OBVIOUS
  <2>1. CASE UNCHANGED vars
    <3>1. /\ current(v)' = current(v) /\ fates(v)' = fates(v) /\ verdicts(v)' = verdicts(v)
      BY <2>1 DEF vars, current, fates, verdicts, Fate, Verdict, AppliedUnder, DeadRequest, OnLedger
    <3>. QED  BY <3>1, WriteStutters
  <2>2. CASE Backend
    BY <2>2, BackendFrames, OthersSettle
  <2>3. CASE Ledger
    BY <2>3, LedgerFrames, OthersSettle
  <2>4. CASE \E w \in Workers : Worker(w)
    BY <2>4, WorkerAnswers
  <2>. QED  BY <2>1, <2>2, <2>3, <2>4 DEF Next
<1>. QED  BY <1>1, <1>2, SignedCorrect, PTL DEF Spec, Write!Spec
=============================================================================
