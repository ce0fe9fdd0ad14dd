---------------------------- MODULE SignedWrite ----------------------------
(***************************************************************************)
(* Writes the SDK submits to the ledger itself: autofill, sign, submit,    *)
(* wait.  The signature comes from a wallet or a KMS at once (LocalSigner, *)
(* ExternalSigner: "local"), from a Ripple Custody manifest that people    *)
(* approve ("ripple": raw-flow.ts), or from Palisade's sign-only request   *)
(* ("palisade": PalisadeCustody.sign).                                     *)
(*                                                                         *)
(* Each worker makes one write, calling again as it sees fit; all writes,  *)
(* and those of others, are of ONE account and compete for its Sequence    *)
(* numbers.  Custody, Palisade, the ledger and xrpl.js's submitAndWait are *)
(* external.                                                               *)
(***************************************************************************)
EXTENDS Naturals

CONSTANTS Workers,    \* the writes
          MaxKey,     \* bound: idempotency keys a write may use
          MaxSeq,     \* bound: Sequence numbers of the account
          MaxLedger,  \* bound: ledgers closed
          Window      \* ledgers a transaction has left when autofilled

ASSUME BoundsAssumption == /\ MaxKey \in Nat \ {0}
                           /\ MaxSeq \in Nat \ {0}
                           /\ MaxLedger \in Nat \ {0}
                           /\ Window \in Nat

Keys == 1..MaxKey
Seqs == 1..MaxSeq
Ledgers == 1..MaxLedger
Backends == {"local", "ripple", "palisade"}

Tx == [writer : Workers, seq : Seqs, last : Ledgers]
\* A signed transaction, and the transaction its signature was made for.
Blob == [tx : Tx, sig : Tx]
NoTx == [writer |-> "none"]
NoBlob == [tx |-> NoTx, sig |-> NoTx]

Working == {"filled", "awaiting", "signed", "submitted"}
\* SubmissionResult, XrpldSubmitError, a signature refused for good,
\* IntentPendingError, the error of a wait that passed LastLedgerSequence, an
\* error before anything is sent, a 409, an outcome left unknown.
Answers == {"ok", "failed", "rejected", "pending", "lapsed", "refused", "conflict", "unknown"}

VARIABLES
  backend,               \* who signs, fixed
  pc, key, tx, blob,     \* per worker: the call in progress
  doubt,                 \* per worker: an earlier call may have left something behind
  careful,               \* history: no local write was repeated in doubt
  late,                  \* signature requests in the network, their sender gone
  request,               \* Custody, Palisade: the signature request under each key
  net, chain, now        \* blobs broadcast; what each Sequence was spent on; ledger index

callVars == <<pc, key, tx, blob, doubt, careful>>
ledgerVars == <<net, chain, now>>
vars == <<backend, pc, key, tx, blob, doubt, careful, late, request, net, chain, now>>

RequestStatus == {"None", "Open", "Signed", "Failed"}
Unspent == [tx |-> NoTx, result |-> "none"]
Rival == [tx |-> NoTx, result |-> "tes"]

TypeOK ==
  /\ backend \in Backends
  /\ pc \in [Workers -> {"idle", "done"} \cup Working \cup Answers]
  /\ key \in [Workers -> Keys]
  /\ tx \in [Workers -> Tx \cup {NoTx}]
  /\ blob \in [Workers -> Blob \cup {NoBlob}]
  /\ doubt \in [Workers -> BOOLEAN] /\ careful \in BOOLEAN
  /\ late \in SUBSET (Keys \X Tx)
  /\ request \in [Workers -> [Keys -> [status : RequestStatus, preimage : Tx \cup {NoTx}]]]
  /\ net \in SUBSET Blob
  /\ chain \in [Seqs -> [tx : Tx, result : {"tes", "tec"}] \cup {Unspent, Rival}]
  /\ now \in Ledgers

Init ==
  /\ backend \in Backends
  /\ pc = [w \in Workers |-> "idle"]
  /\ key = [w \in Workers |-> 1]
  /\ tx = [w \in Workers |-> NoTx]
  /\ blob = [w \in Workers |-> NoBlob]
  /\ doubt = [w \in Workers |-> FALSE]
  /\ careful = TRUE
  /\ late = {}
  /\ request = [w \in Workers |-> [k \in Keys |-> [status |-> "None", preimage |-> NoTx]]]
  /\ net = {}
  /\ chain = [s \in Seqs |-> Unspent]
  /\ now = 1

Spent(s) == chain[s] # Unspent
\* The next Sequence of the validated ledger.
IsNextSeq(s) == (s \in Seqs => ~Spent(s)) /\ \A r \in 1..(s - 1) : Spent(r)
OnLedger(t, r) == \E s \in Seqs : chain[s] = [tx |-> t, result |-> r]

-----------------------------------------------------------------------------
(* Steps of a call                                                          *)

Finish(w, answer) ==
  /\ pc' = [pc EXCEPT ![w] = answer]
  /\ UNCHANGED <<key, tx, blob, doubt, careful>>

\* prepareSubmission: the transaction gets the next Sequence of the open ledger,
\* which may already count transactions under way, and a last ledger.
Autofill(w) ==
  /\ pc[w] = "idle"
  /\ now + Window < MaxLedger
  /\ \E next, s \in Seqs :
       /\ IsNextSeq(next) /\ next <= s
       /\ \A r \in next..(s - 1) : \E b \in net : b.tx.seq = r
       /\ tx' = [tx EXCEPT ![w] = [writer |-> w, seq |-> s, last |-> now + Window]]
  /\ pc' = [pc EXCEPT ![w] = "filled"]
  /\ careful' = (careful /\ (backend = "local" => ~doubt[w]))
  /\ UNCHANGED <<backend, key, blob, doubt, late, request>> /\ UNCHANGED ledgerVars

\* The context guards, a missing public key, the version guard, the dry-run or
\* the KMS refuses: nothing is sent.
Refuse(w) ==
  /\ pc[w] = "filled"
  /\ Finish(w, "refused")
  /\ UNCHANGED <<backend, late, request>> /\ UNCHANGED ledgerVars

Signed(w, t, preimage) ==
  /\ pc' = [pc EXCEPT ![w] = "signed"]
  /\ blob' = [blob EXCEPT ![w] = [tx |-> t, sig |-> preimage]]
  /\ UNCHANGED <<key, tx, doubt, careful>>

SignLocally(w) ==
  /\ pc[w] = "filled" /\ backend = "local"
  /\ Signed(w, tx[w], tx[w])
  /\ UNCHANGED <<backend, late, request>> /\ UNCHANGED ledgerVars

Ask(v, k, t) == request' = [request EXCEPT ![v][k] = [status |-> "Open", preimage |-> t]]
Asked(v, k) == request[v][k].status # "None"

\* Defect kept for comparison: the raw path absorbs a 409 as the native one does.
AbsorbConflict(w) ==
  /\ pc[w] = "filled" /\ backend # "local"
  /\ pc' = [pc EXCEPT ![w] = "awaiting"]
  /\ IF Asked(w, key[w]) THEN UNCHANGED request ELSE Ask(w, key[w], tx[w])
  /\ UNCHANGED <<backend, key, tx, blob, doubt, careful, late>> /\ UNCHANGED ledgerVars

\* The signature request is created; for a key already used, Custody answers 409,
\* which is thrown, and Palisade answers with the request it has.
RequestSignature(w) ==
  /\ pc[w] = "filled" /\ backend # "local"
  /\ IF ~Asked(w, key[w])
     THEN pc' = [pc EXCEPT ![w] = "awaiting"] /\ Ask(w, key[w], tx[w])
     ELSE /\ pc' = [pc EXCEPT ![w] = IF backend = "ripple" THEN "conflict" ELSE "awaiting"]
          /\ UNCHANGED request
  /\ UNCHANGED <<backend, key, tx, blob, doubt, careful, late>> /\ UNCHANGED ledgerVars

\* No answer: the request may be processed at any later moment, or never.
RequestFails(w) ==
  /\ pc[w] = "filled" /\ backend # "local"
  /\ Finish(w, "unknown")
  /\ late' = late \cup {<<key[w], tx[w]>>}
  /\ UNCHANGED <<backend, request>> /\ UNCHANGED ledgerVars

\* The signature is there.  Custody's is set into the transaction this call
\* prepared; Palisade returns the transaction it signed.
CollectSignature(w) ==
  /\ pc[w] = "awaiting" /\ request[w][key[w]].status = "Signed"
  /\ LET preimage == request[w][key[w]].preimage
     IN Signed(w, IF backend = "ripple" THEN tx[w] ELSE preimage, preimage)
  /\ UNCHANGED <<backend, late, request>> /\ UNCHANGED ledgerVars

\* The signature is refused, or its manifest failed or expired: nothing was sent.
SignatureRefused(w) ==
  /\ pc[w] = "awaiting" /\ request[w][key[w]].status = "Failed"
  /\ Finish(w, "rejected")
  /\ UNCHANGED <<backend, late, request>> /\ UNCHANGED ledgerVars

\* Defect kept for comparison: the wait for the signature has no deadline.
WaitsForever(w) == FALSE /\ UNCHANGED vars

\* The wait ends without a signature: IntentPendingError.
TimesOut(w) ==
  /\ pc[w] = "awaiting" /\ request[w][key[w]].status \in {"Open", "Signed"}
  /\ Finish(w, "pending")
  /\ UNCHANGED <<backend, late, request>> /\ UNCHANGED ledgerVars

ReadFails(w) ==
  /\ pc[w] = "awaiting"
  /\ Finish(w, "unknown")
  /\ UNCHANGED <<backend, late, request>> /\ UNCHANGED ledgerVars

\* ledger.submitAndWait: the blob is broadcast, ...
Submit(w) ==
  /\ pc[w] = "signed"
  /\ pc' = [pc EXCEPT ![w] = "submitted"]
  /\ net' = net \cup {blob[w]}
  /\ UNCHANGED <<backend, key, tx, blob, doubt, careful, late, request, chain, now>>

\* ... or may have been: the request failed.
SubmitFails(w) ==
  /\ pc[w] = "signed"
  /\ Finish(w, "unknown")
  /\ net' \in {net, net \cup {blob[w]}}
  /\ UNCHANGED <<backend, late, request, chain, now>>

\* Defect kept for comparison: any validated transaction is a success.
ValidatedIsSuccess(w) ==
  /\ pc[w] = "submitted"
  /\ \E r \in {"tes", "tec"} : OnLedger(blob[w].tx, r) /\ Finish(w, "ok")
  /\ UNCHANGED <<backend, late, request>> /\ UNCHANGED ledgerVars

\* The transaction is found validated: a result, or XrpldSubmitError.
Validated(w) ==
  /\ pc[w] = "submitted"
  /\ \E r \in {"tes", "tec"} :
       OnLedger(blob[w].tx, r) /\ Finish(w, IF r = "tes" THEN "ok" ELSE "failed")
  /\ UNCHANGED <<backend, late, request>> /\ UNCHANGED ledgerVars

\* xrpl.js looks at the ledger index before it looks for the transaction, so a
\* transaction validated just in time may be reported like one that was not.
Lapse(w) ==
  /\ pc[w] = "submitted" /\ now > blob[w].tx.last
  /\ Finish(w, "lapsed")
  /\ UNCHANGED <<backend, late, request>> /\ UNCHANGED ledgerVars

\* Defect kept for comparison: an error while waiting is reported as a failure
\* of the transaction.
WaitErrorIsFailure(w) ==
  /\ pc[w] = "submitted"
  /\ Finish(w, "failed")
  /\ UNCHANGED <<backend, late, request>> /\ UNCHANGED ledgerVars

\* Any other error while waiting is thrown as it is.
WaitFails(w) ==
  /\ pc[w] = "submitted"
  /\ Finish(w, "unknown")
  /\ UNCHANGED <<backend, late, request>> /\ UNCHANGED ledgerVars

-----------------------------------------------------------------------------
(* The callers                                                              *)

LeavesDoubt(w) == \/ pc[w] = "unknown"
                  \/ pc[w] = "lapsed" /\ OnLedger(blob[w].tx, "tes")

\* A caller done with a call stops at success, and takes a fresh key when the
\* one it used is known to have come to nothing.  An error that leaves the
\* outcome open leaves it in doubt, and so does a lapsed wait whose transaction
\* is on the ledger after all.
Return(w) ==
  /\ pc[w] \in Answers
  /\ pc' = [pc EXCEPT ![w] = IF @ = "ok" THEN "done" ELSE "idle"]
  /\ key' = [key EXCEPT ![w] = IF pc[w] \in {"failed", "rejected"} /\ @ < MaxKey THEN @ + 1 ELSE @]
  /\ doubt' = [doubt EXCEPT ![w] = @ \/ LeavesDoubt(w)]
  /\ tx' = [tx EXCEPT ![w] = NoTx]
  /\ blob' = [blob EXCEPT ![w] = NoBlob]
  /\ UNCHANGED <<backend, careful, late, request>> /\ UNCHANGED ledgerVars

Crash(w) ==
  /\ pc[w] \in Working
  /\ pc' = [pc EXCEPT ![w] = "idle"]
  /\ doubt' = [doubt EXCEPT ![w] = TRUE]
  /\ tx' = [tx EXCEPT ![w] = NoTx]
  /\ blob' = [blob EXCEPT ![w] = NoBlob]
  /\ UNCHANGED <<backend, key, careful, late, request>> /\ UNCHANGED ledgerVars

-----------------------------------------------------------------------------
(* Custody, Palisade and the ledger                                         *)

LateRequest(k, t) ==
  /\ <<k, t>> \in late
  /\ late' = late \ {<<k, t>>}
  /\ IF Asked(t.writer, k) THEN UNCHANGED request ELSE Ask(t.writer, k, t)
  /\ UNCHANGED backend /\ UNCHANGED callVars /\ UNCHANGED ledgerVars

Decide(v, k, s) ==
  /\ request[v][k].status = "Open"
  /\ request' = [request EXCEPT ![v][k].status = s]
  /\ UNCHANGED <<backend, late>> /\ UNCHANGED callVars /\ UNCHANGED ledgerVars

\* A transaction properly signed, with the account's next Sequence and its last
\* ledger not passed.
Apply(b, r) ==
  /\ b \in net /\ b.tx = b.sig
  /\ IsNextSeq(b.tx.seq) /\ now <= b.tx.last
  /\ chain' = [chain EXCEPT ![b.tx.seq] = [tx |-> b.tx, result |-> r]]
  /\ UNCHANGED <<backend, late, request, net, now>> /\ UNCHANGED callVars

\* Someone else who writes from the account was first to this Sequence.
Compete ==
  /\ \E s \in Seqs : IsNextSeq(s) /\ chain' = [chain EXCEPT ![s] = Rival]
  /\ UNCHANGED <<backend, late, request, net, now>> /\ UNCHANGED callVars

Close ==
  /\ now < MaxLedger
  /\ now' = now + 1
  /\ UNCHANGED <<backend, late, request, net, chain>> /\ UNCHANGED callVars

-----------------------------------------------------------------------------
Advance(w) ==
  \/ SignLocally(w) \/ RequestSignature(w)
  \/ CollectSignature(w) \/ SignatureRefused(w) \/ TimesOut(w)
  \/ Submit(w) \/ Validated(w) \/ Lapse(w)

Fail(w) == Refuse(w) \/ RequestFails(w) \/ ReadFails(w) \/ SubmitFails(w) \/ WaitFails(w)

Worker(w) == Autofill(w) \/ Advance(w) \/ Fail(w) \/ Return(w) \/ Crash(w)

Backend ==
  \/ \E p \in late : LateRequest(p[1], p[2])
  \/ \E v \in Workers, k \in Keys, s \in {"Signed", "Failed"} : Decide(v, k, s)

Ledger == Close \/ Compete \/ \E b \in net, r \in {"tes", "tec"} : Apply(b, r)

Next == Backend \/ Ledger \/ \E w \in Workers : Worker(w)

Spec == Init /\ [][Next]_vars

(***************************************************************************)
(* Properties                                                              *)
(***************************************************************************)

\* A write is applied at most once: by a custodian's raw path under any retries
\* with its key (Custody signs once per key, Palisade returns the transaction it
\* signed first), and by a local signer if its caller repeats the write only
\* after an answer that rules the last attempt out, to which a wait that passed
\* LastLedgerSequence, with nothing found on the ledger, belongs.
WriteAppliedOnce ==
  backend # "local" \/ careful =>
    \A s1, s2 \in Seqs :
      /\ chain[s1].result = "tes" /\ chain[s1] # Rival
      /\ chain[s2].result = "tes" /\ chain[s2] # Rival
      /\ chain[s1].tx.writer = chain[s2].tx.writer
      => s1 = s2

\* What is broadcast is properly signed: a signature approved long after it was
\* asked for is only ever set into the transaction it was made for.
SignatureCovers == \A b \in net : b.tx = b.sig

\* Success and failure are reported of the worker's own write, whatever the
\* other writes of the account made of the Sequence: "ok" was applied, "failed"
\* is on the ledger without effect.
AnswersAreOwn ==
  \A w \in Workers :
    /\ pc[w] = "ok" => OnLedger(blob[w].tx, "tes")
    /\ pc[w] = "failed" => OnLedger(blob[w].tx, "tec")
    /\ pc[w] \in {"ok", "failed"} => blob[w].tx.writer = w

-----------------------------------------------------------------------------
(* The inductive invariant.                                                  *)

\* A Sequence is spent on a broadcast transaction that names it.
ChainInv ==
  \A s \in Seqs : chain[s] \notin {Unspent, Rival} =>
    /\ chain[s].tx.seq = s
    /\ [tx |-> chain[s].tx, sig |-> chain[s].tx] \in net

\* A key's request has come to nothing: no signature, or one without effect.
DeadRequest(q) == q.status = "Failed" \/ (q.status = "Signed" /\ OnLedger(q.preimage, "tec"))

\* A request is for a transaction of its own write; the keys before the one in use
\* came to nothing, those after it have not been used.
RequestInv ==
  /\ \A v \in Workers, k \in Keys :
       /\ Asked(v, k) => request[v][k].preimage \in Tx /\ request[v][k].preimage.writer = v
       /\ k > key[v] => ~Asked(v, k)
       /\ backend # "local" /\ k < key[v] => DeadRequest(request[v][k])
       /\ backend = "local" => ~Asked(v, k)
  /\ backend = "local" => late = {}
  /\ \A p \in late : p[1] <= key[p[2].writer]

\* What a custodian's raw path broadcasts was signed under one of its write's keys.
NetInv ==
  /\ SignatureCovers
  /\ backend # "local" => \A b \in net : \E k \in Keys :
       request[b.tx.writer][k] = [status |-> "Signed", preimage |-> b.tx]

\* The call in progress holds its write's transaction and the signature for it.
CallInv(w) ==
  /\ pc[w] \in {"filled", "awaiting"} => tx[w] \in Tx /\ tx[w].writer = w
  /\ pc[w] \in {"awaiting", "rejected"} => backend # "local" /\ Asked(w, key[w])
  /\ pc[w] = "awaiting" /\ backend = "ripple" => request[w][key[w]].preimage = tx[w]
  /\ pc[w] = "rejected" => request[w][key[w]].status = "Failed"
  /\ pc[w] \in {"signed", "submitted", "ok", "failed", "lapsed"} =>
       /\ blob[w] \in Blob /\ blob[w].tx = blob[w].sig /\ blob[w].tx.writer = w
       /\ backend # "local" => request[w][key[w]] = [status |-> "Signed", preimage |-> blob[w].tx]
  /\ pc[w] = "ok" => OnLedger(blob[w].tx, "tes")
  /\ pc[w] = "failed" => OnLedger(blob[w].tx, "tec")
  /\ pc[w] = "lapsed" => now > blob[w].tx.last

\* A transaction that never applies any more.
Gone(t) == OnLedger(t, "tec") \/ (now > t.last /\ ~OnLedger(t, "tes"))

Sent(w) == {b \in net : b.tx.writer = w}

\* A careful local writer has at most one transaction that may apply: that of the
\* call in progress, or the one it is in doubt about.
LocalInv(w) ==
  backend = "local" /\ careful =>
    /\ doubt[w] => pc[w] = "idle"
    /\ \A b, c \in Sent(w) : Gone(b.tx) \/ Gone(c.tx) \/ b = c
    /\ ~doubt[w] /\ pc[w] # "done" => \A b \in Sent(w) :
         Gone(b.tx) \/ (b = blob[w] /\ pc[w] \in {"submitted", "ok", "failed", "lapsed", "unknown"})

SignedInv ==
  /\ TypeOK /\ ChainInv /\ RequestInv /\ NetInv
  /\ \A w \in Workers : CallInv(w) /\ LocalInv(w)

-----------------------------------------------------------------------------
\* Each write signed through a custodian behaves as a write of its own that is applied
\* at most once and whose definite answers are true, however others compete for its
\* Sequence.  Of local signers no such promise is made (they map to a write nobody has
\* begun).
AppliedUnder(v, k) == request[v][k].status = "Signed" /\ OnLedger(request[v][k].preimage, "tes")

Fate(v, k) == IF AppliedUnder(v, k) THEN "applied"
              ELSE IF DeadRequest(request[v][k]) THEN "dead" ELSE "open"

Verdict(v) == IF backend = "local" \/ pc[v] \notin Answers THEN "none"
              ELSE IF pc[v] = "ok" THEN "ok"
              ELSE IF pc[v] \in {"failed", "rejected"} THEN "dead" ELSE "unsure"

Write(v) == INSTANCE AtMostOnceWrite WITH
  Workers <- {v},
  current <- IF backend = "local" THEN 1 ELSE key[v],
  fate <- [k \in Keys |-> Fate(v, k)],
  verdict <- [u \in {v} |-> Verdict(u)]

-----------------------------------------------------------------------------
\* Calls whose requests are answered or time out: Ripple Custody's throughout, and
\* anybody's once there is a signature, which is the ledger node's to deal with.
\* Palisade's requests, and a key-management service, may take for ever.
Bounded(w) == pc[w] \in Working /\ (backend = "ripple" \/ pc[w] \in {"signed", "submitted"})

\* Timers fire and ledgers close; nothing is owed to a step that fails, to the
\* custodian or to the ledger.
FairSpec ==
  Spec /\ WF_vars(Close) /\ \A w \in Workers : WF_vars(Bounded(w) /\ Advance(w))

\* Every such call comes back, even if Custody never decides and the transaction
\* never applies.
CallsReturn == \A w \in Workers : Bounded(w) ~> pc[w] \notin Working
=============================================================================
