------------------------------ MODULE Intents ------------------------------
(***************************************************************************)
(* Governed intents through CustodyApi and client.intent: propose,         *)
(* proposeTransactionOrder, proposeAndWait, waitForIntent, approve and     *)
(* reject, and the inspector's status, await and outcome.                  *)
(*                                                                         *)
(* Custodians stand in different Custody domains, some of them of          *)
(* different Custody instances, and an intent can only be read in the      *)
(* domain it targets: an intent asked after anywhere else looks like one   *)
(* that is not readable yet.  Callers, and one application they share,     *)
(* drive ONE proposal; what they know of its id is `known'.  Unlike the    *)
(* submission of a transaction (CustodySubmission), propose lets Custody's *)
(* 409 through.  Custody and the people who decide are external.           *)
(***************************************************************************)
EXTENDS FiniteSets, Naturals

CONSTANTS Callers,   \* calls that propose and ask, one after the other
          Approvers, \* calls that approve and reject
          Signers,   \* Ripple Custody custodians of the client
          Home,      \* the domain each is configured with
          Reach,     \* the domains of the Custody instance each talks to
          Observer,  \* the first registered one: client.intent asks it
          MaxFresh,  \* bound: ids the SDK generates
          MaxReads,  \* bound: further reads a wait may make
          MaxLate    \* bound: abandoned requests that may still arrive at a time

Places == UNION {Reach[s] : s \in Signers}
Named == 0                        \* the id the caller supplies, if it does
NoId == MaxFresh + 1
Ids == 0..MaxFresh
Calls == Callers \cup Approvers

ASSUME PlacesAssumption ==
  /\ MaxFresh \in Nat \ {0} /\ MaxReads \in Nat /\ MaxLate \in Nat
  /\ Observer \in Signers
  /\ Callers \cap Approvers = {}
  /\ \A s \in Signers : Home[s] \in Reach[s]

Final == {"Executed", "Dead"}      \* Dead: Rejected, Expired or Failed
IntentStatus == {"None", "Open"} \cup Final
Proposals == {"propose", "proposeAndWait"}
Waits == {"proposeAndWait", "wait", "waitAt", "inspect", "inspectAt"}
Decisions == {"Approve", "Reject"}
Routes == Proposals \cup Waits \cup Decisions \cup {"status", "decide"}

VARIABLES
  order,    \* the proposal: the custodian it goes through, the domain it targets
  known,    \* the id the application has for it
  used,     \* ids generated so far
  blind,    \* a proposal was sent whose id its caller never learned
  pc, route, id, via, left, seen,   \* per caller: the call in progress
  status, visible,                  \* Custody: each intent, and its read model
  late      \* requests still in the network, their senders gone

callVars == <<pc, route, id, via, left, seen>>
custodyVars == <<status, visible, late>>
appVars == <<order, known, used, blind>>
vars == <<appVars, callVars, custodyVars>>

Working == {"check", "posted", "gotPost", "reading", "gotRead", "deciding"}
Answers == {"proposed", "conflict", "refused", "unknown", "pending", "Open"} \cup Final
Readings == {"nothing", "Created", "Conflict", "NotFound", "NoAnswer"} \cup Answers

TypeOK ==
  /\ order \in [by : Signers, target : Places]
  /\ known \in Ids \cup {NoId} /\ used \in 0..MaxFresh /\ blind \in BOOLEAN
  /\ pc \in [Calls -> {"idle", "answered"} \cup Working]
  /\ route \in [Calls -> Routes]
  /\ id \in [Calls -> Ids \cup {NoId}]
  /\ via \in [Calls -> Signers]
  /\ left \in [Calls -> 0..MaxReads]
  /\ seen \in [Calls -> Readings]
  /\ status \in [Ids -> IntentStatus] /\ visible \in [Ids -> BOOLEAN]
  /\ late \subseteq [what : {"Propose", "Reject"}, of : Ids]

Init ==
  /\ order \in {o \in [by : Signers, target : Places] : o.target \in Reach[o.by]}
  /\ known \in {Named, NoId}
  /\ used = 0 /\ blind = FALSE
  /\ pc = [c \in Calls |-> "idle"]
  /\ route = [c \in Calls |-> "propose"]
  /\ id = [c \in Calls |-> NoId]
  /\ via = [c \in Calls |-> Observer]
  /\ left = [c \in Calls |-> 0]
  /\ seen = [c \in Calls |-> "nothing"]
  /\ status = [i \in Ids |-> "None"]
  /\ visible = [i \in Ids |-> FALSE]
  /\ late = {}

-----------------------------------------------------------------------------
(* Steps of a call                                                          *)

Goto(c, label) == pc' = [pc EXCEPT ![c] = label]

\* An answer of Custody reaches the call.
Receive(c, label, reading) ==
  /\ Goto(c, label)
  /\ seen' = [seen EXCEPT ![c] = reading]
  /\ UNCHANGED <<route, id, via, left>>

\* The call returns or throws; of its locals the answer's route and id remain.
Answer(c, says) ==
  /\ Goto(c, "answered")
  /\ seen' = [seen EXCEPT ![c] = says]
  /\ via' = [via EXCEPT ![c] = Observer]
  /\ left' = [left EXCEPT ![c] = 0]
  /\ UNCHANGED <<route, id>>

\* The call is over, its locals gone.
Over(c) ==
  /\ Goto(c, "idle")
  /\ route' = [route EXCEPT ![c] = "propose"]
  /\ id' = [id EXCEPT ![c] = NoId]
  /\ via' = [via EXCEPT ![c] = Observer]
  /\ left' = [left EXCEPT ![c] = 0]
  /\ seen' = [seen EXCEPT ![c] = "nothing"]

StartReading(c, reads) ==
  /\ Goto(c, "reading")
  /\ left' = [left EXCEPT ![c] = reads]
  /\ seen' = [seen EXCEPT ![c] = "nothing"]
  /\ UNCHANGED <<route, id, via>>

Start(c, r, i, s, label) ==
  /\ pc[c] = "idle"
  /\ Goto(c, label)
  /\ route' = [route EXCEPT ![c] = r]
  /\ id' = [id EXCEPT ![c] = i]
  /\ via' = [via EXCEPT ![c] = s]
  /\ left' = [left EXCEPT ![c] = IF r \in Waits THEN MaxReads ELSE 0]
  /\ UNCHANGED seen /\ UNCHANGED <<appVars, custodyVars>>

Learn(i) == known' = i /\ UNCHANGED <<order, used, blind>>

\* The call ends without telling its id to a caller who does not have it.
LoseId == blind' = (blind \/ known = NoId) /\ UNCHANGED <<order, known, used>>

-----------------------------------------------------------------------------
(* Proposing                                                                *)

\* propose, proposeTransactionOrder or proposeAndWait.  A caller who has no id
\* to supply does not propose the same thing twice at a time.
Propose(c) ==
  /\ \E r \in Proposals : Start(c, r, NoId, order.by, "check")
  /\ known = NoId => \A o \in Callers : pc[o] # "idle" => route[o] \notin Proposals

\* The version guard, the sender's lookup or a failed dry-run: nothing is sent.
Refuse(c) ==
  /\ pc[c] = "check"
  /\ Answer(c, "refused")
  /\ UNCHANGED <<appVars, custodyVars>>

\* overrides.id, else an id generated for this proposal.
EnvelopeId(i) == i = IF known # NoId THEN known ELSE used + 1

Post(c) ==
  /\ pc[c] = "check"
  /\ \E i \in Ids :
       /\ EnvelopeId(i)
       /\ id' = [id EXCEPT ![c] = i]
       /\ used' = IF i > used THEN i ELSE used
  /\ Goto(c, "posted")
  /\ UNCHANGED <<order, known, blind, route, via, left, seen>> /\ UNCHANGED custodyVars

ServePost(c) ==
  /\ pc[c] = "posted"
  /\ IF status[id[c]] = "None"
     THEN /\ Receive(c, "gotPost", "Created")
          /\ status' = [status EXCEPT ![id[c]] = "Open"]
     ELSE /\ Receive(c, "gotPost", "Conflict")
          /\ UNCHANGED status
  /\ UNCHANGED <<visible, late>> /\ UNCHANGED appVars

\* Custody turns the request down, a status below 500 other than 409: there is no
\* intent (CustodyApiError, or CustodyAuthError for 401).
PostRefused(c) ==
  /\ pc[c] = "posted"
  /\ Answer(c, "refused")
  /\ UNCHANGED <<appVars, custodyVars>>

\* The request is lost, or still in the network.
Abandon(what, i) ==
  /\ \/ UNCHANGED late
     \/ Cardinality(late) < MaxLate /\ late' = late \cup {[what |-> what, of |-> i]}
  /\ UNCHANGED <<status, visible>>

\* Defect kept for comparison: the timeout says nothing of the intent.
TimeoutWithoutId(c) ==
  /\ pc[c] = "posted"
  /\ Answer(c, "unknown")
  /\ UNCHANGED appVars
  /\ Abandon("Propose", id[c])

\* CustodyTimeoutError names the id proposed; the proposal may yet arrive.
PostTimesOut(c) ==
  /\ pc[c] = "posted"
  /\ Answer(c, "unknown")
  /\ Learn(id[c])
  /\ Abandon("Propose", id[c])

\* Any other failed request is thrown as it came, without the id: a transport error,
\* or a status of 500 and above, which is a CustodyApiError like a refusal although
\* the intent may have been made, or may be yet.
PostBreaks(c) ==
  /\ pc[c] = "posted"
  /\ Answer(c, "unknown")
  /\ LoseId
  /\ Abandon("Propose", id[c])

\* A 409 is thrown.  propose returns the id, proposeAndWait goes on to wait.
HandlePost(c) ==
  /\ pc[c] = "gotPost"
  /\ CASE seen[c] = "Conflict"     -> Answer(c, "conflict") /\ Learn(id[c])
       [] seen[c] = "Created" /\ route[c] = "propose"
                                   -> Answer(c, "proposed") /\ Learn(id[c])
       [] OTHER                    -> StartReading(c, MaxReads) /\ UNCHANGED appVars
  /\ UNCHANGED custodyVars

-----------------------------------------------------------------------------
(* Asking                                                                   *)

\* waitForIntent, with or without the intent's domain; client.intent.await and
\* outcome ("inspect"), outcome with the intent's domain ("inspectAt");
\* client.intent.status, a single read.
Ask(c) ==
  /\ known # NoId
  /\ \/ \E r \in {"wait", "waitAt"} : Start(c, r, known, order.by, "reading")
     \/ \E r \in {"inspect", "inspectAt", "status"} : Start(c, r, known, Observer, "reading")

\* approve and reject read the intent first, through any custodian.
Decide(c) ==
  \E i \in Ids, s \in Signers :
    /\ status[i] # "None"
    /\ Start(c, "decide", i, s, "reading")

\* Defect kept for comparison: every wait is in the custodian's own domain.
AskedAtHome(c) == Home[via[c]]

\* The domain a call reads the intent in.
AskedAt(c) ==
  IF route[c] \in {"proposeAndWait", "waitAt", "inspectAt"} THEN order.target
  ELSE Home[via[c]]

\* The intent is there to be read: in that domain of that custodian's instance.
Readable(c) ==
  AskedAt(c) = order.target /\ order.target \in Reach[via[c]] /\ visible[id[c]]

ServeRead(c) ==
  /\ pc[c] = "reading"
  /\ Receive(c, "gotRead", IF Readable(c) THEN status[id[c]] ELSE "NotFound")
  /\ UNCHANGED <<appVars, custodyVars>>

ReadTimesOut(c) ==
  /\ pc[c] = "reading"
  /\ Receive(c, "gotRead", "NoAnswer")
  /\ UNCHANGED <<appVars, custodyVars>>

\* Any other failed read is thrown, and proposeAndWait's id is lost with it.
ReadFails(c) ==
  /\ pc[c] = "reading"
  /\ IF route[c] = "decide" THEN Over(c) ELSE Answer(c, "unknown")
  /\ IF route[c] = "proposeAndWait" THEN LoseId ELSE UNCHANGED appVars
  /\ UNCHANGED custodyVars

Concluded(c) == seen[c] \in Final
Told(c, says) == Answer(c, says) /\ Learn(id[c])

WaitConcludes(c) ==
  /\ pc[c] = "gotRead" /\ route[c] \in Waits /\ Concluded(c)
  /\ Told(c, seen[c])
  /\ UNCHANGED custodyVars

\* Open, not readable, or no answer: read again while there is time.
WaitAgain(c) ==
  /\ pc[c] = "gotRead" /\ route[c] \in Waits /\ ~Concluded(c)
  /\ left[c] > 0
  /\ StartReading(c, left[c] - 1)
  /\ UNCHANGED <<appVars, custodyVars>>

\* Defect kept for comparison: an intent never readable is reported as dead.
NotFoundIsDead(c) ==
  /\ pc[c] = "gotRead" /\ route[c] \in Waits /\ ~Concluded(c)
  /\ left[c] = 0
  /\ Told(c, IF seen[c] = "NotFound" THEN "Dead" ELSE "pending")
  /\ UNCHANGED custodyVars

WaitRunsOut(c) ==
  /\ pc[c] = "gotRead" /\ route[c] \in Waits /\ ~Concluded(c)
  /\ left[c] = 0
  /\ Told(c, "pending")
  /\ UNCHANGED custodyVars

\* client.intent.status: a 404 or a timeout is thrown.
Status(c) ==
  /\ pc[c] = "gotRead" /\ route[c] = "status"
  /\ Answer(c, IF seen[c] \in {"NotFound", "NoAnswer"} THEN "unknown" ELSE seen[c])
  /\ UNCHANGED <<appVars, custodyVars>>

-----------------------------------------------------------------------------
(* Approving and rejecting                                                  *)

\* An intent that cannot be read is not decided on; one that can is, whatever
\* its status: the decision is signed over the proposal's own signature.
NotDecided(c) ==
  /\ pc[c] = "gotRead" /\ route[c] = "decide" /\ seen[c] \in {"NotFound", "NoAnswer"}
  /\ Over(c)
  /\ UNCHANGED <<appVars, custodyVars>>

SignDecision(c) ==
  /\ pc[c] = "gotRead" /\ route[c] = "decide" /\ seen[c] \notin {"NotFound", "NoAnswer"}
  /\ \E d \in Decisions : route' = [route EXCEPT ![c] = d]
  /\ Goto(c, "deciding")
  /\ seen' = [seen EXCEPT ![c] = "nothing"]
  /\ UNCHANGED <<id, via, left>> /\ UNCHANGED <<appVars, custodyVars>>

Rejecting(i) == status' = [status EXCEPT ![i] = IF @ = "Open" THEN "Dead" ELSE @]

\* Custody takes a decision on an open intent only.  An approval is one of the
\* reasons it may come to execute it (Settle).
ServeDecision(c) ==
  /\ pc[c] = "deciding"
  /\ Over(c)
  /\ IF route[c] = "Reject" THEN Rejecting(id[c]) ELSE UNCHANGED status
  /\ UNCHANGED <<visible, late>> /\ UNCHANGED appVars

DecisionUnanswered(c) ==
  /\ pc[c] = "deciding"
  /\ Over(c)
  /\ IF route[c] = "Reject" THEN Abandon("Reject", id[c]) ELSE UNCHANGED custodyVars
  /\ UNCHANGED appVars

-----------------------------------------------------------------------------
\* The caller takes note of the answer; it may call again.
Return(c) ==
  /\ pc[c] = "answered"
  /\ Over(c)
  /\ UNCHANGED <<appVars, custodyVars>>

-----------------------------------------------------------------------------
(* Custody                                                                  *)

Arrive(m) ==
  /\ m \in late
  /\ late' = late \ {m}
  /\ IF m.what = "Reject" THEN Rejecting(m.of)
     ELSE status' = [status EXCEPT ![m.of] = IF @ = "None" THEN "Open" ELSE @]
  /\ UNCHANGED visible /\ UNCHANGED <<appVars, callVars>>

Reveal(i) ==
  /\ status[i] # "None" /\ ~visible[i]
  /\ visible' = [visible EXCEPT ![i] = TRUE]
  /\ UNCHANGED <<status, late>> /\ UNCHANGED <<appVars, callVars>>

\* Policy, people, execution, or at the latest the envelope's expiryAt.
Settle(i) ==
  /\ status[i] = "Open"
  /\ \E s \in Final : status' = [status EXCEPT ![i] = s]
  /\ UNCHANGED <<visible, late>> /\ UNCHANGED <<appVars, callVars>>

-----------------------------------------------------------------------------
Proceed(c) ==
  \/ Refuse(c) \/ Post(c)
  \/ ServePost(c) \/ PostRefused(c) \/ PostTimesOut(c) \/ PostBreaks(c) \/ HandlePost(c)
  \/ ServeRead(c) \/ ReadTimesOut(c) \/ ReadFails(c)
  \/ WaitConcludes(c) \/ WaitAgain(c) \/ WaitRunsOut(c) \/ Status(c)
  \/ NotDecided(c) \/ SignDecision(c) \/ ServeDecision(c) \/ DecisionUnanswered(c)
  \/ Return(c)

Next ==
  \/ \E c \in Callers : Propose(c) \/ Ask(c)
  \/ \E c \in Approvers : Decide(c)
  \/ \E c \in Calls : Proceed(c)
  \/ \E m \in late : Arrive(m)
  \/ \E i \in Ids : Reveal(i) \/ Settle(i)

Spec == Init /\ [][Next]_vars

FairSpec ==
  /\ Spec
  /\ \A c \in Calls : WF_vars(Proceed(c))
  /\ \A i \in Ids : WF_vars(Reveal(i)) /\ WF_vars(Settle(i))

(***************************************************************************)
(* Properties                                                              *)
(***************************************************************************)

Answered(c, says) == pc[c] = "answered" /\ seen[c] \in says

\* What a call says of an intent is true of it, wherever it asked and however
\* old the reading: a final status is the intent's for good, and `Open' and a 409
\* mean that there is one (waitForIntentOutcome's rule for 404s and for time
\* running out, propose's answer, the single read of status).
AnswersAreTrue ==
  \A c \in Callers :
    /\ Answered(c, Final) => status[id[c]] = seen[c]
    /\ Answered(c, {"proposed", "conflict", "Open"}) => status[id[c]] # "None"

\* A caller who proposes again under the id it was given, by itself, by propose,
\* by the 409 or by the CustodyTimeoutError, never gets a second intent.  Left out
\* are the calls that keep the id to themselves: a transport error that is not a
\* timeout, a status of 500 and above, and proposeAndWait when a read of its wait
\* fails.
ProposedOnce ==
  ~blind => \A i, j \in Ids : status[i] # "None" /\ status[j] # "None" => i = j

\* The intent is asked after where it is: by proposeAndWait always, by waitForIntent
\* when it is told the domain or the intent targets the custodian's own, by the
\* inspector when it targets the first custodian's, or a domain it is told that
\* this custodian's instance has.
AsksRightly(c) ==
  \/ route[c] \in {"proposeAndWait", "waitAt"}
  \/ route[c] = "wait" /\ order.target = Home[order.by]
  \/ route[c] = "inspect" /\ order.target = Home[Observer]
  \/ route[c] = "inspectAt" /\ order.target \in Reach[Observer]

\* No caller is put off for ever: whoever asks rightly again and again, after reads
\* have stopped timing out, is told `pending' only so often, because every intent
\* ends (expiryAt) and the wait finds it (proposeAndWait's choice of the domain).
AskingConcludes ==
  <>[][\A c \in Callers : ~ReadTimesOut(c)]_vars =>
    \A c \in Callers :
      <>[](Answered(c, {"pending"}) /\ AsksRightly(c) => status[id[c]] = "None")

-----------------------------------------------------------------------------
(* The inductive invariant.                                                  *)

Asking == {"reading", "gotRead"}

\* Who does what: a caller proposes, waits or reads once; an approver decides.
RoleInv(c) ==
  /\ pc[c] \in {"check", "posted", "gotPost"} => c \in Callers /\ route[c] \in Proposals
  /\ pc[c] \in Asking =>
       IF c \in Callers THEN route[c] \in Waits \cup {"status"} ELSE route[c] = "decide"
  /\ pc[c] \in {"deciding"} => c \in Approvers
  /\ pc[c] = "answered" => c \in Callers
  /\ pc[c] \in {"posted", "gotPost", "deciding"} \cup Asking => id[c] \in Ids

\* What a call holds of its intent, or has said of it, is true.
ReadingInv(c) ==
  /\ pc[c] = "gotPost" => seen[c] \in {"Created", "Conflict"} /\ status[id[c]] # "None"
  /\ pc[c] \in {"gotRead", "answered"} =>
       /\ seen[c] \in Final => id[c] \in Ids /\ status[id[c]] = seen[c]
       /\ seen[c] \in {"proposed", "conflict", "Open"} => id[c] \in Ids /\ status[id[c]] # "None"

\* An intent with this id exists, or may yet come to.
Landed(i) == status[i] # "None" \/ [what |-> "Propose", of |-> i] \in late

\* While nobody has the id, one call at most proposes, and nothing exists but by its
\* doing; once somebody has it, everything is about that id.
KnowledgeInv ==
  /\ known = NoId =>
       \A c, d \in Callers :
         pc[c] # "idle" /\ pc[d] # "idle" => route[c] \in Proposals /\ c = d
  /\ ~blind /\ known = NoId =>
       \A i \in Ids : Landed(i) =>
         \E c \in Callers : pc[c] \in {"gotPost"} \cup Asking /\ id[c] = i
  /\ ~blind /\ known # NoId =>
       /\ \A i \in Ids : Landed(i) => i = known
       /\ \A c \in Callers : pc[c] \in {"posted", "gotPost"} \cup Asking => id[c] = known

IntentInv ==
  /\ TypeOK
  /\ \A i \in Ids : visible[i] => status[i] # "None"
  /\ \A c \in Calls : RoleInv(c) /\ ReadingInv(c)
  /\ KnowledgeInv
=============================================================================
