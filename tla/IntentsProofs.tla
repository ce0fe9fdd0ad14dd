----------------------------- MODULE IntentsProofs -----------------------------
(***************************************************************************)
(* Proofs about Intents, for any custodians, domains, callers, approvers   *)
(* and bounds.                                                             *)
(***************************************************************************)
EXTENDS Intents, TLAPS

LEMMA ConstantFacts ==
  /\ Named \in Ids /\ NoId \notin Ids /\ 0 \in 0..MaxReads /\ MaxReads \in 0..MaxReads
  /\ 0 \in 0..MaxFresh /\ Observer \in Signers /\ \A i \in Ids : i \in Nat /\ i <= MaxFresh
  BY PlacesAssumption DEF Named, NoId, Ids

\* The call steps of Custody's answers, of callers and of approvers.
Stepping(c) == (c \in Callers /\ (Propose(c) \/ Ask(c))) \/ (c \in Approvers /\ Decide(c)) \/ Proceed(c)

TypeOKCalls ==
  /\ pc \in [Calls -> {"idle", "answered"} \cup Working]
  /\ route \in [Calls -> Routes]
  /\ id \in [Calls -> Ids \cup {NoId}]
  /\ via \in [Calls -> Signers]
  /\ left \in [Calls -> 0..MaxReads]
  /\ seen \in [Calls -> Readings]

LEMMA ReceiveType ==
  ASSUME TypeOKCalls, NEW c \in Calls, NEW l \in Working, NEW r \in Readings, Receive(c, l, r)
  PROVE  TypeOKCalls'
  BY DEF TypeOKCalls, Receive, Goto

LEMMA AnswerType ==
  ASSUME TypeOKCalls, NEW c \in Calls, NEW r \in Readings, Answer(c, r)
  PROVE  TypeOKCalls'
  BY ConstantFacts DEF TypeOKCalls, Answer, Goto

LEMMA OverType ==
  ASSUME TypeOKCalls, NEW c \in Calls, Over(c)
  PROVE  TypeOKCalls'
  BY ConstantFacts DEF TypeOKCalls, Over, Goto, Readings, Routes, Proposals

LEMMA StartReadingType ==
  ASSUME TypeOKCalls, NEW c \in Calls, NEW n \in 0..MaxReads, StartReading(c, n)
  PROVE  TypeOKCalls'
  BY DEF TypeOKCalls, StartReading, Goto, Working, Readings

LEMMA StartType ==
  ASSUME TypeOKCalls, NEW c \in Calls, NEW r \in Routes, NEW i \in Ids \cup {NoId}, NEW s \in Signers,
         NEW l \in Working, Start(c, r, i, s, l)
  PROVE  TypeOKCalls'
  BY ConstantFacts DEF TypeOKCalls, Start, Goto

LEMMA CallStepType ==
  ASSUME IntentInv, NEW c \in Calls, Stepping(c)
  PROVE  TypeOKCalls'
<1>. USE DEF IntentInv
<1>1. TypeOKCalls /\ order.by \in Signers /\ known \in Ids \cup {NoId}
  BY DEF TypeOK, TypeOKCalls
<1>2. ASSUME Propose(c) \/ Ask(c) \/ Decide(c)  PROVE TypeOKCalls'
  <2>1. PICK r \in Routes, i \in Ids \cup {NoId}, s \in Signers, l \in Working : Start(c, r, i, s, l)
    <3>1. CASE Propose(c)
      BY <1>1, <3>1 DEF Propose, Routes, Working
    <3>2. CASE Ask(c)
      BY <1>1, <3>2, ConstantFacts DEF Ask, Routes, Waits, Working
    <3>3. CASE Decide(c)
      BY <1>1, <3>3 DEF Decide, Routes, Working
    <3>. QED  BY <1>2, <3>1, <3>2, <3>3
  <2>. QED  BY <1>1, <2>1, StartType
<1>3. CASE Refuse(c) \/ PostRefused(c) \/ PostTimesOut(c) \/ PostBreaks(c)
  BY <1>1, <1>3, AnswerType DEF Refuse, PostRefused, PostTimesOut, PostBreaks, Readings, Answers
<1>4. CASE Post(c)
  BY <1>1, <1>4 DEF TypeOKCalls, Post, Goto, Working
<1>5. CASE ServePost(c) \/ ReadTimesOut(c)
  BY <1>1, <1>5, ReceiveType DEF ServePost, ReadTimesOut, Readings, Working
<1>6. CASE HandlePost(c)
  <2>1. (\E r \in Readings : Answer(c, r)) \/ StartReading(c, MaxReads)
    BY <1>6 DEF HandlePost, Readings, Answers
  <2>. QED  BY <1>1, <2>1, ConstantFacts, AnswerType, StartReadingType
<1>7. CASE ServeRead(c)
  <2>1. PICK r : Receive(c, "gotRead", r)
                 /\ r = IF Readable(c) THEN status[id[c]] ELSE "NotFound"
    BY <1>7 DEF ServeRead
  <2>2. r \in Readings
    <3>1. id[c] \in Ids
      BY <1>7 DEF ServeRead, RoleInv, Asking
    <3>2. Readable(c) => status[id[c]] \in {"Open"} \cup Final
      BY <3>1 DEF Readable, TypeOK, IntentStatus
    <3>. QED  BY <2>1, <3>2 DEF Readings, Answers
  <2>. QED  BY <1>1, <2>1, <2>2, ReceiveType DEF Working
<1>8. CASE ReadFails(c)
  BY <1>1, <1>8, AnswerType, OverType DEF ReadFails, Readings, Answers
<1>9. CASE WaitConcludes(c) \/ WaitRunsOut(c) \/ Status(c)
  <2>1. PICK r \in Readings : Answer(c, r)
    BY <1>1, <1>9 DEF WaitConcludes, WaitRunsOut, Status, Told, Readings, Answers, TypeOKCalls
  <2>. QED  BY <1>1, <2>1, AnswerType
<1>10. CASE WaitAgain(c)
  <2>1. left[c] - 1 \in 0..MaxReads
    BY <1>1, <1>10, PlacesAssumption DEF WaitAgain, TypeOKCalls
  <2>. QED  BY <1>1, <1>10, <2>1, StartReadingType DEF WaitAgain
<1>11. CASE NotDecided(c) \/ ServeDecision(c) \/ DecisionUnanswered(c) \/ Return(c)
  BY <1>1, <1>11, OverType DEF NotDecided, ServeDecision, DecisionUnanswered, Return
<1>12. CASE SignDecision(c)
  BY <1>1, <1>12 DEF TypeOKCalls, SignDecision, Goto, Routes, Readings, Working
<1>. QED
  BY <1>2, <1>3, <1>4, <1>5, <1>6, <1>7, <1>8, <1>9, <1>10, <1>11, <1>12 DEF Stepping, Proceed

\* The rest of the state.
TypeOKRest ==
  /\ order \in [by : Signers, target : Places]
  /\ known \in Ids \cup {NoId} /\ used \in 0..MaxFresh /\ blind \in BOOLEAN
  /\ status \in [Ids -> IntentStatus] /\ visible \in [Ids -> BOOLEAN]
  /\ late \subseteq [what : {"Propose", "Reject"}, of : Ids]

LEMMA LearnType ==
  ASSUME TypeOK, NEW i \in Ids \cup {NoId}, Learn(i)
  PROVE  (known \in Ids \cup {NoId} /\ used \in 0..MaxFresh /\ blind \in BOOLEAN)' /\ order' = order
  BY DEF TypeOK, Learn

LEMMA AbandonType ==
  ASSUME TypeOK, NEW what \in {"Propose", "Reject"}, NEW i \in Ids, Abandon(what, i)
  PROVE  /\ status' = status /\ visible' = visible
         /\ late' \subseteq late \cup {[what |-> what, of |-> i]}
         /\ late' \subseteq [what : {"Propose", "Reject"}, of : Ids]
  BY DEF TypeOK, Abandon

\* What a step of a call may do to Custody: create the intent it proposed, end one
\* that is open, or leave its request in the network.
CustodySide(c) ==
  /\ visible' = visible /\ status' \in [Ids -> IntentStatus]
  /\ late' \subseteq [what : {"Propose", "Reject"}, of : Ids]
  /\ \A i \in Ids : /\ status[i] # "None" => status'[i] # "None"
                    /\ status[i] \in Final => status'[i] = status[i]
                    /\ Landed(i)' => Landed(i) \/ (pc[c] = "posted" /\ i = id[c])

LEMMA CustodySides ==
  ASSUME IntentInv, NEW c \in Calls, Stepping(c)
  PROVE  CustodySide(c)
<1>. USE DEF IntentInv, CustodySide, Landed
<1>1. CASE UNCHANGED custodyVars
  BY <1>1 DEF TypeOK, custodyVars
<1>2. CASE ServePost(c)
  <2>1. id[c] \in Ids /\ pc[c] = "posted" /\ late' = late /\ visible' = visible
    BY <1>2 DEF ServePost, RoleInv
  <2>2. status' = status \/ (status[id[c]] = "None" /\ status' = [status EXCEPT ![id[c]] = "Open"])
    BY <1>2 DEF ServePost
  <2>. QED  BY <2>1, <2>2 DEF TypeOK, IntentStatus, Final
<1>3. CASE PostTimesOut(c) \/ PostBreaks(c)
  <2>1. id[c] \in Ids /\ pc[c] = "posted" /\ Abandon("Propose", id[c])
    BY <1>3 DEF PostTimesOut, PostBreaks, RoleInv
  <2>. QED  BY <2>1, AbandonType DEF TypeOK
<1>4. CASE ServeDecision(c)
  <2>1. id[c] \in Ids /\ late' = late /\ visible' = visible
    BY <1>4 DEF ServeDecision, RoleInv
  <2>2. status' = status \/ Rejecting(id[c])
    BY <1>4 DEF ServeDecision
  <2>. QED  BY <2>1, <2>2 DEF TypeOK, Rejecting, IntentStatus, Final
<1>5. CASE DecisionUnanswered(c)
  <2>1. id[c] \in Ids
    BY <1>5 DEF DecisionUnanswered, RoleInv
  <2>2. CASE Abandon("Reject", id[c])
    <3>1. /\ status' = status /\ visible' = visible
          /\ late' \subseteq late \cup {[what |-> "Reject", of |-> id[c]]}
          /\ late' \subseteq [what : {"Propose", "Reject"}, of : Ids]
      BY <2>1, <2>2, AbandonType
    <3>2. \A i \in Ids : [what |-> "Propose", of |-> i] # [what |-> "Reject", of |-> id[c]]
      OBVIOUS
    <3>. QED  BY <3>1, <3>2 DEF TypeOK
  <2>3. CASE UNCHANGED custodyVars
    BY <1>1, <2>3
  <2>. QED  BY <1>5, <2>2, <2>3 DEF DecisionUnanswered
<1>6. CASE ~UNCHANGED custodyVars
  <2>1. ServePost(c) \/ PostTimesOut(c) \/ PostBreaks(c) \/ ServeDecision(c) \/ DecisionUnanswered(c)
    BY <1>6 DEF Stepping, Propose, Ask, Decide, Start, Proceed, Refuse, Post, PostRefused, HandlePost,
                ServeRead, ReadTimesOut, ReadFails, WaitConcludes, WaitAgain, WaitRunsOut, Status,
                NotDecided, SignDecision, Return
  <2>. QED  BY <1>2, <1>3, <1>4, <1>5, <2>1
<1>. QED  BY <1>1, <1>6

\* Of the calls a step touches its own only.
OthersStay(c) ==
  \A d \in Calls \ {c} : /\ pc'[d] = pc[d] /\ route'[d] = route[d] /\ id'[d] = id[d]
                          /\ seen'[d] = seen[d] /\ left'[d] = left[d]

LEMMA OthersStays ==
  ASSUME TypeOK, NEW c \in Calls, Stepping(c)
  PROVE  OthersStay(c)
<1>. USE DEF TypeOK, OthersStay
<1>1. ASSUME NEW r, NEW i, NEW s, NEW l, Start(c, r, i, s, l)  PROVE OthersStay(c)
  BY <1>1 DEF Start, Goto
<1>2. ASSUME NEW r, Answer(c, r)  PROVE OthersStay(c)
  BY <1>2 DEF Answer, Goto
<1>3. ASSUME NEW l, NEW r, Receive(c, l, r)  PROVE OthersStay(c)
  BY <1>3 DEF Receive, Goto
<1>4. CASE Over(c)
  BY <1>4 DEF Over, Goto
<1>5. ASSUME NEW n, StartReading(c, n)  PROVE OthersStay(c)
  BY <1>5 DEF StartReading, Goto
<1>6. CASE Propose(c) \/ Ask(c) \/ Decide(c)
  BY <1>1, <1>6 DEF Propose, Ask, Decide
<1>7. CASE Refuse(c) \/ PostRefused(c) \/ PostTimesOut(c) \/ PostBreaks(c)
  BY <1>2, <1>7 DEF Refuse, PostRefused, PostTimesOut, PostBreaks
<1>8. CASE Post(c) \/ SignDecision(c)
  BY <1>8 DEF Post, SignDecision, Goto
<1>9. CASE ServePost(c) \/ ServeRead(c) \/ ReadTimesOut(c)
  BY <1>3, <1>9 DEF ServePost, ServeRead, ReadTimesOut
<1>10. CASE HandlePost(c)
  BY <1>2, <1>5, <1>10 DEF HandlePost
<1>11. CASE ReadFails(c)
  BY <1>2, <1>4, <1>11 DEF ReadFails
<1>12. CASE WaitConcludes(c) \/ WaitRunsOut(c) \/ Status(c)
  BY <1>2, <1>12 DEF WaitConcludes, WaitRunsOut, Status, Told
<1>13. CASE WaitAgain(c)
  BY <1>5, <1>13 DEF WaitAgain
<1>14. CASE NotDecided(c) \/ ServeDecision(c) \/ DecisionUnanswered(c) \/ Return(c)
  BY <1>4, <1>14 DEF NotDecided, ServeDecision, DecisionUnanswered, Return
<1>. QED
  BY <1>6, <1>7, <1>8, <1>9, <1>10, <1>11, <1>12, <1>13, <1>14 DEF Stepping, Proceed

\* The three ways in which the answer to the POST is handled.
LEMMA HandlePostCases ==
  ASSUME NEW c \in Calls, HandlePost(c)
  PROVE  /\ pc[c] = "gotPost" /\ UNCHANGED custodyVars
         /\ \/ seen[c] = "Conflict" /\ Answer(c, "conflict") /\ Learn(id[c])
            \/ seen[c] = "Created" /\ route[c] = "propose" /\ Answer(c, "proposed") /\ Learn(id[c])
            \/ /\ seen[c] # "Conflict" /\ ~(seen[c] = "Created" /\ route[c] = "propose")
               /\ StartReading(c, MaxReads) /\ UNCHANGED appVars
  BY Zenon DEF HandlePost

LEMMA CallKeepsItsRole ==
  ASSUME IntentInv, NEW c \in Calls, Stepping(c)
  PROVE  RoleInv(c)'
<1>. USE DEF IntentInv, RoleInv, Asking
<1>1. TypeOKCalls /\ RoleInv(c) /\ (c \in Callers \/ c \in Approvers) /\ known \in Ids \cup {NoId}
  BY DEF TypeOK, TypeOKCalls, Calls
<1>2. ASSUME NEW r, NEW i, NEW s, NEW l, Start(c, r, i, s, l)
      PROVE  pc'[c] = l /\ route'[c] = r /\ id'[c] = i
  BY <1>1, <1>2 DEF TypeOKCalls, Start, Goto
<1>3. CASE c \in Callers /\ Propose(c)
  <2>1. pc'[c] = "check" /\ route'[c] \in Proposals
    BY <1>2, <1>3 DEF Propose
  <2>. QED  BY <1>3, <2>1
<1>4. CASE c \in Callers /\ Ask(c)
  <2>1. pc'[c] = "reading" /\ route'[c] \in Waits \cup {"status"} /\ id'[c] = known /\ known \in Ids
    BY <1>1, <1>2, <1>4 DEF Ask, Waits
  <2>. QED  BY <1>4, <2>1
<1>5. CASE c \in Approvers /\ Decide(c)
  <2>1. pc'[c] = "reading" /\ route'[c] = "decide" /\ id'[c] \in Ids /\ c \notin Callers
    BY <1>1, <1>2, <1>5, PlacesAssumption DEF Decide
  <2>. QED  BY <2>1
<1>6. CASE Over(c)
  BY <1>1, <1>6 DEF TypeOKCalls, Over, Goto
<1>7. ASSUME NEW r, Answer(c, r), c \in Callers  PROVE RoleInv(c)'
  BY <1>1, <1>7 DEF TypeOKCalls, Answer, Goto
<1>8. CASE Refuse(c) \/ PostRefused(c) \/ PostTimesOut(c) \/ PostBreaks(c)
  <2>1. c \in Callers
    BY <1>1, <1>8 DEF Refuse, PostRefused, PostTimesOut, PostBreaks
  <2>. QED  BY <1>7, <1>8, <2>1 DEF Refuse, PostRefused, PostTimesOut, PostBreaks
<1>9. CASE Post(c)
  BY <1>1, <1>9 DEF TypeOKCalls, Post, Goto
<1>10. CASE ServePost(c) \/ ServeRead(c) \/ ReadTimesOut(c)
  <2>1. /\ (pc[c] = "posted" /\ pc'[c] = "gotPost") \/ (pc[c] = "reading" /\ pc'[c] = "gotRead")
        /\ route'[c] = route[c] /\ id'[c] = id[c]
    BY <1>1, <1>10 DEF TypeOKCalls, ServePost, ServeRead, ReadTimesOut, Receive, Goto
  <2>. QED  BY <1>1, <2>1
<1>11. CASE HandlePost(c)
  <2>1. c \in Callers /\ route[c] \in Proposals /\ seen[c] \in {"Created", "Conflict"} /\ id[c] \in Ids
    BY <1>1, <1>11, HandlePostCases DEF ReadingInv
  <2>2. CASE StartReading(c, MaxReads) /\ ~(seen[c] = "Created" /\ route[c] = "propose") /\ seen[c] # "Conflict"
    <3>1. pc'[c] = "reading" /\ route'[c] = "proposeAndWait" /\ id'[c] = id[c]
      BY <1>1, <2>1, <2>2 DEF TypeOKCalls, StartReading, Goto, Proposals
    <3>. QED  BY <2>1, <3>1 DEF Waits
  <2>. QED  BY <1>7, <1>11, <2>1, <2>2, HandlePostCases
<1>12. CASE ReadFails(c)
  <2>1. route[c] # "decide" => c \in Callers
    BY <1>1, <1>12 DEF ReadFails
  <2>. QED  BY <1>6, <1>7, <1>12, <2>1 DEF ReadFails
<1>13. CASE WaitConcludes(c) \/ WaitRunsOut(c) \/ Status(c)
  <2>1. c \in Callers
    BY <1>1, <1>13 DEF WaitConcludes, WaitRunsOut, Status, Waits
  <2>. QED  BY <1>7, <1>13, <2>1 DEF WaitConcludes, WaitRunsOut, Status, Told
<1>14. CASE WaitAgain(c)
  <2>1. pc[c] = "gotRead" /\ pc'[c] = "reading" /\ route'[c] = route[c] /\ id'[c] = id[c]
    BY <1>1, <1>14 DEF TypeOKCalls, WaitAgain, StartReading, Goto
  <2>. QED  BY <1>1, <2>1
<1>15. CASE NotDecided(c) \/ ServeDecision(c) \/ DecisionUnanswered(c) \/ Return(c)
  BY <1>6, <1>15 DEF NotDecided, ServeDecision, DecisionUnanswered, Return
<1>16. CASE SignDecision(c)
  <2>1. pc[c] = "gotRead" /\ pc'[c] = "deciding" /\ id'[c] = id[c] /\ c \in Approvers /\ c \notin Callers
    <3>1. c \notin Callers
      BY <1>1, <1>16 DEF SignDecision, Waits
    <3>. QED  BY <1>1, <1>16, <3>1 DEF TypeOKCalls, SignDecision, Goto
  <2>. QED  BY <1>1, <2>1
<1>. QED
  BY <1>3, <1>4, <1>5, <1>8, <1>9, <1>10, <1>11, <1>12, <1>13, <1>14, <1>15, <1>16
     DEF Stepping, Proceed

\* What the step's own call then holds, or says, is true.
LEMMA CallReadsTrue ==
  ASSUME IntentInv, NEW c \in Calls, Stepping(c)
  PROVE  ReadingInv(c)'
<1>. USE DEF IntentInv, ReadingInv
<1>1. TypeOKCalls /\ RoleInv(c) /\ ReadingInv(c)
  BY DEF TypeOK, TypeOKCalls
<1>2. CASE pc'[c] \notin {"gotPost", "gotRead", "answered"}
  BY <1>2
<1>3. ASSUME NEW r, Answer(c, r), r \in {"refused", "unknown", "pending"}  PROVE ReadingInv(c)'
  <2>1. pc'[c] = "answered" /\ seen'[c] = r
    BY <1>1, <1>3 DEF TypeOKCalls, Answer, Goto
  <2>. QED  BY <1>3, <2>1 DEF Final
<1>4. CASE Refuse(c) \/ PostRefused(c) \/ PostTimesOut(c) \/ PostBreaks(c)
  BY <1>3, <1>4 DEF Refuse, PostRefused, PostTimesOut, PostBreaks
<1>5. CASE ServePost(c)
  <2>1. id[c] \in Ids
    BY <1>1, <1>5 DEF ServePost, RoleInv
  <2>2. pc'[c] = "gotPost" /\ id'[c] = id[c] /\ seen'[c] \in {"Created", "Conflict"}
    BY <1>1, <1>5 DEF TypeOKCalls, ServePost, Receive, Goto
  <2>3. status'[id[c]] # "None"
    BY <1>5, <2>1 DEF TypeOK, ServePost
  <2>. QED  BY <2>2, <2>3
<1>6. CASE HandlePost(c)
  <2>1. id[c] \in Ids /\ status[id[c]] # "None" /\ status' = status
    BY <1>1, <1>6, HandlePostCases DEF RoleInv, custodyVars
  <2>2. ASSUME NEW r \in {"conflict", "proposed"}, Answer(c, r)  PROVE ReadingInv(c)'
    <3>1. pc'[c] = "answered" /\ seen'[c] = r /\ id'[c] = id[c]
      BY <1>1, <2>2 DEF TypeOKCalls, Answer, Goto
    <3>. QED  BY <2>1, <3>1 DEF Final
  <2>3. StartReading(c, MaxReads) => pc'[c] = "reading"
    BY <1>1 DEF TypeOKCalls, StartReading, Goto
  <2>. QED  BY <1>2, <1>6, <2>2, <2>3, HandlePostCases
<1>7. CASE ServeRead(c)
  <2>1. id[c] \in Ids /\ status' = status
    BY <1>1, <1>7 DEF ServeRead, RoleInv, Asking, custodyVars
  <2>2. pc'[c] = "gotRead" /\ id'[c] = id[c] /\ seen'[c] \in {"NotFound", status[id[c]]}
    BY <1>1, <1>7 DEF TypeOKCalls, ServeRead, Receive, Goto
  <2>. QED  BY <2>1, <2>2 DEF Final
<1>8. CASE ReadTimesOut(c)
  <2>1. pc'[c] = "gotRead" /\ seen'[c] = "NoAnswer"
    BY <1>1, <1>8 DEF TypeOKCalls, ReadTimesOut, Receive, Goto
  <2>. QED  BY <2>1 DEF Final
<1>9. CASE ReadFails(c)
  BY <1>1, <1>2, <1>3, <1>9 DEF ReadFails, Over, Goto, TypeOKCalls
<1>10. CASE WaitConcludes(c) \/ Status(c)
  <2>1. /\ pc[c] = "gotRead" /\ pc'[c] = "answered" /\ id'[c] = id[c] /\ status' = status
        /\ seen'[c] \in {seen[c], "unknown"}
    BY <1>1, <1>10 DEF TypeOKCalls, WaitConcludes, Status, Told, Answer, Goto, custodyVars
  <2>. QED  BY <1>1, <2>1 DEF Final
<1>11. CASE WaitRunsOut(c)
  BY <1>3, <1>11 DEF WaitRunsOut, Told
<1>12. CASE Propose(c) \/ Ask(c) \/ Decide(c)
  <2>1. pc'[c] \in {"check", "reading"}
    BY <1>1, <1>12 DEF TypeOKCalls, Propose, Ask, Decide, Start, Goto
  <2>. QED  BY <1>2, <2>1
<1>13. CASE Post(c) \/ WaitAgain(c) \/ SignDecision(c)
  <2>1. pc'[c] \in {"posted", "reading", "deciding"}
    BY <1>1, <1>13 DEF TypeOKCalls, Post, WaitAgain, SignDecision, StartReading, Goto
  <2>. QED  BY <1>2, <2>1
<1>14. CASE NotDecided(c) \/ ServeDecision(c) \/ DecisionUnanswered(c) \/ Return(c)
  <2>1. pc'[c] = "idle"
    BY <1>1, <1>14 DEF TypeOKCalls, NotDecided, ServeDecision, DecisionUnanswered, Return, Over, Goto
  <2>. QED  BY <1>2, <2>1
<1>. QED
  BY <1>4, <1>5, <1>6, <1>7, <1>8, <1>9, <1>10, <1>11, <1>12, <1>13, <1>14 DEF Stepping, Proceed

\* And what the other calls hold stays true.
LEMMA OthersReadTrue ==
  ASSUME NEW d \in Calls, RoleInv(d), ReadingInv(d), UNCHANGED <<pc[d], route[d], id[d], seen[d]>>,
         \A i \in Ids : /\ status[i] # "None" => status'[i] # "None"
                        /\ status[i] \in Final => status'[i] = status[i]
  PROVE  RoleInv(d)' /\ ReadingInv(d)'
<1>1. RoleInv(d)'
  BY DEF RoleInv
<1>2. ReadingInv(d)'
  BY DEF RoleInv, ReadingInv
<1>. QED  BY <1>1, <1>2

-----------------------------------------------------------------------------
(* What is known of the proposal's id                                       *)

Holding == {"gotPost"} \cup Asking

\* A step that neither begins a call nor creates or learns anything: the call either
\* still holds its id, or has let go of one the application already knows.
LEMMA KnowledgeKept ==
  ASSUME IntentInv, NEW c \in Calls, OthersStay(c), known' = known, blind' = blind,
         \A i \in Ids : Landed(i)' => Landed(i),
         c \in Callers =>
           /\ pc'[c] # "idle" => pc[c] # "idle" /\ route'[c] = route[c]
           /\ pc[c] \in Holding /\ known = NoId => pc'[c] \in Holding /\ id'[c] = id[c]
           /\ pc'[c] \in {"posted"} \cup Holding =>
                pc[c] \in {"posted"} \cup Holding /\ id'[c] = id[c]
  PROVE  KnowledgeInv'
<1>. USE DEF IntentInv, KnowledgeInv, Holding, OthersStay, Calls
<1>1. ASSUME known = NoId, NEW d \in Callers, NEW e \in Callers, pc'[d] # "idle", pc'[e] # "idle"
      PROVE  route'[d] \in Proposals /\ d = e
  BY <1>1
<1>2. ASSUME ~blind, known = NoId, NEW i \in Ids, Landed(i)'
      PROVE  \E d \in Callers : pc'[d] \in Holding /\ id'[d] = i
  <2>1. PICK d \in Callers : pc[d] \in Holding /\ id[d] = i
    BY <1>2
  <2>. QED  BY <1>2, <2>1
<1>3. ASSUME ~blind, known # NoId
      PROVE  /\ \A i \in Ids : Landed(i)' => i = known
             /\ \A d \in Callers : pc'[d] \in {"posted"} \cup Holding => id'[d] = known
  BY <1>3
<1>. QED  BY <1>1, <1>2, <1>3

\* The call gives its caller the id, for everybody to know.
LEMMA KnowledgeLearned ==
  ASSUME IntentInv, NEW c \in Callers, OthersStay(c), Learn(id[c]),
         pc[c] \in {"posted"} \cup Holding, pc'[c] = "answered",
         \A i \in Ids : Landed(i)' => Landed(i) \/ (pc[c] = "posted" /\ i = id[c])
  PROVE  KnowledgeInv'
<1>. USE DEF IntentInv, KnowledgeInv, Holding, OthersStay, Calls
<1>1. id[c] \in Ids /\ id[c] # NoId
  BY ConstantFacts DEF RoleInv
<1>2. known' = id[c] /\ blind' = blind
  BY DEF Learn
<1>3. CASE blind
  BY <1>1, <1>2, <1>3
<1>4. CASE ~blind /\ known = NoId
  <2>1. ASSUME NEW i \in Ids, Landed(i)'  PROVE i = id[c]
    <3>1. CASE Landed(i)
      <4>1. PICK d \in Callers : pc[d] \in Holding /\ id[d] = i
        BY <1>4, <3>1
      <4>. QED  BY <1>4, <4>1 DEF Asking
    <3>. QED  BY <2>1, <3>1
  <2>2. \A d \in Callers : pc'[d] \notin {"posted"} \cup Holding
    BY <1>4 DEF Asking
  <2>. QED  BY <1>1, <1>2, <2>1, <2>2
<1>5. CASE ~blind /\ known # NoId
  <2>1. id[c] = known
    BY <1>5
  <2>2. \A d \in Callers : pc'[d] \in {"posted"} \cup Holding => id'[d] = known
    BY <1>5 DEF Asking
  <2>3. \A i \in Ids : Landed(i)' => i = known
    BY <1>5, <2>1
  <2>. QED  BY <1>1, <1>2, <2>1, <2>2, <2>3
<1>. QED  BY <1>3, <1>4, <1>5

\* The call keeps the id to itself: either the application has it, or is blind.
LEMMA KnowledgeLost ==
  ASSUME IntentInv, NEW c \in Callers, OthersStay(c), LoseId,
         pc[c] \in {"posted"} \cup Holding, pc'[c] = "answered", route'[c] = route[c],
         \A i \in Ids : Landed(i)' => Landed(i) \/ (pc[c] = "posted" /\ i = id[c])
  PROVE  KnowledgeInv'
<1>. USE DEF IntentInv, KnowledgeInv, Holding, OthersStay, Calls
<1>1. known' = known /\ blind' = (blind \/ known = NoId) /\ pc[c] # "idle"
  BY DEF LoseId, Asking
<1>2. ASSUME known = NoId, NEW d \in Callers, NEW e \in Callers, pc'[d] # "idle", pc'[e] # "idle"
      PROVE  route'[d] \in Proposals /\ d = e
  BY <1>1, <1>2
<1>3. CASE known = NoId
  BY <1>1, <1>2, <1>3
<1>4. CASE known # NoId
  <2>1. ASSUME ~blind, NEW i \in Ids, Landed(i)'  PROVE i = known
    BY <1>4, <2>1
  <2>2. ASSUME ~blind, NEW d \in Callers, pc'[d] \in {"posted"} \cup Holding  PROVE id'[d] = known
    BY <1>4, <2>2 DEF Asking
  <2>. QED  BY <1>1, <1>4, <2>1, <2>2
<1>. QED  BY <1>3, <1>4

LEMMA KnowledgeKeeps ==
  ASSUME IntentInv, NEW c \in Calls, Stepping(c)
  PROVE  KnowledgeInv'
<1>. USE DEF IntentInv, Asking, Holding
<1>1. /\ TypeOKCalls /\ RoleInv(c) /\ ReadingInv(c) /\ OthersStay(c)
      /\ c \in Callers \/ (c \in Approvers /\ c \notin Callers)
      /\ \A i \in Ids : Landed(i)' => Landed(i) \/ (pc[c] = "posted" /\ i = id[c])
  BY OthersStays, CustodySides, PlacesAssumption DEF TypeOK, TypeOKCalls, Calls, CustodySide
<1>2. /\ UNCHANGED appVars => known' = known /\ blind' = blind
      /\ pc[c] # "posted" => \A i \in Ids : Landed(i)' => Landed(i)
      /\ UNCHANGED custodyVars => \A i \in Ids : Landed(i)' => Landed(i)
  BY <1>1 DEF appVars, custodyVars, Landed
<1>3. ASSUME NEW r, Answer(c, r)
      PROVE  pc'[c] = "answered" /\ route'[c] = route[c] /\ id'[c] = id[c]
  BY <1>1, <1>3 DEF TypeOKCalls, Answer, Goto
<1>4. CASE c \notin Callers
  <2>1. pc[c] \notin {"posted", "gotPost", "check", "answered"}
    BY <1>1, <1>4 DEF RoleInv
  <2>2. pc[c] \in Asking => route[c] = "decide"
    BY <1>1, <1>4 DEF RoleInv
  <2>3. UNCHANGED appVars
    <3>1. ~HandlePost(c)
      BY <2>1, HandlePostCases
    <3>. QED
      BY <1>4, <2>1, <2>2, <3>1
         DEF Stepping, Decide, Start, Proceed, Refuse, Post, ServePost, PostRefused, PostTimesOut,
             PostBreaks, ServeRead, ReadTimesOut, ReadFails, WaitConcludes, WaitAgain, WaitRunsOut,
             Waits, Status, NotDecided, SignDecision, ServeDecision, DecisionUnanswered, Return
  <2>. QED  BY <1>1, <1>2, <1>4, <2>1, <2>3, KnowledgeKept
<1>5. CASE c \in Callers /\ (Propose(c) \/ Ask(c))
  <2>1. PICK r, i, s, l : Start(c, r, i, s, l)
    BY <1>5 DEF Propose, Ask
  <2>2. /\ pc[c] = "idle" /\ pc'[c] = l /\ route'[c] = r /\ id'[c] = i
        /\ UNCHANGED appVars /\ UNCHANGED custodyVars
    BY <1>1, <2>1 DEF TypeOKCalls, Start, Goto
  <2>3. CASE Propose(c)
    <3>1. pc'[c] = "check" /\ route'[c] \in Proposals
      BY <1>1, <2>3 DEF TypeOKCalls, Propose, Start, Goto
    <3>2. known = NoId => \A d \in Callers : pc[d] = "idle"
      BY <1>5, <2>3 DEF Propose, KnowledgeInv
    <3>. QED
      BY <1>1, <1>2, <1>5, <2>2, <3>1, <3>2 DEF KnowledgeInv, OthersStay, Calls
  <2>4. CASE Ask(c)
    <3>1. known # NoId /\ id'[c] = known /\ pc'[c] = "reading"
      BY <1>1, <2>4 DEF TypeOKCalls, Ask, Start, Goto
    <3>. QED
      BY <1>1, <1>2, <1>5, <2>2, <3>1 DEF KnowledgeInv, OthersStay, Calls
  <2>. QED  BY <1>5, <2>3, <2>4
<1>6. CASE c \in Callers /\ (Refuse(c) \/ PostRefused(c))
  <2>1. UNCHANGED appVars /\ UNCHANGED custodyVars /\ pc[c] \in {"check", "posted"}
    BY <1>6 DEF Refuse, PostRefused
  <2>2. pc'[c] = "answered" /\ route'[c] = route[c]
    BY <1>3, <1>6 DEF Refuse, PostRefused
  <2>. QED  BY <1>1, <1>2, <2>1, <2>2, KnowledgeKept
<1>7. CASE c \in Callers /\ Post(c)
  <2>1. /\ pc[c] = "check" /\ pc'[c] = "posted" /\ route'[c] = route[c] /\ known' = known /\ blind' = blind
        /\ UNCHANGED custodyVars /\ (known # NoId => id'[c] = known)
    BY <1>1, <1>7 DEF TypeOKCalls, Post, Goto, EnvelopeId
  <2>. QED
    BY <1>1, <1>2, <1>7, <2>1 DEF KnowledgeInv, OthersStay, Calls
<1>8. CASE c \in Callers /\ ServePost(c)
  <2>1. /\ pc[c] = "posted" /\ pc'[c] = "gotPost" /\ route'[c] = route[c] /\ id'[c] = id[c]
        /\ known' = known /\ blind' = blind
    BY <1>1, <1>8 DEF TypeOKCalls, ServePost, Receive, Goto, appVars
  <2>. QED
    BY <1>1, <1>8, <2>1 DEF KnowledgeInv, OthersStay, Calls
<1>9. CASE c \in Callers /\ (PostTimesOut(c) \/ PostBreaks(c))
  <2>1. pc[c] = "posted" /\ pc'[c] = "answered" /\ route'[c] = route[c] /\ (Learn(id[c]) \/ LoseId)
    BY <1>3, <1>9 DEF PostTimesOut, PostBreaks
  <2>. QED  BY <1>1, <1>9, <2>1, KnowledgeLearned, KnowledgeLost
<1>10. CASE c \in Callers /\ HandlePost(c)
  <2>1. CASE UNCHANGED appVars /\ StartReading(c, MaxReads)
    <3>1. /\ pc[c] = "gotPost" /\ pc'[c] = "reading" /\ route'[c] = route[c] /\ id'[c] = id[c]
      BY <1>1, <1>10, <2>1, HandlePostCases DEF TypeOKCalls, StartReading, Goto
    <3>. QED  BY <1>1, <1>2, <2>1, <3>1, KnowledgeKept
  <2>2. CASE Learn(id[c]) /\ \E r : Answer(c, r)
    <3>1. pc[c] = "gotPost" /\ pc'[c] = "answered"
      BY <1>3, <1>10, <2>2, HandlePostCases
    <3>. QED  BY <1>1, <1>10, <2>2, <3>1, KnowledgeLearned
  <2>. QED  BY <1>10, <2>1, <2>2, HandlePostCases
<1>11. CASE c \in Callers /\ (ServeRead(c) \/ ReadTimesOut(c) \/ WaitAgain(c))
  <2>1. /\ pc[c] \in Asking /\ pc'[c] \in Asking /\ route'[c] = route[c] /\ id'[c] = id[c]
        /\ UNCHANGED appVars /\ UNCHANGED custodyVars
    BY <1>1, <1>11 DEF TypeOKCalls, ServeRead, ReadTimesOut, WaitAgain, Receive, StartReading, Goto
  <2>. QED  BY <1>1, <1>2, <2>1, KnowledgeKept
<1>12. CASE c \in Callers /\ ReadFails(c)
  <2>1. /\ pc[c] = "reading" /\ route[c] \in Waits \cup {"status"} /\ route[c] # "decide"
        /\ UNCHANGED custodyVars
    BY <1>12 DEF ReadFails, RoleInv, Waits, Calls
  <2>2. pc'[c] = "answered" /\ route'[c] = route[c]
    BY <1>3, <1>12, <2>1 DEF ReadFails
  <2>3. CASE route[c] = "proposeAndWait"
    <3>1. LoseId
      BY <1>12, <2>3 DEF ReadFails
    <3>. QED  BY <1>1, <1>12, <2>1, <2>2, <3>1, KnowledgeLost
  <2>4. CASE route[c] # "proposeAndWait"
    <3>1. known # NoId
      BY <1>12, <2>1, <2>4 DEF KnowledgeInv, Waits, Proposals
    <3>2. UNCHANGED appVars
      BY <1>12, <2>4 DEF ReadFails
    <3>. QED  BY <1>1, <1>2, <2>1, <2>2, <3>1, <3>2, KnowledgeKept
  <2>. QED  BY <2>3, <2>4
<1>13. CASE c \in Callers /\ (WaitConcludes(c) \/ WaitRunsOut(c))
  <2>1. pc[c] = "gotRead" /\ pc'[c] = "answered" /\ Learn(id[c])
    BY <1>3, <1>13 DEF WaitConcludes, WaitRunsOut, Told
  <2>. QED  BY <1>1, <1>13, <2>1, KnowledgeLearned
<1>14. CASE c \in Callers /\ Status(c)
  <2>1. /\ pc[c] = "gotRead" /\ pc'[c] = "answered" /\ route'[c] = route[c]
        /\ UNCHANGED appVars /\ UNCHANGED custodyVars
    BY <1>3, <1>14 DEF Status
  <2>2. known # NoId
    BY <1>14, <2>1 DEF KnowledgeInv, Status, Proposals
  <2>. QED  BY <1>1, <1>2, <2>1, <2>2, KnowledgeKept
<1>15. CASE c \in Callers /\ Return(c)
  <2>1. pc[c] = "answered" /\ pc'[c] = "idle" /\ UNCHANGED appVars /\ UNCHANGED custodyVars
    BY <1>1, <1>15 DEF TypeOKCalls, Return, Over, Goto
  <2>. QED  BY <1>1, <1>2, <2>1, KnowledgeKept
<1>16. CASE c \in Callers /\ (NotDecided(c) \/ SignDecision(c) \/ ServeDecision(c) \/ DecisionUnanswered(c))
  <2>1. FALSE
    BY <1>1, <1>16, PlacesAssumption
       DEF NotDecided, SignDecision, ServeDecision, DecisionUnanswered, RoleInv, Waits
  <2>. QED  BY <2>1
<1>. QED
  BY <1>4, <1>5, <1>6, <1>7, <1>8, <1>9, <1>10, <1>11, <1>12, <1>13, <1>14, <1>15, <1>16,
     PlacesAssumption DEF Stepping, Proceed

-----------------------------------------------------------------------------
(* The rest of the state, and Custody's own steps                           *)

LEMMA CallKeepsTheRest ==
  ASSUME IntentInv, NEW c \in Calls, Stepping(c)
  PROVE  TypeOKRest'
<1>. USE DEF IntentInv
<1>1. CustodySide(c)
  BY CustodySides
<1>2. CASE UNCHANGED appVars
  BY <1>1, <1>2 DEF TypeOK, TypeOKRest, CustodySide, appVars
<1>3. CASE Post(c)
  <2>1. order' = order /\ known' = known /\ blind' = blind
    BY <1>3 DEF Post
  <2>2. PICK i \in Ids : used' = IF i > used THEN i ELSE used
    BY <1>3 DEF Post
  <2>3. i \in Nat /\ used \in 0..MaxFresh /\ i <= MaxFresh
    BY ConstantFacts DEF TypeOK
  <2>4. used' \in 0..MaxFresh
    BY <2>2, <2>3, PlacesAssumption
  <2>. QED  BY <1>1, <2>1, <2>4 DEF TypeOK, TypeOKRest, CustodySide
<1>4. CASE Learn(id[c])
  <2>1. id[c] \in Ids \cup {NoId}
    BY DEF TypeOK
  <2>2. (known \in Ids \cup {NoId} /\ used \in 0..MaxFresh /\ blind \in BOOLEAN)' /\ order' = order
    BY <1>4, <2>1, LearnType
  <2>. QED  BY <1>1, <2>2 DEF TypeOK, TypeOKRest, CustodySide
<1>5. CASE LoseId
  BY <1>1, <1>5 DEF TypeOK, TypeOKRest, CustodySide, LoseId
<1>6. CASE HandlePost(c)
  BY <1>2, <1>4, <1>6, HandlePostCases
<1>. QED
  BY <1>2, <1>3, <1>4, <1>5, <1>6
     DEF Stepping, Propose, Ask, Decide, Start, Proceed, Refuse, ServePost, PostRefused, PostTimesOut,
         PostBreaks, ServeRead, ReadTimesOut, ReadFails, WaitConcludes, WaitAgain, WaitRunsOut, Told,
         Status, NotDecided, SignDecision, ServeDecision, DecisionUnanswered, Return

LEMMA CallStepKeeps ==
  ASSUME IntentInv, NEW c \in Calls, Stepping(c)
  PROVE  IntentInv'
<1>. USE DEF IntentInv
<1>1. CustodySide(c) /\ OthersStay(c)
  BY CustodySides, OthersStays
<1>2. TypeOK'
  BY CallStepType, CallKeepsTheRest DEF TypeOK, TypeOKCalls, TypeOKRest
<1>3. \A i \in Ids : visible'[i] => status'[i] # "None"
  BY <1>1 DEF CustodySide
<1>4. ASSUME NEW d \in Calls  PROVE RoleInv(d)' /\ ReadingInv(d)'
  <2>1. CASE d = c
    BY <2>1, CallKeepsItsRole, CallReadsTrue
  <2>2. CASE d # c
    BY <1>1, <2>2, OthersReadTrue DEF CustodySide, OthersStay
  <2>. QED  BY <2>1, <2>2
<1>5. KnowledgeInv'
  BY KnowledgeKeeps
<1>. QED  BY <1>2, <1>3, <1>4, <1>5

LEMMA CustodyKeeps ==
  ASSUME IntentInv, (\E m \in late : Arrive(m)) \/ (\E i \in Ids : Reveal(i) \/ Settle(i))
  PROVE  IntentInv'
<1>. USE DEF IntentInv
<1>. DEFINE Kept ==
       /\ status' \in [Ids -> IntentStatus] /\ visible' \in [Ids -> BOOLEAN]
       /\ late' \subseteq [what : {"Propose", "Reject"}, of : Ids]
       /\ \A i \in Ids : /\ status[i] # "None" => status'[i] # "None"
                         /\ status[i] \in Final => status'[i] = status[i]
                         /\ visible'[i] => status'[i] # "None"
                         /\ Landed(i)' => Landed(i)
<1>1. UNCHANGED appVars /\ UNCHANGED callVars
  BY DEF Arrive, Reveal, Settle
<1>2. ASSUME NEW m \in late, Arrive(m)  PROVE Kept
  <2>1. m \in [what : {"Propose", "Reject"}, of : Ids] /\ m.of \in Ids /\ late' = late \ {m}
    BY <1>2 DEF TypeOK, Arrive
  <2>2. visible' = visible
    BY <1>2 DEF Arrive
  <2>3. CASE m.what = "Reject"
    <3>1. Rejecting(m.of)
      BY <1>2, <2>3 DEF Arrive
    <3>. QED  BY <2>1, <2>2, <3>1 DEF TypeOK, Rejecting, Landed, IntentStatus, Final
  <2>4. CASE m.what # "Reject"
    <3>1. m = [what |-> "Propose", of |-> m.of] /\ Landed(m.of)
      BY <2>1, <2>4 DEF Landed
    <3>2. status' = [status EXCEPT ![m.of] = IF status[m.of] = "None" THEN "Open" ELSE status[m.of]]
      BY <1>2, <2>4 DEF Arrive
    <3>. QED  BY <2>1, <2>2, <3>1, <3>2 DEF TypeOK, Landed, IntentStatus, Final
  <2>. QED  BY <2>3, <2>4
<1>3. ASSUME NEW i \in Ids, Reveal(i)  PROVE Kept
  BY <1>3 DEF TypeOK, Reveal, Landed
<1>4. ASSUME NEW i \in Ids, Settle(i)  PROVE Kept
  <2>1. PICK s \in Final : status[i] = "Open" /\ status' = [status EXCEPT ![i] = s]
    BY <1>4 DEF Settle
  <2>. QED  BY <1>4, <2>1 DEF TypeOK, Settle, Landed, IntentStatus, Final
<1>5. Kept
  BY <1>2, <1>3, <1>4
<1>6. TypeOK'
  BY <1>1, <1>5 DEF TypeOK, appVars, callVars
<1>7. ASSUME NEW d \in Calls  PROVE RoleInv(d)' /\ ReadingInv(d)'
  BY <1>1, <1>5, OthersReadTrue DEF callVars
<1>8. KnowledgeInv'
  BY <1>1, <1>5 DEF KnowledgeInv, appVars, callVars
<1>. QED  BY <1>5, <1>6, <1>7, <1>8

-----------------------------------------------------------------------------
\* The invariant of a governed intent is inductive, whatever times out, arrives late
\* or is decided meanwhile.
THEOREM IntentsCorrect == Spec => []IntentInv
<1>1. Init => IntentInv
  <2>. SUFFICES ASSUME Init  PROVE IntentInv
    OBVIOUS
  <2>1. TypeOK
    <3>1. order \in [by : Signers, target : Places]
      BY DEF Init
    <3>2. known \in Ids \cup {NoId}
      BY ConstantFacts DEF Init
    <3>. QED
      BY <3>1, <3>2, ConstantFacts DEF Init, TypeOK, Routes, Proposals, Readings, IntentStatus
  <2>2. KnowledgeInv
    BY DEF Init, KnowledgeInv, Landed, Calls, Asking
  <2>3. \A c \in Calls : RoleInv(c) /\ ReadingInv(c)
    BY DEF Init, RoleInv, ReadingInv, Asking
  <2>. QED  BY <2>1, <2>2, <2>3 DEF Init, IntentInv
<1>2. IntentInv /\ [Next]_vars => IntentInv'
  <2>. SUFFICES ASSUME IntentInv, [Next]_vars  PROVE IntentInv'
    OBVIOUS
  <2>1. CASE UNCHANGED vars
    BY <2>1 DEF IntentInv, TypeOK, RoleInv, ReadingInv, KnowledgeInv, Landed, vars, appVars, callVars,
                custodyVars
  <2>2. CASE Next
    <3>1. (\E c \in Calls : Stepping(c)) \/ (\E m \in late : Arrive(m)) \/ (\E i \in Ids : Reveal(i) \/ Settle(i))
      BY <2>2 DEF Next, Stepping, Calls
    <3>. QED  BY <3>1, CallStepKeeps, CustodyKeeps
  <2>. QED  BY <2>1, <2>2
<1>. QED  BY <1>1, <1>2, PTL DEF Spec

\* A final status a call reports is the intent's for good, wherever it was asked after,
\* and an intent said to exist does.
THEOREM ReportsAreTrue == Spec => []AnswersAreTrue
<1>1. IntentInv => AnswersAreTrue
  BY DEF IntentInv, ReadingInv, AnswersAreTrue, Answered, Calls
<1>. QED  BY <1>1, IntentsCorrect, PTL

\* Whoever proposes again under the id it was given never gets a second intent.
THEOREM NeverProposedTwice == Spec => []ProposedOnce
<1>1. IntentInv => ProposedOnce
  <2>. SUFFICES ASSUME IntentInv, ~blind, NEW i \in Ids, NEW j \in Ids, Landed(i), Landed(j)
                PROVE  i = j
    BY DEF ProposedOnce, Landed
  <2>1. CASE known # NoId
    BY <2>1 DEF IntentInv, KnowledgeInv
  <2>2. CASE known = NoId
    <3>1. PICK c \in Callers : pc[c] \in Holding /\ id[c] = i
      BY <2>2 DEF IntentInv, KnowledgeInv, Holding
    <3>2. PICK d \in Callers : pc[d] \in Holding /\ id[d] = j
      BY <2>2 DEF IntentInv, KnowledgeInv, Holding
    <3>3. c = d
      BY <2>2, <3>1, <3>2 DEF IntentInv, KnowledgeInv, Holding, Asking
    <3>. QED  BY <3>1, <3>2, <3>3
  <2>. QED  BY <2>1, <2>2
<1>. QED  BY <1>1, IntentsCorrect, PTL

-----------------------------------------------------------------------------
(* How long a call can be                                                   *)

\* How many more steps a call can take at the most, the caller's taking note among them:
\* two for each read its wait may still make.
StepsFrom(p, n) == CASE p = "check" -> 2 * MaxReads + 7
                     [] p = "posted" -> 2 * MaxReads + 6
                     [] p = "gotPost" -> 2 * MaxReads + 5
                     [] p = "reading" -> 2 * n + 4
                     [] p = "gotRead" -> 2 * n + 3
                     [] p = "deciding" -> 1
                     [] p = "answered" -> 1
                     [] p = "idle" -> 0
StepsLeft(c) == StepsFrom(pc[c], left[c])

\* At each point of a call, written out.
LEMMA StepsAt ==
  ASSUME NEW n \in 0..MaxReads
  PROVE  /\ StepsFrom("check", n) = 2 * MaxReads + 7
         /\ StepsFrom("posted", n) = 2 * MaxReads + 6
         /\ StepsFrom("gotPost", n) = 2 * MaxReads + 5
         /\ StepsFrom("reading", n) = 2 * n + 4
         /\ StepsFrom("gotRead", n) = 2 * n + 3
         /\ StepsFrom("deciding", n) = 1
         /\ StepsFrom("answered", n) = 1
         /\ StepsFrom("idle", n) = 0
         /\ MaxReads \in Nat /\ n \in Nat /\ n <= MaxReads
<1>1. /\ StepsFrom("check", n) = 2 * MaxReads + 7
      /\ StepsFrom("posted", n) = 2 * MaxReads + 6
      /\ StepsFrom("gotPost", n) = 2 * MaxReads + 5
      /\ StepsFrom("reading", n) = 2 * n + 4
      /\ StepsFrom("gotRead", n) = 2 * n + 3
      /\ StepsFrom("deciding", n) = 1
      /\ StepsFrom("answered", n) = 1
      /\ StepsFrom("idle", n) = 0
  BY Zenon DEF StepsFrom
<1>2. MaxReads \in Nat /\ n \in Nat /\ n <= MaxReads
  BY PlacesAssumption
<1>. QED  BY <1>1, <1>2

LEMMA StepsAreNumbers ==
  ASSUME NEW p \in {"idle", "answered"} \cup Working, NEW n \in 0..MaxReads
  PROVE  StepsFrom(p, n) \in 0..(2 * MaxReads + 7) /\ (p # "idle" => StepsFrom(p, n) > 0)
BY StepsAt DEF Working

\* How a call goes on from one of its points to the next: forward, or to another read with
\* one fewer to come.
Onward(p, n, q, m) ==
  \/ q = "idle"
  \/ q = "answered" /\ p # "answered" /\ p # "deciding"
  \/ p = "check" /\ q = "posted"
  \/ p = "posted" /\ q = "gotPost"
  \/ p = "gotPost" /\ q = "reading"
  \/ p = "reading" /\ q = "gotRead" /\ m = n
  \/ p = "gotRead" /\ q = "reading" /\ m < n
  \/ p = "gotRead" /\ q = "deciding"

LEMMA OnwardCounts ==
  ASSUME NEW p \in {"answered"} \cup Working, NEW n \in 0..MaxReads,
         NEW q, NEW m \in 0..MaxReads, Onward(p, n, q, m)
  PROVE  StepsFrom(q, m) < StepsFrom(p, n)
BY StepsAt DEF Onward, Working

\* What a call does by itself takes it onward.
LEMMA CallsGoOn ==
  ASSUME TypeOK, NEW c \in Calls, Proceed(c)
  PROVE  pc[c] # "idle" /\ Onward(pc[c], left[c], pc'[c], left'[c])
<1>. USE DEF Onward
<1>1. CASE Refuse(c) \/ PostRefused(c) \/ PostTimesOut(c) \/ PostBreaks(c)
  BY <1>1 DEF TypeOK, Refuse, PostRefused, PostTimesOut, PostBreaks, Answer, Goto
<1>2. CASE Post(c)
  BY <1>2 DEF TypeOK, Post, Goto
<1>3. CASE ServePost(c) \/ ServeRead(c) \/ ReadTimesOut(c)
  BY <1>3 DEF TypeOK, ServePost, ServeRead, ReadTimesOut, Receive, Goto
<1>4. CASE HandlePost(c)
  BY <1>4, HandlePostCases DEF TypeOK, Answer, StartReading, Goto
<1>5. CASE ReadFails(c)
  BY <1>5 DEF TypeOK, ReadFails, Over, Answer, Goto
<1>6. CASE WaitConcludes(c) \/ WaitRunsOut(c) \/ Status(c)
  BY <1>6 DEF TypeOK, WaitConcludes, WaitRunsOut, Status, Told, Answer, Goto
<1>7. CASE WaitAgain(c)
  BY <1>7, PlacesAssumption DEF TypeOK, WaitAgain, StartReading, Goto
<1>8. CASE SignDecision(c)
  BY <1>8 DEF TypeOK, SignDecision, Goto
<1>9. CASE NotDecided(c) \/ ServeDecision(c) \/ DecisionUnanswered(c) \/ Return(c)
  BY <1>9 DEF TypeOK, NotDecided, ServeDecision, DecisionUnanswered, Return, Over, Goto
<1>. QED  BY <1>1, <1>2, <1>3, <1>4, <1>5, <1>6, <1>7, <1>8, <1>9 DEF Proceed

\* No proposal, wait or decision goes on for ever, whatever it is answered and wherever it
\* asks: each step of its own leaves it fewer, of at most 2 * MaxReads + 7, and nothing
\* that others do adds to them.
THEOREM CallsAreFinite ==
  Spec => [][ \A c \in Calls : pc[c] # "idle" =>
                /\ StepsLeft(c) \in 1..(2 * MaxReads + 7)
                /\ StepsLeft(c)' <= StepsLeft(c)
                /\ Proceed(c) => StepsLeft(c)' < StepsLeft(c) ]_vars
<1>. DEFINE Fewer(c) == /\ StepsLeft(c) \in 1..(2 * MaxReads + 7)
                        /\ StepsLeft(c)' <= StepsLeft(c)
                        /\ Proceed(c) => StepsLeft(c)' < StepsLeft(c)
            Fewest == \A c \in Calls : pc[c] # "idle" => Fewer(c)
<1>1. IntentInv /\ IntentInv' /\ Next => Fewest
  <2>. SUFFICES ASSUME IntentInv, IntentInv', Next, NEW c \in Calls, pc[c] # "idle"
                PROVE  Fewer(c)
    OBVIOUS
  <2>1. /\ TypeOK /\ MaxReads \in Nat
        /\ pc[c] \in {"answered"} \cup Working /\ left[c] \in 0..MaxReads /\ left'[c] \in 0..MaxReads
        /\ pc'[c] \in {"idle", "answered"} \cup Working
    BY PlacesAssumption DEF IntentInv, TypeOK
  <2>2. StepsLeft(c) \in 1..(2 * MaxReads + 7) /\ StepsLeft(c)' \in 0..(2 * MaxReads + 7)
    <3>1. StepsLeft(c) \in 0..(2 * MaxReads + 7) /\ StepsLeft(c) > 0
      BY <2>1, StepsAreNumbers DEF StepsLeft, Working
    <3>2. PICK q \in {"idle", "answered"} \cup Working, m \in 0..MaxReads : q = pc'[c] /\ m = left'[c]
      BY <2>1
    <3>3. StepsFrom(q, m) \in 0..(2 * MaxReads + 7)
      BY StepsAreNumbers
    <3>. QED  BY <2>1, <3>1, <3>2, <3>3 DEF StepsLeft
  <2>3. CASE Proceed(c)
    <3>1. StepsLeft(c)' < StepsLeft(c)
      BY <2>1, <2>3, CallsGoOn, OnwardCounts DEF StepsLeft
    <3>. QED  BY <2>2, <3>1
  <2>4. CASE pc'[c] = pc[c] /\ left'[c] = left[c] /\ ~Proceed(c)
    <3>1. StepsLeft(c)' = StepsLeft(c)
      BY <2>4 DEF StepsLeft
    <3>. QED  BY <2>2, <2>4, <3>1
  <2>5. ASSUME NEW d \in Calls, d # c, Stepping(d)  PROVE pc'[c] = pc[c] /\ left'[c] = left[c]
    BY <2>1, <2>5, OthersStays DEF OthersStay
  <2>6. ASSUME (\E m \in late : Arrive(m)) \/ (\E i \in Ids : Reveal(i) \/ Settle(i))
        PROVE  pc' = pc /\ left' = left
    BY <2>6 DEF Arrive, Reveal, Settle, callVars
  <2>7. Stepping(c) => Proceed(c)
    BY DEF Stepping, Propose, Ask, Decide, Start
  <2>8. (\E d \in Calls : Stepping(d)) \/ (\E m \in late : Arrive(m)) \/ (\E i \in Ids : Reveal(i) \/ Settle(i))
    BY DEF Next, Stepping, Calls
  <2>. QED  BY <2>3, <2>4, <2>5, <2>6, <2>7, <2>8
<1>2. IntentInv /\ IntentInv' /\ [Next]_vars => [Fewest]_vars
  BY <1>1
<1>. QED  BY <1>2, IntentsCorrect, PTL DEF Spec
=============================================================================
