---------------------------- MODULE MCMultiStep -----------------------------
(* Model-checking instances of MultiStep. *)
EXTENDS MultiStep

Local == [kind |-> "local", allowRaw |-> FALSE]
Custody(raw) == [kind |-> "ripple-custody", allowRaw |-> raw]
Palisade(raw) == [kind |-> "palisade", allowRaw |-> raw]
Signers == {Local, Custody(FALSE), Custody(TRUE), Palisade(FALSE), Palisade(TRUE)}
Alone == {[from |-> s, other |-> s] : s \in Signers}
Pairs == [from : {Local, Custody(FALSE), Palisade(FALSE)}, other : {Custody(TRUE), Palisade(FALSE)}]

\* Operations of several steps, between custodians; every other call, on each.
Several == {c \in Calls : c.op \in {"iou.issue", "iou.lock", "iou.unlock", "account.activate"}}
MCInputs == (Several \X Pairs) \cup ((Calls \ Several) \X Alone)

\* IOU.issue with a distribution, where every request could carry a key.
MCIssue == {[op |-> "iou.issue", opts |-> {<<"amount", "given">>}]}
           \X {[from |-> Custody(FALSE), other |-> Custody(FALSE)]}

=============================================================================
