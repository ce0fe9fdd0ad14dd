---------------------------- MODULE LedgerReads ----------------------------
(***************************************************************************)
(* What the verticals read of the ledger in order to act on it, with the   *)
(* ledger moving in between: the checks before Token.destroy,              *)
(* IOU.authorize and IOU.clawback, the issuance id after Token.issue, and  *)
(* an offer that was listed and is placed again.                           *)
(*                                                                         *)
(* A call of one of these operations at a time, on an issuance, an issuer  *)
(* and an offer of the account.  The submission itself is CustodySubmission*)
(* and its like: here it is applied, or fails, when the ledger takes it    *)
(* up.  The ledger and Ripple Custody are external.                        *)
(***************************************************************************)
EXTENDS Offers, Naturals

CONSTANTS MaxMoves   \* bound: moves of other accounts

ASSUME MovesAssumption == MaxMoves \in Nat

Operations == {"destroy", "authorize", "clawback", "issue", "replace"}
Flagged == {"authorize", "clawback"}
\* Where the order of an issuance is: signed and submitted by the SDK, an order
\* of the primary custodian, or an order of another one.
Sources == {"xrpld", "primary", "other"}

VARIABLES
  outstanding,  \* ledger: the issuance, with or without tokens in circulation
  flags,        \* ledger: whether the issuer's flag for an operation is set
  book,         \* ledger: the offer that rests there, the account's own or not
  moves,        \* moves of other accounts so far
  op, stage, seen, \* the call in progress
  source,       \* of an issuance: where its order is
  polls,        \* the primary signer is a RippleCustody
  shown,        \* the offer the listing showed, as the ledger had it
  met,          \* the obstacle was there at some moment since the call began
  moved,        \* the ledger has moved since the call read it
  unread        \* a read of the call has failed

ledgerVars == <<outstanding, flags, book, moves>>
callVars == <<op, stage, seen, source, polls, shown>>
historyVars == <<met, moved, unread>>
readsVars == <<ledgerVars, callVars, historyVars>>

Ends == {"done", "refused", "obstructed", "failed", "thrown", "told"}

ReadsTypeOK ==
  /\ outstanding \in {"absent", "zero", "some"}
  /\ flags \in [Flagged -> BOOLEAN]
  /\ book \subseteq LedgerOffers
  /\ moves \in 0..MaxMoves
  /\ op \in Operations
  /\ stage \in {"reading", "read", "submitted", "polling", "looking", "shaped"} \cup Ends
  /\ source \in Sources /\ polls \in BOOLEAN
  /\ shown \subseteq LedgerOffers
  /\ met \in BOOLEAN /\ moved \in BOOLEAN /\ unread \in BOOLEAN

\* What the operation's check looks for, as the ledger stands.
Obstacle(state, set) ==
  \/ op = "destroy" /\ state = "some"
  \/ op \in Flagged /\ ~set[op]

\* A call has been made; Token.issue's write has succeeded.
ReadsInit ==
  /\ op \in Operations
  /\ outstanding \in {"absent", "zero", "some"} /\ (op # "destroy" => outstanding = "zero")
  /\ flags \in [Flagged -> BOOLEAN] /\ (op \notin Flagged => \A f \in Flagged : flags[f])
  /\ book \in {{}} \cup {{o} : o \in LedgerOffers} /\ ((op = "replace") <=> (book # {}))
  /\ source \in Sources /\ (op # "issue" => source = "xrpld")
  /\ polls \in BOOLEAN /\ (source = "primary" => polls)
  /\ stage = "reading" /\ seen = "nothing" /\ shown = {}
  /\ moves = 0 /\ moved = FALSE /\ unread = FALSE
  /\ met = Obstacle(outstanding, flags)

End(how) == stage' = how

\* A read is answered: from now on the ledger may move away from it.
Read(label, reading) ==
  /\ stage' = label /\ seen' = reading
  /\ moved' = FALSE
  /\ UNCHANGED <<op, source, polls, shown, met, unread>> /\ UNCHANGED ledgerVars

-----------------------------------------------------------------------------
(* Check, then submit                                                       *)

\* retrieveToken
ServeEntry == stage = "reading" /\ op = "destroy" /\ Read("read", outstanding)

\* ledgerEntryNode takes any error for an entry that does not exist.
EntryUnreadable ==
  /\ stage = "reading" /\ op = "destroy"
  /\ stage' = "read" /\ seen' = "absent" /\ unread' = TRUE
  /\ UNCHANGED <<op, source, polls, shown, met, moved>> /\ UNCHANGED ledgerVars

\* assertRequireAuthEnabled, assertClawbackEnabled
ServeFlags ==
  /\ stage = "reading" /\ op \in Flagged
  /\ Read("read", IF flags[op] THEN "set" ELSE "clear")

\* account_info fails: the error is thrown.
FlagsUnreadable ==
  /\ stage = "reading" /\ op \in Flagged
  /\ End("thrown")
  /\ UNCHANGED <<op, seen, source, polls, shown>> /\ UNCHANGED <<ledgerVars, historyVars>>

Refuses == seen \in {"some", "clear"}

Check ==
  /\ stage = "read"
  /\ End(IF Refuses THEN "refused" ELSE "submitted")
  /\ UNCHANGED <<op, seen, source, polls, shown>> /\ UNCHANGED <<ledgerVars, historyVars>>

\* The ledger takes the transaction up.
Land ==
  /\ stage = "submitted"
  /\ End(IF Obstacle(outstanding, flags) THEN "obstructed"
         ELSE IF op = "destroy" /\ outstanding = "absent" THEN "failed" ELSE "done")
  /\ outstanding' = IF op = "destroy" /\ outstanding = "zero" THEN "absent" ELSE outstanding
  /\ UNCHANGED <<flags, book, moves, op, seen, source, polls, shown>> /\ UNCHANGED historyVars

-----------------------------------------------------------------------------
(* Token.issue's search for the id of the issuance it created               *)

\* The metadata of a transaction the SDK submitted itself has it.
FromMetadata ==
  /\ stage = "reading" /\ op = "issue"
  /\ IF source = "xrpld" THEN End("told") /\ seen' = "own"
                         ELSE End(IF polls THEN "polling" ELSE "looking") /\ UNCHANGED seen
  /\ UNCHANGED <<op, source, polls, shown>> /\ UNCHANGED <<ledgerVars, historyVars>>

\* Defect kept for comparison: the primary's answer is taken as the last word.
PrimaryDecides ==
  /\ stage = "polling"
  /\ \/ source = "primary" /\ End("told") /\ seen' = "own"
     \/ End("told") /\ seen' = ""
  /\ UNCHANGED <<op, source, polls, shown>> /\ UNCHANGED <<ledgerVars, historyVars>>

\* pollMptIssuanceId asks the primary signer.  It has no transaction under the id
\* of another custodian's order, and may not report the id of its own.
PollPrimary ==
  /\ stage = "polling"
  /\ \/ source = "primary" /\ End("told") /\ seen' = "own"
     \/ End("looking") /\ UNCHANGED seen
  /\ UNCHANGED <<op, source, polls, shown>> /\ UNCHANGED <<ledgerVars, historyVars>>

\* An error of the poll other than a timeout is thrown, after the write.
PollThrows ==
  /\ stage = "polling"
  /\ End("thrown")
  /\ UNCHANGED <<op, seen, source, polls, shown>> /\ UNCHANGED <<ledgerVars, historyVars>>

\* mptIssuanceIdFromLedger reads the transaction by its hash; failing that, "".
FromLedger ==
  /\ stage = "looking"
  /\ End("told")
  /\ \/ seen' = "own" /\ UNCHANGED unread
     \/ seen' = "" /\ unread' = TRUE
  /\ UNCHANGED <<op, source, polls, shown, met, moved>> /\ UNCHANGED ledgerVars

-----------------------------------------------------------------------------
(* List an offer, place it again                                            *)

\* The book is only asked for offers between the reference and XRP.
InBook(offer) == "XRP" \in {offer.gets.kind, offer.pays.kind}

Tickers(code) == {t \in {code, decodeCurrency(code)} : encodeCurrencyCode(t) = code}

\* listBookOffers, anchored on any ticker that encodes to the offer's IOU.
ListBook ==
  /\ stage = "reading" /\ op = "replace"
  /\ \E offer \in book :
       /\ InBook(offer)
       /\ \E iou \in {offer.gets, offer.pays} \cap IOUAmounts :
          \E ticker \in Tickers(iou.code) :
            seen' = [summary |-> shapeOffer(offer, [ticker |-> ticker, issuer |-> iou.issuer]),
                     ticker |-> ticker]
       /\ shown' = {offer}
  /\ stage' = "shaped" /\ moved' = FALSE
  /\ UNCHANGED <<op, source, polls, met, unread>> /\ UNCHANGED ledgerVars

\* listAccountOffers says nothing of the base: the account knows what it trades.
ListAccount ==
  /\ stage = "reading" /\ op = "replace"
  /\ \E offer \in book :
       LET summary == shapeOffer(offer, NoReference)
           base == Base(offer, summary.type)
       IN /\ seen' = [summary |-> summary, ticker |-> base.code]
          /\ shown' = {offer}
  /\ stage' = "shaped" /\ moved' = FALSE
  /\ UNCHANGED <<op, source, polls, met, unread>> /\ UNCHANGED ledgerVars

\* The listed offer may be gone by then; the new one is placed as it was read.
\* The ledger takes no offer of an asset for itself.
Place ==
  /\ stage = "shaped"
  /\ LET new == placeOffer(seen.summary, seen.ticker)
     IN IF ~(Acceptable(seen.summary.amount) /\ Acceptable(seen.summary.price.value))
        THEN End("refused") /\ UNCHANGED book
        ELSE IF new \in LedgerOffers THEN End("done") /\ book' = {new}
        ELSE End("failed") /\ UNCHANGED book
  /\ UNCHANGED <<outstanding, flags, moves, op, seen, source, polls, shown>>
  /\ UNCHANGED historyVars

-----------------------------------------------------------------------------
(* Other accounts, and the issuer by other means                            *)

Moves(state, set) ==
  /\ stage \notin Ends /\ moves < MaxMoves
  /\ moves' = moves + 1
  /\ outstanding' = state /\ flags' = set
  /\ met' = (met \/ Obstacle(state, set)) /\ moved' = TRUE
  /\ UNCHANGED unread /\ UNCHANGED callVars

\* Holders receive and return tokens.
Circulate ==
  /\ op = "destroy" /\ outstanding # "absent"
  /\ Moves(IF outstanding = "some" THEN "zero" ELSE "some", flags) /\ UNCHANGED book

\* asfRequireAuth can be set and cleared, asfAllowTrustLineClawback only set.
SetFlag ==
  /\ op \in Flagged /\ (op = "clawback" => ~flags[op])
  /\ Moves(outstanding, [flags EXCEPT ![op] = ~@]) /\ UNCHANGED book

\* The offer is taken.
Cross == op = "replace" /\ book # {} /\ shown # {} /\ Moves(outstanding, flags) /\ book' = {}

ReadsNext ==
  \/ ServeEntry \/ EntryUnreadable \/ ServeFlags \/ FlagsUnreadable \/ Check \/ Land
  \/ FromMetadata \/ PollPrimary \/ PollThrows \/ FromLedger
  \/ ListBook \/ ListAccount \/ Place
  \/ Circulate \/ SetFlag \/ Cross

ReadsSpec == ReadsInit /\ [][ReadsNext]_readsVars

(***************************************************************************)
(* Properties                                                              *)
(***************************************************************************)

\* What an operation tells of the ledger is so, and it tells what it can.  A refusal
\* names an obstacle that was there while the call ran (an entry that cannot be
\* read is none).  The ledger turns a write down for the obstacle only if the
\* ledger moved after the check or the check could not read it.  An issuance id is
\* missing from the result only if the ledger did not answer for the transaction,
\* whichever custodian has the order and whichever one was asked.
ToldIsSo ==
  /\ op # "replace" /\ stage = "refused" => met
  /\ stage = "obstructed" => moved \/ unread
  /\ op = "issue" /\ stage = "told" => (seen = "own" \/ unread)

\* Values with sixteen digits, which the ledger may hold, are refused.
TooFine(offer) == "sixteen" \in {offer.gets.value, offer.pays.value}

\* Only the price's currency has to survive a round trip through its ticker.
LosesCode(price) == price.kind = "IOU" /\ Ambiguous(price.code)

\* A listed offer that is placed again is the same exchange: the same amounts of
\* the same currencies in the same direction, passive if it was; or the SDK refuses
\* it for its precision; or the ledger does, because it offers an asset for itself
\* (shapeOffer, placeOffer and the codes between them).  The exceptions are exact.
\* The base becomes the placing account's own IOU, whoever issued the listed one; a
\* price in a hex code of three characters becomes one in the plain code; tfSell
\* follows the direction, whatever the listed offer had.
ReplacedAsListed ==
  op = "replace" =>
    \A old \in shown :
      LET type == seen.summary.type
          base == Base(old, type)
          price == Counter(old, type)
      IN /\ stage \in {"done", "failed", "refused"} => (stage = "refused" <=> TooFine(old))
         /\ stage = "failed" =>
              /\ price.kind = "IOU" /\ price.issuer = Account
              /\ base.code = price.code \/ LosesCode(price)
         /\ stage = "done" => \A new \in book :
              /\ new.passive = old.passive
              /\ Base(new, type) = [base EXCEPT !.issuer = Account]
              /\ Counter(new, type) = price \/ LosesCode(price)

(***************************************************************************)
(* Why this is so                                                          *)
(***************************************************************************)

\* What a check has seen is what the ledger shows, until the ledger moves.
CheckInv ==
  /\ stage \in {"read", "submitted", "obstructed"} => op \in {"destroy"} \cup Flagged
  /\ stage \in {"polling", "looking"} => op = "issue"
  /\ Obstacle(outstanding, flags) => met
  /\ stage = "read" /\ Refuses => met
  /\ stage = "submitted" \/ (stage = "read" /\ ~Refuses) =>
       moved \/ unread \/ ~Obstacle(outstanding, flags)

\* What a listing has shaped is the offer it read, seen from the IOU it calls the
\* base, whose ticker leads back to its code.
ShapedInv ==
  stage = "shaped" =>
    /\ op = "replace"
    /\ \E old \in LedgerOffers :
         LET type == seen.summary.type
         IN /\ shown = {old} /\ type \in {"buy", "sell"}
            /\ seen.summary.amount = Base(old, type).value
            /\ seen.summary.price = toPrice(Counter(old, type))
            /\ seen.summary.orderType = (IF old.passive THEN "passive" ELSE "limit")
            /\ Base(old, type) \in IOUAmounts /\ encodeCurrencyCode(seen.ticker) = Base(old, type).code

ReadsInv == ReadsTypeOK /\ CheckInv /\ ShapedInv /\ ToldIsSo /\ ReplacedAsListed
=============================================================================
