------------------------------ MODULE Discovery ------------------------------
(***************************************************************************)
(* How a custodian finds its accounts: RippleCustody.create, which may     *)
(* first look for the domain of its primary address, RippleCustody's       *)
(* listAccounts, which walks the ledgers, the domain's accounts and then   *)
(* each account's addresses, and PalisadeCustody.create, which walks the   *)
(* wallets.  Every collection is read page by page under a cursor that the *)
(* server hands out (pagination.ts), while accounts come and go.           *)
(*                                                                         *)
(* An answer and the code up to the next request are one step: nothing     *)
(* else in the process looks at what a walk has read.  What AccountIndex   *)
(* reads record by record is a listing of this module.                     *)
(***************************************************************************)
EXTENDS Naturals, FiniteSets

CONSTANTS Entries,       \* addresses an account may come to have on a ledger:
                         \* [id, account, domain, ledger, primary]; a Palisade wallet is one
          UserDomains,   \* me.domains: those the API user belongs to
          MaxId,         \* ids are 1..MaxId
          Limit,         \* the most items a page holds
          MaxChange,     \* bound: changes made to the accounts and ledgers
          NoDomain

Accounts == {e.account : e \in Entries}
Ledgers == {e.ledger : e \in Entries}
Domains == {e.domain : e \in Entries}

\* Ids order a collection; an account is in one domain.
ASSUME EntriesAssumption ==
  /\ Entries \subseteq [id : 1..MaxId, account : 1..MaxId, domain : Domains,
                        ledger : 1..MaxId, primary : BOOLEAN]
  /\ \A e, f \in Entries : /\ e.id = f.id => e = f
                           /\ e.account = f.account => e.domain = f.domain
  /\ UserDomains \subseteq Domains /\ NoDomain \notin Domains
  /\ MaxId \in Nat /\ Limit \in Nat \ {0} /\ MaxChange \in Nat

VARIABLES
  kind, configured,   \* which custodian; the domain it is given, if any
  status,             \* of each entry: none, activated, addressed
  ledgers,            \* the ledgers of type XRPL
  changes,            \* changes so far
  pc,                 \* the collection being walked, or new, ready, failed
  built,              \* the custodian has been constructed
  cursor, read,       \* startingAfter (0 is none), the items read and kept
  answer,             \* the cursor of the last page: more, end, or back to itself
  domain, xrplLedgers, left,   \* domainId; the ledgers read; accounts not joined yet
  listed,             \* accounts.push: the entries found
  steady,             \* entries that have stood unchanged since the listing began
  been,               \* entries that have been there at some time since
  kept                \* entries that have stood unchanged since the creation began

config == <<kind, configured>>
world == <<status, ledgers, changes>>
walk == <<cursor, read, answer>>
vars == <<config, world, pc, built, walk, domain, xrplLedgers, left, listed, steady, been, kept>>

Walks == {"references", "ledgers", "accounts", "addresses", "wallets"}

TypeOK ==
  /\ kind \in {"ripple", "palisade"} /\ configured \in Domains \cup {NoDomain}
  /\ status \in [Entries -> {"none", "activated", "addressed"}]
  /\ ledgers \subseteq Ledgers /\ changes \in 0..MaxChange
  /\ pc \in Walks \cup {"new", "ready", "failed"} /\ built \in BOOLEAN
  /\ cursor \in 0..MaxId /\ read \subseteq 1..MaxId /\ answer \in {"more", "end", "back"}
  /\ domain \in Domains \cup {NoDomain}
  /\ xrplLedgers \subseteq Ledgers /\ left \subseteq Accounts /\ listed \subseteq Entries
  /\ steady \subseteq Entries /\ been \subseteq Entries /\ kept \subseteq Entries

Addressed(st) == {e \in Entries : st[e] = "addressed"}
\* What a listing is to find; of Palisade's wallets all are on the one ledger.
Usable(st, ls) == {e \in Addressed(st) : kind = "ripple" => e.ledger \in ls}

Init ==
  /\ kind \in {"ripple", "palisade"}
  /\ configured \in IF kind = "ripple" THEN Domains \cup {NoDomain} ELSE {NoDomain}
  /\ status \in [Entries -> {"none", "activated", "addressed"}]
  /\ ledgers = Ledgers /\ changes = 0
  /\ pc = "new" /\ built = FALSE
  /\ cursor = 0 /\ read = {} /\ answer = "more"
  /\ domain = NoDomain /\ xrplLedgers = {} /\ left = {} /\ listed = {}
  /\ steady = {} /\ been = {} /\ kept = {}

-----------------------------------------------------------------------------
(* A walk                                                                    *)

\* The collection being walked, as the server has it now.  Accounts are joined in
\* the order of the list.
Joining == CHOOSE a \in left : \A b \in left : a <= b
Collection ==
  CASE pc = "references" -> {e.id : e \in {f \in Addressed(status) : f.primary}}
    [] pc = "ledgers"    -> ledgers
    [] pc = "accounts"   -> {e.account : e \in {f \in Entries : f.domain = domain /\ status[f] # "none"}}
    [] pc = "addresses"  -> {e.id : e \in {f \in Addressed(status) : f.account = Joining}}
    [] pc = "wallets"    -> {e.id : e \in {f \in Entries : status[f] # "none"}}

WalkNext(collection) == pc' = collection /\ cursor' = 0 /\ read' = {} /\ answer' = "more"

\* What is kept of a page: accounts that had an activated XRPL ledger, and wallets
\* that were provisioned, when they were read.
Kept(page) ==
  CASE pc = "accounts" -> page \cap {e.account : e \in {f \in Entries : status[f] # "none" /\ f.ledger \in xrplLedgers}}
    [] pc = "wallets"  -> page \cap {e.id : e \in Addressed(status)}
    [] OTHER -> page

\* Defect kept for comparison: an empty page is the last one.
FollowsNonEmpty(page) == page # {}

\* An empty page with a cursor is followed: filtering on the server may empty it.
Follows(page) == TRUE

\* A request for the next page is answered with the items up to some place.
PageTo(upto) == {i \in Collection : cursor < i /\ i <= upto}
PageRead(upto) ==
  /\ pc \in Walks /\ answer = "more"
  /\ Cardinality(PageTo(upto)) <= Limit
  /\ read' = read \cup Kept(PageTo(upto))
  /\ UNCHANGED <<config, world, pc, built, domain, xrplLedgers, left, listed, steady, been, kept>>

\* With it comes the cursor there, or none if nothing follows (the server need not
\* know).  A faulty server hands back the cursor it was given.
Page ==
  \E upto \in cursor..MaxId :
    /\ PageRead(upto)
    /\ \/ /\ upto > cursor
          /\ cursor' = upto
          /\ answer' = IF Follows(PageTo(upto)) THEN "more" ELSE "end"
       \/ (\A i \in Collection : i <= upto) /\ answer' = "end" /\ UNCHANGED cursor
       \/ cursor > 0 /\ answer' = "back" /\ UNCHANGED cursor

\* Or the faulty server hands back an earlier one: paginate, which compares the
\* cursor with the last one only, follows it.
PageAstray ==
  \E upto \in cursor..MaxId, earlier \in 1..(cursor - 1) :
    /\ PageRead(upto)
    /\ cursor' = earlier
    /\ UNCHANGED answer

\* A creation that fails leaves nothing; a listing that fails leaves the custodian.
Abandon ==
  /\ pc' = IF built THEN "ready" ELSE "failed"
  /\ cursor' = 0 /\ read' = {} /\ answer' = "more"
  /\ listed' = {} /\ left' = {} /\ xrplLedgers' = {} /\ steady' = {} /\ been' = {}
  /\ UNCHANGED <<config, world, built, domain, kept>>

\* Any request that fails ends it: the account joined may be gone by now.
RequestFails == pc \in Walks /\ answer = "more" /\ Abandon

\* The page is asked for again.
AskAgain ==
  /\ answer' = "more"
  /\ UNCHANGED <<config, world, pc, built, cursor, read, domain, xrplLedgers, left, listed, steady, been, kept>>

\* Defect kept for comparison: no check for a cursor that does not advance.
Unchecked == answer = "back" /\ AskAgain

\* paginate throws; listXrplWallets has no such check.
PointedBack ==
  /\ answer = "back"
  /\ IF kind = "ripple" THEN Abandon ELSE AskAgain

-----------------------------------------------------------------------------
(* Construction and listing                                                  *)

\* From here on the listing is held against what stands throughout.
BeginListing ==
  /\ steady' = Usable(status, ledgers)
  /\ been' = Addressed(status)

Create ==
  /\ pc = "new"
  /\ kept' = Addressed(status)
  /\ domain' = configured
  /\ \/ /\ kind = "palisade"
        /\ WalkNext("wallets") /\ BeginListing
     \/ /\ kind = "ripple" /\ configured = NoDomain
        /\ WalkNext("references") /\ UNCHANGED <<steady, been>>
     \/ /\ kind = "ripple" /\ configured \in UserDomains
        /\ WalkNext("ledgers") /\ BeginListing
     \/ /\ kind = "ripple" /\ configured \in Domains \ UserDomains   \* CustodyAuthError
        /\ pc' = "failed" /\ UNCHANGED <<walk, steady, been>>
  /\ UNCHANGED <<config, world, built, xrplLedgers, left, listed>>

\* The domains of the user's in which references of the primary address were read.
HoldingDomains == {e.domain : e \in {f \in Entries : f.id \in read}} \cap UserDomains

\* Defect kept for comparison: the first match decides.
AnyHolding == HoldingDomains # {}

OneHolding == Cardinality(HoldingDomains) = 1

ResolveDomain ==
  /\ pc = "references" /\ answer = "end"
  /\ \/ /\ OneHolding
        /\ domain' \in HoldingDomains
        /\ WalkNext("ledgers") /\ BeginListing
        /\ UNCHANGED <<config, world, built, xrplLedgers, left, listed, kept>>
     \/ ~OneHolding /\ Abandon

ResolveLedgers ==
  /\ pc = "ledgers" /\ answer = "end"
  /\ xrplLedgers' = read
  /\ WalkNext("accounts")
  /\ UNCHANGED <<config, world, built, domain, left, listed, steady, been, kept>>

\* validatePrimary and resolvePrimary, at construction only.
Conclude(found) ==
  /\ IF built \/ \E e \in found : e.primary
     THEN pc' = "ready" /\ built' = TRUE
     ELSE pc' = "failed" /\ UNCHANGED built
  /\ listed' = found
  /\ cursor' = 0 /\ read' = {} /\ answer' = "more" /\ left' = {}

Join(accounts, found) ==
  IF accounts = {} THEN Conclude(found)
  ELSE /\ WalkNext("addresses")
       /\ left' = accounts /\ listed' = found
       /\ UNCHANGED built

ResolveAccounts ==
  /\ pc = "accounts" /\ answer = "end"
  /\ Join(read, {})
  /\ UNCHANGED <<config, world, domain, xrplLedgers, steady, been, kept>>

ResolveAddresses ==
  /\ pc = "addresses" /\ answer = "end"
  /\ Join(left \ {Joining}, listed \cup {e \in Entries : e.id \in read /\ e.ledger \in xrplLedgers})
  /\ UNCHANGED <<config, world, domain, xrplLedgers, steady, been, kept>>

ResolveWallets ==
  /\ pc = "wallets" /\ answer = "end"
  /\ Conclude({e \in Entries : e.id \in read})
  /\ UNCHANGED <<config, world, domain, xrplLedgers, steady, been, kept>>

\* listAccounts of a constructed RippleCustody; Palisade's answers from memory.
List ==
  /\ pc = "ready" /\ kind = "ripple"
  /\ WalkNext("ledgers") /\ BeginListing
  /\ listed' = {} /\ xrplLedgers' = {}
  /\ UNCHANGED <<config, world, built, domain, left, kept>>

-----------------------------------------------------------------------------
(* The accounts change                                                       *)

ChangeTo(st, ls) ==
  /\ changes < MaxChange
  /\ status' = st /\ ledgers' = ls /\ changes' = changes + 1
  /\ steady' = steady \cap Usable(st, ls)
  /\ been' = been \cup Addressed(st)
  /\ kept' = kept \cap Addressed(st)
  /\ UNCHANGED <<config, pc, built, walk, domain, xrplLedgers, left, listed>>

\* An account's ledger is activated, then given an address.
Advances(e) == /\ status[e] # "addressed"
               /\ ChangeTo([status EXCEPT ![e] = IF @ = "none" THEN "activated" ELSE "addressed"], ledgers)
\* An account goes, with all its addresses.
Goes(a) == /\ \E e \in Entries : e.account = a /\ status[e] # "none"
           /\ ChangeTo([e \in Entries |-> IF e.account = a THEN "none" ELSE status[e]], ledgers)
LedgerToggles(l) ==
  ChangeTo(status, IF l \in ledgers THEN ledgers \ {l} ELSE ledgers \cup {l})

Proceed ==
  \/ Page \/ PointedBack
  \/ ResolveDomain \/ ResolveLedgers \/ ResolveAccounts \/ ResolveAddresses \/ ResolveWallets

Next ==
  \/ Create \/ List \/ RequestFails \/ Proceed \/ PageAstray
  \/ \E e \in Entries : Advances(e)
  \/ \E a \in Accounts : Goes(a)
  \/ \E l \in Ledgers : LedgerToggles(l)

Spec == Init /\ [][Next]_vars

\* Requests to Ripple Custody are answered or time out; Palisade's have no timeout.
FairSpec == Spec /\ WF_vars(kind = "ripple" /\ Proceed)

-----------------------------------------------------------------------------
(* Properties                                                                *)

\* A listing has every address of the domain (or of the wallets) that stood
\* throughout, and none that was gone before it began: whatever the pages were
\* like, and whatever else came, went or moved to another page meanwhile.
ListingIsExact ==
  pc = "ready" =>
    /\ listed \subseteq been
    /\ \A e \in steady : kind = "palisade" \/ e.domain = domain => e \in listed

\* A domain that was looked up is the user's and, of the user's domains, the only
\* one to hold the primary address throughout: a second one is an error to the
\* caller, not a choice the SDK makes.
DomainIsTheOnlyOne ==
  domain # NoDomain /\ configured = NoDomain =>
    /\ domain \in UserDomains
    /\ \A e \in kept : e.primary /\ e.domain \in UserDomains => e.domain = domain

-----------------------------------------------------------------------------
(* Why a listing is exact                                                    *)

Passed(i) == answer = "end" \/ i <= cursor

\* No walk passes by an item that stands, and the ids read were of addresses.
WalkInv ==
  /\ pc \notin Walks => answer = "more"
  /\ pc = "references" => \A e \in kept : e.primary /\ Passed(e.id) => e.id \in read
  /\ pc = "ledgers" => read \subseteq Ledgers /\ \A e \in steady : Passed(e.ledger) => e.ledger \in read
  /\ pc = "accounts" =>
       read \subseteq Accounts /\ \A e \in steady : e.domain = domain /\ Passed(e.account) => e.account \in read
  /\ pc = "addresses" => \A e \in steady : e.account = Joining /\ Passed(e.id) => e.id \in read
  /\ pc = "wallets" => \A e \in steady : Passed(e.id) => e.id \in read
  /\ pc \in {"addresses", "wallets"} => read \subseteq {e.id : e \in been}

\* Between the walks of a listing, what stands is in what one hands to the next.
HandedInv ==
  /\ pc \in {"accounts", "addresses"} => \A e \in steady : e.ledger \in xrplLedgers
  /\ pc = "addresses" => \A e \in steady : e.domain = domain => e.account \in left \/ e \in listed

\* What is held against a listing.
StandingInv ==
  /\ steady \subseteq Usable(status, ledgers) /\ kept \subseteq Addressed(status)
  /\ pc \in Walks \ {"references"} => Addressed(status) \subseteq been
  /\ listed \subseteq been
  /\ (pc \in {"new", "references"} => listed = {})

PlaceInv == IF kind = "ripple" THEN pc # "wallets" ELSE pc \in {"new", "wallets", "ready", "failed"}

DiscoveryInv ==
  TypeOK /\ PlaceInv /\ StandingInv /\ WalkInv /\ HandedInv /\ ListingIsExact /\ DomainIsTheOnlyOne

-----------------------------------------------------------------------------
\* A walk over Custody's collections ends, if the server does not lead it in a circle
\* for ever: a cursor that points back to itself is noticed, and ends it, but one that
\* points further back is followed each time.
WalksEnd ==
  <>[][~PageAstray]_vars => (kind = "ripple" /\ pc \in Walks ~> pc \in {"ready", "failed"})
=============================================================================
