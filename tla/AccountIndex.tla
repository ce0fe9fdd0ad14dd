---------------------------- MODULE AccountIndex ----------------------------
(***************************************************************************)
(* SimpleXRPLClient's address index: init and refreshAccounts rebuild it   *)
(* from every custodian's listing (buildAccountIndex), registerLocalAccount*)
(* writes into it.                                                         *)
(*                                                                         *)
(* A rebuild reads the custodians request by request, may probe the node   *)
(* for its network, then installs the whole map at once; accounts appear,  *)
(* disappear and are registered between its reads, and nothing serialises  *)
(* two rebuilds: the one that read first may install last.  The            *)
(* custodians' own account lists are external.                             *)
(***************************************************************************)
EXTENDS FiniteSets, Naturals

CONSTANTS Signers,         \* the registered custodians
          Live,            \* those that list afresh at every call (Ripple Custody);
                           \* the others answer with what they found when built
          Records,         \* what they may list: [address, owner, net]
          Created,         \* r-addresses Account.create may generate
          Networks,        \* XRPL network ids
          Network,         \* the network of the connected node
          Primary,         \* each signer's primary address
          Calls,           \* concurrent init / refreshAccounts calls
          MaxChanges,      \* bound: changes of the custodians' lists
          NoNetwork,       \* networkId = undefined
          NoRecord,        \* an address that is not in the map
          Local            \* the LocalSigner of a created account

ASSUME BoundAssumption == MaxChanges \in Nat
ASSUME NetworkAssumption == Network \in Networks /\ NoNetwork \notin Networks

Addresses == {r.address : r \in Records}

\* A custodian scopes all its records to a network (Ripple Custody) or none, and
\* lists an address once per network.
ASSUME RecordsAssumption ==
  /\ Live \subseteq Signers /\ Local \notin Signers /\ Created \cap Addresses = {}
  /\ Primary \in [Signers -> Addresses]
  /\ Records \subseteq
       [address : Addresses, owner : Signers, net : Networks \cup {NoNetwork}]
  /\ \A r, q \in Records :
       r.owner = q.owner => ((r.net = NoNetwork) <=> (q.net = NoNetwork))

LocalRecord(a) == [address |-> a, owner |-> Local, net |-> NoNetwork]
LocalRecords == {LocalRecord(a) : a \in Created}

ASSUME NoRecordAssumption == NoRecord \notin Records \cup LocalRecords

VARIABLES
  upstream,    \* the records the custodians hold now
  discovered,  \* those they held when the signers were constructed
  ready,       \* init has returned a client
  index,       \* accountIndex: address -> record
  registered,  \* addresses registered by registerLocalAccount
  kept,        \* those registered since the index was last installed
  pc,          \* of each rebuild: idle, listing, probing
  unread,      \* records a rebuild has yet to ask for: each may be on a page, or of a
               \* Custody account, of its own
  found,       \* records it has read
  same,        \* records whose listing has not changed since it began
  settled,     \* records whose listing has not changed since the rebuild that
               \* installed the index began
  blind,       \* the installed index was chosen without knowing the network
  changes      \* changes of the lists so far

callVars == <<pc, unread, found, same>>
held == <<ready, index, registered, kept, settled, blind>>
lists == <<upstream, discovered, changes>>
vars == <<lists, held, callVars>>

TypeOK ==
  /\ upstream \subseteq Records /\ discovered \subseteq Records
  /\ ready \in BOOLEAN /\ blind \in BOOLEAN
  /\ index \in [Addresses \cup Created -> Records \cup LocalRecords \cup {NoRecord}]
  /\ \A a \in DOMAIN index : index[a] # NoRecord => index[a].address = a
  /\ registered \subseteq Created /\ kept \subseteq registered
  /\ pc \in [Calls -> {"idle", "listing", "probing"}]
  /\ unread \in [Calls -> SUBSET Records]
  /\ found \in [Calls -> SUBSET Records]
  /\ same \in [Calls -> SUBSET Records]
  /\ settled \subseteq Records
  /\ changes \in 0..MaxChanges

\* Constructing a signer fails unless it lists its primary.
Init ==
  /\ upstream \in {records \in SUBSET Records :
       \A s \in Signers : \E r \in records : r.owner = s /\ r.address = Primary[s]}
  /\ discovered = upstream
  /\ ready = FALSE /\ blind = FALSE
  /\ index = [a \in Addresses \cup Created |-> NoRecord]
  /\ registered = {} /\ kept = {} /\ changes = 0
  /\ pc = [c \in Calls |-> "idle"]
  /\ unread = [c \in Calls |-> {}]
  /\ found = [c \in Calls |-> {}]
  /\ same = [c \in Calls |-> {}]
  /\ settled = {}

-----------------------------------------------------------------------------
(* Choosing a record for each address                                       *)

Claims(records, a) == {r \in records : r.address = a}
ScopedOf(records) == {r \in records : r.net # NoNetwork}
OnNetwork(records, net) == {r \in records : r.net = net}

\* Defect kept for comparison: the record's network is not looked at.
SelectAny(claims, net) == claims

\* The record selectForNetwork binds, as a set of at most one.
SelectForNetwork(claims, net) ==
  IF net # NoNetwork
  THEN IF OnNetwork(claims, net) # {} THEN OnNetwork(claims, net)
                                      ELSE OnNetwork(claims, NoNetwork)
  ELSE IF Cardinality(ScopedOf(claims)) <= 1 THEN claims ELSE {}

Bound(records, net, a) ==
  LET chosen == SelectForNetwork(Claims(records, a), net)
  IN  IF chosen = {} THEN NoRecord ELSE CHOOSE r \in chosen : TRUE

\* Two custodians claim one address.
Ambiguous(records) ==
  \E r, q \in records : r.address = q.address /\ r.owner # q.owner

\* A signer's primary was discovered, on other networks only.
PrimaryElsewhere(records, net) ==
  \E s \in Signers :
    /\ Bound(records, net, Primary[s]) = NoRecord
    /\ ScopedOf(Claims(records, Primary[s])) # {}

-----------------------------------------------------------------------------
(* A rebuild                                                                *)

OfLive(records) == {r \in records : r.owner \in Live}

\* A custodian that does not list afresh answers at once, from memory.
StartListing(c) ==
  /\ pc[c] = "idle"
  /\ ready \/ \A d \in Calls : pc[d] = "idle"    \* init is awaited
  /\ pc' = [pc EXCEPT ![c] = "listing"]
  /\ unread' = [unread EXCEPT ![c] = OfLive(Records)]
  /\ found' = [found EXCEPT ![c] = discovered \ OfLive(Records)]
  /\ same' = [same EXCEPT ![c] = Records]

\* Defect kept for comparison: the map is emptied first, then filled.
BeginCleared(c) ==
  /\ StartListing(c)
  /\ index' = [a \in Addresses \cup Created |-> NoRecord]
  /\ UNCHANGED <<lists, ready, registered, kept, settled, blind>>

Begin(c) == StartListing(c) /\ UNCHANGED <<lists, held>>

\* The request whose answer would hold r is answered.
Read(c, r) ==
  /\ pc[c] = "listing" /\ r \in unread[c]
  /\ unread' = [unread EXCEPT ![c] = @ \ {r}]
  /\ found' = [found EXCEPT ![c] = @ \cup ({r} \cap upstream)]
  /\ UNCHANGED <<lists, held, pc, same>>

\* A rebuild's own variables are gone when it returns.
Forget(c) ==
  /\ unread' = [unread EXCEPT ![c] = {}]
  /\ found' = [found EXCEPT ![c] = {}]
  /\ same' = [same EXCEPT ![c] = {}]

\* Any request failing rejects the rebuild and leaves the index alone.
ReadFails(c) ==
  /\ pc[c] = "listing" /\ unread[c] # {}
  /\ pc' = [pc EXCEPT ![c] = "idle"]
  /\ Forget(c)
  /\ UNCHANGED <<lists, held>>

\* Defect kept for comparison: the check on primaries is skipped.
Rejected_NoPrimaryCheck(records, net) == Ambiguous(records)

Rejected(records, net) == Ambiguous(records) \/ PrimaryElsewhere(records, net)

\* Defect kept for comparison: the rebuilt entries are merged into the old map.
MergedIndex(records, net) ==
  [a \in Addresses \cup Created |->
     IF Bound(records, net, a) = NoRecord THEN index[a] ELSE Bound(records, net, a)]

NewIndex(records, net) ==
  [a \in Addresses \cup Created |-> Bound(records, net, a)]

Conclude(c, net) ==
  /\ pc' = [pc EXCEPT ![c] = "idle"]
  /\ IF Rejected(found[c], net)
     THEN UNCHANGED <<ready, index, kept, settled, blind>>
     ELSE /\ index' = NewIndex(found[c], net)
          /\ ready' = TRUE
          /\ kept' = {}
          /\ settled' = same[c]
          /\ blind' = (net = NoNetwork /\ ScopedOf(found[c]) # {})
  /\ Forget(c)
  /\ UNCHANGED <<lists, registered>>

\* Defect kept for comparison: a listing still under way is not waited for.
ListedPartly(c) == pc[c] = "listing" /\ Cardinality(unread[c]) <= 1

Listed(c) == pc[c] = "listing" /\ unread[c] = {}

InstallUnprobed(c) ==
  /\ Listed(c) /\ ScopedOf(found[c]) = {}
  /\ Conclude(c, NoNetwork)

\* Some record depends on the network: ask the node.
Probe(c) ==
  /\ Listed(c) /\ ScopedOf(found[c]) # {}
  /\ pc' = [pc EXCEPT ![c] = "probing"]
  /\ UNCHANGED <<lists, held, unread, found, same>>

\* The node answers with its network, or the probe failed and yields undefined.
InstallProbed(c) ==
  /\ pc[c] = "probing"
  /\ \E net \in {Network, NoNetwork} : Conclude(c, net)

-----------------------------------------------------------------------------
(* Registration, and the custodians' own changes                            *)

\* registerLocalAccount with a freshly generated key.
Register(a) ==
  /\ ready /\ a \notin registered
  /\ index' = [index EXCEPT ![a] = LocalRecord(a)]
  /\ registered' = registered \cup {a}
  /\ kept' = kept \cup {a}
  /\ UNCHANGED <<lists, ready, callVars, settled, blind>>

Changed(r) ==
  /\ changes < MaxChanges
  /\ changes' = changes + 1
  /\ same' = [c \in Calls |-> same[c] \ {r}]
  /\ settled' = settled \ {r}
  /\ UNCHANGED <<discovered, ready, index, registered, kept, pc, unread, found, blind>>

Appear(r) == r \notin upstream /\ upstream' = upstream \cup {r} /\ Changed(r)
Disappear(r) == r \in upstream /\ upstream' = upstream \ {r} /\ Changed(r)

CallStep(c) ==
  \/ Begin(c)
  \/ \E r \in Records : Read(c, r)
  \/ ReadFails(c)
  \/ InstallUnprobed(c) \/ Probe(c) \/ InstallProbed(c)

Next ==
  \/ \E c \in Calls : CallStep(c)
  \/ \E a \in Created : Register(a)
  \/ \E r \in Records : Appear(r) \/ Disappear(r)

Spec == Init /\ [][Next]_vars

-----------------------------------------------------------------------------
(* Properties                                                               *)

\* What is bound is what the rebuild that installed the index could read: an account
\* removed before that rebuild began is gone.  It is the rebuild installed last that
\* counts, not the one begun last: of two that overlap the older reading may come to
\* stay.  For the custodians that list afresh.
RemovedIsGone ==
  \A a \in Addresses :
    (index[a] \in settled /\ index[a].owner \in Live) => index[a] \in upstream

\* An account listed on the client's network (or on none) since before the rebuild
\* that installed the index began is addressable, whatever else changed meanwhile:
\* "new accounts become addressable".  A rebuild that could not learn the network
\* may leave addresses unbound.
NewIsAddressable ==
  ~blind => \A r \in settled \cap upstream :
              (r.owner \in Live /\ r.net \in {Network, NoNetwork}) => index[r.address] # NoRecord

\* An account registered at runtime can be acted on until the next rebuild succeeds:
\* rebuilds under way when it was registered, and those that fail, do not lose it.
\* The next that succeeds does, since no custodian lists it.
RegisteredIsAddressable == \A a \in kept : index[a] = LocalRecord(a)

RoutedTo(a, s) == index[a] # NoRecord /\ index[a].owner = s

\* Once the client is ready, a primary leads to its own signer if this answers with what
\* it found when built (which includes its primary); and to the one that lists afresh and
\* has listed it throughout the rebuild that installed the index.  Even if the network
\* could not be learnt, buildAccountIndex would have thrown rather than leave a primary
\* unbound, or bound to one of two custodians who claim it.
PrimaryIsAddressable ==
  ready => \A s \in Signers :
    /\ s \notin Live => RoutedTo(Primary[s], s)
    /\ \A r \in settled \cap upstream :
         r.address = Primary[s] /\ r.owner \in Live => RoutedTo(Primary[s], r.owner)

\* No address is bound to a record of another network, unless the probe of the
\* rebuild that bound it failed (an intent on it would be stranded).
NeverMisrouted ==
  blind \/ \A a \in Addresses :
             index[a] # NoRecord => index[a].net \in {Network, NoNetwork}

-----------------------------------------------------------------------------
(* The inductive invariant.                                                  *)

\* Every signer was built having found its primary.
PrimariesFound ==
  \A s \in Signers : \E r \in discovered : r.owner = s /\ r.address = Primary[s]

\* What a rebuild under way has read is still so, if it has not changed since it
\* began; and what is listed and has not changed, it has read or will.
ListingInv(c) ==
  /\ \A r \in found[c] \cap same[c] : r.owner \in Live => r \in upstream
  /\ pc[c] # "idle" =>
       /\ discovered \ OfLive(Records) \subseteq found[c]
       /\ \A r \in same[c] \cap upstream : r.owner \in Live => r \in found[c] \cup unread[c]
  /\ pc[c] = "probing" => unread[c] = {}

\* The index is right, and every rebuild under way is about to keep it right.
IndexInv ==
  /\ TypeOK /\ PrimariesFound
  /\ \A c \in Calls : ListingInv(c)
  /\ RemovedIsGone /\ NewIsAddressable /\ RegisteredIsAddressable
  /\ PrimaryIsAddressable /\ NeverMisrouted

=============================================================================
