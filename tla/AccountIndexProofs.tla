-------------------------- MODULE AccountIndexProofs --------------------------
(***************************************************************************)
(* Proofs about AccountIndex, for any custodians, records and bounds, and  *)
(* any number of overlapping rebuilds.                                     *)
(***************************************************************************)
EXTENDS AccountIndex, FiniteSetTheorems, TLAPS

LEMMA RecordFacts ==
  ASSUME NEW r \in Records
  PROVE  /\ r.address \in Addresses /\ r.owner \in Signers /\ r.net \in Networks \cup {NoNetwork}
         /\ r # NoRecord /\ r.address \notin Created
  BY RecordsAssumption, NoRecordAssumption DEF Addresses

LEMMA LocalFacts ==
  ASSUME NEW a \in Created
  PROVE  /\ LocalRecord(a) \in LocalRecords /\ LocalRecord(a).address = a
         /\ LocalRecord(a) # NoRecord /\ a \notin Addresses
  BY RecordsAssumption, NoRecordAssumption DEF LocalRecord, LocalRecords

-----------------------------------------------------------------------------
(* Choosing a record for each address                                       *)

\* selectForNetwork binds one of the records that claim the address, or none; and
\* it binds none only where there is nothing to choose from.
LEMMA BoundIsAClaim ==
  ASSUME NEW records \in SUBSET Records, NEW net, NEW a, Bound(records, net, a) # NoRecord
  PROVE  /\ Bound(records, net, a) \in records
         /\ Bound(records, net, a).address = a
         /\ Bound(records, net, a) \in SelectForNetwork(Claims(records, a), net)
<1>. DEFINE chosen == SelectForNetwork(Claims(records, a), net)
<1>1. chosen # {} /\ Bound(records, net, a) = CHOOSE r \in chosen : TRUE
  BY DEF Bound
<1>2. (CHOOSE r \in chosen : TRUE) \in chosen
  BY <1>1
<1>3. chosen \subseteq Claims(records, a)
  BY DEF SelectForNetwork, OnNetwork
<1>. QED  BY <1>1, <1>2, <1>3 DEF Claims

LEMMA UnboundIsEmpty ==
  ASSUME NEW records \in SUBSET Records, NEW net, NEW a, Bound(records, net, a) = NoRecord
  PROVE  SelectForNetwork(Claims(records, a), net) = {}
<1>. DEFINE chosen == SelectForNetwork(Claims(records, a), net)
<1>. SUFFICES ASSUME chosen # {}  PROVE FALSE
  OBVIOUS
<1>1. (CHOOSE r \in chosen : TRUE) \in chosen
  OBVIOUS
<1>2. chosen \subseteq Records
  BY DEF SelectForNetwork, OnNetwork, Claims
<1>. QED  BY <1>1, <1>2, RecordFacts DEF Bound

\* A record on the client's network, or on none, is not passed over when the network
\* is known, or when no record depends on it.
LEMMA ListedIsBound ==
  ASSUME NEW records \in SUBSET Records, NEW net, NEW r \in records,
         \/ net # NoNetwork /\ r.net \in {net, NoNetwork}
         \/ net = NoNetwork /\ ScopedOf(records) = {}
  PROVE  Bound(records, net, r.address) # NoRecord
<1>. DEFINE claims == Claims(records, r.address)
<1>1. r \in claims
  BY DEF Claims
<1>2. CASE net # NoNetwork /\ r.net \in {net, NoNetwork}
  <2>1. SelectForNetwork(claims, net) # {}
    BY <1>1, <1>2 DEF SelectForNetwork, OnNetwork
  <2>. QED  BY <2>1, UnboundIsEmpty
<1>3. CASE net = NoNetwork /\ ScopedOf(records) = {}
  <2>1. ScopedOf(claims) = {}
    BY <1>3 DEF ScopedOf, Claims
  <2>2. Cardinality(ScopedOf(claims)) = 0
    BY <2>1, FS_EmptySet
  <2>3. SelectForNetwork(claims, net) # {}
    BY <1>1, <1>3, <2>2 DEF SelectForNetwork
  <2>. QED  BY <2>3, UnboundIsEmpty
<1>. QED  BY <1>2, <1>3

\* An address someone claims is bound, or its claims are all on other networks.
LEMMA ClaimedIsBoundOrScoped ==
  ASSUME NEW records \in SUBSET Records, NEW net, NEW r \in records,
         ScopedOf(Claims(records, r.address)) = {}
  PROVE  Bound(records, net, r.address) # NoRecord
<1>. DEFINE claims == Claims(records, r.address)
<1>1. r \in claims /\ r.net = NoNetwork
  BY DEF Claims, ScopedOf
<1>2. Cardinality(ScopedOf(claims)) = 0
  BY FS_EmptySet
<1>3. SelectForNetwork(claims, net) # {}
  BY <1>1, <1>2 DEF SelectForNetwork, OnNetwork
<1>. QED  BY <1>3, UnboundIsEmpty

\* What Conclude may install is a well-typed index.
LEMMA NewIndexType ==
  ASSUME NEW records \in SUBSET Records, NEW net
  PROVE  /\ NewIndex(records, net) \in [Addresses \cup Created -> Records \cup LocalRecords \cup {NoRecord}]
         /\ \A a \in Addresses \cup Created :
              /\ NewIndex(records, net)[a] = Bound(records, net, a)
              /\ NewIndex(records, net)[a] # NoRecord => NewIndex(records, net)[a].address = a
<1>1. \A a : Bound(records, net, a) # NoRecord =>
               Bound(records, net, a) \in Records /\ Bound(records, net, a).address = a
  BY BoundIsAClaim
<1>. QED  BY <1>1 DEF NewIndex

-----------------------------------------------------------------------------
(* Types                                                                    *)

LEMMA ConcludeType ==
  ASSUME TypeOK, NEW c \in Calls, NEW net \in {Network, NoNetwork}, Conclude(c, net)
  PROVE  TypeOK'
<1>1. found[c] \in SUBSET Records /\ same[c] \in SUBSET Records
  BY DEF TypeOK
<1>2. /\ pc' \in [Calls -> {"idle", "listing", "probing"}]
      /\ unread' \in [Calls -> SUBSET Records] /\ found' \in [Calls -> SUBSET Records]
      /\ same' \in [Calls -> SUBSET Records]
  BY DEF TypeOK, Conclude, Forget
<1>3. CASE Rejected(found[c], net)
  BY <1>2, <1>3 DEF TypeOK, Conclude, lists
<1>4. CASE ~Rejected(found[c], net)
  <2>1. /\ index' = NewIndex(found[c], net) /\ ready' = TRUE /\ kept' = {}
        /\ settled' = same[c] /\ registered' = registered /\ blind' \in BOOLEAN
    BY <1>4 DEF Conclude
  <2>2. /\ index' \in [Addresses \cup Created -> Records \cup LocalRecords \cup {NoRecord}]
        /\ \A a \in Addresses \cup Created : index'[a] # NoRecord => index'[a].address = a
    BY <1>1, <2>1, NewIndexType
  <2>3. UNCHANGED lists
    BY DEF Conclude
  <2>. QED  BY <1>1, <1>2, <2>1, <2>2, <2>3 DEF TypeOK, lists
<1>. QED  BY <1>3, <1>4

LEMMA StepType ==
  ASSUME TypeOK, Next
  PROVE  TypeOK'
<1>1. ASSUME NEW c \in Calls, Begin(c)  PROVE TypeOK'
  BY <1>1 DEF TypeOK, Begin, StartListing, OfLive, lists, held
<1>2. ASSUME NEW c \in Calls, NEW r \in Records, Read(c, r)  PROVE TypeOK'
  BY <1>2 DEF TypeOK, Read, lists, held
<1>3. ASSUME NEW c \in Calls, ReadFails(c)  PROVE TypeOK'
  BY <1>3 DEF TypeOK, ReadFails, Forget, lists, held
<1>4. ASSUME NEW c \in Calls, InstallUnprobed(c) \/ InstallProbed(c)  PROVE TypeOK'
  BY <1>4, ConcludeType DEF InstallUnprobed, InstallProbed
<1>5. ASSUME NEW c \in Calls, Probe(c)  PROVE TypeOK'
  BY <1>5 DEF TypeOK, Probe, lists, held
<1>6. ASSUME NEW a \in Created, Register(a)  PROVE TypeOK'
  <2>1. LocalRecord(a) \in LocalRecords /\ LocalRecord(a).address = a
    BY LocalFacts
  <2>2. index' \in [Addresses \cup Created -> Records \cup LocalRecords \cup {NoRecord}]
    BY <1>6, <2>1 DEF TypeOK, Register
  <2>3. ASSUME NEW b \in DOMAIN index', index'[b] # NoRecord  PROVE index'[b].address = b
    <3>1. b \in DOMAIN index
      BY <1>6 DEF TypeOK, Register
    <3>2. index'[b] = IF b = a THEN LocalRecord(a) ELSE index[b]
      BY <1>6, <3>1 DEF TypeOK, Register
    <3>. QED  BY <2>1, <2>3, <3>1, <3>2 DEF TypeOK
  <2>. QED  BY <1>6, <2>2, <2>3 DEF TypeOK, Register, lists, callVars
<1>7. ASSUME NEW r \in Records, Appear(r) \/ Disappear(r)  PROVE TypeOK'
  BY <1>7, BoundAssumption DEF TypeOK, Appear, Disappear, Changed
<1>. QED  BY <1>1, <1>2, <1>3, <1>4, <1>5, <1>6, <1>7 DEF Next, CallStep

-----------------------------------------------------------------------------
(* Installing an index                                                      *)

\* What the index must promise of the lists it was built from.
Promises ==
  RemovedIsGone /\ NewIsAddressable /\ RegisteredIsAddressable
  /\ PrimaryIsAddressable /\ NeverMisrouted

\* Whatever a rebuild installs, once every request of its listing has been answered,
\* keeps the promises of the index.
LEMMA InstallKeepsPromises ==
  ASSUME IndexInv, NEW c \in Calls, NEW net \in {Network, NoNetwork}, Conclude(c, net),
         pc[c] # "idle", unread[c] = {}
  PROVE  Promises'
<1>. DEFINE read == found[c]
<1>1. /\ read \in SUBSET Records /\ same[c] \in SUBSET Records /\ upstream' = upstream
      /\ registered' = registered
  BY DEF IndexInv, TypeOK, Conclude, lists
<1>2. CASE Rejected(read, net)
  <2>1. UNCHANGED <<ready, index, kept, settled, blind>>
    BY <1>2 DEF Conclude
  <2>. QED
    BY <1>1, <2>1 DEF IndexInv, Promises, RemovedIsGone, NewIsAddressable, RegisteredIsAddressable,
                      PrimaryIsAddressable, RoutedTo, NeverMisrouted
<1>3. CASE ~Rejected(read, net)
  <2>1. /\ index' = NewIndex(read, net) /\ ready' = TRUE /\ kept' = {} /\ settled' = same[c]
        /\ blind' = (net = NoNetwork /\ ScopedOf(read) # {})
    BY <1>3 DEF Conclude
  <2>2. \A a \in Addresses : index'[a] = Bound(read, net, a)
    BY <1>1, <2>1, NewIndexType
  <2>3. ListingInv(c) /\ Network # NoNetwork
    BY NetworkAssumption DEF IndexInv
  <2>4. RemovedIsGone'
    <3>. SUFFICES ASSUME NEW a \in Addresses, index'[a] \in same[c], index'[a].owner \in Live
                  PROVE  index'[a] \in upstream
      BY <1>1, <2>1 DEF RemovedIsGone
    <3>1. Bound(read, net, a) # NoRecord
      BY <1>1, <2>2, RecordFacts
    <3>2. index'[a] \in read
      BY <1>1, <2>2, <3>1, BoundIsAClaim
    <3>. QED  BY <2>3, <3>2 DEF ListingInv
  <2>5. NewIsAddressable'
    <3>. SUFFICES ASSUME ~blind', NEW r \in same[c] \cap upstream, r.owner \in Live,
                         r.net \in {Network, NoNetwork}
                  PROVE  index'[r.address] # NoRecord
      BY <1>1, <2>1 DEF NewIsAddressable
    <3>1. r \in read /\ r.address \in Addresses
      BY <1>1, <2>3, RecordFacts DEF ListingInv
    <3>2. Bound(read, net, r.address) # NoRecord
      BY <1>1, <2>1, <2>3, <3>1, ListedIsBound
    <3>. QED  BY <2>2, <3>1, <3>2
  <2>6. RegisteredIsAddressable'
    BY <2>1 DEF RegisteredIsAddressable
  <2>7. PrimaryIsAddressable'
    <3>1. ASSUME NEW s \in Signers, NEW r \in read, r.address = Primary[s]
          PROVE  RoutedTo(Primary[s], r.owner)'
      <4>1. Bound(read, net, Primary[s]) # NoRecord
        <5>1. CASE ScopedOf(Claims(read, Primary[s])) = {}
          BY <1>1, <3>1, <5>1, ClaimedIsBoundOrScoped
        <5>2. CASE ScopedOf(Claims(read, Primary[s])) # {}
          BY <1>3, <5>2 DEF Rejected, PrimaryElsewhere
        <5>. QED  BY <5>1, <5>2
      <4>2. Bound(read, net, Primary[s]) \in read /\ Bound(read, net, Primary[s]).address = Primary[s]
        BY <1>1, <4>1, BoundIsAClaim
      <4>3. Bound(read, net, Primary[s]).owner = r.owner
        BY <1>3, <3>1, <4>2 DEF Rejected, Ambiguous
      <4>4. index'[Primary[s]] = Bound(read, net, Primary[s])
        BY <2>2, RecordsAssumption
      <4>. QED  BY <4>1, <4>3, <4>4 DEF RoutedTo
    <3>2. ASSUME NEW s \in Signers, s \notin Live  PROVE RoutedTo(Primary[s], s)'
      <4>1. PICK r \in discovered : r.owner = s /\ r.address = Primary[s]
        BY DEF IndexInv, PrimariesFound
      <4>2. r \in read
        BY <2>3, <3>2, <4>1 DEF ListingInv, OfLive
      <4>. QED  BY <3>1, <4>1, <4>2
    <3>3. ASSUME NEW s \in Signers, NEW r \in same[c] \cap upstream,
                 r.address = Primary[s], r.owner \in Live
          PROVE  RoutedTo(Primary[s], r.owner)'
      <4>1. r \in read
        BY <2>3, <3>3 DEF ListingInv
      <4>. QED  BY <3>1, <3>3, <4>1
    <3>4. UNCHANGED upstream /\ settled' = same[c]
      BY <1>1, <2>1
    <3>. QED  BY <3>2, <3>3, <3>4 DEF PrimaryIsAddressable
  <2>8. NeverMisrouted'
    <3>. SUFFICES ASSUME ~blind', NEW a \in Addresses, index'[a] # NoRecord
                  PROVE  index'[a].net \in {Network, NoNetwork}
      BY DEF NeverMisrouted
    <3>1. index'[a] \in read /\ index'[a] \in SelectForNetwork(Claims(read, a), net)
      BY <1>1, <2>2, BoundIsAClaim
    <3>2. CASE net = Network
      BY <2>3, <3>1, <3>2 DEF SelectForNetwork, OnNetwork
    <3>3. CASE net = NoNetwork /\ ScopedOf(read) = {}
      BY <3>1, <3>3 DEF ScopedOf
    <3>. QED  BY <2>1, <3>2, <3>3
  <2>. QED  BY <2>4, <2>5, <2>6, <2>7, <2>8 DEF Promises
<1>. QED  BY <1>2, <1>3

-----------------------------------------------------------------------------
(* The other steps                                                          *)

\* A step that changes neither the lists nor the index keeps the index's promises.
LEMMA PromisesOfUnchanged ==
  ASSUME Promises, UNCHANGED upstream, UNCHANGED held
  PROVE  Promises'
  BY DEF Promises, RemovedIsGone, NewIsAddressable, RegisteredIsAddressable,
         PrimaryIsAddressable, RoutedTo, NeverMisrouted, held

\* A call that has ended, or has not begun, has read nothing.
LEMMA IdleIsFine ==
  ASSUME NEW c \in Calls, pc'[c] = "idle", found'[c] = {}
  PROVE  ListingInv(c)'
  BY DEF ListingInv

\* A step of one rebuild leaves the others where they were.
LEMMA OthersKeepListing ==
  ASSUME TypeOK, NEW c \in Calls, NEW d \in Calls, ListingInv(d),
         pc'[d] = pc[d], unread'[d] = unread[d], found'[d] = found[d], same'[d] = same[d],
         UNCHANGED lists
  PROVE  ListingInv(d)'
  BY DEF ListingInv, lists

\* A rebuild reads what the custodians hold at that moment, and misses nothing that
\* stays as it is.
LEMMA CallKeepsListings ==
  ASSUME IndexInv, NEW c \in Calls, CallStep(c), NEW d \in Calls
  PROVE  ListingInv(d)'
<1>. USE DEF IndexInv
<1>1. UNCHANGED lists
  BY DEF CallStep, Begin, Read, ReadFails, InstallUnprobed, InstallProbed, Probe, Conclude
<1>2. CASE d # c
  <2>1. pc'[d] = pc[d] /\ unread'[d] = unread[d] /\ found'[d] = found[d] /\ same'[d] = same[d]
    BY <1>2 DEF TypeOK, CallStep, Begin, StartListing, Read, ReadFails, InstallUnprobed,
                InstallProbed, Probe, Conclude, Forget
  <2>. QED  BY <1>1, <2>1, OthersKeepListing
<1>3. CASE d = c
  <2>1. CASE Begin(c)
    <3>1. /\ pc'[c] = "listing" /\ unread'[c] = OfLive(Records) /\ same'[c] = Records
          /\ found'[c] = discovered \ OfLive(Records)
      BY <2>1 DEF TypeOK, Begin, StartListing
    <3>. QED  BY <1>1, <1>3, <3>1 DEF ListingInv, OfLive, TypeOK, lists
  <2>2. ASSUME NEW r \in Records, Read(c, r)  PROVE ListingInv(c)'
    <3>1. /\ pc[c] = "listing" /\ pc'[c] = pc[c] /\ same'[c] = same[c]
          /\ unread'[c] = unread[c] \ {r} /\ found'[c] = found[c] \cup ({r} \cap upstream)
      BY <2>2 DEF TypeOK, Read
    <3>2. ListingInv(c)
      OBVIOUS
    <3>. QED  BY <1>1, <3>1, <3>2 DEF ListingInv, lists
  <2>3. CASE ReadFails(c) \/ InstallUnprobed(c) \/ InstallProbed(c)
    <3>1. pc'[c] = "idle" /\ found'[c] = {}
      BY <2>3 DEF TypeOK, ReadFails, InstallUnprobed, InstallProbed, Conclude, Forget
    <3>. QED  BY <1>3, <3>1, IdleIsFine
  <2>4. CASE Probe(c)
    <3>1. /\ pc[c] = "listing" /\ pc'[c] = "probing" /\ unread[c] = {}
          /\ unread'[c] = unread[c] /\ found'[c] = found[c] /\ same'[c] = same[c]
      BY <2>4 DEF TypeOK, Probe, Listed
    <3>2. ListingInv(c)
      OBVIOUS
    <3>. QED  BY <1>1, <1>3, <3>1, <3>2 DEF ListingInv, lists
  <2>. QED  BY <1>3, <2>1, <2>2, <2>3, <2>4 DEF CallStep
<1>. QED  BY <1>2, <1>3

LEMMA CallKeepsPromises ==
  ASSUME IndexInv, NEW c \in Calls, CallStep(c)
  PROVE  Promises'
<1>1. Promises
  BY DEF IndexInv, Promises
<1>2. CASE InstallUnprobed(c) \/ InstallProbed(c)
  <2>1. pc[c] # "idle" /\ unread[c] = {}
    BY <1>2 DEF IndexInv, ListingInv, InstallUnprobed, InstallProbed, Listed
  <2>2. PICK net \in {Network, NoNetwork} : Conclude(c, net)
    BY <1>2 DEF InstallUnprobed, InstallProbed
  <2>. QED  BY <2>1, <2>2, InstallKeepsPromises
<1>3. CASE ~(InstallUnprobed(c) \/ InstallProbed(c))
  <2>1. UNCHANGED upstream /\ UNCHANGED held
    BY <1>3 DEF CallStep, Begin, Read, ReadFails, Probe, lists
  <2>. QED  BY <1>1, <2>1, PromisesOfUnchanged
<1>. QED  BY <1>2, <1>3

\* Registering an account touches only the addresses Account.create generates.
LEMMA RegisterKeeps ==
  ASSUME IndexInv, NEW a \in Created, Register(a)
  PROVE  Promises' /\ \A c \in Calls : ListingInv(c)'
<1>. USE DEF IndexInv
<1>1. \A b \in Addresses : index'[b] = index[b]
  BY LocalFacts DEF TypeOK, Register
<1>2. /\ upstream' = upstream /\ settled' = settled /\ ready' = ready /\ blind' = blind
      /\ kept' = kept \cup {a} /\ index'[a] = LocalRecord(a)
      /\ \A b \in Created \ {a} : index'[b] = index[b]
  BY DEF TypeOK, Register, lists
<1>3. RemovedIsGone' /\ NeverMisrouted'
  BY <1>1, <1>2 DEF RemovedIsGone, NeverMisrouted
<1>4. NewIsAddressable'
  BY <1>1, <1>2, RecordFacts DEF NewIsAddressable, TypeOK
<1>5. RegisteredIsAddressable'
  BY <1>2 DEF RegisteredIsAddressable, TypeOK
<1>6. PrimaryIsAddressable'
  BY <1>1, <1>2, RecordsAssumption DEF PrimaryIsAddressable, RoutedTo
<1>7. \A c \in Calls : ListingInv(c)'
  BY DEF Register, ListingInv, lists, callVars
<1>. QED  BY <1>3, <1>4, <1>5, <1>6, <1>7 DEF Promises

\* A record that appears or disappears is no longer one whose listing has not changed.
LEMMA ChangeKeeps ==
  ASSUME IndexInv, NEW r \in Records, Appear(r) \/ Disappear(r)
  PROVE  Promises' /\ \A c \in Calls : ListingInv(c)'
<1>. USE DEF IndexInv
<1>1. /\ settled' = settled \ {r} /\ \A c \in Calls : same'[c] = same[c] \ {r}
      /\ UNCHANGED <<discovered, ready, index, registered, kept, pc, unread, found, blind>>
      /\ \A q : q # r => (q \in upstream' <=> q \in upstream)
  BY DEF Appear, Disappear, Changed
<1>2. RemovedIsGone' /\ NewIsAddressable' /\ RegisteredIsAddressable' /\ NeverMisrouted'
  BY <1>1 DEF RemovedIsGone, NewIsAddressable, RegisteredIsAddressable, NeverMisrouted
<1>3. PrimaryIsAddressable'
  BY <1>1 DEF PrimaryIsAddressable, RoutedTo
<1>4. ASSUME NEW c \in Calls  PROVE ListingInv(c)'
  <2>1. ListingInv(c)
    OBVIOUS
  <2>. QED  BY <1>1, <2>1 DEF ListingInv
<1>. QED  BY <1>2, <1>3, <1>4 DEF Promises

-----------------------------------------------------------------------------
\* The invariant of the index is inductive, however rebuilds overlap.
THEOREM IndexCorrect == Spec => []IndexInv
<1>1. Init => IndexInv
  <2>. SUFFICES ASSUME Init  PROVE IndexInv
    OBVIOUS
  <2>1. TypeOK
    <3>1. upstream \subseteq Records /\ discovered \subseteq Records
      BY DEF Init
    <3>2. index \in [Addresses \cup Created -> Records \cup LocalRecords \cup {NoRecord}]
      BY DEF Init
    <3>3. \A a \in DOMAIN index : index[a] = NoRecord
      BY DEF Init
    <3>4. changes \in 0..MaxChanges
      BY BoundAssumption DEF Init
    <3>. QED  BY <3>1, <3>2, <3>3, <3>4 DEF Init, TypeOK
  <2>2. PrimariesFound
    BY DEF Init, PrimariesFound
  <2>3. \A c \in Calls : ListingInv(c)
    BY DEF Init, ListingInv
  <2>4. Promises
    <3>1. \A a \in Addresses : index[a] = NoRecord
      BY DEF Init
    <3>. QED
      BY <3>1, NoRecordAssumption
         DEF Init, Promises, RemovedIsGone, NewIsAddressable, RegisteredIsAddressable,
             PrimaryIsAddressable, NeverMisrouted
  <2>. QED  BY <2>1, <2>2, <2>3, <2>4 DEF IndexInv, Promises
<1>2. IndexInv /\ [Next]_vars => IndexInv'
  <2>. SUFFICES ASSUME IndexInv, [Next]_vars  PROVE IndexInv'
    OBVIOUS
  <2>1. CASE UNCHANGED vars
    <3>1. Promises' /\ TypeOK' /\ PrimariesFound'
      BY <2>1, PromisesOfUnchanged
         DEF IndexInv, Promises, TypeOK, PrimariesFound, vars, held, lists, callVars
    <3>2. \A c \in Calls : ListingInv(c)'
      BY <2>1 DEF IndexInv, ListingInv, vars, lists, callVars
    <3>. QED  BY <3>1, <3>2 DEF IndexInv, Promises
  <2>2. CASE Next
    <3>1. TypeOK'
      BY <2>2, StepType DEF IndexInv
    <3>2. PrimariesFound'
      <4>1. discovered' = discovered
        BY <2>2 DEF Next, CallStep, Begin, Read, ReadFails, InstallUnprobed, InstallProbed, Probe,
                    Conclude, Register, Appear, Disappear, Changed, lists
      <4>. QED  BY <4>1 DEF IndexInv, PrimariesFound
    <3>3. Promises' /\ \A c \in Calls : ListingInv(c)'
      BY <2>2, CallKeepsListings, CallKeepsPromises, RegisterKeeps, ChangeKeeps DEF Next
    <3>. QED  BY <3>1, <3>2, <3>3 DEF IndexInv, Promises
  <2>. QED  BY <2>1, <2>2
<1>. QED  BY <1>1, <1>2, PTL DEF Spec

\* An account removed before the rebuild that installed the index began is gone from it,
\* for the custodians that list afresh.
THEOREM RemovedAccountsAreGone == Spec => []RemovedIsGone
<1>1. IndexInv => RemovedIsGone
  BY DEF IndexInv
<1>. QED  BY <1>1, IndexCorrect, PTL

\* An account listed since before that rebuild began can be addressed.
THEOREM ListedAccountsAreAddressable == Spec => []NewIsAddressable
<1>1. IndexInv => NewIsAddressable
  BY DEF IndexInv
<1>. QED  BY <1>1, IndexCorrect, PTL

\* A registered account can be acted on until the next rebuild succeeds.
THEOREM RegisteredAccountsAreKept == Spec => []RegisteredIsAddressable
<1>1. IndexInv => RegisteredIsAddressable
  BY DEF IndexInv
<1>. QED  BY <1>1, IndexCorrect, PTL

\* A rebuild that succeeds leaves no primary unbound, and none in the hands of a custodian
\* other than the one that was seen to list it.
THEOREM PrimariesAreAddressable == Spec => []PrimaryIsAddressable
<1>1. IndexInv => PrimaryIsAddressable
  BY DEF IndexInv
<1>. QED  BY <1>1, IndexCorrect, PTL

\* No address is bound on another network, unless the network could not be learnt.
THEOREM AddressesAreRoutedRight == Spec => []NeverMisrouted
<1>1. IndexInv => NeverMisrouted
  BY DEF IndexInv
<1>. QED  BY <1>1, IndexCorrect, PTL
===============================================================================
