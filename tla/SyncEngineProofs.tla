-------------------------- MODULE SyncEngineProofs --------------------------
(***************************************************************************)
(* What SyncEngine never does, and what it leaves behind when nothing      *)
(* fails, for any accounts, folders, VMs and clouds.                       *)
(*                                                                         *)
(* The inductive invariant ties the engine's data to the account in turn:  *)
(* what it has listed is the account's own, and a whole listing is what    *)
(* the account had when it was asked.  A VM to be moved is in NetBox.      *)
(*                                                                         *)
(* A second one, SteadyInv, is about syncs in which nothing fails and the  *)
(* clouds do not change: what holds of an account when its turn is over    *)
(* holds until the end of the sync, and in every steady sync after it.     *)
(***************************************************************************)
EXTENDS SyncEngine, TLAPS

-----------------------------------------------------------------------------
(* The inductive invariant *)

\* Between accounts the engine has no data; before the VMs it has done none.
AccountInv ==
    /\ phase \in {"idle", "fetch", "store"} => NoAccount
    /\ phase \notin {"vms", "moves"} => moves = {} /\ vmErrors = {}

\* What is listed belongs to the account in turn.
ListingInv ==
    /\ listing.folders \subseteq Own(cur)
    /\ \A n \in Listed : listing.vms[n] \in listing.folders
    /\ listing.whole => listing.vms = seen /\ listing.folders = world.folders[cur]
    /\ phase = "orphans" => Listed # {}

\* VMs to be moved are in NetBox.
MovesInv == moves \subseteq InNetBox

IInv == TypeOK /\ world \in Worlds /\ AccountInv /\ ListingInv /\ MovesInv

-----------------------------------------------------------------------------
(* Types *)

\* TypeOK in three parts: NetBox, the account in turn, and the rest.
NetBoxTypes ==
    /\ nb \in [Names -> {NoVm} \cup [tag : Tags, cluster : Folders \cup {NoFolder}]]
    /\ clusters \in [Folders -> Tags \cup {"absent"}]
    /\ prefixes \in [Folders -> Tags \cup {"absent"}]

AccountTypes ==
    /\ listing \in [folders : SUBSET Folders, vms : Vms, whole : BOOLEAN]
    /\ mapped \subseteq listing.folders
    /\ left \subseteq Listed /\ moves \subseteq Listed
    /\ vmErrors \subseteq Listed /\ synced \subseteq Listed
    /\ seen \in Vms

RunTypes ==
    /\ world \in World
    /\ phase \in Phases
    /\ turn \in DOMAIN Providers
    /\ tags \subseteq Types
    /\ stats \in [Types -> [errors : SUBSET Names, synced : SUBSET Names]]
    /\ rows \subseteq Names /\ dbErrors \subseteq Names
    /\ failures \in 0..MaxFailures /\ changes \in 0..MaxChanges
    /\ steady \in BOOLEAN /\ clean \in 0..MaxClean
    /\ failed \in [Accounts -> SUBSET Names]

LEMMA Parts == TypeOK <=> NetBoxTypes /\ AccountTypes /\ RunTypes
  BY DEF TypeOK, NetBoxTypes, AccountTypes, RunTypes

\* The account in turn and its type.
LEMMA InTurn == turn \in DOMAIN Providers => cur \in Accounts /\ type \in Types
  BY ProvidersAssumption DEF cur, type, Accounts

\* What is listed are VMs.
LEMMA ListedNames == Listed \subseteq Names
  BY DEF Listed, In

\* No data is data of the right type.
LEMMA Forgets == ForgetAccount => AccountTypes' /\ NoAccount'
  BY DEF ForgetAccount, AccountTypes, NoAccount, NoListing, Listed, In, Vms

\* The types of what is in NetBox.
LEMMA NetBoxStep == IInv /\ [Next]_vars => NetBoxTypes'
<1> SUFFICES ASSUME IInv, [Next]_vars PROVE NetBoxTypes'
  OBVIOUS
<1>t. NetBoxTypes /\ AccountTypes /\ RunTypes
  BY Parts DEF IInv
<1>c. type \in Types
  BY <1>t, InTurn DEF RunTypes
<1>1. CASE CleanInfrastructure
  BY <1>1, <1>t DEF CleanInfrastructure, NetBoxTypes
<1>2. CASE EnsureClusters
  BY <1>2, <1>t, <1>c DEF EnsureClusters, NetBoxTypes, Tagged, Tags
<1>3. CASE EnsurePrefixes
  BY <1>3, <1>t, <1>c DEF EnsurePrefixes, NetBoxTypes, Tagged, Tags
<1>4. CASE DeleteOrphans
  BY <1>4, <1>t DEF DeleteOrphans, NetBoxTypes
<1>5. CASE MoveVms
  <2>1. ASSUME NEW n \in moves
        PROVE [nb[n] EXCEPT !.cluster = listing.vms[n]]
                \in [tag : Tags, cluster : Folders \cup {NoFolder}]
    BY <1>t DEF IInv, MovesInv, InNetBox, NetBoxTypes, AccountTypes, Vms
  <2> QED
    BY <1>5, <1>t, <2>1 DEF MoveVms, NetBoxTypes
<1>6. ASSUME NEW n \in Names, CreateVm(n) PROVE NetBoxTypes'
  <2>1. listing.vms[n] \in Folders
    BY <1>6, <1>t DEF CreateVm, AccountTypes, Listed, In, Vms
  <2>2. PICK known \in BOOLEAN :
           /\ nb' = [nb EXCEPT ![n] = [tag |-> Tagged("absent", known),
                                       cluster |-> listing.vms[n]]]
           /\ clusters' = IF listing.vms[n] \in mapped THEN clusters
                          ELSE [clusters EXCEPT ![listing.vms[n]] = Tagged(@, known)]
    BY <1>6 DEF CreateVm
  <2>3. Tagged("absent", known) \in Tags /\ Tagged(clusters[listing.vms[n]], known) \in Tags \cup {"absent"}
    BY <2>1, <1>t, <1>c DEF Tagged, Tags, NetBoxTypes
  <2> QED
    BY <1>6, <2>1, <2>2, <2>3, <1>t DEF CreateVm, NetBoxTypes
<1>7. ASSUME NEW n \in Names, CreateVmFails(n) PROVE NetBoxTypes'
  BY <1>7, <1>t, <1>c DEF CreateVmFails, NetBoxTypes, AccountTypes, Vms, Tagged, Tags
<1>8. CASE UNCHANGED netbox
  BY <1>8, <1>t DEF netbox, NetBoxTypes
<1> QED
  BY <1>1, <1>2, <1>3, <1>4, <1>5, <1>6, <1>7, <1>8
  DEF Next, vars, Begin, Fetch, FetchPart, EnsureTag, TagFails, ProviderFails, Infrastructure,
      SyncVms, NoVmsListed, Load, EndVms, UpdateVm, UpdateVmFails, netbox, Store, Crash, WorldChanges

\* The types of the data of the account in turn.
LEMMA AccountStep == IInv /\ [Next]_vars => AccountTypes'
<1> SUFFICES ASSUME IInv, [Next]_vars PROVE AccountTypes'
  OBVIOUS
<1>t. AccountTypes /\ RunTypes /\ AccountInv
  BY Parts DEF IInv
<1>c. cur \in Accounts
  BY <1>t, InTurn DEF RunTypes
<1>1. CASE Fetch
  BY <1>1, <1>t, <1>c
  DEF Fetch, Whole, AccountTypes, RunTypes, World, AccountInv, NoAccount
<1>2. CASE FetchPart
  BY <1>2, <1>t, <1>c
  DEF FetchPart, AccountTypes, RunTypes, World, Vms, AccountInv, NoAccount
<1>3. CASE ForgetAccount
  BY <1>3, Forgets
<1>4. CASE EnsureClusters
  BY <1>4, <1>t DEF EnsureClusters, AccountTypes, Listed
<1>5. CASE Load
  BY <1>5, <1>t DEF Load, AccountTypes, Listed
<1>6. ASSUME NEW n \in Names,
             UpdateVm(n) \/ UpdateVmFails(n) \/ CreateVm(n) \/ CreateVmFails(n)
      PROVE AccountTypes'
  BY <1>6, <1>t DEF UpdateVm, UpdateVmFails, CreateVm, CreateVmFails, AccountTypes, Listed
<1>7. CASE UNCHANGED account
  BY <1>7, <1>t DEF account, AccountTypes, Listed
<1> QED
  BY <1>1, <1>2, <1>3, <1>4, <1>5, <1>6, <1>7
  DEF Next, vars, account, Begin, EnsureTag, TagFails, ProviderFails, Leave, Infrastructure,
      CleanInfrastructure, EnsurePrefixes, SyncVms, NoVmsListed, DeleteOrphans, EndVms,
      MoveVms, Store, Crash, WorldChanges

\* The types of the rest.
LEMMA RunStep == IInv /\ [Next]_vars => RunTypes'
<1> SUFFICES ASSUME IInv, [Next]_vars PROVE RunTypes'
  OBVIOUS
<1>t. AccountTypes /\ RunTypes
  BY Parts DEF IInv
<1>c. cur \in Accounts /\ type \in Types
  BY <1>t, InTurn DEF RunTypes
<1>n. Listed \subseteq Names
  BY ListedNames
<1>f. (Works \/ Fails) /\ UNCHANGED changes =>
         /\ failures' \in 0..MaxFailures /\ changes' \in 0..MaxChanges
         /\ steady' \in BOOLEAN /\ clean' \in 0..MaxClean
  <2>1. failures \in 0..MaxFailures /\ changes \in 0..MaxChanges /\ clean \in 0..2
    BY <1>t DEF RunTypes, MaxClean
  <2>2. Works \/ Fails => failures' \in 0..MaxFailures /\ clean' \in 0..2
    BY <2>1, BoundsAssumption DEF Works, Fails
  <2>3. Works \/ Fails => steady' \in BOOLEAN
    BY <1>t DEF Works, Fails, RunTypes
  <2> QED
    BY <2>1, <2>2, <2>3 DEF MaxClean
<1>k. ASSUME NEW known \in BOOLEAN, TagKnown(known) PROVE tags' \subseteq Types
  BY <1>k, <1>t, <1>c DEF TagKnown, RunTypes
<1>g. ASSUME NEW next \in Phases, Go(next) PROVE phase' \in Phases /\ turn' \in DOMAIN Providers
  BY <1>g, <1>t DEF Go, RunTypes
<1>l. ASSUME NEW s \in [errors : SUBSET Names, synced : SUBSET Names], Leave(s)
      PROVE /\ stats' \in [Types -> [errors : SUBSET Names, synced : SUBSET Names]]
            /\ phase' \in Phases /\ turn' \in DOMAIN Providers
  BY <1>l, <1>t, <1>c, ProvidersAssumption DEF Leave, RunTypes, Phases
<1>o. Nothing \in [errors : SUBSET Names, synced : SUBSET Names]
  BY DEF Nothing
<1>1. CASE Begin
  <2>1. 1 \in DOMAIN Providers
    BY ProvidersAssumption
  <2> QED
    BY <1>1, <1>t, <1>o, <2>1 DEF Begin, RunTypes, Phases
<1>2. CASE Fetch \/ FetchPart \/ EnsureTag \/ TagFails
  <2>1. Go("tag") \/ Go("cleanup")
    BY <1>2 DEF Fetch, FetchPart, EnsureTag, TagFails
  <2>2. phase' \in Phases /\ turn' \in DOMAIN Providers
    BY <2>1, <1>g DEF Phases
  <2> QED
    BY <1>2, <2>2, <1>t, <1>c, <1>f DEF Fetch, FetchPart, EnsureTag, TagFails, RunTypes
<1>3. CASE ProviderFails \/ NoVmsListed
  BY <1>3, <1>t, <1>f, <1>l, <1>o DEF ProviderFails, NoVmsListed, RunTypes
<1>4. CASE Infrastructure
  <2>1. Go("clusters") \/ Go("prefixes") \/ Go("load")
    BY <1>4 DEF Infrastructure, CleanInfrastructure, EnsureClusters, EnsurePrefixes
  <2>2. phase' \in Phases /\ turn' \in DOMAIN Providers
    BY <2>1, <1>g DEF Phases
  <2>3. Works \/ Fails
    BY <1>4 DEF Infrastructure, CleanInfrastructure, EnsureClusters, EnsurePrefixes, Outcome
  <2> QED
    BY <1>4, <2>2, <2>3, <1>t, <1>f, <1>k
    DEF Infrastructure, CleanInfrastructure, EnsureClusters, EnsurePrefixes, RunTypes
<1>5. CASE Load \/ EndVms
  <2>1. phase' \in Phases /\ turn' \in DOMAIN Providers
    BY <1>5, <1>g DEF Load, EndVms, Phases
  <2> QED
    BY <1>5, <2>1, <1>t, <1>f DEF Load, EndVms, RunTypes
<1>6. CASE DeleteOrphans
  <2>1. phase' \in Phases /\ turn' \in DOMAIN Providers
    BY <1>6, <1>g DEF DeleteOrphans, Phases
  <2>2. Works \/ Fails
    BY <1>6 DEF DeleteOrphans, Outcome
  <2> QED
    BY <1>6, <2>1, <2>2, <1>t, <1>f, <1>k DEF DeleteOrphans, RunTypes
<1>7. CASE MoveVms
  <2>1. [errors |-> vmErrors, synced |-> synced] \in [errors : SUBSET Names, synced : SUBSET Names]
    BY <1>t, <1>n DEF AccountTypes
  <2>2. Works \/ Fails
    BY <1>7 DEF MoveVms, Outcome
  <2> QED
    BY <1>7, <2>1, <2>2, <1>t, <1>f, <1>l DEF MoveVms, RunTypes
<1>8. ASSUME NEW n \in Names,
             UpdateVm(n) \/ UpdateVmFails(n) \/ CreateVm(n) \/ CreateVmFails(n)
      PROVE RunTypes'
  <2>1. Works \/ Fails
    BY <1>8 DEF UpdateVm, UpdateVmFails, CreateVm, CreateVmFails
  <2>2. tags' \subseteq Types
    BY <1>8, <1>t, <1>k DEF UpdateVm, UpdateVmFails, CreateVm, CreateVmFails, RunTypes
  <2>3. failed' \in [Accounts -> SUBSET Names]
    BY <1>8, <1>t, <1>c DEF UpdateVm, UpdateVmFails, CreateVm, CreateVmFails, RunTypes
  <2> QED
    BY <1>8, <2>1, <2>2, <2>3, <1>t, <1>f
    DEF UpdateVm, UpdateVmFails, CreateVm, CreateVmFails, RunTypes
<1>9. CASE Store
  <2>1. \A known \in SUBSET Names : UpdateVmSyncErrors(known) \subseteq Names
    BY <1>t DEF UpdateVmSyncErrors, Errors, RunTypes
  <2> QED
    BY <1>9, <2>1, <1>t DEF Store, RunTypes, Phases, MaxClean
<1>10. CASE Crash
  <2>1. 1 \in DOMAIN Providers
    BY ProvidersAssumption
  <2> QED
    BY <1>10, <1>t, <1>f, <1>o, <2>1 DEF Crash, RunTypes, Phases
<1>11. CASE WorldChanges
  <2>1. changes \in 0..MaxChanges /\ changes < MaxChanges
    BY <1>11, <1>t DEF WorldChanges, RunTypes
  <2>2. changes + 1 \in 0..MaxChanges /\ 0 \in 0..2
    BY <2>1, BoundsAssumption
  <2>3. world' \in World
    BY <1>11, WorldsAssumption DEF WorldChanges
  <2> QED
    BY <1>11, <2>2, <2>3, <1>t DEF WorldChanges, RunTypes, MaxClean
<1>12. CASE UNCHANGED vars
  BY <1>12, <1>t DEF vars, RunTypes
<1> QED
  BY <1>1, <1>2, <1>3, <1>4, <1>5, <1>6, <1>7, <1>8, <1>9, <1>10, <1>11, <1>12 DEF Next, SyncVms

LEMMA TypeStep == IInv /\ [Next]_vars => TypeOK'
  BY NetBoxStep, AccountStep, RunStep, Parts, PTL

-----------------------------------------------------------------------------
(* The other parts *)

\* Between accounts there is no data; nothing is to be moved before the VMs.
LEMMA AccountInvStep == IInv /\ [Next]_vars => AccountInv'
<1> SUFFICES ASSUME IInv, [Next]_vars PROVE AccountInv'
  OBVIOUS
<1>t. AccountInv /\ phase \in Phases
  BY DEF IInv, TypeOK
<1>1. CASE ForgetAccount
  BY <1>1, Forgets DEF AccountInv, NoAccount
<1>2. CASE Begin \/ Fetch \/ FetchPart \/ EnsureTag \/ TagFails
  BY <1>2, <1>t DEF Begin, Fetch, FetchPart, EnsureTag, TagFails, Go, AccountInv, NoAccount, account
<1>3. CASE Infrastructure
  BY <1>3, <1>t DEF Infrastructure, CleanInfrastructure, EnsureClusters, EnsurePrefixes, Go,
                    AccountInv, NoAccount, account
<1>4. CASE Load \/ DeleteOrphans \/ EndVms
  BY <1>4, <1>t DEF Load, DeleteOrphans, EndVms, Go, AccountInv, NoAccount, account
<1>5. ASSUME NEW n \in Names,
             UpdateVm(n) \/ UpdateVmFails(n) \/ CreateVm(n) \/ CreateVmFails(n)
      PROVE AccountInv'
  BY <1>5 DEF UpdateVm, UpdateVmFails, CreateVm, CreateVmFails, AccountInv
<1>6. CASE Store \/ WorldChanges \/ UNCHANGED vars
  BY <1>6, <1>t DEF Store, WorldChanges, vars, account, AccountInv, NoAccount
<1> QED
  BY <1>1, <1>2, <1>3, <1>4, <1>5, <1>6
  DEF Next, SyncVms, ProviderFails, NoVmsListed, MoveVms, Leave, Crash

\* What is listed stays the account's own.
LEMMA ListingStep == IInv /\ [Next]_vars => ListingInv'
<1> SUFFICES ASSUME IInv, [Next]_vars PROVE ListingInv'
  OBVIOUS
<1>t. ListingInv /\ phase \in Phases /\ turn \in DOMAIN Providers /\ world \in Worlds
  BY DEF IInv, TypeOK
<1>w. /\ cur \in Accounts
      /\ world.folders[cur] \subseteq Own(cur)
      /\ \A n \in In(world.vms[cur]) : world.vms[cur][n] \in world.folders[cur]
  BY <1>t, InTurn, WorldsAssumption
<1>1. CASE Begin
  BY <1>1, <1>t DEF Begin, account, IInv, AccountInv, NoAccount, NoListing, ListingInv, Listed, In
<1>2. CASE Fetch
  BY <1>2, <1>w DEF Fetch, Go, Whole, ListingInv, cur, Listed
<1>3. CASE FetchPart
  BY <1>3, <1>w DEF FetchPart, Go, ListingInv, cur, Listed, In
<1>4. CASE ForgetAccount /\ phase' # "orphans"
  BY <1>4 DEF ForgetAccount, NoListing, ListingInv, Listed, In
<1>5. CASE Load
  BY <1>5, <1>t DEF Load, Go, ListingInv, Listed, cur
<1>6. CASE /\ UNCHANGED <<listing, seen, turn, world>>
           /\ phase' = "orphans" => phase = "orphans"
  BY <1>6, <1>t DEF ListingInv, Listed, cur
<1>7. CASE Store \/ UNCHANGED vars
  BY <1>7, <1>6 DEF Store, vars, account
<1>11. CASE WorldChanges
  BY <1>11, <1>t
  DEF WorldChanges, account, IInv, AccountInv, NoAccount, NoListing, ListingInv, Listed, In, cur
<1>8. CASE EnsureTag \/ TagFails \/ Infrastructure \/ DeleteOrphans \/ EndVms
  BY <1>8, <1>6
  DEF EnsureTag, TagFails, Infrastructure, CleanInfrastructure, EnsureClusters, EnsurePrefixes,
      DeleteOrphans, EndVms, Go, account
<1>9. ASSUME NEW n \in Names,
             UpdateVm(n) \/ UpdateVmFails(n) \/ CreateVm(n) \/ CreateVmFails(n)
      PROVE ListingInv'
  BY <1>9, <1>6 DEF UpdateVm, UpdateVmFails, CreateVm, CreateVmFails
<1>10. CASE ProviderFails \/ NoVmsListed \/ MoveVms \/ Crash
  BY <1>10, <1>4 DEF ProviderFails, NoVmsListed, MoveVms, Leave, Crash
<1> QED
  BY <1>1, <1>2, <1>3, <1>5, <1>7, <1>8, <1>9, <1>10, <1>11 DEF Next, SyncVms

\* What is to be moved stays in NetBox.
LEMMA MovesStep == IInv /\ [Next]_vars => MovesInv'
<1> SUFFICES ASSUME IInv, [Next]_vars PROVE MovesInv'
  OBVIOUS
<1>t. MovesInv /\ AccountInv
  BY DEF IInv
<1>1. CASE moves' = {}
  BY <1>1 DEF MovesInv
<1>2. CASE UNCHANGED <<nb, moves>>
  BY <1>2, <1>t DEF MovesInv, InNetBox
<1>3. ASSUME NEW n \in Names, UpdateVm(n) \/ UpdateVmFails(n) \/ CreateVmFails(n) PROVE MovesInv'
  BY <1>3, <1>t DEF UpdateVm, UpdateVmFails, CreateVmFails, MovesInv, InNetBox, netbox
<1>4. ASSUME NEW n \in Names, CreateVm(n) PROVE MovesInv'
  BY <1>4, <1>t DEF CreateVm, MovesInv, InNetBox
<1>5. CASE phase \notin {"vms", "moves"} /\ UNCHANGED moves
  BY <1>5, <1>1, <1>t DEF AccountInv
<1>6. CASE Begin \/ Fetch \/ FetchPart \/ EnsureTag \/ TagFails \/ Infrastructure \/ Load \/ DeleteOrphans
           \/ Store \/ WorldChanges
  BY <1>6, <1>5
  DEF Begin, Fetch, FetchPart, EnsureTag, TagFails, Infrastructure, CleanInfrastructure,
      EnsureClusters, EnsurePrefixes, Load, DeleteOrphans, Store, WorldChanges, account
<1>7. CASE EndVms \/ UNCHANGED vars
  BY <1>7, <1>2 DEF EndVms, vars, netbox, account
<1>8. CASE ProviderFails \/ NoVmsListed \/ MoveVms \/ Crash
  BY <1>8, <1>1 DEF ProviderFails, NoVmsListed, MoveVms, Leave, Crash, ForgetAccount
<1> QED
  BY <1>3, <1>4, <1>6, <1>7, <1>8 DEF Next, SyncVms

-----------------------------------------------------------------------------
(* The invariant *)

LEMMA Initially == Init => IInv
<1> SUFFICES ASSUME Init PROVE IInv
  OBVIOUS
<1>1. AccountTypes
  BY DEF Init, NoAccount, NoListing, AccountTypes, Listed, In, Vms
<1>2. NetBoxTypes
  BY DEF Init, NetBoxTypes, NoVm, Tags
<1>3. RunTypes
  <2>1. 1 \in DOMAIN Providers
    BY ProvidersAssumption
  <2>2. 0 \in 0..MaxFailures /\ 0 \in 0..MaxChanges /\ 0 \in 0..2
    BY BoundsAssumption
  <2>3. Nothing \in [errors : SUBSET Names, synced : SUBSET Names]
    BY DEF Nothing
  <2> QED
    BY <2>1, <2>2, <2>3, WorldsAssumption DEF Init, RunTypes, Phases, MaxClean
<1>4. AccountInv /\ MovesInv
  BY DEF Init, NoAccount, AccountInv, MovesInv
<1>5. ListingInv
  BY DEF Init, NoAccount, NoListing, ListingInv, Listed, In
<1> QED
  BY <1>1, <1>2, <1>3, <1>4, <1>5, Parts DEF IInv, Init

LEMMA WorldStep == IInv /\ [Next]_vars => (world \in Worlds)'
  BY DEF IInv, Next, vars, Begin, Fetch, FetchPart, EnsureTag, TagFails, ProviderFails,
         Infrastructure, CleanInfrastructure, EnsureClusters, EnsurePrefixes, SyncVms,
         NoVmsListed, Load, DeleteOrphans, EndVms, MoveVms, UpdateVm, UpdateVmFails,
         CreateVm, CreateVmFails, Store, Crash, WorldChanges

LEMMA InvStep == IInv /\ [Next]_vars => IInv'
<1> SUFFICES ASSUME IInv, [Next]_vars PROVE IInv'
  OBVIOUS
<1> QED
  BY TypeStep, WorldStep, AccountInvStep, ListingStep, MovesStep DEF IInv

LEMMA Invariant == Spec => []IInv
  BY Initially, InvStep, PTL DEF Spec

-----------------------------------------------------------------------------
(* The theorems *)

\* Every variable keeps its type, whatever the accounts, folders and VMs: only
\* VMs of the listing are processed, moved, and recorded.
THEOREM TypeCorrect == Spec => []TypeOK
  BY Invariant, PTL DEF IInv

\* What a sync deletes is an orphan of the account in turn: a VM of its type,
\* in a cluster of its clouds, that it did not have when it was asked.
LEMMA DeletedVm == IInv /\ [Next]_vars => OnlyOwnVmsGo
<1> SUFFICES ASSUME IInv, [Next]_vars, NEW n \in InNetBox, nb'[n] = NoVm
             PROVE  /\ nb[n].tag = type
                    /\ nb[n].cluster \in Own(cur)
                    /\ seen[n] = NoFolder
  BY DEF OnlyOwnVmsGo
<1>t. NetBoxTypes /\ AccountTypes /\ ListingInv /\ MovesInv
  BY Parts DEF IInv
<1>n. n \in Names /\ nb[n] # NoVm /\ nb[n] \in [tag : Tags, cluster : Folders \cup {NoFolder}]
  BY <1>t DEF InNetBox, NetBoxTypes
<1>1. CASE DeleteOrphans
  <2>1. n \in Orphans /\ listing.whole /\ phase = "orphans"
    BY <1>1, <1>n DEF DeleteOrphans
  <2>2. n \notin Listed /\ listing.vms[n] = NoFolder
    BY <2>1, <1>n DEF Orphans, Listed, In
  <2>3. nb[n].cluster \in Folders
    BY <2>1, <1>n DEF Orphans
  <2>4. PICK m \in Listed : listing.vms[m] \in listing.folders
    BY <2>1, <1>t DEF ListingInv
  <2>5. CloudOf[nb[n].cluster] \in CloudNames
    BY <2>1, <2>4 DEF Orphans, InScope, CloudNames
  <2>6. PICK f \in listing.folders : CloudOf[nb[n].cluster] = CloudOf[f]
    BY <2>5 DEF CloudNames
  <2>7. nb[n].cluster \in Own(cur)
    BY <2>3, <2>6, <1>t DEF ListingInv, Own
  <2>8. seen[n] = NoFolder
    BY <2>1, <2>2, <1>t DEF ListingInv
  <2> QED
    BY <2>1, <2>7, <2>8 DEF Orphans
<1>2. CASE MoveVms
  <2>1. n \in moves => listing.vms[n] # NoFolder
    BY <1>t DEF AccountTypes, Listed, In
  <2>2. n \in moves => [nb[n] EXCEPT !.cluster = listing.vms[n]].cluster # NoFolder
    BY <2>1, <1>n
  <2>3. nb'[n] # NoVm
    BY <1>2, <1>n, <2>2 DEF MoveVms, NoVm
  <2> QED
    BY <2>3
<1>3. ASSUME NEW v \in Names, CreateVm(v) PROVE nb'[n] = nb[n]
  BY <1>3, <1>n, <1>t DEF CreateVm, InNetBox, NetBoxTypes
<1>4. CASE UNCHANGED nb
  BY <1>4, <1>n
<1> QED
  BY <1>1, <1>2, <1>3, <1>4, <1>n
  DEF Next, vars, netbox, Begin, Fetch, FetchPart, EnsureTag, TagFails, ProviderFails,
      Infrastructure, CleanInfrastructure, EnsureClusters, EnsurePrefixes, SyncVms,
      NoVmsListed, Load, EndVms, UpdateVm, UpdateVmFails, CreateVmFails, Store, Crash,
      WorldChanges

\* A cluster that is deleted is one of the account's type and of no folder of it; one
\* of another account only if the account has no folders.
LEMMA DeletedCluster == IInv /\ [Next]_vars => OnlyStaleClustersGo
<1> SUFFICES ASSUME IInv, [Next]_vars, NEW f \in Folders,
                    clusters[f] # "absent", clusters'[f] = "absent"
             PROVE  /\ clusters[f] = type
                    /\ f \notin world.folders[cur]
                    /\ world.folders[cur] # {} => f \in Own(cur)
  BY DEF OnlyStaleClustersGo
<1>t. NetBoxTypes /\ AccountTypes /\ ListingInv
  BY Parts DEF IInv
<1>c. type \in Types /\ \A t \in Types : t # "absent"
  BY InTurn DEF IInv, TypeOK, Types
<1>1. CASE CleanInfrastructure
  <2>1. listing.whole /\ f \in OrphanClusters
    BY <1>1 DEF CleanInfrastructure, Deletable
  <2>2. clusters[f] = type /\ f \notin listing.folders /\ listing.folders = world.folders[cur]
    BY <2>1, <1>t DEF OrphanClusters, ListingInv
  <2>3. ASSUME listing.folders # {} PROVE f \in Own(cur)
    <3>1. CloudOf[f] \in CloudNames
      BY <2>1, <2>3 DEF OrphanClusters, InScope, CloudNames
    <3>2. PICK g \in listing.folders : CloudOf[f] = CloudOf[g]
      BY <3>1 DEF CloudNames
    <3> QED
      BY <3>2, <1>t DEF ListingInv, Own
  <2> QED
    BY <2>2, <2>3
<1>2. ASSUME NEW old, old # "absent", NEW known \in BOOLEAN PROVE Tagged(old, known) # "absent"
  BY <1>2, <1>c DEF Tagged
<1>3. ASSUME EnsureClusters
      PROVE  \E known \in BOOLEAN : clusters'[f] \in {clusters[f], Tagged(clusters[f], known)}
  BY <1>3 DEF EnsureClusters
<1>4. ASSUME NEW n \in Names, CreateVm(n) \/ CreateVmFails(n)
      PROVE  \E known \in BOOLEAN : clusters'[f] \in {clusters[f], Tagged(clusters[f], known)}
  BY <1>4, <1>t DEF CreateVm, CreateVmFails, NetBoxTypes
<1>5. ~UNCHANGED clusters
  OBVIOUS
<1> QED
  BY <1>1, <1>2, <1>3, <1>4, <1>5
  DEF Next, vars, netbox, Begin, Fetch, FetchPart, EnsureTag, TagFails, ProviderFails,
      Infrastructure, EnsurePrefixes, SyncVms, NoVmsListed, Load, DeleteOrphans, EndVms,
      MoveVms, UpdateVm, UpdateVmFails, Store, Crash, WorldChanges

\* A prefix that is deleted is one of the type of an account without folders.
LEMMA DeletedPrefix == IInv /\ [Next]_vars => OnlyPrefixesWithoutFoldersGo
<1> SUFFICES ASSUME IInv, [Next]_vars, NEW f \in Folders,
                    prefixes[f] # "absent", prefixes'[f] = "absent"
             PROVE  prefixes[f] = type /\ world.folders[cur] = {}
  BY DEF OnlyPrefixesWithoutFoldersGo
<1>t. ListingInv
  BY DEF IInv
<1>c. type \in Types /\ \A t \in Types : t # "absent"
  BY InTurn DEF IInv, TypeOK, Types
<1>1. CASE CleanInfrastructure
  <2>1. listing.whole /\ f \in OrphanPrefixes
    BY <1>1 DEF CleanInfrastructure
  <2>2. CloudNames = {} /\ prefixes[f] = type
    BY <2>1 DEF OrphanPrefixes
  <2> QED
    BY <2>1, <2>2, <1>t DEF CloudNames, ListingInv
<1>2. CASE EnsurePrefixes
  BY <1>2, <1>c DEF EnsurePrefixes, Tagged
<1>3. ~UNCHANGED prefixes
  OBVIOUS
<1> QED
  BY <1>1, <1>2, <1>3
  DEF Next, vars, netbox, Begin, Fetch, FetchPart, EnsureTag, TagFails, ProviderFails,
      Infrastructure, EnsureClusters, SyncVms, NoVmsListed, Load, DeleteOrphans, EndVms,
      MoveVms, UpdateVm, UpdateVmFails, CreateVm, CreateVmFails, Store, Crash, WorldChanges

\* What disappears from NetBox is an orphan of the account in turn: VMs always, clusters
\* unless the account has no folders; prefixes go only if it has none.  For any number
\* of accounts with any clouds, folders, failures and changes.
THEOREM DeletionsAreOrphans == Spec => DeletesOnlyOwnOrphans
<1>1. IInv /\ [Next]_vars =>
        [OnlyOwnVmsGo /\ OnlyStaleClustersGo /\ OnlyPrefixesWithoutFoldersGo]_vars
  BY DeletedVm, DeletedCluster, DeletedPrefix
<1> QED
  BY Invariant, <1>1, PTL DEF Spec, DeletesOnlyOwnOrphans

-----------------------------------------------------------------------------
(* Failures and statistics *)

\* Account number i is through.
Done(i) == phase = "store" \/ i < turn

\* No account of its type was synced after account number i.
LatestOfType(i) ==
    \A j \in DOMAIN Providers :
        j > i /\ Done(j) => TypeOf[Providers[j]] # TypeOf[Providers[i]]

\* The failures of an account that is through are in the statistics of its
\* type, unless an account of the type was synced after it; those of the
\* account in turn are in vmErrors; later accounts have none yet.
FailedInv ==
    phase # "idle" =>
        \A i \in DOMAIN Providers :
            /\ Done(i) /\ LatestOfType(i) =>
                  failed[Providers[i]] \subseteq stats[TypeOf[Providers[i]]].errors
            /\ ~Done(i) => failed[Providers[i]] \subseteq IF i = turn THEN vmErrors ELSE {}

\* The account in turn is left with its failures in s.
LEMMA LeaveKeepsFailures ==
    ASSUME IInv, FailedInv, phase \notin {"idle", "store"},
           NEW s, Leave(s), vmErrors \subseteq s.errors, UNCHANGED failed
    PROVE  FailedInv'
<1>t. AccountTypes /\ RunTypes
  BY Parts DEF IInv
<1>d. /\ turn \in DOMAIN Providers /\ DOMAIN Providers = 1..Len(Providers) /\ Len(Providers) \in Nat
      /\ type = TypeOf[Providers[turn]]
  BY <1>t, ProvidersAssumption DEF RunTypes, type, cur
<1>s. /\ stats'[type] = s
      /\ \A t \in Types \ {type} : stats'[t] = stats[t]
  BY <1>t, <1>d, InTurn DEF Leave, RunTypes
<1>y. \A i \in DOMAIN Providers : TypeOf[Providers[i]] \in Types
  BY ProvidersAssumption DEF Accounts
<1>1. \A i \in DOMAIN Providers : Done(i)' <=> i <= turn
  BY <1>d DEF Leave, Done
<1>2. \A i \in DOMAIN Providers : Done(i) <=> i < turn
  BY DEF Done
<1>3. ASSUME NEW i \in DOMAIN Providers, Done(i)', LatestOfType(i)'
      PROVE  failed'[Providers[i]] \subseteq stats'[TypeOf[Providers[i]]].errors
  <2>1. CASE i = turn
    <3>1. failed[Providers[i]] \subseteq vmErrors
      BY <2>1, <1>2, <1>d DEF FailedInv
    <3> QED
      BY <3>1, <2>1, <1>s, <1>d
  <2>2. CASE i < turn
    <3>1. TypeOf[Providers[i]] # type
      BY <2>2, <1>3, <1>1, <1>d DEF LatestOfType
    <3>2. LatestOfType(i)
      BY <1>3, <1>1, <1>2, <1>d DEF LatestOfType
    <3>3. failed[Providers[i]] \subseteq stats[TypeOf[Providers[i]]].errors
      BY <2>2, <3>2, <1>2 DEF FailedInv
    <3> QED
      BY <3>1, <3>3, <1>s, <1>y
  <2> QED
    BY <2>1, <2>2, <1>3, <1>1, <1>d
<1>4. ASSUME NEW i \in DOMAIN Providers, ~Done(i)'
      PROVE  failed'[Providers[i]] \subseteq IF i = turn' THEN vmErrors' ELSE {}
  <2>1. i > turn
    BY <1>4, <1>1, <1>d
  <2>2. failed[Providers[i]] \subseteq {}
    BY <2>1, <1>2, <1>d DEF FailedInv
  <2> QED
    BY <2>2
<1> QED
  BY <1>3, <1>4 DEF FailedInv

\* A step within the turn of an account, in which the VMs in new fail.
LEMMA TurnKeepsFailures ==
    ASSUME IInv, FailedInv, phase # "idle", phase # "store", phase' # "idle", phase' # "store",
           NEW new, UNCHANGED <<turn, stats>>,
           failed' = [failed EXCEPT ![cur] = @ \cup new], vmErrors' = vmErrors \cup new
    PROVE  FailedInv'
<1>t. RunTypes
  BY Parts DEF IInv
<1>d. /\ turn \in DOMAIN Providers /\ DOMAIN Providers = 1..Len(Providers)
      /\ cur = Providers[turn] /\ cur \in Accounts
  BY <1>t, ProvidersAssumption, InTurn DEF RunTypes, cur
<1>1. \A i \in DOMAIN Providers : (Done(i)' <=> Done(i)) /\ (Done(i) <=> i < turn)
  BY DEF Done
<1>2. \A i \in DOMAIN Providers : LatestOfType(i)' <=> LatestOfType(i)
  BY <1>1 DEF LatestOfType
<1>3. \A i \in DOMAIN Providers : i # turn => failed'[Providers[i]] = failed[Providers[i]]
  BY <1>t, <1>d, ProvidersAssumption DEF RunTypes, Accounts
<1>4. failed'[cur] = failed[cur] \cup new
  BY <1>t, <1>d DEF RunTypes
<1>5. failed[cur] \subseteq vmErrors
  BY <1>d, <1>1 DEF FailedInv
<1>6. ASSUME NEW i \in DOMAIN Providers, Done(i), LatestOfType(i)
      PROVE  failed'[Providers[i]] \subseteq stats'[TypeOf[Providers[i]]].errors
  BY <1>6, <1>1, <1>3, <1>d DEF FailedInv
<1>7. ASSUME NEW i \in DOMAIN Providers, ~Done(i)
      PROVE  failed'[Providers[i]] \subseteq IF i = turn' THEN vmErrors' ELSE {}
  <2>1. CASE i = turn
    BY <2>1, <1>4, <1>5, <1>d
  <2>2. CASE i # turn
    BY <2>2, <1>7, <1>3 DEF FailedInv
  <2> QED
    BY <2>1, <2>2
<1> QED
  BY <1>1, <1>2, <1>6, <1>7 DEF FailedInv

LEMMA FailedStep == IInv /\ FailedInv /\ [Next]_vars => FailedInv'
<1> SUFFICES ASSUME IInv, FailedInv, [Next]_vars PROVE FailedInv'
  OBVIOUS
<1>t. RunTypes /\ AccountTypes /\ AccountInv
  BY Parts DEF IInv
<1>d. cur \in Accounts /\ turn \in DOMAIN Providers
  BY <1>t, InTurn DEF RunTypes
<1>i. CASE phase' = "idle"
  BY <1>i DEF FailedInv
<1>1. CASE Begin
  <2>1. DOMAIN Providers = 1..Len(Providers) /\ \A i \in DOMAIN Providers : Providers[i] \in Accounts
    BY ProvidersAssumption DEF Accounts
  <2>2. \A i \in DOMAIN Providers : ~Done(i)' /\ failed'[Providers[i]] = {}
    BY <1>1, <2>1 DEF Begin, Done
  <2> QED
    BY <2>2 DEF FailedInv
<1>2. CASE UNCHANGED <<phase, turn, stats, failed, vmErrors>>
  BY <1>2 DEF FailedInv, Done, LatestOfType
<1>3. CASE /\ phase \notin {"idle", "store"} /\ phase' \notin {"idle", "store"}
           /\ UNCHANGED <<turn, stats, failed, vmErrors>>
  <2>1. failed' = [failed EXCEPT ![cur] = @ \cup {}] /\ vmErrors' = vmErrors \cup {}
    BY <1>3, <1>t, <1>d DEF RunTypes
  <2> QED
    BY <2>1, <1>3, TurnKeepsFailures
<1>4. CASE Fetch \/ FetchPart \/ EnsureTag \/ TagFails \/ Infrastructure
  BY <1>4, <1>3
  DEF Fetch, FetchPart, EnsureTag, TagFails, Infrastructure, CleanInfrastructure,
      EnsureClusters, EnsurePrefixes, Go, account
<1>5. CASE Load \/ DeleteOrphans \/ EndVms
  BY <1>5, <1>3 DEF Load, DeleteOrphans, EndVms, Go, account
<1>6. CASE ProviderFails \/ NoVmsListed
  <2>1. vmErrors \subseteq Nothing.errors
    BY <1>6, <1>t DEF ProviderFails, NoVmsListed, AccountInv
  <2>2. Leave(Nothing) /\ UNCHANGED failed /\ phase \notin {"idle", "store"}
    BY <1>6 DEF ProviderFails, NoVmsListed
  <2> QED
    BY <2>1, <2>2, LeaveKeepsFailures
<1>7. CASE MoveVms
  <2>1. Leave([errors |-> vmErrors, synced |-> synced]) /\ UNCHANGED failed /\ phase = "moves"
    BY <1>7 DEF MoveVms
  <2> QED
    BY <2>1, LeaveKeepsFailures
<1>8. ASSUME NEW n \in Names, UpdateVmFails(n) \/ CreateVmFails(n) PROVE FailedInv'
  <2>1. failed' = [failed EXCEPT ![cur] = @ \cup {n}] /\ vmErrors' = vmErrors \cup {n}
    BY <1>8 DEF UpdateVmFails, CreateVmFails
  <2> QED
    BY <2>1, <1>8, TurnKeepsFailures DEF UpdateVmFails, CreateVmFails
<1>9. ASSUME NEW n \in Names, CreateVm(n) PROVE FailedInv'
  <2>1. CASE UNCHANGED <<vmErrors, failed>>
    BY <2>1, <1>9, <1>3 DEF CreateVm
  <2>2. CASE failed' = [failed EXCEPT ![cur] = @ \cup {n}] /\ vmErrors' = vmErrors \cup {n}
    BY <2>2, <1>9, TurnKeepsFailures DEF CreateVm
  <2> QED
    BY <2>1, <2>2, <1>9 DEF CreateVm
<1>10. ASSUME NEW n \in Names, UpdateVm(n) PROVE FailedInv'
  BY <1>10, <1>2 DEF UpdateVm
<1>11. CASE WorldChanges \/ UNCHANGED vars
  BY <1>11, <1>2 DEF WorldChanges, vars, account
<1> QED
  BY <1>i, <1>1, <1>4, <1>5, <1>6, <1>7, <1>8, <1>9, <1>10, <1>11 DEF Next, SyncVms, Store, Crash

\* What is stored includes the failures of the last account of each type.
LEMMA StoredErrors ==
    IInv /\ FailedInv /\ Store =>
        \A a \in Accounts : LastOfType(a) => failed[a] \cap rows' \subseteq dbErrors'
<1> SUFFICES ASSUME IInv, FailedInv, Store, NEW a \in Accounts, LastOfType(a)
             PROVE  failed[a] \cap rows' \subseteq dbErrors'
  OBVIOUS
<1>1. PICK i \in DOMAIN Providers :
         /\ Providers[i] = a
         /\ \A j \in DOMAIN Providers : j > i => TypeOf[Providers[j]] # TypeOf[a]
  BY DEF LastOfType
<1>2. Done(i) /\ LatestOfType(i) /\ phase # "idle"
  BY <1>1 DEF Store, Done, LatestOfType
<1>3. failed[a] \subseteq stats[TypeOf[a]].errors /\ TypeOf[a] \in Types
  BY <1>1, <1>2, ProvidersAssumption DEF FailedInv
<1> QED
  BY <1>3 DEF Store, UpdateVmSyncErrors, Errors

\* When a sync is recorded, the VMs that failed and have a row show an error, for any
\* accounts in any order: those of the last account of each type, also if a
\* VM of that name was synced for another account.
THEOREM FailuresAreRecorded == Spec => FailuresAreShown
<1>1. Init => FailedInv
  BY DEF Init, FailedInv
<1>2. IInv /\ FailedInv /\ [Next]_vars =>
        [Store => \A a \in Accounts :
                    LastOfType(a) => failed[a] \cap rows' \subseteq dbErrors']_vars
  BY StoredErrors
<1> QED
  BY Invariant, FailedStep, <1>1, <1>2, PTL DEF Spec, FailuresAreShown

-----------------------------------------------------------------------------
(* Steady syncs *)

\* What is known of the account in turn.  If nothing has failed or changed, all
\* of it is listed, the tag of its type is known and its folders are mapped.
TurnInv ==
    /\ clean > 0 => steady
    /\ phase \notin {"vms", "moves"} => synced = {}
    /\ phase = "orphans" => left = Listed
    /\ phase = "moves" => left = {}
    /\ steady => /\ phase \notin {"idle", "fetch", "store"} => listing = Whole(cur)
                 /\ phase \notin {"idle", "fetch", "tag", "store"} => type \in tags
                 /\ phase \in {"prefixes", "load", "orphans", "vms", "moves"} =>
                       mapped = listing.folders

\* What fails ends the steadiness, and so does a change of the clouds.
LEMMA NothingFails ==
    /\ Fails => ~steady'
    /\ \A bad : Outcome(bad) /\ steady' => bad = {} /\ steady
    /\ [Next]_vars /\ steady' => world' = world
  BY DEF Works, Fails, Outcome, Next, vars, Begin, Fetch, FetchPart, EnsureTag, TagFails,
         ProviderFails, Infrastructure, CleanInfrastructure, EnsureClusters, EnsurePrefixes,
         SyncVms, NoVmsListed, Load, DeleteOrphans, EndVms, MoveVms, UpdateVm,
         UpdateVmFails, CreateVm, CreateVmFails, Store, Crash, WorldChanges

LEMMA CleanStep == IInv /\ TurnInv /\ [Next]_vars => (clean > 0 => steady)'
<1> SUFFICES ASSUME IInv, TurnInv, [Next]_vars PROVE (clean > 0 => steady)'
  OBVIOUS
<1>1. CASE Works \/ UNCHANGED <<steady, clean>>
  BY <1>1 DEF Works, TurnInv
<1>2. CASE clean' = 0 \/ steady'
  BY <1>2
<1>3. CASE Store
  BY <1>3 DEF Store
<1> QED
  BY <1>1, <1>2, <1>3
  DEF Next, vars, Fails, Outcome, Begin, Fetch, FetchPart, EnsureTag, TagFails,
      ProviderFails, Infrastructure, CleanInfrastructure, EnsureClusters, EnsurePrefixes,
      SyncVms, NoVmsListed, Load, DeleteOrphans, EndVms, MoveVms, UpdateVm,
      UpdateVmFails, CreateVm, CreateVmFails, Crash, WorldChanges

LEMMA TurnStep == IInv /\ TurnInv /\ [Next]_vars => TurnInv'
<1> SUFFICES ASSUME IInv, TurnInv, [Next]_vars PROVE TurnInv'
  OBVIOUS
<1>t. AccountInv /\ phase \in Phases /\ steady \in BOOLEAN
  BY DEF IInv, TypeOK
<1>c. (clean > 0 => steady)'
  BY CleanStep
<1>k. ASSUME NEW known, TagKnown(known), UNCHANGED turn, type \in tags PROVE (type \in tags)'
  BY <1>k DEF TagKnown, type, cur
<1>s. /\ steady' => world' = world
      /\ Works => steady' = steady
      /\ Fails => ~steady'
      /\ \A bad : Outcome(bad) /\ steady' => bad = {} /\ steady
  BY NothingFails DEF Works, Outcome
<1>1. CASE phase' \in {"idle", "fetch", "store"} /\ synced' = {}
  BY <1>1, <1>c DEF TurnInv
<1>2. CASE ProviderFails \/ NoVmsListed \/ MoveVms \/ Crash \/ Begin \/ Store
  BY <1>2, <1>1, <1>t
  DEF ProviderFails, NoVmsListed, MoveVms, Leave, Crash, ForgetAccount, Begin, Store, account,
      AccountInv, NoAccount
<1>3. CASE Fetch
  BY <1>3, <1>c, <1>s DEF Fetch, Go, Whole, cur, TurnInv
<1>4. CASE FetchPart
  BY <1>4, <1>c, <1>s DEF FetchPart, Go, TurnInv
<1>5. CASE EnsureTag
  BY <1>5, <1>c, <1>s DEF EnsureTag, Go, account, Whole, cur, type, TurnInv
<1>6. CASE TagFails
  BY <1>6, <1>c, <1>s DEF TagFails, Go, account, TurnInv
<1>7. CASE CleanInfrastructure
  <2>1. /\ phase = "cleanup" /\ phase' = "clusters" /\ UNCHANGED <<turn, listing, synced>>
        /\ \E known \in BOOLEAN : TagKnown(known)
        /\ steady' => steady
    BY <1>7, <1>s DEF CleanInfrastructure, Go, account, Outcome
  <2> QED
    BY <2>1, <1>c, <1>s, <1>k DEF Whole, cur, TurnInv
<1>8. CASE EnsureClusters
  BY <1>8, <1>c, <1>s, <1>k DEF EnsureClusters, Go, Whole, cur, TurnInv
<1>9. CASE EnsurePrefixes
  BY <1>9, <1>c, <1>s, <1>k DEF EnsurePrefixes, Go, account, Whole, cur, TurnInv
<1>10. CASE Load
  BY <1>10, <1>c, <1>s DEF Load, Go, Whole, cur, type, TurnInv, Listed
<1>11. CASE DeleteOrphans
  BY <1>11, <1>c, <1>s, <1>k DEF DeleteOrphans, Go, account, Whole, cur, TurnInv
<1>12. CASE EndVms
  BY <1>12, <1>c, <1>s DEF EndVms, Go, account, Whole, cur, type, TurnInv
<1>13. ASSUME NEW n \in Names,
             UpdateVm(n) \/ UpdateVmFails(n) \/ CreateVm(n) \/ CreateVmFails(n)
      PROVE TurnInv'
  <2>1. /\ phase = "vms" /\ phase' = "vms" /\ UNCHANGED <<turn, listing, mapped>>
        /\ Works \/ Fails
    BY <1>13 DEF UpdateVm, UpdateVmFails, CreateVm, CreateVmFails
  <2>2. steady' => (type \in tags)'
    <3>1. steady' => type \in tags
      BY <2>1, <1>s DEF TurnInv
    <3> QED
      BY <3>1, <1>13, <1>k, <2>1
      DEF UpdateVm, UpdateVmFails, CreateVm, CreateVmFails, type, cur
  <2> QED
    BY <2>1, <2>2, <1>c, <1>s DEF Whole, cur, TurnInv
<1>14. CASE WorldChanges
  BY <1>14, <1>c DEF WorldChanges, account, TurnInv
<1>15. CASE UNCHANGED vars
  BY <1>15, <1>c DEF vars, account, Whole, cur, type, TurnInv, Listed
<1> QED
  BY <1>2, <1>3, <1>4, <1>5, <1>6, <1>7, <1>8, <1>9, <1>10, <1>11, <1>12, <1>13, <1>14, <1>15
  DEF Next, Infrastructure, SyncVms

\* What is listed of the account in turn is what it has.
LEMMA AllIsListed ==
    TurnInv /\ steady /\ phase \notin {"idle", "fetch", "store"} =>
        /\ listing.whole
        /\ listing.folders = world.folders[cur]
        /\ listing.vms = world.vms[cur]
        /\ Listed = VmsOf(cur)
        /\ CloudNames = CloudsOf(cur)
  BY DEF TurnInv, Whole, Listed, VmsOf, CloudNames, CloudsOf

-----------------------------------------------------------------------------
(* Errors are cleared *)

\* In a steady sync no VM fails, and the VMs of an account that is through are
\* in the statistics of its type, unless an account of the type came after it.
ClearedInv ==
    /\ steady /\ phase # "idle" =>
          /\ vmErrors = {}
          /\ \A t \in Types : stats[t].errors = {}
          /\ phase \in {"vms", "moves"} => Listed \ left \subseteq synced
          /\ \A i \in DOMAIN Providers :
                Done(i) /\ LatestOfType(i) =>
                    VmsOf(Providers[i]) \subseteq stats[TypeOf[Providers[i]]].synced
    /\ ErrorsAreCleared

\* The account in turn is left with all its VMs in s.
LEMMA LeaveKeepsSynced ==
    ASSUME IInv, ClearedInv, phase \notin {"idle", "store"}, steady, world' = world,
           NEW s, Leave(s), s.errors = {}, VmsOf(cur) \subseteq s.synced
    PROVE  ClearedInv'
<1>t. RunTypes
  BY Parts DEF IInv
<1>d. /\ turn \in DOMAIN Providers /\ DOMAIN Providers = 1..Len(Providers) /\ Len(Providers) \in Nat
      /\ type = TypeOf[Providers[turn]] /\ cur = Providers[turn] /\ type \in Types
  BY <1>t, ProvidersAssumption, InTurn DEF RunTypes, type, cur
<1>s. /\ stats'[type] = s
      /\ \A t \in Types \ {type} : stats'[t] = stats[t]
  BY <1>t, <1>d DEF Leave, RunTypes
<1>y. \A i \in DOMAIN Providers : TypeOf[Providers[i]] \in Types
  BY ProvidersAssumption DEF Accounts
<1>1. \A i \in DOMAIN Providers : (Done(i)' <=> i <= turn) /\ (Done(i) <=> i < turn)
  BY <1>d DEF Leave, Done
<1>2. ASSUME NEW i \in DOMAIN Providers, Done(i)', LatestOfType(i)'
      PROVE  VmsOf(Providers[i])' \subseteq stats'[TypeOf[Providers[i]]].synced
  <2>w. VmsOf(Providers[i])' = VmsOf(Providers[i])
    BY DEF VmsOf
  <2>1. CASE i = turn
    BY <2>w, <2>1, <1>s, <1>d
  <2>2. CASE i < turn
    <3>1. TypeOf[Providers[i]] # type
      BY <2>2, <1>2, <1>1, <1>d DEF LatestOfType
    <3>2. LatestOfType(i)
      BY <1>2, <1>1, <1>d DEF LatestOfType
    <3>3. VmsOf(Providers[i]) \subseteq stats[TypeOf[Providers[i]]].synced
      BY <2>2, <3>2, <1>1 DEF ClearedInv
    <3> QED
      BY <2>w, <3>1, <3>3, <1>s, <1>y
  <2> QED
    BY <2>1, <2>2, <1>2, <1>1, <1>d
<1>3. \A t \in Types : stats'[t].errors = {}
  BY <1>s DEF ClearedInv
<1>4. vmErrors' = {} /\ phase' \in {"fetch", "store"}
  BY DEF Leave, ForgetAccount
<1> QED
  BY <1>2, <1>3, <1>4 DEF ClearedInv, ErrorsAreCleared

\* What a steady sync records clears the errors of the VMs it synced.
LEMMA StoreClears == IInv /\ TurnInv /\ ClearedInv /\ Store => ErrorsAreCleared'
<1> SUFFICES ASSUME IInv, TurnInv, ClearedInv, Store, clean' > 0, NEW a \in Accounts, LastOfType(a)
             PROVE  VmsOf(a)' \cap dbErrors' = {}
  BY DEF ErrorsAreCleared, LastOfType
<1>1. steady /\ phase = "store"
  BY DEF Store
<1>2. PICK i \in DOMAIN Providers :
         /\ Providers[i] = a
         /\ \A j \in DOMAIN Providers : j > i => TypeOf[Providers[j]] # TypeOf[a]
  BY DEF LastOfType
<1>3. Done(i) /\ LatestOfType(i)
  BY <1>1, <1>2 DEF Done, LatestOfType
<1>4. VmsOf(a) \subseteq stats[TypeOf[a]].synced /\ TypeOf[a] \in Types
  BY <1>1, <1>2, <1>3, ProvidersAssumption DEF ClearedInv
<1>5. Errors = {} /\ VmsOf(a) \subseteq Synced
  BY <1>1, <1>4 DEF ClearedInv, Errors, Synced
<1>6. VmsOf(a)' = VmsOf(a) /\ \E known \in SUBSET Names : dbErrors' = UpdateVmSyncErrors(known)
  BY DEF Store, VmsOf
<1> QED
  BY <1>5, <1>6 DEF UpdateVmSyncErrors

LEMMA ClearedStep == IInv /\ TurnInv /\ ClearedInv /\ [Next]_vars => ClearedInv'
<1> SUFFICES ASSUME IInv, TurnInv, ClearedInv, [Next]_vars PROVE ClearedInv'
  OBVIOUS
<1>t. AccountInv /\ steady \in BOOLEAN
  BY DEF IInv, TypeOK
<1>s. /\ steady' => world' = world
      /\ Works => steady' = steady
      /\ Fails => ~steady' /\ clean' = 0
      /\ \A bad : Outcome(bad) /\ steady' => bad = {} /\ steady
  BY NothingFails DEF Works, Fails, Outcome
<1>c. (clean > 0 => steady)'
  BY CleanStep
<1>0. CASE ~steady'
  BY <1>0, <1>c DEF ClearedInv, ErrorsAreCleared
<1>i. CASE /\ steady' /\ steady
           /\ phase \notin {"idle", "store"} /\ phase' \notin {"idle", "store"}
           /\ UNCHANGED <<turn, stats, vmErrors>>
           /\ phase' \in {"vms", "moves"} => Listed' \ left' \subseteq synced'
  <2>1. \A i \in DOMAIN Providers : /\ Done(i)' <=> Done(i)
                                    /\ VmsOf(Providers[i])' = VmsOf(Providers[i])
    BY <1>i, <1>s DEF Done, VmsOf
  <2>2. \A i \in DOMAIN Providers : LatestOfType(i)' <=> LatestOfType(i)
    BY <2>1 DEF LatestOfType
  <2> QED
    BY <1>i, <2>1, <2>2 DEF ClearedInv, ErrorsAreCleared
<1>1. CASE Begin
  <2>1. \A i \in DOMAIN Providers : ~Done(i)'
    BY <1>1, ProvidersAssumption DEF Begin, Done
  <2>2. vmErrors = {} /\ vmErrors' = vmErrors
    BY <1>1, <1>t DEF Begin, AccountInv, account
  <2> QED
    BY <1>1, <2>1, <2>2 DEF Begin, Nothing, ClearedInv, ErrorsAreCleared
<1>2. CASE Fetch \/ EnsureTag \/ Infrastructure \/ Load
  <2>1. /\ phase \notin {"idle", "store"}
        /\ phase' \notin {"idle", "store", "vms", "moves"}
        /\ UNCHANGED <<turn, stats, vmErrors>>
    BY <1>2 DEF Fetch, EnsureTag, Infrastructure, CleanInfrastructure, EnsureClusters,
                EnsurePrefixes, Load, Go, account
  <2>2. steady' => steady
    BY <1>2, <1>s DEF Fetch, EnsureTag, Infrastructure, CleanInfrastructure, EnsureClusters,
                      EnsurePrefixes, Load, Outcome
  <2> QED
    BY <1>i, <1>0, <2>1, <2>2
<1>3. CASE FetchPart \/ TagFails \/ ProviderFails \/ Crash
  BY <1>3, <1>0, <1>s DEF FetchPart, TagFails, ProviderFails, Crash
<1>4. CASE NoVmsListed
  <2>1. steady' => steady /\ VmsOf(cur) = {}
    BY <1>4, <1>s, AllIsListed DEF NoVmsListed
  <2> QED
    BY <1>4, <1>0, <2>1, <1>s, LeaveKeepsSynced DEF NoVmsListed, Nothing
<1>5. CASE DeleteOrphans
  <2>1. Listed' \ left' \subseteq synced'
    BY <1>5 DEF DeleteOrphans, TurnInv, account, Listed
  <2>2. steady' => steady
    BY <1>5, <1>s DEF DeleteOrphans
  <2> QED
    BY <1>5, <1>i, <1>0, <2>1, <2>2 DEF DeleteOrphans, Go, account
<1>6. CASE EndVms
  <2>1. steady' => steady /\ Listed' \ left' \subseteq synced'
    BY <1>6, <1>s DEF EndVms, ClearedInv, account, Listed
  <2> QED
    BY <1>6, <1>i, <1>0, <2>1 DEF EndVms, Go, account
<1>7. CASE MoveVms
  <2>1. steady' => /\ steady
                   /\ vmErrors = {}
                   /\ VmsOf(cur) \subseteq synced
    BY <1>7, <1>s, AllIsListed DEF MoveVms, ClearedInv, TurnInv
  <2> QED
    BY <1>7, <1>0, <2>1, <1>s, LeaveKeepsSynced DEF MoveVms
<1>8. ASSUME NEW n \in Names, UpdateVm(n) \/ CreateVm(n) PROVE ClearedInv'
  <2>1. steady' => /\ steady
                   /\ UNCHANGED <<turn, stats, vmErrors>>
                   /\ phase = "vms" /\ phase' = "vms"
                   /\ Listed' \ left' \subseteq synced'
    BY <1>8, <1>s DEF UpdateVm, CreateVm, ClearedInv, Listed
  <2> QED
    BY <1>i, <1>0, <2>1
<1>9. ASSUME NEW n \in Names, UpdateVmFails(n) \/ CreateVmFails(n) PROVE ClearedInv'
  BY <1>9, <1>0, <1>s DEF UpdateVmFails, CreateVmFails
<1>10. CASE Store
  <2>1. phase' = "idle"
    BY <1>10 DEF Store
  <2> QED
    BY <1>10, <2>1, StoreClears DEF ClearedInv
<1>11. CASE WorldChanges
  BY <1>11, <1>0 DEF WorldChanges
<1>12. CASE UNCHANGED vars
  BY <1>12 DEF vars, account, ClearedInv, ErrorsAreCleared, Done, LatestOfType, VmsOf, Listed
<1> QED
  BY <1>1, <1>2, <1>3, <1>4, <1>5, <1>6, <1>7, <1>8, <1>9, <1>10, <1>11, <1>12 DEF Next, SyncVms

-----------------------------------------------------------------------------
(* Steps of a steady sync *)

\* Which account owns a folder.
LEMMA Owners ==
    IInv => /\ \A b \in Accounts : \A n \in VmsOf(b) :
                  /\ world.vms[b][n] \in world.folders[b] /\ world.vms[b][n] \in Own(b)
                  /\ world.vms[b][n] \in Folders /\ world.vms[b][n] # NoFolder
            /\ \A a \in Accounts : \A x \in Folders : CloudOf[x] \in CloudsOf(a) => x \in Own(a)
            /\ \A a \in Accounts : world.folders[a] \subseteq Own(a)
            /\ \A a, b \in Accounts : \A x \in Own(a) : x \in Own(b) => a = b
  BY WorldsAssumption, FoldersAssumption DEF IInv, VmsOf, Own, In, CloudsOf

\* An account is through if it was before, or after the last step of its turn.
LEMMA DoneStep ==
    ASSUME IInv, [Next]_vars, steady', phase' # "idle",
           NEW i \in DOMAIN Providers, Done(i)'
    PROVE  /\ steady /\ phase # "idle"
           /\ Done(i) \/ (i = turn /\ (NoVmsListed \/ MoveVms))
<1>t. RunTypes
  BY Parts DEF IInv
<1>d. turn \in DOMAIN Providers /\ DOMAIN Providers = 1..Len(Providers) /\ Len(Providers) \in Nat
  BY <1>t, ProvidersAssumption DEF RunTypes
<1>1. ~Begin
  BY <1>d DEF Begin, Done
<1>2. steady
  BY <1>1, NothingFails
  DEF Next, vars, Works, Outcome, Fetch, FetchPart, EnsureTag, TagFails, ProviderFails,
      Infrastructure, CleanInfrastructure, EnsureClusters, EnsurePrefixes, SyncVms,
      NoVmsListed, Load, DeleteOrphans, EndVms, MoveVms, UpdateVm, UpdateVmFails,
      CreateVm, CreateVmFails, Store, Crash, WorldChanges
<1>3. CASE NoVmsListed \/ MoveVms
  <2>1. Done(i) \/ i = turn
    BY <1>3, <1>d DEF NoVmsListed, MoveVms, Leave, Done
  <2> QED
    BY <1>2, <1>3, <2>1 DEF NoVmsListed, MoveVms
<1>4. CASE ProviderFails \/ Crash \/ FetchPart \/ TagFails
  BY <1>4, NothingFails DEF ProviderFails, Crash, FetchPart, TagFails
<1>5. CASE Store
  BY <1>5 DEF Store
<1>6. CASE UNCHANGED <<phase, turn>>
  BY <1>2, <1>6 DEF Done
<1>7. CASE phase \notin {"idle", "store"} /\ phase' # "store" /\ UNCHANGED turn
  BY <1>2, <1>7 DEF Done
<1>8. CASE Fetch \/ EnsureTag \/ Infrastructure \/ Load \/ DeleteOrphans \/ EndVms
  BY <1>7, <1>8 DEF Fetch, EnsureTag, Infrastructure, CleanInfrastructure, EnsureClusters,
                    EnsurePrefixes, Load, DeleteOrphans, EndVms, Go
<1> QED
  BY <1>1, <1>3, <1>4, <1>5, <1>6, <1>8
  DEF Next, SyncVms, UpdateVm, UpdateVmFails, CreateVm, CreateVmFails, WorldChanges, vars

\* Steady syncs are counted when they are recorded.
LEMMA CleanGrows ==
    IInv /\ [Next]_vars => /\ clean' > 0 /\ ~(clean > 0) => Store /\ steady
                           /\ clean' > 1 /\ ~(clean > 1) => Store /\ steady /\ clean > 0
<1> SUFFICES ASSUME IInv, [Next]_vars
             PROVE  /\ clean' > 0 /\ ~(clean > 0) => Store /\ steady
                    /\ clean' > 1 /\ ~(clean > 1) => Store /\ steady /\ clean > 0
  OBVIOUS
<1>1. CASE clean' = clean \/ clean' = 0
  BY <1>1
<1>2. CASE Store
  <2>1. clean \in 0..2
    BY DEF IInv, TypeOK, MaxClean
  <2> QED
    BY <1>2, <2>1 DEF Store, MaxClean
<1> QED
  BY <1>1, <1>2
  DEF Next, vars, Works, Fails, Outcome, Begin, Fetch, FetchPart, EnsureTag, TagFails,
      ProviderFails, Infrastructure, CleanInfrastructure, EnsureClusters, EnsurePrefixes,
      SyncVms, NoVmsListed, Load, DeleteOrphans, EndVms, MoveVms, UpdateVm,
      UpdateVmFails, CreateVm, CreateVmFails, Crash, WorldChanges

\* The steps of a steady sync that change VMs in NetBox.
LEMMA NetBoxChanges ==
    ASSUME IInv, TurnInv, [Next]_vars, steady'
    PROVE  \/ UNCHANGED nb
           \/ steady /\ DeleteOrphans
           \/ steady /\ \E m \in Names : CreateVm(m)
           \/ /\ steady /\ MoveVms
              /\ nb' = [n \in Names |-> IF n \in moves
                                        THEN [nb[n] EXCEPT !.cluster = listing.vms[n]]
                                        ELSE nb[n]]
<1>s. /\ Works => steady' = steady
      /\ Fails => ~steady'
      /\ \A bad : Outcome(bad) /\ steady' => bad = {} /\ steady
  BY NothingFails DEF Works, Outcome
<1>1. CASE DeleteOrphans
  BY <1>1, <1>s DEF DeleteOrphans
<1>2. ASSUME NEW m \in Names, CreateVm(m) PROVE steady
  BY <1>2, <1>s DEF CreateVm
<1>3. CASE MoveVms
  <2>1. PICK bad \in SUBSET moves :
           /\ Outcome(bad)
           /\ nb' = [n \in Names |-> IF n \in moves \ bad
                                     THEN [nb[n] EXCEPT !.cluster = listing.vms[n]]
                                     ELSE nb[n]]
    BY <1>3 DEF MoveVms
  <2>2. bad = {} /\ steady
    BY <2>1, <1>s
  <2>3. moves \ bad = moves
    BY <2>2
  <2> QED
    BY <1>3, <2>1, <2>2, <2>3, Zenon
<1> QED
  BY <1>1, <1>2, <1>3
  DEF Next, vars, netbox, Begin, Fetch, FetchPart, EnsureTag, TagFails, ProviderFails,
      Infrastructure, CleanInfrastructure, EnsureClusters, EnsurePrefixes, SyncVms,
      NoVmsListed, Load, EndVms, UpdateVm, UpdateVmFails, CreateVmFails, Store, Crash,
      WorldChanges

-----------------------------------------------------------------------------
(* VMs are mirrored *)

\* VM n is in the cluster of one of its folders.
Mirrored(n) == \E b \in Holders(n) : nb[n].cluster = world.vms[b][n]

\* In a steady sync the VMs of an account that is through are mirrored, and
\* those of the account in turn that are processed are, or are to be moved.
MirrorInv ==
    /\ steady /\ phase # "idle" =>
          /\ \A i \in DOMAIN Providers : Done(i) => \A n \in VmsOf(Providers[i]) : Mirrored(n)
          /\ phase \in {"vms", "moves"} => \A n \in Listed \ left : n \in moves \/ Mirrored(n)
    /\ VmsAreMirrored

\* A VM of the account in turn that is in the cluster of its folder is mirrored.
LEMMA InPlace ==
    ASSUME IInv, TurnInv, steady, phase \in {"vms", "moves"}, world' = world,
           NEW n \in Listed, nb'[n].cluster = listing.vms[n]
    PROVE  Mirrored(n)'
<1>1. cur \in Accounts
  BY InTurn DEF IInv, TypeOK
<1>2. n \in VmsOf(cur) /\ listing.vms = world.vms[cur]
  BY AllIsListed
<1>3. cur \in Holders(n)' /\ nb'[n].cluster = world'.vms[cur][n]
  BY <1>1, <1>2 DEF Holders, VmsOf
<1> QED
  BY <1>3 DEF Mirrored

\* What is moved is in place.
LEMMA MovedVm ==
    ASSUME IInv, NEW n \in moves,
           nb' = [m \in Names |-> IF m \in moves
                                  THEN [nb[m] EXCEPT !.cluster = listing.vms[m]]
                                  ELSE nb[m]]
    PROVE  nb'[n].cluster = listing.vms[n]
<1>1. n \in Names /\ nb[n] \in [tag : Tags, cluster : Folders \cup {NoFolder}]
  BY DEF IInv, TypeOK, MovesInv, InNetBox
<1>2. nb'[n] = [nb[n] EXCEPT !.cluster = listing.vms[n]]
  BY <1>1
<1> QED
  BY <1>1, <1>2

\* A mirrored VM stays so as long as nothing fails and nothing changes: it is
\* the orphan of no account, and is moved only to another of its folders.
LEMMA MirrorStays ==
    ASSUME IInv, TurnInv, [Next]_vars, steady', NEW n \in Names, Mirrored(n)
    PROVE  Mirrored(n)'
<1>w. world' = world
  BY NothingFails
<1>b. PICK b \in Holders(n) : nb[n].cluster = world.vms[b][n]
  BY DEF Mirrored
<1>h. b \in Accounts /\ n \in VmsOf(b)
  BY <1>b DEF Holders
<1>c. nb[n].cluster \in Own(b) /\ nb[n].cluster # NoFolder
  BY <1>b, <1>h, Owners
<1>n. n \in InNetBox
  BY <1>c DEF InNetBox, NoVm
<1>0. CASE nb'[n] = nb[n]
  BY <1>0, <1>w, <1>b DEF Mirrored, Holders, VmsOf
<1>1. CASE steady /\ DeleteOrphans
  <2>1. ASSUME nb'[n] = NoVm PROVE FALSE
    <3>1. nb[n].cluster \in Own(cur) /\ seen[n] = NoFolder
      BY <2>1, <1>n, DeletedVm DEF OnlyOwnVmsGo
    <3>2. cur \in Accounts
      BY InTurn DEF IInv, TypeOK
    <3>3. b = cur
      BY <3>1, <3>2, <1>c, <1>h, Owners
    <3>4. listing.vms = world.vms[cur] /\ listing.vms = seen
      BY <1>1, AllIsListed DEF DeleteOrphans, IInv, ListingInv
    <3> QED
      BY <3>1, <3>3, <3>4, <1>h DEF VmsOf, In
  <2>2. nb'[n] = nb[n] \/ nb'[n] = NoVm
    BY <1>1, <1>n DEF DeleteOrphans, InNetBox
  <2> QED
    BY <2>1, <2>2, <1>0
<1>2. ASSUME NEW m \in Names, CreateVm(m) PROVE Mirrored(n)'
  <2>1. nb'[n] = nb[n]
    BY <1>2, <1>n DEF CreateVm, InNetBox, IInv, TypeOK
  <2> QED
    BY <2>1, <1>0
<1>3. CASE /\ steady /\ MoveVms
           /\ nb' = [m \in Names |-> IF m \in moves
                                     THEN [nb[m] EXCEPT !.cluster = listing.vms[m]]
                                     ELSE nb[m]]
  <2>1. CASE n \in moves
    <3>1. nb'[n].cluster = listing.vms[n]
      BY <2>1, <1>3, MovedVm
    <3>2. n \in Listed /\ phase = "moves"
      BY <2>1, <1>3 DEF IInv, TypeOK, MoveVms
    <3> QED
      BY <3>1, <3>2, <1>3, <1>w, InPlace
  <2>2. CASE n \notin moves
    BY <2>2, <1>3, <1>0
  <2> QED
    BY <2>1, <2>2
<1> QED
  BY <1>0, <1>1, <1>2, <1>3, NetBoxChanges

LEMMA VmsStayMirrored ==
    IInv /\ TurnInv /\ MirrorInv /\ [Next]_vars => VmsAreMirrored'
<1> SUFFICES ASSUME IInv, TurnInv, MirrorInv, [Next]_vars, clean' > 0,
                    NEW a \in Accounts, NEW n \in VmsOf(a)'
             PROVE  Mirrored(n)'
  BY DEF VmsAreMirrored, Mirrored
<1>1. steady' /\ world' = world
  BY CleanStep, NothingFails
<1>2. n \in VmsOf(a) /\ n \in Names
  BY <1>1 DEF VmsOf, In
<1>3. CASE clean > 0
  BY <1>1, <1>2, <1>3, MirrorStays DEF MirrorInv, VmsAreMirrored, Mirrored
<1>4. CASE ~(clean > 0)
  <2>1. Store /\ steady
    BY <1>4, CleanGrows
  <2>2. PICK i \in DOMAIN Providers : Providers[i] = a
    BY DEF Accounts
  <2>3. Mirrored(n)
    BY <2>1, <2>2, <1>2 DEF MirrorInv, Store, Done
  <2> QED
    BY <1>1, <1>2, <2>3, MirrorStays
<1> QED
  BY <1>3, <1>4

LEMMA MirrorStep == IInv /\ TurnInv /\ MirrorInv /\ [Next]_vars => MirrorInv'
<1> SUFFICES ASSUME IInv, TurnInv, MirrorInv, [Next]_vars, steady', phase' # "idle"
             PROVE  /\ \A i \in DOMAIN Providers :
                          Done(i)' => \A n \in VmsOf(Providers[i])' : Mirrored(n)'
                    /\ phase' \in {"vms", "moves"} =>
                          \A n \in Listed' \ left' : n \in moves' \/ Mirrored(n)'
  BY VmsStayMirrored DEF MirrorInv
<1>w. world' = world
  BY NothingFails
<1>t. turn \in DOMAIN Providers /\ Listed \subseteq Names
  BY ListedNames DEF IInv, TypeOK
<1>1. ASSUME NEW i \in DOMAIN Providers, Done(i)', NEW n \in VmsOf(Providers[i])'
      PROVE  Mirrored(n)'
  <2>1. n \in VmsOf(Providers[i]) /\ n \in Names
    BY <1>1, <1>w DEF VmsOf, In
  <2>2. steady /\ phase # "idle"
    BY <1>1, DoneStep
  <2>3. CASE Done(i)
    BY <2>1, <2>2, <2>3, MirrorStays DEF MirrorInv
  <2>4. CASE i = turn /\ NoVmsListed
    BY <2>1, <2>2, <2>4, AllIsListed DEF NoVmsListed, cur
  <2>5. CASE i = turn /\ MoveVms
    <3>1. n \in Listed \ left /\ phase = "moves"
      BY <2>1, <2>2, <2>5, AllIsListed DEF MoveVms, cur, TurnInv
    <3>2. CASE n \in moves
      <4>1. nb'[n].cluster = listing.vms[n]
        <5>1. PICK bad : Outcome(bad) /\ nb' = [m \in Names |-> IF m \in moves \ bad
                                    THEN [nb[m] EXCEPT !.cluster = listing.vms[m]]
                                    ELSE nb[m]]
          BY <2>5 DEF MoveVms
        <5>2. moves \ bad = moves
          BY <5>1, NothingFails
        <5>3. nb' = [m \in Names |-> IF m \in moves
                                    THEN [nb[m] EXCEPT !.cluster = listing.vms[m]]
                                    ELSE nb[m]]
          BY <5>1, <5>2, Zenon
        <5> QED
          BY <5>3, <3>2, MovedVm
      <4> QED
        BY <4>1, <3>1, <2>2, <1>w, InPlace
    <3>3. CASE n \notin moves
      BY <3>1, <3>3, <2>1, <2>2, MirrorStays DEF MirrorInv
    <3> QED
      BY <3>2, <3>3
  <2> QED
    BY <1>1, <2>3, <2>4, <2>5, DoneStep
<1>i. ASSUME steady, phase \in {"vms", "moves"}, moves \subseteq moves', UNCHANGED <<listing, left>>
      PROVE  \A n \in Listed' \ left' : n \in moves' \/ Mirrored(n)'
  BY <1>i, <1>t, MirrorStays DEF MirrorInv, Listed
<1>2. ASSUME phase' \in {"vms", "moves"}, NEW n \in Listed' \ left'
      PROVE  n \in moves' \/ Mirrored(n)'
  <2>1. CASE DeleteOrphans
    BY <2>1, <1>2 DEF DeleteOrphans, TurnInv, account, Listed
  <2>2. CASE EndVms
    BY <2>2, <1>2, <1>i, NothingFails DEF EndVms, account, Works
  <2>3. ASSUME NEW m \in Names, UpdateVm(m) \/ CreateVm(m) PROVE n \in moves' \/ Mirrored(n)'
    <3>1. /\ steady /\ phase = "vms" /\ UNCHANGED listing /\ left' = left \ {m}
          /\ moves \subseteq moves' /\ m \in Listed
      BY <2>3, NothingFails DEF UpdateVm, CreateVm, Works, IInv, TypeOK
    <3>2. CASE n # m
      BY <3>1, <3>2, <1>2, <1>t, MirrorStays DEF MirrorInv, Listed
    <3>3. CASE n = m
      <4>1. listing.vms[m] \in mapped
        BY <3>1 DEF TurnInv, IInv, ListingInv
      <4>2. UpdateVm(m) => m \in moves' \/ nb'[m].cluster = listing.vms[m]
        BY <4>1, <2>3 DEF UpdateVm, Moved, netbox
      <4>3. CreateVm(m) => nb'[m].cluster = listing.vms[m]
        BY <2>3 DEF CreateVm, IInv, TypeOK
      <4> QED
        BY <4>2, <4>3, <3>1, <3>3, <2>3, <1>w, InPlace
    <3> QED
      BY <3>2, <3>3
  <2>4. ASSUME NEW m \in Names, UpdateVmFails(m) \/ CreateVmFails(m) PROVE FALSE
    BY <2>4, NothingFails DEF UpdateVmFails, CreateVmFails
  <2>5. CASE UNCHANGED vars
    BY <2>5, <1>2, <1>i DEF vars, account
  <2> QED
    BY <1>2, <2>1, <2>2, <2>3, <2>4, <2>5
    DEF Next, Begin, Fetch, FetchPart, EnsureTag, TagFails, ProviderFails, Infrastructure,
        CleanInfrastructure, EnsureClusters, EnsurePrefixes, SyncVms, NoVmsListed, Load,
        MoveVms, Leave, Store, Crash, WorldChanges, Go
<1> QED
  BY <1>1, <1>2

-----------------------------------------------------------------------------
(* Orphans are gone *)

\* No VM that nobody has is left in the clusters of account a, if a has others.
NoOrphans(a) ==
    \A n \in InNetBox :
        /\ VmsOf(a) # {}
        /\ nb[n].tag = TypeOf[a]
        /\ nb[n].cluster # NoFolder /\ CloudOf[nb[n].cluster] \in CloudsOf(a)
        => Holders(n) # {}

OrphanInv ==
    /\ steady /\ phase # "idle" =>
          /\ \A i \in DOMAIN Providers : Done(i) => NoOrphans(Providers[i])
          /\ phase \in {"vms", "moves"} => NoOrphans(cur)
    /\ OrphansAreGone

\* A step of a steady sync makes no orphan: VMs are created and moved only
\* for an account that has them.
LEMMA OrphansStayGone ==
    ASSUME IInv, TurnInv, [Next]_vars, steady', NEW a \in Accounts, NoOrphans(a)
    PROVE  NoOrphans(a)'
<1>w. world' = world
  BY NothingFails
<1>t. cur \in Accounts
  BY InTurn DEF IInv, TypeOK
<1>h. \A n : Holders(n)' = Holders(n) /\ VmsOf(a)' = VmsOf(a) /\ CloudsOf(a)' = CloudsOf(a)
  BY <1>w DEF Holders, VmsOf, CloudsOf
<1>0. ASSUME NEW n \in InNetBox', (n \in InNetBox /\ nb'[n] = nb[n]) \/ Holders(n) # {},
             VmsOf(a)' # {}, nb'[n].tag = TypeOf[a],
             nb'[n].cluster # NoFolder, CloudOf[nb'[n].cluster] \in CloudsOf(a)'
      PROVE  Holders(n)' # {}
  BY <1>0, <1>h DEF NoOrphans
<1>1. ASSUME steady, phase \in {"vms", "moves"}, NEW n \in Listed PROVE Holders(n) # {}
  BY <1>1, <1>t, AllIsListed DEF Holders
<1>2. ASSUME NEW n \in InNetBox' PROVE (n \in InNetBox /\ nb'[n] = nb[n]) \/ Holders(n) # {}
  <2>1. CASE UNCHANGED nb
    BY <2>1, <1>2 DEF InNetBox
  <2>2. CASE DeleteOrphans
    BY <2>2, <1>2 DEF DeleteOrphans, InNetBox
  <2>3. ASSUME NEW m \in Names, CreateVm(m), steady
        PROVE  (n \in InNetBox /\ nb'[n] = nb[n]) \/ Holders(n) # {}
    <3>1. CASE n = m
      BY <2>3, <3>1, <1>1 DEF CreateVm, IInv, TypeOK
    <3>2. CASE n # m
      BY <2>3, <3>2, <1>2 DEF CreateVm, InNetBox, IInv, TypeOK
    <3> QED
      BY <3>1, <3>2
  <2>4. CASE /\ steady /\ MoveVms
             /\ nb' = [m \in Names |-> IF m \in moves
                                       THEN [nb[m] EXCEPT !.cluster = listing.vms[m]]
                                       ELSE nb[m]]
    <3>1. CASE n \in moves
      BY <3>1, <2>4, <1>1 DEF MoveVms, IInv, TypeOK
    <3>2. CASE n \notin moves
      BY <3>2, <2>4, <1>2 DEF InNetBox
    <3> QED
      BY <3>1, <3>2
  <2> QED
    BY <2>1, <2>2, <2>3, <2>4, NetBoxChanges
<1> QED
  BY <1>0, <1>2 DEF NoOrphans

\* The clean-up of an account leaves it no orphans.
LEMMA OrphansGo ==
    ASSUME IInv, TurnInv, steady, steady', DeleteOrphans
    PROVE  NoOrphans(cur)'
<1>1. /\ phase = "orphans" /\ listing.whole /\ type \in tags
      /\ Listed = VmsOf(cur) /\ CloudNames = CloudsOf(cur)
  BY AllIsListed DEF DeleteOrphans, TurnInv
<1>2. nb' = [n \in Names |-> IF n \in Orphans THEN NoVm ELSE nb[n]]
  <2>1. PICK known \in BOOLEAN :
           /\ TagKnown(known)
           /\ IF listing.whole /\ known
              THEN \E bad \in SUBSET Orphans :
                   /\ Outcome(bad)
                   /\ nb' = [n \in Names |-> IF n \in Orphans \ bad THEN NoVm ELSE nb[n]]
              ELSE Works /\ UNCHANGED nb
    BY DEF DeleteOrphans
  <2>2. known
    BY <2>1, <1>1 DEF TagKnown
  <2>3. PICK bad \in SUBSET Orphans :
           /\ Outcome(bad)
           /\ nb' = [n \in Names |-> IF n \in Orphans \ bad THEN NoVm ELSE nb[n]]
    BY <2>1, <2>2, <1>1
  <2>4. bad = {}
    BY <2>3, NothingFails
  <2>5. Orphans \ bad = Orphans
    BY <2>4
  <2> QED
    BY <2>3, <2>5, Zenon
<1>3. /\ world' = world /\ cur' = cur
      /\ VmsOf(cur)' = VmsOf(cur) /\ CloudsOf(cur)' = CloudsOf(cur)
      /\ \A n : Holders(n)' = Holders(n)
  BY DEF DeleteOrphans, Go, cur, VmsOf, CloudsOf, Holders
<1>4. cur \in Accounts
  BY InTurn DEF IInv, TypeOK
<1> SUFFICES ASSUME NEW n \in InNetBox',
                    nb'[n].tag = TypeOf[cur'], nb'[n].cluster # NoFolder,
                    CloudOf[nb'[n].cluster] \in CloudsOf(cur)'
             PROVE  Holders(n)' # {}
  BY DEF NoOrphans
<1>5. n \in Names /\ nb'[n] # NoVm
  BY <1>2 DEF InNetBox
<1>6. n \notin Orphans /\ nb'[n] = nb[n]
  BY <1>2, <1>5
<1>7. n \in Listed
  BY <1>1, <1>3, <1>5, <1>6 DEF Orphans, InScope, InNetBox, type
<1> QED
  BY <1>1, <1>3, <1>4, <1>7 DEF Holders

LEMMA OrphanStep == IInv /\ TurnInv /\ OrphanInv /\ [Next]_vars => OrphanInv'
<1> SUFFICES ASSUME IInv, TurnInv, OrphanInv, [Next]_vars, steady' PROVE OrphanInv'
  BY CleanStep DEF OrphanInv, OrphansAreGone
<1>w. world' = world
  BY NothingFails
<1>t. cur \in Accounts /\ \A i \in DOMAIN Providers : Providers[i] \in Accounts
  BY InTurn DEF IInv, TypeOK, Accounts
<1>1. ASSUME phase' # "idle", NEW i \in DOMAIN Providers, Done(i)'
      PROVE  NoOrphans(Providers[i])'
  <2>1. steady /\ phase # "idle"
    BY <1>1, DoneStep
  <2>2. CASE Done(i)
    BY <2>1, <2>2, <1>t, OrphansStayGone DEF OrphanInv
  <2>3. CASE i = turn /\ NoVmsListed
    <3>1. VmsOf(Providers[i])' = {}
      BY <2>1, <2>3, <1>w, AllIsListed DEF NoVmsListed, cur, VmsOf
    <3> QED
      BY <3>1 DEF NoOrphans
  <2>4. CASE i = turn /\ MoveVms
    <3>1. NoOrphans(Providers[i])
      BY <2>1, <2>4 DEF MoveVms, OrphanInv, cur
    <3> QED
      BY <3>1, <1>t, OrphansStayGone
  <2> QED
    BY <1>1, <2>2, <2>3, <2>4, DoneStep
<1>2. ASSUME phase' \in {"vms", "moves"} PROVE NoOrphans(cur)'
  <2>i. CASE steady /\ phase \in {"vms", "moves"} /\ UNCHANGED turn
    <3>1. PICK a \in Accounts : a = cur
      BY <1>t
    <3>2. NoOrphans(a)'
      BY <2>i, <3>1, OrphansStayGone DEF OrphanInv
    <3>3. cur' = a
      BY <2>i, <3>1 DEF cur
    <3> QED
      BY <3>2, <3>3
  <2>1. CASE DeleteOrphans
    <3>1. steady
      BY <2>1, NothingFails DEF DeleteOrphans, Works
    <3> QED
      BY <2>1, <3>1, OrphansGo
  <2>2. CASE EndVms
    BY <2>2, <2>i DEF EndVms, Go, Works
  <2>3. ASSUME NEW m \in Names, UpdateVm(m) \/ CreateVm(m) \/ UpdateVmFails(m) \/ CreateVmFails(m)
        PROVE  NoOrphans(cur)'
    BY <2>3, <2>i, NothingFails DEF UpdateVm, CreateVm, UpdateVmFails, CreateVmFails, Works
  <2>4. CASE UNCHANGED vars
    BY <2>4, <1>2, <2>i DEF vars
  <2> QED
    BY <1>2, <2>1, <2>2, <2>3, <2>4
    DEF Next, Begin, Fetch, FetchPart, EnsureTag, TagFails, ProviderFails, Infrastructure,
        CleanInfrastructure, EnsureClusters, EnsurePrefixes, SyncVms, NoVmsListed, Load,
        MoveVms, Leave, Store, Crash, WorldChanges, Go
<1>3. OrphansAreGone'
  <2> SUFFICES ASSUME clean' > 0, NEW a \in Accounts PROVE NoOrphans(a)'
    BY DEF OrphansAreGone, NoOrphans
  <2>1. NoOrphans(a)
    <3>1. CASE clean > 0
      BY <3>1 DEF OrphanInv, OrphansAreGone, NoOrphans
    <3>2. CASE ~(clean > 0)
      <4>1. Store /\ steady
        BY <3>2, CleanGrows
      <4>2. PICK i \in DOMAIN Providers : Providers[i] = a
        BY DEF Accounts
      <4> QED
        BY <4>1, <4>2 DEF OrphanInv, Store, Done
    <3> QED
      BY <3>1, <3>2
  <2> QED
    BY <2>1, OrphansStayGone
<1> QED
  BY <1>1, <1>2, <1>3 DEF OrphanInv

-----------------------------------------------------------------------------
(* Stale clusters go *)

\* Each cluster of a folder that account a does not have any more has VMs.
NoStale(a) ==
    \A x \in Folders :
        /\ clusters[x] = TypeOf[a]
        /\ CloudOf[x] \in CloudsOf(a)
        => x \in world.folders[a] \/ \E n \in Names : nb[n].cluster = x

\* This holds of an account from its clean-up on in any steady sync after the first.
StaleInv ==
    /\ clean > 0 /\ phase # "idle" =>
          /\ \A i \in DOMAIN Providers : Done(i) => NoStale(Providers[i])
          /\ phase \in {"clusters", "prefixes", "load", "orphans", "vms", "moves"} => NoStale(cur)
    /\ StaleClustersGo

\* What is in a stale cluster after a steady sync is nobody's: nothing moves or
\* deletes it in the next.
LEMMA StaleVmsStay ==
    ASSUME IInv, TurnInv, MirrorInv, OrphanInv, [Next]_vars, clean > 0, steady',
           NEW a \in Accounts, NEW x \in Folders, CloudOf[x] \in CloudsOf(a),
           x \notin world.folders[a], NEW n \in Names, nb[n].cluster = x
    PROVE  nb'[n].cluster = x
<1>t. cur \in Accounts
  BY InTurn DEF IInv, TypeOK
<1>x. x \in Own(a) /\ x # NoFolder
  BY Owners, FoldersAssumption
<1>n. n \in InNetBox
  BY <1>x DEF InNetBox, NoVm
<1>1. Holders(n) = {}
  <2>1. ASSUME NEW b \in Holders(n) PROVE FALSE
    <3>1. b \in Accounts /\ n \in VmsOf(b)
      BY <2>1 DEF Holders
    <3>2. PICK c \in Holders(n) : x = world.vms[c][n]
      BY <3>1 DEF MirrorInv, VmsAreMirrored
    <3>3. c \in Accounts /\ n \in VmsOf(c)
      BY <3>2 DEF Holders
    <3>4. x \in Own(c) /\ x \in world.folders[c]
      BY <3>2, <3>3, Owners
    <3>5. a = c
      BY <3>3, <3>4, <1>x, Owners
    <3> QED
      BY <3>4, <3>5
  <2> QED
    BY <2>1
<1>2. CASE nb'[n] = nb[n]
  BY <1>2
<1>3. CASE steady /\ DeleteOrphans
  <2>1. phase = "orphans" /\ Listed # {} /\ Listed = VmsOf(cur)
    BY <1>3, AllIsListed DEF DeleteOrphans, IInv, ListingInv
  <2>2. CloudNames = CloudsOf(cur) /\ CloudNames # {}
    <3>1. PICK m \in Listed : listing.vms[m] \in listing.folders
      BY <2>1 DEF IInv, ListingInv
    <3> QED
      BY <3>1, <2>1, <1>3, AllIsListed DEF CloudNames
  <2>3. n \notin Orphans
    <3>1. SUFFICES ASSUME n \in Orphans PROVE FALSE
      OBVIOUS
    <3>2. nb[n].tag = TypeOf[cur] /\ nb[n].cluster # NoFolder /\ CloudOf[nb[n].cluster] \in CloudsOf(cur)
      BY <3>1, <2>2 DEF Orphans, InScope, type
    <3> QED
      BY <3>2, <2>1, <1>1, <1>n, <1>t DEF OrphanInv, OrphansAreGone
  <2> QED
    BY <1>2, <1>3, <2>3 DEF DeleteOrphans
<1>4. ASSUME NEW m \in Names, CreateVm(m) PROVE nb'[n].cluster = x
  BY <1>4, <1>n, <1>2 DEF CreateVm, InNetBox, IInv, TypeOK
<1>5. CASE /\ steady /\ MoveVms
           /\ nb' = [m \in Names |-> IF m \in moves
                                     THEN [nb[m] EXCEPT !.cluster = listing.vms[m]]
                                     ELSE nb[m]]
  <2>1. n \notin moves
    <3>1. ASSUME n \in moves PROVE FALSE
      <4>1. n \in Listed /\ Listed = VmsOf(cur)
        BY <3>1, <1>5, AllIsListed DEF MoveVms, IInv, TypeOK
      <4> QED
        BY <4>1, <1>1, <1>t DEF Holders
    <3> QED
      BY <3>1
  <2> QED
    BY <1>2, <1>5, <2>1
<1> QED
  BY <1>2, <1>3, <1>4, <1>5, NetBoxChanges

\* Clusters are ensured only of folders that exist.
LEMMA ClusterChanges ==
    ASSUME IInv, TurnInv, [Next]_vars, steady', NEW a \in Accounts,
           NEW x \in Folders, clusters'[x] = TypeOf[a],
           CloudOf[x] \in CloudsOf(a), x \notin world.folders[a]
    PROVE  clusters[x] = TypeOf[a]
<1>t. cur \in Accounts /\ TypeOf[a] # "absent"
  BY InTurn, ProvidersAssumption DEF IInv, TypeOK, Types
<1>x. x \in Own(a)
  BY Owners
<1>1. CASE clusters' = clusters
  BY <1>1
<1>2. CASE CleanInfrastructure
  BY <1>2, <1>t DEF CleanInfrastructure
<1>3. CASE EnsureClusters
  <2>1. steady /\ listing.folders = world.folders[cur]
    BY <1>3, NothingFails, AllIsListed DEF EnsureClusters
  <2>2. x \notin listing.folders
    BY <2>1, <1>x, <1>t, Owners
  <2> QED
    BY <1>3, <2>2 DEF EnsureClusters
<1>4. ASSUME NEW n \in Names, CreateVm(n) PROVE clusters' = clusters
  <2>1. steady /\ phase = "vms" /\ n \in Listed
    BY <1>4, NothingFails DEF CreateVm, Works, IInv, TypeOK
  <2>2. listing.vms[n] \in mapped
    BY <2>1 DEF TurnInv, IInv, ListingInv
  <2> QED
    BY <1>4, <2>2 DEF CreateVm
<1>5. ASSUME NEW n \in Names, CreateVmFails(n) PROVE FALSE
  BY <1>5, NothingFails DEF CreateVmFails
<1> QED
  BY <1>1, <1>2, <1>3, <1>4, <1>5
  DEF Next, vars, netbox, Begin, Fetch, FetchPart, EnsureTag, TagFails, ProviderFails,
      Infrastructure, EnsurePrefixes, SyncVms, NoVmsListed, Load, DeleteOrphans, EndVms,
      MoveVms, UpdateVm, UpdateVmFails, Store, Crash, WorldChanges

LEMMA StaleStaysGone ==
    ASSUME IInv, TurnInv, MirrorInv, OrphanInv, [Next]_vars, clean > 0, steady',
           NEW a \in Accounts, NoStale(a)
    PROVE  NoStale(a)'
<1>w. world' = world /\ CloudsOf(a)' = CloudsOf(a)
  BY NothingFails DEF CloudsOf
<1> SUFFICES ASSUME NEW x \in Folders, clusters'[x] = TypeOf[a], CloudOf[x] \in CloudsOf(a),
                    x \notin world.folders[a]
             PROVE  \E n \in Names : nb'[n].cluster = x
  BY <1>w DEF NoStale
<1>1. clusters[x] = TypeOf[a]
  BY ClusterChanges
<1>2. PICK n \in Names : nb[n].cluster = x
  BY <1>1 DEF NoStale
<1>3. nb'[n].cluster = x
  BY <1>2, StaleVmsStay
<1> QED
  BY <1>3

\* The clean-up of an account leaves it no stale cluster without VMs.
LEMMA StaleGoes ==
    ASSUME IInv, TurnInv, steady, steady', CleanInfrastructure
    PROVE  NoStale(cur)'
<1>1. /\ phase = "cleanup" /\ listing.whole /\ type \in tags
      /\ listing.folders = world.folders[cur] /\ CloudNames = CloudsOf(cur)
  BY AllIsListed DEF CleanInfrastructure, TurnInv
<1>2. clusters' = [x \in Folders |-> IF x \in Deletable THEN "absent" ELSE clusters[x]]
  <2>1. PICK known \in BOOLEAN :
           /\ TagKnown(known)
           /\ IF listing.whole /\ known
              THEN \E badC \in SUBSET Deletable, badP \in SUBSET OrphanPrefixes :
                   /\ Outcome(badC \cup badP)
                   /\ clusters' = [x \in Folders |-> IF x \in Deletable \ badC
                                                     THEN "absent" ELSE clusters[x]]
              ELSE TRUE
    BY DEF CleanInfrastructure
  <2>2. known
    BY <2>1, <1>1 DEF TagKnown
  <2>3. PICK badC \in SUBSET Deletable, badP \in SUBSET OrphanPrefixes :
           /\ Outcome(badC \cup badP)
           /\ clusters' = [x \in Folders |-> IF x \in Deletable \ badC
                                             THEN "absent" ELSE clusters[x]]
    BY <2>1, <2>2, <1>1
  <2>4. badC \cup badP = {}
    BY <2>3, NothingFails
  <2>5. Deletable \ badC = Deletable
    BY <2>4
  <2> QED
    BY <2>3, <2>5, Zenon
<1>3. /\ world' = world /\ cur' = cur /\ nb' = nb /\ CloudsOf(cur)' = CloudsOf(cur)
  BY DEF CleanInfrastructure, Go, cur, CloudsOf
<1>4. type \in Types /\ type = TypeOf[cur]
  BY InTurn DEF IInv, TypeOK, type
<1> SUFFICES ASSUME NEW x \in Folders, clusters'[x] = type, CloudOf[x] \in CloudsOf(cur),
                    x \notin world.folders[cur]
             PROVE  \E n \in Names : nb[n].cluster = x
  BY <1>3, <1>4 DEF NoStale
<1>5. x \notin Deletable /\ clusters[x] = type
  BY <1>2, <1>4 DEF Types
<1>6. x \in OrphanClusters
  BY <1>1, <1>5 DEF OrphanClusters, InScope
<1> QED
  BY <1>5, <1>6 DEF Deletable

LEMMA StaleStep ==
    IInv /\ TurnInv /\ MirrorInv /\ OrphanInv /\ StaleInv /\ [Next]_vars => StaleInv'
<1> SUFFICES ASSUME IInv, TurnInv, MirrorInv, OrphanInv, StaleInv, [Next]_vars PROVE StaleInv'
  OBVIOUS
<1>c. clean' \in 0..2
  BY TypeStep DEF TypeOK, MaxClean
<1> SUFFICES ASSUME clean' > 0 PROVE StaleInv'
  BY <1>c DEF StaleInv, StaleClustersGo
<1>w. steady' /\ world' = world
  BY CleanStep, NothingFails
<1>t. cur \in Accounts /\ \A i \in DOMAIN Providers : Providers[i] \in Accounts
  BY InTurn DEF IInv, TypeOK, Accounts
<1>1. ASSUME phase' # "idle" PROVE clean > 0
  BY <1>1, CleanGrows DEF Store
<1>2. ASSUME phase' # "idle", NEW i \in DOMAIN Providers, Done(i)'
      PROVE  NoStale(Providers[i])'
  <2>1. clean > 0 /\ phase # "idle" /\ (Done(i) \/ (i = turn /\ phase \in {"load", "moves"}))
    BY <1>1, <1>2, <1>w, DoneStep DEF NoVmsListed, MoveVms
  <2>2. NoStale(Providers[i])
    BY <2>1 DEF StaleInv, cur
  <2> QED
    BY <2>1, <2>2, <1>t, <1>w, StaleStaysGone
<1>3. ASSUME phase' \in {"clusters", "prefixes", "load", "orphans", "vms", "moves"}
      PROVE  NoStale(cur)'
  <2>0. clean > 0
    BY <1>1, <1>3
  <2>i. CASE /\ phase \in {"clusters", "prefixes", "load", "orphans", "vms", "moves"}
             /\ UNCHANGED turn
    <3>1. PICK a \in Accounts : a = cur
      BY <1>t
    <3>2. NoStale(a)'
      BY <2>0, <2>i, <3>1, <1>w, StaleStaysGone DEF StaleInv
    <3>3. cur' = a
      BY <2>i, <3>1 DEF cur
    <3> QED
      BY <3>2, <3>3
  <2>1. CASE CleanInfrastructure
    BY <2>0, <2>1, <1>w, StaleGoes DEF TurnInv
  <2>2. CASE EnsureClusters \/ EnsurePrefixes \/ Load \/ DeleteOrphans \/ EndVms
    BY <2>2, <2>i DEF EnsureClusters, EnsurePrefixes, Load, DeleteOrphans, EndVms, Go
  <2>3. ASSUME NEW m \in Names, UpdateVm(m) \/ CreateVm(m) \/ UpdateVmFails(m) \/ CreateVmFails(m)
        PROVE  NoStale(cur)'
    BY <2>3, <2>i DEF UpdateVm, CreateVm, UpdateVmFails, CreateVmFails
  <2>4. CASE UNCHANGED vars
    BY <2>4, <1>3, <2>i DEF vars
  <2> QED
    BY <1>3, <2>1, <2>2, <2>3, <2>4
    DEF Next, Begin, Fetch, FetchPart, EnsureTag, TagFails, ProviderFails, Infrastructure,
        SyncVms, NoVmsListed, MoveVms, Leave, Store, Crash, WorldChanges, Go
<1>4. StaleClustersGo'
  <2> SUFFICES ASSUME clean' > 1, NEW a \in Accounts PROVE NoStale(a)'
    BY DEF StaleClustersGo, NoStale
  <2>1. clean > 0 /\ NoStale(a)
    <3>1. CASE clean > 1
      <4>1. clean \in 0..2
        BY DEF IInv, TypeOK, MaxClean
      <4> QED
        BY <3>1, <4>1 DEF StaleInv, StaleClustersGo, NoStale
    <3>2. CASE ~(clean > 1)
      <4>1. Store /\ clean > 0
        BY <3>2, CleanGrows
      <4>2. PICK i \in DOMAIN Providers : Providers[i] = a
        BY DEF Accounts
      <4> QED
        BY <4>1, <4>2 DEF StaleInv, Store, Done
    <3> QED
      BY <3>1, <3>2
  <2> QED
    BY <2>1, <1>w, StaleStaysGone
<1> QED
  BY <1>2, <1>3, <1>4 DEF StaleInv

-----------------------------------------------------------------------------
(* The theorems of steady syncs *)

SteadyInv == TurnInv /\ ClearedInv /\ MirrorInv /\ OrphanInv /\ StaleInv

LEMMA SteadyInvariant == Spec => []SteadyInv
<1>1. Init => SteadyInv
  BY DEF Init, NoAccount, SteadyInv, TurnInv, ClearedInv, MirrorInv, OrphanInv, StaleInv,
         ErrorsAreCleared, VmsAreMirrored, OrphansAreGone, StaleClustersGo
<1>2. IInv /\ SteadyInv /\ [Next]_vars => SteadyInv'
  BY TurnStep, ClearedStep, MirrorStep, OrphanStep, StaleStep DEF SteadyInv
<1> QED
  BY Invariant, <1>1, <1>2, PTL DEF Spec

\* However long something failed or changed before, one sync in which nothing
\* does leaves each VM in the cluster of one of its folders, and further such
\* syncs keep it there: for any accounts, clouds, folders and VMs.
THEOREM SteadySyncsMirror == Spec => []VmsAreMirrored
  BY SteadyInvariant, PTL DEF SteadyInv, MirrorInv

\* It also leaves no orphan in the clouds of an account that has VMs.
THEOREM SteadySyncsDeleteOrphans == Spec => []OrphansAreGone
  BY SteadyInvariant, PTL DEF SteadyInv, OrphanInv

\* Two such syncs leave no empty cluster of a folder that is gone: what is left
\* in a stale cluster after the first is no orphan and nobody's to be moved.
THEOREM SteadySyncsDropClusters == Spec => []StaleClustersGo
  BY SteadyInvariant, PTL DEF SteadyInv, StaleInv

\* And what it records clears the errors of all VMs of the last account of
\* each type, whatever failed for them before.
THEOREM SteadySyncsClearErrors == Spec => []ErrorsAreCleared
  BY SteadyInvariant, PTL DEF SteadyInv, ClearedInv

=============================================================================
