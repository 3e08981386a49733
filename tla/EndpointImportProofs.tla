------------------------ MODULE EndpointImportProofs ------------------------
(***************************************************************************)
(* Proofs about the endpoint import for every set of groups, profiles and  *)
(* endpoints, every bundle and every bound on edits, faults and runs.      *)
(*                                                                         *)
(* References by name need ResolvedByName: an id in groupIDByName or       *)
(* profileIDByName is the id of an object of that name, which stays true   *)
(* when the target changes after the listing because an id is never given  *)
(* to another object.                                                      *)
(*                                                                         *)
(* The result of an import is followed along the passes.  PassInv divides  *)
(* the bundle into what was skipped, what was tried and what is left;      *)
(* MissingInv says where an object that did not arrive was counted;        *)
(* CleanInv says that an import that begins when everything is there finds *)
(* nothing to do.                                                          *)
(***************************************************************************)
EXTENDS EndpointImport, FiniteSetTheorems, TLAPS

ImportInv == TargetTypeOK /\ MapsTypeOK /\ ResolvedByName /\ ReferencesByName

(* stubsByName maps a name to NoId or to the id of a live object of that   *)
(* name.                                                                   *)
LEMMA StubsByNameCorrect ==
  ASSUME NEW kind, NEW names, NEW n \in names, live \subseteq DOMAIN objs
  PROVE  LET id == StubsByName(kind, names)[n] IN
         /\ id \in {NoId} \cup live
         /\ id # NoId => objs[id] = [kind |-> kind, name |-> n]
<1> DEFINE S == Named(kind, n)
<1>1. CASE S = {}
  BY <1>1 DEF StubsByName
<1>2. CASE S # {}
  <2>1. (CHOOSE i \in S : TRUE) \in S
    BY <1>2
  <2>2. StubsByName(kind, names)[n] \in S
    BY <1>2, <2>1 DEF StubsByName
  <2>3. QED
    BY <2>2 DEF Named
<1>3. QED
  BY <1>1, <1>2

(* The listings put ids of the right names into the maps.                  *)
LEMMA GroupListing ==
  ASSUME TargetTypeOK, groupIDs' = StubsByName("group", Groups)
  PROVE  /\ groupIDs' \in [Groups -> Ids]
         /\ \A g \in Groups : groupIDs'[g] # NoId
               => objs[groupIDs'[g]] = [kind |-> "group", name |-> g]
<1>1. \A g \in Groups : /\ groupIDs'[g] \in Ids
                        /\ groupIDs'[g] # NoId
                             => objs[groupIDs'[g]] = [kind |-> "group", name |-> g]
  BY StubsByNameCorrect DEF TargetTypeOK, Ids
<1>2. groupIDs' = [g \in Groups |-> groupIDs'[g]]
  BY DEF StubsByName
<1>3. QED
  BY <1>1, <1>2

(* The same for the profiler profiles.                                     *)
LEMMA ProfileListing ==
  ASSUME TargetTypeOK, profileIDs' = StubsByName("profile", Profiles)
  PROVE  /\ profileIDs' \in [Profiles -> Ids]
         /\ \A p \in Profiles : profileIDs'[p] # NoId
               => objs[profileIDs'[p]] = [kind |-> "profile", name |-> p]
<1>1. \A p \in Profiles : /\ profileIDs'[p] \in Ids
                          /\ profileIDs'[p] # NoId
                               => objs[profileIDs'[p]] = [kind |-> "profile", name |-> p]
  BY StubsByNameCorrect DEF TargetTypeOK, Ids
<1>2. profileIDs' = [p \in Profiles |-> profileIDs'[p]]
  BY DEF StubsByName
<1>3. QED
  BY <1>1, <1>2

(* The invariant depends only on the target, the maps, the bundle, todo    *)
(* and made; a new object leaves everything said about older ids alone.    *)
LEMMA MintKeepsInv ==
  ASSUME ImportInv, NEW obj \in Object,
         objs' = Append(objs, obj), live' = live \cup {Len(objs) + 1},
         todo' \subseteq todo,
         UNCHANGED <<eps, made, bundle, groupIDs, profileIDs>>
  PROVE  ImportInv'
<1>1. /\ objs' \in Seq(Object)
      /\ DOMAIN objs \subseteq DOMAIN objs'
      /\ Len(objs) + 1 \in DOMAIN objs'
      /\ \A i \in DOMAIN objs : objs'[i] = objs[i]
  BY DEF ImportInv, TargetTypeOK
<1>2. Ids \subseteq Ids'
  BY <1>1 DEF Ids
<1>3. TargetTypeOK'
  BY <1>1, <1>2 DEF ImportInv, TargetTypeOK
<1>4. MapsTypeOK'
  BY <1>2 DEF ImportInv, MapsTypeOK, Items, BundleMacs
<1>5. ResolvedByName'
  BY <1>1 DEF ImportInv, ResolvedByName, MapsTypeOK, Ids
<1>6. ReferencesByName'
  <2> SUFFICES ASSUME NEW m \in made
               PROVE  /\ m \in BundleMacs
                      /\ RefersTo(eps[m].group, "group", bundle.eps[m].group)'
                      /\ RefersTo(eps[m].profile, "profile", bundle.eps[m].profile)'
    BY DEF ReferencesByName, BundleMacs
  <2>1. eps[m].group \in Ids /\ eps[m].profile \in Ids
    BY DEF ImportInv, TargetTypeOK
  <2>2. QED
    BY <1>1, <2>1 DEF ImportInv, ReferencesByName, RefersTo, Ids
<1>7. QED
  BY <1>3, <1>4, <1>5, <1>6 DEF ImportInv

(* A step that only moves the handler, or changes nothing the invariant    *)
(* speaks of.                                                              *)
LEMMA FrameKeepsInv ==
  ASSUME ImportInv, todo' \subseteq Items,
         UNCHANGED <<objs, live, eps, made, bundle, groupIDs, profileIDs>>
  PROVE  ImportInv'
  BY DEF ImportInv, TargetTypeOK, MapsTypeOK, ResolvedByName, ReferencesByName,
         RefersTo, Ids, Items, BundleMacs

(* An endpoint added under a MAC the target did not have, or removed,      *)
(* leaves every other endpoint as it was.                                  *)
LEMMA EndpointAdded ==
  ASSUME ImportInv, NEW m \in Macs, m \notin DOMAIN eps,
         NEW ep \in [group : Ids, profile : Ids],
         eps' = Extend(eps, m, ep),
         \/ made' = made
         \/ /\ made' = made \cup {m}
            /\ m \in BundleMacs
            /\ RefersTo(ep.group, "group", bundle.eps[m].group)
            /\ RefersTo(ep.profile, "profile", bundle.eps[m].profile),
         todo' \subseteq todo,
         UNCHANGED <<objs, live, bundle, groupIDs, profileIDs>>
  PROVE  ImportInv'
<1>1. /\ DOMAIN eps' = DOMAIN eps \cup {m}
      /\ eps'[m] = ep
      /\ \A n \in DOMAIN eps : eps'[n] = eps[n]
      /\ eps' = [n \in DOMAIN eps' |-> eps'[n]]
  BY DEF Extend
<1>2. TargetTypeOK'
  BY <1>1 DEF ImportInv, TargetTypeOK, Ids
<1>3. MapsTypeOK' /\ ResolvedByName'
  BY DEF ImportInv, MapsTypeOK, ResolvedByName, Ids, Items, BundleMacs
<1>4. ReferencesByName'
  BY <1>1 DEF ImportInv, TargetTypeOK, ReferencesByName, RefersTo, BundleMacs
<1>5. QED
  BY <1>2, <1>3, <1>4 DEF ImportInv

(* What the import writes for an endpoint whose names resolve refers to    *)
(* objects of those names.                                                 *)
LEMMA WrittenRefersByName ==
  ASSUME ImportInv, NEW m \in BundleMacs,
         Resolves(bundle.eps[m].group, groupIDs), Resolves(bundle.eps[m].profile, profileIDs)
  PROVE  /\ Written(m) \in [group : Ids, profile : Ids]
         /\ RefersTo(Written(m).group, "group", bundle.eps[m].group)
         /\ RefersTo(Written(m).profile, "profile", bundle.eps[m].profile)
<1>1. bundle.eps[m] \in [group : Ref(Groups), profile : Ref(Profiles)]
  BY BundlesAssumption DEF ImportInv, MapsTypeOK, Bundle, BundleMacs
<1>2. QED
  BY <1>1 DEF ImportInv, MapsTypeOK, ResolvedByName, Written, NameToRef, Resolves,
              RefersTo, Ref, Ids

(* The invariant holds at the start: no map holds an id yet.               *)
LEMMA ImportInit == Init => ImportInv
<1> SUFFICES ASSUME Init PROVE ImportInv
  OBVIOUS
<1>1. PICK n \in 0..MaxObjs : objs \in [1..n -> Object] /\ live = 1..n
  BY DEF Init
<1>2. objs \in Seq(Object) /\ live \subseteq DOMAIN objs
  BY <1>1, BoundsAssumption
<1>3. TargetTypeOK
  BY <1>2 DEF Init, TargetTypeOK
<1>4. QED
  BY <1>3 DEF Init, ImportInv, MapsTypeOK, ResolvedByName, ReferencesByName, Ids, NoId

(* Somebody else's change to the target preserves the invariant.           *)
LEMMA AdminKeepsInv == ImportInv /\ Admin => ImportInv'
<1> SUFFICES ASSUME ImportInv, Admin PROVE ImportInv'
  OBVIOUS
<1>1. todo' = todo /\ todo' \subseteq Items
  BY DEF Admin, AdminCreates, AdminDeletes, AdminAddsEndpoint, AdminDeletesEndpoint,
         Edit, tool, ImportInv, MapsTypeOK
<1>2. ASSUME NEW g \in Groups, AdminCreates("group", g) PROVE ImportInv'
  <2>1. [kind |-> "group", name |-> g] \in Object
    BY DEF Object
  <2>2. QED
    BY <1>1, <1>2, <2>1, MintKeepsInv DEF AdminCreates, Edit, Mint, tool
<1>3. ASSUME NEW p \in Profiles, AdminCreates("profile", p) PROVE ImportInv'
  <2>1. [kind |-> "profile", name |-> p] \in Object
    BY DEF Object
  <2>2. QED
    BY <1>1, <1>3, <2>1, MintKeepsInv DEF AdminCreates, Edit, Mint, tool
<1>4. ASSUME NEW i \in live, AdminDeletes(i) PROVE ImportInv'
  BY <1>1, <1>4 DEF AdminDeletes, Edit, tool, ImportInv, TargetTypeOK, MapsTypeOK,
       ResolvedByName, ReferencesByName, RefersTo, Ids, Items, BundleMacs
<1>5. ASSUME NEW m \in Macs, AdminAddsEndpoint(m) PROVE ImportInv'
  <2>1. PICK g \in {NoId} \cup {i \in live : objs[i].kind = "group"} :
            eps' = Extend(eps, m, [group |-> g, profile |-> NoId])
    BY <1>5 DEF AdminAddsEndpoint
  <2>2. [group |-> g, profile |-> NoId] \in [group : Ids, profile : Ids]
    BY DEF Ids, ImportInv, TargetTypeOK
  <2>3. QED
    BY <1>1, <1>5, <2>1, <2>2, EndpointAdded DEF AdminAddsEndpoint, Edit, tool
<1>6. ASSUME NEW m \in Macs, AdminDeletesEndpoint(m) PROVE ImportInv'
  <2>1. TargetTypeOK'
    BY <1>6 DEF AdminDeletesEndpoint, ImportInv, TargetTypeOK, Ids
  <2>2. MapsTypeOK' /\ ResolvedByName'
    BY <1>1, <1>6 DEF AdminDeletesEndpoint, Edit, tool, ImportInv, MapsTypeOK,
                      ResolvedByName, Ids, Items, BundleMacs
  <2>3. ReferencesByName'
    BY <1>6 DEF AdminDeletesEndpoint, Edit, ImportInv, TargetTypeOK, ReferencesByName,
                RefersTo, BundleMacs
  <2>4. QED
    BY <2>1, <2>2, <2>3 DEF ImportInv
<1>7. QED
  BY <1>2, <1>3, <1>4, <1>5, <1>6 DEF Admin

(* Every step of a handler preserves the invariant.                        *)
LEMMA HandlerKeepsInv == ImportInv /\ Handler => ImportInv'
<1> SUFFICES ASSUME ImportInv, Handler PROVE ImportInv'
  OBVIOUS
<1>0. todo \subseteq Items /\ TargetTypeOK
  BY DEF ImportInv, MapsTypeOK
<1>1. CASE ListGroups \/ RereadGroups
  BY <1>0, <1>1, GroupListing
     DEF ListGroups, RereadGroups, ToolOnly, target, ImportInv, TargetTypeOK, MapsTypeOK,
         ResolvedByName, ReferencesByName, RefersTo, Ids, Items, BundleMacs
<1>2. CASE ListProfiles \/ RereadProfiles
  <2>1. todo' \subseteq Items
    BY <1>0, <1>2 DEF ListProfiles, RereadProfiles, EndpointsToCreate, Items
  <2>2. QED
    BY <1>0, <1>2, <2>1, ProfileListing
       DEF ListProfiles, RereadProfiles, ToolOnly, target, ImportInv, TargetTypeOK,
           MapsTypeOK, ResolvedByName, ReferencesByName, RefersTo, Ids, Items, BundleMacs
<1>3. CASE ListMacs \/ ListingFails \/ RereadFails \/ Finish
  BY <1>0, <1>3, FrameKeepsInv
     DEF ListMacs, ListingFails, RereadFails, Finish, ToolOnly, target
<1>4. CASE Report
  <2>1. todo' \subseteq Items
    BY <1>0, <1>4 DEF Report
  <2>2. QED
    BY <1>4, <2>1, FrameKeepsInv DEF Report, ToolOnly, target
<1>5. CASE GroupPassDone \/ EndpointPassDone
  BY <1>0, <1>5, FrameKeepsInv DEF GroupPassDone, EndpointPassDone, Writing, target
<1>6. ASSUME NEW g \in Groups, CreateGroup(g) PROVE ImportInv'
  <2>1. todo' \subseteq todo /\ UNCHANGED <<eps, made, bundle, groupIDs, profileIDs>>
    BY <1>6 DEF CreateGroup, Writing
  <2>2. CASE Mint("group", g)
    <3>1. [kind |-> "group", name |-> g] \in Object
      BY DEF Object
    <3>2. QED
      BY <2>1, <2>2, <3>1, MintKeepsInv DEF Mint
  <2>3. CASE UNCHANGED <<objs, live>>
    BY <1>0, <2>1, <2>3, FrameKeepsInv
  <2>4. QED
    BY <1>6, <2>2, <2>3 DEF CreateGroup
<1>7. ASSUME NEW m \in Macs, CreateEndpoint(m) PROVE ImportInv'
  <2>1. /\ todo' \subseteq todo
        /\ UNCHANGED <<objs, live, bundle, groupIDs, profileIDs>>
    BY <1>7 DEF CreateEndpoint, Writing
  <2>2. CASE UNCHANGED <<eps, made>>
    BY <1>0, <2>1, <2>2, FrameKeepsInv
  <2>3. CASE /\ Resolves(bundle.eps[m].group, groupIDs)
             /\ Resolves(bundle.eps[m].profile, profileIDs)
             /\ m \notin DOMAIN eps
             /\ eps' = Extend(eps, m, Written(m))
             /\ made' = made \cup {m}
    <3>1. m \in BundleMacs
      BY <1>0, <1>7, BundlesAssumption, NoNameAssumption, DistinctAssumption
         DEF CreateEndpoint, Items, ImportInv, MapsTypeOK, Bundle, Ref
    <3>2. /\ Written(m) \in [group : Ids, profile : Ids]
          /\ RefersTo(Written(m).group, "group", bundle.eps[m].group)
          /\ RefersTo(Written(m).profile, "profile", bundle.eps[m].profile)
      BY <2>3, <3>1, WrittenRefersByName
    <3>3. QED
      BY <2>1, <2>3, <3>1, <3>2, EndpointAdded
  <2>4. QED
    BY <1>7, <2>2, <2>3 DEF CreateEndpoint
<1>8. QED
  BY <1>1, <1>2, <1>3, <1>4, <1>5, <1>6, <1>7 DEF Handler

(* No step at all disturbs the invariant.                                  *)
LEMMA ImportStep == ImportInv /\ [Next]_vars => ImportInv'
<1> SUFFICES ASSUME ImportInv, [Next]_vars PROVE ImportInv'
  OBVIOUS
<1>1. CASE Handler
  BY <1>1, HandlerKeepsInv
<1>2. CASE Admin
  BY <1>2, AdminKeepsInv
<1>3. CASE RequestPreflight \/ ConfirmImport
  BY <1>3, FrameKeepsInv DEF RequestPreflight, ConfirmImport, Start, target
<1>4. CASE UNCHANGED vars
  BY <1>4, FrameKeepsInv DEF vars, target, tool, history, ImportInv, MapsTypeOK
<1>5. QED
  BY <1>1, <1>2, <1>3, <1>4 DEF Next

(* The references the import writes are by name: for every bundle, every   *)
(* target and every interleaving with other changes to the target, what it *)
(* created refers to the group and the profile of the bundle's names.      *)
THEOREM ImportReferencesByName == Spec => []ReferencesByName
<1>1. ImportInv => ReferencesByName
  BY DEF ImportInv
<1>2. QED
  BY <1>1, ImportInit, ImportStep, PTL DEF Spec

-----------------------------------------------------------------------------
(* Types.  The target's part is ImportInv's; the handlers' part follows    *)
(* each request from Start to its end.                                     *)

ToolTypeOK ==
  /\ mode \in {"preflight", "apply"}
  /\ phase \in Phases
  /\ existing \subseteq Macs
  /\ DOMAIN verdict \in {{}, Items}
  /\ res \in [created : Nat, skipped : Nat, blocked : Nat, failed : Nat]

(* What a bundle holds: finitely many groups and endpoints, and no MAC     *)
(* that is also a group's name.                                            *)
LEMMA BundleFacts ==
  ASSUME bundle \in Bundles
  PROVE  /\ bundle.groups \subseteq Ref(Groups) /\ BundleMacs \subseteq Macs \cup {NoMac}
         /\ bundle.groups \cap BundleMacs = {}
         /\ IsFiniteSet(Items)
<1>1. bundle.groups \subseteq Ref(Groups) /\ BundleMacs \subseteq Macs \cup {NoMac}
  BY BundlesAssumption DEF Bundle, BundleMacs
<1>2. IsFiniteSet(Ref(Groups) \cup (Macs \cup {NoMac}))
  BY FiniteAssumption, FS_AddElement, FS_Union DEF Ref
<1>3. Items \subseteq Ref(Groups) \cup (Macs \cup {NoMac})
  BY <1>1 DEF Items
<1>4. QED
  BY <1>1, <1>2, <1>3, FS_Subset, NoNameAssumption, DistinctAssumption DEF Ref

(* Any part of the bundle is finite, so its size is a number.              *)
LEMMA ItemsCount ==
  ASSUME bundle \in Bundles, NEW S, S \subseteq Items
  PROVE  IsFiniteSet(S) /\ Cardinality(S) \in Nat
BY BundleFacts, FS_Subset, FS_CardinalityType

LEMMA ToolTypeInit == Init => ToolTypeOK
BY DEF Init, ToolTypeOK, Phases, ZeroResult

LEMMA CountedType ==
  ASSUME ToolTypeOK, NEW f \in {"created", "skipped", "failed"}, Counted(f)
  PROVE  res' \in [created : Nat, skipped : Nat, blocked : Nat, failed : Nat]
BY DEF ToolTypeOK, Counted

LEMMA ToolTypeStep == ImportInv /\ ToolTypeOK /\ [Next]_vars => ToolTypeOK'
<1> SUFFICES ASSUME ImportInv, ToolTypeOK, [Next]_vars PROVE ToolTypeOK'
  OBVIOUS
<1> USE DEF ToolTypeOK
<1>0. bundle \in Bundles
  BY DEF ImportInv, MapsTypeOK
<1>1. CASE ListGroups \/ ListProfiles \/ ListingFails \/ RereadGroups
             \/ RereadProfiles \/ RereadFails
  BY <1>1 DEF ListGroups, ListProfiles, ListingFails, RereadGroups, RereadProfiles,
              RereadFails, ToolOnly, Phases, Items, BundleMacs
<1>2. CASE ListMacs
  BY <1>2 DEF ListMacs, ToolOnly, target, Phases, Items, BundleMacs, ImportInv, TargetTypeOK
<1>3. CASE Report
  <2>1. Count("skip") \in Nat /\ Count("blocked") \in Nat
    BY <1>0, ItemsCount DEF Count
  <2>2. DOMAIN verdict' = Items'
    BY <1>3 DEF Report, Verdicts, ToolOnly, Items, BundleMacs
  <2>3. res' \in [created : Nat, skipped : Nat, blocked : Nat, failed : Nat]
    <3>1. CASE UNCHANGED res
      BY <3>1
    <3>2. CASE res' = [ZeroResult EXCEPT !.skipped = Count("skip"), !.blocked = Count("blocked")]
      BY <2>1, <3>2 DEF ZeroResult
    <3>3. QED
      BY <1>3, <3>1, <3>2 DEF Report
  <2>4. QED
    BY <1>3, <2>2, <2>3 DEF Report, ToolOnly, Phases
<1>4. ASSUME NEW g \in Groups, CreateGroup(g) PROVE ToolTypeOK'
  BY <1>4, CountedType DEF CreateGroup, Writing, Items, BundleMacs
<1>5. ASSUME NEW m \in Macs, CreateEndpoint(m) PROVE ToolTypeOK'
  BY <1>5, CountedType DEF CreateEndpoint, Writing, Items, BundleMacs
<1>6. CASE GroupPassDone \/ EndpointPassDone
  BY <1>6 DEF GroupPassDone, EndpointPassDone, Writing, Phases, Items, BundleMacs
<1>7. CASE Finish
  <2>1. Reported("skip") \in Nat /\ Reported("blocked") \in Nat
    BY <1>0, ItemsCount DEF Reported
  <2>2. Total \in [created : Nat, skipped : Nat, blocked : Nat, failed : Nat]
    <3>1. res.skipped + Reported("skip") \in Nat
      BY <2>1
    <3>2. QED
      BY <2>1, <3>1 DEF Total
  <2>3. QED
    BY <1>7, <2>2 DEF Finish, ToolOnly, Phases, Items, BundleMacs
<1>8. CASE RequestPreflight \/ ConfirmImport
  BY <1>8 DEF RequestPreflight, ConfirmImport, Start, ZeroResult, Phases, Items, BundleMacs
<1>9. CASE Admin
  BY <1>9 DEF Admin, AdminCreates, AdminDeletes, AdminAddsEndpoint, AdminDeletesEndpoint,
              Edit, tool, Items, BundleMacs
<1>10. CASE UNCHANGED vars
  BY <1>10 DEF vars, tool, Items, BundleMacs
<1>11. QED
  BY <1>1, <1>2, <1>3, <1>4, <1>5, <1>6, <1>7, <1>8, <1>9, <1>10 DEF Next, Handler

(* Every variable of the import stays in its range.                        *)
THEOREM ImportTypeOK == Spec => []TypeOK
<1>1. ImportInv /\ ToolTypeOK => TypeOK
  BY DEF ImportInv, ToolTypeOK, TypeOK
<1>2. QED
  BY <1>1, ImportInit, ImportStep, ToolTypeInit, ToolTypeStep, PTL DEF Spec

-----------------------------------------------------------------------------
(* The account of an import: PassInv and the counts it ends with.          *)

CountInv == PassInv /\ CountsAddUp

(* Every object gets one of the three verdicts.                            *)
LEMMA VerdictsType ==
  /\ DOMAIN Verdicts = Items
  /\ \A x \in Items : Verdicts[x] \in Outcomes
BY DEF Verdicts, GroupVerdict, EndpointVerdict, Outcomes

(* The sizes of two disjoint finite sets add up.                           *)
LEMMA DisjointUnion ==
  ASSUME NEW A, NEW B, IsFiniteSet(A), IsFiniteSet(B), A \cap B = {}
  PROVE  /\ IsFiniteSet(A \cup B)
         /\ Cardinality(A) \in Nat /\ Cardinality(B) \in Nat
         /\ Cardinality(A \cup B) = Cardinality(A) + Cardinality(B)
<1>1. Cardinality(A) \in Nat /\ Cardinality(B) \in Nat
  BY FS_CardinalityType
<1>2. Cardinality(A \cap B) = 0
  BY FS_EmptySet
<1>3. /\ IsFiniteSet(A \cup B)
      /\ Cardinality(A \cup B) = Cardinality(A) + Cardinality(B) - Cardinality(A \cap B)
  BY FS_Union
<1>4. QED
  BY <1>1, <1>2, <1>3

(* Two finite sets together have at most the sum of their sizes.           *)
LEMMA UnionBound ==
  ASSUME NEW A, NEW B, IsFiniteSet(A), IsFiniteSet(B)
  PROVE  /\ IsFiniteSet(A \cup B)
         /\ Cardinality(A \cup B) \in Nat
         /\ Cardinality(A \cup B) <= Cardinality(A) + Cardinality(B)
<1>1. /\ IsFiniteSet(A \cup B)
      /\ Cardinality(A \cup B) = Cardinality(A) + Cardinality(B) - Cardinality(A \cap B)
  BY FS_Union
<1>2. Cardinality(A) \in Nat /\ Cardinality(B) \in Nat /\ Cardinality(A \cap B) \in Nat
  BY FS_CardinalityType, FS_Subset
<1>3. QED
  BY <1>1, <1>2, FS_CardinalityType

(* Three verdicts split a finite set into three parts.                     *)
LEMMA VerdictsPartition ==
  ASSUME NEW S, IsFiniteSet(S), NEW f, \A x \in S : f[x] \in Outcomes,
         NEW Created, Created = {x \in S : f[x] = "create"},
         NEW Skipped, Skipped = {x \in S : f[x] = "skip"},
         NEW Blocked, Blocked = {x \in S : f[x] = "blocked"}
  PROVE  /\ Cardinality(Created) \in Nat /\ Cardinality(Skipped) \in Nat
         /\ Cardinality(Blocked) \in Nat
         /\ Cardinality(Created) + Cardinality(Skipped) + Cardinality(Blocked) = Cardinality(S)
<1>1. IsFiniteSet(Created) /\ IsFiniteSet(Skipped) /\ IsFiniteSet(Blocked)
  BY FS_Subset
<1>2. /\ Created \cap Skipped = {}
      /\ (Created \cup Skipped) \cap Blocked = {}
      /\ (Created \cup Skipped) \cup Blocked = S
  BY DEF Outcomes
<1>3. /\ IsFiniteSet(Created \cup Skipped)
      /\ Cardinality(Created) \in Nat /\ Cardinality(Skipped) \in Nat
      /\ Cardinality(Created \cup Skipped) = Cardinality(Created) + Cardinality(Skipped)
  BY <1>1, <1>2, DisjointUnion
<1>4. /\ Cardinality(Blocked) \in Nat
      /\ Cardinality((Created \cup Skipped) \cup Blocked)
           = Cardinality(Created \cup Skipped) + Cardinality(Blocked)
  BY <1>1, <1>2, <1>3, DisjointUnion
<1>5. QED
  BY <1>2, <1>3, <1>4

(* An attempt takes one announced object off what is left.                 *)
LEMMA GroupAttempt ==
  ASSUME ImportInv, NEW g \in Groups, CreateGroup(g)
  PROVE  g \in Left /\ Left' = Left \ {g}
<1>1. EndpointsToCreate' = EndpointsToCreate /\ g \notin EndpointsToCreate
  BY BundleFacts, DistinctAssumption, NoNameAssumption
     DEF ImportInv, MapsTypeOK, CreateGroup, Writing, EndpointsToCreate, BundleMacs, Ref
<1>2. QED
  BY <1>1 DEF CreateGroup, Left

LEMMA EndpointAttempt ==
  ASSUME NEW m \in Macs, CreateEndpoint(m)
  PROVE  m \in Left /\ Left' = Left \ {m}
BY DEF CreateEndpoint, Left

(* One attempt, one count.                                                 *)
LEMMA AttemptKeepsCount ==
  ASSUME ImportInv, ToolTypeOK, CountInv, phase \in {"groups", "endpoints"},
         UNCHANGED <<phase, mode, verdict, bundle>>,
         NEW x \in Left, Left' = Left \ {x},
         NEW f \in {"created", "skipped", "failed"}, Counted(f)
  PROVE  CountInv'
<1>1. Applying /\ Applying' /\ ~Preparing'
  BY DEF Applying, Preparing
<1>2. /\ mode = "apply" /\ DOMAIN verdict = Items /\ res.blocked = 0
      /\ Left \subseteq Creates /\ Tried + Cardinality(Left) = Cardinality(Creates)
  BY <1>1 DEF CountInv, PassInv
<1>3. Tried' = Tried + 1 /\ res'.blocked = res.blocked /\ Tried \in Nat
  BY DEF Counted, ToolTypeOK, Tried
<1>4. Cardinality(Left') = Cardinality(Left) - 1 /\ Cardinality(Left) \in Nat
  <2>1. Left \subseteq Items /\ bundle \in Bundles
    BY <1>2 DEF Creates, ImportInv, MapsTypeOK
  <2>2. QED
    BY <2>1, ItemsCount, FS_RemoveElement
<1>5. Creates' = Creates /\ Items' = Items
  BY DEF Creates, Items, BundleMacs
<1>6. Tried' + Cardinality(Left') = Cardinality(Creates')
  BY <1>2, <1>3, <1>4, <1>5
<1>7. QED
  BY <1>1, <1>2, <1>3, <1>5, <1>6 DEF CountInv, PassInv, CountsAddUp

(* A step that leaves the verdicts, what is left and the counts alone.     *)
LEMMA FrameKeepsCount ==
  ASSUME CountInv, UNCHANGED <<mode, verdict, bundle, res>>,
         Left' = Left,
         Preparing' => Preparing, Applying' => Applying,
         phase' # "shown" \/ phase = "shown",
         phase' # "done" \/ phase = "done"
  PROVE  CountInv'
<1>1. Creates' = Creates /\ Items' = Items /\ Tried' = Tried
  BY DEF Creates, Items, BundleMacs, Tried
<1>2. PassInv'
  BY <1>1 DEF CountInv, PassInv
<1>3. CountsAddUp'
  BY <1>1 DEF CountInv, CountsAddUp
<1>4. QED
  BY <1>2, <1>3 DEF CountInv

LEMMA CountInit == Init => CountInv
BY DEF Init, CountInv, PassInv, CountsAddUp, Preparing, Applying

LEMMA ReportKeepsCount ==
  ASSUME ImportInv, CountInv, Report
  PROVE  CountInv'
<1>0. bundle \in Bundles /\ bundle' = bundle /\ Items' = Items /\ res = ZeroResult
  BY DEF ImportInv, MapsTypeOK, Report, ToolOnly, Items, BundleMacs, CountInv, PassInv, Preparing
<1>1. DOMAIN verdict' = Items' /\ \A x \in DOMAIN verdict' : verdict'[x] \in Outcomes
  BY <1>0, VerdictsType DEF Report
<1>2. CASE phase' = "shown"
  BY <1>1, <1>2 DEF CountInv, PassInv, CountsAddUp, Preparing, Applying
<1>3. CASE phase' = "done"
  <2>1. /\ res' = [ZeroResult EXCEPT !.skipped = Count("skip"), !.blocked = Count("blocked")]
        /\ Count("create") = 0
    BY <1>3 DEF Report
  <2>2. /\ Count("skip") \in Nat /\ Count("blocked") \in Nat
        /\ Count("create") + Count("skip") + Count("blocked") = Cardinality(Items)
    <3>1. PICK f : f = Verdicts
      OBVIOUS
    <3>2. IsFiniteSet(Items) /\ \A x \in Items : f[x] \in Outcomes
      BY <1>0, <3>1, BundleFacts, VerdictsType
    <3> DEFINE S(v) == {x \in Items : f[x] = v}
    <3>3. /\ Cardinality(S("create")) \in Nat /\ Cardinality(S("skip")) \in Nat
          /\ Cardinality(S("blocked")) \in Nat
          /\ Cardinality(S("create")) + Cardinality(S("skip")) + Cardinality(S("blocked"))
               = Cardinality(Items)
      BY <3>2, VerdictsPartition
    <3>4. QED
      BY <3>1, <3>3 DEF Count
  <2>3. CountsAddUp'
    BY <1>0, <2>1, <2>2 DEF CountsAddUp, ZeroResult
  <2>4. QED
    BY <1>1, <1>3, <2>3 DEF CountInv, PassInv, Preparing, Applying
<1>4. CASE phase' = "groups"
  <2>1. Left' = Creates'
    BY <1>0, <1>1, <1>4, VerdictsType
       DEF Report, Left, Creates, EndpointsToCreate, Items, BundleMacs, ToolOnly
  <2>2. Tried' = 0 /\ res'.blocked = 0 /\ mode' = "apply"
    BY <1>0, <1>4 DEF Report, Tried, ZeroResult, ToolOnly
  <2>3. Cardinality(Left') \in Nat
    BY <1>0, <1>1, <2>1, ItemsCount DEF Creates
  <2>4. QED
    BY <1>1, <1>4, <2>1, <2>2, <2>3 DEF CountInv, PassInv, CountsAddUp, Preparing, Applying
<1>5. QED
  BY <1>2, <1>3, <1>4 DEF Report

LEMMA FinishKeepsCount ==
  ASSUME ImportInv, ToolTypeOK, CountInv, Finish
  PROVE  CountInv'
<1>0. bundle \in Bundles /\ bundle' = bundle /\ Items' = Items /\ verdict' = verdict
  BY DEF ImportInv, MapsTypeOK, Finish, ToolOnly, Items, BundleMacs
<1>1. /\ DOMAIN verdict = Items /\ res.blocked = 0 /\ Left = {}
      /\ Tried + Cardinality(Left) = Cardinality(Creates)
  BY DEF Finish, CountInv, PassInv, Applying, Left
<1>2. Creates = {x \in Items : verdict[x] = "create"}
  BY <1>1 DEF Creates
<1>3. /\ Reported("skip") \in Nat /\ Reported("blocked") \in Nat
      /\ Cardinality(Creates) + Reported("skip") + Reported("blocked") = Cardinality(Items)
  <2>1. IsFiniteSet(Items) /\ \A x \in Items : verdict[x] \in Outcomes
    BY <1>0, <1>1, BundleFacts DEF CountInv, PassInv
  <2>2. QED
    <3> DEFINE S(v) == {x \in Items : verdict[x] = v}
    <3>1. /\ Cardinality(S("create")) \in Nat /\ Cardinality(S("skip")) \in Nat
          /\ Cardinality(S("blocked")) \in Nat
          /\ Cardinality(S("create")) + Cardinality(S("skip")) + Cardinality(S("blocked"))
               = Cardinality(Items)
      BY <2>1, VerdictsPartition
    <3>2. QED
      BY <1>2, <3>1 DEF Reported
<1>4. Tried = Cardinality(Creates) /\ Tried \in Nat
  BY <1>1, FS_EmptySet DEF Tried, ToolTypeOK
<1>5. CountsAddUp'
  <2>1. /\ res'.created = res.created /\ res'.failed = res.failed
        /\ res'.skipped = res.skipped + Reported("skip") /\ res'.blocked = Reported("blocked")
    BY DEF Finish, Total, ToolTypeOK
  <2>2. QED
    BY <1>0, <1>3, <1>4, <2>1 DEF CountsAddUp, Tried, ToolTypeOK
<1>6. PassInv'
  BY <1>0, <1>1 DEF Finish, CountInv, PassInv, Preparing, Applying
<1>7. QED
  BY <1>5, <1>6 DEF CountInv

LEMMA CountStep == ImportInv /\ ToolTypeOK /\ CountInv /\ [Next]_vars => CountInv'
<1> SUFFICES ASSUME ImportInv, ToolTypeOK, CountInv, [Next]_vars PROVE CountInv'
  OBVIOUS
<1>1. CASE ListGroups \/ ListProfiles \/ ListMacs \/ ListingFails
  BY <1>1, FrameKeepsCount
     DEF ListGroups, ListProfiles, ListMacs, ListingFails, ToolOnly, Preparing, Applying, Left
<1>2. CASE Report
  BY <1>2, ReportKeepsCount
<1>3. ASSUME NEW g \in Groups, CreateGroup(g) PROVE CountInv'
  <2>1. g \in Left /\ Left' = Left \ {g}
    BY <1>3, GroupAttempt
  <2>2. \E f \in {"created", "skipped", "failed"} : Counted(f)
    BY <1>3 DEF CreateGroup
  <2>3. phase \in {"groups", "endpoints"} /\ UNCHANGED <<phase, mode, verdict, bundle>>
    BY <1>3 DEF CreateGroup, Writing
  <2>4. QED
    BY <2>1, <2>2, <2>3, AttemptKeepsCount
<1>4. ASSUME NEW m \in Macs, CreateEndpoint(m) PROVE CountInv'
  <2>1. m \in Left /\ Left' = Left \ {m}
    BY <1>4, EndpointAttempt
  <2>2. \E f \in {"created", "skipped", "failed"} : Counted(f)
    BY <1>4 DEF CreateEndpoint
  <2>3. phase \in {"groups", "endpoints"} /\ UNCHANGED <<phase, mode, verdict, bundle>>
    BY <1>4 DEF CreateEndpoint, Writing
  <2>4. QED
    BY <2>1, <2>2, <2>3, AttemptKeepsCount
<1>5. CASE GroupPassDone \/ EndpointPassDone
  <2>1. Left' = Left
    BY <1>5 DEF GroupPassDone, EndpointPassDone, Writing, Left, EndpointsToCreate, BundleMacs
  <2>2. QED
    BY <1>5, <2>1, FrameKeepsCount
       DEF GroupPassDone, EndpointPassDone, Writing, Preparing, Applying
<1>6. CASE RereadGroups \/ RereadProfiles
  <2>1. Left' = Left
    BY <1>6 DEF RereadGroups, RereadProfiles, ToolOnly, Left, EndpointsToCreate, BundleMacs
  <2>2. QED
    BY <1>6, <2>1, FrameKeepsCount
       DEF RereadGroups, RereadProfiles, ToolOnly, Preparing, Applying
<1>7. CASE RereadFails
  BY <1>7 DEF RereadFails, ToolOnly, CountInv, PassInv, CountsAddUp, Preparing, Applying,
              Items, BundleMacs
<1>8. CASE Finish
  BY <1>8, FinishKeepsCount
<1>9. CASE RequestPreflight \/ ConfirmImport
  BY <1>9 DEF RequestPreflight, ConfirmImport, Start, CountInv, PassInv, CountsAddUp,
              Preparing, Applying, Items, BundleMacs
<1>10. CASE Admin \/ UNCHANGED vars
  <2>1. UNCHANGED <<bundle, tool>>
    BY <1>10 DEF Admin, AdminCreates, AdminDeletes, AdminAddsEndpoint, AdminDeletesEndpoint,
                 Edit, vars
  <2>2. Left' = Left
    BY <2>1 DEF tool, Left, EndpointsToCreate, BundleMacs
  <2>3. QED
    BY <2>1, <2>2, FrameKeepsCount DEF tool, Preparing, Applying
<1>11. QED
  BY <1>1, <1>2, <1>3, <1>4, <1>5, <1>6, <1>7, <1>8, <1>9, <1>10 DEF Next, Handler

(* When an import reports its result, created, skipped, blocked and failed *)
(* account for every object of the bundle exactly once, whatever failed    *)
(* and whatever others did to the target in between.                       *)
THEOREM ImportCountsAddUp == Spec => []CountsAddUp
<1>1. CountInv => CountsAddUp
  BY DEF CountInv
<1>2. QED
  BY <1>1, ImportInit, ImportStep, ToolTypeInit, ToolTypeStep, CountInit, CountStep, PTL DEF Spec

(* A handler changes the target only after the confirmation, one object at *)
(* a time, and only an object that its own pre-flight marked as creatable: *)
(* an object that exists is never overwritten.                             *)
THEOREM ImportCreatesOnly == Spec => CreatesOnly
<1>1. ASSUME ImportInv, ToolTypeOK, CountInv, Handler
      PROVE  UNCHANGED target \/ (mode = "apply" /\ CreatesOneItem)
  <2>1. ASSUME NEW g \in Groups, CreateGroup(g)
        PROVE  UNCHANGED target \/ (mode = "apply" /\ CreatesOneItem)
    <3>1. mode = "apply" /\ g \in Creates
      BY <1>1, <2>1, GroupAttempt DEF CountInv, PassInv, Applying, CreateGroup
    <3>2. CASE Mint("group", g)
      <4>1. Len(objs') = Len(objs) + 1
        BY <1>1, <3>2 DEF Mint, ImportInv, TargetTypeOK
      <4>2. QED
        BY <2>1, <3>1, <3>2, <4>1 DEF Mint, CreatesOneItem, CreateGroup
    <3>3. CASE UNCHANGED <<objs, live>>
      BY <2>1, <3>3 DEF CreateGroup, target
    <3>4. QED
      BY <2>1, <3>2, <3>3 DEF CreateGroup
  <2>2. ASSUME NEW m \in Macs, CreateEndpoint(m)
        PROVE  UNCHANGED target \/ (mode = "apply" /\ CreatesOneItem)
    <3>1. mode = "apply" /\ m \in Creates
      BY <1>1, <2>2, EndpointAttempt DEF CountInv, PassInv, Applying, CreateEndpoint
    <3>2. CASE eps' = Extend(eps, m, Written(m)) /\ m \notin DOMAIN eps
      BY <2>2, <3>1, <3>2 DEF CreatesOneItem, CreateEndpoint, Extend
    <3>3. CASE UNCHANGED eps
      BY <2>2, <3>3 DEF CreateEndpoint, target
    <3>4. QED
      BY <2>2, <3>2, <3>3 DEF CreateEndpoint
  <2>3. CASE \/ ListGroups \/ ListProfiles \/ ListMacs \/ ListingFails \/ Report
             \/ GroupPassDone \/ RereadGroups \/ RereadProfiles \/ RereadFails
             \/ EndpointPassDone \/ Finish
    BY <2>3 DEF ListGroups, ListProfiles, ListMacs, ListingFails, Report, GroupPassDone,
                RereadGroups, RereadProfiles, RereadFails, EndpointPassDone, Finish, ToolOnly
  <2>4. QED
    BY <1>1, <2>1, <2>2, <2>3 DEF Handler
<1>2. ImportInv /\ ToolTypeOK /\ CountInv /\ [Next]_vars
        => [Handler => UNCHANGED target \/ (mode = "apply" /\ CreatesOneItem)]_vars
  BY <1>1
<1>3. QED
  BY <1>2, ImportInit, ImportStep, ToolTypeInit, ToolTypeStep, CountInit, CountStep, PTL
     DEF Spec, CreatesOnly

-----------------------------------------------------------------------------
(* What is missing after an import was reported: MissingInv.               *)

(* As long as nobody deletes, what is on the target stays there.           *)
LEMMA NothingLeaves ==
  ASSUME ImportInv, ~deleted => live = DOMAIN objs, [Next]_vars, ~deleted'
  PROVE  /\ ~deleted /\ live' = DOMAIN objs' /\ DOMAIN eps \subseteq DOMAIN eps'
         /\ \A x : OnTarget(x) => OnTarget(x)'
<1> DEFINE Stays == /\ ~deleted /\ live' = DOMAIN objs' /\ DOMAIN eps \subseteq DOMAIN eps'
                    /\ \A x : OnTarget(x) => OnTarget(x)'
<1>1. ASSUME NEW kind, NEW name, Mint(kind, name), UNCHANGED <<eps, deleted>> PROVE Stays
  <2>1. /\ DOMAIN objs' = DOMAIN objs \cup {Len(objs) + 1}
        /\ \A i \in DOMAIN objs : objs'[i] = objs[i]
    BY <1>1 DEF Mint, ImportInv, TargetTypeOK
  <2>2. QED
    BY <1>1, <2>1 DEF Mint, OnTarget, Named
<1>2. ASSUME NEW m, NEW ep, eps' = Extend(eps, m, ep), UNCHANGED <<objs, live, deleted>>
      PROVE  Stays
  BY <1>2 DEF Extend, OnTarget, Named
<1>3. ASSUME UNCHANGED target, UNCHANGED deleted PROVE Stays
  BY <1>3 DEF target, OnTarget, Named
<1>4. ASSUME NEW g \in Groups, CreateGroup(g) PROVE Stays
  BY <1>1, <1>3, <1>4 DEF CreateGroup, Writing, target
<1>5. ASSUME NEW m \in Macs, CreateEndpoint(m) PROVE Stays
  BY <1>2, <1>3, <1>5 DEF CreateEndpoint, Writing, target
<1>6. CASE Admin
  <2>1. CASE \E g \in Groups : AdminCreates("group", g)
    BY <1>1, <2>1 DEF AdminCreates
  <2>2. CASE \E p \in Profiles : AdminCreates("profile", p)
    BY <1>1, <2>2 DEF AdminCreates
  <2>3. CASE \E m \in Macs : AdminAddsEndpoint(m)
    BY <1>2, <2>3 DEF AdminAddsEndpoint
  <2>4. CASE (\E i \in live : AdminDeletes(i)) \/ \E m \in Macs : AdminDeletesEndpoint(m)
    BY <2>4 DEF AdminDeletes, AdminDeletesEndpoint
  <2>5. QED
    BY <1>6, <2>1, <2>2, <2>3, <2>4 DEF Admin
<1>7. CASE RequestPreflight \/ ConfirmImport \/ UNCHANGED vars
  <2>1. UNCHANGED target /\ UNCHANGED deleted
    BY <1>7 DEF RequestPreflight, ConfirmImport, Start, vars, target, history
  <2>2. QED
    BY <1>3, <2>1
<1>8. CASE \/ ListGroups \/ ListProfiles \/ ListMacs \/ ListingFails \/ Report
           \/ GroupPassDone \/ RereadGroups \/ RereadProfiles \/ RereadFails
           \/ EndpointPassDone \/ Finish
  <2>1. UNCHANGED target /\ UNCHANGED deleted
    BY <1>8 DEF ListGroups, ListProfiles, ListMacs, ListingFails, Report, GroupPassDone,
                RereadGroups, RereadProfiles, RereadFails, EndpointPassDone, Finish,
                ToolOnly, Writing
  <2>2. QED
    BY <1>3, <2>1
<1>9. CASE Handler
  BY <1>4, <1>5, <1>8, <1>9 DEF Handler
<1>10. QED
  BY <1>6, <1>7, <1>9 DEF Next

\* What is missing from S after the step.
GoneNext(S) == {x \in S : ~OnTarget(x)'}

(* Fewer objects, fewer missing ones.                                      *)
LEMMA GoneShrinks ==
  ASSUME NEW S, S \subseteq Items, bundle \in Bundles, \A x : OnTarget(x) => OnTarget(x)'
  PROVE  /\ Cardinality(GoneNext(S)) \in Nat /\ Cardinality(Gone(S)) \in Nat
         /\ Cardinality(GoneNext(S)) <= Cardinality(Gone(S))
<1>1. GoneNext(S) \subseteq Gone(S) /\ Gone(S) \subseteq Items
  BY DEF Gone, GoneNext
<1>2. IsFiniteSet(Gone(S)) /\ Cardinality(Gone(S)) \in Nat
  BY <1>1, ItemsCount
<1>3. QED
  BY <1>1, <1>2, FS_Subset, FS_CardinalityType

(* A step that leaves the verdicts, what is left and the counts alone.     *)
LEMMA FrameKeepsMissing ==
  ASSUME ImportInv, ToolTypeOK, CountInv, MissingInv, [Next]_vars,
         UNCHANGED <<bundle, verdict, res>>, Left' = Left,
         existing' \in {existing, DOMAIN eps'},
         Applying' => Applying, phase' = "done" => phase = "done"
  PROVE  MissingInv'
<1>0. /\ bundle \in Bundles /\ Items' = Items /\ Creates' = Creates
      /\ DOMAIN verdict \subseteq Items
      /\ res.failed \in Nat /\ res.blocked \in Nat
  BY DEF ImportInv, MapsTypeOK, Creates, Items, BundleMacs, CountInv, PassInv, ToolTypeOK
<1>1. Gone(Items)' = GoneNext(Items) /\ Gone(Creates \ Left)' = GoneNext(Creates \ Left)
  BY <1>0 DEF Gone, GoneNext
<1> SUFFICES ASSUME ~deleted'
             PROVE  /\ live' = DOMAIN objs'
                    /\ existing' \subseteq DOMAIN eps'
                    /\ \A x \in DOMAIN verdict : verdict[x] = "skip" => OnTarget(x)'
                    /\ Applying' => Cardinality(GoneNext(Creates \ Left)) <= res.failed
                    /\ phase' = "done" => Cardinality(GoneNext(Items)) <= res.failed + res.blocked
  BY <1>1 DEF MissingInv
<1>2. /\ ~deleted /\ live' = DOMAIN objs' /\ DOMAIN eps \subseteq DOMAIN eps'
      /\ \A x : OnTarget(x) => OnTarget(x)'
  BY NothingLeaves DEF MissingInv
<1>3. ASSUME Applying' PROVE Cardinality(GoneNext(Creates \ Left)) <= res.failed
  <2>1. Cardinality(Gone(Creates \ Left)) <= res.failed
    BY <1>2, <1>3 DEF MissingInv
  <2>2. Creates \ Left \subseteq Items
    BY <1>0 DEF Creates
  <2>3. QED
    BY <1>0, <1>2, <2>1, <2>2, GoneShrinks
<1>4. ASSUME phase' = "done" PROVE Cardinality(GoneNext(Items)) <= res.failed + res.blocked
  <2>1. Cardinality(Gone(Items)) <= res.failed + res.blocked
    BY <1>2, <1>4 DEF MissingInv
  <2>2. QED
    BY <1>0, <1>2, <2>1, GoneShrinks
<1>5. QED
  BY <1>2, <1>3, <1>4 DEF MissingInv

(* An attempt leaves its object on the target or is counted as failed.     *)
LEMMA AttemptArrives ==
  ASSUME ImportInv, NEW x,
         (x \in Groups /\ CreateGroup(x)) \/ (x \in Macs /\ CreateEndpoint(x))
  PROVE  \E f \in {"created", "skipped", "failed"} : Counted(f) /\ (f = "failed" \/ OnTarget(x)')
<1>1. CASE x \in Groups /\ CreateGroup(x)
  <2>1. CASE Mint("group", x)
    <3>1. objs'[Len(objs) + 1] = [kind |-> "group", name |-> x]
      BY <2>1 DEF Mint, ImportInv, TargetTypeOK
    <3>2. OnTarget(x)'
      BY <2>1, <3>1 DEF Mint, OnTarget, Named
    <3>3. QED
      BY <1>1, <3>2 DEF CreateGroup
  <2>2. CASE Named("group", x) # {} /\ Counted("skipped") /\ UNCHANGED <<objs, live>>
    BY <2>2 DEF OnTarget, Named
  <2>3. CASE Counted("failed")
    BY <2>3
  <2>4. QED
    BY <1>1, <2>1, <2>2, <2>3 DEF CreateGroup
<1>2. CASE x \in Macs /\ CreateEndpoint(x)
  BY <1>2 DEF CreateEndpoint, OnTarget, Extend
<1>3. QED
  BY <1>1, <1>2

(* One attempt, at most one more object missing.                           *)
LEMMA AttemptKeepsMissing ==
  ASSUME ImportInv, ToolTypeOK, CountInv, MissingInv, [Next]_vars,
         phase \in {"groups", "endpoints"},
         UNCHANGED <<phase, bundle, verdict, existing>>,
         NEW x \in Left, Left' = Left \ {x},
         NEW f \in {"created", "skipped", "failed"}, Counted(f),
         f = "failed" \/ OnTarget(x)'
  PROVE  MissingInv'
<1>0. /\ bundle \in Bundles /\ Items' = Items /\ Creates' = Creates
      /\ Creates \subseteq Items /\ Left \subseteq Creates /\ Applying
      /\ res.failed \in Nat
      /\ res'.failed = IF f = "failed" THEN res.failed + 1 ELSE res.failed
  BY DEF ImportInv, MapsTypeOK, Creates, Items, BundleMacs, CountInv, PassInv, Applying,
         ToolTypeOK, Counted
<1>1. Gone(Creates \ Left)' = GoneNext((Creates \ Left) \cup {x})
  BY <1>0 DEF Gone, GoneNext
<1> SUFFICES ASSUME ~deleted'
             PROVE  /\ live' = DOMAIN objs'
                    /\ existing' \subseteq DOMAIN eps'
                    /\ \A y \in DOMAIN verdict : verdict[y] = "skip" => OnTarget(y)'
                    /\ Cardinality(GoneNext((Creates \ Left) \cup {x})) <= res'.failed
  BY <1>1 DEF MissingInv
<1>2. /\ ~deleted /\ live' = DOMAIN objs' /\ DOMAIN eps \subseteq DOMAIN eps'
      /\ \A y : OnTarget(y) => OnTarget(y)'
  BY NothingLeaves DEF MissingInv
<1>3. Cardinality(GoneNext((Creates \ Left) \cup {x})) <= res'.failed
  <2> DEFINE G == GoneNext(Creates \ Left)
  <2>1. Cardinality(Gone(Creates \ Left)) <= res.failed
    BY <1>0, <1>2 DEF MissingInv
  <2>2. IsFiniteSet(G) /\ Cardinality(G) \in Nat /\ Cardinality(G) <= res.failed
    <3>1. Creates \ Left \subseteq Items /\ GoneNext(Creates \ Left) \subseteq Items
      BY <1>0 DEF GoneNext
    <3>2. QED
      <4>1. /\ Cardinality(G) \in Nat /\ Cardinality(Gone(Creates \ Left)) \in Nat
            /\ Cardinality(G) <= Cardinality(Gone(Creates \ Left))
        BY <1>0, <1>2, <3>1, GoneShrinks
      <4>2. IsFiniteSet(G)
        BY <1>0, <3>1, ItemsCount
      <4>3. QED
        BY <1>0, <2>1, <4>1, <4>2
  <2>3. CASE OnTarget(x)'
    <3>1. GoneNext((Creates \ Left) \cup {x}) = G
      BY <2>3 DEF GoneNext
    <3>2. QED
      BY <1>0, <2>2, <3>1
  <2>4. CASE ~OnTarget(x)'
    <3>1. GoneNext((Creates \ Left) \cup {x}) = G \cup {x}
      BY <2>4 DEF GoneNext
    <3>2. Cardinality(G \cup {x}) \in {Cardinality(G), Cardinality(G) + 1}
      BY <2>2, FS_AddElement
    <3>3. res'.failed = res.failed + 1
      BY <1>0, <2>4
    <3> HIDE DEF G
    <3>4. Cardinality(G \cup {x}) <= res.failed + 1
      BY <1>0, <2>2, <3>2
    <3>5. QED
      BY <3>1, <3>3, <3>4
  <2>5. QED
    BY <2>3, <2>4
<1>4. QED
  BY <1>2, <1>3 DEF MissingInv

LEMMA MissingInit == Init => MissingInv
<1> SUFFICES ASSUME Init PROVE MissingInv
  OBVIOUS
<1>1. live = DOMAIN objs
  BY BoundsAssumption DEF Init
<1>2. QED
  BY <1>1 DEF Init, MissingInv, Applying

(* The report: what is skipped is there, what is blocked is counted.       *)
LEMMA ReportKeepsMissing ==
  ASSUME ImportInv, ToolTypeOK, CountInv, MissingInv, Report
  PROVE  MissingInv'
<1>0. /\ bundle \in Bundles /\ Items' = Items /\ res = ZeroResult /\ verdict' = Verdicts
      /\ UNCHANGED <<objs, live, eps, bundle, existing, deleted>>
  BY DEF ImportInv, MapsTypeOK, Report, ToolOnly, target, Items, BundleMacs, CountInv, PassInv,
         Preparing
<1>1. \A x : OnTarget(x)' = OnTarget(x)
  BY <1>0 DEF OnTarget, Named
<1> SUFFICES ASSUME ~deleted
             PROVE  /\ \A x \in Items : Verdicts[x] = "skip" => OnTarget(x)
                    /\ Applying' => Cardinality(Gone(Creates \ Left)') <= res'.failed
                    /\ phase' = "done" => Cardinality(Gone(Items)') <= res'.failed + res'.blocked
  BY <1>0, <1>1, VerdictsType DEF MissingInv
<1>2. live = DOMAIN objs /\ existing \subseteq DOMAIN eps
  BY DEF MissingInv
<1>3. ASSUME NEW x \in Items, Verdicts[x] = "skip" PROVE OnTarget(x)
  <2>1. CASE x \in bundle.groups
    <3>1. x \in Groups /\ groupIDs[x] # NoId
      BY <1>3, <2>1 DEF Verdicts, GroupVerdict
    <3>2. groupIDs[x] \in Named("group", x)
      BY <1>2, <3>1 DEF ImportInv, MapsTypeOK, ResolvedByName, Ids, Named
    <3>3. QED
      BY <3>2 DEF OnTarget
  <2>2. CASE x \notin bundle.groups
    BY <1>2, <1>3, <2>2 DEF Verdicts, EndpointVerdict, OnTarget
  <2>3. QED
    BY <2>1, <2>2
<1>4. ASSUME Applying' PROVE Cardinality(Gone(Creates \ Left)') <= res'.failed
  <2>1. phase' = "groups" /\ res'.failed = 0
    BY <1>0, <1>4 DEF Applying, Report, ZeroResult
  <2>2. Gone(Creates \ Left)' = {}
    BY <1>0, <2>1, VerdictsType
       DEF Report, Left, Creates, EndpointsToCreate, Items, BundleMacs, Gone
  <2>3. QED
    BY <2>1, <2>2, FS_EmptySet
<1>5. ASSUME phase' = "done" PROVE Cardinality(Gone(Items)') <= res'.failed + res'.blocked
  <2>1. /\ res'.failed = 0 /\ res'.blocked = Count("blocked") /\ Count("create") = 0
    BY <1>0, <1>5 DEF Report, ZeroResult
  <2>2. {x \in Items : Verdicts[x] = "create"} = {}
    BY <1>0, <2>1, ItemsCount, FS_EmptySet DEF Count
  <2>3. Gone(Items)' \subseteq {x \in Items : Verdicts[x] = "blocked"}
    BY <1>0, <1>1, <1>3, <2>2, VerdictsType DEF Gone, Outcomes
  <2>4. Cardinality(Gone(Items)') <= Count("blocked") /\ Count("blocked") \in Nat
    BY <1>0, <2>3, ItemsCount, FS_Subset DEF Count
  <2>5. QED
    BY <2>1, <2>4
<1>6. QED
  BY <1>3, <1>4, <1>5

(* The end: what is missing was tried and failed, or was blocked.          *)
LEMMA FinishKeepsMissing ==
  ASSUME ImportInv, ToolTypeOK, CountInv, MissingInv, Finish
  PROVE  MissingInv'
<1>0. /\ bundle \in Bundles /\ Items' = Items /\ DOMAIN verdict = Items /\ Left = {}
      /\ Applying /\ ~Applying'
      /\ UNCHANGED <<objs, live, eps, bundle, existing, deleted, verdict>>
  BY DEF ImportInv, MapsTypeOK, Finish, ToolOnly, target, Items, BundleMacs, CountInv, PassInv,
         Applying, Left
<1>1. \A x : OnTarget(x)' = OnTarget(x)
  BY <1>0 DEF OnTarget, Named
<1> SUFFICES ASSUME ~deleted
             PROVE  Cardinality(Gone(Items)') <= res'.failed + res'.blocked
  BY <1>0, <1>1 DEF MissingInv
<1>2. /\ \A x \in Items : verdict[x] = "skip" => OnTarget(x)
      /\ Cardinality(Gone(Creates)) <= res.failed
  <2>1. Creates \ Left = Creates
    BY <1>0
  <2>2. QED
    BY <1>0, <2>1 DEF MissingInv
<1>3. res'.failed = res.failed /\ res'.blocked = Reported("blocked") /\ res.failed \in Nat
  BY DEF Finish, Total, ToolTypeOK
<1> DEFINE Blocked == {x \in Items : verdict[x] = "blocked"}
<1>4. Gone(Items)' \subseteq Gone(Creates) \cup Blocked
  BY <1>0, <1>1, <1>2 DEF Gone, Creates, CountInv, PassInv, Outcomes
<1>5. /\ IsFiniteSet(Gone(Creates)) /\ Cardinality(Gone(Creates)) \in Nat
      /\ IsFiniteSet(Blocked) /\ Cardinality(Blocked) \in Nat
  <2>1. Gone(Creates) \subseteq Items
    BY <1>0 DEF Gone, Creates
  <2>2. QED
    BY <1>0, <2>1, ItemsCount
<1>6. /\ IsFiniteSet(Gone(Creates) \cup Blocked)
      /\ Cardinality(Gone(Creates) \cup Blocked) <= Cardinality(Gone(Creates)) + Cardinality(Blocked)
      /\ Cardinality(Gone(Creates) \cup Blocked) \in Nat
  BY <1>5, UnionBound
<1>7. /\ Cardinality(Gone(Items)') <= Cardinality(Gone(Creates) \cup Blocked)
      /\ Cardinality(Gone(Items)') \in Nat
  BY <1>4, <1>6, FS_Subset, FS_CardinalityType
<1>8. Cardinality(Blocked) = res'.blocked
  BY <1>3 DEF Reported
<1>9. QED
  BY <1>2, <1>3, <1>5, <1>6, <1>7, <1>8

LEMMA MissingStep ==
  ImportInv /\ ToolTypeOK /\ CountInv /\ MissingInv /\ [Next]_vars => MissingInv'
<1> SUFFICES ASSUME ImportInv, ToolTypeOK, CountInv, MissingInv, [Next]_vars PROVE MissingInv'
  OBVIOUS
<1>1. CASE ListGroups \/ ListProfiles \/ ListMacs \/ ListingFails
  <2>1. /\ UNCHANGED <<bundle, verdict, res>> /\ Left' = Left
        /\ ~Applying' /\ phase' # "done"
    BY <1>1 DEF ListGroups, ListProfiles, ListMacs, ListingFails, ToolOnly, Applying, Left
  <2>2. existing' \in {existing, DOMAIN eps'}
    BY <1>1 DEF ListGroups, ListProfiles, ListMacs, ListingFails, ToolOnly, target
  <2>3. QED
    BY <2>1, <2>2, FrameKeepsMissing
<1>2. CASE Report
  BY <1>2, ReportKeepsMissing
<1>3. ASSUME NEW g \in Groups, CreateGroup(g) PROVE MissingInv'
  <2>1. g \in Left /\ Left' = Left \ {g}
    BY <1>3, GroupAttempt
  <2>2. /\ phase \in {"groups", "endpoints"}
        /\ UNCHANGED <<phase, bundle, verdict, existing>>
    BY <1>3 DEF CreateGroup, Writing
  <2>3. QED
    BY <1>3, <2>1, <2>2, AttemptArrives, AttemptKeepsMissing
<1>4. ASSUME NEW m \in Macs, CreateEndpoint(m) PROVE MissingInv'
  <2>1. m \in Left /\ Left' = Left \ {m}
    BY <1>4, EndpointAttempt
  <2>2. /\ phase \in {"groups", "endpoints"}
        /\ UNCHANGED <<phase, bundle, verdict, existing>>
    BY <1>4 DEF CreateEndpoint, Writing
  <2>3. QED
    BY <1>4, <2>1, <2>2, AttemptArrives, AttemptKeepsMissing
<1>5. CASE GroupPassDone \/ EndpointPassDone \/ RereadGroups \/ RereadProfiles
  <2>1. Left' = Left
    BY <1>5 DEF GroupPassDone, EndpointPassDone, RereadGroups, RereadProfiles, Writing, ToolOnly,
                Left, EndpointsToCreate, BundleMacs
  <2>2. UNCHANGED <<bundle, verdict, res, existing>> /\ Applying /\ phase' # "done"
    BY <1>5 DEF GroupPassDone, EndpointPassDone, RereadGroups, RereadProfiles, Writing, ToolOnly,
                Applying
  <2>3. QED
    BY <2>1, <2>2, FrameKeepsMissing
<1>6. CASE RereadFails
  <2>1. UNCHANGED <<target, deleted, existing, verdict>> /\ ~Applying' /\ phase' # "done"
    BY <1>6 DEF RereadFails, ToolOnly, Applying
  <2>2. QED
    BY <2>1 DEF target, MissingInv, OnTarget, Named
<1>7. CASE Finish
  BY <1>7, FinishKeepsMissing
<1>8. CASE RequestPreflight \/ ConfirmImport
  <2>1. /\ UNCHANGED <<target, deleted, existing>> /\ DOMAIN verdict' = {}
        /\ ~Applying' /\ phase' # "done"
    BY <1>8 DEF RequestPreflight, ConfirmImport, Start, Applying
  <2>2. QED
    BY <2>1 DEF target, MissingInv
<1>9. CASE Admin \/ UNCHANGED vars
  <2>1. UNCHANGED <<bundle, tool>>
    BY <1>9 DEF Admin, AdminCreates, AdminDeletes, AdminAddsEndpoint, AdminDeletesEndpoint,
                Edit, vars
  <2>2. Left' = Left
    BY <2>1 DEF tool, Left, EndpointsToCreate, BundleMacs
  <2>3. QED
    BY <2>1, <2>2, FrameKeepsMissing DEF tool, Applying
<1>10. QED
  BY <1>1, <1>2, <1>3, <1>4, <1>5, <1>6, <1>7, <1>8, <1>9 DEF Next, Handler

(* An object of the bundle that is not on the target when an import ends   *)
(* was counted as failed or as blocked, as long as nobody deleted objects: *)
(* a lost answer, a refusal or a failed re-read never passes for success.  *)
THEOREM ImportMissingIsReported == Spec => []MissingIsReported
<1>1. MissingInv => MissingIsReported
  BY DEF MissingInv, MissingIsReported, Gone
<1>2. QED
  BY <1>1, ImportInit, ImportStep, ToolTypeInit, ToolTypeStep, CountInit, CountStep,
     MissingInit, MissingStep, PTL DEF Spec

-----------------------------------------------------------------------------
(* A re-run creates nothing: CleanInv.                                     *)

(* A name is in the map exactly when the target has an object of it.       *)
LEMMA StubsByNameFinds ==
  ASSUME TargetTypeOK, NEW kind, NEW names, NEW n \in names
  PROVE  StubsByName(kind, names)[n] # NoId <=> Named(kind, n) # {}
<1>1. CASE Named(kind, n) = {}
  BY <1>1 DEF StubsByName
<1>2. CASE Named(kind, n) # {}
  <2>1. (CHOOSE i \in Named(kind, n) : TRUE) \in Named(kind, n)
    BY <1>2
  <2>2. StubsByName(kind, names)[n] \in Named(kind, n)
    BY <1>2, <2>1 DEF StubsByName
  <2>3. NoId \notin Named(kind, n)
    BY DEF Named, TargetTypeOK, NoId
  <2>4. QED
    BY <1>2, <2>2, <2>3
<1>3. QED
  BY <1>1, <1>2

(* With the maps showing the target as it is, the pre-flight marks an      *)
(* object as creatable unless there is nothing to do for it.               *)
LEMMA VerdictIsSettled ==
  ASSUME ImportInv, CleanInv, clean, phase = "report", NEW x \in Items
  PROVE  Verdicts[x] # "create" <=> Settled(x)
<1>0. /\ bundle.groups \subseteq Ref(Groups) /\ BundleMacs \subseteq Macs \cup {NoMac}
      /\ bundle.groups \cap BundleMacs = {} /\ DOMAIN eps \subseteq Macs
  BY BundleFacts DEF ImportInv, MapsTypeOK, TargetTypeOK
<1>1. \A g \in Groups : groupIDs[g] # NoId <=> Named("group", g) # {}
  BY DEF CleanInv
<1>2. CASE x \in bundle.groups
  <2>0. x # NoMac
    BY <1>0, <1>2, NoNameAssumption
  <2>1. Settled(x) <=> x = NoName \/ Named("group", x) # {}
    BY <1>0, <1>2, <2>0, DistinctAssumption, NoNameAssumption DEF Settled, OnTarget, Ref
  <2>2. x # NoName => x \in Groups
    BY <1>0, <1>2 DEF Ref
  <2>3. QED
    BY <1>1, <1>2, <2>1, <2>2 DEF Verdicts, GroupVerdict
<1>3. CASE x \notin bundle.groups
  <2> DEFINE ep == bundle.eps[x]
  <2>1. /\ x \in BundleMacs /\ x \in Macs \cup {NoMac} /\ x # NoName
        /\ NoMac \notin Groups /\ NoMac \notin DOMAIN eps
    BY <1>0, <1>3, NoNameAssumption DEF Items, Ref
  <2>2. ep.group \in Ref(Groups) /\ ep.profile \in Ref(Profiles)
    BY <2>1, BundlesAssumption DEF ImportInv, MapsTypeOK, Bundle, BundleMacs
  <2>3. Named("group", x) = {}
    <3>1. \A i \in live : objs[i] \in Object
      BY DEF ImportInv, TargetTypeOK
    <3>2. x \notin Groups
      BY <2>1, DistinctAssumption
    <3>3. QED
      BY <3>1, <3>2 DEF Named, Object
  <2>4. existing = DOMAIN eps
    BY <2>1 DEF CleanInv
  <2>5. \A p \in Profiles : profileIDs[p] # NoId <=> Named("profile", p) # {}
    BY <2>1 DEF CleanInv
  <2>6. ep.group # NoName /\ ep.group \notin WillExist
          <=> ep.group \notin bundle.groups \cup {NoName} /\ Named("group", ep.group) = {}
    BY <1>1, <2>2 DEF WillExist, Ref
  <2>7. ep.profile # NoName /\ profileIDs[ep.profile] = NoId
          <=> ep.profile # NoName /\ Named("profile", ep.profile) = {}
    BY <2>2, <2>5 DEF Ref
  <2>8. Verdicts[x] # "create"
          <=> \/ x \in existing \/ x = NoMac
              \/ ep.group # NoName /\ ep.group \notin WillExist
              \/ ep.profile # NoName /\ profileIDs[ep.profile] = NoId
    BY <1>3 DEF Verdicts, EndpointVerdict
  <2>9. QED
    BY <2>1, <2>3, <2>4, <2>6, <2>7, <2>8 DEF Settled, OnTarget
<1>4. QED
  BY <1>2, <1>3

(* What is settled depends on the target only.                             *)
LEMMA SettledFrame ==
  ASSUME UNCHANGED target, UNCHANGED bundle, NEW x
  PROVE  Settled(x)' <=> Settled(x)
BY DEF target, Settled, OnTarget, Named, BundleMacs

(* A step of a clean run that is neither a listing, nor the report, nor a  *)
(* write.                                                                  *)
LEMMA FrameKeepsClean ==
  ASSUME CleanInv, clean, UNCHANGED <<bundle, mode>>, UNCHANGED target, Left' = Left,
         ~Preparing, phase' \in {"rereadProfiles", "endpoints", "rereadGroups", "finish", "done"}
  PROVE  CleanInv'
<1>1. Items' = Items /\ \A x : Settled(x)' <=> Settled(x)
  BY SettledFrame DEF Items, BundleMacs
<1>2. \A x \in Items \ Left : Settled(x)
  BY DEF CleanInv
<1>3. \A x \in Items' \ Left' : Settled(x)'
  BY <1>1, <1>2
<1>4. QED
  BY <1>3 DEF CleanInv, Preparing

(* A listing shows the target as it is.                                    *)
LEMMA ListingKeepsClean ==
  ASSUME ImportInv, CleanInv, ListGroups \/ ListProfiles \/ ListMacs
  PROVE  CleanInv'
<1> SUFFICES ASSUME clean PROVE CleanInv'
  BY DEF ListGroups, ListProfiles, ListMacs, CleanInv
<1>1. /\ UNCHANGED target /\ UNCHANGED <<bundle, mode>>
      /\ Preparing /\ Left' = {} /\ Left = {}
      /\ phase' \in {"listProfiles", "listMacs", "report"}
  BY DEF ListGroups, ListProfiles, ListMacs, ToolOnly, Preparing, Left
<1>2. /\ Items' = Items /\ BundleMacs' = BundleMacs
      /\ \A x : Settled(x)' <=> Settled(x)
      /\ \A kind, n : Named(kind, n)' = Named(kind, n)
  BY <1>1, SettledFrame DEF Items, BundleMacs, target, Named
<1>3. TargetTypeOK
  BY DEF ImportInv
<1>4. \A g \in Groups : groupIDs'[g] # NoId <=> Named("group", g) # {}
  BY <1>3, StubsByNameFinds DEF ListGroups, ListProfiles, ListMacs, CleanInv
<1>5. phase' = "listMacs" \/ (phase' = "report" /\ BundleMacs # {})
        => \A p \in Profiles : profileIDs'[p] # NoId <=> Named("profile", p) # {}
  BY <1>3, StubsByNameFinds DEF ListGroups, ListProfiles, ListMacs, CleanInv
<1>6. phase' = "report" /\ BundleMacs # {} => existing' = DOMAIN eps'
  BY <1>1 DEF ListGroups, ListProfiles, ListMacs, target
<1>7. ~(mode = "apply") => \A x \in Items' \ Left' : Settled(x)'
  BY <1>1, <1>2 DEF CleanInv
<1>8. QED
  BY <1>1, <1>2, <1>4, <1>5, <1>6, <1>7 DEF CleanInv, Preparing

LEMMA ReportKeepsClean ==
  ASSUME ImportInv, CleanInv, Report
  PROVE  CleanInv'
<1> SUFFICES ASSUME clean PROVE CleanInv'
  BY DEF Report, CleanInv
<1>1. /\ UNCHANGED target /\ UNCHANGED <<bundle, mode>> /\ verdict' = Verdicts
      /\ phase' \in {"shown", "done", "groups"} /\ phase = "report"
      /\ bundle \in Bundles
  BY DEF Report, ToolOnly, ImportInv, MapsTypeOK
<1>2. Items' = Items /\ \A x : Settled(x)' <=> Settled(x)
  BY <1>1, SettledFrame DEF Items, BundleMacs
<1>3. \A x \in Items : Verdicts[x] # "create" <=> Settled(x)
  BY <1>1, VerdictIsSettled
<1>4. CASE phase' = "shown"
  <2>1. \A x \in Items : Settled(x)
    BY <1>1, <1>4 DEF CleanInv, Report, Left, Preparing
  <2>2. Creates' = {}
    BY <1>1, <1>3, <2>1, VerdictsType DEF Creates
  <2>3. QED
    BY <1>2, <1>4, <2>1, <2>2 DEF CleanInv, Preparing
<1>5. CASE phase' = "done"
  <2>1. Count("create") = 0
    BY <1>5 DEF Report
  <2>2. \A x \in Items : Verdicts[x] # "create"
    BY <1>1, <2>1, ItemsCount, FS_EmptySet DEF Count
  <2>3. QED
    BY <1>2, <1>3, <1>5, <2>2 DEF CleanInv, Preparing
<1>6. CASE phase' = "groups"
  <2>1. Left' = {x \in Items : Verdicts[x] = "create"}
    BY <1>1, <1>6, VerdictsType DEF Report, Left, EndpointsToCreate, Items, BundleMacs
  <2>2. \A x \in Items' \ Left' : Settled(x)'
    BY <1>2, <1>3, <2>1
  <2>3. QED
    BY <1>6, <2>2 DEF CleanInv, Preparing
<1>7. QED
  BY <1>1, <1>4, <1>5, <1>6

(* A clean attempt puts its object on the target and unsettles nothing:    *)
(* a new group is one of the bundle's.                                     *)
LEMMA AttemptKeepsClean ==
  ASSUME ImportInv, CountInv, CleanInv, NEW x \in Left, Left' = Left \ {x},
         (x \in Groups /\ CreateGroup(x)) \/ (x \in Macs /\ CreateEndpoint(x))
  PROVE  CleanInv'
<1> SUFFICES ASSUME clean' PROVE CleanInv'
  BY DEF CleanInv
<1>0. /\ UNCHANGED <<bundle, phase, mode>> /\ phase \in {"groups", "endpoints"}
      /\ bundle \in Bundles
  BY DEF CreateGroup, CreateEndpoint, Writing, ImportInv, MapsTypeOK
<1>1. OnTarget(x)' /\ clean
  BY AttemptArrives DEF Counted
<1>2. \A y \in Items \ Left : Settled(y)
  BY <1>0, <1>1 DEF CleanInv, Preparing
<1>3. \A y \in Items : Settled(y) => Settled(y)'
  <2>1. CASE UNCHANGED target
    BY <1>0, <2>1, SettledFrame
  <2>2. CASE x \in Groups /\ Mint("group", x) /\ UNCHANGED eps
    <3>1. x \in bundle.groups
      <4>1. x \in Items
        BY <1>0 DEF CountInv, PassInv, Applying, Creates
      <4>2. QED
        BY <1>0, <2>2, <4>1, BundleFacts, DistinctAssumption, NoNameAssumption DEF Items, Ref
    <3>2. /\ DOMAIN objs' = DOMAIN objs \cup {Len(objs) + 1}
          /\ objs'[Len(objs) + 1] = [kind |-> "group", name |-> x]
          /\ \A i \in DOMAIN objs : objs'[i] = objs[i]
          /\ live \subseteq DOMAIN objs
      BY <2>2 DEF Mint, ImportInv, TargetTypeOK
    <3>3. \A y : OnTarget(y) => OnTarget(y)'
      BY <2>2, <3>2 DEF Mint, OnTarget, Named
    <3>4. \A y : Named("group", y) = {} /\ y # x => Named("group", y)' = {}
      BY <2>2, <3>2 DEF Mint, Named
    <3>5. \A y : Named("profile", y) = {} => Named("profile", y)' = {}
      BY <2>2, <3>2 DEF Mint, Named
    <3>6. QED
      BY <1>0, <3>1, <3>3, <3>4, <3>5 DEF Settled, BundleMacs
  <2>3. CASE eps' = Extend(eps, x, Written(x)) /\ UNCHANGED <<objs, live>>
    BY <1>0, <2>3 DEF Extend, Settled, OnTarget, Named, BundleMacs
  <2>4. QED
    BY <2>1, <2>2, <2>3 DEF CreateGroup, CreateEndpoint, target
<1>4. Items' = Items /\ Settled(x)'
  BY <1>0, <1>1 DEF Items, BundleMacs, Settled
<1>5. \A y \in Items' \ Left' : Settled(y)'
  BY <1>2, <1>3, <1>4
<1>6. QED
  BY <1>0, <1>5 DEF CleanInv, Preparing

LEMMA CleanStep ==
  ImportInv /\ CountInv /\ CleanInv /\ [Next]_vars => CleanInv'
<1> SUFFICES ASSUME ImportInv, CountInv, CleanInv, [Next]_vars PROVE CleanInv'
  OBVIOUS
<1>1. CASE ListGroups \/ ListProfiles \/ ListMacs
  BY <1>1, ListingKeepsClean
<1>2. CASE Report
  BY <1>2, ReportKeepsClean
<1>3. ASSUME NEW g \in Groups, CreateGroup(g) PROVE CleanInv'
  BY <1>3, GroupAttempt, AttemptKeepsClean
<1>4. ASSUME NEW m \in Macs, CreateEndpoint(m) PROVE CleanInv'
  BY <1>4, EndpointAttempt, AttemptKeepsClean
<1>5. CASE GroupPassDone \/ EndpointPassDone \/ RereadGroups \/ RereadProfiles \/ Finish
  <2>1. Left' = Left
    BY <1>5 DEF GroupPassDone, EndpointPassDone, RereadGroups, RereadProfiles, Finish, Writing,
                ToolOnly, Left, EndpointsToCreate, BundleMacs
  <2>2. UNCHANGED target /\ UNCHANGED <<bundle, mode, clean>>
    BY <1>5 DEF GroupPassDone, EndpointPassDone, RereadGroups, RereadProfiles, Finish, Writing,
                ToolOnly
  <2>3. /\ ~Preparing
        /\ phase' \in {"rereadProfiles", "endpoints", "rereadGroups", "finish", "done"}
    BY <1>5 DEF GroupPassDone, EndpointPassDone, RereadGroups, RereadProfiles, Finish, Preparing
  <2>4. CASE clean
    BY <2>1, <2>2, <2>3, <2>4, FrameKeepsClean
  <2>5. CASE ~clean
    BY <2>2, <2>5 DEF CleanInv
  <2>6. QED
    BY <2>4, <2>5
<1>6. CASE ListingFails \/ RereadFails \/ Admin
  <2>1. ~clean'
    BY <1>6 DEF ListingFails, RereadFails, Admin, AdminCreates, AdminDeletes, AdminAddsEndpoint,
                AdminDeletesEndpoint, Edit
  <2>2. QED
    BY <2>1 DEF CleanInv
<1>7. CASE RequestPreflight
  <2>1. /\ UNCHANGED target /\ UNCHANGED bundle /\ clean' = clean
        /\ phase' = "listGroups" /\ Left' = {} /\ Left = {} /\ ~Preparing
    BY <1>7 DEF RequestPreflight, Start, Left, Preparing
  <2>2. Items' = Items /\ \A x : Settled(x)' <=> Settled(x)
    BY <2>1, SettledFrame DEF Items, BundleMacs
  <2>3. QED
    BY <2>1, <2>2 DEF CleanInv
<1>8. CASE ConfirmImport
  BY <1>8 DEF ConfirmImport, Start, CleanInv, Preparing
<1>9. CASE UNCHANGED vars
  BY <1>9 DEF vars, target, tool, history, CleanInv, Settled, OnTarget, Named, Items, BundleMacs,
              Left, EndpointsToCreate, Creates, Preparing
<1>10. QED
  BY <1>1, <1>2, <1>3, <1>4, <1>5, <1>6, <1>7, <1>8, <1>9 DEF Next, Handler

(* After an import without failures on a target that was left alone, the   *)
(* next pre-flight finds nothing to create.                                *)
THEOREM ImportRerunCreatesNothing == Spec => []RerunCreatesNothing
<1>1. Init => CleanInv
  BY DEF Init, CleanInv
<1>2. CleanInv => RerunCreatesNothing
  BY DEF CleanInv, RerunCreatesNothing
<1>3. QED
  BY <1>1, <1>2, ImportInit, ImportStep, ToolTypeInit, ToolTypeStep, CountInit, CountStep,
     CleanStep, PTL DEF Spec
=============================================================================
