------------------------ MODULE PolicyElementsProofs ------------------------
(***************************************************************************)
(* Proofs about the import of policy elements and of the join points and   *)
(* identity sources it counts on, for every bundle and every target, and   *)
(* any number of imports, edits and faults.                                *)
(*                                                                         *)
(* First, an import adds no second join point for a domain.  The verdict is*)
(* given two listings before the first write, and the verdicts of other    *)
(* families are added to it in between; DomainsInv says what it is worth   *)
(* from then on: as long as nobody interferes, only the announced join     *)
(* point itself can turn up with its domain.                               *)
(*                                                                         *)
(* Then the types, that losses are told (ReportedInv), and that an         *)
(* undisturbed import keeps what it announced (KeptInv): whatever a        *)
(* creatable object refers to is on the target, or comes at an earlier     *)
(* turn.                                                                   *)
(***************************************************************************)
EXTENDS PolicyElements, SequenceTheorems, WellFoundedInduction, TLAPS

JpsOK == \A k \in DOMAIN jps : jps[k] \in JoinPoint

AnnouncedAlone ==
  \A j \in BundleJps, k \in DOMAIN jps :
     Jp(j) \in Creates /\ jps[k].domain = SourceJps[j].domain => k = j

DomainsInv ==
  /\ JpsOK
  /\ quiet /\ phase \notin {"export", "idle", "listJoinPoints"} => AnnouncedAlone

(* DomainsInv holds before the export.                                     *)
LEMMA DomainsInit == Init => DomainsInv
  BY StartsAssumption DEF Init, DomainsInv, JpsOK

(* A join point is told from every other item by its kind.                 *)
LEMMA KindsDiffer ==
  ASSUME NEW j
  PROVE  /\ \A x : x[1] \in {"certificateProfile", "restIDStore"} => x # Jp(j)
         /\ Jp(j) \notin Elements
         /\ \A listed : Jp(j) \notin Shells(listed)
<1>1. \A n : Ndg(n) # Jp(j) /\ Shell(n) # Jp(j) /\ Dacl(n) # Jp(j)
  BY DEF Jp, Ndg, Shell, Dacl
<1>2. \A n : Profile(n) # Jp(j) /\ Sequence(n) # Jp(j) /\ Condition(n) # Jp(j)
  BY DEF Jp, Profile, Sequence, Condition
<1>3. \A x : x[1] \in {"certificateProfile", "restIDStore"} => x # Jp(j)
  BY DEF Jp
<1>4. Jp(j) \notin Elements
  BY <1>1, <1>2 DEF Elements
<1>5. \A listed : Jp(j) \notin Shells(listed)
  BY <1>1 DEF Shells
<1>6. QED
  BY <1>3, <1>4, <1>5

(* Verdicts of other families leave those of the join points.              *)
LEMMA AddedKeeps ==
  ASSUME NEW new, verdict' = Added(verdict, new), NEW j, Jp(j) \notin DOMAIN new
  PROVE  Jp(j) \in Creates' => Jp(j) \in Creates
  BY DEF Added, Creates

(* From one listing, create means that the domain is not there at all.     *)
LEMMA ListJoinPointsStep ==
  ASSUME DomainsInv, ListJoinPoints
  PROVE  DomainsInv'
<1>1. UNCHANGED <<jps, bundle>>
  BY DEF ListJoinPoints
<1>2. CASE verdict' = JpVerdicts(jps)
  <2>1. ASSUME NEW j \in BundleJps, NEW k \in DOMAIN jps, Jp(j) \in Creates',
               jps[k].domain = SourceJps[j].domain
        PROVE  FALSE
    <3>1. verdict'[Jp(j)] = "create"
      BY <2>1 DEF Creates
    <3>2. Jp(j) \in DOMAIN JpVerdicts(jps) /\ Jp(j)[1] = "joinPoint" /\ Jp(j)[2] = j
      BY <1>2, <2>1 DEF Creates, Jp
    <3>3. JpVerdicts(jps)[Jp(j)] = JpVerdict(j, jps)
      BY <3>2 DEF JpVerdicts
    <3>4. JpVerdict(j, jps) # "create"
      BY <2>1 DEF JpVerdict
    <3>5. QED
      BY <1>2, <3>1, <3>3, <3>4
  <2>2. BundleJps' = BundleJps
    BY <1>1 DEF BundleJps
  <2>3. QED
    BY <1>1, <2>1, <2>2 DEF DomainsInv, JpsOK, AnnouncedAlone
<1>3. CASE Fault
  BY <1>1, <1>3 DEF Fault, DomainsInv, JpsOK
<1>4. QED
  BY <1>2, <1>3 DEF ListJoinPoints

(* The listings after it keep that.                                        *)
LEMMA LaterListings ==
  ASSUME DomainsInv, UNCHANGED <<jps, bundle>>,
         phase \in {"listSources", "listElements"}, quiet' => quiet,
         NEW new, verdict' = Added(verdict, new), \A j : Jp(j) \notin DOMAIN new
  PROVE  DomainsInv'
<1>1. BundleJps' = BundleJps
  BY DEF BundleJps
<1>2. \A j : Jp(j) \in Creates' => Jp(j) \in Creates
  BY AddedKeeps
<1>3. QED
  BY <1>1, <1>2 DEF DomainsInv, JpsOK, AnnouncedAlone

(* Steps that keep the domains of the join points, or add what the bundle  *)
(* has.                                                                    *)
LEMMA WritesStep ==
  ASSUME DomainsInv, UNCHANGED <<bundle, verdict>>, quiet' => quiet, JpsOK',
         phase \notin {"export", "idle", "listJoinPoints"},
         \A k \in DOMAIN jps' :
           \/ k \in DOMAIN jps /\ jps'[k].domain = jps[k].domain
           \/ k \in BundleJps /\ jps'[k].domain = SourceJps[k].domain
  PROVE  DomainsInv'
<1>1. BundleJps' = BundleJps /\ Creates' = Creates
  BY DEF BundleJps, Creates
<1>2. ASSUME quiet', NEW j \in BundleJps, NEW k \in DOMAIN jps', Jp(j) \in Creates,
             jps'[k].domain = SourceJps[j].domain
      PROVE  k = j
  <2>1. CASE k \in DOMAIN jps /\ jps'[k].domain = jps[k].domain
    BY <1>2, <2>1 DEF DomainsInv, AnnouncedAlone
  <2>2. CASE k \in BundleJps /\ jps'[k].domain = SourceJps[k].domain
    BY <1>2, <2>2, OneSourceJpPerDomain DEF BundleJps
  <2>3. QED
    BY <2>1, <2>2
<1>3. QED
  BY <1>1, <1>2 DEF DomainsInv, AnnouncedAlone

(* A new join point has the domain of the bundle's.                        *)
LEMMA CreateJoinPointStep ==
  ASSUME DomainsInv, NEW i \in BundleJps, CreateJoinPoint(i)
  PROVE  DomainsInv'
<1>1. /\ UNCHANGED <<bundle, verdict>> /\ (quiet' => quiet)
      /\ phase \notin {"export", "idle", "listJoinPoints"}
  BY DEF CreateJoinPoint, Applying, Done, Fine, Lost, Fault, NoFault
<1> DEFINE new == [domain |-> SourceJps[i].domain, joined |-> FALSE, groups |-> {}, attrs |-> TRUE]
<1>2. jps' = jps \/ jps' = Extend(jps, i, new)
  BY DEF CreateJoinPoint
<1>3. i \in DOMAIN SourceJps /\ SourceJps[i].domain \in Domains
  BY DirectoryAssumption DEF BundleJps
<1>4. new \in JoinPoint /\ new.domain = SourceJps[i].domain
  BY <1>3 DEF JoinPoint
<1> HIDE DEF new
<1>5. \A k \in DOMAIN jps' : (k \in DOMAIN jps /\ jps'[k] = jps[k]) \/ (k = i /\ jps'[k] = new)
  BY <1>2 DEF Extend
<1>6. JpsOK'
  BY <1>4, <1>5 DEF JpsOK, DomainsInv
<1>7. \A k \in DOMAIN jps' :
        \/ k \in DOMAIN jps /\ jps'[k].domain = jps[k].domain
        \/ k \in BundleJps /\ jps'[k].domain = SourceJps[k].domain
  BY <1>4, <1>5
<1>8. QED
  BY <1>1, <1>6, <1>7, WritesStep

(* Loading groups, joining the domain and adding attributes leave the      *)
(* domain of a join point alone.                                           *)
LEMMA SettingStep ==
  ASSUME DomainsInv, UNCHANGED <<bundle, verdict>>, quiet' => quiet,
         phase \notin {"export", "idle", "listJoinPoints"},
         NEW i \in DOMAIN jps,
         \/ jps' = [jps EXCEPT ![i].joined = TRUE]
         \/ jps' = [jps EXCEPT ![i].attrs = TRUE]
         \/ \E g \in SUBSET Sids : jps' = [jps EXCEPT ![i].groups = @ \cup g]
  PROVE  DomainsInv'
<1>1. DOMAIN jps' = DOMAIN jps /\ \A k \in DOMAIN jps : k # i => jps'[k] = jps[k]
  OBVIOUS
<1>2. jps[i] \in JoinPoint
  BY DEF DomainsInv, JpsOK
<1>3. jps'[i] \in JoinPoint /\ jps'[i].domain = jps[i].domain
  <2>1. CASE jps' = [jps EXCEPT ![i].joined = TRUE]
    BY <1>2, <2>1 DEF JoinPoint
  <2>2. CASE jps' = [jps EXCEPT ![i].attrs = TRUE]
    BY <1>2, <2>2 DEF JoinPoint
  <2>3. ASSUME NEW g \in SUBSET Sids, jps' = [jps EXCEPT ![i].groups = @ \cup g]
        PROVE  jps'[i] \in JoinPoint /\ jps'[i].domain = jps[i].domain
    <3>1. jps[i].groups \cup g \in SUBSET Sids
      BY <1>2, <2>3 DEF JoinPoint
    <3>2. jps'[i] = [jps[i] EXCEPT !.groups = jps[i].groups \cup g]
      BY <2>3
    <3>3. QED
      BY <1>2, <3>1, <3>2 DEF JoinPoint
  <2>4. QED
    BY <2>1, <2>2, <2>3
<1>4. JpsOK'
  BY <1>1, <1>3 DEF DomainsInv, JpsOK
<1>5. \A k \in DOMAIN jps' : k \in DOMAIN jps /\ jps'[k].domain = jps[k].domain
  BY <1>1, <1>3
<1>6. QED
  BY <1>4, <1>5, WritesStep

(* Writes of other families touch no join point.                           *)
LEMMA QuietSteps ==
  ASSUME DomainsInv, UNCHANGED <<bundle, verdict, jps>>, quiet' => quiet,
         phase \notin {"export", "idle", "listJoinPoints"}
  PROVE  DomainsInv'
<1>1. JpsOK'
  BY DEF DomainsInv, JpsOK
<1>2. \A k \in DOMAIN jps' : k \in DOMAIN jps /\ jps'[k].domain = jps[k].domain
  OBVIOUS
<1>3. QED
  BY <1>1, <1>2, WritesStep

(* The steps of Directory.                                                 *)
LEMMA DirectoryStep ==
  ASSUME DomainsInv, DirectoryHandler
  PROVE  DomainsInv'
<1>1. CASE ListJoinPoints
  BY <1>1, ListJoinPointsStep
<1>2. CASE ListSources
  <2>1. PICK seen : verdict' = Added(verdict, SourceVerdicts(seen))
    BY <1>2 DEF ListSources
  <2>2. \A j : Jp(j) \notin DOMAIN SourceVerdicts(seen)
    BY KindsDiffer DEF SourceVerdicts
  <2>3. UNCHANGED <<jps, bundle>> /\ phase = "listSources" /\ (quiet' => quiet)
    BY <1>2 DEF ListSources, Fault, NoFault
  <2>4. QED
    BY <2>1, <2>2, <2>3, LaterListings
<1>3. ASSUME NEW i \in BundleJps, CreateJoinPoint(i) PROVE DomainsInv'
  BY <1>3, CreateJoinPointStep
<1>4. ASSUME NEW i \in BundleJps, LoadGroups(i) PROVE DomainsInv'
  <2>1. UNCHANGED <<bundle, verdict>> /\ (quiet' => quiet) /\ phase = "loadGroups"
    BY <1>4 DEF LoadGroups, Done, Fine, Refused, Lost, Fault, NoFault
  <2>2. CASE jps' = jps
    BY <2>1, <2>2, QuietSteps
  <2>3. CASE i \in DOMAIN jps /\ jps' = [jps EXCEPT ![i].groups = @ \cup SourceJps[i].groups]
    <3>1. SourceJps[i].groups \in SUBSET Sids
      BY DirectoryAssumption DEF BundleJps
    <3>2. QED
      BY <2>1, <2>3, <3>1, SettingStep
  <2>4. QED
    BY <1>4, <2>2, <2>3 DEF LoadGroups
<1>5. CASE ListForGroups \/ \E c \in Certs : CreateCert(c)
  <2>1. UNCHANGED <<bundle, verdict, jps>> /\ (quiet' => quiet) /\ phase \in {"apply", "loadGroups"}
    BY <1>5
    DEF ListForGroups, CreateCert, Applying, Done, Fine, Lost, Fault, NoFault
  <2>2. QED
    BY <2>1, QuietSteps
<1>6. QED
  BY <1>1, <1>2, <1>3, <1>4, <1>5 DEF DirectoryHandler

(* The steps of PolicyElements.                                            *)
LEMMA ElementsStep ==
  ASSUME DomainsInv,
         ListElements \/ CreateElement \/ (\E p \in DOMAIN Profiles : CreateWithoutRedirect(p)) \/ Finish
  PROVE  DomainsInv'
<1>1. CASE ListElements
  <2>1. PICK l : verdict' = Added(verdict, Listed(l))
    BY <1>1 DEF ListElements
  <2>2. \A j : Jp(j) \notin DOMAIN Listed(l)
    BY KindsDiffer DEF Listed, ElementVerdicts
  <2>3. UNCHANGED <<jps, bundle>> /\ phase = "listElements" /\ (quiet' => quiet)
    BY <1>1 DEF ListElements, Fault, NoFault
  <2>4. QED
    BY <2>1, <2>2, <2>3, LaterListings
<1>2. ASSUME NEW x, Create(x) PROVE DomainsInv'
  <2>1. UNCHANGED <<bundle, verdict, jps>> /\ (quiet' => quiet) /\ phase \in {"apply", "loadGroups"}
    BY <1>2 DEF Create, Done, Fine, Refused, Lost, Fault, NoFault
  <2>2. QED
    BY <2>1, QuietSteps
<1>3. ASSUME NEW p \in DOMAIN Profiles, CreateWithoutRedirect(p) PROVE DomainsInv'
  <2>1. UNCHANGED <<bundle, verdict, jps>> /\ (quiet' => quiet) /\ phase \in {"apply", "loadGroups"}
    BY <1>3 DEF CreateWithoutRedirect, Applying, Done, Fine, Refused, Lost, Fault, NoFault
  <2>2. QED
    BY <2>1, QuietSteps
<1>4. CASE Finish
  BY <1>4, QuietSteps DEF Finish, Applying
<1>5. QED
  BY <1>1, <1>2, <1>3, <1>4 DEF CreateElement

(* What the operator does between two imports.                             *)
LEMMA ManualSteps ==
  ASSUME DomainsInv, ManualStep
  PROVE  DomainsInv'
<1>1. UNCHANGED <<bundle, verdict, quiet>> /\ phase = "done"
  BY DEF ManualStep, JoinDomain, AddAttributes, BuildRestStore, Operator
<1>2. CASE jps' = jps
  BY <1>1, <1>2, QuietSteps
<1>3. ASSUME NEW i \in DOMAIN jps,
             jps' = [jps EXCEPT ![i].joined = TRUE] \/ jps' = [jps EXCEPT ![i].attrs = TRUE]
      PROVE  DomainsInv'
  BY <1>1, <1>3, SettingStep
<1>4. QED
  BY <1>2, <1>3 DEF ManualStep, JoinDomain, AddAttributes, BuildRestStore

(* When somebody else changes the target nothing is promised any more.     *)
LEMMA AdminStep ==
  ASSUME DomainsInv, Admin
  PROVE  DomainsInv'
<1>1. ~quiet'
  BY DEF Admin, AdminAdds, AdminDeletes, AdminAddsJp, AdminDeletesJp, Edit
<1>2. JpsOK'
  <2>1. CASE jps' = jps
    BY <2>1 DEF DomainsInv, JpsOK
  <2>2. ASSUME NEW j \in JoinPoints, NEW d \in Domains, AdminAddsJp(j, d) PROVE JpsOK'
    <3> DEFINE new == [domain |-> d, joined |-> FALSE, groups |-> {}, attrs |-> FALSE]
    <3>1. new \in JoinPoint
      BY DEF JoinPoint
    <3>2. jps' = Extend(jps, j, new)
      BY <2>2 DEF AdminAddsJp
    <3> HIDE DEF new
    <3>3. QED
      BY <3>1, <3>2 DEF Extend, DomainsInv, JpsOK
  <2>3. ASSUME NEW j, AdminDeletesJp(j) PROVE JpsOK'
    BY <2>3 DEF AdminDeletesJp, DomainsInv, JpsOK
  <2>4. QED
    BY <2>1, <2>2, <2>3 DEF Admin, AdminAdds, AdminDeletes
<1>3. QED
  BY <1>1, <1>2 DEF DomainsInv

(* DomainsInv is inductive.                                                *)
LEMMA DomainsStep == DomainsInv /\ [Next]_vars => DomainsInv'
<1> SUFFICES ASSUME DomainsInv, [Next]_vars PROVE DomainsInv'
  OBVIOUS
<1>1. CASE Handler
  BY <1>1, DirectoryStep, ElementsStep DEF Handler
<1>2. CASE ManualStep
  BY <1>2, ManualSteps
<1>3. CASE Admin
  BY <1>3, AdminStep
<1>4. CASE Export \/ ApplyRequest
  BY <1>4 DEF Export, ApplyRequest, DomainsInv, JpsOK
<1>5. CASE UNCHANGED vars
  BY <1>5 DEF vars, directory, DomainsInv, JpsOK, AnnouncedAlone, BundleJps, Creates
<1>6. QED
  BY <1>1, <1>2, <1>3, <1>4, <1>5 DEF Next

(* An undisturbed import adds no join point for a domain that the target   *)
(* knows under another name.                                               *)
THEOREM ElementsOneJoinPointPerDomain == Spec => []OneJoinPointPerDomain
<1>1. DomainsInv => OneJoinPointPerDomain
  BY DEF DomainsInv, AnnouncedAlone, OneJoinPointPerDomain
<1>2. QED
  BY <1>1, DomainsInit, DomainsStep, PTL DEF Spec

-----------------------------------------------------------------------------
(* Types of the variables.                                                 *)

\* The steps that send a write to the target.
Writes ==
  \/ (\E j \in BundleJps : CreateJoinPoint(j) \/ LoadGroups(j)) /\ Elsewhere
  \/ (\E c \in Certs : CreateCert(c)) /\ Elsewhere
  \/ CreateElement
  \/ \E p \in DOMAIN Profiles : CreateWithoutRedirect(p)

(* A write takes its item off the list and names it in the result or not.  *)
LEMMA WriteDone ==
  ASSUME Writes
  PROVE  /\ Applying
         /\ \E x \in todo : Turn(x) /\ Done(x) /\ told' \in {told, told \cup {x}}
         /\ NoFault \/ Fault
<1> DEFINE Written(x) ==
      /\ Applying /\ x \in todo /\ Turn(x) /\ Done(x) /\ told' \in {told, told \cup {x}}
      /\ NoFault \/ Fault
<1>1. ASSUME NEW j \in BundleJps, CreateJoinPoint(j)
      PROVE  Written(Jp(j))
  BY <1>1 DEF CreateJoinPoint, Fine, Lost, Turn
<1>2. ASSUME NEW j \in BundleJps, LoadGroups(j)
      PROVE  Written(GroupsOf(j))
  BY <1>2 DEF LoadGroups, Fine, Lost, Refused, Turn, Applying
<1>3. ASSUME NEW c \in Certs, CreateCert(c)
      PROVE  Written(Cert(c))
  BY <1>3 DEF CreateCert, Fine, Lost, Turn
<1>4. ASSUME NEW x, Create(x)
      PROVE  Written(x)
  BY <1>4 DEF Create, Fine, Lost, Refused, Turn, Applying
<1>5. ASSUME NEW p \in DOMAIN Profiles, CreateWithoutRedirect(p)
      PROVE  Written(Profile(p))
  BY <1>5 DEF CreateWithoutRedirect, Fine, Lost, Refused, Turn
<1>6. \E x : Written(x)
  BY <1>1, <1>2, <1>3, <1>4, <1>5 DEF Writes, CreateElement
<1>7. QED
  BY <1>6

(* The steps, as the proofs below take them.                               *)
LEMMA StepCases ==
  ASSUME [Next]_vars
  PROVE  \/ Export \/ ApplyRequest \/ ListElements \/ Writes \/ Finish \/ Admin
         \/ (ListJoinPoints \/ ListSources \/ ListForGroups \/ ManualStep) /\ Elsewhere
         \/ UNCHANGED vars
  BY DEF Next, Handler, DirectoryHandler, Writes

(* What the names of objects are made of.                                  *)
LEMMA Kinds ==
  /\ \A j : Jp(j)[1] = "joinPoint" /\ Jp(j)[2] = j
  /\ \A j : GroupsOf(j)[1] = "groups" /\ GroupsOf(j)[2] = j
  /\ \A c : Cert(c)[1] = "certificateProfile" /\ Cert(c)[2] = c
  /\ \A r : Rest(r)[1] = "restIDStore" /\ Rest(r)[2] = r
  /\ \A n : Ndg(n)[1] = "networkDeviceGroup" /\ Ndg(n)[2] = n
  /\ \A n : Shell(n)[1] = "shell" /\ Shell(n)[2] = n
  /\ \A d : Dacl(d)[1] = "dacl" /\ Dacl(d)[2] = d
  /\ \A p : Profile(p)[1] = "authorizationProfile" /\ Profile(p)[2] = p
  /\ \A s : Sequence(s)[1] = "idStoreSequence" /\ Sequence(s)[2] = s
  /\ \A c : Condition(c)[1] = "condition" /\ Condition(c)[2] = c
BY DEF Jp, GroupsOf, Cert, Rest, Ndg, Shell, Dacl, Profile, Sequence, Condition

(* What a step of pre-flight adds to the announcements.                    *)
LEMMA AddedCreates ==
  ASSUME NEW new, verdict' = Added(verdict, new)
  PROVE  \A x \in Creates' : x \in Creates \/ (x \in DOMAIN new /\ new[x] = "create")
  BY DEF Added, Creates

(* Nothing is written while pre-flight judges.                             *)
LEMMA CleanStep ==
  ASSUME CleanStart, [Next]_vars
  PROVE  CleanStart'
<1>1. CASE (ListJoinPoints \/ ListSources) /\ Elsewhere
  <2>1. todo' = {} /\ told' = {} /\ bare' = {}
    BY <1>1 DEF ListJoinPoints, ListSources, Elsewhere, CleanStart, Judging
  <2>2. \A x \in Creates' : x[1] \in {"joinPoint", "groups", "certificateProfile"}
    <3>1. CASE ListJoinPoints
      <4>1. verdict' = <<>> \/ \E seen : verdict' = JpVerdicts(seen)
        BY <3>1 DEF ListJoinPoints
      <4>2. \A seen : \A x \in DOMAIN JpVerdicts(seen) :
               JpVerdicts(seen)[x] = "create" => x[1] \in {"joinPoint", "groups"}
        BY DEF JpVerdicts
      <4>3. QED
        BY <4>1, <4>2 DEF Creates
    <3>2. CASE ListSources
      <4>1. PICK seen : verdict' = Added(verdict, SourceVerdicts(seen))
        BY <3>2 DEF ListSources
      <4>2. \A x \in DOMAIN SourceVerdicts(seen) :
               SourceVerdicts(seen)[x] = "create" => x[1] = "certificateProfile"
        BY DEF SourceVerdicts, SourceVerdict
      <4>3. \A x \in Creates : x[1] \in {"joinPoint", "groups", "certificateProfile"}
        BY <3>2 DEF ListSources, CleanStart, Judging
      <4>4. QED
        BY <4>1, <4>2, <4>3, AddedCreates
    <3>3. QED
      BY <1>1, <3>1, <3>2
  <2>3. QED
    BY <2>1, <2>2 DEF CleanStart
<1>2. CASE ApplyRequest
  BY <1>2 DEF ApplyRequest, CleanStart, Creates
<1>3. CASE Export \/ ListElements \/ ListForGroups \/ Finish
  <2>1. phase' \notin {"listJoinPoints", "listSources", "listElements"}
    BY <1>3 DEF Export, ListElements, ListForGroups, Finish
  <2>2. QED
    BY <2>1 DEF CleanStart, Judging
<1>4. CASE Writes
  BY <1>4, WriteDone DEF Done, Applying, CleanStart, Judging
<1>5. CASE Admin
  <2>1. UNCHANGED <<phase, todo, told, verdict>> /\ bare' \subseteq bare
    BY <1>5 DEF Admin, AdminAdds, AdminDeletes, AdminAddsJp, AdminDeletesJp, Edit
  <2>2. QED
    BY <2>1 DEF CleanStart, Judging, Creates
<1>6. CASE ManualStep
  BY <1>6 DEF ManualStep, JoinDomain, AddAttributes, BuildRestStore, Operator, CleanStart, Judging
<1>7. CASE UNCHANGED vars
  BY <1>7 DEF vars, directory, CleanStart, Judging, Creates
<1>8. QED
  BY <1>1, <1>2, <1>3, <1>4, <1>5, <1>6, <1>7, StepCases

(* The target's objects other than join points stay of their kinds, and    *)
(* the objects without all of their content are among them.                *)
LEMMA HaveStep ==
  ASSUME have \subseteq TargetItems, bare \subseteq have, bundle \subseteq SourceItems, [Next]_vars
  PROVE  have' \subseteq TargetItems /\ bare' \subseteq have'
<1>1. CASE UNCHANGED <<have, bare>>
  BY <1>1 DEF TargetItems
<1>2. CASE \E c \in Certs : CreateCert(c) /\ Elsewhere
  BY <1>2 DEF CreateCert, Elsewhere, TargetItems
<1>3. CASE ApplyRequest
  BY <1>3 DEF ApplyRequest, TargetItems
<1>4. ASSUME NEW x \in Elements \cup {Shell(a) : a \in Ancestors}, Create(x)
      PROVE  have' \subseteq TargetItems /\ bare' \subseteq have'
  <2> DEFINE key == IF x[1] = "shell" THEN Ndg(x[2]) ELSE x
  <2>1. key \in TargetItems
    <3>1. CASE x \in {Shell(a) : a \in Ancestors}
      BY <3>1, Kinds DEF TargetItems
    <3>2. CASE x \in Elements
      <4>1. x[1] # "shell"
        BY <3>2, Kinds DEF Elements
      <4>2. QED
        BY <3>2, <4>1 DEF TargetItems
    <3>3. QED
      BY <3>1, <3>2
  <2>2. (have' = have \cup {key} /\ bare' \subseteq bare \cup {key}) \/ UNCHANGED <<have, bare>>
    BY <1>4 DEF Create
  <2>3. QED
    BY <2>1, <2>2
<1>5. ASSUME CreateElement
      PROVE  \E x \in Elements \cup {Shell(a) : a \in Ancestors} : Create(x)
  BY <1>5 DEF CreateElement, Elements, Ancestors
<1>6. ASSUME NEW p \in DOMAIN Profiles, CreateWithoutRedirect(p)
      PROVE  have' \subseteq TargetItems /\ bare' \subseteq have'
  <2>1. Profile(p) \in TargetItems
    BY DEF TargetItems, Elements
  <2>2. \/ have' = have \cup {Profile(p)} /\ bare' = bare \cup {Profile(p)}
        \/ UNCHANGED <<have, bare>>
    BY <1>6 DEF CreateWithoutRedirect
  <2>3. QED
    BY <2>1, <2>2
<1>7. CASE Admin
  <2>1. ASSUME NEW x \in Elements \cup {Cert(c) : c \in Certs}, AdminAdds(x)
        PROVE  have' \subseteq TargetItems /\ bare' \subseteq have'
    BY <2>1 DEF AdminAdds, TargetItems
  <2>2. ASSUME NEW x, AdminDeletes(x)
        PROVE  have' \subseteq TargetItems /\ bare' \subseteq have'
    BY <2>2 DEF AdminDeletes, TargetItems
  <2>3. QED
    BY <1>1, <1>7, <2>1, <2>2 DEF Admin, AdminAddsJp, AdminDeletesJp
<1>8. CASE ManualStep /\ Elsewhere
  <2>1. have' = have \/ \E r \in RestStores : have' = have \cup {Rest(r)}
    BY <1>8 DEF ManualStep, JoinDomain, AddAttributes, BuildRestStore
  <2>2. QED
    BY <1>8, <2>1 DEF Elsewhere, TargetItems
<1>9. CASE \/ Export \/ ListElements \/ Finish \/ UNCHANGED vars
           \/ (ListJoinPoints \/ ListSources \/ ListForGroups) /\ Elsewhere
           \/ (\E j \in BundleJps : CreateJoinPoint(j) \/ LoadGroups(j)) /\ Elsewhere
  BY <1>1, <1>9 DEF Export, ListElements, Finish, vars, directory, ListJoinPoints, ListSources,
     ListForGroups, CreateJoinPoint, LoadGroups, Elsewhere
<1>10. QED
  BY <1>2, <1>3, <1>4, <1>5, <1>6, <1>7, <1>8, <1>9, StepCases DEF Writes

(* Join points on the target bear known names.                             *)
LEMMA JpNamesStep ==
  ASSUME DOMAIN jps \subseteq JoinPoints, [Next]_vars
  PROVE  DOMAIN jps' \subseteq JoinPoints
<1>1. ASSUME NEW j \in BundleJps, CreateJoinPoint(j) \/ LoadGroups(j)
      PROVE  DOMAIN jps' \subseteq JoinPoints
  <2>1. j \in JoinPoints
    BY DirectoryAssumption DEF BundleJps
  <2>2. QED
    BY <1>1, <2>1 DEF CreateJoinPoint, LoadGroups, Extend
<1>2. CASE Admin
  BY <1>2 DEF Admin, AdminAdds, AdminDeletes, AdminAddsJp, AdminDeletesJp, Extend
<1>3. CASE ManualStep
  BY <1>3 DEF ManualStep, JoinDomain, AddAttributes, BuildRestStore
<1>4. CASE \/ Export \/ ApplyRequest \/ ListElements \/ Finish \/ UNCHANGED vars
           \/ ListJoinPoints \/ ListSources \/ ListForGroups
           \/ (\E c \in Certs : CreateCert(c)) \/ CreateElement
           \/ \E p \in DOMAIN Profiles : CreateWithoutRedirect(p)
  <2>1. jps' = jps
    BY <1>4 DEF Export, ApplyRequest, ListElements, Finish, vars, directory, ListJoinPoints,
       ListSources, ListForGroups, CreateCert, CreateElement, Create, CreateWithoutRedirect
  <2>2. QED
    BY <2>1
<1>5. QED
  BY <1>1, <1>2, <1>3, <1>4, StepCases DEF Writes

(* The report's verdicts, and what is to be done and named because of it.  *)
ReportTyped ==
  /\ todo \subseteq Creates /\ told \subseteq Creates
  /\ \A x \in DOMAIN verdict : verdict[x] \in {"create", "skip", "blocked"}

LEMMA VerdictsTyped ==
  /\ \A seen : \A x \in DOMAIN JpVerdicts(seen) :
       JpVerdicts(seen)[x] \in {"create", "skip", "blocked"}
  /\ \A seen : \A x \in DOMAIN SourceVerdicts(seen) :
       SourceVerdicts(seen)[x] \in {"create", "skip", "blocked"}
  /\ \A failing : \A x \in DOMAIN Listed(failing) :
       Listed(failing)[x] \in {"create", "skip", "blocked"}
<1>1. \A seen : \A x \in DOMAIN JpVerdicts(seen) :
        JpVerdicts(seen)[x] \in {"create", "skip", "blocked"}
  BY DEF JpVerdicts, JpVerdict, GroupsVerdict
<1>2. \A seen : \A x \in DOMAIN SourceVerdicts(seen) :
        SourceVerdicts(seen)[x] \in {"create", "skip", "blocked"}
  BY DEF SourceVerdicts, SourceVerdict
<1>3. \A failing : \A x \in DOMAIN Listed(failing) :
        Listed(failing)[x] \in {"create", "skip", "blocked"}
  BY DEF Listed, ElementVerdicts
<1>4. QED
  BY <1>1, <1>2, <1>3

LEMMA AddedTyped ==
  ASSUME NEW f, NEW g, NEW T, \A x \in DOMAIN f : f[x] \in T, \A x \in DOMAIN g : g[x] \in T
  PROVE  \A x \in DOMAIN Added(f, g) : Added(f, g)[x] \in T
  BY DEF Added

LEMMA ReportStep ==
  ASSUME ReportTyped, CleanStart, [Next]_vars
  PROVE  ReportTyped'
<1>1. CASE ListJoinPoints
  <2>1. todo' = {} /\ told' = {}
    BY <1>1 DEF ListJoinPoints, CleanStart, Judging
  <2>2. \A x \in DOMAIN verdict' : verdict'[x] \in {"create", "skip", "blocked"}
    <3>1. verdict' = <<>> \/ \E seen : verdict' = JpVerdicts(seen)
      BY <1>1 DEF ListJoinPoints
    <3>2. QED
      BY <3>1, VerdictsTyped
  <2>3. QED
    BY <2>1, <2>2 DEF ReportTyped
<1>2. CASE ListSources
  <2>1. todo' = {} /\ told' = {}
    BY <1>2 DEF ListSources, CleanStart, Judging
  <2>2. \E seen : verdict' = Added(verdict, SourceVerdicts(seen))
    BY <1>2 DEF ListSources
  <2>3. QED
    BY <2>1, <2>2, VerdictsTyped, AddedTyped DEF ReportTyped
<1>3. CASE ListElements
  <2>1. told' = {} /\ todo' = Creates'
    BY <1>3 DEF ListElements, CleanStart, Judging
  <2>2. \E l : verdict' = Added(verdict, Listed(l))
    BY <1>3 DEF ListElements
  <2>3. QED
    BY <2>1, <2>2, VerdictsTyped, AddedTyped DEF ReportTyped
<1>4. CASE ApplyRequest
  BY <1>4 DEF ApplyRequest, ReportTyped
<1>5. CASE Writes
  BY <1>5, WriteDone DEF Done, ReportTyped, Creates
<1>6. CASE Export \/ ListForGroups \/ Finish \/ Admin \/ ManualStep \/ UNCHANGED vars
  <2>1. UNCHANGED <<verdict, told>> /\ todo' \subseteq todo
    BY <1>6 DEF Export, ListForGroups, Finish, Admin, AdminAdds, AdminDeletes, AdminAddsJp,
       AdminDeletesJp, Edit, ManualStep, JoinDomain, AddAttributes, BuildRestStore, Operator,
       vars, directory
  <2>2. QED
    BY <2>1 DEF ReportTyped, Creates
<1>7. QED
  BY <1>1, <1>2, <1>3, <1>4, <1>5, <1>6, StepCases

(* The flags and the bounds of a step.                                     *)
RunTyped ==
  /\ silent \in BOOLEAN /\ quiet \in BOOLEAN /\ deleted \in BOOLEAN
  /\ edits \in 0..MaxEdits /\ faults \in 0..MaxFaults

LEMMA RunStep ==
  ASSUME RunTyped, [Next]_vars
  PROVE  RunTyped'
<1>1. faults' = faults \/ (faults < MaxFaults /\ faults' = faults + 1)
  BY StepCases, WriteDone DEF Export, ApplyRequest, ListElements, Finish, ListJoinPoints, ListSources,
     ListForGroups, Admin, AdminAdds, AdminDeletes, AdminAddsJp, AdminDeletesJp, Edit, ManualStep,
     JoinDomain, AddAttributes, BuildRestStore, Operator, vars, directory, Fault, NoFault
<1>2. edits' = edits \/ (edits < MaxEdits /\ edits' = edits + 1)
  BY StepCases, WriteDone DEF Export, ApplyRequest, ListElements, Finish, ListJoinPoints, ListSources,
     ListForGroups, Admin, AdminAdds, AdminDeletes, AdminAddsJp, AdminDeletesJp, Edit, ManualStep,
     JoinDomain, AddAttributes, BuildRestStore, Operator, vars, directory, Done
<1>3. quiet' = FALSE \/ quiet' = TRUE \/ quiet' = quiet
  BY StepCases, WriteDone DEF Export, ApplyRequest, ListElements, Finish, ListJoinPoints, ListSources,
     ListForGroups, Admin, AdminAdds, AdminDeletes, AdminAddsJp, AdminDeletesJp, Edit, ManualStep,
     JoinDomain, AddAttributes, BuildRestStore, Operator, vars, directory, Fault, NoFault
<1>4. /\ deleted' = FALSE \/ deleted' = TRUE \/ deleted' = deleted
      /\ silent' = FALSE \/ silent' = TRUE \/ silent' = silent
  BY StepCases, WriteDone DEF Export, ApplyRequest, ListElements, Finish, ListJoinPoints, ListSources,
     ListForGroups, Admin, AdminAdds, AdminDeletes, AdminAddsJp, AdminDeletesJp, Edit, ManualStep,
     JoinDomain, AddAttributes, BuildRestStore, Operator, vars, directory, Done
<1>5. edits' \in 0..MaxEdits /\ faults' \in 0..MaxFaults
  BY <1>1, <1>2, DirectoryBounds DEF RunTyped
<1>6. quiet' \in BOOLEAN
  BY <1>3 DEF RunTyped
<1>7. deleted' \in BOOLEAN /\ silent' \in BOOLEAN
  BY <1>4 DEF RunTyped
<1>8. QED
  BY <1>5, <1>6, <1>7 DEF RunTyped

(* What is left: the bundle, the phase, the portal and targetByName.       *)
RestTyped ==
  /\ bundle \subseteq SourceItems /\ loadable \subseteq JoinPoints /\ portal \in BOOLEAN
  /\ phase \in {"export", "idle", "listJoinPoints", "listSources", "listElements", "apply",
                "loadGroups", "done"}

LEMMA RestStep ==
  ASSUME RestTyped, DOMAIN jps \subseteq JoinPoints, [Next]_vars
  PROVE  RestTyped'
<1>1. bundle' \subseteq SourceItems
  <2>1. bundle' = bundle \/ \E missed : bundle' = SourceItems \ missed
    BY StepCases, WriteDone DEF Export, ApplyRequest, ListElements, Finish, ListJoinPoints, ListSources,
       ListForGroups, Admin, AdminAdds, AdminDeletes, AdminAddsJp, AdminDeletesJp, Edit, ManualStep,
       JoinDomain, AddAttributes, BuildRestStore, Operator, vars, directory, Done
  <2>2. QED
    BY <2>1 DEF RestTyped
<1>2. loadable' \in {loadable, {}, DOMAIN jps}
  BY StepCases, WriteDone DEF Export, ApplyRequest, ListElements, Finish, ListJoinPoints, ListSources,
     ListForGroups, Admin, AdminAdds, AdminDeletes, AdminAddsJp, AdminDeletesJp, Edit, ManualStep,
     JoinDomain, AddAttributes, BuildRestStore, Operator, vars, directory, Done
<1>3. portal' = portal
  BY StepCases DEF Export, ApplyRequest, ListElements, Finish, Elsewhere, Writes, CreateElement, Create,
     CreateWithoutRedirect, Admin, AdminAdds, AdminDeletes, vars
<1>4. \/ phase' = phase
      \/ phase' \in {"idle", "listJoinPoints", "listSources", "listElements", "apply", "loadGroups", "done"}
  BY StepCases, WriteDone DEF Export, ApplyRequest, ListElements, Finish, ListJoinPoints, ListSources,
     ListForGroups, Admin, AdminAdds, AdminDeletes, AdminAddsJp, AdminDeletesJp, Edit, ManualStep,
     JoinDomain, AddAttributes, BuildRestStore, Operator, vars, directory, Done
<1>5. QED
  BY <1>1, <1>2, <1>3, <1>4 DEF RestTyped

\* TypeOK in these parts.
LEMMA TypeParts ==
  JpsOK => (TypeOK <=> /\ DOMAIN jps \subseteq JoinPoints /\ have \subseteq TargetItems /\ bare \subseteq have
                       /\ ReportTyped /\ RunTyped /\ RestTyped)
<1>1. Creates \subseteq DOMAIN verdict
  BY DEF Creates
<1>2. {silent, quiet, deleted} \subseteq BOOLEAN <=>
        silent \in BOOLEAN /\ quiet \in BOOLEAN /\ deleted \in BOOLEAN
  OBVIOUS
<1>3. QED
  BY <1>1, <1>2, Zenon DEF TypeOK, DirectoryTypeOK, JpsOK, ReportTyped, RunTyped, RestTyped

LEMMA TypeStep ==
  ASSUME TypeOK, JpsOK, JpsOK', CleanStart, [Next]_vars
  PROVE  TypeOK'
<1>1. /\ DOMAIN jps \subseteq JoinPoints /\ have \subseteq TargetItems /\ bare \subseteq have
      /\ ReportTyped /\ RunTyped /\ RestTyped
  BY TypeParts
<1>2. bundle \subseteq SourceItems
  BY <1>1 DEF RestTyped
<1>3. /\ DOMAIN jps' \subseteq JoinPoints /\ have' \subseteq TargetItems' /\ bare' \subseteq have'
      /\ ReportTyped' /\ RunTyped' /\ RestTyped'
  <2>1. TargetItems' = TargetItems
    BY DEF TargetItems
  <2>2. QED
    BY <1>1, <1>2, <2>1, JpNamesStep, HaveStep, ReportStep, RunStep, RestStep
<1>4. QED
  BY <1>3 DEF TypeOK, DirectoryTypeOK, JpsOK, ReportTyped, RunTyped, RestTyped, Creates

LEMMA TypeInit == Init => TypeOK
<1> SUFFICES ASSUME Init PROVE TypeOK
  OBVIOUS
<1>1. PICK t \in Starts : jps = t.jps /\ have = t.have \cup Factory
  BY DEF Init
<1>2. DOMAIN jps \subseteq JoinPoints /\ JpsOK
  BY <1>1, StartsAssumption DEF JpsOK
<1>3. have \subseteq TargetItems
  BY <1>1, ElementsBounds DEF TargetItems, SourceItems
<1>4. ReportTyped /\ bare = {}
  BY DEF Init, ReportTyped, Creates
<1>5. RestTyped
  BY Zenon DEF Init, RestTyped
<1>6. RunTyped
  <2>1. edits \in 0..MaxEdits /\ faults \in 0..MaxFaults
    BY DirectoryBounds DEF Init
  <2>2. silent \in BOOLEAN /\ quiet \in BOOLEAN /\ deleted \in BOOLEAN
    BY DEF Init
  <2>3. QED
    BY <2>1, <2>2 DEF RunTyped
<1>7. QED
  BY <1>2, <1>3, <1>4, <1>5, <1>6, TypeParts

(* Types, for every bundle and every target.                               *)
THEOREM ElementsTypeOK == Spec => []TypeOK
<1>1. Init => CleanStart
  BY DEF Init, CleanStart, Judging
<1>2. Spec => []CleanStart
  BY <1>1, CleanStep, PTL DEF Spec
<1>3. Spec => []DomainsInv
  BY DomainsInit, DomainsStep, PTL DEF Spec
<1>4. TypeOK /\ CleanStart /\ DomainsInv /\ DomainsInv' /\ [Next]_vars => TypeOK'
  BY TypeStep DEF DomainsInv
<1>5. QED
  BY <1>2, <1>3, <1>4, TypeInit, PTL DEF Spec

-----------------------------------------------------------------------------
(* What was announced is done or named.                                    *)

\* Nothing is taken from the target.
Grown ==
  /\ have \subseteq have' /\ DOMAIN jps \subseteq DOMAIN jps'
  /\ \A j \in DOMAIN jps :
       /\ jps[j].groups \subseteq jps'[j].groups
       /\ jps[j].joined => jps'[j].joined
       /\ jps[j].attrs => jps'[j].attrs

LEMMA SettingGrows ==
  ASSUME JpsOK, have \subseteq have', NEW i \in DOMAIN jps,
         \/ jps' = [jps EXCEPT ![i].joined = TRUE]
         \/ jps' = [jps EXCEPT ![i].attrs = TRUE]
         \/ \E g : jps' = [jps EXCEPT ![i].groups = @ \cup g]
  PROVE  Grown
<1>1. DOMAIN jps' = DOMAIN jps /\ \A k \in DOMAIN jps : k # i => jps'[k] = jps[k]
  OBVIOUS
<1>2. jps[i] \in JoinPoint
  BY DEF JpsOK
<1>3. /\ jps[i].groups \subseteq jps'[i].groups
      /\ jps[i].joined => jps'[i].joined
      /\ jps[i].attrs => jps'[i].attrs
  BY <1>2 DEF JoinPoint
<1>4. QED
  BY <1>1, <1>3 DEF Grown

LEMMA JpAddedGrows ==
  ASSUME have \subseteq have', NEW i, i \notin DOMAIN jps, NEW new, jps' = Extend(jps, i, new)
  PROVE  Grown
<1>1. DOMAIN jps \subseteq DOMAIN jps' /\ \A k \in DOMAIN jps : jps'[k] = jps[k]
  BY DEF Extend
<1>2. QED
  BY <1>1 DEF Grown

LEMMA WritesGrow ==
  ASSUME JpsOK, Writes
  PROVE  Grown
<1>1. ASSUME NEW j \in BundleJps, CreateJoinPoint(j)
      PROVE  Grown
  <2>1. have \subseteq have'
    BY <1>1 DEF CreateJoinPoint
  <2>2. CASE UNCHANGED jps
    BY <2>1, <2>2 DEF Grown
  <2>3. QED
    BY <1>1, <2>1, <2>2, JpAddedGrows DEF CreateJoinPoint
<1>2. ASSUME NEW j \in BundleJps, LoadGroups(j)
      PROVE  Grown
  <2>1. have \subseteq have'
    BY <1>2 DEF LoadGroups
  <2>2. CASE UNCHANGED jps
    BY <2>1, <2>2 DEF Grown
  <2>3. QED
    BY <1>2, <2>1, <2>2, SettingGrows DEF LoadGroups
<1>3. CASE \/ \E c \in Certs : CreateCert(c)
           \/ CreateElement \/ \E p \in DOMAIN Profiles : CreateWithoutRedirect(p)
  <2>1. UNCHANGED jps /\ have \subseteq have'
    BY <1>3 DEF CreateCert, CreateElement, Create, CreateWithoutRedirect
  <2>2. QED
    BY <2>1 DEF Grown
<1>4. QED
  BY <1>1, <1>2, <1>3 DEF Writes

(* Only somebody else's deletion takes anything away from the target.      *)
LEMMA NothingLost ==
  ASSUME JpsOK, [Next]_vars
  PROVE  (deleted' /\ ~quiet') \/ Grown
<1>1. CASE Writes
  BY <1>1, WritesGrow
<1>2. CASE ManualStep
  <2>1. ASSUME NEW j \in JoinPoints, JoinDomain(j) \/ AddAttributes(j)
        PROVE  Grown
    BY <2>1, SettingGrows DEF JoinDomain, AddAttributes
  <2>2. ASSUME NEW r \in RestStores, BuildRestStore(r)
        PROVE  Grown
    BY <2>2 DEF BuildRestStore, Grown
  <2>3. QED
    BY <1>2, <2>1, <2>2 DEF ManualStep
<1>3. CASE Admin
  <2>1. ASSUME NEW j \in JoinPoints, NEW d \in Domains, AdminAddsJp(j, d)
        PROVE  Grown
    BY <2>1, JpAddedGrows DEF AdminAddsJp
  <2>2. ASSUME NEW x, AdminAdds(x)
        PROVE  Grown
    BY <2>2 DEF AdminAdds, Grown
  <2>3. ASSUME (\E x : AdminDeletes(x)) \/ \E j : AdminDeletesJp(j)
        PROVE  deleted' /\ ~quiet'
    BY <2>3 DEF AdminDeletes, AdminDeletesJp, Edit
  <2>4. QED
    BY <1>3, <2>1, <2>2, <2>3 DEF Admin
<1>4. CASE UNCHANGED <<jps, have>>
  BY <1>4 DEF Grown
<1>5. QED
  BY <1>1, <1>2, <1>3, <1>4, StepCases DEF Export, ApplyRequest, ListElements, Finish, ListJoinPoints,
     ListSources, ListForGroups, vars, directory

LEMMA OnTargetStays ==
  ASSUME Grown
  PROVE  \A x : OnTarget(x) => OnTarget(x)'
<1> SUFFICES ASSUME NEW x, OnTarget(x) PROVE OnTarget(x)'
  OBVIOUS
<1>1. CASE x[1] = "joinPoint"
  BY <1>1 DEF OnTarget, Grown
<1>2. CASE x[1] = "groups"
  BY <1>2 DEF OnTarget, Grown
<1>3. CASE x[1] = "shell"
  BY <1>3 DEF OnTarget, Grown
<1>4. CASE x[1] \notin {"joinPoint", "groups", "shell"}
  BY <1>4 DEF OnTarget, Grown
<1>5. QED
  BY <1>1, <1>2, <1>3, <1>4

(* A write leaves its item on the target or names it in the result; what   *)
(* it leaves without content is a device group, or named.                  *)
LEMMA WriteTried ==
  ASSUME TypeOK, Writes
  PROVE  \E x \in todo :
           /\ Turn(x) /\ todo' = todo \ {x}
           /\ UNCHANGED <<bundle, phase, verdict, silent, deleted>> /\ told \subseteq told'
           /\ x \in told' \/ OnTarget(x)'
           /\ \A y \in bare' : y \in bare \/ y[1] = "networkDeviceGroup" \/ (y = x /\ x \in told')
<1> DEFINE Tried(x) ==
      /\ x \in todo /\ Turn(x) /\ todo' = todo \ {x}
      /\ UNCHANGED <<bundle, phase, verdict, silent, deleted>> /\ told \subseteq told'
      /\ x \in told' \/ OnTarget(x)'
      /\ \A y \in bare' : y \in bare \/ y[1] = "networkDeviceGroup" \/ (y = x /\ x \in told')
<1>0. JpsOK
  BY DEF TypeOK, DirectoryTypeOK, JpsOK
<1>1. ASSUME NEW j \in BundleJps, CreateJoinPoint(j), Elsewhere
      PROVE  Tried(Jp(j))
  <2>1. j \in DOMAIN jps' \/ Jp(j) \in told'
    BY <1>1 DEF CreateJoinPoint, Fine, Lost, Extend
  <2>2. OnTarget(Jp(j))' <=> j \in DOMAIN jps'
    BY Kinds DEF OnTarget
  <2>3. QED
    BY <1>1, <2>1, <2>2 DEF CreateJoinPoint, Elsewhere, Done, Turn, Fine, Lost
<1>2. ASSUME NEW j \in BundleJps, LoadGroups(j), Elsewhere
      PROVE  Tried(GroupsOf(j))
  <2>1. OnTarget(GroupsOf(j))' <=> j \in DOMAIN jps' /\ SourceJps[j].groups \subseteq jps'[j].groups
    BY Kinds DEF OnTarget
  <2>2. CASE j \in DOMAIN jps /\ jps' = [jps EXCEPT ![j].groups = @ \cup SourceJps[j].groups]
    <3>1. jps[j] \in JoinPoint
      BY <1>0, <2>2 DEF JpsOK
    <3>2. jps'[j].groups = jps[j].groups \cup SourceJps[j].groups
      BY <2>2, <3>1 DEF JoinPoint
    <3>3. j \in DOMAIN jps'
      BY <2>2
    <3>4. OnTarget(GroupsOf(j))'
      BY <2>1, <3>2, <3>3
    <3>5. QED
      BY <1>2, <3>4 DEF LoadGroups, Elsewhere, Done, Turn, Fine, Refused, Lost
  <2>3. CASE GroupsOf(j) \in told'
    BY <1>2, <2>3 DEF LoadGroups, Elsewhere, Done, Turn, Fine, Lost, Refused
  <2>4. QED
    BY <1>2, <2>2, <2>3 DEF LoadGroups, Lost, Refused
<1>3. ASSUME NEW c \in Certs, CreateCert(c), Elsewhere
      PROVE  Tried(Cert(c))
  <2>1. Cert(c) \in have' \/ Cert(c) \in told'
    BY <1>3 DEF CreateCert, Fine, Lost
  <2>2. OnTarget(Cert(c))' <=> Cert(c) \in have'
    BY Kinds DEF OnTarget
  <2>3. QED
    BY <1>3, <2>1, <2>2 DEF CreateCert, Elsewhere, Done, Turn, Fine, Lost
<1>4. ASSUME NEW x, x[1] \notin {"joinPoint", "groups"}, Create(x)
      PROVE  Tried(x)
  <2> DEFINE key == IF x[1] = "shell" THEN Ndg(x[2]) ELSE x
  <2>1. key \in have' \/ x \in told'
    BY <1>4 DEF Create, Fine, Lost, Refused
  <2>2. key \in have' => OnTarget(x)'
    BY <1>4 DEF OnTarget
  <2>3. \A y \in bare' : y \in bare \/ y[1] = "networkDeviceGroup"
    BY <1>4, Kinds DEF Create
  <2>4. QED
    BY <1>4, <2>1, <2>2, <2>3 DEF Create, Done, Turn, Fine, Lost, Refused
<1>5. ASSUME NEW p \in DOMAIN Profiles, CreateWithoutRedirect(p)
      PROVE  Tried(Profile(p))
  <2>1. Profile(p) \in have' \/ Profile(p) \in told'
    BY <1>5 DEF CreateWithoutRedirect, Fine, Lost, Refused
  <2>2. OnTarget(Profile(p))' <=> Profile(p) \in have'
    BY Kinds DEF OnTarget
  <2>3. \A y \in bare' : y \in bare \/ (y = Profile(p) /\ Profile(p) \in told')
    BY <1>5 DEF CreateWithoutRedirect, Lost, Refused
  <2>4. QED
    BY <1>5, <2>1, <2>2, <2>3 DEF CreateWithoutRedirect, Done, Turn, Fine, Lost, Refused
<1>6. ASSUME CreateElement
      PROVE  \E x : x[1] \notin {"joinPoint", "groups"} /\ Create(x)
  BY <1>6, Kinds DEF CreateElement
<1>7. \E x : Tried(x)
  BY <1>1, <1>2, <1>3, <1>4, <1>5, <1>6 DEF Writes
<1>8. QED
  BY <1>7

(* A step that writes nothing and takes nothing away.                      *)
LEMMA FrameKeepsReported ==
  ASSUME JpsOK, ReportedInv, [Next]_vars, UNCHANGED <<phase, verdict, todo, told, silent>>,
         deleted => deleted', bare' \subseteq bare
  PROVE  ReportedInv'
<1>1. Creates' = Creates
  BY DEF Creates
<1>2. deleted' \/ Grown
  BY NothingLost
<1>3. Judged' = Judged
  BY DEF Judged, Applying
<1>4. QED
  BY <1>1, <1>2, <1>3, OnTargetStays DEF ReportedInv

LEMMA WriteKeepsReported ==
  ASSUME TypeOK, ReportedInv, Writes
  PROVE  ReportedInv'
<1>1. PICK x \in todo :
           /\ Turn(x) /\ todo' = todo \ {x}
           /\ UNCHANGED <<bundle, phase, verdict, silent, deleted>> /\ told \subseteq told'
           /\ x \in told' \/ OnTarget(x)'
           /\ \A y \in bare' : y \in bare \/ y[1] = "networkDeviceGroup" \/ (y = x /\ x \in told')
  BY WriteTried
<1>2. Creates' = Creates /\ Applying /\ (Judged' <=> Judged)
  BY <1>1, WriteDone DEF Creates, Judged, Applying
<1>3. \A y : OnTarget(y) => OnTarget(y)'
  <2>1. JpsOK
    BY DEF TypeOK, DirectoryTypeOK, JpsOK
  <2>2. QED
    BY <2>1, WritesGrow, OnTargetStays
<1>4. \A y \in bare' : y[1] = "networkDeviceGroup" \/ y \notin todo'
  BY <1>1 DEF ReportedInv
<1>5. ASSUME ~deleted', NEW y \in Creates
      PROVE  \/ y \in todo'
             \/ OnTarget(y)' /\ (y \in bare' => y[1] = "networkDeviceGroup")
             \/ y \in told'
             \/ y[1] = "groups" /\ silent'
  <2>1. CASE y = x
    BY <1>1, <2>1 DEF ReportedInv
  <2>2. CASE y # x
    BY <1>1, <1>2, <1>3, <1>5, <2>2 DEF ReportedInv, Judged
  <2>3. QED
    BY <2>1, <2>2
<1>6. phase' # "done"
  BY <1>1, <1>2 DEF Applying
<1>7. QED
  BY <1>2, <1>4, <1>5, <1>6 DEF ReportedInv

LEMMA ReportedStep ==
  ASSUME TypeOK, CleanStart, ReportedInv, [Next]_vars
  PROVE  ReportedInv'
<1>0. JpsOK
  BY DEF TypeOK, DirectoryTypeOK, JpsOK
<1>1. CASE \/ Export \/ ApplyRequest
           \/ (ListJoinPoints \/ ListSources) /\ Elsewhere
  <2>1. /\ phase' \in {"idle", "listJoinPoints", "listSources", "listElements"}
        /\ todo' \subseteq todo /\ bare' \subseteq bare
    BY <1>1 DEF Export, ApplyRequest, ListJoinPoints, ListSources, Elsewhere
  <2>2. QED
    BY <2>1 DEF ReportedInv, Judged, Applying
<1>2. CASE ListElements
  <2>1. /\ todo' = Creates' /\ bare' = {} /\ phase' \in {"done", "apply"}
        /\ phase' = "done" => todo' = {}
    BY <1>2 DEF ListElements, CleanStart, Judging
  <2>2. QED
    BY <2>1 DEF ReportedInv
<1>3. CASE Writes
  BY <1>3, WriteKeepsReported
<1>4. CASE ListForGroups /\ Elsewhere
  <2>1. /\ UNCHANGED <<jps, have, verdict, told, deleted, bare>> /\ phase = "apply"
        /\ \/ todo' = todo /\ silent' = silent /\ phase' = "loadGroups"
           \/ todo' = {x \in todo : x[1] # "groups"} /\ silent' = TRUE /\ phase' = "apply"
    BY <1>4 DEF ListForGroups, Elsewhere
  <2>2. \A x : OnTarget(x)' <=> OnTarget(x)
    BY <2>1 DEF OnTarget
  <2>3. Creates' = Creates /\ Judged
    BY <2>1 DEF Creates, Judged, Applying
  <2>4. QED
    BY <2>1, <2>2, <2>3 DEF ReportedInv
<1>5. CASE Finish
  <2>1. UNCHANGED <<jps, have, verdict, told, deleted, bare, todo, silent>> /\ Judged /\ todo = {}
    BY <1>5 DEF Finish, Judged
  <2>2. \A x : OnTarget(x)' <=> OnTarget(x)
    BY <2>1 DEF OnTarget
  <2>3. QED
    BY <2>1, <2>2 DEF ReportedInv, Creates
<1>6. CASE Admin
  <2>1. UNCHANGED <<phase, verdict, todo, told, silent>> /\ bare' \subseteq bare
    BY <1>6 DEF Admin, AdminAdds, AdminDeletes, AdminAddsJp, AdminDeletesJp, Edit
  <2>2. deleted => deleted'
    BY <1>6 DEF Admin, AdminAdds, AdminDeletes, AdminAddsJp, AdminDeletesJp
  <2>3. QED
    BY <1>0, <2>1, <2>2, FrameKeepsReported
<1>7. CASE (ManualStep /\ Elsewhere) \/ UNCHANGED vars
  <2>1. UNCHANGED <<phase, verdict, todo, told, silent, deleted, bare>>
    BY <1>7 DEF ManualStep, JoinDomain, AddAttributes, BuildRestStore, Operator, Elsewhere, vars, directory
  <2>2. QED
    BY <1>0, <2>1, FrameKeepsReported
<1>8. \/ Export \/ ApplyRequest \/ ListElements \/ Writes \/ Finish \/ Admin
      \/ (ListJoinPoints \/ ListSources) /\ Elsewhere
      \/ ListForGroups /\ Elsewhere
      \/ ManualStep /\ Elsewhere
      \/ UNCHANGED vars
  BY StepCases
<1>9. QED
  BY <1>1, <1>2, <1>3, <1>4, <1>5, <1>6, <1>7, <1>8

THEOREM ElementsReportedInv == Spec => []ReportedInv
<1>1. Init => CleanStart /\ ReportedInv
  BY DEF Init, CleanStart, Judging, ReportedInv, Judged, Applying
<1>2. CleanStart /\ [Next]_vars => CleanStart'
  BY CleanStep
<1>3. TypeOK /\ CleanStart /\ ReportedInv /\ [Next]_vars => ReportedInv'
  BY ReportedStep
<1>4. QED
  BY <1>1, <1>2, <1>3, ElementsTypeOK, PTL DEF Spec

(* What an import announced and the target does not have as the bundle     *)
(* describes it is named in the result, for every bundle and every target, *)
(* unless somebody deleted something or the group load was given up.       *)
THEOREM ElementsIncompleteIsReported == Spec => []IncompleteIsReported
<1>1. ReportedInv => IncompleteIsReported
  BY DEF ReportedInv, IncompleteIsReported, Judged
<1>2. QED
  BY <1>1, ElementsReportedInv, PTL

-----------------------------------------------------------------------------
(* What pre-flight announced is carried out.                               *)

(* Ranks by kind.                                                          *)
LEMMA RankByKind ==
  /\ \A j : Rank(Jp(j)) = 0 /\ Rank(GroupsOf(j)) = 1
  /\ \A c : Rank(Cert(c)) = 2
  /\ \A n : Len(n) \in Nat => Rank(Shell(n)) = 10 + Len(n) /\ Rank(Ndg(n)) = 20 + Len(n)
  /\ \A d : Rank(Dacl(d)) = 30
  /\ \A p : Rank(Profile(p)) = 31
  /\ \A s : Rank(Sequence(s)) = 32
  /\ \A c : Rank(Condition(c)) = 33
<1>1. /\ Order["joinPoint"] = 0 /\ Order["groups"] = 1 /\ Order["certificateProfile"] = 2
      /\ Order["shell"] = 10 /\ Order["networkDeviceGroup"] = 20 /\ Order["dacl"] = 30
      /\ Order["authorizationProfile"] = 31 /\ Order["idStoreSequence"] = 32
      /\ Order["condition"] = 33
  BY DEF Order
<1>2. QED
  BY <1>1, Kinds DEF Rank

(* The ancestors of a device group, and the parents of these.              *)
LEMMA AncestorParents ==
  ASSUME NEW n \in Ndgs
  PROVE  /\ n \in Seq(STRING) /\ Len(n) \in Nat /\ Len(n) >= 2
         /\ Len(n) > 2 => /\ SubSeq(n, 1, Len(n) - 1) \in ExtractAncestors(n)
                         /\ Len(SubSeq(n, 1, Len(n) - 1)) = Len(n) - 1
         /\ \A a \in ExtractAncestors(n) :
              /\ a \in Seq(STRING) /\ Len(a) \in Nat /\ Len(a) >= 2
              /\ Len(a) > 2 => /\ SubSeq(a, 1, Len(a) - 1) \in ExtractAncestors(n)
                              /\ Len(SubSeq(a, 1, Len(a) - 1)) = Len(a) - 1
<1>1. n \in Seq(STRING) /\ Len(n) \in Nat /\ Len(n) >= 2
  BY ElementsAssumption
<1>2. \A i \in 2..(Len(n) - 1) :
        /\ SubSeq(n, 1, i) \in Seq(STRING) /\ Len(SubSeq(n, 1, i)) = i
        /\ \A j \in 1..i : SubSeq(n, 1, i)[j] = n[j]
  BY <1>1
<1>3. ASSUME NEW i \in 2..(Len(n) - 1), i > 2
      PROVE  /\ SubSeq(SubSeq(n, 1, i), 1, i - 1) = SubSeq(n, 1, i - 1)
             /\ i - 1 \in 2..(Len(n) - 1)
  <2> DEFINE a == SubSeq(n, 1, i)
  <2>1. /\ a \in Seq(STRING) /\ Len(a) = i /\ i - 1 \in 2..(Len(n) - 1)
        /\ \A j \in 1..i : a[j] = n[j]
    BY <1>1, <1>2, <1>3
  <2> HIDE DEF a
  <2>2. /\ SubSeq(a, 1, i - 1) \in Seq(STRING) /\ Len(SubSeq(a, 1, i - 1)) = i - 1
        /\ \A j \in 1..(i - 1) : SubSeq(a, 1, i - 1)[j] = a[j]
    BY <1>1, <2>1
  <2>3. /\ SubSeq(n, 1, i - 1) \in Seq(STRING) /\ Len(SubSeq(n, 1, i - 1)) = i - 1
        /\ \A j \in 1..(i - 1) : SubSeq(n, 1, i - 1)[j] = n[j]
    BY <1>2, <2>1
  <2>4. SubSeq(a, 1, i - 1) = SubSeq(n, 1, i - 1)
    BY <2>1, <2>2, <2>3, SeqEqual
  <2>5. QED
    BY <2>1, <2>4 DEF a
<1>4. ASSUME NEW a \in ExtractAncestors(n)
      PROVE  /\ a \in Seq(STRING) /\ Len(a) \in Nat /\ Len(a) >= 2
             /\ Len(a) > 2 => /\ SubSeq(a, 1, Len(a) - 1) \in ExtractAncestors(n)
                             /\ Len(SubSeq(a, 1, Len(a) - 1)) = Len(a) - 1
  <2>1. PICK i \in 2..(Len(n) - 1) : a = SubSeq(n, 1, i)
    BY DEF ExtractAncestors
  <2>2. a \in Seq(STRING) /\ Len(a) = i
    BY <1>2, <2>1
  <2>3. CASE i > 2
    <3>1. SubSeq(a, 1, i - 1) = SubSeq(n, 1, i - 1) /\ i - 1 \in 2..(Len(n) - 1)
      BY <1>3, <2>1, <2>3
    <3>2. SubSeq(a, 1, i - 1) \in ExtractAncestors(n) /\ Len(SubSeq(a, 1, i - 1)) = i - 1
      BY <1>2, <3>1 DEF ExtractAncestors
    <3>3. QED
      BY <1>1, <2>2, <2>3, <3>2
  <2>4. QED
    BY <1>1, <2>2, <2>3
<1>5. Len(n) > 2 => Len(n) - 1 \in 2..(Len(n) - 1)
  BY <1>1
<1>6. QED
  BY <1>1, <1>2, <1>4, <1>5 DEF ExtractAncestors

(* A set of numbers that is not empty has a least member.                  *)
LEMMA LeastNumber ==
  ASSUME NEW S \in SUBSET Nat, S # {}
  PROVE  \E i \in S : \A j \in S : i <= j
<1> DEFINE R == OpToRel(<, Nat)
<1>1. IsWellFoundedOn(R, Nat)
  BY NatLessThanWellFounded, Zenon
<1>2. \A i, j \in Nat : <<j, i>> \in R <=> j < i
  BY DEF OpToRel
<1> HIDE DEF R
<1>3. \E i \in S : \A j \in S : <<j, i>> \notin R
  BY <1>1, WFMin
<1>4. \E i \in S : \A j \in S : ~(j < i)
  BY <1>2, <1>3
<1>5. \A i, j \in S : ~(j < i) => i <= j
  OBVIOUS
<1>6. QED
  BY <1>4, <1>5

(* The item whose turn it is has the least rank of those left.             *)
LEMMA TurnIsLeast ==
  ASSUME \A z \in todo : Rank(z) \in Nat, NEW x, Turn(x)
  PROVE  \A z \in todo : Rank(x) <= Rank(z)
<1> DEFINE ranks == {Rank(z) : z \in todo}
<1>1. ranks \in SUBSET Nat /\ ranks # {}
  BY DEF Turn
<1>2. \E i \in ranks : \A j \in ranks : i <= j
  <2> HIDE DEF ranks
  <2>1. QED
    BY <1>1, LeastNumber
<1>3. \E y \in todo : \A z \in todo : Rank(y) <= Rank(z)
  BY <1>2
<1>4. QED
  BY <1>3 DEF Turn

(* What each step of pre-flight announces.                                 *)
LEMMA JpCreates ==
  ASSUME NEW seen
  PROVE  \A x \in DOMAIN JpVerdicts(seen) : JpVerdicts(seen)[x] = "create" => x \in Creatable
<1> SUFFICES ASSUME NEW x \in DOMAIN JpVerdicts(seen), JpVerdicts(seen)[x] = "create"
             PROVE  x \in Creatable
  OBVIOUS
<1>1. \/ \E j \in BundleJps : x = Jp(j) \/ x = GroupsOf(j)
      \/ \E j : x = AttrsOf(j)
  BY DEF JpVerdicts
<1>2. ASSUME NEW j, x = AttrsOf(j)
      PROVE  FALSE
  <2>1. x[1] = "attributes"
    BY <1>2 DEF AttrsOf
  <2>2. JpVerdicts(seen)[x] = "blocked"
    BY <2>1 DEF JpVerdicts
  <2>3. QED
    BY <2>2
<1>3. QED
  BY <1>1, <1>2 DEF Creatable

LEMMA SourceCreates ==
  ASSUME bundle \subseteq SourceItems, NEW seen
  PROVE  \A x \in DOMAIN SourceVerdicts(seen) : SourceVerdicts(seen)[x] = "create" => x \in Creatable
<1> SUFFICES ASSUME NEW x \in DOMAIN SourceVerdicts(seen), SourceVerdicts(seen)[x] = "create"
             PROVE  x \in Creatable
  OBVIOUS
<1>1. x \in bundle /\ x[1] = "certificateProfile"
  BY DEF SourceVerdicts, SourceVerdict
<1>2. x \in SourceItems
  BY <1>1
<1>3. \E c \in Certs : x = Cert(c)
  BY <1>1, <1>2, Kinds DEF SourceItems, Elements
<1>4. QED
  BY <1>3 DEF Creatable

LEMMA ElementCreates ==
  ASSUME NEW failing
  PROVE  \A x \in DOMAIN Listed(failing) : x \in Creatable
<1>1. \A listed : Shells(listed) \subseteq {Shell(a) : a \in Ancestors}
  BY DEF Shells, Ancestors, BundleNdgs
<1>2. QED
  BY <1>1 DEF Listed, ElementVerdicts, Creatable

(* The bundle misses no certificate profile.                               *)
LEMMA ExportKeepsKnown ==
  ASSUME KnownInv, Export
  PROVE  KnownInv'
<1>1. PICK missed \in SUBSET (MayMiss \cap SourceItems) : bundle' = SourceItems \ missed
  BY DEF Export
<1>2. \A c \in Certs : Cert(c) \in bundle'
  <2>1. \A c : Cert(c) \notin MayMiss
    BY ElementsBounds, Kinds
  <2>2. QED
    BY <1>1, <2>1 DEF SourceItems
<1>3. Creates' = {} /\ have' = have /\ phase' = "idle"
  BY DEF Export, KnownInv, Creates
<1>4. QED
  BY <1>2, <1>3 DEF KnownInv, Factory

LEMMA KnownStep ==
  ASSUME TypeOK, KnownInv, [Next]_vars
  PROVE  KnownInv'
<1>1. CASE Export
  BY <1>1, ExportKeepsKnown
<1>2. CASE ~Export
  <2>1. bundle' = bundle /\ (phase' = "export" => phase = "export")
    BY <1>2, StepCases, WriteDone DEF ApplyRequest, ListElements, Finish, ListJoinPoints, ListSources,
       ListForGroups, Admin, AdminAdds, AdminDeletes, AdminAddsJp, AdminDeletesJp, Edit, ManualStep,
       JoinDomain, AddAttributes, BuildRestStore, Operator, vars, directory, Done
  <2>2. Factory \subseteq have'
    <3>1. have \subseteq have' \/ \E x : AdminDeletes(x)
      BY <1>2, StepCases DEF ApplyRequest, ListElements, Finish, ListJoinPoints, ListSources,
         ListForGroups, Admin, AdminAdds, AdminAddsJp, AdminDeletesJp, ManualStep,
         JoinDomain, AddAttributes, BuildRestStore, vars, directory, Writes, CreateElement, Create,
         CreateWithoutRedirect, CreateJoinPoint, LoadGroups, CreateCert
    <3>2. QED
      BY <3>1 DEF KnownInv, AdminDeletes
  <2>3. Creatable' = Creatable
    BY <2>1 DEF Creatable, BundleJps
  <2>4. CASE ListJoinPoints
    <3>1. verdict' = <<>> \/ \E seen : verdict' = JpVerdicts(seen)
      BY <2>4 DEF ListJoinPoints
    <3>2. Creates' \subseteq Creatable
      BY <3>1, JpCreates DEF Creates
    <3>3. QED
      BY <2>1, <2>2, <2>3, <2>4, <3>2 DEF KnownInv, ListJoinPoints, Factory
  <2>5. CASE ListSources
    <3>1. PICK seen : verdict' = Added(verdict, SourceVerdicts(seen))
      BY <2>5 DEF ListSources
    <3>2. bundle \subseteq SourceItems
      BY DEF TypeOK
    <3>3. Creates' \subseteq Creatable
      BY <3>1, <3>2, AddedCreates, SourceCreates DEF KnownInv
    <3>4. QED
      BY <2>1, <2>2, <2>3, <2>5, <3>3 DEF KnownInv, ListSources, Factory
  <2>6. CASE ListElements
    <3>1. PICK l : verdict' = Added(verdict, Listed(l))
      BY <2>6 DEF ListElements
    <3>2. Creates' \subseteq Creatable
      BY <3>1, AddedCreates, ElementCreates DEF KnownInv
    <3>3. phase' # "export"
      BY <2>6 DEF ListElements
    <3>4. QED
      BY <2>1, <2>2, <2>3, <2>6, <3>2, <3>3 DEF KnownInv, ListElements, Factory
  <2>7. CASE ~(ListJoinPoints \/ ListSources \/ ListElements)
    <3>1. verdict' = verdict \/ verdict' = <<>>
      BY <1>2, <2>7, StepCases, WriteDone DEF ApplyRequest, Finish, ListForGroups, Admin, AdminAdds,
         AdminDeletes, AdminAddsJp, AdminDeletesJp, Edit, ManualStep, JoinDomain, AddAttributes,
         BuildRestStore, Operator, vars, directory, Done
    <3>2. Creates' \subseteq Creates
      BY <3>1 DEF Creates
    <3>3. \/ phase = "export" /\ phase' = "export"
          \/ phase' # "export" /\ (phase # "export" \/ ApplyRequest)
      BY <1>2, <2>1, <2>7, StepCases, WriteDone DEF ApplyRequest, Finish, ListForGroups, Admin, AdminAdds,
         AdminDeletes, AdminAddsJp, AdminDeletesJp, Edit, ManualStep, JoinDomain, AddAttributes,
         BuildRestStore, Operator, vars, directory, Done, Applying
    <3>4. QED
      BY <2>1, <2>2, <2>3, <3>2, <3>3 DEF KnownInv, ApplyRequest, Factory
  <2>8. QED
    BY <2>4, <2>5, <2>6, <2>7
<1>3. QED
  BY <1>1, <1>2

(* A step of an undisturbed run has no fault and is nobody else's.         *)
LEMMA QuietStep ==
  ASSUME [Next]_vars, quiet'
  PROVE  /\ ~Admin
         /\ ~ApplyRequest => quiet /\ ~Fault
<1>1. ~Edit /\ ~Fault
  BY DEF Edit, Fault
<1>2. ~Admin
  BY <1>1 DEF Admin, AdminAdds, AdminDeletes, AdminAddsJp, AdminDeletesJp
<1>3. ASSUME ~ApplyRequest
      PROVE  quiet
  <2>1. quiet' = quiet
    BY <1>1, <1>2, <1>3, StepCases, WriteDone DEF Export, ListElements, Finish, ListJoinPoints,
       ListSources, ListForGroups, ManualStep, JoinDomain, AddAttributes, BuildRestStore, Operator,
       vars, directory, NoFault
  <2>2. QED
    BY <2>1
<1>4. QED
  BY <1>1, <1>2, <1>3

(* The items that may be announced have a place in the order.              *)
LEMMA RankOfCreatable == \A x \in Creatable : Rank(x) \in Nat
<1>1. \A a \in Ancestors : Len(a) \in Nat
  BY AncestorParents DEF Ancestors
<1>2. \A n \in Ndgs : Len(n) \in Nat
  BY AncestorParents
<1>3. \A x \in Elements : Rank(x) \in Nat
  BY <1>2, RankByKind DEF Elements
<1>4. QED
  BY <1>1, <1>3, RankByKind DEF Creatable

(* What an item needs comes before it.                                     *)
LEMMA ReadyAccepted ==
  ASSUME todo \subseteq Creatable, NEW x \in todo, Ready(x), \A z \in todo : Rank(x) <= Rank(z)
  PROVE  Accepted(x)
<1>1. CASE x[1] \in {"shell", "networkDeviceGroup"}
  <2> DEFINE n == x[2]
             parent == SubSeq(n, 1, Len(n) - 1)
  <2>1. \/ x = Shell(n) /\ n \in Ancestors
        \/ x = Ndg(n) /\ n \in Ndgs
    BY <1>1, Kinds DEF Creatable, Elements
  <2>2. /\ Len(n) \in Nat
        /\ Len(n) > 2 => Len(parent) = Len(n) - 1
    BY <2>1, AncestorParents DEF Ancestors
  <2>3. Rank(x) >= 10 + Len(n)
    BY <2>1, <2>2, RankByKind
  <2>4. Len(n) > 2 => Rank(Shell(parent)) = 10 + (Len(n) - 1)
    <3>1. Len(n) > 2 => Len(parent) \in Nat /\ Len(parent) = Len(n) - 1
      BY <2>2
    <3> HIDE DEF parent
    <3>2. Len(parent) \in Nat => Rank(Shell(parent)) = 10 + Len(parent)
      BY RankByKind
    <3>3. QED
      BY <3>1, <3>2
  <2>5. Len(n) > 2 => Shell(parent) \notin todo
    <3>1. Rank(x) \in Nat
      BY RankOfCreatable
    <3>2. QED
      BY <2>2, <2>3, <2>4, <3>1
  <2>6. Len(n) >= 2 /\ (Len(n) > 2 => Ndg(parent) \in have)
    BY <1>1, <2>5 DEF Ready, ParentComes
  <2>7. QED
    BY <1>1, <2>6 DEF Accepted
<1>2. CASE x[1] = "idStoreSequence"
  <2>1. Rank(x) = 32
    BY <1>2, RankByKind, Kinds DEF Creatable, Elements
  <2>2. ASSUME NEW z \in todo
        PROVE  z[1] \notin {"joinPoint", "certificateProfile"}
    <3>1. z[1] = "joinPoint" => Rank(z) = 0
      BY RankByKind, Kinds DEF Creatable, Elements
    <3>2. z[1] = "certificateProfile" => Rank(z) = 2
      BY RankByKind, Kinds DEF Creatable, Elements
    <3>3. QED
      BY <2>1, <3>1, <3>2
  <2>3. \A y \in Sequences[x[2]] : OnTarget(y)
    BY <1>2, <2>2 DEF Ready
  <2>4. QED
    BY <1>2, <2>3 DEF Accepted
<1>3. CASE x[1] = "authorizationProfile"
  BY <1>3 DEF Ready
<1>4. CASE x[1] \notin {"shell", "networkDeviceGroup", "idStoreSequence", "authorizationProfile"}
  BY <1>4 DEF Accepted
<1>5. QED
  BY <1>1, <1>2, <1>3, <1>4

(* What an item needs stays there, or comes.                               *)
LEMMA ReadyStays ==
  ASSUME Grown, NEW x, todo' = todo \ {x}, OnTarget(x)' \/ x[1] = "groups", NEW y, Ready(y)
  PROVE  Ready(y)'
<1>1. ASSUME y[1] \in {"shell", "networkDeviceGroup"}, Len(y[2]) > 2
      PROVE  ParentComes(y[2])'
  <2> DEFINE parent == SubSeq(y[2], 1, Len(y[2]) - 1)
  <2>1. Ndg(parent) \in have \/ Shell(parent) \in todo
    BY <1>1 DEF Ready, ParentComes
  <2>2. x = Shell(parent) => Ndg(parent) \in have'
    BY Kinds DEF OnTarget
  <2>3. Ndg(parent) \in have' \/ Shell(parent) \in todo'
    BY <2>1, <2>2 DEF Grown
  <2>4. QED
    BY <2>3 DEF ParentComes
<1>2. ASSUME y[1] = "authorizationProfile"
      PROVE  Accepted(y)'
  <2> DEFINE p == Profiles[y[2]]
  <2>1. (p.dacl # None => Dacl(p.dacl) \in have) /\ (p.reads # None => p.reads \in Joined \cap Exposing)
    BY <1>2 DEF Ready, Accepted
  <2>2. Joined \subseteq Joined' /\ Exposing \subseteq Exposing' /\ have \subseteq have'
    BY DEF Grown, Joined, Exposing
  <2>3. (p.dacl # None => Dacl(p.dacl) \in have') /\ (p.reads # None => p.reads \in Joined' \cap Exposing')
    BY <2>1, <2>2
  <2>4. QED
    BY <1>2, <2>3 DEF Accepted
<1>3. ASSUME y[1] = "idStoreSequence", NEW z \in Sequences[y[2]]
      PROVE  OnTarget(z)' \/ (z \in todo' /\ z[1] \in {"joinPoint", "certificateProfile"})
  <2>1. OnTarget(z) \/ (z \in todo /\ z[1] \in {"joinPoint", "certificateProfile"})
    BY <1>3 DEF Ready
  <2>2. OnTarget(z) => OnTarget(z)'
    BY OnTargetStays
  <2>3. z \in todo => z \in todo' \/ z = x
    OBVIOUS
  <2>4. QED
    BY <2>1, <2>2, <2>3
<1>4. y[1] \in {"shell", "networkDeviceGroup"} => Len(y[2]) >= 2
  BY DEF Ready
<1>5. QED
  BY <1>1, <1>2, <1>3, <1>4 DEF Ready

(* When pre-flight is over, an element that was announced finds what it    *)
(* names on the target or among the announcements.                         *)
LEMMA PreflightReady ==
  ASSUME TypeOK, CleanStart, KnownInv, KeptInv, [Next]_vars, ListElements, quiet'
  PROVE  \A x \in todo' : Ready(x)'
<1> DEFINE sources == IdentitySourcesAfterThisRun(have)
           joinPoints == JoinPointsAfterThisRun(DOMAIN jps)
           new == ElementVerdicts(have, Joined, Exposing, sources, joinPoints)
<1>1. quiet /\ ~Fault
  BY QuietStep DEF ListElements, ApplyRequest
<1>2. /\ phase = "listElements" /\ UNCHANGED <<jps, have, bundle>> /\ todo' = Creates'
      /\ {Cert(c) : c \in Certs} \subseteq have \cup Creates
      /\ \A x \in Creates : x[1] \in {"joinPoint", "groups", "certificateProfile"}
  BY <1>1 DEF ListElements, KeptInv, CleanStart, Judging
<1>3. \A x \in have : x[1] \notin {"none", "shell", "joinPoint", "groups"}
  BY Kinds DEF TypeOK, TargetItems, Elements, Factory
<1>4. verdict' = Added(verdict, new)
  <2>1. Unlisted("none") = have
    BY <1>3 DEF Unlisted
  <2>2. Listed("none") = new
    BY <2>1 DEF Listed
  <2>3. QED
    BY <1>1, <2>2 DEF ListElements
<1>5. /\ DOMAIN new = {y \in bundle : y \in Elements} \cup Shells(have)
      /\ \A x \in DOMAIN new : new[x] = "create" =>
           /\ x \notin have
           /\ x[1] = "authorizationProfile" => ProfileRefs(x[2], have, Joined, Exposing)
           /\ x[1] = "idStoreSequence" => SequenceRefs(x[2], sources, joinPoints)
      /\ \A x \in DOMAIN new : x[1] = "shell" /\ x \notin have => new[x] = "create"
  BY DEF ElementVerdicts
<1> HIDE DEF new
<1>6. \A x \in todo' : \/ x[1] \in {"joinPoint", "groups", "certificateProfile"}
                       \/ x \in DOMAIN new /\ new[x] = "create"
  BY <1>2, <1>4, AddedCreates
<1>7. Creates \ DOMAIN new \subseteq todo'
  BY <1>2, <1>4 DEF Added, Creates
<1>8. Creates \subseteq todo'
  <2>1. \A x \in DOMAIN new : x[1] \notin {"joinPoint", "groups", "certificateProfile"}
    BY <1>5, Kinds DEF Elements, Shells
  <2>2. QED
    BY <1>2, <1>7, <2>1
<1>9. ASSUME NEW n \in BundleNdgs, NEW a \in ExtractAncestors(n)
      PROVE  Ndg(a) \in have \/ Shell(a) \in todo'
  <2>1. CASE Ndg(a) \notin have
    <3>1. Shell(a) \in Shells(have)
      BY <1>9, <2>1 DEF Shells
    <3>2. Shell(a)[1] = "shell" /\ Shell(a) \notin have
      BY <1>3, Kinds
    <3>3. Shell(a) \in DOMAIN new /\ new[Shell(a)] = "create"
      BY <1>5, <3>1, <3>2
    <3>4. QED
      BY <1>2, <1>4, <3>3 DEF Added, Creates
  <2>2. QED
    BY <2>1
<1>10. ASSUME NEW x \in DOMAIN new, x[1] \in {"shell", "networkDeviceGroup"}
       PROVE  Len(x[2]) >= 2 /\ (Len(x[2]) > 2 => ParentComes(x[2])')
  <2>1. \E n \in BundleNdgs : x[2] = n \/ x[2] \in ExtractAncestors(n)
    <3>1. CASE x \in Shells(have)
      <4>1. PICK a \in UNION {ExtractAncestors(n) : n \in BundleNdgs} : x = Shell(a)
        BY <3>1 DEF Shells
      <4>2. x[2] = a
        BY <4>1, Kinds
      <4>3. QED
        BY <4>1, <4>2
    <3>2. CASE x \in bundle /\ x \in Elements
      <4>1. PICK n \in Ndgs : x = Ndg(n)
        BY <1>10, <3>2, Kinds DEF Elements
      <4>2. QED
        BY <3>2, <4>1, Kinds DEF BundleNdgs
    <3>3. QED
      BY <1>5, <3>1, <3>2
  <2>2. PICK n \in BundleNdgs : x[2] = n \/ x[2] \in ExtractAncestors(n)
    BY <2>1
  <2>3. n \in Ndgs
    BY DEF BundleNdgs
  <2>4. Len(x[2]) >= 2 /\ (Len(x[2]) > 2 => SubSeq(x[2], 1, Len(x[2]) - 1) \in ExtractAncestors(n))
    BY <2>2, <2>3, AncestorParents
  <2>5. QED
    BY <1>2, <1>9, <2>4 DEF ParentComes
<1>11. ASSUME NEW x \in DOMAIN new, new[x] = "create", x[1] = "authorizationProfile"
       PROVE  Accepted(x)'
  <2> DEFINE p == Profiles[x[2]]
  <2>1. ~Before("dacl", "authorizationProfile")
    BY DEF Before, BundleOrder
  <2>2. /\ p.dacl = None \/ Dacl(p.dacl) \in have
        /\ p.reads = None \/ p.reads \in Joined \cap Exposing
    BY <1>5, <1>11, <2>1 DEF ProfileRefs, DaclsAtProfile
  <2>3. Joined' = Joined /\ Exposing' = Exposing
    BY <1>2 DEF Joined, Exposing
  <2>4. (p.dacl # None => Dacl(p.dacl) \in have') /\ (p.reads # None => p.reads \in Joined' \cap Exposing')
    BY <1>2, <2>2, <2>3
  <2>5. QED
    BY <1>11, <2>4 DEF Accepted
<1>12. ASSUME NEW x \in DOMAIN new, new[x] = "create", x[1] = "idStoreSequence",
              NEW y \in Sequences[x[2]]
       PROVE  OnTarget(y)' \/ (y \in todo' /\ y[1] \in {"joinPoint", "certificateProfile"})
  <2>1. /\ y[1] = "joinPoint" => y[2] \in joinPoints
        /\ y[1] \notin {"joinPoint", "certificateProfile"} => y \in sources
    BY <1>5, <1>12 DEF SequenceRefs
  <2>2. y \in SourceItems
    <3>1. x \in Elements
      BY <1>5, <1>12, Kinds DEF Shells
    <3>2. x[2] \in DOMAIN Sequences
      BY <1>12, <3>1, Kinds DEF Elements
    <3>3. QED
      BY <3>2, ElementsAssumption
  <2>3. CASE y[1] = "joinPoint"
    <3>1. y = Jp(y[2])
      BY <2>2, <2>3, Kinds DEF SourceItems, Elements
    <3>2. y[2] \in DOMAIN jps \/ y \in Creates
      BY <2>1, <2>3, <3>1 DEF JoinPointsAfterThisRun
    <3>3. y[2] \in DOMAIN jps => OnTarget(y)'
      BY <1>2, <2>3 DEF OnTarget
    <3>4. QED
      BY <1>8, <2>3, <3>2, <3>3
  <2>4. CASE y[1] = "certificateProfile"
    <3>1. \E c \in Certs : y = Cert(c)
      BY <2>2, <2>4, Kinds DEF SourceItems, Elements
    <3>2. y \in have \/ y \in Creates
      BY <1>2, <3>1
    <3>3. y \in have => OnTarget(y)'
      BY <1>2, <2>4 DEF OnTarget
    <3>4. QED
      BY <1>8, <2>4, <3>2, <3>3
  <2>5. CASE y[1] \notin {"joinPoint", "certificateProfile"}
    <3>1. y \in have \cup Creates /\ y[1] = "restIDStore"
      BY <2>1, <2>5 DEF IdentitySourcesAfterThisRun
    <3>2. y \in have
      BY <1>2, <3>1
    <3>3. QED
      BY <1>2, <3>1, <3>2 DEF OnTarget
  <2>6. QED
    BY <2>3, <2>4, <2>5
<1>13. QED
  BY <1>6, <1>10, <1>11, <1>12 DEF Ready

(* Two items never have their turn at once.                                *)
LEMMA OneTurn ==
  ASSUME NEW x, NEW y, Turn(x), Turn(y)
  PROVE  x = y
  BY DEF Turn

(* A write that meets no fault and finds what it needs leaves its item on  *)
(* the target, but for groups that wait for the domain to be joined.       *)
LEMMA QuietWrite ==
  ASSUME Writes, ~Fault, NEW x, Turn(x), Accepted(x), x[1] # "groups"
  PROVE  OnTarget(x)'
<1>1. ASSUME NEW j \in BundleJps, CreateJoinPoint(j)
      PROVE  OnTarget(x)'
  <2>1. x = Jp(j)
    BY <1>1, OneTurn DEF CreateJoinPoint
  <2>2. j \in DOMAIN jps'
    BY <1>1 DEF CreateJoinPoint, Lost, Extend
  <2>3. QED
    BY <2>1, <2>2, Kinds DEF OnTarget
<1>2. ASSUME NEW j \in BundleJps, LoadGroups(j)
      PROVE  OnTarget(x)'
  <2>1. x = GroupsOf(j)
    BY <1>2, OneTurn DEF LoadGroups
  <2>2. QED
    BY <2>1, Kinds
<1>3. ASSUME NEW c \in Certs, CreateCert(c)
      PROVE  OnTarget(x)'
  <2>1. x = Cert(c)
    BY <1>3, OneTurn DEF CreateCert
  <2>2. Cert(c) \in have'
    BY <1>3 DEF CreateCert, Lost
  <2>3. QED
    BY <2>1, <2>2, Kinds DEF OnTarget
<1>4. ASSUME NEW y, y[1] \notin {"joinPoint", "groups"}, Create(y)
      PROVE  OnTarget(x)'
  <2>1. x = y
    BY <1>4, OneTurn DEF Create
  <2>2. (IF x[1] = "shell" THEN Ndg(x[2]) ELSE x) \in have'
    BY <1>4, <2>1 DEF Create, Lost
  <2>3. QED
    BY <1>4, <2>1, <2>2 DEF OnTarget
<1>5. ASSUME NEW p \in DOMAIN Profiles, CreateWithoutRedirect(p)
      PROVE  OnTarget(x)'
  <2>1. x = Profile(p)
    BY <1>5, OneTurn DEF CreateWithoutRedirect
  <2>2. Profile(p) \in have'
    BY <1>5, <2>1 DEF CreateWithoutRedirect, Lost
  <2>3. QED
    BY <2>1, <2>2, Kinds DEF OnTarget
<1>6. ASSUME CreateElement
      PROVE  \E y : y[1] \notin {"joinPoint", "groups"} /\ Create(y)
  BY <1>6, Kinds DEF CreateElement
<1>7. QED
  BY <1>1, <1>2, <1>3, <1>4, <1>5, <1>6 DEF Writes

LEMMA WriteKeepsKept ==
  ASSUME TypeOK, KnownInv, KeptInv, [Next]_vars, Writes, quiet'
  PROVE  KeptInv'
<1>1. PICK x \in todo :
           /\ Turn(x) /\ todo' = todo \ {x}
           /\ UNCHANGED <<bundle, phase, verdict, silent, deleted>> /\ told \subseteq told'
           /\ x \in told' \/ OnTarget(x)'
           /\ \A y \in bare' : y \in bare \/ y[1] = "networkDeviceGroup" \/ (y = x /\ x \in told')
  BY WriteTried
<1>2. Applying /\ JpsOK /\ todo \subseteq Creates
  BY WriteDone DEF TypeOK, DirectoryTypeOK, JpsOK
<1>3. quiet /\ ~Fault
  <2>1. ~ApplyRequest
    BY <1>2 DEF ApplyRequest, Applying
  <2>2. QED
    BY <2>1, QuietStep
<1>4. Grown
  BY <1>2, WritesGrow
<1>5. \A y \in todo : Ready(y)
  BY <1>2, <1>3 DEF KeptInv
<1>6. Accepted(x)
  <2>1. todo \subseteq Creatable
    BY <1>2 DEF KnownInv
  <2>2. \A z \in todo : Rank(z) \in Nat
    BY <2>1, RankOfCreatable
  <2>3. \A z \in todo : Rank(x) <= Rank(z)
    BY <1>1, <2>2, TurnIsLeast
  <2>4. QED
    BY <1>5, <2>1, <2>3, ReadyAccepted
<1>7. OnTarget(x)' \/ (x[1] = "groups" /\ x \in told')
  BY <1>1, <1>3, <1>6, QuietWrite
<1>8. \A y \in todo' : Ready(y)'
  BY <1>1, <1>4, <1>5, <1>7, ReadyStays
<1>9. Creates' = Creates /\ Judged
  BY <1>1, <1>2 DEF Creates, Judged
<1>10. \A y \in Creates' : y \in todo' \/ OnTarget(y)' \/ (y[1] = "groups" /\ y \in told')
  <2>1. \A y : OnTarget(y) => OnTarget(y)'
    BY <1>4, OnTargetStays
  <2>2. QED
    BY <1>1, <1>3, <1>7, <1>9, <2>1 DEF KeptInv
<1>11. phase' # "listElements"
  BY <1>1, <1>2 DEF Applying
<1>12. QED
  BY <1>8, <1>10, <1>11 DEF KeptInv

LEMMA KeptStep ==
  ASSUME TypeOK, CleanStart, ReportedInv, KnownInv, KeptInv, [Next]_vars
  PROVE  KeptInv'
<1> SUFFICES ASSUME quiet' PROVE KeptInv'
  BY DEF KeptInv
<1>1. CASE Export \/ ApplyRequest \/ ListJoinPoints
  <2>1. phase' \in {"idle", "listJoinPoints", "listSources"}
    BY <1>1 DEF Export, ApplyRequest, ListJoinPoints
  <2>2. QED
    BY <2>1 DEF KeptInv, Judged, Applying
<1>2. CASE ListSources
  <2>1. quiet /\ ~Fault
    BY <1>2, QuietStep DEF ListSources, ApplyRequest
  <2>2. verdict' = Added(verdict, SourceVerdicts(have)) /\ UNCHANGED have /\ phase' = "listElements"
    BY <1>2, <2>1 DEF ListSources
  <2>3. ASSUME NEW c \in Certs
        PROVE  Cert(c) \in have' \cup Creates'
    <3>1. Cert(c) \in DOMAIN SourceVerdicts(have)
      BY <1>2, Kinds DEF ListSources, KnownInv, SourceVerdicts
    <3>2. SourceVerdicts(have)[Cert(c)] = SourceVerdict(Cert(c), have)
      BY <3>1 DEF SourceVerdicts
    <3>3. Cert(c) \in have \/ SourceVerdict(Cert(c), have) = "create"
      BY Kinds DEF SourceVerdict, KnownInv, Factory
    <3>4. QED
      BY <2>2, <3>1, <3>2, <3>3 DEF Added, Creates
  <2>4. QED
    BY <2>2, <2>3 DEF KeptInv, Judged, Applying
<1>3. CASE ListElements
  <2>1. \A x \in todo' : Ready(x)'
    BY <1>3, PreflightReady
  <2>2. todo' = Creates' /\ phase' \in {"done", "apply"}
    BY <1>3 DEF ListElements
  <2>3. QED
    BY <2>1, <2>2 DEF KeptInv
<1>4. CASE Writes
  BY <1>4, WriteKeepsKept
<1>5. CASE ListForGroups \/ Finish
  <2>1. quiet /\ ~Fault
    BY <1>5, QuietStep DEF ListForGroups, Finish, ApplyRequest, Applying
  <2>2. /\ UNCHANGED <<jps, have, bundle, verdict, todo, told>> /\ Applying
        /\ phase' \in {"loadGroups", "done"}
    BY <1>5, <2>1 DEF ListForGroups, Finish, Applying
  <2>3. \A x : (Ready(x)' <=> Ready(x)) /\ (OnTarget(x)' <=> OnTarget(x))
    BY <2>2 DEF Ready, ParentComes, Accepted, OnTarget, Joined, Exposing
  <2>4. QED
    BY <2>1, <2>2, <2>3 DEF KeptInv, Judged, Creates
<1>6. CASE ManualStep
  <2>1. quiet /\ phase = "done" /\ UNCHANGED <<phase, verdict, todo, told>>
    BY <1>6 DEF ManualStep, JoinDomain, AddAttributes, BuildRestStore, Operator
  <2>2. Grown
    <3>1. JpsOK
      BY DEF TypeOK, DirectoryTypeOK, JpsOK
    <3>2. QED
      BY <3>1, NothingLost
  <2>3. Creates' = Creates
    BY <2>1 DEF Creates
  <2>4. QED
    BY <2>1, <2>2, <2>3, OnTargetStays DEF KeptInv, Judged, Applying
<1>7. CASE UNCHANGED vars
  <2>1. UNCHANGED <<jps, have, bundle, verdict, todo, told, phase>> /\ quiet
    BY <1>7 DEF vars, directory
  <2>2. \A x : (Ready(x)' <=> Ready(x)) /\ (OnTarget(x)' <=> OnTarget(x))
    BY <2>1 DEF Ready, ParentComes, Accepted, OnTarget, Joined, Exposing
  <2>3. Creates' = Creates /\ (Applying' <=> Applying) /\ (Judged' <=> Judged)
    BY <2>1 DEF Creates, Judged, Applying
  <2>4. QED
    BY <2>1, <2>2, <2>3 DEF KeptInv
<1>8. QED
  BY <1>1, <1>2, <1>3, <1>4, <1>5, <1>6, <1>7, StepCases, QuietStep

(* What pre-flight announced is carried out, for every bundle and every    *)
(* target, when no request fails and nobody else interferes; only groups   *)
(* may wait for the domain to be joined, and the result names them.        *)
THEOREM ElementsVerdictsKept == Spec => []VerdictsKept
<1>1. Init => KnownInv /\ KeptInv
  BY DEF Init, KnownInv, KeptInv, Creates, Factory
<1>2. Init => CleanStart
  BY DEF Init, CleanStart, Judging
<1>3. TypeOK /\ KnownInv /\ [Next]_vars => KnownInv'
  BY KnownStep
<1>4. TypeOK /\ CleanStart /\ ReportedInv /\ KnownInv /\ KeptInv /\ [Next]_vars => KeptInv'
  BY KeptStep
<1>5. CleanStart /\ [Next]_vars => CleanStart'
  BY CleanStep
<1>6. KeptInv /\ ReportedInv => VerdictsKept
  BY DEF KeptInv, ReportedInv, VerdictsKept, Judged
<1>7. QED
  BY <1>1, <1>2, <1>3, <1>4, <1>5, <1>6, ElementsTypeOK, ElementsReportedInv, PTL DEF Spec
=============================================================================
