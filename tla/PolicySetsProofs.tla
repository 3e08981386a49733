-------------------------- MODULE PolicySetsProofs --------------------------
(***************************************************************************)
(* Proofs about repeated imports of policy sets, for every bundle,         *)
(* whatever fails, and whoever adds or deletes sets meanwhile.             *)
(*                                                                         *)
(* First, which policy sets of somebody else an import can change: only    *)
(* one that took the name of a set this import created, between the POST   *)
(* and the listing that looks the new set up by name.  The import decides  *)
(* at pre-flight which sets it merges into and writes to them later, so    *)
(* the property needs an invariant about the sets it holds an id of: each  *)
(* is Default, or one of ours, or was deleted since, in which case its id  *)
(* is dead and a write to it is refused even though a stranger may have    *)
(* taken the name, or it was found by name and is not the one created.     *)
(*                                                                         *)
(* Then that a set is never copied twice (CopyInv), the types, that what   *)
(* is incomplete is told (ReportedInv), and that a clean import completes  *)
(* every set of ours (RepairInv).                                          *)
(***************************************************************************)
EXTENDS PolicySets, FiniteSetTheorems, TLAPS

Writable(n) == n = DefaultName \/ owner[n] = "tool" \/ n \in stale

WriteInv ==
  /\ owner \in [Names -> {"none", "tool", "other"}]
  /\ DOMAIN rules = Names
  /\ phase = "findSet" /\ cur \in Names => Writable(cur)
  /\ phase = "rules" /\ cur \in Names => Writable(cur) \/ mistaken
  /\ \A s \in Sets : action[s] = "merge" =>
        Writable(<<s, 0>>) /\ ~(phase = "findSet" /\ cur = <<s, 0>>)

(* A set under its own name has a name of the target.                      *)
LEMMA OwnNames == \A s \in Sets : <<s, 0>> \in Names
BY PolicyAssumption DEF Names

(* Pre-flight gives the verdict "merge" only to a set that was listed with *)
(* the import marker.                                                      *)
LEMMA MergeOnlyMine ==
  ASSUME NEW s, NEW seen, NEW listed, NEW known, NEW arriving,
         Verdict(s, seen, listed, known, arriving) = "merge"
  PROVE  seen[<<s, 0>>] = "tool"
BY DEF Verdict, Mine

(* The invariant holds initially.                                          *)
LEMMA WriteInit == Init => WriteInv
<1> SUFFICES ASSUME Init PROVE WriteInv
  OBVIOUS
<1>1. owner \in [Names -> {"none", "tool", "other"}]
  BY DEF Init
<1>2. DOMAIN rules = Names
  BY DEF Init
<1>3. phase \notin {"findSet", "rules"} /\ \A s \in Sets : action[s] = "skip"
  BY DEF Init
<1>4. QED
  BY <1>1, <1>2, <1>3 DEF WriteInv

(* A step that leaves the sets and the verdicts alone, and holds an id     *)
(* only of a set it may write, keeps the invariant.                        *)
LEMMA FrameKeepsWriteInv ==
  ASSUME WriteInv, UNCHANGED <<owner, stale, action>>, DOMAIN rules' = Names,
         phase' = "findSet" => phase = "findSet" /\ cur' = cur,
         phase' = "rules" /\ cur' \in Names => Writable(cur') \/ mistaken'
  PROVE  WriteInv'
<1>1. \A n : Writable(n)' <=> n = DefaultName \/ owner[n] = "tool" \/ n \in stale
  BY DEF Writable
<1>2. /\ (phase = "findSet" /\ cur \in Names => Writable(cur))'
      /\ (phase = "rules" /\ cur \in Names => Writable(cur) \/ mistaken)'
  BY DEF Writable, WriteInv
<1>3. QED
  BY <1>1, <1>2 DEF WriteInv, Writable

(* A new pre-flight: what it will merge into was listed with the marker.   *)
LEMMA PreflightKeepsWriteInv == WriteInv /\ ApplyRequest => WriteInv'
<1> SUFFICES ASSUME WriteInv, ApplyRequest PROVE WriteInv'
  OBVIOUS
<1>1. PICK seen \in SetListings, listed \in RuleListings,
           elemsKnown \in RefListings, known \in RefListings :
         Preflight(seen, listed, elemsKnown, known)
  BY DEF ApplyRequest
<1>2. UNCHANGED <<owner, rules>>
  BY DEF ApplyRequest, target
<1>3. phase' \notin {"findSet", "rules"}
  BY DEF ApplyRequest
<1>4. ASSUME NEW s \in Sets, action'[s] = "merge"
      PROVE  owner[<<s, 0>>] = "tool"
  <2>1. Verdict(s, seen, listed, known, ElementsToCreate(elemsKnown)) = "merge"
    BY <1>1, <1>4 DEF Preflight
  <2>2. seen[<<s, 0>>] = "tool"
    BY <2>1, MergeOnlyMine
  <2>3. QED
    BY <2>2, OwnNames DEF SetListings
<1>5. QED
  BY <1>2, <1>3, <1>4 DEF WriteInv, Writable

(* Creating a set: the name was free, so no stranger's set is written and  *)
(* the sets the import holds an id of stay writable.                       *)
LEMMA CreateSetKeepsWriteInv ==
  ASSUME WriteInv, CreateSet
  PROVE  /\ WriteInv'
         /\ \A n \in Names : owner[n] = "other" =>
               owner'[n] = "other" /\ rules'[n] = rules[n] /\ (n \in on' <=> n \in on)
<1> DEFINE m == <<Head(todo), tname[Head(todo)]>>
<1>1. UNCHANGED <<rules, action>>
  BY DEF CreateSet, report
<1>2. \/ UNCHANGED <<owner, on, stale>> /\ phase' = "sets"
      \/ /\ owner[m] = "none" /\ owner' = [owner EXCEPT ![m] = "tool"]
         /\ on' \in {on, on \cup {m}} /\ stale' = stale \ {m}
         /\ phase' # "rules" /\ (phase' = "findSet" => cur' = m)
         /\ action[Head(todo)] # "merge"
  BY DEF CreateSet
<1>3. CASE UNCHANGED <<owner, on, stale>> /\ phase' = "sets"
  BY <1>1, <1>3, FrameKeepsWriteInv DEF WriteInv
<1>4. CASE /\ owner[m] = "none" /\ owner' = [owner EXCEPT ![m] = "tool"]
           /\ on' \in {on, on \cup {m}} /\ stale' = stale \ {m}
           /\ phase' # "rules" /\ (phase' = "findSet" => cur' = m)
           /\ action[Head(todo)] # "merge"
  <2>1. owner' \in [Names -> {"none", "tool", "other"}]
    BY <1>4 DEF WriteInv
  <2>2. \A n \in Names : n # m => owner'[n] = owner[n] /\ (n \in stale' <=> n \in stale)
    BY <1>4 DEF WriteInv
  <2>3. \A n \in Names : Writable(n) => Writable(n)'
    BY <1>4, <2>2 DEF WriteInv, Writable
  <2>4. (phase = "findSet" /\ cur \in Names => Writable(cur))'
    BY <1>4 DEF WriteInv, Writable
  <2>5. WriteInv'
    BY <1>1, <1>4, <2>1, <2>3, <2>4, OwnNames DEF WriteInv
  <2>6. QED
    BY <1>1, <1>4, <2>2, <2>5
<1>5. QED
  BY <1>2, <1>3, <1>4

(* What an import step may not do to the sets of somebody else, the one    *)
(* excepted that it takes for the set it has just created.                 *)
KeepsStrangers ==
  \A n \in Names \ {DefaultName} :
    owner[n] = "other" /\ ~(mistaken /\ n = cur) =>
      owner'[n] = "other" /\ rules'[n] = rules[n] /\ (n \in on' <=> n \in on)

(* Looking up the new set: it is there, or was deleted and somebody took   *)
(* its name, in which case the id is that set's and the import is mistaken.*)
LEMMA FindSetKeepsWriteInv ==
  ASSUME WriteInv, FindSet
  PROVE  WriteInv' /\ KeepsStrangers
<1>1. UNCHANGED <<owner, rules, on, action, cur>> /\ phase = "findSet"
  BY DEF FindSet, target, report
<1>2. CASE phase' = "sets" /\ stale' = stale
  BY <1>1, <1>2, FrameKeepsWriteInv DEF WriteInv, KeepsStrangers
<1>3. CASE /\ phase' = "rules" /\ owner[cur] # "none"
           /\ mistaken' = (cur \in stale) /\ stale' = stale \ {cur}
  <2>1. (phase = "rules" /\ cur \in Names => Writable(cur) \/ mistaken)'
    BY <1>1, <1>3 DEF WriteInv, Writable
  <2>2. \A s \in Sets : action[s] = "merge" => Writable(<<s, 0>>)'
    BY <1>1, <1>3 DEF WriteInv, Writable
  <2>3. QED
    BY <1>1, <1>3, <2>1, <2>2 DEF WriteInv, KeepsStrangers
<1>4. QED
  BY <1>2, <1>3 DEF FindSet

(* Posting a rule: the set it goes to is Default, one of ours, gone, or    *)
(* taken for ours.                                                         *)
LEMMA CreateRuleKeepsWriteInv ==
  ASSUME WriteInv, CreateRule
  PROVE  WriteInv' /\ KeepsStrangers
<1> DEFINE r == Head(queue)
<1>1. /\ UNCHANGED <<owner, on, stale, action, cur, phase, mistaken>>
      /\ phase = "rules"
  BY DEF CreateRule, report
<1>2. \/ rules' = rules
      \/ cur \notin stale /\ rules' = [rules EXCEPT ![cur] = Append(@, r)]
  BY DEF CreateRule
<1>3. DOMAIN rules' = Names
  BY <1>2 DEF WriteInv
<1>4. WriteInv'
  BY <1>1, <1>3, FrameKeepsWriteInv DEF WriteInv, Writable
<1>5. ASSUME NEW n \in Names \ {DefaultName}, owner[n] = "other", ~(mistaken /\ n = cur)
      PROVE  rules'[n] = rules[n]
  <2>1. n = cur => n \in stale
    BY <1>1, <1>5 DEF WriteInv, Writable
  <2>2. QED
    BY <1>2, <2>1 DEF WriteInv
<1>6. QED
  BY <1>1, <1>4, <1>5 DEF KeepsStrangers

(* Starting to merge: pre-flight chose a set of ours, or it is Default.    *)
LEMMA MergeKeepsWriteInv ==
  ASSUME WriteInv, MergeMine \/ MergeDefault
  PROVE  WriteInv' /\ KeepsStrangers
<1>1. UNCHANGED <<owner, rules, on, stale, action>>
  BY DEF MergeMine, MergeDefault, Merge, target, report
<1>2. Writable(cur') /\ phase' = "rules"
  <2>1. CASE MergeMine
    BY <2>1 DEF MergeMine, Merge, WriteInv
  <2>2. CASE MergeDefault
    BY <2>2 DEF MergeDefault, Merge, Writable
  <2>3. QED
    BY <2>1, <2>2
<1>3. QED
  BY <1>1, <1>2, FrameKeepsWriteInv DEF WriteInv, KeepsStrangers

(* Every step of an import keeps the invariant and the strangers' sets.    *)
LEMMA ImportKeepsWriteInv ==
  ASSUME WriteInv, Import
  PROVE  WriteInv' /\ KeepsStrangers
<1>1. CASE ApplyRequest
  <2>1. UNCHANGED <<owner, rules, on>>
    BY <1>1 DEF ApplyRequest, target
  <2>2. QED
    BY <1>1, <2>1, PreflightKeepsWriteInv DEF KeepsStrangers
<1>2. CASE CreateSet
  BY <1>2, CreateSetKeepsWriteInv DEF KeepsStrangers
<1>3. CASE MergeMine \/ MergeDefault
  BY <1>3, MergeKeepsWriteInv
<1>4. CASE CreateRule
  BY <1>4, CreateRuleKeepsWriteInv
<1>5. CASE FindSet
  BY <1>5, FindSetKeepsWriteInv
<1>6. CASE ListConditions \/ PassOver \/ RulesDone \/ ApplyDone \/ \E r \in Refs : CreateElement(r)
  <2>1. UNCHANGED <<owner, rules, on, stale, action>> /\ phase' \notin {"findSet", "rules"}
    BY <1>6 DEF ListConditions, PassOver, RulesDone, ApplyDone, CreateElement, target, report
  <2>2. QED
    BY <2>1, FrameKeepsWriteInv DEF WriteInv, KeepsStrangers
<1>7. QED
  BY <1>1, <1>2, <1>3, <1>4, <1>5, <1>6 DEF Import

(* Somebody else may delete a set, which makes its id dead, or take a free *)
(* name; neither makes a set of theirs writable.                           *)
LEMMA AdminKeepsWriteInv ==
  ASSUME WriteInv, Admin
  PROVE  WriteInv'
<1>1. UNCHANGED <<action, phase, cur, mistaken>>
  BY DEF Admin, AdminAddsSet, AdminDeletesSet, AdminEnables, AdminChangesRef, Edit, report, progress
<1>2. ASSUME NEW n \in Names, AdminAddsSet(n)
      PROVE  WriteInv'
  <2>1. /\ owner[n] = "none" /\ owner' = [owner EXCEPT ![n] = "other"]
        /\ UNCHANGED <<rules, stale>>
    BY <1>2 DEF AdminAddsSet
  <2>2. \A m \in Names : Writable(m) => Writable(m)'
    BY <2>1 DEF WriteInv, Writable
  <2>3. owner' \in [Names -> {"none", "tool", "other"}]
    BY <2>1 DEF WriteInv
  <2>4. QED
    BY <1>1, <2>1, <2>2, <2>3, OwnNames DEF WriteInv
<1>3. ASSUME NEW n \in Names, AdminDeletesSet(n)
      PROVE  WriteInv'
  <2>1. /\ owner' = [owner EXCEPT ![n] = "none"] /\ stale' = stale \cup {n}
        /\ rules' = [rules EXCEPT ![n] = <<>>]
    BY <1>3 DEF AdminDeletesSet
  <2>2. \A m \in Names : Writable(m) => Writable(m)'
    BY <2>1 DEF WriteInv, Writable
  <2>3. owner' \in [Names -> {"none", "tool", "other"}] /\ DOMAIN rules' = Names
    BY <2>1 DEF WriteInv
  <2>4. QED
    BY <1>1, <2>1, <2>2, <2>3, OwnNames DEF WriteInv
<1>4. CASE (\E n \in Names : AdminEnables(n)) \/ \E r \in Refs : AdminChangesRef(r)
  <2>1. UNCHANGED <<owner, rules, stale>>
    BY <1>4 DEF AdminEnables, AdminChangesRef
  <2>2. QED
    BY <1>1, <2>1, FrameKeepsWriteInv DEF WriteInv, Writable
<1>5. QED
  BY <1>2, <1>3, <1>4 DEF Admin

(* Between any two steps the import holds the id of Default, of a set of   *)
(* ours, of one that was deleted, or of one that it found under the name   *)
(* of a set it had created and that was deleted before it looked.          *)
THEOREM SetsWriteInv == Spec => []WriteInv
<1>1. Init => WriteInv
  BY WriteInit
<1>2. WriteInv /\ [Next]_vars => WriteInv'
  <2> SUFFICES ASSUME WriteInv, [Next]_vars PROVE WriteInv'
    OBVIOUS
  <2>1. CASE Import
    BY <2>1, ImportKeepsWriteInv
  <2>2. CASE Admin
    BY <2>2, AdminKeepsWriteInv
  <2>3. CASE UNCHANGED vars
    BY <2>3 DEF vars, target, report, progress, WriteInv, Writable
  <2>4. QED
    BY <2>1, <2>2, <2>3 DEF Next
<1>3. QED
  BY <1>1, <1>2, PTL DEF Spec

(* A set that somebody else made is never changed by an import, for every  *)
(* bundle and any number of imports, failures and edits in between, except *)
(* the one an import takes for its own because it has the name of a set    *)
(* that was created and deleted again before its id was looked up.         *)
THEOREM SetsStrangersUntouched == Spec => StrangersUntouched
<1>1. WriteInv => (Import => KeepsStrangers)
  BY ImportKeepsWriteInv
<1>2. WriteInv /\ [Next]_vars =>
        [Import => \A n \in Names \ {DefaultName} :
           owner[n] = "other" /\ ~(mistaken /\ n = cur) =>
             owner'[n] = "other" /\ rules'[n] = rules[n] /\ (n \in on' <=> n \in on)]_vars
  BY <1>1 DEF KeepsStrangers
<1>3. QED
  BY <1>2, SetsWriteInv, PTL DEF Spec, StrangersUntouched

(* Without the checkbox no step of an import changes which rules the       *)
(* target evaluates.                                                       *)
THEOREM SetsNoTrafficChange == Spec => NoTrafficChange
<1>1. ASSUME Import, ~keepState
      PROVE  Evaluated' = Evaluated
  <2>1. UNCHANGED <<active, on>>
    <3>1. CASE CreateSet
      BY <1>1, <3>1 DEF CreateSet
    <3>2. CASE CreateRule
      BY <1>1, <3>2 DEF CreateRule, ArriveRule
    <3>3. CASE ApplyRequest
      BY <3>3 DEF ApplyRequest, target
    <3>4. CASE ListConditions \/ PassOver \/ MergeMine \/ MergeDefault \/ RulesDone \/ ApplyDone
      BY <3>4 DEF ListConditions, PassOver, MergeMine, MergeDefault, Merge, RulesDone, ApplyDone, target
    <3>5. CASE \E r \in Refs : CreateElement(r)
      BY <3>5 DEF CreateElement
    <3>6. CASE FindSet
      BY <3>6 DEF FindSet, target
    <3>7. QED
      BY <1>1, <3>1, <3>2, <3>3, <3>4, <3>5, <3>6 DEF Import
  <2>2. QED
    BY <2>1 DEF Evaluated
<1>2. [Import /\ ~keepState => Evaluated' = Evaluated]_vars
  BY <1>1
<1>3. QED
  BY <1>2, PTL DEF NoTrafficChange

-----------------------------------------------------------------------------
(* One copy per set: CopyInv.                                              *)

(* A set of numbers that is not empty has a least member.                  *)
LEMMA LeastNumber ==
  ASSUME NEW S \in SUBSET Nat, S # {}
  PROVE  \E i \in S : \A j \in S : i <= j
<1> DEFINE R == OpToRel(<, Nat)
<1>1. IsWellFoundedOn(R, Nat)
  BY NatLessThanWellFounded, Zenon
<1>2. \A i, j \in Nat : <<j, i>> \in R <=> j < i
  BY DEF OpToRel
<1> HIDE DEF R
<1>3. \E i \in S : \A j \in S : <<j, i>> \notin R
  BY <1>1, WFMin
<1>4. \E i \in S : \A j \in S : ~(j < i)
  BY <1>2, <1>3
<1>5. \A i, j \in S : ~(j < i) => i <= j
  OBVIOUS
<1>6. QED
  BY <1>4, <1>5

(* freeSetName's name is free, and every numbered name before it belongs   *)
(* to somebody else.                                                       *)
LEMMA FreeSuffixCorrect ==
  ASSUME NEW s \in Sets, NEW seen \in [Names -> {"none", "tool", "other"}],
         FreeSuffix(s, seen) # 0
  PROVE  /\ FreeSuffix(s, seen) \in 1..MaxSuffix
         /\ \A j \in 1..MaxSuffix : j < FreeSuffix(s, seen) => seen[<<s, j>>] = "other"
<1> DEFINE stop == {k \in 1..MaxSuffix : seen[<<s, k>>] = "none" \/ Mine(seen[<<s, k>>])}
           first == CHOOSE i \in stop : \A j \in stop : i <= j
<1>1. stop # {} /\ FreeSuffix(s, seen) = first
  BY DEF FreeSuffix
<1>2. first \in stop /\ (\A j \in stop : first <= j) /\ first \in 1..MaxSuffix
  <2>1. stop \in SUBSET Nat /\ stop \subseteq 1..MaxSuffix
    OBVIOUS
  <2> HIDE DEF stop
  <2>2. \E i \in stop : \A j \in stop : i <= j
    BY <1>1, <2>1, LeastNumber
  <2>3. QED
    BY <2>1, <2>2
<1>3. ASSUME NEW j \in 1..MaxSuffix, j < first
      PROVE  seen[<<s, j>>] = "other"
  <2>1. j \notin stop
    <3>1. \A i \in 1..MaxSuffix : j < i => ~(i <= j)
      OBVIOUS
    <3> HIDE DEF stop, first
    <3>2. QED
      BY <1>2, <1>3, <3>1
  <2>2. <<s, j>> \in Names
    BY <1>3 DEF Names
  <2>3. QED
    BY <2>1, <2>2 DEF Mine
<1>4. QED
  BY <1>1, <1>2, <1>3

(* The name chosen for a new set: below it nothing is ours or free.        *)
LEMMA TargetNameCorrect ==
  ASSUME NEW s \in Sets, NEW seen \in [Names -> {"none", "tool", "other"}],
         NEW listed, NEW known, NEW arriving,
         Verdict(s, seen, listed, known, arriving) = "create"
  PROVE  /\ TargetName(s, seen) \in 0..MaxSuffix
         /\ \A j \in 0..MaxSuffix : j < TargetName(s, seen) => seen[<<s, j>>] = "other"
<1>1. <<s, 0>> \in Names /\ MaxSuffix \in Nat
  BY OwnNames, PolicyAssumption
<1>2. CASE seen[<<s, 0>>] = "none"
  BY <1>1, <1>2 DEF TargetName
<1>3. CASE seen[<<s, 0>>] # "none"
  <2>1. ~Mine(seen[<<s, 0>>]) /\ FreeSuffix(s, seen) # 0
    BY <1>3 DEF Verdict
  <2>2. seen[<<s, 0>>] = "other" /\ TargetName(s, seen) = FreeSuffix(s, seen)
    BY <1>1, <1>3, <2>1 DEF Mine, TargetName
  <2>3. QED
    BY <1>1, <2>1, <2>2, FreeSuffixCorrect
<1>4. QED
  BY <1>2, <1>3

LEMMA CopyInit == Init => CopyInv
<1> SUFFICES ASSUME Init PROVE CopyInv
  OBVIOUS
<1>1. \A n \in Names : owner[n] # "tool"
  BY DEF Init
<1>2. \A s \in Sets, k \in 0..MaxSuffix : <<s, k>> \in Names
  BY DEF Names
<1>3. \A s \in Sets : action[s] # "create"
  BY DEF Init
<1>4. QED
  BY <1>1, <1>2, <1>3 DEF CopyInv

(* A step that does not free a name nor decides anything.                  *)
LEMMA FrameKeepsCopy ==
  ASSUME CopyInv, UNCHANGED <<action, tname, deleted>>,
         \A s \in Sets, k \in 0..MaxSuffix :
           /\ owner[<<s, k>>] = "other" => owner'[<<s, k>>] = "other"
           /\ owner'[<<s, k>>] = "tool" => owner[<<s, k>>] = "tool"
  PROVE  CopyInv'
BY DEF CopyInv, TakenBelow

LEMMA PreflightKeepsCopy ==
  ASSUME WriteInv, CopyInv, ApplyRequest
  PROVE  CopyInv'
<1>1. PICK seen \in SetListings, listed \in RuleListings,
           elemsKnown \in RefListings, known \in RefListings :
         Preflight(seen, listed, elemsKnown, known)
  BY DEF ApplyRequest
<1>2. UNCHANGED <<owner, deleted>>
  BY DEF ApplyRequest, target
<1>3. seen \in [Names -> {"none", "tool", "other"}]
  BY DEF SetListings, WriteInv
<1>4. ASSUME NEW s \in Sets, action'[s] = "create"
      PROVE  tname'[s] \in 0..MaxSuffix /\ TakenBelow(s, tname'[s])
  <2>1. /\ Verdict(s, seen, listed, known, ElementsToCreate(elemsKnown)) = "create"
        /\ tname'[s] = TargetName(s, seen)
    BY <1>1, <1>4 DEF Preflight
  <2>2. /\ TargetName(s, seen) \in 0..MaxSuffix
        /\ \A j \in 0..MaxSuffix : j < TargetName(s, seen) => seen[<<s, j>>] = "other"
    BY <1>3, <2>1, TargetNameCorrect
  <2>3. \A j \in 0..MaxSuffix : <<s, j>> \in Names /\ (seen[<<s, j>>] = "other" => owner[<<s, j>>] = "other")
    BY DEF SetListings, Names
  <2>4. QED
    BY <2>1, <2>2, <2>3 DEF TakenBelow
<1>5. QED
  BY <1>2, <1>4 DEF CopyInv, TakenBelow

(* A new copy: everything below its name is somebody else's, and a copy    *)
(* above it would have needed the name to be taken.                        *)
LEMMA CreateSetKeepsCopy ==
  ASSUME WriteInv, CopyInv, CreateSet
  PROVE  CopyInv'
<1> DEFINE s == Head(todo)
           k == tname[s]
           n == <<s, k>>
<1>1. UNCHANGED <<action, tname, deleted>> /\ s \in Sets /\ action[s] = "create"
  BY DEF CreateSet, report
<1>2. CASE UNCHANGED owner
  BY <1>1, <1>2, FrameKeepsCopy
<1>3. CASE owner[n] = "none" /\ owner' = [owner EXCEPT ![n] = "tool"]
  <2> SUFFICES ASSUME ~deleted PROVE CopyInv'
    BY <1>1 DEF CopyInv
  <2>1. k \in 0..MaxSuffix /\ TakenBelow(s, k)
    BY <1>1 DEF CopyInv
  <2>2. n \in Names /\ MaxSuffix \in Nat
    BY <1>1, <2>1, PolicyAssumption DEF Names
  <2>3. \A m \in Names : owner'[m] = IF m = n THEN "tool" ELSE owner[m]
    BY <1>3, <2>2 DEF WriteInv
  <2>4. \A t \in Sets, j \in 0..MaxSuffix :
          <<t, j>> \in Names /\ (owner[<<t, j>>] = "other" => owner'[<<t, j>>] = "other")
    BY <1>3, <2>3 DEF Names
  <2>5. \A t \in Sets, j \in 0..MaxSuffix : TakenBelow(t, j) => TakenBelow(t, j)'
    BY <2>4 DEF TakenBelow
  <2>6. ASSUME NEW t \in Sets, NEW j \in 0..MaxSuffix, owner'[<<t, j>>] = "tool"
        PROVE  TakenBelow(t, j)
    <3>1. CASE <<t, j>> = n
      BY <2>1, <3>1
    <3>2. CASE <<t, j>> # n
      BY <2>3, <2>4, <2>6, <3>2 DEF CopyInv
    <3>3. QED
      BY <3>1, <3>2
  <2>7. QED
    BY <1>1, <2>5, <2>6 DEF CopyInv
<1>4. QED
  BY <1>2, <1>3 DEF CreateSet

LEMMA CopyStep == WriteInv /\ CopyInv /\ [Next]_vars => CopyInv'
<1> SUFFICES ASSUME WriteInv, CopyInv, [Next]_vars PROVE CopyInv'
  OBVIOUS
<1>1. CASE ApplyRequest
  BY <1>1, PreflightKeepsCopy
<1>2. CASE CreateSet
  BY <1>2, CreateSetKeepsCopy
<1>3. CASE \/ ListConditions \/ PassOver \/ FindSet \/ MergeMine \/ MergeDefault \/ CreateRule
           \/ RulesDone \/ ApplyDone \/ \E r \in Refs : CreateElement(r)
  <2>1. UNCHANGED <<owner, action, tname, deleted>>
    BY <1>3 DEF ListConditions, PassOver, FindSet, MergeMine, MergeDefault, Merge, CreateRule,
                RulesDone, ApplyDone, CreateElement, target, report
  <2>2. QED
    BY <2>1, FrameKeepsCopy
<1>4. CASE Admin
  <2>1. UNCHANGED <<action, tname>>
    BY <1>4 DEF Admin, AdminAddsSet, AdminDeletesSet, AdminEnables, AdminChangesRef, Edit, report
  <2>2. ASSUME NEW n \in Names, AdminAddsSet(n) PROVE CopyInv'
    <3>1. \A m \in Names : owner'[m] = IF m = n THEN "other" ELSE owner[m]
      BY <2>2 DEF AdminAddsSet, WriteInv
    <3>2. \A s \in Sets, k \in 0..MaxSuffix : <<s, k>> \in Names
      BY DEF Names
    <3>3. QED
      BY <2>1, <2>2, <3>1, <3>2, FrameKeepsCopy DEF AdminAddsSet
  <2>3. CASE \E n \in Names : AdminDeletesSet(n)
    BY <2>3 DEF AdminDeletesSet, CopyInv
  <2>4. CASE (\E n \in Names : AdminEnables(n)) \/ \E r \in Refs : AdminChangesRef(r)
    BY <2>1, <2>4, FrameKeepsCopy DEF AdminEnables, AdminChangesRef
  <2>5. QED
    BY <1>4, <2>2, <2>3, <2>4 DEF Admin
<1>5. CASE UNCHANGED vars
  BY <1>5, FrameKeepsCopy DEF vars, target, report
<1>6. QED
  BY <1>1, <1>2, <1>3, <1>4, <1>5 DEF Next, Import

(* As long as nobody deletes sets, the tool never has two copies of one    *)
(* bundle set on the target, however often a bundle is imported, whatever  *)
(* listing failed and whichever answer was lost.                           *)
THEOREM SetsOneCopyPerSet == Spec => []OneCopyPerSet
<1>1. WriteInv /\ CopyInv => OneCopyPerSet
  <2> SUFFICES ASSUME WriteInv, CopyInv, ~deleted, NEW s \in Sets
               PROVE  Cardinality({k \in 0..MaxSuffix : owner[<<s, k>>] = "tool"}) <= 1
    BY DEF OneCopyPerSet
  <2> DEFINE Ours == {k \in 0..MaxSuffix : owner[<<s, k>>] = "tool"}
  <2>1. \A i, j \in Ours : ~(i < j)
    BY DEF CopyInv, TakenBelow
  <2>2. \A i, j \in Ours : i = j
    BY <2>1, PolicyAssumption
  <2>3. Ours = {} \/ \E i : Ours = {i}
    BY <2>2
  <2> HIDE DEF Ours
  <2>4. Cardinality(Ours) \in {0, 1}
    BY <2>3, FS_EmptySet, FS_Singleton
  <2>5. QED
    BY <2>4 DEF Ours
<1>2. QED
  BY <1>1, CopyInit, CopyStep, SetsWriteInv, PTL DEF Spec

-----------------------------------------------------------------------------
(* Ordering and filtering lists.                                           *)

(* InOrder lists every member of a finite set exactly once.                *)
LEMMA InOrderLists ==
  ASSUME NEW S, IsFiniteSet(S), NEW rank, \A x \in S : rank[x] \in Nat,
         \A x, y \in S : rank[x] = rank[y] => x = y
  PROVE  /\ InOrder(S, rank) \in [1..Cardinality(S) -> S]
         /\ Cardinality(S) \in Nat
         /\ \A x \in S : \E k \in 1..Cardinality(S) : InOrder(S, rank)[k] = x
<1> DEFINE n == Cardinality(S)
           upTo(x) == {y \in S : rank[y] <= rank[x]}
           place == [x \in S |-> Cardinality(upTo(x))]
<1>1. n \in Nat
  BY FS_CardinalityType
<1>2. \A x \in S : x \in upTo(x) /\ IsFiniteSet(upTo(x))
  BY FS_Subset
<1>3. ASSUME NEW x \in S
      PROVE  place[x] \in 1..n
  <2>1. Cardinality(upTo(x)) \in Nat /\ Cardinality(upTo(x)) <= n
    BY <1>1, FS_Subset, FS_CardinalityType
  <2>2. Cardinality(upTo(x)) # 0
    BY <1>2, FS_EmptySet
  <2>3. QED
    BY <1>1, <2>1, <2>2
<1>4. ASSUME NEW x \in S, NEW y \in S, rank[x] < rank[y]
      PROVE  place[x] # place[y]
  <2>1. upTo(x) \in SUBSET upTo(y) /\ y \notin upTo(x)
    BY <1>4
  <2>2. IsFiniteSet(upTo(y)) /\ upTo(x) # upTo(y)
    BY <1>2, <2>1
  <2> HIDE DEF upTo
  <2>3. Cardinality(upTo(y)) # Cardinality(upTo(x))
    BY <2>1, <2>2, FS_Subset
  <2>4. QED
    BY <2>3
<1> HIDE DEF upTo
<1>5. place \in Injection(S, 1..n)
  <2>1. \A x, y \in S : place[x] = place[y] => x = y
    <3>1. \A x, y \in S : x # y => rank[x] < rank[y] \/ rank[y] < rank[x]
      OBVIOUS
    <3> HIDE DEF place
    <3>2. QED
      BY <1>4, <3>1
  <2>2. place \in [S -> 1..n]
    BY <1>3
  <2>3. QED
    BY <2>1, <2>2 DEF Injection, IsInjective
<1>6. place \in Surjection(S, 1..n)
  <2>1. IsFiniteSet(1..n) /\ Cardinality(1..n) = n
    BY <1>1, FS_Interval
  <2>2. QED
    BY <1>5, <2>1, FS_Injection
<1>7. \A k \in 1..n : \E x \in S : place[x] = k
  BY <1>6 DEF Surjection
<1>8. \A x, y \in S : place[x] = place[y] => x = y
  BY <1>5 DEF Injection, IsInjective
<1>9. \A k \in 1..n : \E x \in S : Cardinality({y \in S : rank[y] <= rank[x]}) = k
  BY <1>7 DEF upTo
<1>10. \A k \in 1..n : InOrder(S, rank)[k] \in S /\ place[InOrder(S, rank)[k]] = k
  <2> SUFFICES ASSUME NEW k \in 1..n
               PROVE  InOrder(S, rank)[k] \in S /\ place[InOrder(S, rank)[k]] = k
    OBVIOUS
  <2> DEFINE it == CHOOSE x \in S : Cardinality({y \in S : rank[y] <= rank[x]}) = k
  <2>1. InOrder(S, rank)[k] = it
    BY DEF InOrder
  <2>2. it \in S /\ Cardinality({y \in S : rank[y] <= rank[it]}) = k
    BY <1>9
  <2> HIDE DEF it
  <2>3. place[it] = k
    BY <2>2 DEF upTo
  <2>4. QED
    BY <2>1, <2>2, <2>3
<1> HIDE DEF place
<1>11. \A x \in S : InOrder(S, rank)[place[x]] = x
  BY <1>3, <1>8, <1>10
<1>12. InOrder(S, rank) \in [1..n -> S]
  BY <1>10 DEF InOrder
<1>13. QED
  BY <1>1, <1>3, <1>11, <1>12

(* Only keeps the entries of a list that are in T, and no others.          *)
LEMMA OnlyFilters ==
  ASSUME NEW X, NEW seq \in Seq(X), NEW T
  PROVE  /\ Only(seq, T) \in Seq(X)
         /\ Range(Only(seq, T)) = Range(seq) \cap T
<1> DEFINE S == {i \in DOMAIN seq : seq[i] \in T}
           rank == [i \in DOMAIN seq |-> i]
           at == InOrder(S, rank)
           n == Cardinality(S)
<1>1. IsFiniteSet(S) /\ S \subseteq 1..Len(seq)
  BY FS_Interval, FS_Subset
<1>2. \A i \in S : rank[i] = i /\ rank[i] \in Nat
  OBVIOUS
<1>3. Only(seq, T) = [k \in DOMAIN at |-> seq[at[k]]]
  BY DEF Only
<1> HIDE DEF S, rank
<1>4. /\ at \in [1..n -> S] /\ n \in Nat
      /\ \A i \in S : \E k \in 1..n : at[k] = i
  <2>1. (\A i \in S : rank[i] \in Nat) /\ \A i, j \in S : rank[i] = rank[j] => i = j
    BY <1>2
  <2>2. IsFiniteSet(S)
    BY <1>1
  <2>3. /\ InOrder(S, rank) \in [1..Cardinality(S) -> S]
        /\ Cardinality(S) \in Nat
        /\ \A i \in S : \E k \in 1..Cardinality(S) : InOrder(S, rank)[k] = i
    BY <2>1, <2>2, InOrderLists
  <2>4. QED
    BY <2>3
<1> HIDE DEF at, n
<1>5. \A i \in S : i \in DOMAIN seq /\ seq[i] \in X /\ seq[i] \in T
  BY DEF S
<1>6. Only(seq, T) = [k \in 1..n |-> seq[at[k]]] /\ \A k \in 1..n : at[k] \in S
  BY <1>3, <1>4
<1>7. Only(seq, T) \in Seq(X)
  BY <1>4, <1>5, <1>6
<1>8. Range(Only(seq, T)) = {seq[at[k]] : k \in 1..n}
  BY <1>6 DEF Range
<1>9. {seq[at[k]] : k \in 1..n} = {seq[i] : i \in S}
  BY <1>4, <1>6
<1>10. {seq[i] : i \in S} = Range(seq) \cap T
  BY DEF S, Range
<1>11. QED
  BY <1>7, <1>8, <1>9, <1>10

(* A bundle has finitely many sets.                                        *)
LEMMA SourceFinite == IsFiniteSet(Range(Source))
<1> DEFINE n == Len(Source)
<1>1. n \in Nat /\ Source \in [1..n -> Range(Source)]
  BY PolicyAssumption
<1>2. Range(Source) = {Source[i] : i \in 1..n}
  BY <1>1 DEF Range
<1> HIDE DEF n
<1>3. Source \in Surjection(1..n, Range(Source))
  BY <1>1, <1>2 DEF Surjection
<1>4. IsFiniteSet(1..n)
  BY <1>1, FS_Interval
<1>5. QED
  BY <1>3, <1>4, FS_Surjection

(* The bundle lists every set of the source.                               *)
LEMMA BundleOrderCorrect ==
  BundleOrder \in Seq(Range(Source)) /\ Range(BundleOrder) = Range(Source)
<1>1. IsFiniteSet(Range(Source))
  BY SourceFinite
<1>2. (\A s \in Range(Source) : NameRank[s] \in Nat)
        /\ \A s, t \in Range(Source) : NameRank[s] = NameRank[t] => s = t
  BY PolicyAssumption DEF IsInjective
<1> DEFINE n == Cardinality(Range(Source))
<1>3. /\ BundleOrder \in [1..n -> Range(Source)]
      /\ n \in Nat
      /\ \A s \in Range(Source) : \E k \in 1..n : BundleOrder[k] = s
  BY <1>1, <1>2, InOrderLists DEF BundleOrder
<1> HIDE DEF n
<1>4. Range(BundleOrder) = {BundleOrder[k] : k \in 1..n}
  BY <1>3 DEF Range
<1>5. Range(BundleOrder) = Range(Source)
  BY <1>3, <1>4
<1>6. BundleOrder \in Seq(Range(Source))
  BY <1>3
<1>7. QED
  BY <1>5, <1>6

-----------------------------------------------------------------------------
(* Type correctness.                                                       *)

(* The parts of the type invariant: the target, what pre-flight decided,   *)
(* how far the import is, and the bookkeeping of the run.                  *)
TargetTyped ==
  /\ have \subseteq Refs
  /\ owner \in [Names -> {"none", "tool", "other"}]
  /\ rules \in [Names -> Seq(Rules)]
  /\ order \in Seq(Names)
  /\ active \subseteq Names \X Rules
  /\ on \subseteq Names

ReportTyped ==
  /\ keepState \in BOOLEAN
  /\ action \in [Sets -> {"create", "merge", "skip", "blocked"}]
  /\ tname \in [Sets -> 0..MaxSuffix]
  /\ keep \in Seq(Rules)
  /\ defaultID \in {"found", "missing"}

ProgressTyped ==
  /\ elems \subseteq Carried /\ ids \subseteq Conditions
  /\ todo \in Seq(Range(Source))
  /\ cur \in Names /\ queue \in Seq(Rules)
  /\ failed \in Nat
  /\ wrote \subseteq Range(Source) /\ mistaken \in BOOLEAN

RunTyped ==
  /\ phase \in {"idle", "elements", "sets", "findSet", "rules", "done"}
  /\ stale \subseteq Names
  /\ quiet \in BOOLEAN /\ deleted \in BOOLEAN
  /\ edits \in Nat /\ faults \in Nat /\ runs \in Nat

(* Names of the target.                                                    *)
LEMMA AllNames ==
  /\ DefaultName \in Names
  /\ \A s \in Sets, k \in 0..MaxSuffix : <<s, k>> \in Names
  /\ \A s \in Range(Source) : s = Default \/ s \in Sets
BY DEF Names, Sets

LEMMA FaultTyped ==
  ASSUME Fault \/ Fine, quiet \in BOOLEAN, faults \in Nat
  PROVE  quiet' \in BOOLEAN /\ faults' \in Nat
<1>1. quiet' = FALSE \/ quiet' = quiet
  BY DEF Fault, Fine
<1>2. faults' = faults + 1 \/ faults' = faults
  BY DEF Fault, Fine
<1>3. quiet' \in BOOLEAN
  BY <1>1
<1>4. faults' \in Nat
  BY <1>2
<1>5. QED
  BY <1>3, <1>4

LEMMA TypeInit == Init => TypeOK
<1> SUFFICES ASSUME Init PROVE TypeOK
  OBVIOUS
<1>1. TargetTyped
  <2>1. have \subseteq Refs /\ on \subseteq Names
    <3>1. PICK strangers \in SUBSET (Sets \X {0, 1}) :
             strangers \subseteq Names /\ on = strangers \cup {DefaultName}
      BY DEF Init
    <3>2. QED
      BY <3>1, AllNames DEF Init
  <2>2. owner \in [Names -> {"none", "tool", "other"}]
    BY DEF Init
  <2>3. rules \in [Names -> Seq(Rules)] /\ active \subseteq Names \X Rules
    <3>1. PICK own \in {<<>>} \cup {<<r>> : r \in Range(RulesOf[Default])} :
            /\ rules = [n \in Names |-> IF n = DefaultName THEN own ELSE <<>>]
            /\ active = {DefaultName} \X Range(own)
      BY DEF Init
    <3>2. Range(RulesOf[Default]) \subseteq Rules
      BY PolicyAssumption DEF Range
    <3>3. own \in Seq(Rules)
      <4>1. CASE own = <<>>
        BY <4>1
      <4>2. CASE own # <<>>
        <5>1. PICK r \in Rules : own = <<r>>
          BY <3>2, <4>2
        <5>2. QED
          BY <5>1
      <4>3. QED
        BY <4>1, <4>2
    <3>4. Range(own) \subseteq Rules
      BY <3>3 DEF Range
    <3>5. QED
      BY <3>1, <3>3, <3>4, AllNames
  <2>4. order \in Seq(Names)
    BY DEF Init
  <2>5. QED
    BY <2>1, <2>2, <2>3, <2>4 DEF TargetTyped
<1>2. ReportTyped
  <2>1. 0 \in 0..MaxSuffix
    BY PolicyAssumption
  <2>2. keepState \in BOOLEAN
    BY DEF Init
  <2>3. QED
    BY <2>1, <2>2 DEF Init, ReportTyped
<1>3. ProgressTyped
  <2>1. mistaken \in BOOLEAN
    BY DEF Init
  <2>2. QED
    BY <2>1, AllNames DEF Init, ProgressTyped
<1>4. RunTyped
  BY DEF Init, RunTyped
<1>5. QED
  BY <1>1, <1>2, <1>3, <1>4 DEF TypeOK, TargetTyped, ReportTyped, ProgressTyped, RunTyped

LEMMA ApplyRequestTyped == TypeOK /\ ApplyRequest => TypeOK'
<1> SUFFICES ASSUME TypeOK, ApplyRequest PROVE TypeOK'
  OBVIOUS
<1>1. PICK seen \in SetListings, listed \in RuleListings,
           elemsKnown \in RefListings, known \in RefListings :
         /\ Preflight(seen, listed, elemsKnown, known)
         /\ faults' = (IF <<seen, listed, elemsKnown, known>> = <<owner, rules, have, have>>
                       THEN faults ELSE faults + 1)
         /\ quiet' = (<<seen, listed, elemsKnown, known>> = <<owner, rules, have, have>>)
  BY DEF ApplyRequest
<1>2. TargetTyped'
  BY DEF ApplyRequest, target, TypeOK, TargetTyped
<1>3. ReportTyped'
  <2>1. keepState' \in BOOLEAN
    BY DEF ApplyRequest
  <2>2. action' \in [Sets -> {"create", "merge", "skip", "blocked"}]
    BY <1>1 DEF Preflight, Verdict
  <2>3. tname' \in [Sets -> 0..MaxSuffix]
    <3>1. \A s \in Sets : TargetName(s, seen) \in 0..MaxSuffix
      <4> SUFFICES ASSUME NEW s \in Sets PROVE TargetName(s, seen) \in 0..MaxSuffix
        OBVIOUS
      <4>1. seen \in [Names -> {"none", "tool", "other"}]
        BY DEF SetListings, TypeOK
      <4>2. FreeSuffix(s, seen) \in 0..MaxSuffix
        <5>1. CASE FreeSuffix(s, seen) = 0
          BY <5>1, PolicyAssumption
        <5>2. CASE FreeSuffix(s, seen) # 0
          BY <4>1, <5>2, FreeSuffixCorrect, PolicyAssumption
        <5>3. QED
          BY <5>1, <5>2
      <4>3. QED
        BY <4>2, PolicyAssumption DEF TargetName
    <3>2. QED
      BY <1>1, <3>1 DEF Preflight
  <2>4. keep' \in Seq(Rules)
    <3>1. keep' = Only(RulesOf[Default],
                       {r \in Rules : Resolvable(Needs[r], known, ElementsToCreate(elemsKnown))})
      BY <1>1 DEF Preflight
    <3>2. RulesOf[Default] \in Seq(Rules)
      BY PolicyAssumption
    <3>3. QED
      BY <3>1, <3>2, OnlyFilters
  <2>5. defaultID' \in {"found", "missing"}
    BY <1>1 DEF Preflight
  <2>6. QED
    BY <2>1, <2>2, <2>3, <2>4, <2>5 DEF ReportTyped
<1>4. ProgressTyped'
  <2>1. elems' \subseteq Carried
    BY <1>1 DEF Preflight, ElementsToCreate
  <2>2. UNCHANGED <<cur, queue, mistaken>> /\ ids' = {} /\ failed' = 0 /\ wrote' = {} /\ todo' = BundleOrder
    BY DEF ApplyRequest
  <2>3. QED
    BY <2>1, <2>2, BundleOrderCorrect DEF ProgressTyped, TypeOK
<1>5. RunTyped'
  <2>1. faults' \in Nat /\ quiet' \in BOOLEAN
    BY <1>1 DEF TypeOK
  <2>2. QED
    BY <2>1 DEF ApplyRequest, RunTyped, TypeOK
<1>6. QED
  BY <1>2, <1>3, <1>4, <1>5 DEF TypeOK, TargetTyped, ReportTyped, ProgressTyped, RunTyped

LEMMA CreateElementTyped ==
  ASSUME TypeOK, NEW r \in Refs, CreateElement(r)
  PROVE  TypeOK'
<1>1. /\ UNCHANGED <<owner, rules, order, active, on, phase, report, ids, todo, cur, queue, wrote,
                     mistaken, stale, deleted, edits, runs>>
      /\ elems' = elems \ {r}
      /\ have' \in {have, have \cup {r}} /\ failed' \in {failed, failed + 1}
      /\ Fault \/ Fine
  BY DEF CreateElement, Fail
<1>2. TargetTyped'
  BY <1>1 DEF TypeOK, TargetTyped
<1>3. ReportTyped'
  BY <1>1 DEF TypeOK, ReportTyped, report
<1>4. ProgressTyped'
  BY <1>1 DEF TypeOK, ProgressTyped
<1>5. RunTyped'
  BY <1>1, FaultTyped DEF TypeOK, RunTyped
<1>6. QED
  BY <1>2, <1>3, <1>4, <1>5 DEF TypeOK, TargetTyped, ReportTyped, ProgressTyped, RunTyped

LEMMA CreateSetTyped == TypeOK /\ CreateSet => TypeOK'
<1> SUFFICES ASSUME TypeOK, CreateSet PROVE TypeOK'
  OBVIOUS
<1> DEFINE s == Head(todo)
           n == <<s, tname[s]>>
<1>1. /\ UNCHANGED <<have, rules, active, report, elems, ids, queue, wrote,
                     mistaken, deleted, edits, runs>>
      /\ todo # <<>> /\ s \in Sets /\ todo' = Tail(todo)
  BY DEF CreateSet
<1>2. n \in Names
  BY <1>1, AllNames DEF TypeOK
<1>3. \/ UNCHANGED <<owner, order, on, stale>>
      \/ /\ owner' = [owner EXCEPT ![n] = "tool"] /\ order' = Append(order, n)
         /\ on' \in {on, on \cup {n}} /\ stale' = stale \ {n}
  BY DEF CreateSet
<1>4. /\ Fault \/ Fine
      /\ failed' \in {failed, failed + 1}
      /\ UNCHANGED <<phase, cur>> \/ (phase' = "findSet" /\ cur' = n)
  BY DEF CreateSet, Fail
<1>5. todo' \in Seq(Range(Source))
  BY <1>1 DEF TypeOK
<1> HIDE DEF s, n
<1>6. TargetTyped'
  <2>1. order' \in Seq(Names)
    <3>1. order \in Seq(Names) /\ Append(order, n) \in Seq(Names)
      BY <1>2 DEF TypeOK
    <3>2. order' \in {order, Append(order, n)}
      BY <1>3
    <3>3. QED
      BY <3>1, <3>2
  <2>2. on' \subseteq Names
    BY <1>2, <1>3 DEF TypeOK
  <2>3. owner' \in [Names -> {"none", "tool", "other"}]
    BY <1>3 DEF TypeOK
  <2>4. QED
    BY <1>1, <2>1, <2>2, <2>3 DEF TypeOK, TargetTyped
<1>7. ReportTyped'
  BY <1>1 DEF TypeOK, ReportTyped, report
<1>8. ProgressTyped'
  BY <1>1, <1>2, <1>4, <1>5 DEF TypeOK, ProgressTyped
<1>9. RunTyped'
  BY <1>1, <1>3, <1>4, FaultTyped DEF TypeOK, RunTyped
<1>10. QED
  BY <1>6, <1>7, <1>8, <1>9 DEF TypeOK, TargetTyped, ReportTyped, ProgressTyped, RunTyped

LEMMA FindSetTyped == TypeOK /\ FindSet => TypeOK'
<1> SUFFICES ASSUME TypeOK, FindSet PROVE TypeOK'
  OBVIOUS
<1>1. /\ UNCHANGED <<target, report, elems, ids, todo, cur, deleted, edits, runs>>
      /\ Fault \/ Fine
      /\ failed' \in {failed, failed + 1}
      /\ phase' \in {"sets", "rules"}
      /\ queue' \in {queue, RulesOf[cur[1]]}
      /\ wrote' \in {wrote, wrote \cup {cur[1]}}
      /\ stale' \in {stale, stale \ {cur}}
  BY DEF FindSet, Fail
<1>2. cur[1] \in Range(Source)
  BY PolicyAssumption DEF TypeOK, Names, DefaultName, Sets
<1>3. RulesOf[cur[1]] \in Seq(Rules)
  BY <1>2, PolicyAssumption
<1>4. TargetTyped'
  BY <1>1 DEF TypeOK, TargetTyped, target
<1>5. ReportTyped'
  BY <1>1 DEF TypeOK, ReportTyped, report
<1>6. ProgressTyped'
  <2>1. mistaken' \in BOOLEAN
    <3>1. mistaken \in BOOLEAN
      BY DEF TypeOK
    <3>2. (cur \in stale) \in BOOLEAN
      OBVIOUS
    <3>3. mistaken' \in {mistaken, (cur \in stale)}
      BY DEF FindSet
    <3>4. QED
      BY <3>1, <3>2, <3>3
  <2>2. queue' \in Seq(Rules)
    BY <1>1, <1>3 DEF TypeOK
  <2>3. QED
    BY <1>1, <1>2, <2>1, <2>2 DEF TypeOK, ProgressTyped
<1>7. RunTyped'
  BY <1>1, FaultTyped DEF TypeOK, RunTyped
<1>8. QED
  BY <1>4, <1>5, <1>6, <1>7 DEF TypeOK, TargetTyped, ReportTyped, ProgressTyped, RunTyped

LEMMA MergeTyped ==
  ASSUME TypeOK, todo # <<>>, NEW s \in Range(Source), NEW n \in Names, NEW wanted \in Seq(Rules),
         Merge(s, n, wanted)
  PROVE  TypeOK'
<1>1. /\ UNCHANGED <<target, report, elems, ids, failed, mistaken, stale, deleted, edits, runs>>
      /\ todo' = Tail(todo) /\ phase' = "rules" /\ cur' = n /\ wrote' = wrote \cup {s}
      /\ queue' \in {wanted, Missing(wanted, n)}
      /\ Fault \/ Fine
  BY DEF Merge
<1>2. Missing(wanted, n) \in Seq(Rules)
  BY OnlyFilters DEF Missing
<1>3. TargetTyped'
  BY <1>1 DEF TypeOK, TargetTyped, target
<1>4. ReportTyped'
  BY <1>1 DEF TypeOK, ReportTyped, report
<1>5. ProgressTyped'
  <2>1. todo' \in Seq(Range(Source))
    BY <1>1 DEF TypeOK
  <2>2. queue' \in Seq(Rules)
    BY <1>1, <1>2
  <2>3. QED
    BY <1>1, <2>1, <2>2 DEF TypeOK, ProgressTyped
<1>6. RunTyped'
  BY <1>1, FaultTyped DEF Merge, TypeOK, RunTyped
<1>7. QED
  BY <1>3, <1>4, <1>5, <1>6 DEF TypeOK, TargetTyped, ReportTyped, ProgressTyped, RunTyped

LEMMA CreateRuleTyped == TypeOK /\ CreateRule => TypeOK'
<1> SUFFICES ASSUME TypeOK, CreateRule PROVE TypeOK'
  OBVIOUS
<1> DEFINE r == Head(queue)
<1>1. /\ UNCHANGED <<have, owner, order, on, phase, report, elems, ids, todo, cur, wrote,
                     mistaken, stale, deleted, edits, runs>>
      /\ queue # <<>> /\ queue' = Tail(queue)
  BY DEF CreateRule
<1>2. r \in Rules
  BY <1>1 DEF TypeOK
<1>3. \/ UNCHANGED <<rules, active>>
      \/ /\ rules' = [rules EXCEPT ![cur] = Append(@, r)]
         /\ active' \in {active, active \cup {<<cur, r>>}}
  BY DEF CreateRule, ArriveRule
<1>4. failed' \in {failed, failed + 2} /\ (Fault \/ Fine)
  BY DEF CreateRule, FailRule, Fail
<1> HIDE DEF r
<1>5. TargetTyped'
  <2>1. rules' \in [Names -> Seq(Rules)]
    <3>1. cur \in Names /\ rules[cur] \in Seq(Rules)
      BY DEF TypeOK
    <3>2. Append(rules[cur], r) \in Seq(Rules)
      BY <1>2, <3>1
    <3>3. QED
      BY <1>3, <3>2 DEF TypeOK
  <2>2. active' \subseteq Names \X Rules
    BY <1>2, <1>3 DEF TypeOK
  <2>3. QED
    BY <1>1, <2>1, <2>2 DEF TypeOK, TargetTyped
<1>6. ReportTyped'
  BY <1>1 DEF TypeOK, ReportTyped, report
<1>7. ProgressTyped'
  BY <1>1, <1>4 DEF TypeOK, ProgressTyped
<1>8. RunTyped'
  BY <1>1, <1>4, FaultTyped DEF TypeOK, RunTyped
<1>9. QED
  BY <1>5, <1>6, <1>7, <1>8 DEF TypeOK, TargetTyped, ReportTyped, ProgressTyped, RunTyped

(* The steps that only move the import along.                              *)
LEMMA PaceTyped ==
  ASSUME TypeOK, ListConditions \/ PassOver \/ RulesDone \/ ApplyDone
  PROVE  TypeOK'
<1>1. TargetTyped'
  BY DEF ListConditions, PassOver, RulesDone, ApplyDone, target, TypeOK, TargetTyped
<1>2. ReportTyped'
  BY DEF ListConditions, PassOver, RulesDone, ApplyDone, report, TypeOK, ReportTyped
<1>3. ProgressTyped'
  <2>1. CASE ListConditions
    BY <2>1 DEF ListConditions, TypeOK, ProgressTyped
  <2>2. CASE PassOver
    <3>1. /\ UNCHANGED <<elems, ids, cur, queue, wrote, mistaken>>
          /\ todo # <<>> /\ todo' = Tail(todo)
          /\ failed' \in {failed, failed + 1}
      BY <2>2 DEF PassOver, Fail
    <3>2. todo' \in Seq(Range(Source))
      BY <3>1 DEF TypeOK
    <3>3. QED
      BY <3>1, <3>2 DEF TypeOK, ProgressTyped
  <2>3. CASE RulesDone \/ ApplyDone
    BY <2>3 DEF RulesDone, ApplyDone, progress, TypeOK, ProgressTyped
  <2>4. QED
    BY <2>1, <2>2, <2>3
<1>4. RunTyped'
  <2>1. /\ UNCHANGED <<stale, deleted, edits, runs>>
        /\ phase' \in {"sets", "done"}
        /\ Fault \/ Fine
    BY DEF ListConditions, PassOver, RulesDone, ApplyDone, Fine, bounds
  <2>2. QED
    BY <2>1, FaultTyped DEF TypeOK, RunTyped
<1>5. QED
  BY <1>1, <1>2, <1>3, <1>4 DEF TypeOK, TargetTyped, ReportTyped, ProgressTyped, RunTyped

LEMMA AdminTyped == TypeOK /\ Admin => TypeOK'
<1> SUFFICES ASSUME TypeOK, Admin PROVE TypeOK'
  OBVIOUS
<1>1. Edit
  BY DEF Admin, AdminAddsSet, AdminDeletesSet, AdminEnables, AdminChangesRef
<1>2. ReportTyped' /\ ProgressTyped'
  BY <1>1 DEF Edit, report, progress, TypeOK, ReportTyped, ProgressTyped
<1>3. TargetTyped' /\ stale' \subseteq Names /\ deleted' \in BOOLEAN
  <2>1. ASSUME NEW n \in Names, AdminAddsSet(n)
        PROVE  TargetTyped' /\ stale' \subseteq Names /\ deleted' \in BOOLEAN
    BY <2>1 DEF AdminAddsSet, TypeOK, TargetTyped
  <2>2. ASSUME NEW n \in Names, AdminDeletesSet(n)
        PROVE  TargetTyped' /\ stale' \subseteq Names /\ deleted' \in BOOLEAN
    <3>1. order' \in Seq(Names)
      BY <2>2, OnlyFilters DEF AdminDeletesSet, TypeOK
    <3>2. QED
      BY <2>2, <3>1 DEF AdminDeletesSet, TypeOK, TargetTyped
  <2>3. ASSUME NEW n \in Names, AdminEnables(n)
        PROVE  TargetTyped' /\ stale' \subseteq Names /\ deleted' \in BOOLEAN
    BY <2>3 DEF AdminEnables, TypeOK, TargetTyped
  <2>4. ASSUME NEW r \in Refs, AdminChangesRef(r)
        PROVE  TargetTyped' /\ stale' \subseteq Names /\ deleted' \in BOOLEAN
    BY <2>4 DEF AdminChangesRef, TypeOK, TargetTyped
  <2>5. QED
    BY <2>1, <2>2, <2>3, <2>4 DEF Admin
<1>4. RunTyped'
  <2>1. quiet' = FALSE /\ edits' = edits + 1 /\ UNCHANGED <<phase, faults, runs>>
    BY <1>1 DEF Edit
  <2>2. quiet' \in BOOLEAN
    BY <2>1
  <2>3. QED
    BY <1>3, <2>1, <2>2 DEF TypeOK, RunTyped
<1>5. QED
  BY <1>2, <1>3, <1>4 DEF TypeOK, TargetTyped, ReportTyped, ProgressTyped, RunTyped

LEMMA TypeStep == TypeOK /\ [Next]_vars => TypeOK'
<1> SUFFICES ASSUME TypeOK, [Next]_vars PROVE TypeOK'
  OBVIOUS
<1>1. CASE ApplyRequest
  BY <1>1, ApplyRequestTyped
<1>2. CASE CreateSet
  BY <1>2, CreateSetTyped
<1>3. CASE MergeMine
  <2>1. Head(todo) \in Range(Source) /\ <<Head(todo), 0>> \in Names
    BY <1>3, OwnNames DEF MergeMine, Sets
  <2>2. RulesOf[Head(todo)] \in Seq(Rules)
    BY <2>1, PolicyAssumption
  <2>3. QED
    BY <1>3, <2>1, <2>2, MergeTyped DEF MergeMine
<1>4. CASE MergeDefault
  <2>1. Default \in Range(Source) /\ DefaultName \in Names /\ keep \in Seq(Rules)
    BY PolicyAssumption, AllNames DEF TypeOK
  <2>2. QED
    BY <1>4, <2>1, MergeTyped DEF MergeDefault
<1>5. CASE CreateRule
  BY <1>5, CreateRuleTyped
<1>6. CASE ListConditions \/ PassOver \/ RulesDone \/ ApplyDone
  BY <1>6, PaceTyped
<1>7. CASE \E r \in Refs : CreateElement(r)
  BY <1>7, CreateElementTyped
<1>8. CASE Admin
  BY <1>8, AdminTyped
<1>9. CASE UNCHANGED vars
  BY <1>9 DEF vars, target, report, progress, bounds, TypeOK
<1>10. CASE FindSet
  BY <1>10, FindSetTyped
<1>11. QED
  BY <1>1, <1>2, <1>3, <1>4, <1>5, <1>6, <1>7, <1>8, <1>9, <1>10 DEF Next, Import

(* Every variable stays in its range for every bundle: every set gets one  *)
(* of the verdicts applyPolicySets handles and a name of the target, and   *)
(* whatever is posted is a rule of the bundle.                             *)
THEOREM SetsTypeOK == Spec => []TypeOK
BY TypeInit, TypeStep, PTL DEF Spec

-----------------------------------------------------------------------------
(* What an import left incomplete is reported.                             *)

(* What Missing leaves out is what the target's set has already.           *)
LEMMA MissingCovers ==
  ASSUME TypeOK, NEW wanted \in Seq(Rules), NEW n \in Names
  PROVE  /\ Range(Missing(wanted, n)) \subseteq Range(wanted)
         /\ Range(wanted) \subseteq Range(rules[n]) \cup Range(Missing(wanted, n))
<1>1. Range(Missing(wanted, n)) = Range(wanted) \cap (Rules \ Range(rules[n]))
  BY OnlyFilters DEF Missing
<1>2. Range(wanted) \subseteq Rules
  BY DEF Range
<1>3. QED
  BY <1>1, <1>2

(* A list's entries are its first and the entries of its tail.             *)
LEMMA HeadAndTail ==
  ASSUME NEW X, NEW q \in Seq(X), q # <<>>
  PROVE  Head(q) \in X /\ Tail(q) \in Seq(X) /\ Range(q) = {Head(q)} \cup Range(Tail(q))
<1>1. Len(q) \in Nat \ {0} /\ q \in [1..Len(q) -> X]
  OBVIOUS
<1>2. Head(q) = q[1] /\ Tail(q) \in Seq(X) /\ DOMAIN Tail(q) = 1..(Len(q) - 1)
  OBVIOUS
<1>3. \A i \in 1..(Len(q) - 1) : Tail(q)[i] = q[i + 1]
  OBVIOUS
<1>4. Range(Tail(q)) = {q[i + 1] : i \in 1..(Len(q) - 1)}
  BY <1>2, <1>3 DEF Range
<1>5. Range(q) = {q[i] : i \in 1..Len(q)}
  BY <1>1 DEF Range
<1>6. ASSUME NEW i \in 1..Len(q)
      PROVE  q[i] = q[1] \/ \E j \in 1..(Len(q) - 1) : q[i] = q[j + 1]
  <2>1. CASE i = 1
    BY <2>1
  <2>2. CASE i # 1
    <3>1. i - 1 \in 1..(Len(q) - 1) /\ i = (i - 1) + 1
      BY <1>1, <2>2
    <3>2. QED
      BY <3>1
  <2>3. QED
    BY <2>1, <2>2
<1>7. \A j \in 1..(Len(q) - 1) : j + 1 \in 1..Len(q)
  BY <1>1
<1>8. 1 \in 1..Len(q)
  BY <1>1
<1>9. Range(q) = {q[1]} \cup Range(Tail(q))
  BY <1>4, <1>5, <1>6, <1>7, <1>8
<1>10. QED
  BY <1>1, <1>2, <1>9

(* Appending adds one entry.                                               *)
LEMMA AppendRange ==
  ASSUME NEW X, NEW q \in Seq(X), NEW x \in X
  PROVE  Range(Append(q, x)) = Range(q) \cup {x}
<1>1. Len(q) \in Nat /\ q \in [1..Len(q) -> X]
  OBVIOUS
<1>2. DOMAIN Append(q, x) = 1..(Len(q) + 1)
  OBVIOUS
<1>3. Append(q, x)[Len(q) + 1] = x /\ \A i \in 1..Len(q) : Append(q, x)[i] = q[i]
  OBVIOUS
<1>4. \A i \in 1..(Len(q) + 1) : i \in 1..Len(q) \/ i = Len(q) + 1
  BY <1>1
<1>5. Len(q) + 1 \in 1..(Len(q) + 1) /\ \A i \in 1..Len(q) : i \in 1..(Len(q) + 1)
  BY <1>1
<1>6. Range(Append(q, x)) = {Append(q, x)[i] : i \in 1..(Len(q) + 1)}
  BY <1>2 DEF Range
<1>7. Range(q) = {q[i] : i \in 1..Len(q)}
  BY <1>1 DEF Range
<1>8. QED
  BY <1>3, <1>4, <1>5, <1>6, <1>7

(* Where a set's rules are written, and that two sets have two places.     *)
LEMMA WrittenToTyped ==
  ASSUME TypeOK
  PROVE  /\ \A s \in wrote : WrittenTo(s) \in Names /\ Wanted(s) \in Seq(Rules)
         /\ \A s \in Range(Source), t \in Sets : s # t => WrittenTo(s) # WrittenTo(t)
<1>1. ASSUME NEW s \in wrote
      PROVE  WrittenTo(s) \in Names /\ Wanted(s) \in Seq(Rules)
  <2>1. s \in Range(Source)
    BY DEF TypeOK
  <2>2. CASE s = Default
    BY <2>2, AllNames DEF WrittenTo, Wanted, TypeOK
  <2>3. CASE s # Default
    BY <2>1, <2>3, AllNames, PolicyAssumption DEF WrittenTo, Wanted, TypeOK
  <2>4. QED
    BY <2>2, <2>3
<1>2. ASSUME NEW s \in Range(Source), NEW t \in Sets, s # t
      PROVE  WrittenTo(s) # WrittenTo(t)
  BY <1>2 DEF WrittenTo, DefaultName, Sets
<1>3. QED
  BY <1>1, <1>2

(* A step that neither begins nor ends the posting of a set, and leaves    *)
(* the verdicts and the rules on the target alone.                         *)
LEMMA FrameKeepsReported ==
  ASSUME TypeOK, ReportedInv, UNCHANGED <<action, tname, keep, wrote, rules, cur, queue>>,
         phase' = phase \/ {phase, phase'} \cap {"findSet", "rules"} = {},
         failed' \in Nat, failed' >= failed, stale \subseteq stale'
  PROVE  ReportedInv'
<1>1. \A s : WrittenTo(s)' = WrittenTo(s) /\ Wanted(s)' = Wanted(s)
  BY DEF WrittenTo, Wanted
<1>2. \A n : Posting(n)' = Posting(n)
  BY DEF Posting
<1>3. failed > 0 => failed' > 0
  BY DEF TypeOK
<1>4. QED
  BY <1>1, <1>2, <1>3 DEF ReportedInv

LEMMA PreflightKeepsReported ==
  ASSUME TypeOK, ApplyRequest
  PROVE  ReportedInv'
<1>1. PICK seen \in SetListings, listed \in RuleListings,
           elemsKnown \in RefListings, known \in RefListings :
         Preflight(seen, listed, elemsKnown, known)
  BY DEF ApplyRequest
<1>2. \A s \in Sets : action'[s] = "merge" => tname'[s] = 0
  BY <1>1, MergeOnlyMine DEF Preflight, TargetName, Mine
<1>3. wrote' = {} /\ phase' # "findSet"
  BY DEF ApplyRequest
<1>4. QED
  BY <1>2, <1>3 DEF ReportedInv

LEMMA CreateSetKeepsReported ==
  ASSUME TypeOK, ReportedInv, CreateSet
  PROVE  ReportedInv'
<1> DEFINE s == Head(todo)
           n == <<s, tname[s]>>
<1>1. UNCHANGED <<rules, action, tname, keep>> /\ s \in Sets /\ phase = "sets"
  BY DEF CreateSet, report
<1>2. \A t : WrittenTo(t)' = WrittenTo(t) /\ Wanted(t)' = Wanted(t)
  BY <1>1 DEF WrittenTo, Wanted
<1>3. WrittenTo(s) = n /\ Wanted(s) = RulesOf[s]
  BY <1>1 DEF WrittenTo, Wanted, Sets
<1>4. \A m : Posting(m) = {}
  BY <1>1 DEF Posting
<1>5. CASE UNCHANGED <<phase, cur, queue, wrote, stale>> /\ failed' \in {failed, failed + 1}
  <2>1. failed' \in Nat /\ failed' >= failed
    BY <1>5 DEF TypeOK
  <2>2. QED
    BY <1>1, <1>5, <2>1, FrameKeepsReported
<1>6. CASE failed' = failed + 1 /\ UNCHANGED <<wrote, phase>>
  <2>1. failed' > 0
    BY <1>6 DEF TypeOK
  <2>2. QED
    BY <1>1, <1>6, <2>1 DEF ReportedInv
<1>7. CASE /\ phase' = "findSet" /\ cur' = n /\ wrote' = wrote
           /\ stale' = stale \ {n} /\ failed' = failed
  <2>1. \A m : m = n => Posting(m)' = Range(RulesOf[s])
    BY <1>7 DEF Posting
  <2> SUFFICES ASSUME NEW t \in wrote', ~(failed' > 0), NEW m, m = WrittenTo(t), m \notin stale'
               PROVE  Range(Wanted(t)) \subseteq Range(rules[m]) \cup Posting(m)'
    BY <1>1, <1>2, <1>3, <1>7 DEF ReportedInv
  <2>2. CASE t = s
    BY <1>3, <2>1, <2>2
  <2>3. CASE t # s
    <3>1. t \in wrote /\ t \in Range(Source)
      BY <1>7, <2>3 DEF TypeOK
    <3>2. WrittenTo(t) # n
      BY <1>1, <1>3, <2>3, <3>1, WrittenToTyped
    <3>3. WrittenTo(t) \notin stale /\ ~(failed > 0)
      BY <1>7, <3>2
    <3>4. QED
      BY <1>4, <3>1, <3>3 DEF ReportedInv
  <2>4. QED
    BY <2>2, <2>3
<1>8. QED
  BY <1>5, <1>6, <1>7 DEF CreateSet, Fail

(* Once the new set is found, its rules are the ones to be posted.         *)
LEMMA FindSetKeepsReported ==
  ASSUME TypeOK, ReportedInv, FindSet
  PROVE  ReportedInv'
<1> DEFINE s == cur[1]
<1>1. /\ UNCHANGED <<rules, action, tname, keep, cur>>
      /\ phase = "findSet" /\ s \in Sets /\ cur = WrittenTo(s)
  BY DEF FindSet, target, report, ReportedInv
<1>2. \A t : WrittenTo(t)' = WrittenTo(t) /\ Wanted(t)' = Wanted(t)
  BY <1>1 DEF WrittenTo, Wanted
<1>3. CASE failed' = failed + 1 /\ phase' = "sets" /\ UNCHANGED wrote
  <2>1. failed' > 0
    BY <1>3 DEF TypeOK
  <2>2. QED
    BY <1>1, <1>3, <2>1 DEF ReportedInv
<1>4. CASE /\ phase' = "rules" /\ queue' = RulesOf[s] /\ wrote' = wrote \cup {s}
           /\ stale' = stale \ {cur} /\ failed' = failed
  <2>1. \A m : m = cur => Posting(m)' = Range(RulesOf[s])
    BY <1>1, <1>4 DEF Posting
  <2>2. \A m : m # cur => Posting(m) = {}
    BY <1>1 DEF Posting
  <2>3. Wanted(s) = RulesOf[s]
    BY <1>1 DEF Wanted, Sets
  <2> SUFFICES ASSUME NEW t \in wrote', ~(failed' > 0), NEW m, m = WrittenTo(t), m \notin stale'
               PROVE  Range(Wanted(t)) \subseteq Range(rules[m]) \cup Posting(m)'
    BY <1>1, <1>2, <1>4 DEF ReportedInv
  <2>4. CASE t = s
    BY <1>1, <2>1, <2>3, <2>4
  <2>5. CASE t # s
    <3>1. t \in wrote /\ t \in Range(Source)
      BY <1>4, <2>5 DEF TypeOK
    <3>2. m # cur
      BY <1>1, <2>5, <3>1, WrittenToTyped
    <3>3. m \notin stale /\ ~(failed > 0)
      BY <1>4, <3>2
    <3>4. QED
      BY <2>2, <3>1, <3>2, <3>3 DEF ReportedInv
  <2>6. QED
    BY <2>4, <2>5
<1>5. QED
  BY <1>3, <1>4 DEF FindSet, Fail

LEMMA MergeKeepsReported ==
  ASSUME TypeOK, ReportedInv, phase = "sets", NEW s \in Range(Source),
         Merge(s, WrittenTo(s), Wanted(s)), WrittenTo(s) \in Names, Wanted(s) \in Seq(Rules)
  PROVE  ReportedInv'
<1> DEFINE n == WrittenTo(s)
<1>1. /\ UNCHANGED <<rules, action, tname, keep, failed, stale>>
      /\ phase' = "rules" /\ cur' = n /\ wrote' = wrote \cup {s}
      /\ queue' \in {Wanted(s), Missing(Wanted(s), n)}
  BY DEF Merge, target, report
<1>2. \A t : WrittenTo(t)' = WrittenTo(t) /\ Wanted(t)' = Wanted(t)
  BY <1>1 DEF WrittenTo, Wanted
<1>3. Range(Wanted(s)) \subseteq Range(rules[n]) \cup Range(queue')
  BY <1>1, MissingCovers
<1>4. (\A m : m = n => Posting(m)' = Range(queue')) /\ \A m : Posting(m) = {}
  BY <1>1 DEF Posting
<1>5. QED
  BY <1>1, <1>2, <1>3, <1>4 DEF ReportedInv

LEMMA CreateRuleKeepsReported ==
  ASSUME TypeOK, ReportedInv, CreateRule
  PROVE  ReportedInv'
<1> DEFINE r == Head(queue)
<1>1. /\ UNCHANGED <<action, tname, keep, wrote, stale, cur, phase>>
      /\ phase = "rules" /\ queue # <<>> /\ queue' = Tail(queue)
  BY DEF CreateRule, report
<1>2. \A t : WrittenTo(t)' = WrittenTo(t) /\ Wanted(t)' = Wanted(t)
  BY <1>1 DEF WrittenTo, Wanted
<1>3. r \in Rules /\ Range(queue) = {r} \cup Range(queue')
  BY <1>1, HeadAndTail DEF TypeOK
<1>4. CASE failed' = failed + 2
  <2>1. failed' > 0
    BY <1>4 DEF TypeOK
  <2>2. QED
    BY <1>1, <2>1 DEF ReportedInv
<1>5. CASE /\ failed' = failed
           /\ \/ rules' = [rules EXCEPT ![cur] = Append(@, r)]
              \/ rules' = rules /\ r \in Range(rules[cur])
  <2>1. cur \in Names /\ rules[cur] \in Seq(Rules)
    BY DEF TypeOK
  <2>2. Range(Append(rules[cur], r)) = Range(rules[cur]) \cup {r}
    BY <1>3, <2>1, AppendRange
  <2>3. Range(rules'[cur]) = Range(rules[cur]) \cup {r}
    BY <1>5, <2>1, <2>2 DEF TypeOK
  <2>4. \A n \in Names : n # cur => rules'[n] = rules[n]
    BY <1>5 DEF TypeOK
  <2>5. \A n \in Names : Range(rules[n]) \cup Posting(n) \subseteq Range(rules'[n]) \cup Posting(n)'
    <3> SUFFICES ASSUME NEW n \in Names
                 PROVE  Range(rules[n]) \cup Posting(n) \subseteq Range(rules'[n]) \cup Posting(n)'
      OBVIOUS
    <3>1. CASE n = cur
      <4>1. Posting(n) = Range(queue) /\ Posting(n)' = Range(queue')
        BY <1>1, <3>1 DEF Posting
      <4>2. QED
        BY <1>3, <2>3, <3>1, <4>1
    <3>2. CASE n # cur
      BY <1>1, <2>4, <3>2 DEF Posting
    <3>3. QED
      BY <3>1, <3>2
  <2>6. QED
    BY <1>1, <1>2, <1>5, <2>5, WrittenToTyped DEF ReportedInv
<1>6. QED
  BY <1>4, <1>5 DEF CreateRule, FailRule, Fail

LEMMA AdminKeepsReported ==
  ASSUME TypeOK, ReportedInv, Admin
  PROVE  ReportedInv'
<1>1. UNCHANGED <<action, tname, keep, wrote, cur, queue, phase, failed>>
  BY DEF Admin, AdminAddsSet, AdminDeletesSet, AdminEnables, AdminChangesRef, Edit, report, progress
<1>2. ASSUME NEW n \in Names, AdminDeletesSet(n)
      PROVE  ReportedInv'
  <2>1. stale' = stale \cup {n} /\ \A m \in Names : m # n => rules'[m] = rules[m]
    BY <1>2 DEF AdminDeletesSet, TypeOK
  <2>2. \A s : WrittenTo(s)' = WrittenTo(s) /\ Wanted(s)' = Wanted(s)
    BY <1>1 DEF WrittenTo, Wanted
  <2>3. \A m : Posting(m)' = Posting(m)
    BY <1>1 DEF Posting
  <2>4. QED
    BY <1>1, <2>1, <2>2, <2>3, WrittenToTyped DEF ReportedInv
<1>3. CASE \/ \E n \in Names : AdminAddsSet(n) \/ AdminEnables(n)
           \/ \E r \in Refs : AdminChangesRef(r)
  <2>1. UNCHANGED <<rules, stale>>
    BY <1>3 DEF AdminAddsSet, AdminEnables, AdminChangesRef
  <2>2. QED
    BY <1>1, <2>1, FrameKeepsReported DEF TypeOK
<1>4. QED
  BY <1>2, <1>3 DEF Admin

LEMMA ReportedStep == TypeOK /\ ReportedInv /\ [Next]_vars => ReportedInv'
<1> SUFFICES ASSUME TypeOK, ReportedInv, [Next]_vars PROVE ReportedInv'
  OBVIOUS
<1>1. CASE ApplyRequest
  BY <1>1, PreflightKeepsReported
<1>2. CASE CreateSet
  BY <1>2, CreateSetKeepsReported
<1>3. CASE MergeMine
  <2> DEFINE s == Head(todo)
  <2>1. s \in Sets /\ s \in Range(Source) /\ tname[s] = 0 /\ phase = "sets"
    BY <1>3 DEF MergeMine, ReportedInv, Sets
  <2>2. WrittenTo(s) = <<s, 0>> /\ Wanted(s) = RulesOf[s]
    BY <2>1 DEF WrittenTo, Wanted, Sets
  <2>3. <<s, 0>> \in Names /\ RulesOf[s] \in Seq(Rules)
    BY <2>1, OwnNames, PolicyAssumption
  <2>4. Merge(s, <<s, 0>>, RulesOf[s])
    BY <1>3 DEF MergeMine
  <2>5. QED
    BY <2>1, <2>2, <2>3, <2>4, MergeKeepsReported
<1>4. CASE MergeDefault
  <2>1. Merge(Default, DefaultName, keep) /\ phase = "sets"
    BY <1>4 DEF MergeDefault
  <2>2. WrittenTo(Default) = DefaultName /\ Wanted(Default) = keep
    BY DEF WrittenTo, Wanted
  <2>3. Default \in Range(Source) /\ DefaultName \in Names /\ keep \in Seq(Rules)
    BY PolicyAssumption, AllNames DEF TypeOK
  <2>4. QED
    BY <2>1, <2>2, <2>3, MergeKeepsReported
<1>5. CASE CreateRule
  BY <1>5, CreateRuleKeepsReported
<1>6. CASE ListConditions \/ PassOver \/ ApplyDone \/ \E r \in Refs : CreateElement(r)
  <2>1. /\ UNCHANGED <<action, tname, keep, wrote, rules, cur, queue, stale>>
        /\ {phase, phase'} \cap {"findSet", "rules"} = {}
        /\ failed' \in {failed, failed + 1}
    BY <1>6 DEF ListConditions, PassOver, ApplyDone, CreateElement, Fail, target, report, progress
  <2>2. failed' \in Nat /\ failed' >= failed
    BY <2>1 DEF TypeOK
  <2>3. QED
    BY <2>1, <2>2, FrameKeepsReported
<1>7. CASE RulesDone
  <2>1. /\ UNCHANGED <<action, tname, keep, wrote, rules, stale, failed>>
        /\ queue = <<>> /\ phase = "rules" /\ phase' = "sets"
    BY <1>7 DEF RulesDone, target, report
  <2>2. \A n : Posting(n) = {} /\ Posting(n)' = {}
    BY <2>1 DEF Posting, Range
  <2>3. \A s : WrittenTo(s)' = WrittenTo(s) /\ Wanted(s)' = Wanted(s)
    BY <2>1 DEF WrittenTo, Wanted
  <2>4. QED
    BY <2>1, <2>2, <2>3 DEF ReportedInv
<1>8. CASE Admin
  BY <1>8, AdminKeepsReported
<1>9. CASE UNCHANGED vars
  BY <1>9, FrameKeepsReported DEF vars, target, report, progress, TypeOK
<1>10. CASE FindSet
  BY <1>10, FindSetKeepsReported
<1>11. QED
  BY <1>1, <1>2, <1>3, <1>4, <1>5, <1>6, <1>7, <1>8, <1>9, <1>10 DEF Next, Import

(* A set that an import wrote to and left without one of its rules is      *)
(* counted as a failure, for every bundle and whatever fails, is lost or   *)
(* is changed by somebody else between two posts.                          *)
THEOREM SetsIncompleteIsReported == Spec => []IncompleteIsReported
<1>1. Init => ReportedInv
  <2> SUFFICES ASSUME Init PROVE ReportedInv
    OBVIOUS
  <2>1. wrote = {} /\ phase = "idle" /\ \A s \in Sets : action[s] = "skip"
    BY DEF Init
  <2>2. QED
    BY <2>1 DEF ReportedInv
<1>2. TypeOK /\ ReportedInv => IncompleteIsReported
  <2> SUFFICES ASSUME TypeOK, ReportedInv, phase = "done", NEW s \in wrote,
                      WrittenTo(s) \notin stale, ~Complete(WrittenTo(s), Wanted(s))
               PROVE  failed > 0
    BY DEF IncompleteIsReported
  <2>1. Posting(WrittenTo(s)) = {}
    BY DEF Posting
  <2>2. QED
    BY <2>1 DEF ReportedInv, Complete
<1>3. QED
  BY <1>1, <1>2, SetsTypeOK, ReportedStep, PTL DEF Spec

-----------------------------------------------------------------------------
(* Re-runs repair what earlier imports left out.                           *)

(* handleApply's gate: nothing to create means no element and no set.      *)
LEMMA NothingToCreate ==
  ASSUME elems' \subseteq Carried, ToCreate = 0
  PROVE  elems' = {} /\ \A s \in Sets : action'[s] \notin {"create", "merge"}
<1> DEFINE some == {s \in Sets : action'[s] \in {"create", "merge"}}
<1>1. IsFiniteSet(elems')
  BY PolicyAssumption, FS_Subset
<1>2. IsFiniteSet(some)
  BY SourceFinite, FS_Subset DEF Sets
<1>3. ToCreate = Cardinality(elems') + Cardinality(some)
  BY DEF ToCreate
<1> HIDE DEF some
<1>4. Cardinality(elems') \in Nat /\ Cardinality(some) \in Nat
  BY <1>1, <1>2, FS_CardinalityType
<1>5. Cardinality(elems') = 0 /\ Cardinality(some) = 0
  BY <1>3, <1>4
<1>6. elems' = {} /\ some = {}
  BY <1>1, <1>2, <1>5, FS_EmptySet
<1>7. QED
  BY <1>6 DEF some

(* A step without a fault in an undisturbed run.                           *)
LEMMA QuietStep ==
  ASSUME Fault \/ Fine, quiet'
  PROVE  quiet /\ ~Fault
BY DEF Fault, Fine

LEMMA PreflightKeepsRepair ==
  ASSUME TypeOK, TypeOK', ApplyRequest
  PROVE  RepairInv'
<1> SUFFICES ASSUME quiet' PROVE RepairInv'
  BY DEF RepairInv
<1>1. Preflight(owner, rules, have, have)
  <2>1. PICK seen \in SetListings, listed \in RuleListings,
             elemsKnown \in RefListings, known \in RefListings :
           /\ Preflight(seen, listed, elemsKnown, known)
           /\ quiet' = (<<seen, listed, elemsKnown, known>> = <<owner, rules, have, have>>)
    BY DEF ApplyRequest
  <2>2. <<seen, listed, elemsKnown, known>> = <<owner, rules, have, have>>
    BY <2>1
  <2>3. seen = owner /\ listed = rules /\ elemsKnown = have /\ known = have
    BY <2>2
  <2>4. QED
    BY <2>1, <2>3
<1>2. /\ UNCHANGED <<have, owner, rules>>
      /\ todo' = BundleOrder /\ stale' = {}
      /\ phase' = (IF ToCreate = 0 THEN "done" ELSE "elements")
  BY DEF ApplyRequest, target
<1>3. /\ elems' = ElementsToCreate(have)
      /\ action' = [s \in Sets |-> Verdict(s, owner, rules, have, elems')]
  BY <1>1 DEF Preflight
<1>4. phase' = "done" => elems' = {} /\ \A s \in Sets : action'[s] # "merge"
  BY <1>2, <1>3, NothingToCreate DEF ElementsToCreate
<1>5. \A n : Posting(n)' = {}
  BY <1>2 DEF Posting
<1>6. ASSUME NEW s \in Sets, action'[s] # "blocked"
      PROVE  /\ \A r \in Range(RulesOf[s]) : Needs[r] \subseteq have' \cup elems'
             /\ Mine(owner'[<<s, 0>>]) =>
                  \/ action'[s] = "merge"
                  \/ Range(RulesOf[s]) \subseteq Range(rules'[<<s, 0>>])
  <2>1. action'[s] = Verdict(s, owner, rules, have, elems') /\ SetResolves(s, have, elems')
    BY <1>3, <1>6 DEF Verdict
  <2>2. QED
    BY <1>2, <2>1 DEF Verdict, SetResolves, Resolvable, Mine
<1>7. \A s \in Sets : s \in Range(todo')
  BY <1>2, BundleOrderCorrect DEF Sets
<1>8. phase' \in {"done", "elements"}
  BY <1>2
<1>9. \A e \in elems' : ElementNeeds[e] \subseteq have'
  BY <1>2, <1>3 DEF ElementsToCreate
<1>10. QED
  BY <1>2, <1>4, <1>5, <1>6, <1>7, <1>8, <1>9 DEF RepairInv

LEMMA CreateElementKeepsRepair ==
  ASSUME RepairInv, NEW r \in Refs, CreateElement(r)
  PROVE  RepairInv'
<1> SUFFICES ASSUME quiet' PROVE RepairInv'
  BY DEF RepairInv
<1>1. /\ UNCHANGED <<owner, rules, phase, action, ids, todo, cur, queue, stale>>
      /\ phase = "elements" /\ r \in elems /\ elems' = elems \ {r}
  BY DEF CreateElement, report
<1>2. quiet /\ ~Fault
  BY QuietStep DEF CreateElement
<1>3. ElementNeeds[r] \subseteq have
  BY <1>1, <1>2 DEF RepairInv
<1>4. have' = have \cup {r}
  BY <1>2, <1>3 DEF CreateElement
<1>5. have \cup elems = have' \cup elems'
  BY <1>1, <1>4
<1>6. \A n : Posting(n)' = Posting(n)
  BY <1>1 DEF Posting
<1>7. /\ stale' = {} /\ phase' = "elements"
      /\ \A e \in elems' : ElementNeeds[e] \subseteq have'
  BY <1>1, <1>2, <1>4 DEF RepairInv
<1>8. ASSUME NEW s \in Sets
      PROVE  /\ Posting(<<s, 0>>)' \subseteq Range(RulesOf[s])
             /\ action'[s] # "blocked" /\ phase' # "done" =>
                  \A q \in Range(RulesOf[s]) : Needs[q] \subseteq have' \cup elems'
             /\ Mine(owner'[<<s, 0>>]) /\ action'[s] # "blocked" =>
                  \/ phase' # "done" /\ action'[s] = "merge" /\ s \in Range(todo')
                  \/ Range(RulesOf[s]) \subseteq Range(rules'[<<s, 0>>]) \cup Posting(<<s, 0>>)'
  BY <1>1, <1>2, <1>5, <1>6 DEF RepairInv
<1>9. QED
  BY <1>1, <1>7, <1>8 DEF RepairInv

(* What is left of RepairInv once the elements are done: what a step says  *)
(* of the set <<s, 0>>.                                                    *)
Repaired(s) ==
  /\ Posting(<<s, 0>>) \subseteq Range(RulesOf[s])
  /\ action[s] # "blocked" /\ phase # "done" =>
       \A r \in Range(RulesOf[s]) : Needs[r] \subseteq have
  /\ Mine(owner[<<s, 0>>]) /\ action[s] # "blocked" =>
       \/ phase # "done" /\ action[s] = "merge" /\ s \in Range(todo)
       \/ Range(RulesOf[s]) \subseteq Range(rules[<<s, 0>>]) \cup Posting(<<s, 0>>)

Writing ==
  /\ stale = {} /\ elems = {}
  /\ ids = have \cap Conditions
  /\ \A s \in Sets : Repaired(s)

LEMMA RepairIsWriting ==
  ASSUME phase \in {"sets", "findSet", "rules"}, quiet
  PROVE  RepairInv <=> Writing
BY DEF RepairInv, Writing, Repaired

LEMMA WritingIsRepair ==
  ASSUME Writing', phase' \in {"sets", "findSet", "rules", "done"}
  PROVE  RepairInv'
BY DEF RepairInv, Writing, Repaired

LEMMA ListConditionsKeepsRepair ==
  ASSUME RepairInv, ListConditions
  PROVE  RepairInv'
<1> SUFFICES ASSUME quiet' PROVE RepairInv'
  BY DEF RepairInv
<1>1. /\ UNCHANGED <<have, owner, rules, action, elems, todo, stale>>
      /\ phase = "elements" /\ phase' = "sets" /\ elems = {}
  BY DEF ListConditions, report, target
<1>2. quiet /\ ~Fault
  BY QuietStep DEF ListConditions
<1>3. ids' = have \cap Conditions
  BY <1>2 DEF ListConditions
<1>4. \A n : Posting(n) = {} /\ Posting(n)' = {}
  BY <1>1 DEF Posting
<1>5. \A s \in Sets : Repaired(s)'
  BY <1>1, <1>2, <1>4 DEF RepairInv, Repaired
<1>6. stale' = {}
  BY <1>1, <1>2 DEF RepairInv
<1>7. QED
  BY <1>1, <1>3, <1>5, <1>6, WritingIsRepair DEF Writing

(* The set at the head of the list is the only one that leaves it.         *)
LEMMA StillPending ==
  ASSUME TypeOK, todo # <<>>, todo' = Tail(todo)
  PROVE  \A s \in Range(todo) : s # Head(todo) => s \in Range(todo')
BY HeadAndTail DEF TypeOK

LEMMA PassOverKeepsRepair ==
  ASSUME TypeOK, RepairInv, PassOver
  PROVE  RepairInv'
<1> SUFFICES ASSUME quiet' PROVE RepairInv'
  BY DEF RepairInv
<1>1. /\ UNCHANGED <<have, owner, rules, action, elems, ids, stale, quiet, cur, queue, phase>>
      /\ phase = "sets" /\ todo # <<>> /\ todo' = Tail(todo)
      /\ Head(todo) = Default \/ action[Head(todo)] \in {"skip", "blocked"}
  BY DEF PassOver, report, target
<1>2. Writing
  BY <1>1, RepairIsWriting
<1>3. \A n : Posting(n)' = Posting(n)
  BY <1>1 DEF Posting
<1>4. \A s \in Sets : action[s] = "merge" /\ s \in Range(todo) => s \in Range(todo')
  BY <1>1, StillPending DEF Sets
<1>5. \A s \in Sets : Repaired(s)'
  BY <1>1, <1>2, <1>3, <1>4 DEF Writing, Repaired
<1>6. Writing'
  BY <1>1, <1>2, <1>5 DEF Writing
<1>7. QED
  BY <1>1, <1>6, WritingIsRepair

LEMMA CreateSetKeepsRepair ==
  ASSUME TypeOK, RepairInv, CreateSet
  PROVE  RepairInv'
<1> SUFFICES ASSUME quiet' PROVE RepairInv'
  BY DEF RepairInv
<1> DEFINE h == Head(todo)
           n == <<h, tname[h]>>
<1>1. /\ UNCHANGED <<have, rules, action, elems, ids>>
      /\ phase = "sets" /\ todo # <<>> /\ todo' = Tail(todo)
      /\ h \in Sets /\ action[h] = "create"
  BY DEF CreateSet, report
<1>2. quiet /\ ~Fault
  BY QuietStep DEF CreateSet
<1>3. Writing
  BY <1>1, <1>2, RepairIsWriting
<1>4. \/ UNCHANGED <<owner, stale, phase, cur, queue>>
      \/ /\ owner' = [owner EXCEPT ![n] = "tool"] /\ stale' = stale \ {n}
         /\ phase' = "findSet" /\ cur' = n
  BY <1>2 DEF CreateSet
<1>5. \A m : Posting(m) = {}
  BY <1>1 DEF Posting
<1>6. ASSUME NEW s \in Sets
      PROVE  Repaired(s)'
  <2>1. action[s] = "merge" /\ s \in Range(todo) => s \in Range(todo')
    BY <1>1, StillPending
  <2>2. CASE UNCHANGED <<owner, stale, phase, cur, queue>>
    <3>1. Posting(<<s, 0>>)' = Posting(<<s, 0>>)
      BY <2>2 DEF Posting
    <3>2. QED
      BY <1>1, <1>3, <2>1, <2>2, <3>1 DEF Writing, Repaired
  <2>3. CASE /\ owner' = [owner EXCEPT ![n] = "tool"] /\ stale' = stale \ {n}
             /\ phase' = "findSet" /\ cur' = n
    <3>1. Posting(<<s, 0>>)' = IF n = <<s, 0>> THEN Range(RulesOf[h]) ELSE {}
      BY <2>3 DEF Posting
    <3>2. n = <<s, 0>> => s = h
      OBVIOUS
    <3>3. n # <<s, 0>> => owner'[<<s, 0>>] = owner[<<s, 0>>]
      BY <2>3, OwnNames DEF TypeOK
    <3> HIDE DEF n, h
    <3>4. QED
      BY <1>1, <1>3, <1>5, <2>1, <2>3, <3>1, <3>2, <3>3 DEF Writing, Repaired
  <2>4. QED
    BY <1>4, <2>2, <2>3
<1>7. stale' = {} /\ phase' \in {"sets", "findSet"}
  BY <1>1, <1>3, <1>4 DEF Writing
<1>8. Writing'
  BY <1>1, <1>3, <1>6, <1>7 DEF Writing
<1>9. QED
  BY <1>7, <1>8, WritingIsRepair

(* A set of ours that was created is found, or is no longer there.         *)
LEMMA FindSetKeepsRepair ==
  ASSUME RepairInv, FindSet
  PROVE  RepairInv'
<1> SUFFICES ASSUME quiet' PROVE RepairInv'
  BY DEF RepairInv
<1>1. /\ UNCHANGED <<have, owner, rules, action, elems, ids, todo, cur>>
      /\ phase = "findSet" /\ stale' \in {stale, stale \ {cur}}
      /\ Fault \/ Fine
  BY DEF FindSet, target, report
<1>2. quiet /\ ~Fault
  BY <1>1, QuietStep
<1>3. Writing
  BY <1>1, <1>2, RepairIsWriting
<1>4. \/ phase' = "rules" /\ queue' = RulesOf[cur[1]]
      \/ phase' = "sets" /\ owner[cur] = "none"
  BY <1>2 DEF FindSet
<1>5. ASSUME NEW s \in Sets
      PROVE  Repaired(s)'
  <2>1. CASE cur = <<s, 0>> /\ phase' = "sets"
    <3>1. Posting(<<s, 0>>)' = {} /\ ~Mine(owner'[<<s, 0>>])
      BY <1>1, <1>4, <2>1 DEF Posting, Mine
    <3>2. QED
      BY <1>1, <1>3, <2>1, <3>1 DEF Writing, Repaired
  <2>2. CASE ~(cur = <<s, 0>> /\ phase' = "sets")
    <3>1. Posting(<<s, 0>>)' = Posting(<<s, 0>>)
      BY <1>1, <1>4, <2>2 DEF Posting
    <3>2. QED
      BY <1>1, <1>3, <1>4, <3>1 DEF Writing, Repaired
  <2>3. QED
    BY <2>1, <2>2
<1>6. Writing'
  BY <1>1, <1>3, <1>5 DEF Writing
<1>7. QED
  BY <1>4, <1>6, WritingIsRepair

LEMMA MergeKeepsRepair ==
  ASSUME TypeOK, RepairInv, MergeMine \/ MergeDefault
  PROVE  RepairInv'
<1> SUFFICES ASSUME quiet' PROVE RepairInv'
  BY DEF RepairInv
<1> DEFINE h == Head(todo)
<1>1. /\ UNCHANGED <<have, owner, rules, action, elems, ids, stale>>
      /\ phase = "sets" /\ todo # <<>> /\ todo' = Tail(todo) /\ phase' = "rules"
      /\ Fault \/ Fine
  BY DEF MergeMine, MergeDefault, Merge, report, target
<1>2. quiet /\ ~Fault
  BY <1>1, QuietStep
<1>3. Writing
  BY <1>1, <1>2, RepairIsWriting
<1>4. stale = {}
  BY <1>3 DEF Writing
<1>5. \/ h \in Sets /\ cur' = <<h, 0>> /\ queue' = Missing(RulesOf[h], <<h, 0>>)
      \/ h \notin Sets /\ cur' = DefaultName
  BY <1>2, <1>4 DEF MergeMine, MergeDefault, Merge, Sets
<1>6. ASSUME NEW s \in Sets
      PROVE  Repaired(s)'
  <2>1. CASE h # s
    <3>1. Posting(<<s, 0>>) = {} /\ Posting(<<s, 0>>)' = {}
      BY <1>1, <1>5, <2>1 DEF Posting, DefaultName, Sets
    <3>2. s \in Range(todo) => s \in Range(todo')
      BY <1>1, <2>1, StillPending
    <3>3. QED
      BY <1>1, <1>3, <3>1, <3>2 DEF Writing, Repaired
  <2>2. CASE h = s
    <3>1. cur' = <<s, 0>> /\ queue' = Missing(RulesOf[s], <<s, 0>>)
      BY <1>5, <2>2
    <3>2. Posting(<<s, 0>>)' = Range(Missing(RulesOf[s], <<s, 0>>))
      BY <1>1, <3>1 DEF Posting
    <3>3. RulesOf[s] \in Seq(Rules) /\ <<s, 0>> \in Names
      BY OwnNames, PolicyAssumption DEF Sets
    <3>4. /\ Posting(<<s, 0>>)' \subseteq Range(RulesOf[s])
          /\ Range(RulesOf[s]) \subseteq Range(rules[<<s, 0>>]) \cup Posting(<<s, 0>>)'
      BY <3>2, <3>3, MissingCovers
    <3>5. QED
      BY <1>1, <1>3, <3>4 DEF Writing, Repaired
  <2>3. QED
    BY <2>1, <2>2
<1>7. Writing'
  BY <1>1, <1>3, <1>6 DEF Writing
<1>8. QED
  BY <1>1, <1>7, WritingIsRepair

LEMMA CreateRuleKeepsRepair ==
  ASSUME TypeOK, RepairInv, CreateRule
  PROVE  RepairInv'
<1> SUFFICES ASSUME quiet' PROVE RepairInv'
  BY DEF RepairInv
<1> DEFINE q == Head(queue)
<1>1. /\ UNCHANGED <<have, owner, action, elems, ids, stale, todo, cur, phase>>
      /\ phase = "rules" /\ queue # <<>> /\ queue' = Tail(queue)
  BY DEF CreateRule, report
<1>2. quiet /\ ~Fault
  BY QuietStep DEF CreateRule
<1>3. Writing
  BY <1>1, <1>2, RepairIsWriting
<1>4. q \in Rules /\ Range(queue) = {q} \cup Range(queue')
  BY <1>1, HeadAndTail DEF TypeOK
<1>5. cur \in Names /\ rules[cur] \in Seq(Rules)
  BY DEF TypeOK
<1>6. Range(Append(rules[cur], q)) = Range(rules[cur]) \cup {q}
  BY <1>4, <1>5, AppendRange
<1>7. rules' \in {rules, [rules EXCEPT ![cur] = Append(@, q)]}
  BY DEF CreateRule
<1>8. \A n \in Names : Range(rules[n]) \subseteq Range(rules'[n])
  BY <1>5, <1>6, <1>7 DEF TypeOK
<1>9. Needs[q] \subseteq have => q \in Range(rules'[cur])
  <2> SUFFICES ASSUME Needs[q] \subseteq have PROVE q \in Range(rules'[cur])
    OBVIOUS
  <2>1. cur \notin stale /\ ~Unresolved(Needs[q]) /\ ~Unrewritten(Needs[q])
    BY <1>3 DEF Writing, Unresolved, Unrewritten
  <2>2. \/ q \in Range(rules[cur]) /\ rules' = rules
        \/ rules' = [rules EXCEPT ![cur] = Append(@, q)]
    BY <1>2, <2>1 DEF CreateRule
  <2>3. QED
    BY <1>5, <1>6, <2>2 DEF TypeOK
<1>10. ASSUME NEW s \in Sets
       PROVE  Repaired(s)'
  <2>1. CASE cur = <<s, 0>>
    <3>1. Posting(<<s, 0>>) = Range(queue) /\ Posting(<<s, 0>>)' = Range(queue')
      BY <1>1, <2>1 DEF Posting
    <3>2. q \in Range(RulesOf[s])
      BY <1>3, <1>4, <3>1 DEF Writing, Repaired
    <3>3. action[s] # "blocked" => q \in Range(rules'[<<s, 0>>])
      BY <1>1, <1>3, <1>9, <2>1, <3>2 DEF Writing, Repaired
    <3>4. Range(rules[<<s, 0>>]) \subseteq Range(rules'[<<s, 0>>])
      BY <1>5, <1>8, <2>1
    <3> HIDE DEF q
    <3>5. QED
      BY <1>1, <1>3, <1>4, <3>1, <3>3, <3>4 DEF Writing, Repaired
  <2>2. CASE cur # <<s, 0>>
    <3>1. Posting(<<s, 0>>) = {} /\ Posting(<<s, 0>>)' = {}
      BY <1>1, <2>2 DEF Posting
    <3>2. Range(rules[<<s, 0>>]) \subseteq Range(rules'[<<s, 0>>])
      BY <1>8, OwnNames
    <3>3. QED
      BY <1>1, <1>3, <3>1, <3>2 DEF Writing, Repaired
  <2>3. QED
    BY <2>1, <2>2
<1>11. Writing'
  BY <1>1, <1>3, <1>10 DEF Writing
<1>12. QED
  BY <1>1, <1>11, WritingIsRepair

(* A set whose rules are all posted is complete, and when the list is      *)
(* empty no set is pending.                                                *)
LEMMA PaceKeepsRepair ==
  ASSUME RepairInv, RulesDone \/ ApplyDone
  PROVE  RepairInv'
<1> SUFFICES ASSUME quiet' PROVE RepairInv'
  BY DEF RepairInv
<1>1. /\ UNCHANGED <<have, owner, rules, action, elems, ids, stale, todo, quiet>>
      /\ phase \in {"sets", "rules"} /\ phase' \in {"sets", "done"}
  BY DEF RulesDone, ApplyDone, target, report, progress
<1>2. Writing
  BY <1>1, RepairIsWriting
<1>3. \A n : Posting(n) = {} /\ Posting(n)' = {}
  <2>1. (phase = "rules" => queue = <<>>) /\ {phase, phase'} \cap {"findSet"} = {} /\ phase' # "rules"
    BY DEF RulesDone, ApplyDone
  <2>2. Range(<<>>) = {}
    BY DEF Range
  <2>3. QED
    BY <2>1, <2>2 DEF Posting
<1>4. phase' = "done" => Range(todo) = {}
  BY DEF RulesDone, ApplyDone, Range
<1>5. \A s \in Sets : Repaired(s)'
  BY <1>1, <1>2, <1>3, <1>4 DEF Writing, Repaired
<1>6. QED
  BY <1>1, <1>2, <1>5, WritingIsRepair DEF Writing

LEMMA RepairStep == TypeOK /\ TypeOK' /\ RepairInv /\ [Next]_vars => RepairInv'
<1> SUFFICES ASSUME TypeOK, TypeOK', RepairInv, [Next]_vars PROVE RepairInv'
  OBVIOUS
<1>1. CASE ApplyRequest
  BY <1>1, PreflightKeepsRepair
<1>2. CASE \E r \in Refs : CreateElement(r)
  BY <1>2, CreateElementKeepsRepair
<1>3. CASE ListConditions
  BY <1>3, ListConditionsKeepsRepair
<1>4. CASE PassOver
  BY <1>4, PassOverKeepsRepair
<1>5. CASE CreateSet
  BY <1>5, CreateSetKeepsRepair
<1>6. CASE MergeMine \/ MergeDefault
  BY <1>6, MergeKeepsRepair
<1>7. CASE CreateRule
  BY <1>7, CreateRuleKeepsRepair
<1>8. CASE RulesDone \/ ApplyDone
  BY <1>8, PaceKeepsRepair
<1>9. CASE Admin
  <2>1. quiet' = FALSE
    BY <1>9 DEF Admin, AdminAddsSet, AdminDeletesSet, AdminEnables, AdminChangesRef, Edit
  <2>2. QED
    BY <2>1 DEF RepairInv
<1>10. CASE UNCHANGED vars
  <2>1. UNCHANGED <<have, owner, rules, phase, action, elems, ids, todo, cur, queue, stale, quiet>>
    BY <1>10 DEF vars, target, report, progress
  <2>2. \A n : Posting(n)' = Posting(n)
    BY <2>1 DEF Posting
  <2>3. QED
    BY <2>1, <2>2 DEF RepairInv
<1>11. CASE FindSet
  BY <1>11, FindSetKeepsRepair
<1>12. QED
  BY <1>1, <1>2, <1>3, <1>4, <1>5, <1>6, <1>7, <1>8, <1>9, <1>10, <1>11 DEF Next, Import

(* Re-runs repair, for every bundle: whatever earlier imports left out,    *)
(* lost or could not create, after one that nothing disturbed every set    *)
(* of ours that was not blocked has every rule of the source.              *)
THEOREM SetsOwnSetsComplete == Spec => []OwnSetsComplete
<1>1. Init => RepairInv
  BY DEF Init, RepairInv
<1>2. RepairInv => OwnSetsComplete
  BY DEF RepairInv, OwnSetsComplete, Complete, Posting
<1>3. QED
  BY <1>1, <1>2, SetsTypeOK, RepairStep, PTL DEF Spec
=============================================================================
