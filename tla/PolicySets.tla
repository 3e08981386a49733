----------------------------- MODULE PolicySets -----------------------------
(***************************************************************************)
(* The policy set family over repeated imports of one bundle: the order    *)
(* ExportPolicySets writes, the verdicts of preflightPolicySets,           *)
(* handleApply's gate, the policy elements the rules refer to, and         *)
(* applyPolicySets with its per-rule writes.                               *)
(*                                                                         *)
(* A set is created first and its rules are posted to it one by one, so an *)
(* import that fails in between leaves a set without some of its rules.    *)
(* The import marker in a set's description is what a later run goes by.   *)
(*                                                                         *)
(* Authentication and authorization rules go through the same steps; both  *)
(* lists of a set are one sequence here and a rule stands for its kind and *)
(* name.  The set's own default rule is never posted and is left out.      *)
(***************************************************************************)
EXTENDS Naturals, Sequences, FiniteSets, Functions, TLC

CONSTANTS
  Source,       \* the source's policy sets, Default among them, in rank order
  Default,      \* the name of the set every deployment has
  NameRank,     \* alphabetical position of a set's name
  Rules,        \* rule names
  RulesOf,      \* the rules of each set, in source order
  Refs,         \* names a set or rule may refer to
  SetNeeds,     \* the references of a set's own condition and service
  Needs,        \* the references of a rule
  Conditions,   \* references that are rewritten to the target's ids
  Carried,      \* references the bundle carries as policy elements
  ElementNeeds, \* what such an element refers to outside the bundle
  Enabled,      \* the sets and rules that are enabled on the source
  MaxSuffix,    \* bound on "(imported k)"; 99 in the code
  MaxEdits,     \* bound on changes to the target by somebody else
  MaxFaults,    \* bound on failed requests
  MaxTrouble,   \* bound on both together
  MaxRuns       \* bound on confirmed imports

Sets == Range(Source) \ {Default}

ASSUME PolicyAssumption ==
  /\ Source \in Seq(Range(Source)) /\ IsInjective(Source)
  /\ Default \in Range(Source)
  /\ NameRank \in [Range(Source) -> Nat] /\ IsInjective(NameRank)
  /\ RulesOf \in [Range(Source) -> Seq(Rules)]
  /\ SetNeeds \in [Sets -> SUBSET Refs]
  /\ Needs \in [Rules -> SUBSET Refs]
  /\ Conditions \subseteq Refs /\ Carried \subseteq Refs /\ IsFiniteSet(Carried)
  /\ ElementNeeds \in [Carried -> SUBSET (Refs \ Carried)]
  /\ Enabled \subseteq Sets \cup Rules
  /\ {MaxSuffix, MaxEdits, MaxFaults, MaxTrouble, MaxRuns} \subseteq Nat

\* <<s, 0>> is the name s itself, <<s, k>> is "s (imported k)".
DefaultName == <<Default, 0>>
Names == (Sets \X (0..MaxSuffix)) \cup {DefaultName}

VARIABLES
  have,       \* the references the target can resolve
  owner,      \* who made each set of the target: "none", "tool" or "other"
  rules,      \* the rules of each set of the target, in rank order
  order,      \* the sets this tool created, in rank order
  active,     \* the <<set, rule>> pairs whose rule is enabled
  on,         \* the sets of the target that are enabled
  phase,      \* the import's next step
  keepState,  \* the operator's checkbox: carry the source's own state
  action,     \* verdict per set: "create", "merge", "skip" or "blocked"
  tname,      \* the target name a bundle set is written under
  keep,       \* the rules of Default that resolved at pre-flight
  defaultID,  \* "found" or "missing": targetDefaultID
  elems,      \* policy elements still to be created
  ids,        \* conditionIDByName: the conditions whose id is known
  todo,       \* bundle sets still to be written, in bundle order
  cur,        \* the target set whose rules are being posted
  queue,      \* the rules still to be posted to it
  failed,     \* ImportResult.Failed
  wrote,      \* bundle sets whose rules were posted in this run
  mistaken,   \* the set found under the name of a new one is not that one
  stale,      \* sets deleted since the run began: the ids it holds are dead
  quiet,      \* no fault and no change by somebody else since the run began
  deleted,    \* somebody deleted a set
  edits, faults, runs

target == <<have, owner, rules, order, active, on>>
report == <<keepState, action, tname, keep, defaultID>>
progress == <<elems, ids, todo, cur, queue, failed, wrote, mistaken>>
bounds == <<edits, faults, runs>>
vars == <<target, phase, report, progress, stale, quiet, deleted, bounds>>

-----------------------------------------------------------------------------
(* Export                                                                  *)

\* The members of a finite set by increasing rank.
InOrder(S, rank) ==
  [k \in 1..Cardinality(S) |-> CHOOSE x \in S : Cardinality({y \in S : rank[y] <= rank[x]}) = k]

\* The entries of a list that are in T, in the list's order.
Only(seq, T) ==
  LET at == InOrder({i \in DOMAIN seq : seq[i] \in T}, [i \in DOMAIN seq |-> i])
  IN [k \in DOMAIN at |-> seq[at[k]]]

\* ExportPolicySets sorts the sets by name before it writes them.
BundleOrder == InOrder(Range(Source), NameRank)

-----------------------------------------------------------------------------
(* Pre-flight                                                              *)

\* Policy elements: what the target lacks is created unless what it refers to
\* is missing too.
ElementsToCreate(known) == {r \in Carried \ known : ElementNeeds[r] \subseteq known}

\* checkRuleReferences; elements this run creates count as present.
Resolvable(needs, known, arriving) == needs \subseteq known \cup arriving

\* checkPolicySetReferences
SetResolves(s, known, arriving) ==
  /\ Resolvable(SetNeeds[s], known, arriving)
  /\ \A r \in Range(RulesOf[s]) : Resolvable(Needs[r], known, arriving)

\* Mutation: any set that has the bundle set's name is taken for our own.
MineByName(o) == o # "none"

\* mine: the set's description carries the import marker.
Mine(o) == o = "tool"

\* Mutation: a copy that an earlier run imported is numbered past.
FreeSuffixPastOwn(s, seen) ==
  LET free == {k \in 1..MaxSuffix : seen[<<s, k>>] = "none"}
  IN IF free = {} THEN 0 ELSE CHOOSE i \in free : \A j \in free : i <= j

\* freeSetName: the first unused suffix, or 0 when a set of ours comes first.
FreeSuffix(s, seen) ==
  LET stop == {k \in 1..MaxSuffix : seen[<<s, k>>] = "none" \/ Mine(seen[<<s, k>>])}
      first == CHOOSE i \in stop : \A j \in stop : i <= j
  IN IF stop = {} THEN 0
     ELSE IF Mine(seen[<<s, first>>]) THEN 0 ELSE first

\* Mutation: a set that an earlier run imported is skipped whole.
VerdictSkipsMine(s, seen, listed, known, arriving) ==
  IF ~SetResolves(s, known, arriving) THEN "blocked"
  ELSE CASE seen[<<s, 0>>] = "none" -> "create"
         [] Mine(seen[<<s, 0>>])    -> "skip"
         [] OTHER                   -> IF FreeSuffix(s, seen) # 0 THEN "create" ELSE "skip"

\* Mutation: no verdict when every name beside the target's set is taken.
VerdictUnset(s, seen, listed, known, arriving) ==
  IF ~SetResolves(s, known, arriving) THEN "blocked"
  ELSE CASE seen[<<s, 0>>] = "none" -> "create"
         [] Mine(seen[<<s, 0>>])    -> IF Range(RulesOf[s]) \subseteq Range(listed[<<s, 0>>])
                                       THEN "skip" ELSE "merge"
         [] OTHER                   -> IF FreeSuffix(s, seen) # 0 THEN "create" ELSE ""

\* The verdict on a set, given the owners and the rules that were listed.
Verdict(s, seen, listed, known, arriving) ==
  IF ~SetResolves(s, known, arriving) THEN "blocked"
  ELSE CASE seen[<<s, 0>>] = "none" -> "create"
         [] Mine(seen[<<s, 0>>])    -> IF Range(RulesOf[s]) \subseteq Range(listed[<<s, 0>>])
                                       THEN "skip" ELSE "merge"
         [] OTHER                   -> IF FreeSuffix(s, seen) # 0 THEN "create" ELSE "skip"

TargetName(s, seen) ==
  IF seen[<<s, 0>>] = "none" \/ Mine(seen[<<s, 0>>]) THEN 0 ELSE FreeSuffix(s, seen)

\* A collection that cannot be listed is taken for empty.  Each reference
\* stands for a collection of its own; the elements family and the sets
\* family list them separately.
RefListings == {have} \cup {have \ {r} : r \in Refs}
SetListings == {owner, [n \in Names |-> "none"]}
RuleListings == {rules} \cup {[rules EXCEPT ![n] = <<>>] : n \in Names}

Preflight(seen, listed, elemsKnown, known) ==
  LET arriving == ElementsToCreate(elemsKnown) IN
  /\ elems' = arriving
  /\ action' = [s \in Sets |-> Verdict(s, seen, listed, known, arriving)]
  /\ tname' = [s \in Sets |-> TargetName(s, seen)]
  /\ keep' = Only(RulesOf[Default], {r \in Rules : Resolvable(Needs[r], known, arriving)})
  /\ defaultID' = IF seen[DefaultName] = "none" THEN "missing" ELSE "found"

\* handleApply: the pre-flight, then the gate on the number of creates.
ToCreate == Cardinality(elems') + Cardinality({s \in Sets : action'[s] \in {"create", "merge"}})

MayFault == faults < MaxFaults /\ edits + faults < MaxTrouble

ApplyRequest ==
  /\ phase \in {"idle", "done"}
  /\ runs < MaxRuns
  /\ runs' = runs + 1
  /\ keepState' \in BOOLEAN
  /\ \E seen \in SetListings, listed \in RuleListings,
        elemsKnown \in RefListings, known \in RefListings :
        LET truth == <<seen, listed, elemsKnown, known>> = <<owner, rules, have, have>> IN
        /\ truth \/ MayFault
        /\ faults' = IF truth THEN faults ELSE faults + 1
        /\ quiet' = truth
        /\ Preflight(seen, listed, elemsKnown, known)
  /\ phase' = IF ToCreate = 0 THEN "done" ELSE "elements"
  /\ todo' = BundleOrder
  /\ ids' = {}
  /\ failed' = 0
  /\ wrote' = {}
  /\ stale' = {}
  /\ UNCHANGED <<target, cur, queue, mistaken, deleted, edits>>

-----------------------------------------------------------------------------
(* Apply                                                                   *)

\* Every request may fail; a failed write may have been carried out.
Fault == MayFault /\ faults' = faults + 1 /\ quiet' = FALSE
Fine == UNCHANGED <<faults, quiet>>
Fail(n) == failed' = failed + n

\* applyPolicyElements, one POST.  A duplicate is counted as skipped.
CreateElement(r) ==
  /\ phase = "elements" /\ r \in elems
  /\ elems' = elems \ {r}
  /\ LET accepted == r \in have \/ ElementNeeds[r] \subseteq have IN
     \/ accepted /\ have' = have \cup {r} /\ Fine /\ UNCHANGED failed
     \/ ~accepted /\ Fail(1) /\ Fine /\ UNCHANGED have
     \/ Fault /\ Fail(1) /\ have' \in {have, IF accepted THEN have \cup {r} ELSE have}
  /\ UNCHANGED <<owner, rules, order, active, on, phase, report, ids, todo, cur, queue, wrote,
                 mistaken, stale, deleted, edits, runs>>

\* The elements are done; applyPolicySets lists the conditions.
ListConditions ==
  /\ phase = "elements" /\ elems = {}
  /\ phase' = "sets"
  /\ \/ ids' = have \cap Conditions /\ Fine
     \/ ids' = {} /\ Fault
  /\ UNCHANGED <<target, report, elems, todo, cur, queue, failed, wrote,
                 mistaken, stale, deleted, edits, runs>>

\* What the loop does with a set that has nothing to write, and with Default
\* when the pre-flight did not find the target's.
PassOver ==
  /\ phase = "sets" /\ todo # <<>>
  /\ todo' = Tail(todo)
  /\ IF Head(todo) = Default
     THEN defaultID = "missing" /\ Fail(1)
     ELSE action[Head(todo)] \in {"skip", "blocked"} /\ UNCHANGED failed
  /\ UNCHANGED <<target, phase, report, elems, ids, cur, queue, wrote,
                 mistaken, stale, quiet, deleted, bounds>>

\* rewriteConditionReferences gives the references it finds the target's id.
\* The target refuses what refers to something it does not have, and may
\* refuse a reference that was left without an id.
Unresolved(needs) == ~(needs \subseteq have)
Unrewritten(needs) == ~(needs \cap Conditions \subseteq ids)

\* POST the set.
CreateSet ==
  LET s == Head(todo)
      n == <<s, tname[s]>>
      \* a new set arrives disabled unless the operator carries the state
      created == /\ owner[n] = "none" /\ ~Unresolved(SetNeeds[s])
                 /\ owner' = [owner EXCEPT ![n] = "tool"]
                 /\ order' = Append(order, n)
                 /\ on' = IF keepState /\ s \in Enabled THEN on \cup {n} ELSE on
                 /\ stale' = stale \ {n}
      nothing == UNCHANGED <<owner, order, on, stale>>
  IN
  /\ phase = "sets" /\ todo # <<>> /\ s \in Sets
  /\ action[s] = "create"
  /\ todo' = Tail(todo)
  /\ \/ \* created
        /\ created /\ Fine /\ UNCHANGED failed
        /\ phase' = "findSet" /\ cur' = n
     \/ \* created, but the answer is lost
        /\ created /\ Fault /\ Fail(1)
        /\ UNCHANGED <<phase, cur>>
     \/ \* refused as a duplicate: counted as skipped
        /\ owner[n] # "none" /\ nothing /\ Fine
        /\ UNCHANGED <<phase, cur, failed>>
     \/ \* refused for what it refers to
        /\ owner[n] = "none" /\ (Unresolved(SetNeeds[s]) \/ Unrewritten(SetNeeds[s]))
        /\ nothing /\ Fine /\ Fail(1)
        /\ UNCHANGED <<phase, cur>>
     \/ \* refused
        /\ nothing /\ Fault /\ Fail(1)
        /\ UNCHANGED <<phase, cur>>
  /\ UNCHANGED <<have, rules, active, report, elems, ids, queue, wrote,
                 mistaken, deleted, edits, runs>>

\* List the sets again to learn the new set's id.  It is looked up by name:
\* when the new set was deleted since the POST and somebody made another of
\* its name, that one is found.
FindSet ==
  /\ phase = "findSet"
  /\ \/ \* found: the rules of its set in the bundle follow
        /\ owner[cur] # "none" /\ Fine /\ UNCHANGED failed
        /\ phase' = "rules" /\ queue' = RulesOf[cur[1]] /\ wrote' = wrote \cup {cur[1]}
        /\ mistaken' = (cur \in stale) /\ stale' = stale \ {cur}
     \/ \* no set of that name, or no listing
        /\ (owner[cur] = "none" /\ Fine) \/ Fault
        /\ Fail(1) /\ phase' = "sets"
        /\ UNCHANGED <<queue, wrote, mistaken, stale>>
  /\ UNCHANGED <<target, report, elems, ids, todo, cur, deleted, edits, runs>>

\* skipExisting: rules the target set already has by name are left alone.
Missing(wanted, n) == Only(wanted, Rules \ Range(rules[n]))

Merge(s, n, wanted) ==
  /\ todo' = Tail(todo)
  /\ phase' = "rules" /\ cur' = n /\ wrote' = wrote \cup {s}
  /\ \/ n \notin stale /\ queue' = Missing(wanted, n) /\ Fine
     \/ n \in stale /\ queue' = wanted /\ Fine
     \/ queue' = wanted /\ Fault
  /\ UNCHANGED <<target, report, elems, ids, failed, mistaken, stale, deleted, edits, runs>>

\* The "N missing rules" item of a set this tool imported earlier.
MergeMine ==
  /\ phase = "sets" /\ todo # <<>> /\ Head(todo) \in Sets
  /\ action[Head(todo)] = "merge"
  /\ Merge(Head(todo), <<Head(todo), 0>>, RulesOf[Head(todo)])

MergeDefault ==
  /\ phase = "sets" /\ todo # <<>> /\ Head(todo) = Default
  /\ defaultID = "found"
  /\ Merge(Default, DefaultName, keep)

\* Mutation: rules keep the state they had on the source.
RuleArrivesEnabled(n, r) == active' = IF r \in Enabled THEN active \cup {<<n, r>>} ELSE active

\* A rule arrives disabled unless the operator carries the state.
ArriveRule(n, r) ==
  active' = IF keepState /\ r \in Enabled THEN active \cup {<<n, r>>} ELSE active

\* Mutation: an error while posting a rule is only logged.
FailRuleSilently == UNCHANGED failed

\* createAuthRule and its caller both count a failed rule.
FailRule == Fail(2)

\* POST the next rule.  The target appends it.
CreateRule ==
  /\ phase = "rules" /\ queue # <<>>
  /\ queue' = Tail(queue)
  /\ LET r == Head(queue)
         there == cur \notin stale /\ r \in Range(rules[cur])
         refused == cur \in stale \/ Unresolved(Needs[r])
         append == rules' = [rules EXCEPT ![cur] = Append(@, r)] /\ ArriveRule(cur, r)
     IN \/ ~there /\ ~refused /\ append /\ Fine /\ UNCHANGED failed
        \/ ~there /\ ~refused /\ append /\ Fault /\ FailRule
        \/ there /\ Fine /\ UNCHANGED <<rules, active, failed>>
        \/ /\ ~there /\ (refused \/ Unrewritten(Needs[r]))
           /\ FailRule /\ Fine /\ UNCHANGED <<rules, active>>
        \/ Fault /\ FailRule /\ UNCHANGED <<rules, active>>
  /\ UNCHANGED <<have, owner, order, on, phase, report, elems, ids, todo, cur, wrote,
                 mistaken, stale, deleted, edits, runs>>

RulesDone ==
  /\ phase = "rules" /\ queue = <<>>
  /\ phase' = "sets" /\ mistaken' = FALSE
  /\ UNCHANGED <<target, report, elems, ids, todo, cur, queue, failed, wrote,
                 stale, quiet, deleted, bounds>>

ApplyDone ==
  /\ phase = "sets" /\ todo = <<>>
  /\ phase' = "done"
  /\ UNCHANGED <<target, report, progress, stale, quiet, deleted, bounds>>

Import ==
  \/ ApplyRequest \/ ListConditions \/ PassOver \/ CreateSet \/ FindSet
  \/ MergeMine \/ MergeDefault \/ CreateRule \/ RulesDone \/ ApplyDone
  \/ \E r \in Refs : CreateElement(r)

-----------------------------------------------------------------------------
(* Somebody else changes the target                                        *)

Edit ==
  /\ edits < MaxEdits /\ edits + faults < MaxTrouble
  /\ edits' = edits + 1
  /\ quiet' = FALSE
  /\ UNCHANGED <<phase, report, progress, faults, runs>>

\* A set of the same name, made by hand: no marker.
AdminAddsSet(n) ==
  /\ Edit
  /\ owner[n] = "none"
  /\ owner' = [owner EXCEPT ![n] = "other"]
  /\ on' = on \cup {n}
  /\ UNCHANGED <<have, rules, order, active, stale, deleted>>

AdminDeletesSet(n) ==
  /\ Edit
  /\ n # DefaultName /\ owner[n] # "none"
  /\ owner' = [owner EXCEPT ![n] = "none"]
  /\ rules' = [rules EXCEPT ![n] = <<>>]
  /\ order' = Only(order, Names \ {n})
  /\ active' = {a \in active : a[1] # n}
  /\ on' = on \ {n}
  /\ stale' = stale \cup {n}
  /\ deleted' = TRUE
  /\ UNCHANGED have

\* The operator enables a set that arrived disabled.
AdminEnables(n) ==
  /\ Edit
  /\ owner[n] = "tool" /\ n \notin on
  /\ on' = on \cup {n}
  /\ UNCHANGED <<have, owner, rules, order, active, stale, deleted>>

\* A domain is joined, a profile created or removed.
AdminChangesRef(r) ==
  /\ Edit
  /\ have' = IF r \in have THEN have \ {r} ELSE have \cup {r}
  /\ UNCHANGED <<owner, rules, order, active, on, stale, deleted>>

Admin ==
  \/ \E n \in Names : AdminAddsSet(n) \/ AdminDeletesSet(n) \/ AdminEnables(n)
  \/ \E r \in Refs : AdminChangesRef(r)

-----------------------------------------------------------------------------
\* The target may have sets of the bundle's names and a rule of Default.
Init ==
  /\ have \in SUBSET Refs
  /\ \E strangers \in SUBSET (Sets \X {0, 1}) :
        /\ strangers \subseteq Names
        /\ on = strangers \cup {DefaultName}
  /\ owner = [n \in Names |-> IF n \in on THEN "other" ELSE "none"]
  /\ \E own \in {<<>>} \cup {<<r>> : r \in Range(RulesOf[Default])} :
        /\ rules = [n \in Names |-> IF n = DefaultName THEN own ELSE <<>>]
        /\ active = {DefaultName} \X Range(own)
  /\ order = <<>>
  /\ phase = "idle"
  /\ keepState = FALSE
  /\ action = [s \in Sets |-> "skip"] /\ tname = [s \in Sets |-> 0]
  /\ keep = <<>> /\ defaultID = "missing"
  /\ elems = {} /\ ids = {} /\ todo = <<>> /\ cur = DefaultName /\ queue = <<>>
  /\ failed = 0 /\ wrote = {} /\ mistaken = FALSE /\ stale = {}
  /\ quiet = FALSE /\ deleted = FALSE
  /\ edits = 0 /\ faults = 0 /\ runs = 0

Next == Import \/ Admin
Spec == Init /\ [][Next]_vars

-----------------------------------------------------------------------------
(* Properties                                                              *)

\* Every variable stays in its range; in particular every bundle set has one
\* of the verdicts applyPolicySets knows how to handle.
TypeOK ==
  /\ have \subseteq Refs
  /\ owner \in [Names -> {"none", "tool", "other"}]
  /\ rules \in [Names -> Seq(Rules)]
  /\ order \in Seq(Names)
  /\ active \subseteq Names \X Rules
  /\ on \subseteq Names
  /\ phase \in {"idle", "elements", "sets", "findSet", "rules", "done"}
  /\ keepState \in BOOLEAN
  /\ action \in [Sets -> {"create", "merge", "skip", "blocked"}]
  /\ tname \in [Sets -> 0..MaxSuffix]
  /\ keep \in Seq(Rules) /\ queue \in Seq(Rules)
  /\ defaultID \in {"found", "missing"}
  /\ elems \subseteq Carried /\ ids \subseteq Conditions
  /\ todo \in Seq(Range(Source))
  /\ cur \in Names
  /\ failed \in Nat
  /\ wrote \subseteq Range(Source) /\ mistaken \in BOOLEAN
  /\ stale \subseteq Names
  /\ quiet \in BOOLEAN /\ deleted \in BOOLEAN
  /\ {edits, faults, runs} \subseteq Nat

\* "The target's set is never touched or merged into": whatever was listed,
\* lost or changed in between, no step of an import changes a set that
\* somebody else made.  There are two exceptions: Default, which is merged
\* into, and the set that was made under the name of one this import created,
\* after that one had been deleted, and before the import looked its own up by
\* that name.  The code does not notice, and the rules go into that set.
StrangersUntouched ==
  [][Import => \A n \in Names \ {DefaultName} :
        owner[n] = "other" /\ ~(mistaken /\ n = cur) =>
          owner'[n] = "other" /\ rules'[n] = rules[n] /\ (n \in on' <=> n \in on)]_vars

\* An import without the "carry the state" checkbox does not change which
\* rules the target evaluates, even when it adds rules to Default or to a set
\* that the operator enabled since an earlier run.
Evaluated == {a \in active : a[1] \in on}
NoTrafficChange == [][Import /\ ~keepState => Evaluated' = Evaluated]_vars

\* A re-run recognises its own work: as long as nobody deletes sets, the tool
\* never has two copies of one bundle set on the target.
OneCopyPerSet ==
  ~deleted => \A s \in Sets : Cardinality({k \in 0..MaxSuffix : owner[<<s, k>>] = "tool"}) <= 1

\* The inductive strengthening: below a copy of ours, and below the name the
\* import is about to use, every name is taken by somebody else.
TakenBelow(s, k) == \A j \in 0..MaxSuffix : j < k => owner[<<s, j>>] = "other"

CopyInv ==
  ~deleted =>
    \A s \in Sets :
      /\ \A k \in 0..MaxSuffix : owner[<<s, k>>] = "tool" => TakenBelow(s, k)
      /\ action[s] = "create" => tname[s] \in 0..MaxSuffix /\ TakenBelow(s, tname[s])

\* Re-runs repair: after an import that nothing disturbed, a set of ours that
\* was not blocked has every rule of the source, whatever earlier imports
\* left out.
Complete(n, wanted) == Range(wanted) \subseteq Range(rules[n])
OwnSetsComplete ==
  phase = "done" /\ quiet =>
    \A s \in Sets : Mine(owner[<<s, 0>>]) /\ action[s] # "blocked" => Complete(<<s, 0>>, RulesOf[s])

\* The inductive strengthening: an undisturbed run creates every element it
\* counted on, so every rule of a set that was not blocked is accepted; a set
\* of ours that lacks a rule is still to be merged or is being posted to.
Posting(n) ==
  CASE phase = "rules" /\ cur = n   -> Range(queue)
    [] phase = "findSet" /\ cur = n -> Range(RulesOf[n[1]])
    [] OTHER                        -> {}

RepairInv ==
  quiet =>
    /\ stale = {}
    /\ phase # "elements" => elems = {}
    /\ \A e \in elems : ElementNeeds[e] \subseteq have
    /\ phase \in {"sets", "findSet", "rules"} => ids = have \cap Conditions
    /\ \A s \in Sets :
         /\ Posting(<<s, 0>>) \subseteq Range(RulesOf[s])
         /\ action[s] # "blocked" /\ phase # "done" =>
              \A r \in Range(RulesOf[s]) : Needs[r] \subseteq have \cup elems
         /\ Mine(owner[<<s, 0>>]) /\ action[s] # "blocked" =>
              \/ phase # "done" /\ action[s] = "merge" /\ s \in Range(todo)
              \/ Range(RulesOf[s]) \subseteq Range(rules[<<s, 0>>]) \cup Posting(<<s, 0>>)

\* A set that an import wrote to and left without one of its rules is not
\* reported as a success.
WrittenTo(s) == IF s = Default THEN DefaultName ELSE <<s, tname[s]>>
Wanted(s) == IF s = Default THEN keep ELSE RulesOf[s]
IncompleteIsReported ==
  phase = "done" =>
    \A s \in wrote :
      WrittenTo(s) \notin stale /\ ~Complete(WrittenTo(s), Wanted(s)) => failed > 0

\* The inductive strengthening: what a set lacks is still to be posted.
ReportedInv ==
  /\ \A s \in Sets : action[s] = "merge" => tname[s] = 0
  /\ phase = "findSet" => cur[1] \in Sets /\ cur = WrittenTo(cur[1])
  /\ \A s \in wrote :
       \/ failed > 0
       \/ WrittenTo(s) \in stale
       \/ Range(Wanted(s)) \subseteq Range(rules[WrittenTo(s)]) \cup Posting(WrittenTo(s))

\* README: "`Default` is the one set whose rules are merged".  After an
\* undisturbed import the rules of Default that resolve are on the target.
DefaultMerged == phase = "done" /\ quiet => Complete(DefaultName, keep)

\* preflightPolicySets: a set this tool imported "may be missing rules that
\* failed at the time ... so its rules are reconciled the way Default's are".
\* After an undisturbed import every copy of ours that was not blocked is
\* complete, the ones imported beside a set of the same name included.
ImportedSetsReconciled ==
  phase = "done" /\ quiet =>
    \A s \in Sets, k \in 0..MaxSuffix :
      Mine(owner[<<s, k>>]) /\ action[s] # "blocked" => Complete(<<s, k>>, RulesOf[s])

\* README: "Imported sets land after everything the target already has, in
\* their source order".  The sets of a first import are in source order.
Before(seq, a, b) == \E i, j \in DOMAIN seq : i < j /\ seq[i] = a /\ seq[j] = b
SetsInSourceOrder ==
  phase = "done" /\ runs = 1 =>
    \A i, j \in DOMAIN order : i < j => Before(Source, order[i][1], order[j][1])
=============================================================================
