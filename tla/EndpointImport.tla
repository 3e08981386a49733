--------------------------- MODULE EndpointImport ---------------------------
(***************************************************************************)
(* The import of endpoint identity groups and static endpoints: the        *)
(* pre-flight report, the operator's confirmation, the pre-flight that     *)
(* handleApply runs again, and ApplyImport's group and endpoint passes.    *)
(*                                                                         *)
(* Every request to the target is a step of its own.  Between two of them  *)
(* somebody else (an administrator, a second browser tab) may change the   *)
(* target, a request may be refused, and the answer to a write that was    *)
(* carried out may be lost.                                                *)
(*                                                                         *)
(* The target mints a fresh id for every object and never reuses one;      *)
(* objs[i] says what the object with id i was created as.                  *)
(***************************************************************************)
EXTENDS Naturals, Sequences, FiniteSets

CONSTANTS
  Groups,      \* endpoint identity group names
  Profiles,    \* profiler profile names
  Macs,        \* endpoint MAC addresses
  NoName,      \* the empty string in a name field of the bundle
  NoMac,       \* an endpoint of the bundle without a MAC address
  Bundles,     \* the decrypted bundles considered
  MaxObjs,     \* bound on the groups and profiles on the target at the start
  MaxEdits,    \* bound on changes to the target by somebody else
  MaxFaults,   \* bound on failed requests
  MaxRuns      \* bound on pre-flight and apply requests

Ref(S) == S \cup {NoName}

Object == [kind : {"group"}, name : Groups] \cup [kind : {"profile"}, name : Profiles]

\* A bundle's endpoint travels with the names of its group and profile.
Bundle == [groups : SUBSET Ref(Groups),
           eps : UNION {[M -> [group : Ref(Groups), profile : Ref(Profiles)]] : M \in SUBSET (Macs \cup {NoMac})}]

ASSUME BundlesAssumption == Bundles \subseteq Bundle
ASSUME NoNameAssumption ==
  NoName \notin Groups \cup Profiles \cup Macs /\ NoMac \notin Ref(Groups) \cup Macs
ASSUME DistinctAssumption == Groups \cap Macs = {}
ASSUME FiniteAssumption == IsFiniteSet(Groups) /\ IsFiniteSet(Macs)
ASSUME BoundsAssumption == {MaxObjs, MaxEdits, MaxFaults, MaxRuns} \subseteq Nat

NoId == 0

VARIABLES
  objs,        \* every group and profile the target ever created, by id
  live,        \* the ids that still exist
  eps,         \* the target's endpoints: mac -> ids of its group and profile
  bundle,      \* the uploaded bundle
  mode,        \* which handler runs: "preflight" or "apply"
  phase,       \* the handler's next step
  groupIDs,    \* groupIDByName as last read
  profileIDs,  \* profileIDByName as last read
  existing,    \* existingMAC as last read
  verdict,     \* the report: item -> "create", "skip" or "blocked"
  todo,        \* items of the pass under way that are still to be tried
  res,         \* ImportResult
  made,        \* endpoints on the target that this tool created
  clean,       \* since the last import began nothing failed and nobody else
               \* changed the target
  edits, faults, runs, deleted

target == <<objs, live, eps>>
tool == <<mode, phase, groupIDs, profileIDs, existing, verdict, todo, res>>
history == <<made, clean, edits, faults, runs, deleted>>
vars == <<target, bundle, tool, history>>

ZeroResult == [created |-> 0, skipped |-> 0, blocked |-> 0, failed |-> 0]

BundleMacs == DOMAIN bundle.eps
Items == bundle.groups \cup BundleMacs

-----------------------------------------------------------------------------
(* The target deployment                                                   *)

Named(kind, name) == {i \in live : objs[i] = [kind |-> kind, name |-> name]}

\* Mutation: the map gives back the name in place of the id.
StubsByNameRaw(kind, names) ==
  [n \in names |-> IF Named(kind, n) = {} THEN NoId ELSE n]

\* stubsByName: the collection listing as a map from name to id.
StubsByName(kind, names) ==
  [n \in names |-> IF Named(kind, n) = {} THEN NoId ELSE CHOOSE i \in Named(kind, n) : TRUE]

Extend(f, x, v) == [y \in DOMAIN f \cup {x} |-> IF y = x THEN v ELSE f[y]]

Mint(kind, name) ==
  /\ objs' = Append(objs, [kind |-> kind, name |-> name])
  /\ live' = live \cup {Len(objs) + 1}

Edit ==
  /\ edits < MaxEdits
  /\ edits' = edits + 1
  /\ clean' = FALSE
  /\ UNCHANGED <<bundle, tool, faults, runs>>

AdminCreates(kind, name) ==
  /\ Edit
  /\ Named(kind, name) = {}
  /\ Mint(kind, name)
  /\ UNCHANGED <<eps, made, deleted>>

\* An object that no endpoint uses is deleted.
AdminDeletes(i) ==
  /\ Edit
  /\ \A m \in DOMAIN eps : eps[m].group # i /\ eps[m].profile # i
  /\ live' = live \ {i}
  /\ deleted' = TRUE
  /\ UNCHANGED <<objs, eps, made>>

\* An endpoint shows up on the target by itself, in any group or none.
AdminAddsEndpoint(m) ==
  /\ Edit
  /\ m \notin DOMAIN eps
  /\ \E g \in {NoId} \cup {i \in live : objs[i].kind = "group"} :
        eps' = Extend(eps, m, [group |-> g, profile |-> NoId])
  /\ UNCHANGED <<objs, live, made, deleted>>

AdminDeletesEndpoint(m) ==
  /\ Edit
  /\ m \in DOMAIN eps
  /\ eps' = [n \in DOMAIN eps \ {m} |-> eps[n]]
  /\ made' = made \ {m}
  /\ deleted' = TRUE
  /\ UNCHANGED <<objs, live>>

Admin ==
  \/ \E g \in Groups : AdminCreates("group", g)
  \/ \E p \in Profiles : AdminCreates("profile", p)
  \/ \E i \in live : AdminDeletes(i)
  \/ \E m \in Macs : AdminAddsEndpoint(m) \/ AdminDeletesEndpoint(m)

-----------------------------------------------------------------------------
(* The operator's browser                                                  *)

Creates == {x \in DOMAIN verdict : verdict[x] = "create"}

Start(m) ==
  /\ runs < MaxRuns
  /\ runs' = runs + 1
  /\ mode' = m
  /\ phase' = "listGroups"
  /\ verdict' = <<>>
  /\ todo' = {}
  /\ res' = ZeroResult
  /\ UNCHANGED <<target, bundle, groupIDs, profileIDs, existing, made,
                 edits, faults, deleted>>

RequestPreflight ==
  /\ phase \in {"idle", "shown", "failed", "aborted", "done"}
  /\ Start("preflight")
  /\ UNCHANGED clean

\* The Confirm button is enabled when there is something to create, and again
\* once an import has ended, without a new pre-flight.
ConfirmImport ==
  /\ \/ phase = "shown" /\ Creates # {}
     \/ mode = "apply" /\ phase \in {"failed", "aborted", "done"}
  /\ Start("apply")
  /\ clean' = TRUE

-----------------------------------------------------------------------------
(* Preflight: three listings, then a verdict per object                    *)

Fault == faults < MaxFaults /\ faults' = faults + 1

ToolOnly == UNCHANGED <<target, bundle, mode, made, edits, runs, deleted>>

\* A group created in this run counts as resolvable for the endpoints.
WillExist == {g \in Groups : groupIDs[g] # NoId} \cup (bundle.groups \ {NoName})

GroupVerdict(g) ==
  CASE g = NoName          -> "blocked"
    [] g \in Groups /\ groupIDs[g] # NoId -> "skip"
    [] OTHER               -> "create"

EndpointVerdict(m) ==
  LET ep == bundle.eps[m] IN
  IF m \in existing THEN "skip"
  ELSE IF \/ m = NoMac
          \/ ep.group # NoName /\ ep.group \notin WillExist
          \/ ep.profile # NoName /\ profileIDs[ep.profile] = NoId
       THEN "blocked" ELSE "create"

Verdicts == [x \in Items |-> IF x \in bundle.groups THEN GroupVerdict(x) ELSE EndpointVerdict(x)]

\* Without endpoints in the bundle the report is complete after the groups.
ListGroups ==
  /\ phase = "listGroups"
  /\ groupIDs' = StubsByName("group", Groups)
  /\ phase' = IF BundleMacs = {} THEN "report" ELSE "listProfiles"
  /\ ToolOnly
  /\ UNCHANGED <<profileIDs, existing, verdict, todo, res, clean, faults>>

ListProfiles ==
  /\ phase = "listProfiles"
  /\ profileIDs' = StubsByName("profile", Profiles)
  /\ phase' = "listMacs"
  /\ ToolOnly
  /\ UNCHANGED <<groupIDs, existing, verdict, todo, res, clean, faults>>

\* Mutation: MACs are compared without normMAC, so none is recognised.
ListMacsRaw ==
  /\ phase = "listMacs"
  /\ existing' = {}
  /\ phase' = "report"
  /\ ToolOnly
  /\ UNCHANGED <<groupIDs, profileIDs, verdict, todo, res, clean, faults>>

ListMacs ==
  /\ phase = "listMacs"
  /\ existing' = DOMAIN eps
  /\ phase' = "report"
  /\ ToolOnly
  /\ UNCHANGED <<groupIDs, profileIDs, verdict, todo, res, clean, faults>>

\* A listing that fails ends the request: there is no report and no write.
ListingFails ==
  /\ phase \in {"listGroups", "listProfiles", "listMacs"}
  /\ Fault
  /\ phase' = "failed"
  /\ clean' = FALSE
  /\ ToolOnly
  /\ UNCHANGED <<groupIDs, profileIDs, existing, verdict, todo, res>>

Count(v) == Cardinality({x \in Items : Verdicts[x] = v})

\* handlePreflight shows the report; handleApply goes on to write, or returns
\* the counts when nothing is left to create.
Report ==
  /\ phase = "report"
  /\ verdict' = Verdicts
  /\ \/ /\ mode = "preflight"
        /\ phase' = "shown"
        /\ UNCHANGED <<todo, res>>
     \/ /\ mode = "apply"
        /\ Count("create") = 0
        /\ phase' = "done"
        /\ res' = [ZeroResult EXCEPT !.skipped = Count("skip"), !.blocked = Count("blocked")]
        /\ UNCHANGED todo
     \/ /\ mode = "apply"
        /\ Count("create") # 0
        /\ phase' = "groups"
        /\ todo' = {x \in Items : x \in bundle.groups /\ Verdicts[x] = "create"}
        /\ UNCHANGED res
  /\ ToolOnly
  /\ UNCHANGED <<groupIDs, profileIDs, existing, clean, faults>>

-----------------------------------------------------------------------------
(* ApplyImport                                                             *)

Writing == UNCHANGED <<bundle, mode, groupIDs, profileIDs, existing, verdict,
                       edits, runs, deleted>>

Counted(field) ==
  /\ res' = [res EXCEPT ![field] = @ + 1]
  /\ clean' = (clean /\ field # "failed")

\* Mutation: isDuplicate matches every refusal.
CreateGroupAnyErrorIsDuplicate(g) ==
  /\ phase = "groups" /\ g \in todo
  /\ todo' = todo \ {g}
  /\ Writing
  /\ UNCHANGED <<phase, eps, made>>
  /\ \/ Named("group", g) = {} /\ Mint("group", g) /\ Counted("created") /\ UNCHANGED faults
     \/ Named("group", g) # {} /\ Counted("skipped") /\ UNCHANGED <<objs, live, faults>>
     \/ Fault /\ Counted("skipped") /\ UNCHANGED <<objs, live>>

\* POST one group.  The answer may be lost after the target created it.
CreateGroup(g) ==
  /\ phase = "groups" /\ g \in todo
  /\ todo' = todo \ {g}
  /\ Writing
  /\ UNCHANGED <<phase, eps, made>>
  /\ \/ Named("group", g) = {} /\ Mint("group", g) /\ Counted("created") /\ UNCHANGED faults
     \/ Named("group", g) = {} /\ Mint("group", g) /\ Counted("failed") /\ Fault
     \/ Named("group", g) # {} /\ Counted("skipped") /\ UNCHANGED <<objs, live, faults>>
     \/ Fault /\ Counted("failed") /\ UNCHANGED <<objs, live>>

\* Mutation: the endpoint pass does not look at the item's action.
EveryEndpoint == BundleMacs

EndpointsToCreate == {m \in BundleMacs : verdict[m] = "create"}

\* Mutation: the endpoint pass is reached only when every group was created.
GroupPassWaits ==
  /\ phase = "groups" /\ todo = {} /\ res.failed = 0
  /\ phase' = IF EndpointsToCreate = {} THEN "finish" ELSE "rereadGroups"
  /\ Writing
  /\ UNCHANGED <<target, todo, res, made, clean, faults>>

GroupPassDone ==
  /\ phase = "groups" /\ todo = {}
  /\ phase' = IF EndpointsToCreate = {} THEN "finish" ELSE "rereadGroups"
  /\ Writing
  /\ UNCHANGED <<target, todo, res, made, clean, faults>>

\* Groups created just now have new ids, so the map is read again.
RereadGroups ==
  /\ phase = "rereadGroups"
  /\ groupIDs' = StubsByName("group", Groups)
  /\ phase' = "rereadProfiles"
  /\ ToolOnly
  /\ UNCHANGED <<profileIDs, existing, verdict, todo, res, clean, faults>>

RereadProfiles ==
  /\ phase = "rereadProfiles"
  /\ profileIDs' = StubsByName("profile", Profiles)
  /\ phase' = "endpoints"
  /\ todo' = EndpointsToCreate
  /\ ToolOnly
  /\ UNCHANGED <<groupIDs, existing, verdict, res, clean, faults>>

\* A failed re-read ends the import with what was written so far.
RereadFails ==
  /\ phase \in {"rereadGroups", "rereadProfiles"}
  /\ Fault
  /\ phase' = "aborted"
  /\ clean' = FALSE
  /\ ToolOnly
  /\ UNCHANGED <<groupIDs, profileIDs, existing, verdict, todo, res>>

\* nameToRef: the target's id of a name, NoId for an empty name.
NameToRef(name, ids) == IF name = NoName THEN NoId ELSE ids[name]

\* Mutation: nameToRef's verdict is ignored.
ResolvesAlways(name, ids) == TRUE

Resolves(name, ids) == name # NoName => ids[name] # NoId

\* The object POSTed for endpoint m.
Written(m) == [group |-> NameToRef(bundle.eps[m].group, groupIDs),
               profile |-> NameToRef(bundle.eps[m].profile, profileIDs)]

\* The target refuses a reference to an object it does not have.
Accepted(ep) == {ep.group, ep.profile} \subseteq live \cup {NoId}

CreateEndpoint(m) ==
  /\ phase = "endpoints" /\ m \in todo
  /\ todo' = todo \ {m}
  /\ Writing
  /\ UNCHANGED <<phase, objs, live>>
  /\ LET sent == Resolves(bundle.eps[m].group, groupIDs) /\ Resolves(bundle.eps[m].profile, profileIDs)
         fresh == sent /\ m \notin DOMAIN eps /\ Accepted(Written(m))
     IN \/ /\ fresh
           /\ eps' = Extend(eps, m, Written(m))
           /\ made' = made \cup {m}
           /\ \/ Counted("created") /\ UNCHANGED faults
              \/ Counted("failed") /\ Fault
        \/ /\ sent /\ m \in DOMAIN eps
           /\ Counted("skipped")
           /\ UNCHANGED <<eps, made, faults>>
        \/ /\ ~sent \/ (m \notin DOMAIN eps /\ ~Accepted(Written(m)))
           /\ Counted("failed")
           /\ UNCHANGED <<eps, made, faults>>
        \/ /\ sent
           /\ Counted("failed") /\ Fault
           /\ UNCHANGED <<eps, made>>

EndpointPassDone ==
  /\ phase = "endpoints" /\ todo = {}
  /\ phase' = "finish"
  /\ Writing
  /\ UNCHANGED <<target, todo, res, made, clean, faults>>

\* The counts of the pre-flight are added to those of the writes.
Reported(v) == Cardinality({x \in Items : verdict[x] = v})

\* Mutation: the objects the pre-flight skipped are left out of the result.
TotalWithoutSkips == [res EXCEPT !.blocked = Reported("blocked")]

Total == [res EXCEPT !.skipped = @ + Reported("skip"), !.blocked = Reported("blocked")]

Finish ==
  /\ phase = "finish"
  /\ phase' = "done"
  /\ res' = Total
  /\ ToolOnly
  /\ UNCHANGED <<groupIDs, profileIDs, existing, verdict, todo, clean, faults>>

-----------------------------------------------------------------------------
Handler ==
  \/ ListGroups \/ ListProfiles \/ ListMacs \/ ListingFails \/ Report
  \/ \E g \in Groups : CreateGroup(g)
  \/ GroupPassDone \/ RereadGroups \/ RereadProfiles \/ RereadFails
  \/ \E m \in Macs : CreateEndpoint(m)
  \/ EndpointPassDone \/ Finish

Next == Handler \/ RequestPreflight \/ ConfirmImport \/ Admin

Init ==
  /\ \E n \in 0..MaxObjs :
        /\ objs \in {q \in [1..n -> Object] : \A i, j \in 1..n : q[i] = q[j] => i = j}
        /\ live = 1..n
  /\ eps = <<>>
  /\ bundle \in Bundles
  /\ mode = "preflight" /\ phase = "idle"
  /\ groupIDs = [g \in Groups |-> NoId]
  /\ profileIDs = [p \in Profiles |-> NoId]
  /\ existing = {} /\ verdict = <<>> /\ todo = {} /\ res = ZeroResult
  /\ made = {} /\ clean = FALSE
  /\ edits = 0 /\ faults = 0 /\ runs = 0 /\ deleted = FALSE

Spec == Init /\ [][Next]_vars

\* A handler that was started runs to its end: every request is bounded by the
\* client's timeout.  Nothing is assumed of the operator or the administrator.
FairSpec == Spec /\ WF_vars(Handler)

-----------------------------------------------------------------------------
Phases == {"idle", "listGroups", "listProfiles", "listMacs", "report", "shown",
           "failed", "groups", "rereadGroups", "rereadProfiles", "endpoints",
           "finish", "aborted", "done"}

Ids == {NoId} \cup DOMAIN objs

(* Types of the target's and the handlers' state.                          *)
TargetTypeOK ==
  /\ objs \in Seq(Object)
  /\ live \subseteq DOMAIN objs
  /\ DOMAIN eps \subseteq Macs
  /\ eps = [m \in DOMAIN eps |-> eps[m]]
  /\ \A m \in DOMAIN eps : eps[m] \in [group : Ids, profile : Ids]
  /\ made \subseteq DOMAIN eps

MapsTypeOK ==
  /\ bundle \in Bundles
  /\ groupIDs \in [Groups -> Ids]
  /\ profileIDs \in [Profiles -> Ids]
  /\ todo \subseteq Items

TypeOK ==
  /\ TargetTypeOK
  /\ MapsTypeOK
  /\ mode \in {"preflight", "apply"}
  /\ phase \in Phases
  /\ existing \subseteq Macs
  /\ DOMAIN verdict \in {{}, Items}
  /\ res \in [created : Nat, skipped : Nat, blocked : Nat, failed : Nat]

(* "A reference travels by name, never by UUID": an endpoint the import    *)
(* created refers, through ids this target minted, to the group and the    *)
(* profile that carry the names the bundle gives it, and to none where the *)
(* bundle names none, whatever was created, deleted or re-created between  *)
(* the listings and the write.                                             *)
RefersTo(id, kind, name) ==
  IF name = NoName THEN id = NoId
  ELSE id # NoId /\ objs[id] = [kind |-> kind, name |-> name]

ReferencesByName ==
  \A m \in made : /\ m \in BundleMacs
                  /\ RefersTo(eps[m].group, "group", bundle.eps[m].group)
                  /\ RefersTo(eps[m].profile, "profile", bundle.eps[m].profile)

\* The inductive strengthening: the name maps hold ids of objects of that
\* name, even when the object has since been deleted.
ResolvedByName ==
  /\ \A g \in Groups : groupIDs[g] # NoId => objs[groupIDs[g]] = [kind |-> "group", name |-> g]
  /\ \A p \in Profiles :
        profileIDs[p] # NoId => objs[profileIDs[p]] = [kind |-> "profile", name |-> p]

Outcomes == {"create", "skip", "blocked"}
Preparing == phase \in {"listGroups", "listProfiles", "listMacs", "report"}
Applying == phase \in {"groups", "rereadGroups", "rereadProfiles", "endpoints", "finish"}

\* The announced objects that the two passes have not tried yet.
Left ==
  IF phase = "groups" THEN todo \cup EndpointsToCreate
  ELSE IF phase \in {"rereadGroups", "rereadProfiles"} THEN EndpointsToCreate
  ELSE IF phase = "endpoints" THEN todo ELSE {}

Tried == res.created + res.skipped + res.failed

\* The inductive account of an import: what was tried and what is left make up
\* the objects the pre-flight announced.
PassInv ==
  /\ DOMAIN verdict \in {{}, Items}
  /\ \A x \in DOMAIN verdict : verdict[x] \in Outcomes
  /\ phase = "shown" => DOMAIN verdict = Items
  /\ Preparing => res = ZeroResult
  /\ Applying => /\ mode = "apply" /\ DOMAIN verdict = Items
                 /\ res.blocked = 0
                 /\ Left \subseteq Creates
                 /\ Tried + Cardinality(Left) = Cardinality(Creates)

(* When an import reports its result, the four counts account for every    *)
(* object of the bundle exactly once.                                      *)
CountsAddUp ==
  phase = "done" =>
    res.created + res.skipped + res.blocked + res.failed = Cardinality(Items)

OnTarget(x) == x \in DOMAIN eps \/ Named("group", x) # {}

(* An object of the bundle that is missing from the target after an import *)
(* is reported as failed or blocked: no error is counted as "already       *)
(* there".  (Unless somebody deleted objects meanwhile.)                   *)
MissingIsReported ==
  phase = "done" /\ ~deleted =>
    Cardinality({x \in Items : ~OnTarget(x)}) <= res.failed + res.blocked

Gone(S) == {x \in S : ~OnTarget(x)}

\* The inductive strengthening: as long as nothing was deleted, what the maps
\* hold and what was skipped is there, and of the objects tried at most as many
\* are missing as attempts failed.
MissingInv ==
  ~deleted =>
    /\ live = DOMAIN objs
    /\ existing \subseteq DOMAIN eps
    /\ \A x \in DOMAIN verdict : verdict[x] = "skip" => OnTarget(x)
    /\ Applying => Cardinality(Gone(Creates \ Left)) <= res.failed
    /\ phase = "done" => Cardinality(Gone(Items)) <= res.failed + res.blocked

(* A re-run creates nothing: after an import without failures on a target  *)
(* that was left alone, the next pre-flight finds nothing to create.       *)
RerunCreatesNothing == phase = "shown" /\ clean => Creates = {}

\* There is nothing to do for x: it is there, or it cannot be created as long
\* as the target is left alone.
Settled(x) ==
  \/ x \in {NoName, NoMac} \/ OnTarget(x)
  \/ /\ x \in BundleMacs
     /\ LET ep == bundle.eps[x] IN
        \/ /\ ep.group \notin bundle.groups \cup {NoName}
           /\ Named("group", ep.group) = {}
        \/ ep.profile # NoName /\ Named("profile", ep.profile) = {}

\* The inductive strengthening: in a clean run the maps show the target as it
\* is, and everything the run has dealt with is settled.
CleanInv ==
  clean =>
    /\ phase \notin {"idle", "failed", "aborted"}
    /\ phase \in {"listProfiles", "listMacs", "report"} =>
         \A g \in Groups : groupIDs[g] # NoId <=> Named("group", g) # {}
    /\ phase = "listMacs" \/ (phase = "report" /\ BundleMacs # {}) =>
         \A p \in Profiles : profileIDs[p] # NoId <=> Named("profile", p) # {}
    /\ phase = "report" /\ BundleMacs # {} => existing = DOMAIN eps
    /\ ~(mode = "apply" /\ Preparing) => \A x \in Items \ Left : Settled(x)
    /\ phase = "shown" => Creates = {}

(* "Nothing else is touched; existing objects are never overwritten": a    *)
(* handler changes the target only after the confirmation, one object of   *)
(* the bundle at a time, one that its own pre-flight marked as creatable.  *)
CreatesOneItem ==
  \E x \in Creates :
    \/ /\ objs' = Append(objs, [kind |-> "group", name |-> x])
       /\ live' = live \cup {Len(objs')}
       /\ UNCHANGED eps
    \/ /\ DOMAIN eps' = DOMAIN eps \cup {x}
       /\ \A m \in DOMAIN eps : eps'[m] = eps[m]
       /\ UNCHANGED <<objs, live>>

CreatesOnly == [][Handler => UNCHANGED target \/ (mode = "apply" /\ CreatesOneItem)]_vars

(* Every pre-flight and every import comes to an end.                      *)
EveryRunEnds ==
  phase = "listGroups" ~> phase \in {"shown", "failed", "aborted", "done"}
=============================================================================
