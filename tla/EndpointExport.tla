--------------------------- MODULE EndpointExport ---------------------------
(***************************************************************************)
(* ExportEndpoints (endpoints.go), as handleExport calls it: the selected  *)
(* endpoint identity groups of the source and their static endpoints.      *)
(*                                                                         *)
(* The groups are listed and read one by one through the pool of ReadPool, *)
(* then the profiles are listed, then the endpoints are read from the      *)
(* OpenAPI or, when that is refused, one by one from the ERS.  The source  *)
(* is in use meanwhile: every request sees it as it is at that moment.     *)
(*                                                                         *)
(* The groups that exist when the collection is listed have the ids        *)
(* 1..N; the bundle has the form EndpointImport reads.                     *)
(***************************************************************************)
EXTENDS ReadPool, FiniteSets

CONSTANTS
  Names,         \* endpoint identity group names
  ProfileNames,  \* profiler profile names
  Macs,          \* endpoint MAC addresses
  NoName,        \* the empty string
  Sources,       \* the sources considered
  Requests,      \* the requests considered: families and groupNames
  MaxEdits,      \* bound on changes to the source during the export
  MaxFaults      \* bound on refused requests outside the pool

Families == {"groups", "endpoints"}

NoId == 0
ProfileIds == 1..Cardinality(ProfileNames)
GroupIds == 1..(N + MaxEdits)

\* An endpoint holds ids: of its group, and of its profile unless it has none.
Endpoint == [group : GroupIds, profile : {NoId} \cup ProfileIds,
             staticGroup : BOOLEAN, staticProfile : BOOLEAN]

\* f is a function of some members of S into T.
Partial(f, S, T) == f = [x \in DOMAIN f |-> f[x]] /\ \A x \in DOMAIN f : x \in S /\ f[x] \in T

Injective(f) == \A x, y \in DOMAIN f : f[x] = f[y] => x = y

\* The names of one kind are unique, and no endpoint is in a group that is gone.
ASSUME SourcesAssumption ==
  \A s \in Sources :
    /\ s.groups \in [Stubs -> Names] /\ Injective(s.groups)
    /\ s.nested \subseteq Stubs
    /\ Partial(s.profiles, ProfileIds, ProfileNames) /\ Injective(s.profiles)
    /\ Partial(s.eps, Macs, Endpoint) /\ \A m \in DOMAIN s.eps : s.eps[m].group \in Stubs
ASSUME RequestsAssumption ==
  Requests \subseteq [families : SUBSET Families, selection : SUBSET Names]
ASSUME NoNameAssumption == NoName \notin Names \cup ProfileNames
ASSUME BoundsAssumption == {MaxEdits, MaxFaults} \subseteq Nat

VARIABLES
  groups,     \* the source's groups: id -> name
  nested,     \* the ids of the groups that have a parent
  profiles,   \* the source's profiles: id -> name
  eps,        \* the source's endpoints
  request,    \* families and groupNames
  phase,      \* the export's next step
  seen,       \* groupNameByID: the name each stub's object had when it was read
  profNames,  \* profileNameByID
  todo,       \* endpoints of the ERS listing still to be read
  taken,      \* the endpoints read so far
  bundle,     \* what the bundle holds of the two families
  notes,      \* b.Notes: what a note says, of whom
  kept,       \* groups the administrator has left alone so far
  stable,     \* endpoints left alone, with their group and profile
  edits, faults

source == <<groups, nested, profiles, eps>>
export == <<request, seen, profNames, todo, taken, bundle, notes>>
history == <<kept, stable, edits, faults>>
exportVars == <<vars, source, export, phase, history>>

WantGroups == "groups" \in request.families
WantEndpoints == "endpoints" \in request.families

Finished == phase \in {"done", "failed"}

-----------------------------------------------------------------------------
(* The source deployment, in use by somebody else                          *)

Edit ==
  /\ phase \in {"readGroups", "listProfiles", "listEndpoints", "listMacs", "readMacs"}
  /\ edits < MaxEdits
  /\ edits' = edits + 1
  /\ UNCHANGED <<vars, export, phase, nested, faults>>

In(i) == {m \in DOMAIN eps : eps[m].group = i}

Assign(f, x, v) == [y \in DOMAIN f \cup {x} |-> IF y = x THEN v ELSE f[y]]
Without(f, x) == [y \in DOMAIN f \ {x} |-> f[y]]

AdminDeletesGroup(i) ==
  /\ Edit
  /\ In(i) = {}
  /\ groups' = Without(groups, i)
  /\ kept' = kept \ {i}
  /\ UNCHANGED <<profiles, eps, stable>>

AdminRenamesGroup(i, n) ==
  /\ Edit
  /\ \A j \in DOMAIN groups : groups[j] # n
  /\ groups' = [groups EXCEPT ![i] = n]
  /\ kept' = kept \ {i}
  /\ stable' = stable \ In(i)
  /\ UNCHANGED <<profiles, eps>>

\* A new group has an id the export's listing does not hold.
AdminCreatesGroup(n) ==
  /\ Edit
  /\ \A j \in DOMAIN groups : groups[j] # n
  /\ groups' = Assign(groups, N + edits + 1, n)
  /\ UNCHANGED <<profiles, eps, kept, stable>>

AdminDeletesProfile(p) ==
  /\ Edit
  /\ profiles' = Without(profiles, p)
  /\ stable' = {m \in stable : eps[m].profile # p}
  /\ UNCHANGED <<groups, eps, kept>>

AdminMovesEndpoint(m, i) ==
  /\ Edit
  /\ eps' = [eps EXCEPT ![m].group = i, ![m].staticGroup = TRUE]
  /\ stable' = stable \ {m}
  /\ UNCHANGED <<groups, profiles, kept>>

AdminDeletesEndpoint(m) ==
  /\ Edit
  /\ eps' = Without(eps, m)
  /\ stable' = stable \ {m}
  /\ UNCHANGED <<groups, profiles, kept>>

Admin ==
  \/ \E i \in DOMAIN groups : AdminDeletesGroup(i) \/ \E n \in Names : AdminRenamesGroup(i, n)
  \/ \E n \in Names : AdminCreatesGroup(n)
  \/ \E p \in DOMAIN profiles : AdminDeletesProfile(p)
  \/ \E m \in DOMAIN eps : AdminDeletesEndpoint(m)
                             \/ \E i \in DOMAIN groups : AdminMovesEndpoint(m, i)

-----------------------------------------------------------------------------
(* The groups                                                              *)

Fault == faults < MaxFaults /\ faults' = faults + 1

\* handleExport and ExportEndpoints both refuse an empty selection.  A request
\* for other families only passes by.
HandleExport ==
  /\ phase = "request"
  /\ phase' = IF request.families = {} THEN "done"
              ELSE IF request.selection = {} THEN "failed" ELSE "listGroups"
  /\ UNCHANGED <<vars, source, export, history>>

ListGroups ==
  /\ phase = "listGroups"
  /\ \/ phase' = "readGroups" /\ UNCHANGED faults
     \/ phase' = "failed" /\ Fault
  /\ UNCHANGED <<vars, source, export, kept, stable, edits>>

\* ersGetAll under way: a GET answers with the group as it is now, and with
\* nothing when it was deleted after the listing.
ReadGroup(w) ==
  /\ GetByID(w)
  /\ \/ got'[w] = "nil" /\ UNCHANGED seen
     \/ /\ got'[w] = "object" /\ job[w] \in DOMAIN groups
        /\ seen' = [seen EXCEPT ![job[w]] = groups[job[w]]]

PoolRuns ==
  /\ phase = "readGroups"
  /\ \/ (CloseJobs \/ ReturnResult) /\ UNCHANGED seen
     \/ \E w \in Workers :
          \/ ReadGroup(w)
          \/ (SendJob(w) \/ CheckStop(w) \/ StoreResult(w) \/ WorkerDone(w)) /\ UNCHANGED seen
  /\ UNCHANGED <<source, request, profNames, todo, taken, bundle, notes, phase, history>>

SeenNames == {seen[i] : i \in Stubs}

\* What is told of the groups: the ones left behind, and the ones whose
\* parent is not carried.
GroupNotes ==
  {<<"not selected", n>> : n \in SeenNames \ request.selection}
    \cup {<<"nesting", seen[i]>> : i \in {j \in nested : seen[j] \in request.selection}}

\* Only the endpoint family tells of a selected group that is gone.
MissingNotes == {<<"gone", n>> : n \in request.selection \ SeenNames}

GroupsRead ==
  /\ phase = "readGroups"
  /\ \/ ret = "error" /\ phase' = "failed" /\ UNCHANGED <<bundle, notes>>
     \/ /\ ret = "objects"
        /\ phase' = IF WantEndpoints THEN "listProfiles" ELSE "done"
        /\ bundle' = [bundle EXCEPT !.groups =
                        IF WantGroups THEN SeenNames \cap request.selection ELSE {}]
        /\ notes' = notes \cup (IF WantGroups THEN GroupNotes ELSE {})
                          \cup (IF WantEndpoints THEN MissingNotes ELSE {})
  /\ UNCHANGED <<vars, source, request, seen, profNames, todo, taken, history>>

-----------------------------------------------------------------------------
(* The endpoints                                                           *)

\* Without the profile list the export goes on: a static profile is then a
\* reference that does not resolve.
ListProfiles ==
  /\ phase = "listProfiles"
  /\ phase' = "listEndpoints"
  /\ \/ profNames' = profiles /\ UNCHANGED <<notes, faults>>
     \/ notes' = notes \cup {<<"profiles", NoName>>} /\ Fault /\ UNCHANGED profNames
  /\ UNCHANGED <<vars, source, request, seen, todo, taken, bundle, kept, stable, edits>>

\* fetchEndpoints: the OpenAPI returns whole objects; without it the ERS is
\* asked for every endpoint of a listing.
ListEndpoints ==
  /\ phase = "listEndpoints"
  /\ \/ taken' = eps /\ phase' = "filter" /\ UNCHANGED faults
     \/ phase' = "listMacs" /\ Fault /\ UNCHANGED taken
  /\ UNCHANGED <<vars, source, request, seen, profNames, todo, bundle, notes, kept, stable, edits>>

ListMacs ==
  /\ phase = "listMacs"
  /\ \/ todo' = DOMAIN eps /\ phase' = "readMacs" /\ UNCHANGED faults
     \/ phase' = "failed" /\ Fault /\ UNCHANGED todo
  /\ UNCHANGED <<vars, source, request, seen, profNames, taken, bundle, notes, kept, stable, edits>>

\* The second use of ersGetAll, by its promise: one object that cannot be
\* read fails the family.
ReadMac(m) ==
  /\ phase = "readMacs" /\ m \in todo
  /\ \/ /\ m \in DOMAIN eps
        /\ taken' = Assign(taken, m, eps[m]) /\ todo' = todo \ {m}
        /\ UNCHANGED <<phase, faults>>
     \/ /\ m \notin DOMAIN eps
        /\ phase' = "failed" /\ UNCHANGED <<taken, todo, faults>>
     \/ phase' = "failed" /\ Fault /\ UNCHANGED <<taken, todo>>
  /\ UNCHANGED <<vars, source, request, seen, profNames, bundle, notes, kept, stable, edits>>

MacsRead ==
  /\ phase = "readMacs" /\ todo = {}
  /\ phase' = "filter"
  /\ UNCHANGED <<vars, source, export, history>>

\* Mutation: no selection is taken for every group.
EveryGroup == Stubs

\* The ids of the selected groups.
Selected == {i \in Stubs : seen[i] \in request.selection}

\* Mutation: an endpoint counts as static by its group alone.
StaticByGroup(ep) == ep.staticGroup

IsStatic(ep) == ep.staticGroup \/ ep.staticProfile

\* The endpoints of the selected groups; the others are only counted in the log.
InSelected == {m \in DOMAIN taken : taken[m].group \in Selected}
Candidates == {m \in InSelected : IsStatic(taken[m])}

\* refToName: the profile travels only when it is static, and then by name.
\* (A selected group is one that was seen, so its name always resolves.)
ProfileResolves(ep) ==
  ep.staticProfile /\ ep.profile # NoId => ep.profile \in DOMAIN profNames

ProfileName(ep) == IF ep.staticProfile /\ ep.profile # NoId THEN profNames[ep.profile] ELSE NoName

Carried == {m \in Candidates : ProfileResolves(taken[m])}

Filter ==
  /\ phase = "filter"
  /\ phase' = "done"
  /\ bundle' = [bundle EXCEPT !.eps =
                  [m \in Carried |-> [group |-> seen[taken[m].group],
                                      profile |-> ProfileName(taken[m])]]]
  /\ notes' = notes \cup {<<"endpoint skipped", m>> : m \in Candidates \ Carried}
                   \cup (IF Candidates = InSelected THEN {} ELSE {<<"profiled", NoName>>})
  /\ UNCHANGED <<vars, source, request, seen, profNames, todo, taken, history>>

-----------------------------------------------------------------------------
ExportStep ==
  \/ HandleExport \/ ListGroups \/ PoolRuns \/ GroupsRead
  \/ ListProfiles \/ ListEndpoints \/ ListMacs \/ MacsRead \/ Filter
  \/ \E m \in Macs : ReadMac(m)

ExportTerminated == Finished /\ UNCHANGED exportVars

ExportNext == ExportStep \/ Admin \/ ExportTerminated

ExportInit ==
  /\ Init
  /\ \E s \in Sources :
        groups = s.groups /\ nested = s.nested /\ profiles = s.profiles /\ eps = s.eps
  /\ request \in Requests
  /\ phase = "request"
  /\ seen = [i \in Stubs |-> NoName]
  /\ profNames = <<>> /\ taken = <<>> /\ todo = {}
  /\ bundle = [groups |-> {}, eps |-> <<>>]
  /\ notes = {}
  /\ kept = Stubs /\ stable = DOMAIN eps
  /\ edits = 0 /\ faults = 0

ExportSpec == ExportInit /\ [][ExportNext]_exportVars

\* A handler that was started runs on: the Go scheduler runs every goroutine
\* that can run, and the client's timeout ends every request.  Nothing is
\* assumed of the administrator.
ExportFairSpec == ExportSpec /\ WF_exportVars(ExportStep)

-----------------------------------------------------------------------------
(* Types of the pool's, the source's and the export's state.               *)
ExportTypeOK ==
  /\ TypeOK
  /\ Partial(groups, GroupIds, Names)
  /\ nested \subseteq Stubs
  /\ Partial(profiles, ProfileIds, ProfileNames)
  /\ Partial(eps, Macs, Endpoint)
  /\ request \in Requests
  /\ phase \in {"request", "listGroups", "readGroups", "listProfiles", "listEndpoints",
                "listMacs", "readMacs", "filter", "done", "failed"}
  /\ seen \in [Stubs -> Names \cup {NoName}]
  /\ Partial(profNames, ProfileIds, ProfileNames)
  /\ DOMAIN taken \cup todo \subseteq Macs
  /\ bundle.groups \subseteq Names
  /\ Partial(bundle.eps, Macs, [group : Names, profile : ProfileNames \cup {NoName}])
  /\ kept \subseteq Stubs /\ stable \subseteq DOMAIN eps

(* "A reference travels by name": a finished bundle holds endpoints only   *)
(* of groups the operator selected, each under a name the group had on the *)
(* source, and when the group family travels too the group is in the       *)
(* bundle, whatever was renamed, moved or deleted during the export.  The  *)
(* import's pre-flight then never blocks them for want of the group.       *)
BundleResolves ==
  phase = "done" =>
    \A m \in DOMAIN bundle.eps :
      /\ bundle.eps[m].group \in request.selection
      /\ WantGroups => bundle.eps[m].group \in bundle.groups

\* What the bundle must hold of an endpoint of the source.
AsOnSource(ep) ==
  [group |-> groups[ep.group],
   profile |-> IF ep.staticProfile /\ ep.profile # NoId THEN profiles[ep.profile] ELSE NoName]

\* The inductive strengthening: from the moment the groups were read the
\* family holds every selected group that was seen, and the endpoints come last.
ExportInv ==
  /\ bundle = [groups |-> bundle.groups, eps |-> bundle.eps]
  /\ phase # "done" => DOMAIN bundle.eps = {}
  /\ phase \in {"listProfiles", "listEndpoints", "listMacs", "readMacs", "filter"} =>
       (WantGroups => bundle.groups = SeenNames \cap request.selection)
  /\ BundleResolves

(* Nothing is left out silently: when an export ends with a bundle, every  *)
(* group the administrator left alone is in it or named by a note, and so  *)
(* is every static endpoint of a selected group, under the names of the    *)
(* source, whichever way the endpoints were read and whatever request was  *)
(* refused on the way.                                                     *)
ExportedOrTold ==
  phase = "done" =>
    /\ WantGroups =>
         \A i \in kept : groups[i] \in bundle.groups \/ <<"not selected", groups[i]>> \in notes
    /\ WantEndpoints =>
         \A m \in stable :
           /\ eps[m].staticGroup \/ eps[m].staticProfile
           /\ groups[eps[m].group] \in request.selection
           =>
             \/ <<"endpoint skipped", m>> \in notes
             \/ m \in DOMAIN bundle.eps /\ bundle.eps[m] = AsOnSource(eps[m])

-----------------------------------------------------------------------------
(* Inductive strengthenings behind ExportedOrTold.  What the export has    *)
(* read of a group or an endpoint is still so while the administrator      *)
(* leaves that group or endpoint alone.                                    *)

Read(i) == out[i] = "object" \/ \E w \in Workers : job[w] = i /\ got[w] = "object"

SeenInv ==
  /\ \A w \in Workers : got[w] = "object" => pc[w] = "store"
  /\ kept \subseteq DOMAIN groups
  /\ \A i \in kept : Read(i) => seen[i] = groups[i]

\* Touching a group touches the endpoints in it, and so does a profile.
StableInv ==
  \A m \in stable :
    /\ m \in DOMAIN eps /\ eps[m].group \in kept
    /\ eps[m].profile \in DOMAIN profNames =>
         eps[m].profile \in DOMAIN profiles /\ profNames[eps[m].profile] = profiles[eps[m].profile]

TakenInv ==
  \A m \in stable :
    /\ phase = "readMacs" => m \in todo \/ (m \in DOMAIN taken /\ taken[m] = eps[m])
    /\ phase = "filter" => m \in DOMAIN taken /\ taken[m] = eps[m]

GroupTold(i) == groups[i] \in bundle.groups \/ <<"not selected", groups[i]>> \in notes

GroupsTold ==
  /\ phase \in {"listProfiles", "listEndpoints", "listMacs", "readMacs", "filter"} => ret = "objects"
  /\ phase \in {"listProfiles", "listEndpoints", "listMacs", "readMacs", "filter", "done"}
       /\ WantGroups => \A i \in kept : GroupTold(i)

EndpointTold(m) ==
  /\ eps[m].staticGroup \/ eps[m].staticProfile
  /\ groups[eps[m].group] \in request.selection
  => \/ <<"endpoint skipped", m>> \in notes
     \/ m \in DOMAIN bundle.eps /\ bundle.eps[m] = AsOnSource(eps[m])

ToldInv ==
  /\ SeenInv /\ StableInv /\ TakenInv /\ GroupsTold
  /\ phase = "done" /\ WantEndpoints => \A m \in stable : EndpointTold(m)

(* Every export ends, with a bundle or with an error: a failed read never  *)
(* leaves the handler waiting for the pool.                                *)
ExportEnds == <>Finished
=============================================================================
