--------------------------- MODULE PolicyElements ---------------------------
(***************************************************************************)
(* PolicyElements: network device groups, dACLs, authorization profiles,   *)
(* identity source sequences and conditions, from the export to imports    *)
(* that are repeated until the manual steps between them are done.         *)
(*                                                                         *)
(* A device group's name is its path.  A profile may name a dACL, read the *)
(* dictionary of a join point and redirect to a portal; a sequence names   *)
(* identity sources.  How many objects were created or skipped is not      *)
(* counted here (TrustSec does); what the result names is.                 *)
(***************************************************************************)
EXTENDS Directory

CONSTANTS
  Ndgs,          \* the source's device groups: sequences of segments
  FactoryNdgs,   \* those every deployment comes with
  Dacls,         \* the source's dACLs
  Profiles,      \* its profiles: name -> [dacl, reads, redirects]
  Sequences,     \* its identity source sequences: name -> objects named
  Conditions,    \* its conditions
  None,          \* a profile's dacl or reads when it has none
  MayMiss,       \* objects that the export may miss
  Starts         \* what the target may have at the start: join points and objects

Ndg(n) == <<"networkDeviceGroup", n>>
Shell(n) == <<"shell", n>>      \* an ancestor made up from a descendant's name
Dacl(d) == <<"dacl", d>>
Profile(p) == <<"authorizationProfile", p>>
Sequence(s) == <<"idStoreSequence", s>>
Condition(c) == <<"condition", c>>

Elements == {Ndg(n) : n \in Ndgs} \cup {Dacl(d) : d \in Dacls}
  \cup {Profile(p) : p \in DOMAIN Profiles} \cup {Sequence(s) : s \in DOMAIN Sequences}
  \cup {Condition(c) : c \in Conditions}
SourceItems == Elements \cup {Jp(j) : j \in DOMAIN SourceJps}
  \cup {Cert(c) : c \in Certs} \cup {Rest(r) : r \in RestStores}
Factory == {Cert(FactoryCert)} \cup {Ndg(n) : n \in FactoryNdgs}

ASSUME ElementsAssumption ==
  /\ \A n \in Ndgs \cup FactoryNdgs : n \in Seq(STRING) /\ Len(n) >= 2
  /\ \A p \in DOMAIN Profiles :
       Profiles[p] \in [dacl : Dacls \cup {None}, reads : JoinPoints \cup {None},
                        redirects : BOOLEAN]
  /\ \A s \in DOMAIN Sequences : Sequences[s] \subseteq SourceItems
ASSUME StartsAssumption ==
  \A t \in Starts : \A j \in DOMAIN t.jps : j \in JoinPoints /\ t.jps[j] \in JoinPoint
ASSUME ElementsBounds ==
  /\ \A x \in MayMiss : x[1] \in {"networkDeviceGroup", "authorizationProfile", "condition"}
  /\ \A t \in Starts : t.have \subseteq SourceItems \ {Jp(j) : j \in DOMAIN SourceJps}

VARIABLES
  bare,      \* objects this import created without all of the bundle's content
  portal     \* the target has the portal that redirections name

vars == <<directory, bare, portal>>

-----------------------------------------------------------------------------
(* Export                                                                  *)

\* What an export that ends well may still miss: a group created between two
\* pages of the listing, a profile that the source cannot read (noted in the
\* bundle), the conditions when their listing fails (logged only).
Export ==
  /\ phase = "export"
  /\ phase' = "idle"
  /\ \E missed \in SUBSET (MayMiss \cap SourceItems) :
       /\ (\E c \in Conditions : Condition(c) \in missed) =>
             \A c \in Conditions : Condition(c) \in missed
       /\ bundle' = SourceItems \ missed
  /\ UNCHANGED <<jps, have, verdict, todo, loadable, told, silent, quiet, deleted, edits,
                 faults, bare, portal>>

\* The bundle is sorted by kind.
BundleOrder == [authorizationProfile |-> 1, condition |-> 2, dacl |-> 3,
                idStoreSequence |-> 4, networkDeviceGroup |-> 5]
Before(k1, k2) == BundleOrder[k1] < BundleOrder[k2]

-----------------------------------------------------------------------------
(* preflightPolicyElements                                                 *)

\* Mutation: the hierarchy in the name is not followed.
NoAncestors(n) == {}

\* extractAncestors: the groups a name runs through; the first segment is the
\* group type, no group.
ExtractAncestors(n) == {SubSeq(n, 1, i) : i \in 2..(Len(n) - 1)}

BundleNdgs == {n \in Ndgs : Ndg(n) \in bundle}

\* Each missing ancestor gets an item of its own, even one that the bundle
\* carries itself.
Shells(listed) ==
  {Shell(a) : a \in {b \in UNION {ExtractAncestors(n) : n \in BundleNdgs} : Ndg(b) \notin listed}}

\* willExist["dacl"] when a profile is judged: the target's dACLs and those
\* the bundle named before.
DaclsAtProfile(listed) ==
  {x \in listed : x[1] = "dacl"}
    \cup {x \in bundle : x[1] = "dacl" /\ Before("dacl", "authorizationProfile")}

\* checkAuthProfileRefs: the dACL, the dictionary and the attribute in it.
ProfileRefs(p, listed, dicts, attrs) ==
  /\ Profiles[p].dacl = None \/ Dacl(Profiles[p].dacl) \in DaclsAtProfile(listed)
  /\ Profiles[p].reads = None \/ Profiles[p].reads \in dicts \cap attrs

\* checkIdStoreSequenceRefs: a certificate profile never blocks.
SequenceRefs(s, sources, joinPoints) ==
  \A x \in Sequences[s] :
    CASE x[1] = "joinPoint"          -> x[2] \in joinPoints
      [] x[1] = "certificateProfile" -> TRUE
      [] OTHER                       -> x \in sources

ElementVerdicts(listed, dicts, attrs, sources, joinPoints) ==
  [x \in {y \in bundle : y \in Elements} \cup Shells(listed) |->
     IF x \in listed THEN "skip"
     ELSE IF \/ x[1] = "authorizationProfile" /\ ~ProfileRefs(x[2], listed, dicts, attrs)
             \/ x[1] = "idStoreSequence" /\ ~SequenceRefs(x[2], sources, joinPoints)
          THEN "blocked" ELSE "create"]

Joined == {j \in DOMAIN jps : jps[j].joined}
Exposing == {j \in DOMAIN jps : jps[j].attrs}

\* The listings; one that fails is read as empty, except a dictionary's
\* attributes: unknown is not absent.  Then the report is complete, and
\* handleApply ends when there is nothing to create.
Listings == DOMAIN BundleOrder \cup {"restIDStore", "joinPoint", "dictionary", "attribute"}

Listed(failing) ==
  LET listed == Unlisted(failing)
  IN ElementVerdicts(
       listed,
       IF failing = "dictionary" THEN {} ELSE Joined,
       IF failing = "attribute" THEN JoinPoints ELSE Exposing,
       IdentitySourcesAfterThisRun(listed),
       JoinPointsAfterThisRun(IF failing = "joinPoint" THEN {} ELSE DOMAIN jps))

ListElements ==
  /\ phase = "listElements"
  /\ \/ verdict' = Added(verdict, Listed("none")) /\ NoFault
     \/ (\E l \in Listings : verdict' = Added(verdict, Listed(l))) /\ Fault
  /\ todo' = Creates'
  /\ phase' = IF todo' = {} THEN "done" ELSE "apply"
  /\ UNCHANGED <<jps, have, bundle, loadable, told, silent, deleted, edits, bare, portal>>

\* Mutation: the result starts with the errors of the import before.
ApplyRequestKeepsErrors ==
  /\ phase \in {"idle", "done"}
  /\ phase' = "listJoinPoints"
  /\ verdict' = <<>> /\ todo' = {} /\ loadable' = {}
  /\ silent' = FALSE /\ quiet' = TRUE /\ deleted' = FALSE /\ bare' = {}
  /\ UNCHANGED <<jps, have, bundle, told, edits, faults, portal>>

\* handleApply begins: pre-flight runs again whatever the browser was shown.
ApplyRequest ==
  /\ phase \in {"idle", "done"}
  /\ phase' = "listJoinPoints"
  /\ verdict' = <<>> /\ todo' = {} /\ loadable' = {} /\ told' = {}
  /\ silent' = FALSE /\ quiet' = TRUE /\ deleted' = FALSE /\ bare' = {}
  /\ UNCHANGED <<jps, have, bundle, edits, faults, portal>>

-----------------------------------------------------------------------------
(* applyPolicyElements                                                     *)

OnTarget(x) ==
  CASE x[1] = "joinPoint" -> x[2] \in DOMAIN jps
    [] x[1] = "groups"    -> x[2] \in DOMAIN jps /\ SourceJps[x[2]].groups \subseteq jps[x[2]].groups
    [] x[1] = "shell"     -> Ndg(x[2]) \in have
    [] OTHER              -> x \in have

\* What the target refuses: a group whose parent is missing or that is none,
\* and an object that names something the target does not have.
Accepted(x) ==
  CASE x[1] \in {"shell", "networkDeviceGroup"} ->
         LET n == x[2] IN Len(n) >= 2 /\ (Len(n) > 2 => Ndg(SubSeq(n, 1, Len(n) - 1)) \in have)
    [] x[1] = "authorizationProfile" ->
         LET p == Profiles[x[2]]
         IN (p.dacl # None => Dacl(p.dacl) \in have) /\ (p.reads # None => p.reads \in Joined \cap Exposing)
    [] x[1] = "idStoreSequence" -> \A y \in Sequences[x[2]] : OnTarget(y)
    [] OTHER -> TRUE

\* POST /ers/config/... of everything but a redirecting profile; a made-up
\* ancestor is created under the name of the group and without its content.
Create(x) ==
  LET key == IF x[1] = "shell" THEN Ndg(x[2]) ELSE x
  IN /\ phase \in {"apply", "loadGroups"} /\ Turn(x)
     /\ Done(x)
     /\ UNCHANGED <<jps, portal>>
     /\ \/ /\ key \notin have /\ Accepted(x)
           /\ have' = have \cup {key}
           /\ bare' = IF x[1] = "shell" THEN bare \cup {key} ELSE bare \ {key}
           /\ Fine \/ Lost(x)
        \/ /\ UNCHANGED <<have, bare>>
           /\ \/ key \in have /\ Fine
              \/ key \notin have /\ ~Accepted(x) /\ Refused(x)
              \/ Lost(x)

CreateElement ==
  \/ \E n \in Ndgs : Create(Ndg(n)) \/ \E a \in ExtractAncestors(n) : Create(Shell(a))
  \/ \E d \in Dacls : Create(Dacl(d))
  \/ \E p \in DOMAIN Profiles : (Profiles[p].redirects => portal) /\ Create(Profile(p))
  \/ \E s \in DOMAIN Sequences : Create(Sequence(s))
  \/ \E c \in Conditions : Create(Condition(c))

\* Mutation: the profile without its redirection is not mentioned.
CreateWithoutRedirectSilently(p) ==
  LET x == Profile(p)
  IN /\ Applying /\ Turn(x) /\ Profiles[p].redirects /\ ~portal
     /\ Done(x)
     /\ UNCHANGED <<jps, portal>>
     /\ \/ /\ x \notin have /\ Accepted(x)
           /\ have' = have \cup {x} /\ bare' = bare \cup {x}
           /\ Fine \/ Lost(x)
        \/ /\ UNCHANGED <<have, bare>>
           /\ \/ x \in have /\ Fine
              \/ x \notin have /\ ~Accepted(x) /\ Refused(x)
              \/ Lost(x)

\* A profile that the target refuses for its portal is tried again without the
\* redirection, and the result says so although it counts as created.
CreateWithoutRedirect(p) ==
  LET x == Profile(p)
  IN /\ Applying /\ Turn(x) /\ Profiles[p].redirects /\ ~portal
     /\ Done(x)
     /\ UNCHANGED <<jps, portal>>
     /\ \/ /\ x \notin have /\ Accepted(x)
           /\ have' = have \cup {x} /\ bare' = bare \cup {x}
           /\ Refused(x) \/ Lost(x)
        \/ /\ UNCHANGED <<have, bare>>
           /\ \/ x \in have /\ Fine
              \/ x \notin have /\ ~Accepted(x) /\ Refused(x)
              \/ Lost(x)

Finish ==
  /\ Applying /\ todo = {}
  /\ phase' = "done"
  /\ UNCHANGED <<jps, have, bundle, verdict, todo, loadable, told, silent, quiet, deleted,
                 edits, faults, bare, portal>>

-----------------------------------------------------------------------------
\* Nothing on the target names x.
Unused(x) ==
  /\ \A n \in Ndgs : Ndg(n) \in have /\ x[1] = "networkDeviceGroup" => x[2] \notin ExtractAncestors(n)
  /\ \A p \in DOMAIN Profiles : Profile(p) \in have => Dacl(Profiles[p].dacl) # x
  /\ \A s \in DOMAIN Sequences : Sequence(s) \in have => x \notin Sequences[s]

AdminAdds(x) ==
  /\ Edit
  /\ x \notin have /\ Accepted(x)
  /\ have' = have \cup {x}
  /\ UNCHANGED <<jps, deleted, bare, portal>>

AdminDeletes(x) ==
  /\ Edit
  /\ x \notin Factory /\ Unused(x)
  /\ have' = have \ {x} /\ bare' = bare \ {x}
  /\ deleted' = TRUE
  /\ UNCHANGED <<jps, portal>>

Admin ==
  \/ \E x \in Elements \cup {Cert(c) : c \in Certs} : AdminAdds(x)
  \/ \E x \in have : AdminDeletes(x)
  \/ /\ \/ \E j \in JoinPoints, d \in Domains : AdminAddsJp(j, d)
        \/ \E j \in DOMAIN jps : Unused(Jp(j)) /\ AdminDeletesJp(j)
     /\ UNCHANGED <<bare, portal>>

\* A step of Directory.
Elsewhere == UNCHANGED <<bare, portal>>

Handler ==
  \/ DirectoryHandler /\ Elsewhere
  \/ ListElements
  \/ CreateElement
  \/ \E p \in DOMAIN Profiles : CreateWithoutRedirect(p)
  \/ Finish

Next ==
  \/ Export \/ ApplyRequest \/ Handler \/ Admin
  \/ ManualStep /\ Elsewhere

Init ==
  /\ \E t \in Starts : jps = t.jps /\ have = t.have \cup Factory
  /\ portal \in BOOLEAN
  /\ bundle = {} /\ phase = "export" /\ verdict = <<>> /\ todo = {} /\ loadable = {}
  /\ told = {} /\ silent = FALSE /\ quiet = FALSE /\ deleted = FALSE
  /\ bare = {} /\ edits = 0 /\ faults = 0

Spec == Init /\ [][Next]_vars

\* A request that was started runs to its end, since every call is bounded by
\* the client's timeout; the operator imports again, and after some report
\* does the manual steps it asks for.
FairSpec ==
  /\ Spec
  /\ WF_vars(Export) /\ WF_vars(ApplyRequest) /\ WF_vars(Handler)
  /\ SF_vars(ManualStep /\ Elsewhere)

-----------------------------------------------------------------------------
\* Every ancestor the bundle's device groups may run through.
Ancestors == UNION {ExtractAncestors(n) : n \in Ndgs}

\* What the target may have besides join points.
TargetItems ==
  Elements \cup Factory \cup {Cert(c) : c \in Certs} \cup {Rest(r) : r \in RestStores}
    \cup {Ndg(a) : a \in Ancestors}

(* Types of the variables.                                                 *)
TypeOK ==
  /\ DirectoryTypeOK
  /\ have \subseteq TargetItems
  /\ bundle \subseteq SourceItems
  /\ bare \subseteq have
  /\ portal \in BOOLEAN
  /\ phase \in {"export", "idle", "listJoinPoints", "listSources", "listElements", "apply",
                "loadGroups", "done"}

(* What pre-flight announced is on the target after an import in which     *)
(* nothing failed and nobody interfered; only the groups of a join point   *)
(* wait for the operator to join the domain. A sequence may so name a join *)
(* point created in the same run, and a device group never arrives before  *)
(* the groups its name runs through.                                       *)
VerdictsKept ==
  phase = "done" /\ quiet =>
    \A x \in Creates : OnTarget(x) \/ (x[1] = "groups" /\ x \in told)

(* What pre-flight announced and the target does not have as the bundle    *)
(* describes it is named in the result, one profile without its            *)
(* redirection included, unless somebody deleted something. The exceptions *)
(* are the groups when their load was given up, and made-up device groups. *)
IncompleteIsReported ==
  phase = "done" /\ ~deleted =>
    \A x \in Creates :
      \/ OnTarget(x) /\ (x \in bare => x[1] = "networkDeviceGroup")
      \/ x \in told
      \/ x[1] = "groups" /\ silent

-----------------------------------------------------------------------------
(* Inductive strengthenings.                                               *)

Judging == phase \in {"listJoinPoints", "listSources", "listElements"}
Judged == Applying \/ phase = "done"

(* An import starts with nothing to do and nothing said, and announces the *)
(* elements last.                                                          *)
CleanStart ==
  Judging =>
    /\ todo = {} /\ told = {} /\ bare = {}
    /\ \A x \in Creates : x[1] \in {"joinPoint", "groups", "certificateProfile"}

(* For IncompleteIsReported: what was announced is still to be done, done  *)
(* or named.                                                               *)
ReportedInv ==
  /\ phase = "done" => todo = {}
  /\ \A x \in bare : x[1] = "networkDeviceGroup" \/ x \notin todo
  /\ Judged /\ ~deleted =>
       \A x \in Creates :
         \/ x \in todo
         \/ OnTarget(x) /\ (x \in bare => x[1] = "networkDeviceGroup")
         \/ x \in told
         \/ x[1] = "groups" /\ silent

\* What an import may announce; no identity store among it.
Creatable ==
  {Jp(j) : j \in BundleJps} \cup {GroupsOf(j) : j \in BundleJps} \cup {Cert(c) : c \in Certs}
    \cup (bundle \cap Elements) \cup {Shell(a) : a \in Ancestors}

\* Whether what the target wants for x is there or comes before x.
ParentComes(n) ==
  LET parent == SubSeq(n, 1, Len(n) - 1)
  IN Ndg(parent) \in have \/ Shell(parent) \in todo

Ready(x) ==
  /\ x[1] \in {"shell", "networkDeviceGroup"} =>
       Len(x[2]) >= 2 /\ (Len(x[2]) > 2 => ParentComes(x[2]))
  /\ x[1] = "authorizationProfile" => Accepted(x)
  /\ x[1] = "idStoreSequence" =>
       \A y \in Sequences[x[2]] :
         OnTarget(y) \/ (y \in todo /\ y[1] \in {"joinPoint", "certificateProfile"})

(* For VerdictsKept: what is announced is known to applyPolicyElements,    *)
(* the bundle has every certificate profile, and what ISE comes with stays.*)
KnownInv ==
  /\ Factory \subseteq have
  /\ phase # "export" => {Cert(c) : c \in Certs} \subseteq bundle
  /\ Creates \subseteq Creatable /\ (phase = "export" => Creates = {})

(* In a run that nothing disturbs, nothing is tried before what it needs.  *)
KeptInv ==
  quiet =>
    /\ phase = "listElements" => {Cert(c) : c \in Certs} \subseteq have \cup Creates
    /\ Applying => \A x \in todo : Ready(x)
    /\ Judged => \A x \in Creates : x \in todo \/ OnTarget(x) \/ (x[1] = "groups" /\ x \in told)

-----------------------------------------------------------------------------
\* A join point whose domain the target knows under another name is left to
\* the operator, and so is all that names it.
LeftToOperator(j) == j \notin DOMAIN jps /\ \E k \in DOMAIN jps : jps[k].domain = SourceJps[j].domain

Concerns(x, j) ==
  \/ x \in {Jp(j), GroupsOf(j)}
  \/ x[1] = "authorizationProfile" /\ Profiles[x[2]].reads = j
  \/ x[1] = "idStoreSequence" /\ Jp(j) \in Sequences[x[2]]

(* Importing again and doing the manual steps in between carries the whole *)
(* bundle over, whatever order the operator works in and however often a   *)
(* request fails on the way: no verdict stays "blocked" or "skip" for an   *)
(* object that the target could have (README, two import runs).            *)
MigrationCompletes ==
  <>[](\A x \in bundle \cup {GroupsOf(j) : j \in BundleJps} :
         OnTarget(x) \/ \E j \in BundleJps : LeftToOperator(j) /\ Concerns(x, j))

(* The order of the import puts a profile after the dACL it may name, so a *)
(* profile is not blocked for a dACL that the same import creates.         *)
ProfilesFindTheirDacls ==
  phase = "apply" /\ quiet =>
    \A p \in DOMAIN Profiles :
      Profiles[p].reads = None /\ Dacl(Profiles[p].dacl) \in Creates =>
        Profile(p) \notin DOMAIN verdict \/ verdict[Profile(p)] # "blocked"
=============================================================================
