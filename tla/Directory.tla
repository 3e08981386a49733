------------------------------ MODULE Directory ------------------------------
(***************************************************************************)
(* Directory: Active Directory join points and identity sources, the two   *)
(* families that later families of the same import may name.               *)
(*                                                                         *)
(* A join point is created unjoined; its dictionary and its groups exist   *)
(* only after the operator has joined the domain, between two imports.  A  *)
(* REST identity store is never created: the operator builds it by hand.   *)
(*                                                                         *)
(* An object of the bundle or the target is <<kind, name>>.  The module    *)
(* holds the state an import shares between families; PolicyElements adds  *)
(* the family that depends on these two and puts the steps together.       *)
(***************************************************************************)
EXTENDS Naturals, Sequences, FiniteSets

CONSTANTS
  JoinPoints,   \* names of join points, on the source or the target
  Domains,      \* AD domains
  Sids,         \* AD groups
  SourceJps,    \* the source's join points: name -> domain and groups
  Certs,        \* the source's certificate profiles
  FactoryCert,  \* the profile every deployment comes with
  RestStores,   \* the source's REST identity stores
  MaxEdits,     \* bound on changes to the target by somebody else
  MaxFaults     \* bound on failed requests

ASSUME DirectoryAssumption ==
  /\ DOMAIN SourceJps \subseteq JoinPoints
  /\ \A j \in DOMAIN SourceJps : SourceJps[j] \in [domain : Domains, groups : SUBSET Sids]
ASSUME OneSourceJpPerDomain ==   \* ISE joins a domain once
  \A i, j \in DOMAIN SourceJps : SourceJps[i].domain = SourceJps[j].domain => i = j
ASSUME DirectoryBounds == {MaxEdits, MaxFaults} \subseteq Nat

VARIABLES
  jps,       \* the target's join points, by name
  have,      \* the target's other objects
  bundle,    \* the objects the bundle carries
  phase,     \* the next step
  verdict,   \* the report: item -> "create", "skip" or "blocked"
  todo,      \* items that are still to be created
  loadable,  \* targetByName of applyADJoinPoints
  told,      \* items that the result names as failed or incomplete
  silent,    \* the group load was given up without a word in the result
  quiet,     \* since the import began no request failed and nobody else
             \* changed the target
  deleted,   \* since the import began somebody deleted something
  edits, faults

directory == <<jps, have, bundle, phase, verdict, todo, loadable, told, silent, quiet,
               deleted, edits, faults>>

JoinPoint == [domain : Domains, joined : BOOLEAN, groups : SUBSET Sids, attrs : BOOLEAN]

Jp(j) == <<"joinPoint", j>>
GroupsOf(j) == <<"groups", j>>
AttrsOf(j) == <<"attributes", j>>
Cert(c) == <<"certificateProfile", c>>
Rest(r) == <<"restIDStore", r>>

BundleJps == {j \in DOMAIN SourceJps : Jp(j) \in bundle}

Extend(f, x, v) == [y \in DOMAIN f \cup {x} |-> IF y = x THEN v ELSE f[y]]
Added(f, g) == [x \in DOMAIN f \cup DOMAIN g |-> IF x \in DOMAIN g THEN g[x] ELSE f[x]]

Creates == {x \in DOMAIN verdict : verdict[x] = "create"}

Fault == faults < MaxFaults /\ faults' = faults + 1 /\ quiet' = FALSE
NoFault == UNCHANGED <<faults, quiet>>

-----------------------------------------------------------------------------
(* Pre-flight                                                              *)

\* Mutation: the domain is not compared.
JpVerdictByName(j, seen) == IF j \in DOMAIN seen THEN "skip" ELSE "create"

\* A domain that the target knows under another name blocks.
JpVerdict(j, seen) ==
  IF j \in DOMAIN seen THEN "skip"
  ELSE IF \E k \in DOMAIN seen : seen[k].domain = SourceJps[j].domain THEN "blocked"
  ELSE "create"

\* Mutation: a join point that has some groups counts as loaded.
GroupsVerdictAny(j, seen) ==
  IF seen[j].groups # {} \/ SourceJps[j].groups = {} THEN "skip" ELSE "create"

GroupsVerdict(j, seen) ==
  IF SourceJps[j].groups \subseteq seen[j].groups THEN "skip" ELSE "create"

\* A join point the target has gets an item for its groups and, when it lacks
\* AD attributes of the source, one that only says so.
JpVerdicts(seen) ==
  LET known == BundleJps \cap DOMAIN seen
  IN [x \in {Jp(j) : j \in BundleJps} \cup {GroupsOf(j) : j \in known}
            \cup {AttrsOf(j) : j \in {k \in known : ~seen[k].attrs}} |->
        CASE x[1] = "joinPoint" -> JpVerdict(x[2], seen)
          [] x[1] = "groups"    -> GroupsVerdict(x[2], seen)
          [] OTHER              -> "blocked"]

\* preflightADJoinPoints: without a listing nothing is reported at all; when
\* only the details cannot be read every join point looks new.
ListJoinPoints ==
  /\ phase = "listJoinPoints"
  /\ phase' = "listSources"
  /\ \/ verdict' = JpVerdicts(jps) /\ NoFault
     \/ verdict' \in {<<>>, JpVerdicts(<<>>)} /\ Fault
  /\ UNCHANGED <<jps, have, bundle, todo, loadable, told, silent, deleted, edits>>

SourceVerdict(x, seen) ==
  IF x \in seen \/ x = Cert(FactoryCert) THEN "skip"
  ELSE IF x[1] = "restIDStore" THEN "blocked" ELSE "create"

SourceVerdicts(seen) ==
  [x \in {y \in bundle : y[1] \in {"certificateProfile", "restIDStore"}} |->
     SourceVerdict(x, seen)]

Unlisted(kind) == {x \in have : x[1] # kind}

\* preflightIdentitySources: a listing that fails is read as empty.
ListSources ==
  /\ phase = "listSources"
  /\ phase' = "listElements"
  /\ \/ verdict' = Added(verdict, SourceVerdicts(have)) /\ NoFault
     \/ /\ \E kind \in {"certificateProfile", "restIDStore"} :
             verdict' = Added(verdict, SourceVerdicts(Unlisted(kind)))
        /\ Fault
  /\ UNCHANGED <<jps, have, bundle, todo, loadable, told, silent, deleted, edits>>

\* What the families judged later may name: joinPointsAfterThisRun and
\* identitySourcesAfterThisRun, from new listings and this run's verdicts.
JoinPointsAfterThisRun(listed) ==
  listed \cup {j \in BundleJps : Jp(j) \in Creates}

IdentitySourcesAfterThisRun(listed) ==
  {x \in listed \cup Creates : x[1] \in {"certificateProfile", "restIDStore"}}

-----------------------------------------------------------------------------
(* applyADJoinPoints and applyIdentitySources                              *)

\* Families, and the kinds within one, are written in a fixed order.
Order == [joinPoint |-> 0, groups |-> 1, certificateProfile |-> 2, shell |-> 10,
          networkDeviceGroup |-> 20, dacl |-> 30, authorizationProfile |-> 31,
          idStoreSequence |-> 32, condition |-> 33]

\* A device group comes after the groups its name runs through.
Rank(x) == Order[x[1]] + (IF x[1] \in {"shell", "networkDeviceGroup"} THEN Len(x[2]) ELSE 0)

Turn(x) == x \in todo /\ x = CHOOSE y \in todo : \A z \in todo : Rank(y) <= Rank(z)

Applying == phase \in {"apply", "loadGroups"}

Done(x) ==
  /\ todo' = todo \ {x}
  /\ UNCHANGED <<bundle, phase, verdict, loadable, silent, deleted, edits>>

\* Created, or skipped as a duplicate.
Fine == NoFault /\ UNCHANGED told
Refused(x) == NoFault /\ told' = told \cup {x}
Lost(x) == Fault /\ told' = told \cup {x}

CreateJoinPoint(j) ==
  /\ Applying /\ Turn(Jp(j))
  /\ Done(Jp(j))
  /\ UNCHANGED have
  /\ \/ /\ j \notin DOMAIN jps
        /\ jps' = Extend(jps, j, [domain |-> SourceJps[j].domain, joined |-> FALSE,
                                  groups |-> {}, attrs |-> TRUE])
        /\ Fine \/ Lost(Jp(j))
     \/ /\ UNCHANGED jps
        /\ (j \in DOMAIN jps /\ Fine) \/ Lost(Jp(j))

\* The ids are read once; a failure ends the family, and only the log says so.
ListForGroups ==
  /\ phase = "apply"
  /\ \E j \in BundleJps : Turn(GroupsOf(j))
  /\ \/ /\ phase' = "loadGroups" /\ loadable' = DOMAIN jps
        /\ NoFault /\ UNCHANGED <<todo, silent>>
     \/ /\ todo' = {x \in todo : x[1] # "groups"} /\ silent' = TRUE
        /\ Fault /\ UNCHANGED <<phase, loadable>>
  /\ UNCHANGED <<jps, have, bundle, verdict, told, deleted, edits>>

\* addGroups, which ISE refuses until the domain is joined.
LoadGroups(j) ==
  /\ phase = "loadGroups" /\ Turn(GroupsOf(j))
  /\ Done(GroupsOf(j))
  /\ UNCHANGED have
  /\ LET accepted == j \in loadable /\ j \in DOMAIN jps /\ jps[j].joined
     IN \/ /\ accepted
           /\ jps' = [jps EXCEPT ![j].groups = @ \cup SourceJps[j].groups]
           /\ Fine \/ Lost(GroupsOf(j))
        \/ /\ UNCHANGED jps
           /\ (~accepted /\ Refused(GroupsOf(j))) \/ Lost(GroupsOf(j))

CreateCert(c) ==
  /\ Applying /\ Turn(Cert(c))
  /\ Done(Cert(c))
  /\ UNCHANGED jps
  /\ \/ /\ have' = have \cup {Cert(c)}      \* or it is a duplicate
        /\ Fine \/ Lost(Cert(c))
     \/ UNCHANGED have /\ Lost(Cert(c))

DirectoryHandler ==
  \/ ListJoinPoints \/ ListSources
  \/ \E j \in BundleJps : CreateJoinPoint(j) \/ LoadGroups(j)
  \/ ListForGroups
  \/ \E c \in Certs : CreateCert(c)

-----------------------------------------------------------------------------
(* What the operator does in the GUI, between two imports, because the     *)
(* report says so                                                          *)

Operator ==
  /\ phase = "done"
  /\ UNCHANGED <<bundle, phase, verdict, todo, loadable, told, silent, quiet, deleted,
                 edits, faults>>

JoinDomain(j) ==
  /\ j \in DOMAIN jps /\ ~jps[j].joined
  /\ jps' = [jps EXCEPT ![j].joined = TRUE]
  /\ UNCHANGED have /\ Operator

AddAttributes(j) ==
  /\ j \in DOMAIN jps /\ ~jps[j].attrs
  /\ jps' = [jps EXCEPT ![j].attrs = TRUE]
  /\ UNCHANGED have /\ Operator

BuildRestStore(r) ==
  /\ Rest(r) \in bundle \ have
  /\ have' = have \cup {Rest(r)}
  /\ UNCHANGED jps /\ Operator

ManualStep ==
  \/ \E j \in JoinPoints : JoinDomain(j) \/ AddAttributes(j)
  \/ \E r \in RestStores : BuildRestStore(r)

-----------------------------------------------------------------------------
(* What somebody else does to the target                                   *)

Edit ==
  /\ edits < MaxEdits
  /\ edits' = edits + 1
  /\ quiet' = FALSE
  /\ UNCHANGED <<bundle, phase, verdict, todo, loadable, told, silent, faults>>

AdminAddsJp(j, d) ==
  /\ Edit
  /\ j \notin DOMAIN jps
  /\ jps' = Extend(jps, j, [domain |-> d, joined |-> FALSE, groups |-> {}, attrs |-> FALSE])
  /\ UNCHANGED <<have, deleted>>

AdminDeletesJp(j) ==
  /\ Edit
  /\ jps' = [k \in DOMAIN jps \ {j} |-> jps[k]]
  /\ deleted' = TRUE
  /\ UNCHANGED have

-----------------------------------------------------------------------------
(* Types of the variables.                                                 *)
DirectoryTypeOK ==
  /\ DOMAIN jps \subseteq JoinPoints /\ \A j \in DOMAIN jps : jps[j] \in JoinPoint
  /\ Creates \subseteq DOMAIN verdict /\ todo \subseteq Creates
  /\ \A x \in DOMAIN verdict : verdict[x] \in {"create", "skip", "blocked"}
  /\ loadable \subseteq JoinPoints /\ told \subseteq Creates
  /\ {silent, quiet, deleted} \subseteq BOOLEAN
  /\ edits \in 0..MaxEdits /\ faults \in 0..MaxFaults

(* When nothing fails and nobody interferes, an import never adds a second *)
(* join point for a domain the target knows under another name             *)
(* (targetByDomain): that would be a configuration change, no migration.   *)
OneJoinPointPerDomain ==
  quiet /\ phase \in {"apply", "loadGroups", "done"} =>
    \A j \in BundleJps, k \in DOMAIN jps :
       Jp(j) \in Creates /\ jps[k].domain = SourceJps[j].domain => k = j
=============================================================================
