# A TLA+ model of ise2ise

ise2ise moves configuration from one Cisco ISE deployment to another: it exports
object families from the source into an encrypted bundle, resolves the bundle
against the target (pre-flight), and, once the operator confirms, creates what
the target lacks. It keeps no state of its own between requests. It only ever
creates, and nobody else is locked out of the target while it works.

## 1. Inventory

| Part | State | Operations | Hard behaviour |
|---|---|---|---|
| ISE client (`ise.go`) | CSRF token, connection | list (paged), get, create, put; `ersGetAll` worker pool | goroutines that look at `firstEr`, read without the mutex and store; a nonce that goes stale between two writes and its one retry; a collection that changes between pages; a target that ignores the page number |
| Pre-flight (`endpoints.go` `Preflight` and one function per family) | the report: a verdict per object | list the target, decide create / skip / blocked | later families count on what earlier ones will create; a listing that fails |
| Apply (`handleApply`, `ApplyImport`) | counts, name-to-id maps | its own pre-flight, the gate on `Create`, then one pass per family | a target that changes between listing and write, a refused POST, a POST whose answer is lost, an abort halfway |
| Endpoint groups and endpoints (`endpoints.go`) | groups, endpoints with the ids of their group and profile | export by name, import by id | ids minted during the import; references to deleted objects |
| Policy sets (`policy_sets.go`) | sets, ranked rules, import marker | create beside or merge, reconcile on a re-run | a set is written in many requests; repeated imports; a name taken by somebody else's set |
| Policy elements (`policy_elements.go`) | device groups, dACLs, profiles, sequences, conditions | verdicts, creates in kind order, a profile again without its redirection | order inside the bundle against order of writing, made-up ancestors, listings that fail |
| TrustSec (`trustsec.go`) | SGTs, SGACLs, matrix cells | create in dependency order | cells that refer to what this run creates |
| Active Directory, identity sources (`activedirectory.go`, `identitysources.go`) | join points with their groups, REST stores, certificate profiles | create, load groups, say what later families may count on | needs a manual join between two runs; a domain known under another name; a group load given up halfway |
| Certificates (`certs.go`, `endpoints.go`) | trusted and per-node system certificates | verdict by fingerprint or name, import, look-up by name and PUT of the CRL settings, write per node | a second request that replaces a whole object found by name; nodes that restart; portal tags and names in use; partial success over nodes |
| Bundle, CSV translation (`bundle.go`, `translate.go`) | none | seal/open, map columns | pure functions |
| Web UI (`index.html`), `main.go` | the form | request, confirm, show | the Confirm button may be pressed again |

The parts interact by calls within one HTTP request. `handlePreflight` and
`handleApply` both call `Preflight`; `handleApply` then calls `ApplyImport`. The
shared state is the target deployment, which other administrators, the profiler
and a second browser tab change at the same time. What makes the parts correct:

* reading a family yields all of it or an error;
* a reference travels by name and arrives as the id of the target's object of
  that name;
* existing objects, and sets somebody else made, are never changed;
* the counts account for every object, and nothing that is missing is reported
  as present;
* a repeated import finishes what an earlier one left and adds nothing twice;
* an import does not change how the target treats traffic unless it was told to.

## 2. Modules

| Module | Models |
|---|---|
| `FamilyRead` | abstract: what reading a family promises |
| `ReadPool` | `ersGetAll`; refines `FamilyRead` |
| `EndpointExport` | the export of groups and endpoints, run through `ReadPool` while the source is in use |
| `ReadPoolProofs` | theorems of both |
| `EndpointImport` | pre-flight, confirmation and apply of groups and endpoints |
| `EndpointImportProofs` | its theorems |
| `PolicySets` | repeated imports of policy sets, with the elements they refer to |
| `PolicySetsProofs` | its theorems |
| `TrustSec` | export and repeated imports of security groups, SGACLs and matrix cells |
| `TrustSecProofs` | its theorems |
| `Directory` | join points, their groups, identity sources: the state that families of one import share |
| `PolicyElements` | policy elements on top of `Directory`; repeated imports with the manual steps in between |
| `PolicyElementsProofs` | its theorems |
| `CertificateExport` | the pickers' selection and both certificate exports |
| `Certificates` | on top of it: both pre-flights and imports into a deployment of several nodes |
| `CertificatesProofs` | its theorems |
| `Client` | one family's import at the level of requests: paging, nonce, retry |
| `ClientProofs`, `ListingProofs` | its theorems |
| `MC*` | the instances for TLC |

Operators whose comment starts with "Mutation:" are wrong versions of the
operator that follows, used to see that the properties can fail.

**ReadPool.** `next` and `jobs` are the caller's loop and the unbuffered
channel: a send is one step with the receive. `pc[w]` is a worker's place
between the two critical sections: `check` before the look at `firstEr`, `read`
during `ersGetByID`, `store` before the second lock. `out` keeps nil or an
object per stub. An error is named by the index whose read failed.

**EndpointExport.** `ExportEndpoints` on top of `ReadPool`: the groups it listed
are the pool's stubs, with the ids `1..N`, and `seen` is `groupNameByID`, the
name each had when its GET was answered. After the pool has returned the profiles
are listed, and the endpoints come from the OpenAPI or, when that is refused, one
by one from the ERS; that second use of `ersGetAll` is one step per endpoint, by
`FamilyRead`'s promise. `Filter` is the loop that ends the export: `Selected`,
`IsStatic` and `ProfileResolves` are its three decisions. A note is a pair of what
it says and of whom. `Admin` renames, creates and deletes groups, deletes profiles
and moves or deletes endpoints between any two requests; `kept` and `stable`
remember what was left alone. A listing is one step (its pages are `Client`), every
endpoint has a MAC, and the order of the bundle is left out. The bundle has the
form `EndpointImport` reads. The pool's `Spec` is not run by itself: `ExportSpec`
implements it (`ExportRunsPool`).

**EndpointImport.** `objs` holds every group and profile the target ever
created, indexed by id; ids are never reused, `live` are those that still exist.
`phase` walks through the requests of a handler in the order of the code. Each
listing, POST and re-read is a step; it may fail (`Fault`), and a POST may be
carried out and still be counted as failed. `Admin` steps change the target at
any time. The counts are those of `ImportResult`, with the pre-flight's skips
and blocks added at the end as `handleApply` does. MAC spelling and the fields
of an endpoint other than group and profile are left out; an endpoint of the bundle
without a MAC is `NoMac`, which the pre-flight blocks.

**PolicySets.** A target name is `<<s, k>>`: the name itself (`k = 0`) or
`s (imported k)`. `owner` tells a set with the import marker ("tool") from one
without ("other"). `Verdict`, `FreeSuffix` and `Mine` are `preflightPolicySets`,
`freeSetName` and `mine`; the verdict "merge" is the additional "N missing rules"
item. A listing that fails is read as empty, as the code ignores those errors.
Apply creates the elements, lists the conditions, and goes through the sets in
bundle order: POST the set (`CreateSet`), list the sets and take the id of the one
with that name (`FindSet`), post the rules. `stale` stands for ids: a set that was
deleted and made again under the same name is another set, and a post to the old id
is refused. When that happens between `CreateSet` and `FindSet`, the look-up takes
the other set; `mistaken`, which the code does not know of, remembers it. Both rule lists of a set are one sequence,
and references are abstract names: one for a service, security group, identity
store, profile, condition or dictionary. No bundle set has a name that looks
like "s (imported)". `InOrder` and `Only` stand for Go's sort and for its filtering
loops: they give the n-th smallest by counting those below it, which the proofs can
use. The target appends a new set or rule after those it has.

**TrustSec.** `Export` is `ExportTrustSec` with `nameResolver`: an object that
appears on the source after its listing is missing from the bundle while a cell
refers to it; the resolver reads it (and ANY, which ISE never lists) by id, and
when that fails the id travels in place of the name, written `<<n>>`. The import
lists groups, SGACLs and cells in three steps, where a failed listing is read as
empty, and reports a verdict per object; `CellBlocked`, `HeldPairs` and
`SgtVerdict` are the three decisions. The writes go groups, SGACLs, then, after
`stubsByName` of both, cells; `Total` is the result `handleApply` sends. `multi`
is the target's "Multiple SGACLs per cell" setting, `TwoRules` the cells that
need it. The objects of a kind are tried in a fixed order that is not the
alphabet's; an import that ends at the re-read keeps no count of its skips,
while the code has counted those it passed. Drift texts and the fields of an
object other than name, value and references are left out. The target keeps
names, tag values and pairs unique, and does not delete an object a cell refers
to.

**Directory and PolicyElements.** An object is `<<kind, name>>`. `jps` holds the
target's join points (domain, joined, groups loaded, attributes selected), `have`
everything else. Pre-flight is three steps in the order of `Preflight`:
`ListJoinPoints`, `ListSources`, `ListElements`; each adds its verdicts to the
report, and the last reads what the earlier ones will create
(`JoinPointsAfterThisRun`, `IdentitySourcesAfterThisRun`). `ProfileRefs`,
`SequenceRefs` and `Shells` are `checkAuthProfileRefs`,
`checkIdStoreSequenceRefs` and the loop over `extractAncestors`. `Rank` is the
order of `ApplyImport` and of the kinds in `applyPolicyElements`. `ListForGroups`
and `LoadGroups` are the second half of `applyADJoinPoints`; `silent` records
that its listing failed, which only the log says. `CreateWithoutRedirect` is the
retry of a profile whose portal the target lacks, `bare` what arrived without all
of its content. `ManualStep` is what the report asks of the operator: join the
domain, select attributes, build a REST store. Names of device groups are
sequences of segments. Drift texts and counts are left out.

**CertificateExport and Certificates.** A certificate is its content, which is
what its fingerprint tells apart. `bt` and `bs` are the two certificate lists of
the bundle; a trusted entry is keyed by the source's name and the content, since
an export may hold a chain. `unread` holds what the listing of the system certificates
passes over: all that a silent node has, and single certificates on a node that
answers (`MayHide`); `Holders` are the nodes left. `TrustedVerdict` and `NodeVerdict` are the decisions
of `preflightTrustedCerts` and `preflightSystemCerts`; `ListNodes` covers the node
list, the store of each node and the issuers. In the import
`ImportTrusted`, `RefuseComma`/`ImportAgain` (a description ISE refuses),
`LookUp` and `PutSettings` are the requests for one trusted certificate; `phase`
and `found` are the place between them. `ImportSystem` is one POST to one node;
taking the admin role moves it from the node's other certificates and makes the
node go down until `Restarted`. `by` and `ours` mark what an import made;
`deleted` that somebody deleted something since it began. Encodings, dates, keys
and passwords are left out, except that a ZIP's key fails (see below). `Reached` is
what an announced object may have come to without a word in the result. Either this
entry was imported, with its CRL settings and its description (`TrustedComplete`), or
ISE refused it as a duplicate, which counts as a skip: somebody else brought the
certificate meanwhile (`TrustedForeign`), another entry of the bundle did
(`TrustedTwin`), or its name is held by other content (`TrustedTaken`, `NodeClash`).
The twin is not rare: a root that is picked and also comes in a sub CA's chain is
announced twice, and what its own entry carries may be lost (see section 3).

**Client.** `ListPage` is one round of `ersList` or `openAPIList`: `honours` tells
whether the target obeys the page number, `totals` whether it reports its size,
`MaxPages` is the guard of 1000 pages. `FetchForAttempt`, `Send` and `Renew` are
`attempt` and the retry in `do`; `token` is "none", "fresh" or "stale", and
`issues` what a fetch returns. A request without an answer (`Lose`) may have been
carried out. The four properties look at the listing (`start`, `lost`, `changed`)
and at one object's write (`carried`, `uneasy`). One collection stands for a
family; the reads of single objects are `ReadPool`.

## 3. Runs

| Run | Shows |
|---|---|
| `read_pool` | An export of 3 groups (one nested) read by 2 workers, and of 4 endpoints (static group, static profile only, both, profiled); five requests, one with a selected group that is gone, one without a selection; 2 edits, 2 refused listings, any GET of the pool refused. The pool returns every object or one real error (`NoHalfRead`, `ImplementsFamilyRead`), the bundle refers to nothing it does not hold (`BundleResolves`), what was left alone is in it or told (`ExportedOrTold`), and the export ends (`ExportEnds`). More stubs than workers, so that sends are outstanding when a failure is recorded; two edits allow an endpoint's move to a new group, and two refused listings both ways around the ERS fallback. |
| `endpoint_import` | 2 groups, 1 profile, 2 endpoints and one without a MAC, 3 requests, 2 edits by others, 1 fault, two bundles. References by name, counts that add up, missing objects reported, a clean re-run that creates nothing, only confirmed and creatable objects written, every run ends. Three requests are a pre-flight, an import and a repeat; two edits allow delete-and-recreate. |
| `policy_sets` | Two sets and Default, 2 imports, two edits or an edit and a fault (`MaxTrouble`), every combination of strangers' sets and references at the start. Strangers' sets untouched, but for one that takes the name of a set just created, which two edits reach; evaluated rules untouched, one copy per set, repair on the second import, incomplete sets reported. |
| `default_rules_merged` (violated) | Finding 1. |
| `beside_sets_reconciled` (violated) | Finding 2. |
| `sets_in_source_order` (violated) | Finding 3. |
| `trustsec` | Source with 2 groups, 2 SGACLs, 3 cells (the default cell, one with two SGACLs, one with a catch-all rule), a third group that exists on the target only; any one object late at export, any one on the target at the start, 2 imports, 1 fault, 1 edit. Cells written whole, announcements kept, missing objects reported, a clean re-run that creates nothing, every import ends. |
| `counted_once` (violated) | Finding 4. |
| `policy_elements` | One domain whose join point the target may have by hand, joined or not, with some of its groups, or (by an edit) under another name; device groups three levels deep of which one may be missing from the bundle; a profile with a dACL and a redirection, one that reads the join point's dictionary; a sequence over a join point, a REST store and a certificate profile. Any number of imports, 1 fault, 1 edit. No second join point for a domain, announcements kept, losses reported, and the migration complete in the end. |
| `profiles_find_their_dacls` (violated) | Finding 5. |
| `certificates` | A root, a sub CA whose export holds the root as well, an expired root, a node's own certificate; system certificates on two source nodes under two names, under a default name, issued by the expired root, from a ZIP. Three target nodes of which two serve the API; three starts (empty; the root and a portal tag there; names taken and no fingerprints shown); both forms of the request, any number of imports, 1 fault, 1 edit, which may bring the root itself from somebody else; one certificate hidden on one of its source nodes. The root is announced twice, and either entry may be first. Trust kept, strangers untouched, losses reported, and what was picked and listed there in the end. Each exception of `Reached` is met in this instance: without any one of them TLC finds a state that violates `IncompleteIsReported`. |
| `client` | Page size 2, up to four objects and three pages, three writes of which two need a nonce, 2 edits, 1 fault, all kinds of target. Two edits allow a session that ends between two writes and an addition between two pages. Nothing written twice, stale nonces renewed, nothing passed over, every import ends. |

`EndpointImport`, `PolicySets` and `TrustSec` stop when their bounds are used up,
`Client` when its one family is done, so deadlock is not checked there. In
`PolicyElements` and `Certificates` the operator can always import again, so a
handler that is stuck would be no deadlock either; their liveness properties
would show it. `EndpointExport`, and `ReadPool` in it, is checked for deadlock.

One fault and one edit put every disturbance into every place, and a failed request
together with a change by somebody else. `read_pool`, `endpoint_import`,
`policy_sets` and `client` allow two edits as well (delete and recreate, a session
that ends and an object that is added), `policy_sets` then without a fault. `trustsec`, `policy_elements` and
`certificates` allow one: there a pair of edits, such as a certificate that is deleted
and replaced by another of its name between its two requests, is covered by the proofs
only. The properties of section 4 are proved for any number of edits and faults. The
liveness properties begin anew after the last disturbance, whatever it left.

**Fairness.** `EndpointExport`: weak fairness of the handler with its pool as a
whole: Go runs a runnable goroutine, and the HTTP client's timeout ends every
request.
`EndpointImport` and `TrustSec`: weak fairness of a handler that has been
started, for the same reason. Nothing is assumed of the operator or the administrators there. `Client`: weak
fairness of the handler. `PolicyElements`: weak fairness of export, handler and
the operator's next import, and strong fairness of `ManualStep`, which is enabled
only between two imports: the operator does each step the report asks for at some
point, as the README of the tool describes (two import runs). `Certificates`: weak
fairness of handler, next import and `Restarted` (a node comes back), and strong
fairness of the import with an untouched form: without it the operator might tick
one node for ever. `PolicySets` has no liveness property.

### Findings

1. **Rules of Default are not merged on a re-run.** `handleApply` stops when the
   pre-flight counts no creates (`api.go:713`). Default is a skip item and its
   rules are not counted. If a Default rule did not resolve at the first import
   and everything else is there, joining the domain and importing again writes
   nothing, although the README says to do exactly that (lines 326 and 337-338).
2. **A copy imported beside a stranger's set is never completed**
   (`policy_sets.go:350`): only a set under its own name is reconciled, against
   the reason given in the comment at lines 340-345.
3. **Sets arrive in alphabetical order** (`policy_sets.go:95`), not "in their
   source order" (README line 323).
4. **Skipped objects are counted twice** (`trustsec.go:493`, `api.go:737`): the
   TrustSec pass counts the skips and `handleApply` adds the report's count again,
   so a result with something created does not add up. Identity sources, policy
   elements and policy sets count the same way; for endpoints `CountsAddUp` holds.
5. **A profile does not find the dACL of its own bundle**
   (`policy_elements.go:371`): objects are judged in bundle order, which is sorted
   by kind, and `authorizationProfile` comes before `dacl`. The profile is blocked
   although the same import creates the dACL; a second import creates it, as
   `MigrationCompletes` shows.

Seen while modelling, with no run of their own:

* The password field for keys from a ZIP is never shown: `index.html:926` reads
  `it.obj.keySource`, and `PreflightItem.obj` (`endpoints.go:583`) is not
  serialised. Every such key fails, against README lines 254-255. `ImportZip`
  models what the code does.
* TrustSec objects that are missing on the target because their tag value is taken
  or a reference does not resolve are skips (`trustsec.go:255`, `290`), and the form
  heads skips "Already on the target" (`index.html:893`).
* In an export of the groups alone a selected group that is gone from the source is
  not mentioned: the note about it is written in the endpoint half of
  `ExportEndpoints` only (`endpoints.go:279`, `295`).
* Two certificates of one bundle under one default name are both announced for a
  node; ISE refuses the second for its name and it counts as skipped.
* A policy set that is deleted right after its POST, and made again by somebody else
  under the same name before the sets are listed, gets the bundle's rules, and no
  failure is counted: the id is looked up by name (`policy_sets.go:701-713`), not taken
  from the answer to the POST. README line 330 promises that the target's set "is
  never touched or merged into". `StrangersUntouched` excepts this set
  and no other.
* A root that is picked and also comes in the chain of a sub CA is announced twice. If
  the chain's entry is posted first, ISE refuses the root's own as a duplicate
  (`endpoints.go:1211-1214`), and its CRL settings and description are lost without a
  word, while README lines 191-193 say that CRL settings are restored or named.
  `IncompleteIsReported` excepts it (`TrustedTwin`).
* A picked system certificate that no node lists, or whose export without its key fails
  wherever it is listed (`certs.go:573-576`, `588-602`), is neither in the bundle nor
  in its notes. `CertificatesArrive` asks for the others.

## 4. Proofs

Every safety invariant and every action property of a passing run is a theorem,
for every value of the constants that satisfies the named assumptions. For most of
them the invariant of the run is not inductive; the strengthening stands in the
component's module, next to the property it serves, and TLC found no state of the
run's instance that violates it before it was proved.

### Assumptions

An assumption says what the deployment or Go's types give, never what an import does:

* sets of objects that a bundle carries are finite (`FiniteAssumption`,
  `SourceAssumption`, `PolicyAssumption`); bounds are natural numbers;
* a name is not an id that travels in its place, not a marker for "none", and
  not a name of another kind (`NamesAssumption`, `NoNameAssumption`,
  `DistinctAssumption`);
* ISE keeps names unique: a group and a profile on the source
  (`SourcesAssumption`), a tag value (`ValuesAssumption`), a domain's join point
  (`OneSourceJpPerDomain`), the names of sets, which the sort compares
  (`PolicyAssumption`);
* at the start nothing on the target comes from an import (`StartsAssumption` of
  `Certificates`); join points are not counted among the other objects
  (`StartsAssumption` and `ElementsBounds` of `PolicyElements`);
* certificates have strings for names and purposes of ISE's list
  (`ExportNamesAssumption`, `PurposesAssumption`);
* a group of network devices has a type and a root in its name, and a sequence
  refers to identity sources only (`ElementsAssumption`).

TLC evaluates all of them on the instances of section 3.

### Read pool and export

* `PoolNoHalfRead`, `PoolTypeOK`, `PoolImplementsFamilyRead` from
  `N \in Nat`, a non-empty set of workers and an error value that is no index.
  `NoHalfRead` is not inductive: it needs to know where every stub is. `PoolInv`
  says that a stub that was sent is stored, held by exactly one worker, or given
  up after a failure, and that a worker ends only after the channel was closed.
  When all workers are done none is held, so without a failure all are stored.
  The refinement maps the stored objects, `firstEr` and the return value.
* `ExportRunsPool`: a step of the export is a step of the pool or leaves it alone,
  so the three results above hold of the pool in its use (`ExportNoHalfRead`).
* `ExportBundleResolves` from `ExportInv`: once the pool has returned nothing
  changes `seen`, and both halves of the export take their names from it and from
  the same selection. What happens to the source cannot matter, and how often.
* `ExportNothingUntold` (`ExportedOrTold`) from `ToldInv`, with `PoolInv` and the
  types (`ExportTypesOK`): a group that was left alone had the name in `seen` when
  its GET was answered and still has it (`SeenInv`); when the pool returned without
  an error every stub was read, so each such group is in the bundle or noted
  (`GroupsTold`). An endpoint that was left alone sits in such a group
  (`StableInv`), and the listing took it as it is (`TakenInv`), so the filter either
  keeps it or writes the note.

### Endpoint import

* `ImportReferencesByName`: every endpoint the import made refers to the group
  and profile the bundle names. The strengthening `ResolvedByName` says the same
  of the name maps; it survives every change of the target because an id is
  never given to another object.
* `ImportCountsAddUp` from `PassInv`: during the passes what was counted and what
  is left make up the objects announced. Each attempt moves one object from the one
  to the other, whatever the answer, so at the end nothing is left, and skips and
  blocks are those of the same pre-flight.
* `ImportMissingIsReported` from `MissingInv`: without deletions what a map holds
  and what was skipped is there, and of the objects tried at most as many are
  missing as attempts failed. A create that is refused as a duplicate arrived
  before; one whose answer is lost counts as failed whether it arrived or not.
* `ImportRerunCreatesNothing` from `CleanInv`: while nothing fails and nobody else
  changes the target, each object the run has dealt with is settled: it is there,
  or it cannot be created for a reason that lasts. The listings of the next
  pre-flight then show exactly that.
* `ImportCreatesOnly` follows from the steps and the types: an id is new, and only
  what is left to do (`Left \subseteq Creates`) is posted.

### Policy sets

* `SetsStrangersUntouched`: the invariant `WriteInv` says that a set the import
  holds an id of, or will merge into, is Default, one of ours, or deleted since, unless
  the look-up by name was `mistaken`.
  Pre-flight gives "merge" only to a set it saw with the marker, and a failed
  listing shows no sets at all. `SetsNoTrafficChange` follows from the steps.
* `SetsOneCopyPerSet` from `CopyInv`: below a copy of ours every name is taken by
  somebody else, and so is every name below the one the import will use. The name
  an import picks is the least that is free, and none is picked when a set of ours
  comes before it (`FreeSuffixCorrect`); a set of ours under a higher name would
  contradict the invariant, since the name picked is free. A deletion opens a lower
  name, hence the premise.
* `SetsIncompleteIsReported` from `ReportedInv`: what a set that was written to
  lacks is still to be posted, unless a post failed or the set was deleted.
* `SetsOwnSetsComplete` from `RepairInv`: an undisturbed run creates every element
  the pre-flight counted on, and until then the conditions it lists are those that
  are there; so no rule of a set that was not blocked is refused, and a set of ours
  that lacks a rule is still to be merged or is being posted to.

### TrustSec

* `TrustSecCellsWhole`: every cell an import made is a cell of the source, with
  its groups and its whole list of SGACLs. `CellsWhole` needs `FaithfulBundle` (a
  reference that travels as a name is the source's, and none was dropped) and
  `ResolvedByName` (an id in `sgtIDs` or `sgaclIDs` belongs to that name, for
  good).
* `TrustSecMissingIsReported` from `ReportedInv`: what was announced is still to be
  done, there, or counted as failed, as long as nothing is deleted.
* `TrustSecVerdictsKept` from `KeptInv`: in an undisturbed run what is still to be
  created finds its tag value free (two groups of the source never share one) and
  its references on the target or in the bundle; the re-read of both listings
  happens when no group and no SGACL is left to do, so every name a cell refers to
  has an id by then.
* `TrustSecRerunCreatesNothing` from `SettledInv`: the reason an object was skipped
  stays true while the import creates the others, and what it created is a skip
  from then on.

### Policy elements

* `ElementsOneJoinPointPerDomain` from `DomainsInv`: a join point is announced
  when no other has its domain, and until the import ends only the announced one
  can turn up with it, as the later verdicts are about other kinds
  (`KindsDiffer`) and loading groups or joining changes no domain.
* `ElementsIncompleteIsReported` from `ReportedInv` and `CleanStart`: what was
  announced is still to do, on the target whole, or named.
* `ElementsVerdictsKept` from `KeptInv` and `KnownInv`: whatever a creatable object
  refers to is there, or is announced too and comes at an earlier turn. That it
  comes earlier is the order of `Rank`: what is tried now has the least rank of
  what is left (`TurnIsLeast`), so nothing it needs is left. For device groups the
  rank counts the levels, and `extractAncestors` names every level
  (`AncestorParents`).

### Certificates

* `CertificatesTrustKept` and `CertificatesStrangersUntouched` from
  `SettlingInv`: the look-up by name between the two requests for a trusted
  certificate finds the one just imported; only after a deletion can it be
  somebody else's of the same name. The PUT carries the trust purposes again, so
  even then the object an import made keeps them.
* `CertificatesIncompleteIsReported` from `ReportedInv`: what was announced is to
  do, told, or has reached the target. A post that ISE refuses as a duplicate
  counts as a skip. What it met is no half-finished copy of the same entry, since of
  what is still pending the target has nothing made from it (`FreshInv`): it is the
  certificate from somebody else or from another entry, or one of other content that
  holds its name. These are the exceptions the property names; in all other cases the
  entry is there with its CRL settings and its description. Between the two
  requests `FoundInv` keeps what is known of the object, and `MadeInv` that an
  import's certificate keeps the name and the content it was made with.

### Client

* `ClientWrittenOnce` and `ClientStaleNonceIsRenewed` from `NonceInv`: a write
  under way has no result and nothing of it was carried out, so what a send
  carries out is the first; and the second attempt has a fresh nonce unless
  something happened since the first, or the target gives none
  (`SecondIsFresh`), so a second refusal needs such an event.
* `ListingNothingPassedOver`: after `page` full pages the listing has read
  `(page - 1) * PageSize` names, and every object that was there from the
  beginning is among them or stands further back (`ListInv`). An insertion moves
  objects back, never forward (`InsertAtMoves`); the next page holds those up to
  its end (`PageNamesThem`); and the conditions that end a listing mean that
  nobody is behind that. When nothing changed, what was read is a prefix of the
  collection, and in the end all of it.
* `ClientTypeOK` needs two facts besides: a page beyond the guard is never asked
  for, and a write is tried at most twice (`Counted`).

The types of the other components are theorems as well (`ImportTypeOK`,
`SetsTypeOK`, `TrustSecTypeOK`, `ElementsTypeOK`, `CertificatesTypeOK`).

Only model-checked: liveness under fairness (`ExportEnds`, `EveryRunEnds`,
`EveryImportEnds` of `TrustSec` and `Client`, `MigrationCompletes`,
`CertificatesArrive`), which is outside what the prover supports, as is induction
over data; the models use no recursion. The five findings are counterexamples of
TLC.

## 5. Not modelled, and what is next

Next, in this order:

1. *Abstract specifications*: what an import promises (the target only grows, by
   what was announced, and the result accounts for it) stated once and refined by
   the imports of endpoints, policy sets and TrustSec, step by step, from the
   invariants of section 4.
2. *The rest of the export*: the policy sets and the rules that are missing from a
   bundle when their read fails, the families `handleExport` adds and their order,
   and the picker's count of the rules that use a group (`scanPolicyUsage`).
3. *Names like "X (imported)" in the bundle itself* (`policy_sets.go:922`), which
   `PolicySets` excludes.
4. *Composition*: `ApplyImport` over all families, where an error in one ends the
   later ones, and what the policy sets may count on of security groups.

Not modelled and not planned: `bundle.go` (encryption and JSON over bytes),
`translate.go` (a pure mapping of CSV columns with no state and no case that
depends on order), the parsing of certificates and ZIP archives, the probe of the
deployment's version, drift texts, logging, the rest of `index.html` (presentation),
`main.go` (flags, listener, browser).
