------------------------------ MODULE TrustSec ------------------------------
(***************************************************************************)
(* TrustSec: security groups (SGTs), SGACLs and egress matrix cells, from  *)
(* the export that turns a cell's ids into names to the imports that turn  *)
(* the names into the target's ids.                                        *)
(*                                                                         *)
(* A reference whose id the source would not resolve travels as the id     *)
(* itself, <<n>> here, and no name on the target equals it.                *)
(*                                                                         *)
(* Every request to the target is a step; somebody else may change the     *)
(* target between two of them, a request may fail, and the answer to a     *)
(* write that was carried out may be lost.                                 *)
(***************************************************************************)
EXTENDS Naturals, Sequences, FiniteSets

CONSTANTS
  Sgts,        \* names of security groups, on the source or the target
  Acls,        \* names of SGACLs
  Any,         \* the ANY group, which ISE hides from its own listing
  Values,      \* tag values
  SourceSgts,  \* the source's groups: name -> tag value
  SourceAcls,  \* the source's SGACLs
  SourceCells, \* the source's matrix: pair of groups -> list of SGACLs
  TwoRules,    \* the cells that also carry a catch-all rule
  MaxLate,     \* bound on source objects that appear while the export runs
  MaxObjs,     \* bound on the groups and SGACLs on the target at the start
  MaxEdits,    \* bound on changes to the target by somebody else
  MaxFaults,   \* bound on failed requests
  MaxRuns      \* bound on imports

Pairs == (Sgts \cup {Any}) \X (Sgts \cup {Any})
AnyPair == <<Any, Any>>

ASSUME NamesAssumption ==
  /\ Any \notin Sgts /\ Sgts \cap Acls = {} /\ Any \notin Acls
  /\ \A n \in Sgts \cup Acls \cup {Any} : <<n>> \notin Sgts \cup Acls \cup {Any}
  /\ Pairs \cap (Sgts \cup Acls) = {}
ASSUME SourceAssumption ==
  /\ DOMAIN SourceSgts \subseteq Sgts
  /\ \A s \in DOMAIN SourceSgts : SourceSgts[s] \in Values
  /\ SourceAcls \subseteq Acls
  /\ DOMAIN SourceCells \subseteq Pairs
  /\ \A p \in DOMAIN SourceCells : SourceCells[p] \in Seq(SourceAcls)
  /\ TwoRules \subseteq DOMAIN SourceCells
  /\ \A S \in {DOMAIN SourceSgts, SourceAcls, DOMAIN SourceCells} : IsFiniteSet(S)
\* The source is a deployment too, and ISE gives a tag value to one group.
ASSUME ValuesAssumption ==
  \A s, t \in DOMAIN SourceSgts : SourceSgts[s] = SourceSgts[t] => s = t
ASSUME TrustSecBounds == {MaxLate, MaxObjs, MaxEdits, MaxFaults, MaxRuns} \subseteq Nat

VARIABLES
  objs,        \* every group and SGACL the target ever created, by id
  live,        \* the ids that still exist
  cells,       \* the target's matrix: pair of ids -> list of SGACL ids
  multi,       \* the target allows multiple SGACLs per cell
  bundle,      \* what the export wrote
  phase,       \* the next step
  seenSgts,    \* targetSGTs: ids of the groups pre-flight read
  seenAcls,    \* targetSGACLs: ids of the SGACLs pre-flight read
  verdict,     \* the report: item -> "create" or "skip"
  todo,        \* items that are still to be created
  sgtIDs,      \* sgtIDs, name -> id
  aclIDs,      \* sgaclIDs, name -> id
  made,        \* cells on the target that this tool created
  res,         \* ImportResult
  quiet,       \* since the import began no request failed and nobody else
               \* changed the target
  deleted,     \* since the import began somebody deleted something
  edits, faults, runs

target == <<objs, live, cells, multi>>
tool == <<bundle, phase, seenSgts, seenAcls, verdict, todo, sgtIDs, aclIDs>>
vars == <<target, tool, made, res, quiet, deleted, edits, faults, runs>>

NoId == 0
ZeroResult == [created |-> 0, skipped |-> 0, failed |-> 0]
AnyId == 0      \* the id of ANY, which is the same on every deployment

Object == [kind : {"sgt"}, name : Sgts, value : Values] \cup [kind : {"sgacl"}, name : Acls]

SgtsOn(ids) == {i \in ids : objs[i].kind = "sgt"}
AclsOn(ids) == {i \in ids : objs[i].kind = "sgacl"}
NamesOf(ids) == {objs[i].name : i \in ids}

\* Mutation: the map gives back the name in place of the id.
IdInRaw(ids, n) == IF \E i \in ids : objs[i].name = n THEN n ELSE NoId

\* stubsByName: a name's object in a listing, NoId if there is none.
IdIn(ids, n) == IF \E i \in ids : objs[i].name = n
                THEN CHOOSE i \in ids : objs[i].name = n ELSE NoId

SgtName(i) == IF i = AnyId THEN Any ELSE objs[i].name
PairName(c) == <<SgtName(c[1]), SgtName(c[2])>>

Extend(f, x, v) == [y \in DOMAIN f \cup {x} |-> IF y = x THEN v ELSE f[y]]

-----------------------------------------------------------------------------
(* Export                                                                  *)

\* A cell's references as they travel.
Carried(n, unresolved) == IF n \in unresolved THEN <<n>> ELSE n

\* Mutation: an SGACL that does not resolve is left out of the list.
CarriedCellShort(p, unresolved) ==
  [src |-> Carried(p[1], unresolved), dst |-> Carried(p[2], unresolved),
   acls |-> SelectSeq(SourceCells[p], LAMBDA a : a \notin unresolved)]

CarriedCell(p, unresolved) ==
  [src |-> Carried(p[1], unresolved), dst |-> Carried(p[2], unresolved),
   acls |-> [i \in 1..Len(SourceCells[p]) |-> Carried(SourceCells[p][i], unresolved)]]

\* Groups and SGACLs that appear after they were listed are not in the bundle
\* but the cells read later refer to them.  The resolver GETs such an id, and
\* that of ANY, one by one; when the GET fails the id is carried.
Export ==
  /\ phase = "export"
  /\ phase' = "idle"
  /\ \E late \in SUBSET (DOMAIN SourceSgts \cup SourceAcls) :
       /\ Cardinality(late) <= MaxLate
       /\ \E unresolved \in SUBSET (late \cup {Any}) :
            bundle' = [sgts |-> DOMAIN SourceSgts \ late, acls |-> SourceAcls \ late,
                       cells |-> [p \in DOMAIN SourceCells |-> CarriedCell(p, unresolved)]]
  /\ UNCHANGED <<target, seenSgts, seenAcls, verdict, todo, sgtIDs, aclIDs, made, res,
                 quiet, deleted, edits, faults, runs>>

-----------------------------------------------------------------------------
(* The target deployment                                                   *)

Mint(o) ==
  /\ objs' = Append(objs, o)
  /\ live' = live \cup {Len(objs) + 1}

SgtObject(s, v) == [kind |-> "sgt", name |-> s, value |-> v]
AclObject(a) == [kind |-> "sgacl", name |-> a]

SgtNameTaken(s) == s \in NamesOf(SgtsOn(live))
ValueTaken(v) == \E i \in SgtsOn(live) : objs[i].value = v
AclNameTaken(a) == a \in NamesOf(AclsOn(live))

Edit ==
  /\ edits < MaxEdits
  /\ edits' = edits + 1
  /\ quiet' = FALSE
  /\ UNCHANGED <<multi, tool, res, faults, runs>>

AdminAddsSgt(s, v) ==
  /\ Edit
  /\ ~SgtNameTaken(s) /\ ~ValueTaken(v)
  /\ Mint(SgtObject(s, v))
  /\ UNCHANGED <<cells, made, deleted>>

AdminAddsAcl(a) ==
  /\ Edit
  /\ ~AclNameTaken(a)
  /\ Mint(AclObject(a))
  /\ UNCHANGED <<cells, made, deleted>>

AdminAddsCell(c) ==
  /\ Edit
  /\ c \notin DOMAIN cells
  /\ cells' = Extend(cells, c, <<>>)
  /\ UNCHANGED <<objs, live, made, deleted>>

\* Only an object that no cell refers to can be deleted.
AdminDeletes(i) ==
  /\ Edit
  /\ \A c \in DOMAIN cells : i \notin {c[1], c[2]} /\ \A k \in DOMAIN cells[c] : cells[c][k] # i
  /\ live' = live \ {i}
  /\ deleted' = TRUE
  /\ UNCHANGED <<objs, cells, made>>

AdminDeletesCell(c) ==
  /\ Edit
  /\ cells' = [d \in DOMAIN cells \ {c} |-> cells[d]]
  /\ made' = made \ {c}
  /\ deleted' = TRUE
  /\ UNCHANGED <<objs, live>>

Admin ==
  \/ \E s \in Sgts, v \in Values : AdminAddsSgt(s, v)
  \/ \E a \in Acls : AdminAddsAcl(a)
  \/ \E i \in SgtsOn(live), j \in SgtsOn(live) : AdminAddsCell(<<i, j>>)
  \/ \E i \in live : AdminDeletes(i)
  \/ \E c \in DOMAIN cells \ {<<AnyId, AnyId>>} : AdminDeletesCell(c)

-----------------------------------------------------------------------------
(* Pre-flight                                                              *)

Fault == faults < MaxFaults /\ faults' = faults + 1 /\ quiet' = FALSE
NoFault == UNCHANGED <<faults, quiet>>

Reading == UNCHANGED <<target, bundle, sgtIDs, aclIDs, made, deleted, edits, runs>>

ApplyRequest ==
  /\ phase \in {"idle", "done", "aborted"}
  /\ runs < MaxRuns
  /\ runs' = runs + 1
  /\ phase' = "listSgts"
  /\ verdict' = <<>> /\ todo' = {} /\ sgtIDs' = <<>> /\ aclIDs' = <<>>
  /\ res' = ZeroResult /\ quiet' = TRUE /\ deleted' = FALSE
  /\ UNCHANGED <<target, bundle, seenSgts, seenAcls, made, edits, faults>>

\* A listing that fails is read as empty.
ListSgts ==
  /\ phase = "listSgts"
  /\ phase' = "listAcls"
  /\ \/ seenSgts' = SgtsOn(live) /\ NoFault
     \/ seenSgts' = {} /\ Fault
  /\ Reading
  /\ UNCHANGED <<seenAcls, verdict, todo, res>>

ListAcls ==
  /\ phase = "listAcls"
  /\ phase' = "listCells"
  /\ \/ seenAcls' = AclsOn(live) /\ NoFault
     \/ seenAcls' = {} /\ Fault
  /\ Reading
  /\ UNCHANGED <<seenSgts, verdict, todo, res>>

Items == bundle.sgts \cup bundle.acls \cup DOMAIN bundle.cells

\* Mutation: the tag value is not compared.
SgtVerdictByName(s, sgts) == IF s \in NamesOf(sgts) THEN "skip" ELSE "create"

\* An SGT whose tag value another group holds is left out.
SgtVerdict(s, sgts) ==
  IF \/ \E i \in sgts : objs[i].value = SourceSgts[s] /\ objs[i].name # s
     \/ s \in NamesOf(sgts)
  THEN "skip" ELSE "create"

WillExistSgts(sgts) == NamesOf(sgts) \cup {s \in bundle.sgts : SgtVerdict(s, sgts) = "create"}
WillExistAcls(acls) == NamesOf(acls) \cup bundle.acls

CellBlocked(cell, sgts, acls) ==
  \/ cell.src \notin WillExistSgts(sgts) \/ cell.dst \notin WillExistSgts(sgts)
  \/ \E k \in 1..Len(cell.acls) : cell.acls[k] \notin WillExistAcls(acls)

\* Mutation: the target's cells are looked up by the bundle's cell name.
HeldPairsByCellName(unresolved) == {}

\* The target's cells by the names of their two groups; a group that was not
\* in the listing is read by id, and that may fail.
HeldPairs(unresolved) ==
  {PairName(c) : c \in {d \in DOMAIN cells : {d[1], d[2]} \cap unresolved = {}}}

CellVerdict(p, sgts, acls, held) ==
  LET cell == bundle.cells[p] IN
  IF \/ <<cell.src, cell.dst>> = AnyPair
     \/ CellBlocked(cell, sgts, acls)
     \/ <<cell.src, cell.dst>> \in held
  THEN "skip" ELSE "create"

Verdicts(sgts, acls, held) ==
  [x \in Items |-> CASE x \in bundle.sgts -> SgtVerdict(x, sgts)
                     [] x \in bundle.acls -> IF x \in NamesOf(acls) THEN "skip" ELSE "create"
                     [] OTHER             -> CellVerdict(x, sgts, acls, held)]

Creates == {x \in DOMAIN verdict : verdict[x] = "create"}

\* The last reads of pre-flight and the report; handleApply ends here when
\* there is nothing to create.
ListCells ==
  /\ phase = "listCells"
  /\ \E held \in {HeldPairs({})} \cup {HeldPairs({i}) : i \in ({AnyId} \cup live) \ seenSgts} \cup {{}} :
       /\ \/ held = HeldPairs({}) /\ NoFault
          \/ held # HeldPairs({}) /\ Fault
       /\ verdict' = Verdicts(seenSgts, seenAcls, held)
  /\ todo' = {x \in Items : verdict'[x] = "create"}
  /\ \/ todo' = {} /\ phase' = "done"
        /\ res' = [res EXCEPT !.skipped = Cardinality(Items)]
     \/ todo' # {} /\ phase' = "apply" /\ UNCHANGED res
  /\ seenSgts' = {} /\ seenAcls' = {}
  /\ Reading

-----------------------------------------------------------------------------
(* applyTrustSec                                                           *)

Writing == UNCHANGED <<multi, bundle, seenSgts, seenAcls, verdict, sgtIDs, aclIDs,
                       deleted, edits, runs>>

Counted(field) == res' = [res EXCEPT ![field] = @ + 1]

Created == Counted("created") /\ NoFault
Skipped == Counted("skipped") /\ NoFault
Refused == Counted("failed") /\ NoFault
Lost == Counted("failed") /\ Fault

\* Within a kind the objects are tried in a fixed order.
First(kind) == CHOOSE x \in todo \cap kind : TRUE

\* Groups go first, then the SGACLs.
CreateSgt(s) ==
  /\ phase = "apply" /\ s \in todo /\ s = First(Sgts)
  /\ todo' = todo \ {s}
  /\ Writing
  /\ UNCHANGED <<phase, cells, made>>
  /\ \/ /\ ~SgtNameTaken(s) /\ ~ValueTaken(SourceSgts[s])
        /\ Mint(SgtObject(s, SourceSgts[s]))
        /\ Created \/ Lost
     \/ /\ \/ SgtNameTaken(s) /\ Skipped
           \/ ~SgtNameTaken(s) /\ ValueTaken(SourceSgts[s]) /\ Refused
           \/ Lost
        /\ UNCHANGED <<objs, live>>

\* Mutation: isDuplicate matches every refusal.
CreateAclAnyErrorIsDuplicate(a) ==
  /\ phase = "apply" /\ a \in todo /\ todo \cap Sgts = {} /\ a = First(Acls)
  /\ todo' = todo \ {a}
  /\ Writing
  /\ UNCHANGED <<phase, cells, made>>
  /\ \/ /\ ~AclNameTaken(a)
        /\ Mint(AclObject(a))
        /\ Created \/ Lost
     \/ /\ \/ AclNameTaken(a) /\ Skipped
           \/ Counted("skipped") /\ Fault
        /\ UNCHANGED <<objs, live>>

CreateAcl(a) ==
  /\ phase = "apply" /\ a \in todo /\ todo \cap Sgts = {} /\ a = First(Acls)
  /\ todo' = todo \ {a}
  /\ Writing
  /\ UNCHANGED <<phase, cells, made>>
  /\ \/ /\ ~AclNameTaken(a)
        /\ Mint(AclObject(a))
        /\ Created \/ Lost
     \/ /\ \/ AclNameTaken(a) /\ Skipped
           \/ Lost
        /\ UNCHANGED <<objs, live>>

\* The first cell makes the tool read both collections again.
ReadSgtIDs ==
  /\ phase = "apply" /\ todo # {} /\ todo \cap (Sgts \cup Acls) = {}
  /\ sgtIDs' = [s \in Sgts |-> IdIn(SgtsOn(live), s)]
  /\ phase' = "readAcls"
  /\ UNCHANGED <<target, bundle, seenSgts, seenAcls, verdict, todo, aclIDs, made, res,
                 quiet, deleted, edits, faults, runs>>

ReadAclIDs ==
  /\ phase = "readAcls"
  /\ aclIDs' = [a \in Acls |-> IdIn(AclsOn(live), a)]
  /\ phase' = "cells"
  /\ UNCHANGED <<target, bundle, seenSgts, seenAcls, verdict, todo, sgtIDs, made, res,
                 quiet, deleted, edits, faults, runs>>

\* A failed re-read ends the import, the later families included.
ReadIDsFails ==
  /\ \/ phase = "apply" /\ todo # {} /\ todo \cap (Sgts \cup Acls) = {}
     \/ phase = "readAcls"
  /\ Fault
  /\ phase' = "aborted"
  /\ UNCHANGED <<target, bundle, seenSgts, seenAcls, verdict, todo, sgtIDs, aclIDs, made,
                 res, deleted, edits, runs>>

SgtResolves(n) == n \in Sgts /\ sgtIDs[n] # NoId
AclResolves(n) == n \in Acls /\ aclIDs[n] # NoId

\* resolveCellRefs: any name that does not resolve fails the whole cell.
ResolveCellRefs(cell) ==
  /\ SgtResolves(cell.src) /\ SgtResolves(cell.dst)
  /\ \A k \in 1..Len(cell.acls) : AclResolves(cell.acls[k])

CellIds(cell) == <<sgtIDs[cell.src], sgtIDs[cell.dst]>>
CellAcls(cell) == [k \in 1..Len(cell.acls) |-> aclIDs[cell.acls[k]]]

\* The target wants the objects a cell refers to and, for two rules in one
\* cell, its global setting.
Accepted(p, cell) ==
  /\ {CellIds(cell)[1], CellIds(cell)[2]} \subseteq live
  /\ \A k \in 1..Len(cell.acls) : CellAcls(cell)[k] \in live
  /\ p \in TwoRules => multi

CreateCell(p) ==
  /\ phase = "cells" /\ p \in todo /\ p = First(Pairs)
  /\ todo' = todo \ {p}
  /\ Writing
  /\ UNCHANGED <<phase, objs, live>>
  /\ LET cell == bundle.cells[p]
         sent == ResolveCellRefs(cell)
     IN \/ /\ sent
           /\ CellIds(cell) \notin DOMAIN cells
           /\ Accepted(p, cell)
           /\ cells' = Extend(cells, CellIds(cell), CellAcls(cell))
           /\ made' = made \cup {CellIds(cell)}
           /\ Created \/ Lost
        \/ /\ \/ ~sent /\ Refused
              \/ sent /\ CellIds(cell) \in DOMAIN cells /\ Skipped
              \/ sent /\ CellIds(cell) \notin DOMAIN cells /\ ~Accepted(p, cell) /\ Refused
              \/ sent /\ Lost
           /\ UNCHANGED <<cells, made>>

Skips == {x \in DOMAIN verdict : verdict[x] = "skip"}

\* applyTrustSec counts the objects pre-flight skipped, and handleApply adds
\* the report's count of them.
Total == [res EXCEPT !.skipped = @ + Cardinality(Skips) + Cardinality(Skips)]

\* Mutation: an import with a failure is not answered.
FinishWithoutFailures ==
  /\ phase \in {"apply", "cells"} /\ todo = {} /\ res.failed = 0
  /\ phase' = "done"
  /\ res' = Total
  /\ Reading
  /\ UNCHANGED <<seenSgts, seenAcls, verdict, todo, quiet, faults>>

Finish ==
  /\ phase \in {"apply", "cells"} /\ todo = {}
  /\ phase' = "done"
  /\ res' = Total
  /\ Reading
  /\ UNCHANGED <<seenSgts, seenAcls, verdict, todo, quiet, faults>>

-----------------------------------------------------------------------------
Handler ==
  \/ ListSgts \/ ListAcls \/ ListCells
  \/ \E s \in Sgts : CreateSgt(s)
  \/ \E a \in Acls : CreateAcl(a)
  \/ ReadSgtIDs \/ ReadAclIDs \/ ReadIDsFails
  \/ \E p \in Pairs : CreateCell(p)
  \/ Finish

Next == Export \/ ApplyRequest \/ Handler \/ Admin

NoBundle == [sgts |-> {}, acls |-> {}, cells |-> <<>>]

Init ==
  /\ \E n \in 0..MaxObjs :
       /\ objs \in {q \in [1..n -> Object] :
                      \A i, j \in 1..n : i # j =>
                         /\ q[i].name # q[j].name
                         /\ q[i].kind = "sgt" /\ q[j].kind = "sgt" => q[i].value # q[j].value}
       /\ live = 1..n
  /\ cells = [c \in {<<AnyId, AnyId>>} |-> <<>>]
  /\ multi \in BOOLEAN
  /\ bundle = NoBundle /\ phase = "export"
  /\ seenSgts = {} /\ seenAcls = {} /\ verdict = <<>> /\ todo = {}
  /\ sgtIDs = <<>> /\ aclIDs = <<>>
  /\ made = {} /\ res = ZeroResult /\ quiet = FALSE /\ deleted = FALSE
  /\ edits = 0 /\ faults = 0 /\ runs = 0

Spec == Init /\ [][Next]_vars

\* A request that was started runs to its end: every call is bounded by the
\* client's timeout.
FairSpec == Spec /\ WF_vars(Handler)

-----------------------------------------------------------------------------
Ids == {NoId} \cup DOMAIN objs
Refs(S) == S \cup {<<n>> : n \in S}
CellType == [src : Refs(Sgts \cup {Any}), dst : Refs(Sgts \cup {Any}), acls : Seq(Refs(Acls))]

(* Types of the target's state.                                            *)
TargetTypeOK ==
  /\ objs \in Seq(Object)
  /\ live \subseteq DOMAIN objs
  /\ DOMAIN cells \subseteq Ids \X Ids
  /\ \A c \in DOMAIN cells : cells[c] \in Seq(Ids)
  /\ made \subseteq DOMAIN cells

(* Types of the variables.                                                 *)
TypeOK ==
  /\ TargetTypeOK
  /\ multi \in BOOLEAN
  /\ bundle.sgts \subseteq DOMAIN SourceSgts /\ bundle.acls \subseteq SourceAcls
  /\ \A p \in DOMAIN bundle.cells : p \in DOMAIN SourceCells /\ bundle.cells[p] \in CellType
  /\ phase \in {"export", "idle", "listSgts", "listAcls", "listCells", "apply", "readAcls",
                "cells", "done", "aborted"}
  /\ seenSgts \subseteq DOMAIN objs /\ seenAcls \subseteq DOMAIN objs
  /\ \A x \in DOMAIN verdict : x \in Items /\ verdict[x] \in {"create", "skip"}
  /\ todo \subseteq Creates
  /\ sgtIDs \in [Sgts -> Ids] \cup {<<>>} /\ aclIDs \in [Acls -> Ids] \cup {<<>>}
  /\ {quiet, deleted} \subseteq BOOLEAN
  /\ res \in [created : Nat, skipped : Nat, failed : Nat]
  /\ edits \in 0..MaxEdits /\ faults \in 0..MaxFaults /\ runs \in 0..MaxRuns

(* A cell is written whole or not at all: each cell the import made stands *)
(* for a cell of the source, between groups of the same names and with the *)
(* same SGACLs in the same order, whatever the export could not resolve    *)
(* and whoever changed the target meanwhile (cellBlocked, resolveCellRefs).*)
CellsWhole ==
  \A c \in made :
    /\ PairName(c) \in DOMAIN SourceCells
    /\ Len(cells[c]) = Len(SourceCells[PairName(c)])
    /\ \A k \in 1..Len(cells[c]) :
          cells[c][k] # NoId /\ objs[cells[c][k]] = AclObject(SourceCells[PairName(c)][k])

\* Whether the target has what an item of the bundle describes.
OnTarget(x) ==
  CASE x \in bundle.sgts -> SgtNameTaken(x)
    [] x \in bundle.acls -> AclNameTaken(x)
    [] OTHER -> <<bundle.cells[x].src, bundle.cells[x].dst>> \in {PairName(c) : c \in DOMAIN cells}

(* What pre-flight announced is carried out when nothing fails and nobody  *)
(* interferes; the one exception is the cell with two rules, whose refusal *)
(* pre-flight warns of. Policy sets rely on it: sgtNamesAfterThisRun lets  *)
(* their rules name the groups announced here.                             *)
VerdictsKept ==
  phase = "done" /\ quiet =>
    \A x \in Creates : OnTarget(x) \/ (x \in TwoRules /\ ~multi)

(* An object that was to be created and is missing after the import is     *)
(* accounted for: the import reported a failure, or somebody deleted       *)
(* something while it ran.                                                 *)
MissingIsReported ==
  phase = "done" /\ (\E x \in Creates : ~OnTarget(x)) => res.failed # 0 \/ deleted

(* After an import without failures a second one finds nothing to create.  *)
RerunCreatesNothing ==
  phase = "done" /\ quiet /\ res.failed = 0 =>
    \A x \in Items : Verdicts(SgtsOn(live), AclsOn(live), HeldPairs({}))[x] = "skip"

-----------------------------------------------------------------------------
(* Inductive strengthenings.                                               *)

\* The names on the target, now or when what is left to create is created.
SgtNames == NamesOf(SgtsOn(live)) \cup (todo \cap bundle.sgts)
AclNames == NamesOf(AclsOn(live)) \cup (todo \cap bundle.acls)

\* Whether every name of a cell is or will be on the target.
Backed(cell) ==
  /\ cell.src \in SgtNames /\ cell.dst \in SgtNames
  /\ \A k \in 1..Len(cell.acls) : cell.acls[k] \in AclNames

BundlePair(p) == <<bundle.cells[p].src, bundle.cells[p].dst>>
Applying == phase \in {"apply", "readAcls", "cells", "done"}

(* For MissingIsReported: what was announced is still to be done, done,    *)
(* counted as failed, or may have been deleted.                            *)
ReportedInv ==
  /\ phase = "export" => verdict = <<>> /\ todo = {}
  /\ phase = "done" => todo = {}
  /\ \A x \in Creates : x \in todo \/ res.failed # 0 \/ deleted \/ OnTarget(x)

(* For VerdictsKept: in a run that nothing disturbs, what is still to be   *)
(* created finds its tag value free and its references on the target, and  *)
(* the ids that were read again are those of objects that exist.           *)
Announced ==
  /\ \A s \in todo \cap bundle.sgts : ~ValueTaken(SourceSgts[s])
  /\ \A p \in todo \cap DOMAIN bundle.cells : Backed(bundle.cells[p])
  /\ \A x \in Creates : x \in todo \/ OnTarget(x) \/ (x \in TwoRules /\ ~multi)

KeptInv ==
  quiet =>
    /\ phase \in {"listAcls", "listCells"} => seenSgts = SgtsOn(live)
    /\ phase = "listCells" => seenAcls = AclsOn(live)
    /\ Applying => Announced
    /\ phase \in {"readAcls", "cells"} =>
         /\ todo \cap (Sgts \cup Acls) = {}
         /\ \A s \in NamesOf(SgtsOn(live)) : sgtIDs[s] \in live
    /\ phase = "cells" => \A a \in NamesOf(AclsOn(live)) : aclIDs[a] \in live

(* For RerunCreatesNothing: the reason an object was skipped stays true    *)
(* while the import creates the others.                                    *)
Settled ==
  /\ DOMAIN verdict = Items
  /\ \A s \in Skips \cap bundle.sgts : SgtNameTaken(s) \/ ValueTaken(SourceSgts[s])
  /\ \A a \in Skips \cap bundle.acls : AclNameTaken(a)
  /\ \A p \in Skips \cap DOMAIN bundle.cells :
        BundlePair(p) = AnyPair \/ OnTarget(p) \/ ~Backed(bundle.cells[p])

SettledInv == quiet => ~deleted /\ (Applying => Settled)

(* An import that was started ends.                                        *)
EveryImportEnds == phase \in {"listSgts", "apply"} ~> phase \in {"done", "aborted"}

(* The result is the counterpart of the report: once an import has ended,  *)
(* every object of the bundle is counted once (ImportResult).              *)
CountedOnce ==
  phase = "done" => res.created + res.skipped + res.failed = Cardinality(Items)
=============================================================================
