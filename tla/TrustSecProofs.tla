--------------------------- MODULE TrustSecProofs ---------------------------
(***************************************************************************)
(* Proofs about export and import of security groups, SGACLs and matrix    *)
(* cells, for every source, every target and any number of imports, edits  *)
(* and faults.                                                             *)
(*                                                                         *)
(* First, cells are written whole.  CellsWhole needs two facts about what  *)
(* the last step works with.  FaithfulBundle: a reference that travels as a*)
(* name is the source's, and no reference was dropped.  ResolvedByName: an *)
(* id in sgtIDs or sgaclIDs is that of an object of the name, for good, as *)
(* ids are never reused.                                                   *)
(*                                                                         *)
(* Then the types, and what an import tells of its work: what is missing   *)
(* was counted (ReportedInv), what was announced is written unless         *)
(* somebody interferes (KeptInv), and a repetition on a settled target     *)
(* creates nothing (SettledInv).                                           *)
(***************************************************************************)
EXTENDS TrustSec, FiniteSetTheorems, TLAPS

FaithfulCell(p, cell) ==
  /\ cell.src \in Sgts => cell.src = p[1]
  /\ cell.dst \in Sgts => cell.dst = p[2]
  /\ Len(cell.acls) = Len(SourceCells[p])
  /\ \A k \in 1..Len(cell.acls) : cell.acls[k] \in Acls => cell.acls[k] = SourceCells[p][k]

FaithfulBundle ==
  /\ bundle.sgts \subseteq DOMAIN SourceSgts /\ bundle.acls \subseteq Acls
  /\ \A p \in DOMAIN bundle.cells : p \in DOMAIN SourceCells /\ FaithfulCell(p, bundle.cells[p])
  /\ todo \subseteq Items

ResolvedByName ==
  /\ phase \in {"readAcls", "cells"} =>
       \A s \in Sgts : sgtIDs[s] \in Ids /\ (sgtIDs[s] # NoId => objs[sgtIDs[s]].name = s)
  /\ phase = "cells" =>
       \A a \in Acls : aclIDs[a] \in Ids /\ (aclIDs[a] # NoId => objs[aclIDs[a]] = AclObject(a))

TSInv == TargetTypeOK /\ FaithfulBundle /\ ResolvedByName /\ CellsWhole

(* stubsByName gives an id of the listing whose object has the name.       *)
LEMMA IdInCorrect ==
  ASSUME NEW ids, NEW n, ids \subseteq DOMAIN objs
  PROVE  /\ IdIn(ids, n) \in Ids
         /\ IdIn(ids, n) # NoId => IdIn(ids, n) \in ids /\ objs[IdIn(ids, n)].name = n
<1>1. CASE \E i \in ids : objs[i].name = n
  <2> DEFINE j == CHOOSE i \in ids : objs[i].name = n
  <2>1. j \in ids /\ objs[j].name = n
    BY <1>1
  <2>2. IdIn(ids, n) = j
    BY <1>1 DEF IdIn
  <2>3. QED
    BY <2>1, <2>2 DEF Ids
<1>2. CASE ~\E i \in ids : objs[i].name = n
  BY <1>2 DEF IdIn, Ids
<1>3. QED
  BY <1>1, <1>2

(* An object of kind sgacl is determined by its name.                      *)
LEMMA AclByName ==
  ASSUME NEW o \in Object, o.kind = "sgacl"
  PROVE  o = AclObject(o.name)
  BY DEF Object, AclObject

(* What the export writes for a cell.                                      *)
LEMMA CarriedFaithful ==
  ASSUME NEW p \in DOMAIN SourceCells, NEW unresolved
  PROVE  FaithfulCell(p, CarriedCell(p, unresolved))
<1>1. SourceCells[p] \in Seq(SourceAcls) /\ p \in Pairs
  BY SourceAssumption
<1>2. /\ p[1] \in Sgts \cup {Any} /\ p[2] \in Sgts \cup {Any}
      /\ Len(SourceCells[p]) \in Nat
      /\ \A k \in 1..Len(SourceCells[p]) : SourceCells[p][k] \in Acls
  BY <1>1, SourceAssumption DEF Pairs
<1>3. \A n \in Sgts \cup Acls \cup {Any} :
         /\ Carried(n, unresolved) \in Sgts => Carried(n, unresolved) = n
         /\ Carried(n, unresolved) \in Acls => Carried(n, unresolved) = n
  BY NamesAssumption DEF Carried
<1> DEFINE acls == [i \in 1..Len(SourceCells[p]) |-> Carried(SourceCells[p][i], unresolved)]
<1>4. /\ Len(acls) = Len(SourceCells[p])
      /\ \A k \in 1..Len(acls) : acls[k] = Carried(SourceCells[p][k], unresolved)
  BY <1>2
<1>5. /\ CarriedCell(p, unresolved).src = Carried(p[1], unresolved)
      /\ CarriedCell(p, unresolved).dst = Carried(p[2], unresolved)
      /\ CarriedCell(p, unresolved).acls = acls
  BY DEF CarriedCell
<1> HIDE DEF acls
<1>6. QED
  BY <1>2, <1>3, <1>4, <1>5 DEF FaithfulCell

(* A new object leaves what was said of the older ones alone.              *)
LEMMA MintKeepsInv ==
  ASSUME TSInv, NEW o \in Object, Mint(o), todo' \subseteq todo,
         UNCHANGED <<cells, made, bundle, sgtIDs, aclIDs, phase>>
  PROVE  TSInv'
<1>1. /\ objs' \in Seq(Object)
      /\ DOMAIN objs \subseteq DOMAIN objs' /\ 0 \notin DOMAIN objs
      /\ Len(objs) + 1 \in DOMAIN objs'
      /\ \A i \in DOMAIN objs : objs'[i] = objs[i]
  BY DEF TSInv, TargetTypeOK, Mint
<1>2. Ids \subseteq Ids'
  BY <1>1 DEF Ids
<1>3. TargetTypeOK'
  <2>1. \A c \in DOMAIN cells' : cells'[c] \in Seq(Ids')
    BY <1>2 DEF TSInv, TargetTypeOK
  <2>2. QED
    BY <1>1, <1>2, <2>1 DEF TSInv, TargetTypeOK, Mint
<1>4. FaithfulBundle'
  BY DEF TSInv, FaithfulBundle, FaithfulCell, Items
<1>5. ResolvedByName'
  BY <1>1, <1>2 DEF TSInv, ResolvedByName, Ids, NoId
<1>6. CellsWhole'
  <2> SUFFICES ASSUME NEW c \in made
               PROVE  /\ PairName(c)' \in DOMAIN SourceCells
                      /\ Len(cells[c]) = Len(SourceCells[PairName(c)'])
                      /\ \A k \in 1..Len(cells[c]) :
                           /\ cells[c][k] # NoId
                           /\ objs'[cells[c][k]] = AclObject(SourceCells[PairName(c)'][k])
    BY DEF CellsWhole, AclObject
  <2>1. c[1] \in Ids /\ c[2] \in Ids /\ cells[c] \in Seq(Ids)
    BY DEF TSInv, TargetTypeOK
  <2>2. PairName(c)' = PairName(c)
    BY <1>1, <2>1 DEF PairName, SgtName, Ids, AnyId, NoId
  <2>3. \A k \in 1..Len(cells[c]) : cells[c][k] \in Ids
    BY <2>1
  <2>4. QED
    BY <1>1, <2>2, <2>3 DEF TSInv, CellsWhole, Ids
<1>7. QED
  BY <1>3, <1>4, <1>5, <1>6 DEF TSInv

(* A step that leaves the target's objects, the matrix and the bundle      *)
(* alone and does not go on to the cells.                                  *)
LEMMA FrameKeepsInv ==
  ASSUME TSInv, todo' \subseteq Items,
         UNCHANGED <<objs, cells, made, bundle>>, live' \subseteq live,
         \/ UNCHANGED <<sgtIDs, aclIDs, phase>>
         \/ phase' \notin {"readAcls", "cells"}
  PROVE  TSInv'
<1>1. TargetTypeOK' /\ FaithfulBundle' /\ CellsWhole'
  BY DEF TSInv, TargetTypeOK, FaithfulBundle, FaithfulCell, Items, CellsWhole, PairName,
         SgtName, Ids, AclObject
<1>2. ResolvedByName'
  BY DEF TSInv, ResolvedByName, Ids, AclObject
<1>3. QED
  BY <1>1, <1>2 DEF TSInv

(* Before the export there is nothing to be true of.                       *)
LEMMA TSInit == Init => TSInv
<1> SUFFICES ASSUME Init PROVE TSInv
  OBVIOUS
<1>1. PICK n \in 0..MaxObjs : objs \in [1..n -> Object] /\ live = 1..n
  BY DEF Init
<1>2. objs \in Seq(Object) /\ live \subseteq DOMAIN objs
  BY <1>1, TrustSecBounds
<1>3. TargetTypeOK
  BY <1>2 DEF Init, TargetTypeOK, Ids, NoId, AnyId
<1>4. QED
  BY <1>3 DEF Init, TSInv, FaithfulBundle, NoBundle, ResolvedByName, CellsWhole

(* The export preserves the invariant: there is no work left over from an  *)
(* earlier bundle.                                                         *)
LEMMA ExportKeepsInv == TSInv /\ todo = {} /\ Export => TSInv'
<1> SUFFICES ASSUME TSInv, todo = {}, Export PROVE TSInv'
  OBVIOUS
<1>1. PICK late \in SUBSET (DOMAIN SourceSgts \cup SourceAcls) :
         \E unresolved \in SUBSET (late \cup {Any}) :
         bundle' = [sgts |-> DOMAIN SourceSgts \ late, acls |-> SourceAcls \ late,
                    cells |-> [p \in DOMAIN SourceCells |-> CarriedCell(p, unresolved)]]
  BY DEF Export
<1>2. PICK unresolved \in SUBSET (late \cup {Any}) :
         bundle' = [sgts |-> DOMAIN SourceSgts \ late, acls |-> SourceAcls \ late,
                    cells |-> [p \in DOMAIN SourceCells |-> CarriedCell(p, unresolved)]]
  BY <1>1
<1>3. \A p \in DOMAIN SourceCells : FaithfulCell(p, CarriedCell(p, unresolved))
  BY CarriedFaithful
<1>4. UNCHANGED <<objs, live, cells, made, todo>> /\ phase' = "idle"
  BY DEF Export, target
<1>5. /\ bundle'.sgts \subseteq DOMAIN SourceSgts /\ bundle'.acls \subseteq Acls
      /\ DOMAIN bundle'.cells = DOMAIN SourceCells
      /\ \A p \in DOMAIN SourceCells : bundle'.cells[p] = CarriedCell(p, unresolved)
  BY <1>2, SourceAssumption
<1>6. FaithfulBundle'
  <2>1. \A p \in DOMAIN bundle'.cells : FaithfulCell(p, bundle'.cells[p])
    BY <1>3, <1>5
  <2>2. QED
    BY <1>4, <1>5, <2>1 DEF FaithfulBundle, FaithfulCell
<1>7. TargetTypeOK' /\ CellsWhole' /\ ResolvedByName'
  <2>1. TargetTypeOK'
    BY <1>4 DEF TSInv, TargetTypeOK, Ids
  <2>2. CellsWhole'
    BY <1>4 DEF TSInv, CellsWhole, PairName, SgtName, AclObject
  <2>3. ResolvedByName'
    BY <1>4 DEF ResolvedByName
  <2>4. QED
    BY <2>1, <2>2, <2>3
<1>8. QED
  BY <1>6, <1>7 DEF TSInv

(* A cell added under a pair that had none.                                *)
LEMMA CellAdded ==
  ASSUME TSInv, NEW c \in Ids \X Ids, c \notin DOMAIN cells, NEW acls \in Seq(Ids),
         cells' = Extend(cells, c, acls),
         \/ made' = made
         \/ /\ made' = made \cup {c}
            /\ PairName(c) \in DOMAIN SourceCells
            /\ Len(acls) = Len(SourceCells[PairName(c)])
            /\ \A k \in 1..Len(acls) :
                  acls[k] # NoId /\ objs[acls[k]] = AclObject(SourceCells[PairName(c)][k]),
         todo' \subseteq todo,
         UNCHANGED <<objs, live, bundle, sgtIDs, aclIDs, phase>>
  PROVE  TSInv'
<1>1. /\ DOMAIN cells' = DOMAIN cells \cup {c}
      /\ cells'[c] = acls
      /\ \A d \in DOMAIN cells : cells'[d] = cells[d]
  BY DEF Extend
<1>2. TargetTypeOK'
  BY <1>1 DEF TSInv, TargetTypeOK, Ids
<1>3. FaithfulBundle' /\ ResolvedByName'
  BY DEF TSInv, FaithfulBundle, FaithfulCell, Items, ResolvedByName, Ids, AclObject
<1>4. CellsWhole'
  <2> SUFFICES ASSUME NEW d \in made'
               PROVE  /\ PairName(d) \in DOMAIN SourceCells
                      /\ Len(cells'[d]) = Len(SourceCells[PairName(d)])
                      /\ \A k \in 1..Len(cells'[d]) :
                           /\ cells'[d][k] # NoId
                           /\ objs[cells'[d][k]] = AclObject(SourceCells[PairName(d)][k])
    BY DEF CellsWhole, AclObject, PairName, SgtName
  <2>1. CASE d \in made
    BY <1>1, <2>1 DEF TSInv, TargetTypeOK, CellsWhole
  <2>2. CASE d \notin made
    BY <1>1, <2>2
  <2>3. QED
    BY <2>1, <2>2
<1>5. QED
  BY <1>2, <1>3, <1>4 DEF TSInv

(* Somebody else's change to the target preserves the invariant.           *)
LEMMA AdminKeepsInv == TSInv /\ Admin => TSInv'
<1> SUFFICES ASSUME TSInv, Admin PROVE TSInv'
  OBVIOUS
<1>0. todo \subseteq Items
  BY DEF TSInv, FaithfulBundle
<1>1. ASSUME NEW s \in Sgts, NEW v \in Values, AdminAddsSgt(s, v) PROVE TSInv'
  <2>1. SgtObject(s, v) \in Object
    BY DEF SgtObject, Object
  <2>2. QED
    BY <1>1, <2>1, MintKeepsInv DEF AdminAddsSgt, Edit, tool
<1>2. ASSUME NEW a \in Acls, AdminAddsAcl(a) PROVE TSInv'
  <2>1. AclObject(a) \in Object
    BY DEF AclObject, Object
  <2>2. QED
    BY <1>2, <2>1, MintKeepsInv DEF AdminAddsAcl, Edit, tool
<1>3. ASSUME NEW i \in SgtsOn(live), NEW j \in SgtsOn(live), AdminAddsCell(<<i, j>>) PROVE TSInv'
  <2>1. <<i, j>> \in Ids \X Ids
    BY DEF SgtsOn, Ids, TSInv, TargetTypeOK
  <2>2. <<>> \in Seq(Ids)
    OBVIOUS
  <2>3. QED
    BY <1>3, <2>1, <2>2, CellAdded DEF AdminAddsCell, Edit, tool
<1>4. ASSUME NEW i \in live, AdminDeletes(i) PROVE TSInv'
  BY <1>0, <1>4, FrameKeepsInv DEF AdminDeletes, Edit, tool
<1>5. ASSUME NEW c \in DOMAIN cells, AdminDeletesCell(c) PROVE TSInv'
  <2>1. /\ DOMAIN cells' = DOMAIN cells \ {c} /\ made' = made \ {c}
        /\ \A d \in DOMAIN cells' : cells'[d] = cells[d]
        /\ UNCHANGED <<objs, live, bundle, phase, todo, sgtIDs, aclIDs>>
    BY <1>5 DEF AdminDeletesCell, Edit, tool
  <2>2. TargetTypeOK' /\ made' \subseteq DOMAIN cells'
    BY <2>1 DEF TSInv, TargetTypeOK, Ids
  <2>3. FaithfulBundle' /\ ResolvedByName'
    BY <2>1 DEF TSInv, FaithfulBundle, FaithfulCell, Items, ResolvedByName, Ids, AclObject
  <2>4. CellsWhole'
    BY <2>1, <2>2 DEF TSInv, CellsWhole, PairName, SgtName, AclObject
  <2>5. QED
    BY <2>2, <2>3, <2>4 DEF TSInv
<1>6. QED
  BY <1>1, <1>2, <1>3, <1>4, <1>5 DEF Admin

(* A cell whose names resolve is written between the groups and with the   *)
(* SGACLs of the source's cell.                                            *)
LEMMA WrittenWhole ==
  ASSUME TSInv, phase = "cells", NEW p \in DOMAIN bundle.cells,
         ResolveCellRefs(bundle.cells[p])
  PROVE  LET c == CellIds(bundle.cells[p])
             acls == CellAcls(bundle.cells[p])
         IN /\ c \in Ids \X Ids /\ acls \in Seq(Ids)
            /\ PairName(c) \in DOMAIN SourceCells
            /\ Len(acls) = Len(SourceCells[PairName(c)])
            /\ \A k \in 1..Len(acls) :
                  acls[k] # NoId /\ objs[acls[k]] = AclObject(SourceCells[PairName(c)][k])
<1> DEFINE cell == bundle.cells[p]
           c == CellIds(cell)
           acls == CellAcls(cell)
<1>1. p \in DOMAIN SourceCells /\ p \in Pairs /\ FaithfulCell(p, cell)
  BY SourceAssumption DEF TSInv, FaithfulBundle
<1>2. SourceCells[p] \in Seq(SourceAcls) /\ Len(SourceCells[p]) \in Nat
  BY <1>1, SourceAssumption
<1>3. /\ cell.src = p[1] /\ cell.dst = p[2] /\ cell.src \in Sgts /\ cell.dst \in Sgts
      /\ sgtIDs[cell.src] # NoId /\ sgtIDs[cell.dst] # NoId
      /\ Len(cell.acls) = Len(SourceCells[p])
      /\ \A k \in 1..Len(cell.acls) :
            /\ cell.acls[k] \in Acls /\ cell.acls[k] = SourceCells[p][k]
            /\ aclIDs[cell.acls[k]] # NoId
  BY <1>1 DEF FaithfulCell, ResolveCellRefs, SgtResolves, AclResolves
<1>4. /\ sgtIDs[cell.src] \in Ids /\ objs[sgtIDs[cell.src]].name = p[1]
      /\ sgtIDs[cell.dst] \in Ids /\ objs[sgtIDs[cell.dst]].name = p[2]
  BY <1>3 DEF TSInv, ResolvedByName
<1>5. c \in Ids \X Ids /\ PairName(c) = <<p[1], p[2]>>
  BY <1>3, <1>4 DEF CellIds, PairName, SgtName, AnyId, NoId
<1>6. PairName(c) = p
  BY <1>1, <1>5 DEF Pairs
<1>7. /\ acls \in Seq(Ids) /\ Len(acls) = Len(SourceCells[p])
      /\ \A k \in 1..Len(acls) : acls[k] = aclIDs[cell.acls[k]]
  <2>1. \A k \in 1..Len(SourceCells[p]) : aclIDs[cell.acls[k]] \in Ids
    BY <1>3 DEF TSInv, ResolvedByName
  <2>2. QED
    BY <1>2, <1>3, <2>1 DEF CellAcls
<1>8. \A k \in 1..Len(acls) : acls[k] # NoId /\ objs[acls[k]] = AclObject(SourceCells[p][k])
  BY <1>3, <1>7 DEF TSInv, ResolvedByName
<1>9. QED
  BY <1>1, <1>5, <1>6, <1>7, <1>8

(* Every step of the import preserves the invariant.                       *)
LEMMA HandlerKeepsInv == TSInv /\ Handler => TSInv'
<1> SUFFICES ASSUME TSInv, Handler PROVE TSInv'
  OBVIOUS
<1>0. todo \subseteq Items /\ live \subseteq DOMAIN objs
  BY DEF TSInv, FaithfulBundle, TargetTypeOK
<1>1. CASE ListSgts \/ ListAcls \/ Finish
  BY <1>0, <1>1, FrameKeepsInv DEF ListSgts, ListAcls, Finish, Reading, target
<1>2. CASE ListCells
  <2>1. todo' \subseteq Items /\ phase' \in {"done", "apply"}
    BY <1>2 DEF ListCells
  <2>2. QED
    BY <1>2, <2>1, FrameKeepsInv DEF ListCells, Reading, target
<1>3. ASSUME NEW s \in Sgts, CreateSgt(s) PROVE TSInv'
  <2>1. /\ todo' \subseteq todo
        /\ UNCHANGED <<cells, made, bundle, sgtIDs, aclIDs, phase>>
    BY <1>3 DEF CreateSgt, Writing
  <2>2. s \in todo
    BY <1>3 DEF CreateSgt
  <2>3. s \in bundle.sgts
    BY <1>0, <2>2, NamesAssumption, SourceAssumption DEF TSInv, FaithfulBundle, Items
  <2>4. SourceSgts[s] \in Values
    BY <2>3, SourceAssumption DEF TSInv, FaithfulBundle
  <2>5. CASE Mint(SgtObject(s, SourceSgts[s]))
    <3>1. SgtObject(s, SourceSgts[s]) \in Object
      BY <2>4 DEF SgtObject, Object
    <3>2. QED
      BY <2>1, <2>5, <3>1, MintKeepsInv
  <2>6. CASE UNCHANGED <<objs, live>>
    BY <1>0, <2>1, <2>6, FrameKeepsInv
  <2>7. QED
    BY <1>3, <2>5, <2>6 DEF CreateSgt
<1>4. ASSUME NEW a \in Acls, CreateAcl(a) PROVE TSInv'
  <2>1. /\ todo' \subseteq todo
        /\ UNCHANGED <<cells, made, bundle, sgtIDs, aclIDs, phase>>
    BY <1>4 DEF CreateAcl, Writing
  <2>2. CASE Mint(AclObject(a))
    <3>1. AclObject(a) \in Object
      BY DEF AclObject, Object
    <3>2. QED
      BY <2>1, <2>2, <3>1, MintKeepsInv
  <2>3. CASE UNCHANGED <<objs, live>>
    BY <1>0, <2>1, <2>3, FrameKeepsInv
  <2>4. QED
    BY <1>4, <2>2, <2>3 DEF CreateAcl
<1>5. CASE ReadSgtIDs
  <2>1. \A s \in Sgts : sgtIDs'[s] \in Ids /\ (sgtIDs'[s] # NoId => objs[sgtIDs'[s]].name = s)
    <3>1. SgtsOn(live) \subseteq DOMAIN objs
      BY <1>0 DEF SgtsOn
    <3>2. QED
      BY <1>5, <3>1, IdInCorrect DEF ReadSgtIDs
  <2>2. UNCHANGED <<objs, live, cells, made, bundle, todo>> /\ phase' = "readAcls"
    BY <1>5 DEF ReadSgtIDs, target
  <2>3. TargetTypeOK' /\ FaithfulBundle' /\ CellsWhole'
    BY <2>2 DEF TSInv, TargetTypeOK, FaithfulBundle, FaithfulCell, Items, CellsWhole,
                PairName, SgtName, Ids, AclObject
  <2>4. ResolvedByName'
    BY <2>1, <2>2 DEF ResolvedByName, Ids
  <2>5. QED
    BY <2>3, <2>4 DEF TSInv
<1>6. CASE ReadAclIDs
  <2>1. \A a \in Acls : aclIDs'[a] \in Ids /\ (aclIDs'[a] # NoId => objs[aclIDs'[a]] = AclObject(a))
    <3> SUFFICES ASSUME NEW a \in Acls
                 PROVE  aclIDs'[a] \in Ids /\ (aclIDs'[a] # NoId => objs[aclIDs'[a]] = AclObject(a))
      OBVIOUS
    <3>1. AclsOn(live) \subseteq DOMAIN objs
      BY <1>0 DEF AclsOn
    <3>2. /\ aclIDs'[a] \in Ids
          /\ aclIDs'[a] # NoId => aclIDs'[a] \in AclsOn(live) /\ objs[aclIDs'[a]].name = a
      BY <1>6, <3>1, IdInCorrect DEF ReadAclIDs
    <3>3. \A i \in AclsOn(live) : objs[i] = AclObject(objs[i].name)
      BY <1>0, AclByName DEF AclsOn, TSInv, TargetTypeOK
    <3>4. QED
      BY <3>2, <3>3
  <2>2. UNCHANGED <<objs, live, cells, made, bundle, todo, sgtIDs>> /\ phase' = "cells"
    BY <1>6 DEF ReadAclIDs, target
  <2>3. TargetTypeOK' /\ FaithfulBundle' /\ CellsWhole'
    BY <2>2 DEF TSInv, TargetTypeOK, FaithfulBundle, FaithfulCell, Items, CellsWhole,
                PairName, SgtName, Ids, AclObject
  <2>4. ResolvedByName'
    BY <1>6, <2>1, <2>2 DEF TSInv, ReadAclIDs, ResolvedByName, Ids, AclObject
  <2>5. QED
    BY <2>3, <2>4 DEF TSInv
<1>7. CASE ReadIDsFails
  BY <1>0, <1>7, FrameKeepsInv DEF ReadIDsFails, target
<1>8. ASSUME NEW p \in Pairs, CreateCell(p) PROVE TSInv'
  <2>1. /\ todo' \subseteq todo /\ phase = "cells" /\ p \in todo
        /\ UNCHANGED <<objs, live, bundle, sgtIDs, aclIDs, phase>>
    BY <1>8 DEF CreateCell, Writing
  <2>2. p \in DOMAIN bundle.cells
    BY <1>0, <2>1, NamesAssumption, SourceAssumption DEF TSInv, FaithfulBundle, Items
  <2>3. CASE /\ ResolveCellRefs(bundle.cells[p])
             /\ CellIds(bundle.cells[p]) \notin DOMAIN cells
             /\ cells' = Extend(cells, CellIds(bundle.cells[p]), CellAcls(bundle.cells[p]))
             /\ made' = made \cup {CellIds(bundle.cells[p])}
    <3>1. /\ CellIds(bundle.cells[p]) \in Ids \X Ids /\ CellAcls(bundle.cells[p]) \in Seq(Ids)
          /\ PairName(CellIds(bundle.cells[p])) \in DOMAIN SourceCells
          /\ Len(CellAcls(bundle.cells[p])) = Len(SourceCells[PairName(CellIds(bundle.cells[p]))])
          /\ \A k \in 1..Len(CellAcls(bundle.cells[p])) :
                /\ CellAcls(bundle.cells[p])[k] # NoId
                /\ objs[CellAcls(bundle.cells[p])[k]]
                     = AclObject(SourceCells[PairName(CellIds(bundle.cells[p]))][k])
      BY <2>1, <2>2, <2>3, WrittenWhole
    <3>2. QED
      BY <2>1, <2>3, <3>1, CellAdded
  <2>4. CASE UNCHANGED <<cells, made>>
    BY <1>0, <2>1, <2>4, FrameKeepsInv
  <2>5. QED
    BY <1>8, <2>3, <2>4 DEF CreateCell
<1>9. QED
  BY <1>1, <1>2, <1>3, <1>4, <1>5, <1>6, <1>7, <1>8 DEF Handler

(* Nothing was decided before the export.                                  *)
Fresh == phase = "export" => verdict = <<>> /\ todo = {}

(* The invariant of the target, of the bundle and of the ids read again.   *)
THEOREM TrustSecInv == Spec => [](TSInv /\ Fresh)
<1> DEFINE Inv == TSInv /\ Fresh
<1>1. Init => Inv
  BY TSInit DEF Init, Fresh
<1>2. Inv /\ [Next]_vars => Inv'
  <2> SUFFICES ASSUME Inv, [Next]_vars PROVE Inv'
    OBVIOUS
  <2>0. todo \subseteq Items
    BY DEF TSInv, FaithfulBundle
  <2>1. Fresh'
    BY DEF Fresh, Next, vars, tool, target, Export, ApplyRequest, Handler, ListSgts, ListAcls,
           ListCells, CreateSgt, CreateAcl, ReadSgtIDs, ReadAclIDs, ReadIDsFails, CreateCell,
           Finish, Admin, AdminAddsSgt, AdminAddsAcl, AdminAddsCell, AdminDeletes,
           AdminDeletesCell, Edit
  <2>2. CASE Export
    <3>1. phase = "export"
      BY <2>2 DEF Export
    <3>2. QED
      BY <2>1, <2>2, <3>1, ExportKeepsInv DEF Fresh
  <2>3. CASE ApplyRequest
    BY <2>0, <2>1, <2>3, FrameKeepsInv DEF ApplyRequest, target
  <2>4. CASE Handler
    BY <2>1, <2>4, HandlerKeepsInv
  <2>5. CASE Admin
    BY <2>1, <2>5, AdminKeepsInv
  <2>6. CASE UNCHANGED vars
    BY <2>0, <2>1, <2>6, FrameKeepsInv DEF vars, target, tool
  <2>7. QED
    BY <2>2, <2>3, <2>4, <2>5, <2>6 DEF Next
<1>3. QED
  BY <1>1, <1>2, PTL DEF Spec

(* A cell is written whole or not at all: for every source and every       *)
(* target, whatever the export could not resolve, whichever requests fail  *)
(* and whatever others change, each cell an import made has the groups and *)
(* exactly the SGACLs of a cell of the source.                             *)
THEOREM TrustSecCellsWhole == Spec => []CellsWhole
<1>1. TSInv => CellsWhole
  BY DEF TSInv
<1>2. QED
  BY <1>1, TrustSecInv, PTL

-----------------------------------------------------------------------------
(* Type correctness.                                                       *)

BundleTyped ==
  /\ bundle.sgts \subseteq DOMAIN SourceSgts /\ bundle.acls \subseteq SourceAcls
  /\ \A p \in DOMAIN bundle.cells : p \in DOMAIN SourceCells /\ bundle.cells[p] \in CellType

ReportTyped ==
  /\ seenSgts \subseteq DOMAIN objs /\ seenAcls \subseteq DOMAIN objs
  /\ \A x \in DOMAIN verdict : x \in Items /\ verdict[x] \in {"create", "skip"}
  /\ todo \subseteq Creates

IdsTyped ==
  sgtIDs \in [Sgts -> Ids] \cup {<<>>} /\ aclIDs \in [Acls -> Ids] \cup {<<>>}

RunTyped ==
  /\ phase \in {"export", "idle", "listSgts", "listAcls", "listCells", "apply", "readAcls",
                "cells", "done", "aborted"}
  /\ multi \in BOOLEAN /\ quiet \in BOOLEAN /\ deleted \in BOOLEAN
  /\ edits \in 0..MaxEdits /\ faults \in 0..MaxFaults /\ runs \in 0..MaxRuns

ResTyped == res \in [created : Nat, skipped : Nat, failed : Nat]

(* The outcome of one write, as the result counts it.                      *)
Outcome == \E field \in {"created", "skipped", "failed"} : Counted(field)

LEMMA OutcomeTyped ==
  ASSUME ResTyped, NEW field \in {"created", "skipped", "failed"}, Counted(field)
  PROVE  ResTyped' /\ res'.failed = (IF field = "failed" THEN res.failed + 1 ELSE res.failed)
<1>1. \A n \in Nat : n + 1 \in Nat
  OBVIOUS
<1>2. res.created \in Nat /\ res.skipped \in Nat /\ res.failed \in Nat
  BY DEF ResTyped
<1>3. CASE field = "created"
  <2>1. res' = [res EXCEPT !.created = @ + 1]
    BY <1>3 DEF Counted
  <2>2. QED
    BY <1>1, <1>2, <1>3, <2>1 DEF ResTyped
<1>4. CASE field = "skipped"
  <2>1. res' = [res EXCEPT !.skipped = @ + 1]
    BY <1>4 DEF Counted
  <2>2. QED
    BY <1>1, <1>2, <1>4, <2>1 DEF ResTyped
<1>5. CASE field = "failed"
  <2>1. res' = [res EXCEPT !.failed = @ + 1]
    BY <1>5 DEF Counted
  <2>2. QED
    BY <1>1, <1>2, <1>5, <2>1 DEF ResTyped
<1>6. QED
  BY <1>3, <1>4, <1>5

(* A bundle has finitely many objects.                                     *)
LEMMA ItemsFinite ==
  ASSUME BundleTyped
  PROVE  IsFiniteSet(Items) /\ \A S \in SUBSET Items : Cardinality(S) \in Nat
<1>1. IsFiniteSet(bundle.sgts) /\ IsFiniteSet(bundle.acls)
  BY SourceAssumption, FS_Subset DEF BundleTyped
<1>2. DOMAIN bundle.cells \subseteq DOMAIN SourceCells
  BY DEF BundleTyped
<1>3. IsFiniteSet(DOMAIN bundle.cells)
  BY <1>2, SourceAssumption, FS_Subset
<1>4. IsFiniteSet(bundle.sgts \cup bundle.acls)
  BY <1>1, FS_Union
<1>5. IsFiniteSet(Items)
  BY <1>3, <1>4, FS_Union DEF Items
<1>6. QED
  BY <1>5, FS_Subset, FS_CardinalityType

(* What the export writes for a cell is a cell.                            *)
LEMMA CarriedTyped ==
  ASSUME NEW p \in DOMAIN SourceCells, NEW unresolved
  PROVE  CarriedCell(p, unresolved) \in CellType
<1>1. /\ p[1] \in Sgts \cup {Any} /\ p[2] \in Sgts \cup {Any}
      /\ Len(SourceCells[p]) \in Nat
      /\ \A k \in 1..Len(SourceCells[p]) : SourceCells[p][k] \in Acls
  BY SourceAssumption DEF Pairs
<1>2. /\ \A n \in Sgts \cup {Any} : Carried(n, unresolved) \in Refs(Sgts \cup {Any})
      /\ \A n \in Acls : Carried(n, unresolved) \in Refs(Acls)
  BY DEF Carried, Refs
<1> DEFINE acls == [i \in 1..Len(SourceCells[p]) |-> Carried(SourceCells[p][i], unresolved)]
<1>3. acls \in Seq(Refs(Acls))
  BY <1>1, <1>2
<1>4. CarriedCell(p, unresolved)
        = [src |-> Carried(p[1], unresolved), dst |-> Carried(p[2], unresolved), acls |-> acls]
  BY DEF CarriedCell
<1> HIDE DEF acls
<1>5. \A a \in Refs(Sgts \cup {Any}), b \in Refs(Sgts \cup {Any}), l \in Seq(Refs(Acls)) :
        [src |-> a, dst |-> b, acls |-> l] \in CellType
  BY DEF CellType
<1>6. QED
  BY <1>1, <1>2, <1>3, <1>4, <1>5

LEMMA FaultTyped ==
  ASSUME Fault \/ NoFault, quiet \in BOOLEAN, faults \in 0..MaxFaults
  PROVE  quiet' \in BOOLEAN /\ faults' \in 0..MaxFaults
<1>1. quiet' = FALSE \/ quiet' = quiet
  BY DEF Fault, NoFault
<1>2. MaxFaults \in Nat
  BY TrustSecBounds
<1>3. faults' = faults \/ (faults < MaxFaults /\ faults' = faults + 1)
  BY DEF Fault, NoFault
<1>4. quiet' \in BOOLEAN
  BY <1>1
<1>5. faults' \in 0..MaxFaults
  BY <1>2, <1>3
<1>6. QED
  BY <1>4, <1>5

(* The objects and their ids only grow in number.                          *)
LEMMA ObjsGrow ==
  ASSUME TSInv, [Next]_vars
  PROVE  /\ DOMAIN objs \subseteq DOMAIN objs' /\ \A i \in DOMAIN objs : objs'[i] = objs[i]
         /\ Ids \subseteq Ids'
<1>1. objs' = objs \/ \E o : objs' = Append(objs, o)
  BY DEF Next, vars, target, Export, ApplyRequest, Handler, ListSgts, ListAcls, ListCells, Reading,
         CreateSgt, CreateAcl, ReadSgtIDs, ReadAclIDs, ReadIDsFails, CreateCell, Finish, Admin,
         AdminAddsSgt, AdminAddsAcl, AdminAddsCell, AdminDeletes, AdminDeletesCell, Mint
<1>2. objs \in Seq(Object)
  BY DEF TSInv, TargetTypeOK
<1>3. DOMAIN objs \subseteq DOMAIN objs' /\ \A i \in DOMAIN objs : objs'[i] = objs[i]
  BY <1>1, <1>2
<1>4. QED
  BY <1>3 DEF Ids

LEMMA TypeInit == Init => TypeOK
<1> SUFFICES ASSUME Init PROVE TypeOK
  OBVIOUS
<1>1. TargetTypeOK
  BY TSInit DEF TSInv
<1>2. BundleTyped /\ ReportTyped /\ IdsTyped
  BY DEF Init, NoBundle, BundleTyped, ReportTyped, IdsTyped
<1>3. RunTyped
  <2>1. multi \in BOOLEAN
    BY DEF Init
  <2>2. 0 \in 0..MaxEdits /\ 0 \in 0..MaxFaults /\ 0 \in 0..MaxRuns
    BY TrustSecBounds
  <2>3. QED
    BY <2>1, <2>2 DEF Init, RunTyped
<1>4. ResTyped
  BY DEF Init, ZeroResult, ResTyped
<1>5. QED
  BY <1>1, <1>2, <1>3, <1>4 DEF TypeOK, BundleTyped, ReportTyped, IdsTyped, RunTyped, ResTyped

(* The bundle is written once.                                             *)
LEMMA BundleStep ==
  ASSUME BundleTyped, [Next]_vars
  PROVE  BundleTyped' /\ (~Export => bundle' = bundle)
<1>1. CASE Export
  <2>1. PICK late \in SUBSET (DOMAIN SourceSgts \cup SourceAcls) :
           \E unresolved \in SUBSET (late \cup {Any}) :
           bundle' = [sgts |-> DOMAIN SourceSgts \ late, acls |-> SourceAcls \ late,
                      cells |-> [p \in DOMAIN SourceCells |-> CarriedCell(p, unresolved)]]
    BY <1>1 DEF Export
  <2>2. PICK unresolved \in SUBSET (late \cup {Any}) :
           bundle' = [sgts |-> DOMAIN SourceSgts \ late, acls |-> SourceAcls \ late,
                      cells |-> [p \in DOMAIN SourceCells |-> CarriedCell(p, unresolved)]]
    BY <2>1
  <2>3. \A p \in DOMAIN SourceCells : CarriedCell(p, unresolved) \in CellType
    BY CarriedTyped
  <2>4. /\ bundle'.sgts \subseteq DOMAIN SourceSgts /\ bundle'.acls \subseteq SourceAcls
        /\ DOMAIN bundle'.cells = DOMAIN SourceCells
        /\ \A p \in DOMAIN SourceCells : bundle'.cells[p] = CarriedCell(p, unresolved)
    BY <2>2
  <2>5. QED
    BY <1>1, <2>3, <2>4 DEF BundleTyped
<1>2. CASE ~Export
  <2>1. bundle' = bundle
    BY <1>2 DEF Next, vars, tool, ApplyRequest, Handler, ListSgts, ListAcls, ListCells, Reading,
           Writing, CreateSgt, CreateAcl, ReadSgtIDs, ReadAclIDs, ReadIDsFails, CreateCell, Finish,
           Admin, AdminAddsSgt, AdminAddsAcl, AdminAddsCell, AdminDeletes, AdminDeletesCell, Edit
  <2>2. QED
    BY <2>1 DEF BundleTyped
<1>3. QED
  BY <1>1, <1>2

LEMMA ReportStep ==
  ASSUME TSInv, Fresh, BundleTyped, ReportTyped, [Next]_vars
  PROVE  ReportTyped'
<1>1. DOMAIN objs \subseteq DOMAIN objs' /\ live \subseteq DOMAIN objs
  BY ObjsGrow DEF TSInv, TargetTypeOK
<1>2. CASE Export
  <2>1. UNCHANGED <<objs, seenSgts, seenAcls, verdict, todo>> /\ verdict = <<>> /\ todo = {}
    BY <1>2 DEF Export, target, Fresh
  <2>2. QED
    BY <2>1 DEF ReportTyped, Creates
<1>3. CASE ~Export
  <2>1. Items' = Items
    BY <1>3, BundleStep DEF Items
  <2>2. CASE ListCells
    <3>1. /\ seenSgts' = {} /\ seenAcls' = {}
          /\ \E held : verdict' = Verdicts(seenSgts, seenAcls, held)
          /\ todo' = {x \in Items : verdict'[x] = "create"}
      BY <2>2 DEF ListCells
    <3>2. DOMAIN verdict' = Items /\ \A x \in Items : verdict'[x] \in {"create", "skip"}
      BY <3>1 DEF Verdicts, SgtVerdict, CellVerdict
    <3>3. QED
      BY <2>1, <3>1, <3>2 DEF ReportTyped, Creates
  <2>3. CASE ApplyRequest
    BY <1>1, <2>3 DEF ApplyRequest, ReportTyped, Creates
  <2>4. CASE ListSgts \/ ListAcls
    BY <1>1, <2>1, <2>4 DEF ListSgts, ListAcls, ReportTyped, Creates, SgtsOn, AclsOn
  <2>5. CASE /\ UNCHANGED <<seenSgts, seenAcls, verdict>> /\ todo' \subseteq todo
    BY <1>1, <2>1, <2>5 DEF ReportTyped, Creates
  <2>6. QED
    BY <1>3, <2>2, <2>3, <2>4, <2>5
       DEF Next, vars, tool, Handler, Writing, CreateSgt, CreateAcl, ReadSgtIDs,
           ReadAclIDs, ReadIDsFails, CreateCell, Finish, Admin, AdminAddsSgt, AdminAddsAcl,
           AdminAddsCell, AdminDeletes, AdminDeletesCell, Edit
<1>4. QED
  BY <1>2, <1>3

LEMMA IdsStep ==
  ASSUME TSInv, IdsTyped, [Next]_vars
  PROVE  IdsTyped'
<1>1. Ids \subseteq Ids'
  BY ObjsGrow
<1>2. SgtsOn(live) \subseteq DOMAIN objs /\ AclsOn(live) \subseteq DOMAIN objs
  BY DEF SgtsOn, AclsOn, TSInv, TargetTypeOK
<1>3. CASE ReadSgtIDs
  <2>1. sgtIDs' \in [Sgts -> Ids]
    BY <1>2, <1>3, IdInCorrect DEF ReadSgtIDs
  <2>2. QED
    BY <1>1, <1>3, <2>1 DEF ReadSgtIDs, IdsTyped
<1>4. CASE ReadAclIDs
  <2>1. aclIDs' \in [Acls -> Ids]
    BY <1>2, <1>4, IdInCorrect DEF ReadAclIDs
  <2>2. QED
    BY <1>1, <1>4, <2>1 DEF ReadAclIDs, IdsTyped
<1>5. CASE ApplyRequest
  BY <1>5 DEF ApplyRequest, IdsTyped
<1>6. CASE UNCHANGED <<sgtIDs, aclIDs>>
  BY <1>1, <1>6 DEF IdsTyped
<1>7. QED
  BY <1>3, <1>4, <1>5, <1>6
     DEF Next, vars, tool, Export, Handler, ListSgts, ListAcls, ListCells, Reading, Writing,
         CreateSgt, CreateAcl, ReadIDsFails, CreateCell, Finish, Admin, AdminAddsSgt,
         AdminAddsAcl, AdminAddsCell, AdminDeletes, AdminDeletesCell, Edit

(* Every write has one of the three outcomes.                              *)
LEMMA WriteOutcome ==
  ASSUME \/ \E s \in Sgts : CreateSgt(s)
         \/ \E a \in Acls : CreateAcl(a)
         \/ \E p \in Pairs : CreateCell(p)
  PROVE  Outcome /\ (Fault \/ NoFault)
BY DEF CreateSgt, CreateAcl, CreateCell, Outcome, Created, Skipped, Refused, Lost

LEMMA ResStep ==
  ASSUME BundleTyped, ReportTyped, ResTyped, [Next]_vars
  PROVE  ResTyped'
<1>1. CASE ApplyRequest
  BY <1>1 DEF ApplyRequest, ZeroResult, ResTyped
<1>2. CASE ListCells
  <2>1. Cardinality(Items) \in Nat
    BY ItemsFinite
  <2>2. res' = res \/ res' = [res EXCEPT !.skipped = Cardinality(Items)]
    BY <1>2 DEF ListCells
  <2>3. QED
    BY <2>1, <2>2 DEF ResTyped
<1>3. CASE Finish
  <2>1. Cardinality(Skips) \in Nat
    BY ItemsFinite DEF ReportTyped, Skips
  <2>2. res' = [res EXCEPT !.skipped = @ + Cardinality(Skips) + Cardinality(Skips)]
    BY <1>3 DEF Finish, Total
  <2>3. res.skipped + Cardinality(Skips) + Cardinality(Skips) \in Nat
    BY <2>1 DEF ResTyped
  <2>4. res' = [res EXCEPT !.skipped = res.skipped + Cardinality(Skips) + Cardinality(Skips)]
    BY <2>2
  <2>5. QED
    BY <2>3, <2>4 DEF ResTyped
<1>4. CASE \/ \E s \in Sgts : CreateSgt(s)
           \/ \E a \in Acls : CreateAcl(a)
           \/ \E p \in Pairs : CreateCell(p)
  BY <1>4, WriteOutcome, OutcomeTyped DEF Outcome
<1>5. CASE UNCHANGED res
  BY <1>5 DEF ResTyped
<1>6. QED
  BY <1>1, <1>2, <1>3, <1>4, <1>5
     DEF Next, vars, Export, Handler, ListSgts, ListAcls, ReadSgtIDs, ReadAclIDs, ReadIDsFails,
         Admin, AdminAddsSgt, AdminAddsAcl, AdminAddsCell, AdminDeletes, AdminDeletesCell, Edit

LEMMA RunStep ==
  ASSUME RunTyped, [Next]_vars
  PROVE  RunTyped'
<1>1. MaxEdits \in Nat /\ MaxRuns \in Nat
  BY TrustSecBounds
<1>2. CASE Export
  BY <1>2 DEF Export, target, RunTyped
<1>3. CASE ApplyRequest
  <2>1. runs' \in 0..MaxRuns
    BY <1>1, <1>3 DEF ApplyRequest, RunTyped
  <2>2. quiet' \in BOOLEAN /\ deleted' \in BOOLEAN
    BY <1>3 DEF ApplyRequest
  <2>3. UNCHANGED <<multi, edits, faults>> /\ phase' = "listSgts"
    BY <1>3 DEF ApplyRequest, target
  <2>4. QED
    BY <2>1, <2>2, <2>3 DEF RunTyped
<1>4. CASE Handler
  <2>1. Fault \/ NoFault
    <3>1. CASE \/ \E s \in Sgts : CreateSgt(s)
               \/ \E a \in Acls : CreateAcl(a)
               \/ \E p \in Pairs : CreateCell(p)
      BY <3>1, WriteOutcome
    <3>2. CASE ListSgts \/ ListAcls \/ ListCells \/ ReadSgtIDs \/ ReadAclIDs \/ ReadIDsFails \/ Finish
      BY <3>2 DEF ListSgts, ListAcls, ListCells, ReadSgtIDs, ReadAclIDs, ReadIDsFails, Finish, NoFault
    <3>3. QED
      BY <1>4, <3>1, <3>2 DEF Handler
  <2>2. UNCHANGED <<multi, deleted, edits, runs>>
    BY <1>4 DEF Handler, ListSgts, ListAcls, ListCells, Reading, Writing, CreateSgt, CreateAcl,
                ReadSgtIDs, ReadAclIDs, ReadIDsFails, CreateCell, Finish, target
  <2>3. phase' = phase \/ phase' \in {"listAcls", "listCells", "done", "apply", "readAcls", "cells", "aborted"}
    BY <1>4 DEF Handler, ListSgts, ListAcls, ListCells, CreateSgt, CreateAcl,
                ReadSgtIDs, ReadAclIDs, ReadIDsFails, CreateCell, Finish
  <2>4. QED
    BY <2>1, <2>2, <2>3, FaultTyped DEF RunTyped
<1>5. CASE Admin
  <2>1. Edit
    BY <1>5 DEF Admin, AdminAddsSgt, AdminAddsAcl, AdminAddsCell, AdminDeletes, AdminDeletesCell
  <2>2. deleted' = deleted \/ deleted' = TRUE
    BY <1>5 DEF Admin, AdminAddsSgt, AdminAddsAcl, AdminAddsCell, AdminDeletes, AdminDeletesCell
  <2>3. deleted' \in BOOLEAN
    BY <2>2 DEF RunTyped
  <2>4. quiet' = FALSE /\ edits < MaxEdits /\ edits' = edits + 1 /\ UNCHANGED <<multi, phase, faults, runs>>
    BY <2>1 DEF Edit, tool
  <2>5. quiet' \in BOOLEAN
    BY <2>4
  <2>6. edits' \in 0..MaxEdits
    BY <1>1, <2>4 DEF RunTyped
  <2>7. QED
    BY <2>3, <2>4, <2>5, <2>6 DEF RunTyped
<1>6. CASE UNCHANGED vars
  BY <1>6 DEF vars, target, tool, RunTyped
<1>7. QED
  BY <1>2, <1>3, <1>4, <1>5, <1>6 DEF Next

LEMMA TypeStep ==
  ASSUME TSInv, TSInv', Fresh, TypeOK, [Next]_vars
  PROVE  TypeOK'
<1>1. BundleTyped /\ ReportTyped /\ IdsTyped /\ RunTyped /\ ResTyped
  BY DEF TypeOK, BundleTyped, ReportTyped, IdsTyped, RunTyped, ResTyped
<1>2. BundleTyped' /\ ReportTyped' /\ IdsTyped' /\ RunTyped' /\ ResTyped'
  BY <1>1, BundleStep, ReportStep, IdsStep, RunStep, ResStep
<1>3. TargetTypeOK'
  BY DEF TSInv
<1>4. QED
  BY <1>2, <1>3 DEF TypeOK, BundleTyped, ReportTyped, IdsTyped, RunTyped, ResTyped

(* Every variable stays in its range, for every source and every target.   *)
THEOREM TrustSecTypeOK == Spec => []TypeOK
<1>1. TSInv /\ TSInv' /\ Fresh /\ TypeOK /\ [Next]_vars => TypeOK'
  BY TypeStep
<1>2. QED
  BY <1>1, TypeInit, TrustSecInv, PTL DEF Spec

-----------------------------------------------------------------------------
(* What was announced and is missing is reported.                          *)

(* The kinds of items are told apart.                                      *)
LEMMA ItemKinds ==
  ASSUME TypeOK
  PROVE  /\ \A x \in Items : x \in Sgts => x \in bundle.sgts
         /\ \A x \in Items : x \in Acls => x \in bundle.acls /\ x \notin bundle.sgts
         /\ \A x \in Items : x \in Pairs =>
              x \in DOMAIN bundle.cells /\ x \notin bundle.sgts /\ x \notin bundle.acls
         /\ \A x \in bundle.sgts : x \in Sgts /\ SourceSgts[x] \in Values
         /\ \A x \in bundle.acls : x \in Acls
         /\ \A x \in DOMAIN bundle.cells : x \in Pairs
         /\ todo \subseteq Items /\ Creates \subseteq Items
BY NamesAssumption, SourceAssumption DEF TypeOK, Items, Creates

(* Only somebody else's deletion takes anything away from the target.      *)
LEMMA NothingLost ==
  ASSUME [Next]_vars
  PROVE  \/ deleted' /\ ~quiet'
         \/ live \subseteq live' /\ DOMAIN cells \subseteq DOMAIN cells'
<1>1. ASSUME NEW i \in live, AdminDeletes(i)
      PROVE  deleted' /\ ~quiet'
  BY <1>1 DEF AdminDeletes, Edit
<1>2. ASSUME NEW c \in DOMAIN cells, AdminDeletesCell(c)
      PROVE  deleted' /\ ~quiet'
  BY <1>2 DEF AdminDeletesCell, Edit
<1>3. CASE ~((\E i \in live : AdminDeletes(i)) \/ \E c \in DOMAIN cells : AdminDeletesCell(c))
  <2>1. live' = live \/ \E o : Mint(o)
    BY <1>3 DEF Next, vars, target, Export, ApplyRequest, Handler, ListSgts, ListAcls, ListCells,
         Reading, CreateSgt, CreateAcl, ReadSgtIDs, ReadAclIDs, ReadIDsFails, CreateCell, Finish,
         Admin, AdminAddsSgt, AdminAddsAcl, AdminAddsCell
  <2>2. cells' = cells \/ \E c, l : cells' = Extend(cells, c, l)
    BY <1>3 DEF Next, vars, target, Export, ApplyRequest, Handler, ListSgts, ListAcls, ListCells,
         Reading, CreateSgt, CreateAcl, ReadSgtIDs, ReadAclIDs, ReadIDsFails, CreateCell, Finish,
         Admin, AdminAddsSgt, AdminAddsAcl, AdminAddsCell
  <2>3. QED
    BY <2>1, <2>2 DEF Mint, Extend
<1>4. QED
  BY <1>1, <1>2, <1>3

(* What the target has it keeps, under the same names.                     *)
LEMMA NamesStay ==
  ASSUME TSInv, [Next]_vars, live \subseteq live', DOMAIN cells \subseteq DOMAIN cells'
  PROVE  /\ \A n : n \in NamesOf(SgtsOn(live)) => n \in NamesOf(SgtsOn(live))'
         /\ \A n : n \in NamesOf(AclsOn(live)) => n \in NamesOf(AclsOn(live))'
         /\ \A v : ValueTaken(v) => ValueTaken(v)'
         /\ \A n : n \in HeldPairs({}) => n \in HeldPairs({})'
<1>1. /\ DOMAIN objs \subseteq DOMAIN objs' /\ \A i \in DOMAIN objs : objs'[i] = objs[i]
      /\ live \subseteq DOMAIN objs /\ DOMAIN cells \subseteq Ids \X Ids
  BY ObjsGrow DEF TSInv, TargetTypeOK
<1>2. \A c \in Ids \X Ids : PairName(c)' = PairName(c)
  BY <1>1 DEF PairName, SgtName, Ids, NoId, AnyId
<1>3. /\ \A n : n \in NamesOf(SgtsOn(live)) => n \in NamesOf(SgtsOn(live))'
      /\ \A n : n \in NamesOf(AclsOn(live)) => n \in NamesOf(AclsOn(live))'
      /\ \A v : ValueTaken(v) => ValueTaken(v)'
  BY <1>1 DEF NamesOf, SgtsOn, AclsOn, ValueTaken
<1>4. /\ HeldPairs({}) = {PairName(c) : c \in DOMAIN cells}
      /\ HeldPairs({})' = {PairName(c)' : c \in DOMAIN cells'}
  BY DEF HeldPairs
<1>5. \A n : n \in HeldPairs({}) => n \in HeldPairs({})'
  BY <1>1, <1>2, <1>4
<1>6. QED
  BY <1>3, <1>5

(* What an item of the bundle being on the target means, by its kind.      *)
LEMMA OnTargetByKind ==
  ASSUME TypeOK
  PROVE  /\ \A x \in bundle.sgts : OnTarget(x) <=> x \in NamesOf(SgtsOn(live))
         /\ \A x \in bundle.acls : OnTarget(x) <=> x \in NamesOf(AclsOn(live))
         /\ \A x \in DOMAIN bundle.cells : OnTarget(x) <=> BundlePair(x) \in HeldPairs({})
<1>1. HeldPairs({}) = {PairName(c) : c \in DOMAIN cells}
  BY DEF HeldPairs
<1>2. /\ \A x \in bundle.sgts : x \notin DOMAIN bundle.cells
      /\ \A x \in bundle.acls : x \notin bundle.sgts /\ x \notin DOMAIN bundle.cells
  BY NamesAssumption, SourceAssumption DEF TypeOK
<1>3. QED
  BY <1>1, <1>2 DEF OnTarget, SgtNameTaken, AclNameTaken, BundlePair

LEMMA OnTargetStays ==
  ASSUME TSInv, TypeOK, TypeOK', [Next]_vars, live \subseteq live', DOMAIN cells \subseteq DOMAIN cells',
         bundle' = bundle
  PROVE  \A x \in Items : OnTarget(x) => OnTarget(x)'
<1>1. /\ \A n : n \in NamesOf(SgtsOn(live)) => n \in NamesOf(SgtsOn(live))'
      /\ \A n : n \in NamesOf(AclsOn(live)) => n \in NamesOf(AclsOn(live))'
      /\ \A n : n \in HeldPairs({}) => n \in HeldPairs({})'
  BY NamesStay
<1>2. /\ \A x \in bundle'.sgts : OnTarget(x)' <=> x \in NamesOf(SgtsOn(live))'
      /\ \A x \in bundle'.acls : OnTarget(x)' <=> x \in NamesOf(AclsOn(live))'
      /\ \A x \in DOMAIN bundle'.cells : OnTarget(x)' <=> BundlePair(x)' \in HeldPairs({})'
  <2>1. HeldPairs({})' = {PairName(c)' : c \in DOMAIN cells'}
    BY DEF HeldPairs
  <2>2. /\ \A x \in bundle'.sgts : x \notin DOMAIN bundle'.cells
        /\ \A x \in bundle'.acls : x \notin bundle'.sgts /\ x \notin DOMAIN bundle'.cells
    BY NamesAssumption, SourceAssumption DEF TypeOK
  <2>3. QED
    BY <2>1, <2>2 DEF OnTarget, SgtNameTaken, AclNameTaken, BundlePair
<1>3. \A x \in DOMAIN bundle.cells : BundlePair(x)' = BundlePair(x)
  BY DEF BundlePair
<1>4. QED
  BY <1>1, <1>2, <1>3, OnTargetByKind DEF Items

(* A POST of a group leaves it on the target or is counted as failed; when *)
(* no request failed, only a tag value that is taken does that.            *)
LEMMA SgtTried ==
  ASSUME TSInv, TypeOK, NEW s \in Sgts, CreateSgt(s)
  PROVE  /\ s \in bundle.sgts
         /\ \/ s \in NamesOf(SgtsOn(live))'
            \/ res'.failed = res.failed + 1 /\ (quiet' => ValueTaken(SourceSgts[s]))
<1>1. s \in bundle.sgts
  BY ItemKinds DEF CreateSgt
<1>2. /\ UNCHANGED bundle /\ objs \in Seq(Object) /\ live \subseteq DOMAIN objs
  BY DEF CreateSgt, Writing, TSInv, TargetTypeOK
<1>3. CASE Mint(SgtObject(s, SourceSgts[s]))
  <2>1. /\ Len(objs) + 1 \in live' /\ objs'[Len(objs) + 1] = SgtObject(s, SourceSgts[s])
    BY <1>2, <1>3 DEF Mint
  <2>2. QED
    BY <1>1, <2>1 DEF NamesOf, SgtsOn, SgtObject
<1>4. CASE SgtNameTaken(s) /\ UNCHANGED <<objs, live>>
  BY <1>1, <1>4 DEF SgtNameTaken, NamesOf, SgtsOn
<1>5. CASE Lost \/ (ValueTaken(SourceSgts[s]) /\ Refused)
  <2>1. Counted("failed")
    BY <1>5 DEF Lost, Refused
  <2>2. res'.failed = res.failed + 1
    <3>1. ResTyped
      BY DEF TypeOK, ResTyped
    <3>2. QED
      BY <2>1, <3>1, OutcomeTyped
  <2>3. quiet' => ValueTaken(SourceSgts[s])
    BY <1>5 DEF Lost, Fault
  <2>4. QED
    BY <1>1, <2>2, <2>3
<1>6. QED
  BY <1>3, <1>4, <1>5 DEF CreateSgt

(* A POST of an SGACL leaves it on the target or is counted as failed,     *)
(* which takes a request that failed.                                      *)
LEMMA AclTried ==
  ASSUME TSInv, TypeOK, NEW a \in Acls, CreateAcl(a)
  PROVE  /\ a \in bundle.acls
         /\ \/ a \in NamesOf(AclsOn(live))'
            \/ res'.failed = res.failed + 1 /\ ~quiet'
<1>1. a \in bundle.acls
  BY ItemKinds DEF CreateAcl
<1>2. objs \in Seq(Object) /\ live \subseteq DOMAIN objs
  BY DEF TSInv, TargetTypeOK
<1>3. CASE Mint(AclObject(a))
  <2>1. Len(objs) + 1 \in live' /\ objs'[Len(objs) + 1] = AclObject(a)
    BY <1>2, <1>3 DEF Mint
  <2>2. QED
    BY <1>1, <2>1 DEF NamesOf, AclsOn, AclObject
<1>4. CASE AclNameTaken(a) /\ UNCHANGED <<objs, live>>
  BY <1>1, <1>4 DEF AclNameTaken, NamesOf, AclsOn
<1>5. CASE Lost
  <2>1. Counted("failed") /\ ~quiet'
    BY <1>5 DEF Lost, Fault
  <2>2. ResTyped
    BY DEF TypeOK, ResTyped
  <2>3. QED
    BY <1>1, <2>1, <2>2, OutcomeTyped
<1>6. QED
  BY <1>3, <1>4, <1>5 DEF CreateAcl

(* A cell whose names resolve stands for the pair of its names.            *)
LEMMA SentPair ==
  ASSUME TSInv, phase = "cells", NEW p \in DOMAIN bundle.cells,
         ResolveCellRefs(bundle.cells[p])
  PROVE  /\ CellIds(bundle.cells[p]) \in Ids \X Ids
         /\ PairName(CellIds(bundle.cells[p])) = BundlePair(p)
<1> DEFINE cell == bundle.cells[p]
<1>1. /\ cell.src \in Sgts /\ cell.dst \in Sgts
      /\ sgtIDs[cell.src] # NoId /\ sgtIDs[cell.dst] # NoId
  BY DEF ResolveCellRefs, SgtResolves
<1>2. /\ sgtIDs[cell.src] \in Ids /\ objs[sgtIDs[cell.src]].name = cell.src
      /\ sgtIDs[cell.dst] \in Ids /\ objs[sgtIDs[cell.dst]].name = cell.dst
  BY <1>1 DEF TSInv, ResolvedByName
<1>3. QED
  BY <1>1, <1>2 DEF CellIds, PairName, SgtName, AnyId, NoId, BundlePair

(* A POST of a cell leaves its pair on the target or is counted as failed; *)
(* when no request failed, only a name that does not resolve or a refusal  *)
(* does that.                                                              *)
LEMMA CellTried ==
  ASSUME TSInv, TypeOK, NEW p \in Pairs, CreateCell(p)
  PROVE  /\ p \in DOMAIN bundle.cells
         /\ \/ BundlePair(p) \in HeldPairs({})'
            \/ /\ res'.failed = res.failed + 1
               /\ quiet' => ~ResolveCellRefs(bundle.cells[p]) \/ ~Accepted(p, bundle.cells[p])
<1> DEFINE cell == bundle.cells[p]
<1>1. p \in DOMAIN bundle.cells /\ phase = "cells" /\ UNCHANGED objs
  BY ItemKinds DEF CreateCell
<1>2. /\ HeldPairs({})' = {PairName(c)' : c \in DOMAIN cells'}
      /\ \A c : PairName(c)' = PairName(c)
  BY <1>1 DEF HeldPairs, PairName, SgtName
<1>3. CASE ResolveCellRefs(cell) /\ CellIds(cell) \in DOMAIN cells'
  BY <1>1, <1>2, <1>3, SentPair
<1>4. CASE Counted("failed") /\ (quiet' => ~ResolveCellRefs(cell) \/ ~Accepted(p, cell))
  <2>1. ResTyped
    BY DEF TypeOK, ResTyped
  <2>2. res'.failed = res.failed + 1
    BY <1>4, <2>1, OutcomeTyped
  <2>3. QED
    BY <1>1, <1>4, <2>2
<1>5. \/ ResolveCellRefs(cell) /\ CellIds(cell) \in DOMAIN cells'
      \/ Counted("failed") /\ (quiet' => ~ResolveCellRefs(cell) \/ ~Accepted(p, cell))
  BY DEF CreateCell, Refused, Lost, Fault, Extend
<1>6. QED
  BY <1>3, <1>4, <1>5

(* A step that decides nothing, tries nothing and ends nothing.            *)
LEMMA FrameKeepsReported ==
  ASSUME TSInv, TypeOK, TypeOK', ReportedInv, [Next]_vars, UNCHANGED <<bundle, verdict, todo>>,
         phase' = phase \/ phase' \notin {"export", "done"},
         res'.failed = res.failed, deleted => deleted'
  PROVE  ReportedInv'
<1>1. Creates' = Creates /\ Creates \subseteq Items
  BY ItemKinds DEF Creates
<1>2. CASE deleted'
  BY <1>1, <1>2 DEF ReportedInv
<1>3. CASE live \subseteq live' /\ DOMAIN cells \subseteq DOMAIN cells'
  <2>1. \A x \in Items : OnTarget(x) => OnTarget(x)'
    BY <1>3, OnTargetStays
  <2>2. QED
    BY <1>1, <2>1 DEF ReportedInv
<1>4. QED
  BY <1>2, <1>3, NothingLost

(* A write that leaves its item on the target or counts a failure.         *)
LEMMA WriteKeepsReported ==
  ASSUME TSInv, TypeOK, TypeOK', ReportedInv, [Next]_vars, UNCHANGED <<bundle, verdict, deleted, phase>>,
         live \subseteq live', DOMAIN cells \subseteq DOMAIN cells', Outcome,
         NEW x \in Items, todo' = todo \ {x},
         OnTarget(x)' \/ res'.failed = res.failed + 1
  PROVE  ReportedInv'
<1>1. Creates' = Creates /\ Creates \subseteq Items
  BY ItemKinds DEF Creates
<1>2. \A y \in Items : OnTarget(y) => OnTarget(y)'
  BY OnTargetStays
<1>3. ResTyped
  BY DEF TypeOK, ResTyped
<1>4. res.failed \in Nat /\ res'.failed \in {res.failed, res.failed + 1}
  BY <1>3, OutcomeTyped DEF Outcome, ResTyped
<1>5. res.failed # 0 => res'.failed # 0
  BY <1>4
<1>6. res'.failed = res.failed + 1 => res'.failed # 0
  BY <1>4
<1>7. QED
  BY <1>1, <1>2, <1>5, <1>6 DEF ReportedInv

LEMMA ReportedStep ==
  ASSUME TSInv, Fresh, TypeOK, TypeOK', ReportedInv, [Next]_vars
  PROVE  ReportedInv'
<1>1. CASE Export \/ ApplyRequest
  BY <1>1 DEF Export, ApplyRequest, Fresh, ReportedInv, Creates
<1>2. CASE ListCells
  <2>1. /\ \E held : verdict' = Verdicts(seenSgts, seenAcls, held)
        /\ todo' = {x \in Items : verdict'[x] = "create"}
        /\ phase' = "apply" \/ (phase' = "done" /\ todo' = {})
    BY <1>2 DEF ListCells
  <2>2. DOMAIN verdict' = Items
    BY <2>1 DEF Verdicts
  <2>3. Creates' = todo'
    BY <2>1, <2>2 DEF Creates
  <2>4. QED
    BY <2>1, <2>3 DEF ReportedInv
<1>3. ASSUME NEW s \in Sgts, CreateSgt(s)
      PROVE  ReportedInv'
  <2>1. /\ UNCHANGED <<bundle, verdict, deleted, phase, cells>> /\ todo' = todo \ {s}
        /\ live' = live \/ live' = live \cup {Len(objs) + 1}
    BY <1>3 DEF CreateSgt, Writing, Mint
  <2>2. s \in bundle.sgts /\ s \in Items /\ s \notin bundle.acls
    BY <1>3, SgtTried, ItemKinds DEF Items
  <2>3. s \in NamesOf(SgtsOn(live))' => OnTarget(s)'
    BY <2>1, <2>2 DEF OnTarget, SgtNameTaken
  <2>4. Outcome
    BY <1>3, WriteOutcome
  <2>5. QED
    BY <1>3, <2>1, <2>2, <2>3, <2>4, SgtTried, WriteKeepsReported
<1>4. ASSUME NEW a \in Acls, CreateAcl(a)
      PROVE  ReportedInv'
  <2>1. /\ UNCHANGED <<bundle, verdict, deleted, phase, cells>> /\ todo' = todo \ {a}
        /\ live' = live \/ live' = live \cup {Len(objs) + 1}
    BY <1>4 DEF CreateAcl, Writing, Mint
  <2>2. a \in bundle.acls /\ a \in Items /\ a \notin bundle.sgts
    BY <1>4, AclTried, ItemKinds DEF Items
  <2>3. a \in NamesOf(AclsOn(live))' => OnTarget(a)'
    BY <2>1, <2>2 DEF OnTarget, AclNameTaken
  <2>4. Outcome
    BY <1>4, WriteOutcome
  <2>5. QED
    BY <1>4, <2>1, <2>2, <2>3, <2>4, AclTried, WriteKeepsReported
<1>5. ASSUME NEW p \in Pairs, CreateCell(p)
      PROVE  ReportedInv'
  <2>1. /\ UNCHANGED <<bundle, verdict, deleted, phase, live>> /\ todo' = todo \ {p}
        /\ DOMAIN cells \subseteq DOMAIN cells'
    BY <1>5 DEF CreateCell, Writing, Extend
  <2>2. p \in DOMAIN bundle.cells /\ p \in Items /\ p \notin bundle.sgts /\ p \notin bundle.acls
    BY <1>5, CellTried, ItemKinds DEF Items
  <2>3. BundlePair(p) \in HeldPairs({})' => OnTarget(p)'
    BY <2>1, <2>2 DEF OnTarget, BundlePair, HeldPairs
  <2>4. Outcome
    BY <1>5, WriteOutcome
  <2>5. QED
    BY <1>5, <2>1, <2>2, <2>3, <2>4, CellTried, WriteKeepsReported
<1>6. CASE Finish
  <2>1. UNCHANGED <<objs, live, cells, bundle, verdict, todo, deleted>> /\ todo = {} /\ phase' = "done"
    BY <1>6 DEF Finish, Reading, target
  <2>2. ResTyped /\ res' = [res EXCEPT !.skipped = @ + Cardinality(Skips) + Cardinality(Skips)]
    BY <1>6 DEF Finish, Total, TypeOK, ResTyped
  <2>3. res'.failed = res.failed
    BY <2>2 DEF ResTyped
  <2>4. \A x : OnTarget(x)' <=> OnTarget(x)
    BY <2>1 DEF OnTarget, SgtNameTaken, AclNameTaken, NamesOf, SgtsOn, AclsOn, PairName, SgtName
  <2>5. QED
    BY <2>1, <2>3, <2>4 DEF ReportedInv, Creates
<1>7. CASE ListSgts \/ ListAcls \/ ReadSgtIDs \/ ReadAclIDs \/ ReadIDsFails
  <2>1. UNCHANGED <<bundle, verdict, todo, res, deleted>> /\ phase' \notin {"export", "done"}
    BY <1>7 DEF ListSgts, ListAcls, ReadSgtIDs, ReadAclIDs, ReadIDsFails, Reading
  <2>2. QED
    BY <2>1, FrameKeepsReported
<1>8. CASE Admin
  <2>1. UNCHANGED <<bundle, verdict, todo, res, phase>>
    BY <1>8 DEF Admin, AdminAddsSgt, AdminAddsAcl, AdminAddsCell, AdminDeletes, AdminDeletesCell,
                Edit, tool
  <2>2. deleted => deleted'
    BY <1>8 DEF Admin, AdminAddsSgt, AdminAddsAcl, AdminAddsCell, AdminDeletes, AdminDeletesCell
  <2>3. QED
    BY <2>1, <2>2, FrameKeepsReported
<1>9. CASE UNCHANGED vars
  BY <1>9, FrameKeepsReported DEF vars, tool
<1>10. QED
  BY <1>1, <1>2, <1>3, <1>4, <1>5, <1>6, <1>7, <1>8, <1>9 DEF Next, Handler

(* The invariants together, which the properties of an import rest on.     *)
THEOREM TrustSecReportedInv == Spec => []ReportedInv
<1>1. Init => ReportedInv
  BY DEF Init, ReportedInv, Creates
<1>2. TSInv /\ Fresh /\ TypeOK /\ TypeOK' /\ ReportedInv /\ [Next]_vars => ReportedInv'
  BY ReportedStep
<1>3. QED
  BY <1>1, <1>2, TrustSecInv, TrustSecTypeOK, PTL DEF Spec

(* An object that was to be created and is missing after the import is     *)
(* accounted for, for every bundle and every target: a failure is counted, *)
(* or somebody deleted something while the import ran.                     *)
THEOREM TrustSecMissingIsReported == Spec => []MissingIsReported
<1>1. ReportedInv => MissingIsReported
  BY DEF ReportedInv, MissingIsReported
<1>2. QED
  BY <1>1, TrustSecReportedInv, PTL

-----------------------------------------------------------------------------
(* What pre-flight announced is carried out, and a second run is idle.     *)

(* A step of an undisturbed run has no fault and is nobody else's.         *)
LEMMA QuietStep ==
  ASSUME [Next]_vars, quiet'
  PROVE  /\ ~Admin
         /\ ~ApplyRequest => quiet /\ ~Fault
<1>1. ~Edit /\ ~Fault
  BY DEF Edit, Fault
<1>2. ~Admin
  BY <1>1 DEF Admin, AdminAddsSgt, AdminAddsAcl, AdminAddsCell, AdminDeletes, AdminDeletesCell
<1>3. ASSUME ~ApplyRequest
      PROVE  quiet
  <2>1. quiet' = quiet
    <3>1. CASE Export \/ UNCHANGED vars
      BY <3>1 DEF Export, vars
    <3>2. CASE \/ \E s \in Sgts : CreateSgt(s)
               \/ \E a \in Acls : CreateAcl(a)
               \/ \E p \in Pairs : CreateCell(p)
      BY <1>1, <3>2, WriteOutcome DEF NoFault
    <3>3. CASE ListSgts \/ ListAcls \/ ListCells \/ ReadSgtIDs \/ ReadAclIDs \/ ReadIDsFails \/ Finish
      BY <1>1, <3>3 DEF ListSgts, ListAcls, ListCells, ReadSgtIDs, ReadAclIDs, ReadIDsFails, Finish, NoFault
    <3>4. QED
      BY <1>2, <1>3, <3>1, <3>2, <3>3 DEF Next, Handler
  <2>2. QED
    BY <2>1
<1>4. QED
  BY <1>1, <1>2, <1>3

(* The verdicts of pre-flight, by kind.                                    *)
LEMMA VerdictByKind ==
  ASSUME TypeOK, NEW sgts, NEW acls, NEW held
  PROVE  /\ \A s \in bundle.sgts : Verdicts(sgts, acls, held)[s] = SgtVerdict(s, sgts)
         /\ \A a \in bundle.acls :
              Verdicts(sgts, acls, held)[a] = IF a \in NamesOf(acls) THEN "skip" ELSE "create"
         /\ \A p \in DOMAIN bundle.cells :
              Verdicts(sgts, acls, held)[p] = CellVerdict(p, sgts, acls, held)
<1>1. /\ \A x \in bundle.sgts : x \notin DOMAIN bundle.cells /\ x \notin bundle.acls
      /\ \A x \in bundle.acls : x \notin bundle.sgts /\ x \notin DOMAIN bundle.cells
      /\ \A x \in DOMAIN bundle.cells : x \notin bundle.sgts /\ x \notin bundle.acls
  BY NamesAssumption, SourceAssumption DEF TypeOK
<1>2. QED
  BY <1>1 DEF Verdicts, Items

(* An import that creates x leaves the references of a cell backed, and    *)
(* backs no other.                                                         *)
LEMMA BackedStays ==
  ASSUME TSInv, TypeOK, [Next]_vars, bundle' = bundle, live \subseteq live',
         DOMAIN cells \subseteq DOMAIN cells', NEW x, x \in todo, todo' = todo \ {x},
         x \in bundle.sgts => x \in NamesOf(SgtsOn(live))',
         x \in bundle.acls => x \in NamesOf(AclsOn(live))',
         \A n : n \in NamesOf(SgtsOn(live))' => n \in NamesOf(SgtsOn(live)) \/ (n = x /\ x \in bundle.sgts),
         \A n : n \in NamesOf(AclsOn(live))' => n \in NamesOf(AclsOn(live)) \/ (n = x /\ x \in bundle.acls)
  PROVE  \A cell : Backed(cell)' <=> Backed(cell)
<1>1. \A n : n \in SgtNames' <=> n \in SgtNames
  BY NamesStay DEF SgtNames
<1>2. \A n : n \in AclNames' <=> n \in AclNames
  BY NamesStay DEF AclNames
<1>3. QED
  BY <1>1, <1>2 DEF Backed

(* What a new object adds to the names and the tag values on the target.   *)
LEMMA MintNames ==
  ASSUME TSInv, NEW o \in Object, Mint(o)
  PROVE  /\ \A n : n \in NamesOf(SgtsOn(live))' =>
                n \in NamesOf(SgtsOn(live)) \/ (o.kind = "sgt" /\ n = o.name)
         /\ \A n : n \in NamesOf(AclsOn(live))' =>
                n \in NamesOf(AclsOn(live)) \/ (o.kind = "sgacl" /\ n = o.name)
         /\ \A v : ValueTaken(v)' => ValueTaken(v) \/ (o.kind = "sgt" /\ v = o.value)
<1>1. /\ live' = live \cup {Len(objs) + 1} /\ objs'[Len(objs) + 1] = o
      /\ \A i \in live : objs'[i] = objs[i]
  BY DEF Mint, TSInv, TargetTypeOK
<1>2. QED
  BY <1>1 DEF NamesOf, SgtsOn, AclsOn, ValueTaken

LEMMA SameObjects ==
  ASSUME UNCHANGED <<objs, live>>
  PROVE  /\ \A n : n \in NamesOf(SgtsOn(live))' <=> n \in NamesOf(SgtsOn(live))
         /\ \A n : n \in NamesOf(AclsOn(live))' <=> n \in NamesOf(AclsOn(live))
         /\ \A v : ValueTaken(v)' <=> ValueTaken(v)
BY DEF NamesOf, SgtsOn, AclsOn, ValueTaken

(* Names on the target are names of their kind.                            *)
LEMMA NamesTyped ==
  ASSUME TSInv
  PROVE  NamesOf(SgtsOn(live)) \subseteq Sgts /\ NamesOf(AclsOn(live)) \subseteq Acls
<1>1. \A i \in live : objs[i] \in Object
  BY DEF TSInv, TargetTypeOK
<1>2. \A o \in Object : (o.kind = "sgt" => o.name \in Sgts) /\ (o.kind = "sgacl" => o.name \in Acls)
  BY DEF Object
<1>3. QED
  BY <1>1, <1>2 DEF NamesOf, SgtsOn, AclsOn

(* What CreateSgt, CreateAcl and CreateCell do to the names on the target  *)
(* in an undisturbed run.                                                  *)
LEMMA SgtWritten ==
  ASSUME TSInv, TypeOK, NEW s \in Sgts, CreateSgt(s), quiet'
  PROVE  /\ s \in bundle.sgts /\ s \in Items /\ s \notin bundle.acls /\ s \notin DOMAIN bundle.cells
         /\ s \in todo /\ todo' = todo \ {s} /\ phase = "apply" /\ phase' = "apply"
         /\ UNCHANGED <<bundle, verdict, deleted, multi, cells>> /\ live \subseteq live'
         /\ \A n : n \in NamesOf(SgtsOn(live))' => n \in NamesOf(SgtsOn(live)) \/ n = s
         /\ \A n : n \in NamesOf(AclsOn(live))' => n \in NamesOf(AclsOn(live))
         /\ \A v : ValueTaken(v)' => ValueTaken(v) \/ v = SourceSgts[s]
<1>1. /\ s \in todo /\ todo' = todo \ {s} /\ phase = "apply" /\ phase' = "apply"
      /\ UNCHANGED <<bundle, verdict, deleted, multi, cells>>
  BY DEF CreateSgt, Writing
<1>2. s \in bundle.sgts /\ s \in Items /\ s \notin bundle.acls /\ s \notin DOMAIN bundle.cells
  BY <1>1, ItemKinds, NamesAssumption DEF Items
<1>3. CASE Mint(SgtObject(s, SourceSgts[s]))
  <2> DEFINE o == SgtObject(s, SourceSgts[s])
  <2>1. o \in Object /\ o.kind = "sgt" /\ o.name = s /\ o.value = SourceSgts[s]
    BY <1>2, ItemKinds DEF SgtObject, Object
  <2> HIDE DEF o
  <2>2. QED
    BY <1>1, <1>2, <1>3, <2>1, MintNames DEF o, Mint
<1>4. CASE UNCHANGED <<objs, live>>
  BY <1>1, <1>2, <1>4, SameObjects
<1>5. QED
  BY <1>3, <1>4 DEF CreateSgt

LEMMA AclWritten ==
  ASSUME TSInv, TypeOK, NEW a \in Acls, CreateAcl(a), quiet'
  PROVE  /\ a \in bundle.acls /\ a \in Items /\ a \notin bundle.sgts /\ a \notin DOMAIN bundle.cells
         /\ a \in todo /\ todo' = todo \ {a} /\ phase = "apply" /\ phase' = "apply"
         /\ UNCHANGED <<bundle, verdict, deleted, multi, cells>> /\ live \subseteq live'
         /\ \A n : n \in NamesOf(SgtsOn(live))' => n \in NamesOf(SgtsOn(live))
         /\ \A n : n \in NamesOf(AclsOn(live))' => n \in NamesOf(AclsOn(live)) \/ n = a
         /\ \A v : ValueTaken(v)' => ValueTaken(v)
         /\ a \in NamesOf(AclsOn(live))'
<1>1. /\ a \in todo /\ todo' = todo \ {a} /\ phase = "apply" /\ phase' = "apply"
      /\ UNCHANGED <<bundle, verdict, deleted, multi, cells>>
  BY DEF CreateAcl, Writing
<1>2. a \in bundle.acls /\ a \in Items /\ a \notin bundle.sgts /\ a \notin DOMAIN bundle.cells
  BY <1>1, ItemKinds, NamesAssumption DEF Items
<1>3. a \in NamesOf(AclsOn(live))'
  BY AclTried
<1>4. CASE Mint(AclObject(a))
  <2> DEFINE o == AclObject(a)
  <2>1. o \in Object /\ o.kind = "sgacl" /\ o.name = a
    BY DEF AclObject, Object
  <2> HIDE DEF o
  <2>2. QED
    BY <1>1, <1>2, <1>3, <1>4, <2>1, MintNames DEF o, Mint
<1>5. CASE UNCHANGED <<objs, live>>
  BY <1>1, <1>2, <1>3, <1>5, SameObjects
<1>6. QED
  BY <1>4, <1>5 DEF CreateAcl

LEMMA CellWritten ==
  ASSUME TSInv, TypeOK, NEW p \in Pairs, CreateCell(p)
  PROVE  /\ p \in DOMAIN bundle.cells /\ p \in Items /\ p \notin bundle.sgts /\ p \notin bundle.acls
         /\ p \in todo /\ todo' = todo \ {p} /\ phase = "cells" /\ phase' = "cells"
         /\ UNCHANGED <<bundle, verdict, deleted, multi, objs, live, sgtIDs, aclIDs>>
         /\ DOMAIN cells \subseteq DOMAIN cells'
<1>1. /\ p \in todo /\ todo' = todo \ {p} /\ phase = "cells" /\ phase' = "cells"
      /\ UNCHANGED <<bundle, verdict, deleted, multi, objs, live, sgtIDs, aclIDs>>
      /\ DOMAIN cells \subseteq DOMAIN cells'
  BY DEF CreateCell, Writing, Extend
<1>2. QED
  BY <1>1, ItemKinds DEF Items

(* A write that is carried out keeps what pre-flight announced.            *)
LEMMA WriteKeepsAnnounced ==
  ASSUME TSInv, TypeOK, TypeOK', Announced, [Next]_vars, UNCHANGED <<bundle, verdict, multi>>,
         live \subseteq live', DOMAIN cells \subseteq DOMAIN cells',
         NEW x, todo' = todo \ {x}, \A cell : Backed(cell)' <=> Backed(cell),
         OnTarget(x)' \/ (x \in TwoRules /\ ~multi),
         \A t \in todo' \cap bundle.sgts : ValueTaken(SourceSgts[t])' => ValueTaken(SourceSgts[t])
  PROVE  Announced'
<1>1. Creates' = Creates /\ Creates \subseteq Items
  BY ItemKinds DEF Creates
<1>2. \A y \in Items : OnTarget(y) => OnTarget(y)'
  BY OnTargetStays
<1>3. \A s \in todo' \cap bundle'.sgts : ~ValueTaken(SourceSgts[s])'
  BY DEF Announced
<1>4. \A p \in todo' \cap DOMAIN bundle'.cells : Backed(bundle.cells[p])'
  BY DEF Announced
<1>5. \A y \in Creates' : y \in todo' \/ OnTarget(y)' \/ (y \in TwoRules /\ ~multi')
  BY <1>1, <1>2 DEF Announced
<1>6. \A p \in DOMAIN bundle'.cells : bundle'.cells[p] = bundle.cells[p]
  OBVIOUS
<1>7. QED
  BY <1>3, <1>4, <1>5, <1>6 DEF Announced, Backed, ValueTaken

(* Pre-flight of an undisturbed run: the verdicts follow from what is on   *)
(* the target.                                                             *)
LEMMA QuietVerdicts ==
  ASSUME TypeOK, KeptInv, [Next]_vars, ListCells, quiet'
  PROVE  /\ verdict' = Verdicts(SgtsOn(live), AclsOn(live), HeldPairs({}))
         /\ DOMAIN verdict' = Items /\ todo' = {x \in Items : verdict'[x] = "create"}
         /\ UNCHANGED <<objs, live, cells, multi, bundle, deleted>>
         /\ phase' \in {"apply", "done"}
<1>1. quiet /\ ~Fault
  BY QuietStep DEF ListCells, ApplyRequest
<1>2. seenSgts = SgtsOn(live) /\ seenAcls = AclsOn(live)
  BY <1>1 DEF KeptInv, ListCells
<1>3. verdict' = Verdicts(SgtsOn(live), AclsOn(live), HeldPairs({}))
  BY <1>1, <1>2 DEF ListCells
<1>4. /\ todo' = {x \in Items : verdict'[x] = "create"} /\ phase' \in {"apply", "done"}
      /\ UNCHANGED <<objs, live, cells, multi, bundle, deleted>>
  BY DEF ListCells, Reading, target
<1>5. QED
  BY <1>3, <1>4 DEF Verdicts

(* What backs a cell right after pre-flight is what it counted on.         *)
LEMMA BackedAfterPreflight ==
  ASSUME TSInv, TypeOK, KeptInv, [Next]_vars, ListCells, quiet', NEW p \in DOMAIN bundle.cells
  PROVE  Backed(bundle.cells[p])' <=> ~CellBlocked(bundle.cells[p], SgtsOn(live), AclsOn(live))
<1> DEFINE cell == bundle.cells[p]
<1>1. /\ verdict' = Verdicts(SgtsOn(live), AclsOn(live), HeldPairs({}))
      /\ todo' = {x \in Items : verdict'[x] = "create"}
      /\ UNCHANGED <<objs, live, bundle>>
  BY QuietVerdicts
<1>2. \A s \in bundle.sgts : s \in todo' <=> SgtVerdict(s, SgtsOn(live)) = "create"
  BY <1>1, VerdictByKind DEF Items
<1>3. \A a \in bundle.acls : a \in todo' <=> a \notin NamesOf(AclsOn(live))
  BY <1>1, VerdictByKind DEF Items
<1>4. \A n : n \in SgtNames' <=> n \in WillExistSgts(SgtsOn(live))
  BY <1>1, <1>2, SameObjects DEF SgtNames, WillExistSgts
<1>5. \A n : n \in AclNames' <=> n \in WillExistAcls(AclsOn(live))
  BY <1>1, <1>3, SameObjects DEF AclNames, WillExistAcls
<1>6. Backed(cell)' <=>
        /\ cell.src \in SgtNames' /\ cell.dst \in SgtNames'
        /\ \A k \in 1..Len(cell.acls) : cell.acls[k] \in AclNames'
  BY <1>1 DEF Backed
<1>7. QED
  BY <1>4, <1>5, <1>6 DEF CellBlocked

LEMMA PreflightAnnounces ==
  ASSUME TSInv, TypeOK, KeptInv, [Next]_vars, ListCells, quiet'
  PROVE  Announced'
<1>1. /\ verdict' = Verdicts(SgtsOn(live), AclsOn(live), HeldPairs({}))
      /\ DOMAIN verdict' = Items /\ todo' = {x \in Items : verdict'[x] = "create"}
      /\ UNCHANGED <<objs, live, bundle>>
  BY QuietVerdicts
<1>2. ASSUME NEW s \in todo', s \in bundle.sgts
      PROVE  ~ValueTaken(SourceSgts[s])'
  <2>1. SgtVerdict(s, SgtsOn(live)) = "create"
    BY <1>1, <1>2, VerdictByKind
  <2>2. ~ValueTaken(SourceSgts[s])
    BY <2>1 DEF SgtVerdict, NamesOf, ValueTaken
  <2>3. QED
    BY <1>1, <2>2, SameObjects
<1>3. ASSUME NEW p \in todo', p \in DOMAIN bundle.cells
      PROVE  Backed(bundle.cells[p])'
  <2>1. CellVerdict(p, SgtsOn(live), AclsOn(live), HeldPairs({})) = "create"
    BY <1>1, <1>3, VerdictByKind
  <2>2. ~CellBlocked(bundle.cells[p], SgtsOn(live), AclsOn(live))
    BY <2>1 DEF CellVerdict
  <2>3. QED
    BY <1>3, <2>2, BackedAfterPreflight
<1>4. Creates' = todo'
  BY <1>1 DEF Creates
<1>5. QED
  BY <1>1, <1>2, <1>3, <1>4 DEF Announced, ValueTaken, Backed

LEMMA KeptStep ==
  ASSUME TSInv, TypeOK, TypeOK', KeptInv, [Next]_vars
  PROVE  KeptInv'
<1> SUFFICES ASSUME quiet' PROVE KeptInv'
  BY DEF KeptInv
<1>1. CASE ApplyRequest \/ Export
  <2>1. phase' \in {"listSgts", "idle"}
    BY <1>1 DEF ApplyRequest, Export
  <2>2. QED
    BY <2>1 DEF KeptInv, Applying
<1>2. CASE ListSgts \/ ListAcls
  <2>1. quiet /\ ~Fault /\ UNCHANGED <<objs, live>>
    BY <1>2, QuietStep DEF ListSgts, ListAcls, ApplyRequest, Reading, target
  <2>2. QED
    BY <1>2, <2>1 DEF ListSgts, ListAcls, KeptInv, Applying, SgtsOn, AclsOn
<1>3. CASE ListCells
  BY <1>3, PreflightAnnounces, QuietVerdicts DEF KeptInv
<1>4. ASSUME NEW s \in Sgts, CreateSgt(s)
      PROVE  KeptInv'
  <2>1. /\ s \in bundle.sgts /\ s \in Items /\ s \notin bundle.acls /\ s \notin DOMAIN bundle.cells
        /\ s \in todo /\ todo' = todo \ {s} /\ phase = "apply" /\ phase' = "apply"
        /\ UNCHANGED <<bundle, verdict, multi, cells>> /\ live \subseteq live'
        /\ \A n : n \in NamesOf(SgtsOn(live))' => n \in NamesOf(SgtsOn(live)) \/ n = s
        /\ \A n : n \in NamesOf(AclsOn(live))' => n \in NamesOf(AclsOn(live))
        /\ \A v : ValueTaken(v)' => ValueTaken(v) \/ v = SourceSgts[s]
    BY <1>4, SgtWritten
  <2>2. Announced
    BY <1>4, <2>1, QuietStep DEF KeptInv, Applying, ApplyRequest
  <2>3. s \in NamesOf(SgtsOn(live))'
    BY <1>4, <2>1, <2>2, SgtTried DEF Announced
  <2>4. OnTarget(s)'
    BY <2>1, <2>3 DEF OnTarget, SgtNameTaken
  <2>5. \A cell : Backed(cell)' <=> Backed(cell)
    BY <2>1, <2>3, BackedStays
  <2>6. \A t \in todo' \cap bundle.sgts : ValueTaken(SourceSgts[t])' => ValueTaken(SourceSgts[t])
    BY <2>1, ValuesAssumption DEF TypeOK
  <2>7. Announced'
    BY <2>1, <2>2, <2>4, <2>5, <2>6, WriteKeepsAnnounced
  <2>8. QED
    BY <2>1, <2>7 DEF KeptInv
<1>5. ASSUME NEW a \in Acls, CreateAcl(a)
      PROVE  KeptInv'
  <2>1. /\ a \in bundle.acls /\ a \in Items /\ a \notin bundle.sgts /\ a \notin DOMAIN bundle.cells
        /\ a \in todo /\ todo' = todo \ {a} /\ phase = "apply" /\ phase' = "apply"
        /\ UNCHANGED <<bundle, verdict, multi, cells>> /\ live \subseteq live'
        /\ \A n : n \in NamesOf(SgtsOn(live))' => n \in NamesOf(SgtsOn(live))
        /\ \A n : n \in NamesOf(AclsOn(live))' => n \in NamesOf(AclsOn(live)) \/ n = a
        /\ \A v : ValueTaken(v)' => ValueTaken(v)
        /\ a \in NamesOf(AclsOn(live))'
    BY <1>5, AclWritten
  <2>2. Announced
    BY <1>5, <2>1, QuietStep DEF KeptInv, Applying, ApplyRequest
  <2>3. OnTarget(a)'
    BY <2>1 DEF OnTarget, AclNameTaken
  <2>4. \A cell : Backed(cell)' <=> Backed(cell)
    BY <2>1, BackedStays
  <2>5. Announced'
    BY <2>1, <2>2, <2>3, <2>4, WriteKeepsAnnounced
  <2>6. QED
    BY <2>1, <2>5 DEF KeptInv
<1>6. CASE ReadSgtIDs
  <2>1. /\ quiet /\ phase = "apply" /\ phase' = "readAcls"
        /\ UNCHANGED <<objs, live, cells, multi, bundle, verdict, todo>>
        /\ todo \cap (Sgts \cup Acls) = {}
        /\ sgtIDs' = [s \in Sgts |-> IdIn(SgtsOn(live), s)]
    BY <1>6, QuietStep DEF ReadSgtIDs, ApplyRequest, target
  <2>2. Announced
    BY <2>1 DEF KeptInv, Applying
  <2>3. Announced'
    BY <2>1, <2>2 DEF Announced, ValueTaken, SgtsOn, Backed, SgtNames, AclNames, NamesOf, AclsOn,
                      Creates, OnTarget, SgtNameTaken, AclNameTaken, PairName, SgtName
  <2>4. ASSUME NEW s \in NamesOf(SgtsOn(live))
        PROVE  sgtIDs'[s] \in live
    <3>1. s \in Sgts /\ sgtIDs'[s] = IdIn(SgtsOn(live), s)
      BY <2>1, <2>4, NamesTyped
    <3>2. \E i \in SgtsOn(live) : objs[i].name = s
      BY <2>4 DEF NamesOf
    <3>3. IdIn(SgtsOn(live), s) \in SgtsOn(live)
      BY <3>2 DEF IdIn
    <3>4. QED
      BY <3>1, <3>3 DEF SgtsOn
  <2>5. \A s : s \in NamesOf(SgtsOn(live))' <=> s \in NamesOf(SgtsOn(live))
    BY <2>1, SameObjects
  <2>6. QED
    BY <2>1, <2>3, <2>4, <2>5 DEF KeptInv
<1>7. CASE ReadAclIDs
  <2>1. /\ quiet /\ phase = "readAcls" /\ phase' = "cells"
        /\ UNCHANGED <<objs, live, cells, multi, bundle, verdict, todo, sgtIDs>>
        /\ aclIDs' = [a \in Acls |-> IdIn(AclsOn(live), a)]
    BY <1>7, QuietStep DEF ReadAclIDs, ApplyRequest, target
  <2>2. Announced
    BY <2>1 DEF KeptInv, Applying
  <2>3. Announced'
    BY <2>1, <2>2 DEF Announced, ValueTaken, SgtsOn, Backed, SgtNames, AclNames, NamesOf, AclsOn,
                      Creates, OnTarget, SgtNameTaken, AclNameTaken, PairName, SgtName
  <2>4. ASSUME NEW a \in NamesOf(AclsOn(live))
        PROVE  aclIDs'[a] \in live
    <3>1. a \in Acls /\ aclIDs'[a] = IdIn(AclsOn(live), a)
      BY <2>1, <2>4, NamesTyped
    <3>2. \E i \in AclsOn(live) : objs[i].name = a
      BY <2>4 DEF NamesOf
    <3>3. IdIn(AclsOn(live), a) \in AclsOn(live)
      BY <3>2 DEF IdIn
    <3>4. QED
      BY <3>1, <3>3 DEF AclsOn
  <2>5. /\ \A n : n \in NamesOf(SgtsOn(live))' <=> n \in NamesOf(SgtsOn(live))
        /\ \A n : n \in NamesOf(AclsOn(live))' <=> n \in NamesOf(AclsOn(live))
    BY <2>1, SameObjects
  <2>6. QED
    BY <2>1, <2>3, <2>4, <2>5 DEF KeptInv
<1>8. CASE ReadIDsFails
  BY <1>8, QuietStep DEF ReadIDsFails, ApplyRequest
<1>9. ASSUME NEW p \in Pairs, CreateCell(p)
      PROVE  KeptInv'
  <2> DEFINE cell == bundle.cells[p]
  <2>1. /\ p \in DOMAIN bundle.cells /\ p \in Items /\ p \notin bundle.sgts /\ p \notin bundle.acls
        /\ p \in todo /\ todo' = todo \ {p} /\ phase = "cells" /\ phase' = "cells"
        /\ UNCHANGED <<bundle, verdict, multi, objs, live, sgtIDs, aclIDs>>
        /\ DOMAIN cells \subseteq DOMAIN cells'
    BY <1>9, CellWritten
  <2>2. /\ Announced /\ todo \cap (Sgts \cup Acls) = {}
        /\ \A s \in NamesOf(SgtsOn(live)) : sgtIDs[s] \in live
        /\ \A a \in NamesOf(AclsOn(live)) : aclIDs[a] \in live
    BY <1>9, <2>1, QuietStep DEF KeptInv, Applying, ApplyRequest
  <2>3. /\ cell.src \in NamesOf(SgtsOn(live)) /\ cell.dst \in NamesOf(SgtsOn(live))
        /\ \A k \in 1..Len(cell.acls) : cell.acls[k] \in NamesOf(AclsOn(live))
    <3>1. Backed(cell)
      BY <2>1, <2>2 DEF Announced
    <3>2. todo \cap bundle.sgts = {} /\ todo \cap bundle.acls = {}
      BY <2>2, ItemKinds
    <3>3. QED
      BY <3>1, <3>2 DEF Backed, SgtNames, AclNames
  <2>4. NoId \notin live
    BY DEF TSInv, TargetTypeOK, NoId
  <2>5. ResolveCellRefs(cell)
    BY <2>2, <2>3, <2>4, NamesTyped DEF ResolveCellRefs, SgtResolves, AclResolves
  <2>6. (p \in TwoRules /\ ~multi) \/ Accepted(p, cell)
    BY <2>2, <2>3 DEF Accepted, CellIds, CellAcls
  <2>7. BundlePair(p) \in HeldPairs({})' \/ (p \in TwoRules /\ ~multi)
    BY <1>9, <2>5, <2>6, CellTried
  <2>8. BundlePair(p) \in HeldPairs({})' => OnTarget(p)'
    BY <2>1 DEF OnTarget, BundlePair, HeldPairs
  <2>9. /\ \A n : n \in NamesOf(SgtsOn(live))' <=> n \in NamesOf(SgtsOn(live))
        /\ \A n : n \in NamesOf(AclsOn(live))' <=> n \in NamesOf(AclsOn(live))
        /\ \A v : ValueTaken(v)' <=> ValueTaken(v)
    BY <2>1, SameObjects
  <2>10. \A c : Backed(c)' <=> Backed(c)
    BY <2>1, <2>9, BackedStays
  <2>11. Announced'
    BY <2>1, <2>2, <2>7, <2>8, <2>9, <2>10, WriteKeepsAnnounced
  <2>12. todo' \cap (Sgts \cup Acls) = {}
    BY <2>1, <2>2
  <2>13. QED
    BY <2>1, <2>2, <2>9, <2>11, <2>12 DEF KeptInv
<1>10. CASE Finish
  <2>1. /\ quiet /\ phase \in {"apply", "cells"} /\ phase' = "done"
        /\ UNCHANGED <<objs, live, cells, multi, bundle, verdict, todo>>
    BY <1>10, QuietStep DEF Finish, Reading, ApplyRequest, target
  <2>2. Announced
    BY <2>1 DEF KeptInv, Applying
  <2>3. Announced'
    BY <2>1, <2>2 DEF Announced, ValueTaken, SgtsOn, Backed, SgtNames, AclNames, NamesOf, AclsOn,
                      Creates, OnTarget, SgtNameTaken, AclNameTaken, PairName, SgtName
  <2>4. QED
    BY <2>1, <2>3 DEF KeptInv
<1>11. CASE UNCHANGED vars
  <2>1. quiet /\ UNCHANGED <<objs, live, cells, multi, bundle, verdict, todo, phase, seenSgts,
                             seenAcls, sgtIDs, aclIDs>>
    BY <1>11 DEF vars, target, tool
  <2>2. Applying => Announced
    BY <2>1 DEF KeptInv
  <2>3. Applying' => Announced'
    BY <2>1, <2>2 DEF Applying, Announced, ValueTaken, SgtsOn, Backed, SgtNames, AclNames, NamesOf,
                      AclsOn, Creates, OnTarget, SgtNameTaken, AclNameTaken, PairName, SgtName
  <2>4. QED
    BY <2>1, <2>3 DEF KeptInv, SgtsOn, AclsOn, NamesOf
<1>12. QED
  BY <1>1, <1>2, <1>3, <1>4, <1>5, <1>6, <1>7, <1>8, <1>9, <1>10, <1>11, QuietStep DEF Next, Handler

(* What pre-flight announced is carried out, for every bundle and every    *)
(* target, as long as no request fails and nobody else interferes; only a  *)
(* cell with two rules may still be refused.                               *)
THEOREM TrustSecVerdictsKept == Spec => []VerdictsKept
<1>1. Init => KeptInv
  BY DEF Init, KeptInv
<1>2. TSInv /\ TypeOK /\ TypeOK' /\ KeptInv /\ [Next]_vars => KeptInv'
  BY KeptStep
<1>3. KeptInv /\ ReportedInv => VerdictsKept
  BY DEF KeptInv, ReportedInv, VerdictsKept, Applying, Announced
<1>4. QED
  BY <1>1, <1>2, <1>3, TrustSecInv, TrustSecTypeOK, TrustSecReportedInv, PTL DEF Spec

(* A step that touches neither the target nor the report.                  *)
LEMMA FrameKeepsSettled ==
  ASSUME Settled, UNCHANGED <<objs, live, cells, bundle, verdict, todo>>
  PROVE  Settled'
  BY DEF Settled, Items, Skips, SgtNameTaken, AclNameTaken, ValueTaken, BundlePair, OnTarget,
         Backed, SgtNames, AclNames, NamesOf, SgtsOn, AclsOn, PairName, SgtName

(* A write of an undisturbed run takes nothing away: names, tag values and *)
(* cells on the target only grow, and no other reference becomes backed.   *)
LEMMA QuietWrite ==
  ASSUME TSInv, TypeOK, KeptInv, [Next]_vars, quiet',
         \/ \E s \in Sgts : CreateSgt(s)
         \/ \E a \in Acls : CreateAcl(a)
         \/ \E p \in Pairs : CreateCell(p)
  PROVE  /\ UNCHANGED <<bundle, verdict, deleted>>
         /\ live \subseteq live' /\ DOMAIN cells \subseteq DOMAIN cells'
         /\ \A cell : Backed(cell)' <=> Backed(cell)
<1>1. CASE \E s \in Sgts : CreateSgt(s)
  <2>1. PICK s \in Sgts : CreateSgt(s)
    BY <1>1
  <2>2. /\ s \in bundle.sgts /\ s \notin bundle.acls
        /\ s \in todo /\ todo' = todo \ {s} /\ phase = "apply"
        /\ UNCHANGED <<bundle, verdict, deleted, cells>> /\ live \subseteq live'
        /\ \A n : n \in NamesOf(SgtsOn(live))' => n \in NamesOf(SgtsOn(live)) \/ n = s
        /\ \A n : n \in NamesOf(AclsOn(live))' => n \in NamesOf(AclsOn(live))
    BY <2>1, SgtWritten
  <2>3. Announced
    BY <2>2, QuietStep DEF KeptInv, Applying, ApplyRequest
  <2>4. s \in NamesOf(SgtsOn(live))'
    BY <2>1, <2>2, <2>3, SgtTried DEF Announced
  <2>5. QED
    BY <2>2, <2>4, BackedStays
<1>2. CASE \E a \in Acls : CreateAcl(a)
  <2>1. PICK a \in Acls : CreateAcl(a)
    BY <1>2
  <2>2. /\ a \in bundle.acls /\ a \notin bundle.sgts
        /\ a \in todo /\ todo' = todo \ {a}
        /\ UNCHANGED <<bundle, verdict, deleted, cells>> /\ live \subseteq live'
        /\ \A n : n \in NamesOf(SgtsOn(live))' => n \in NamesOf(SgtsOn(live))
        /\ \A n : n \in NamesOf(AclsOn(live))' => n \in NamesOf(AclsOn(live)) \/ n = a
        /\ a \in NamesOf(AclsOn(live))'
    BY <2>1, AclWritten
  <2>3. QED
    BY <2>2, BackedStays
<1>3. CASE \E p \in Pairs : CreateCell(p)
  <2>1. PICK p \in Pairs : CreateCell(p)
    BY <1>3
  <2>2. /\ p \notin bundle.sgts /\ p \notin bundle.acls /\ p \in todo /\ todo' = todo \ {p}
        /\ UNCHANGED <<bundle, verdict, deleted, objs, live>> /\ DOMAIN cells \subseteq DOMAIN cells'
    BY <2>1, CellWritten
  <2>3. /\ \A n : n \in NamesOf(SgtsOn(live))' <=> n \in NamesOf(SgtsOn(live))
        /\ \A n : n \in NamesOf(AclsOn(live))' <=> n \in NamesOf(AclsOn(live))
    BY <2>2, SameObjects
  <2>4. QED
    BY <2>2, <2>3, BackedStays
<1>4. QED
  BY <1>1, <1>2, <1>3

(* The reasons pre-flight had in an undisturbed run hold when it ends.     *)
LEMMA PreflightSettles ==
  ASSUME TSInv, TypeOK, TypeOK', KeptInv, [Next]_vars, ListCells, quiet'
  PROVE  Settled'
<1>1. /\ verdict' = Verdicts(SgtsOn(live), AclsOn(live), HeldPairs({}))
      /\ DOMAIN verdict' = Items /\ UNCHANGED <<objs, live, cells, bundle>>
  BY QuietVerdicts
<1>2. ASSUME NEW s \in bundle.sgts, verdict'[s] = "skip"
      PROVE  SgtNameTaken(s)' \/ ValueTaken(SourceSgts[s])'
  <2>1. SgtVerdict(s, SgtsOn(live)) = "skip"
    BY <1>1, <1>2, VerdictByKind
  <2>2. s \in NamesOf(SgtsOn(live)) \/ ValueTaken(SourceSgts[s])
    BY <2>1 DEF SgtVerdict, ValueTaken
  <2>3. QED
    BY <1>1, <2>2, SameObjects DEF SgtNameTaken
<1>3. ASSUME NEW a \in bundle.acls, verdict'[a] = "skip"
      PROVE  AclNameTaken(a)'
  <2>1. a \in NamesOf(AclsOn(live))
    BY <1>1, <1>3, VerdictByKind
  <2>2. QED
    BY <1>1, <2>1, SameObjects DEF AclNameTaken
<1>4. ASSUME NEW p \in DOMAIN bundle.cells, verdict'[p] = "skip"
      PROVE  BundlePair(p) = AnyPair \/ OnTarget(p)' \/ ~Backed(bundle.cells[p])'
  <2>1. CellVerdict(p, SgtsOn(live), AclsOn(live), HeldPairs({})) = "skip"
    BY <1>1, <1>4, VerdictByKind
  <2>2. \/ BundlePair(p) = AnyPair
        \/ CellBlocked(bundle.cells[p], SgtsOn(live), AclsOn(live))
        \/ BundlePair(p) \in HeldPairs({})
    BY <2>1 DEF CellVerdict, BundlePair
  <2>3. BundlePair(p) \in HeldPairs({}) => OnTarget(p)'
    <3>1. OnTarget(p)' <=> OnTarget(p)
      BY <1>1 DEF OnTarget, SgtNameTaken, AclNameTaken, NamesOf, SgtsOn, AclsOn, PairName, SgtName
    <3>2. QED
      BY <3>1, OnTargetByKind
  <2>4. QED
    BY <2>2, <2>3, BackedAfterPreflight
<1>5. DOMAIN verdict' = Items'
  BY <1>1 DEF Items
<1>6. Skips' = {x \in Items : verdict'[x] = "skip"}
  BY <1>1 DEF Skips
<1>7. QED
  BY <1>1, <1>2, <1>3, <1>4, <1>5, <1>6 DEF Settled, BundlePair, Backed

LEMMA WriteKeepsSettled ==
  ASSUME TSInv, TypeOK, TypeOK', Settled, [Next]_vars, UNCHANGED <<bundle, verdict>>,
         live \subseteq live', DOMAIN cells \subseteq DOMAIN cells',
         \A cell : Backed(cell)' <=> Backed(cell)
  PROVE  Settled'
<1>1. /\ \A n : n \in NamesOf(SgtsOn(live)) => n \in NamesOf(SgtsOn(live))'
      /\ \A n : n \in NamesOf(AclsOn(live)) => n \in NamesOf(AclsOn(live))'
      /\ \A v : ValueTaken(v) => ValueTaken(v)'
  BY NamesStay
<1>3. \A x \in Items : OnTarget(x) => OnTarget(x)'
  BY OnTargetStays
<1>4. Skips' = Skips /\ Items' = Items
  BY DEF Skips, Items
<1>5. /\ \A s \in Skips' \cap bundle'.sgts : SgtNameTaken(s)' \/ ValueTaken(SourceSgts[s])'
      /\ \A a \in Skips' \cap bundle'.acls : AclNameTaken(a)'
  BY <1>1, <1>4 DEF Settled, SgtNameTaken, AclNameTaken
<1>6. \A p \in Skips' \cap DOMAIN bundle'.cells :
         BundlePair(p) = AnyPair \/ OnTarget(p)' \/ ~Backed(bundle.cells[p])'
  BY <1>3, <1>4 DEF Settled, Items
<1>7. \A p : BundlePair(p)' = BundlePair(p) /\ bundle'.cells[p] = bundle.cells[p]
  BY DEF BundlePair
<1>8. QED
  BY <1>4, <1>5, <1>6, <1>7 DEF Settled, ValueTaken, Backed

LEMMA SettledStep ==
  ASSUME TSInv, TypeOK, TypeOK', KeptInv, SettledInv, [Next]_vars
  PROVE  SettledInv'
<1> SUFFICES ASSUME quiet' PROVE ~deleted' /\ (Applying' => Settled')
  BY DEF SettledInv
<1>1. CASE ApplyRequest
  BY <1>1 DEF ApplyRequest, Applying
<1>2. CASE ~ApplyRequest
  <2>1. quiet /\ ~deleted /\ (Applying => Settled)
    BY <1>2, QuietStep DEF SettledInv
  <2>2. CASE Export \/ ListSgts \/ ListAcls
    <3>1. phase' \in {"idle", "listAcls", "listCells"} /\ deleted' = deleted
      BY <2>2 DEF Export, ListSgts, ListAcls, Reading
    <3>2. QED
      BY <2>1, <3>1 DEF Applying
  <2>3. CASE ListCells
    BY <2>1, <2>3, PreflightSettles, QuietVerdicts
  <2>4. CASE \/ \E s \in Sgts : CreateSgt(s)
             \/ \E a \in Acls : CreateAcl(a)
             \/ \E p \in Pairs : CreateCell(p)
    <3>1. Applying
      BY <2>4 DEF CreateSgt, CreateAcl, CreateCell, Applying
    <3>2. QED
      BY <2>1, <2>4, <3>1, QuietWrite, WriteKeepsSettled
  <2>5. CASE ReadSgtIDs \/ ReadAclIDs \/ Finish
    <3>1. Applying /\ UNCHANGED <<objs, live, cells, bundle, verdict, todo, deleted>>
      BY <2>5 DEF ReadSgtIDs, ReadAclIDs, Finish, Reading, target, Applying
    <3>2. QED
      BY <2>1, <3>1, FrameKeepsSettled
  <2>6. CASE ReadIDsFails
    BY <1>2, <2>6, QuietStep DEF ReadIDsFails
  <2>7. CASE UNCHANGED vars
    <3>1. UNCHANGED <<objs, live, cells, bundle, verdict, todo, deleted, phase>>
      BY <2>7 DEF vars, target, tool
    <3>2. Applying' = Applying
      BY <3>1 DEF Applying
    <3>3. QED
      BY <2>1, <3>1, <3>2, FrameKeepsSettled
  <2>8. QED
    BY <1>2, <2>2, <2>3, <2>4, <2>5, <2>6, <2>7, QuietStep DEF Next, Handler
<1>3. QED
  BY <1>1, <1>2

(* After an undisturbed import without failures everything that was        *)
(* announced is there, and what was skipped would be skipped again.        *)
LEMMA SettledMeansIdle ==
  ASSUME TypeOK, ReportedInv, SettledInv, phase = "done", quiet, res.failed = 0
  PROVE  \A x \in Items : Verdicts(SgtsOn(live), AclsOn(live), HeldPairs({}))[x] = "skip"
<1>1. /\ ~deleted /\ Settled /\ todo = {}
      /\ \A x \in Creates : OnTarget(x)
  BY DEF SettledInv, ReportedInv, Applying
<1>2. \A x \in Items : x \in Creates \/ x \in Skips
  BY <1>1 DEF Settled, TypeOK, Creates, Skips
<1>3. \A s \in bundle.sgts : s \in NamesOf(SgtsOn(live)) \/ ValueTaken(SourceSgts[s])
  BY <1>1, <1>2, OnTargetByKind DEF Settled, Items, SgtNameTaken
<1>4. \A a \in bundle.acls : a \in NamesOf(AclsOn(live))
  BY <1>1, <1>2, OnTargetByKind DEF Settled, Items, AclNameTaken
<1>5. \A s \in bundle.sgts : SgtVerdict(s, SgtsOn(live)) = "skip"
  BY <1>3 DEF SgtVerdict, ValueTaken, NamesOf
<1>6. /\ \A n : n \in WillExistSgts(SgtsOn(live)) <=> n \in SgtNames
      /\ \A n : n \in WillExistAcls(AclsOn(live)) <=> n \in AclNames
  BY <1>1, <1>4, <1>5 DEF WillExistSgts, WillExistAcls, SgtNames, AclNames
<1>7. ASSUME NEW p \in DOMAIN bundle.cells
      PROVE  CellVerdict(p, SgtsOn(live), AclsOn(live), HeldPairs({})) = "skip"
  <2>1. BundlePair(p) = AnyPair \/ OnTarget(p) \/ ~Backed(bundle.cells[p])
    BY <1>1, <1>2 DEF Settled, Items
  <2>2. ~Backed(bundle.cells[p]) => CellBlocked(bundle.cells[p], SgtsOn(live), AclsOn(live))
    BY <1>6 DEF Backed, CellBlocked
  <2>3. OnTarget(p) => BundlePair(p) \in HeldPairs({})
    BY OnTargetByKind
  <2>4. QED
    BY <2>1, <2>2, <2>3 DEF CellVerdict, BundlePair
<1>8. QED
  BY <1>4, <1>5, <1>7, VerdictByKind DEF Items

(* A second import after one that met no failure and no interference finds *)
(* nothing to create, for every bundle and every target.                   *)
THEOREM TrustSecRerunCreatesNothing == Spec => []RerunCreatesNothing
<1>1. Init => KeptInv /\ SettledInv
  BY DEF Init, KeptInv, SettledInv
<1>2. TSInv /\ TypeOK /\ TypeOK' /\ KeptInv /\ SettledInv /\ [Next]_vars => KeptInv' /\ SettledInv'
  BY KeptStep, SettledStep
<1>3. TypeOK /\ ReportedInv /\ SettledInv => RerunCreatesNothing
  BY SettledMeansIdle DEF RerunCreatesNothing
<1>4. QED
  BY <1>1, <1>2, <1>3, TrustSecInv, TrustSecTypeOK, TrustSecReportedInv, PTL DEF Spec
=============================================================================
