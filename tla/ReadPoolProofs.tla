--------------------------- MODULE ReadPoolProofs ---------------------------
(***************************************************************************)
(* Proofs about the read pool for every number of stubs and every set of   *)
(* workers.  PoolInv is inductive; the half-read claim follows from it     *)
(* because all workers are done when ersGetAll returns, so no sent stub is *)
(* still held, and every stub has been sent.                               *)
(*                                                                         *)
(* The export of the endpoint families runs the pool, so what is proved of *)
(* the pool holds of it.  ExportInv then shows that its bundle resolves,   *)
(* and ToldInv that what it leaves out is told: it follows the groups and  *)
(* endpoints nobody touched from the listing to the end.                   *)
(***************************************************************************)
EXTENDS EndpointExport, TLAPS

(* PoolInv holds when ersGetAll starts.                                    *)
LEMMA PoolInit == Init => PoolInv
  BY NAssumption, WorkersAssumption, NoErrorAssumption
     DEF Init, PoolInv, TypeOK, OneWorkerPerStub, ErrorIsReal, Stubs

(* Every step of the caller and of the workers preserves PoolInv.          *)
LEMMA PoolStep == PoolInv /\ [Next]_vars => PoolInv'
<1> SUFFICES ASSUME PoolInv, [Next]_vars PROVE PoolInv'
  OBVIOUS
<1> USE NAssumption, NoErrorAssumption
<1> USE DEF PoolInv, TypeOK, OneWorkerPerStub, ErrorIsReal, Stubs
<1>1. CASE CloseJobs
  BY <1>1 DEF CloseJobs
<1>2. CASE ReturnResult
  BY <1>2 DEF ReturnResult
<1>3. ASSUME NEW w \in Workers, SendJob(w) PROVE PoolInv'
  <2>1. TypeOK'
    BY <1>3 DEF SendJob
  <2>2. OneWorkerPerStub'
    BY <1>3 DEF SendJob
  <2>3. ErrorIsReal'
    BY <1>3 DEF SendJob
  <2>4. QED
    BY <1>3, <2>1, <2>2, <2>3 DEF SendJob
<1>4. ASSUME NEW w \in Workers, CheckStop(w) PROVE PoolInv'
  BY <1>4 DEF CheckStop, AfterCheck
<1>5. ASSUME NEW w \in Workers, GetByID(w) PROVE PoolInv'
  BY <1>5 DEF GetByID
<1>6. ASSUME NEW w \in Workers, StoreResult(w) PROVE PoolInv'
  <2>1. TypeOK'
    BY <1>6 DEF StoreResult, KeptError
  <2>2. OneWorkerPerStub'
    BY <1>6 DEF StoreResult, KeptError
  <2>3. ErrorIsReal'
    BY <1>6 DEF StoreResult, KeptError
  <2>4. QED
    BY <1>6, <2>1, <2>2, <2>3 DEF StoreResult, KeptError
<1>7. ASSUME NEW w \in Workers, WorkerDone(w) PROVE PoolInv'
  BY <1>7 DEF WorkerDone
<1>8. CASE UNCHANGED vars
  BY <1>8 DEF vars
<1>9. QED
  BY <1>1, <1>2, <1>3, <1>4, <1>5, <1>6, <1>7, <1>8 DEF Next, Step, Terminated

(* PoolInv is an invariant of the pool.                                    *)
THEOREM PoolCorrect == Spec => []PoolInv
  BY PoolInit, PoolStep, PTL DEF Spec

(* Type correctness of the pool, for every N and every set of workers.     *)
THEOREM PoolTypeOK == Spec => []TypeOK
<1>1. PoolInv => TypeOK
  BY DEF PoolInv
<1> QED
  BY <1>1, PoolCorrect, PTL

(* ersGetAll never returns a half-read family: without an error, every     *)
(* stub's object is in the slice.                                          *)
THEOREM PoolNoHalfRead == Spec => []NoHalfRead
<1>1. PoolInv => NoHalfRead
  BY NAssumption DEF PoolInv, TypeOK, NoHalfRead, Stubs
<1> QED
  BY <1>1, PoolCorrect, PTL
(* Every step of the pool is a step of the family read or leaves its       *)
(* abstract state unchanged.                                               *)
LEMMA FamilyStep ==
  PoolInv /\ PoolInv' /\ [Next]_vars => [Family!FRNext]_Family!frVars
<1> SUFFICES ASSUME PoolInv, PoolInv', [Next]_vars
             PROVE  [Family!FRNext]_Family!frVars
  OBVIOUS
<1> DEFINE objects == {i \in Stubs : out[i] = "object"}
<1> USE NAssumption, NoErrorAssumption
<1>1. CASE CloseJobs \/ UNCHANGED vars
  BY <1>1 DEF CloseJobs, vars, Family!frVars
<1>2. CASE ReturnResult
  <2>1. CASE firstEr = NoError
    <3>1. objects = Stubs
      BY <1>2, <2>1 DEF ReturnResult, PoolInv, TypeOK, Stubs
    <3>2. Family!AnswerObjects
      BY <1>2, <2>1, <3>1 DEF ReturnResult, Family!AnswerObjects
    <3>3. QED
      BY <3>2 DEF Family!FRNext
  <2>2. CASE firstEr # NoError
    <3>1. Family!AnswerError
      BY <1>2, <2>2 DEF ReturnResult, Family!AnswerError
    <3>2. QED
      BY <3>1 DEF Family!FRNext
  <2>3. QED
    BY <2>1, <2>2
<1>3. ASSUME NEW w \in Workers,
             SendJob(w) \/ CheckStop(w) \/ GetByID(w) \/ WorkerDone(w)
      PROVE  UNCHANGED Family!frVars
  BY <1>3 DEF SendJob, CheckStop, GetByID, WorkerDone, Family!frVars
<1>4. ASSUME NEW w \in Workers, StoreResult(w)
      PROVE  [Family!FRNext]_Family!frVars
  <2>0. job[w] \in Stubs
    BY <1>4 DEF StoreResult, PoolInv, TypeOK, Stubs
  <2> PICK j \in Stubs : j = job[w]
    BY <2>0
  <2>1. /\ out[j] = "nil"
        /\ ret = "pending" /\ ret' = "pending"
    BY <1>4 DEF StoreResult, PoolInv, TypeOK, OneWorkerPerStub, Stubs
  <2>2. CASE got[w] = "object"
    <3>1. objects' = objects \cup {j}
      BY <1>4, <2>1, <2>2 DEF StoreResult, PoolInv, TypeOK
    <3>2. firstEr' = firstEr
      BY <1>4, <2>2 DEF StoreResult, KeptError
    <3>3. Family!ReadObject(j)
      BY <2>1, <3>1, <3>2 DEF Family!ReadObject
    <3>4. QED
      BY <3>3 DEF Family!FRNext
  <2>3. CASE got[w] = "nil"
    <3>1. objects' = objects
      BY <1>4, <2>1, <2>3 DEF StoreResult, PoolInv, TypeOK
    <3>2. CASE firstEr = NoError
      <4>1. Family!FailObject(j)
        BY <1>4, <2>1, <2>3, <3>1, <3>2 DEF StoreResult, KeptError, Family!FailObject
      <4>2. QED
        BY <4>1 DEF Family!FRNext
    <3>3. CASE firstEr # NoError
      BY <1>4, <2>1, <3>1, <3>3 DEF StoreResult, KeptError, Family!frVars
    <3>4. QED
      BY <3>2, <3>3
  <2>4. got[w] \in {"object", "nil"}
    BY DEF PoolInv, TypeOK
  <2>5. QED
    BY <2>2, <2>3, <2>4
<1>5. QED
  BY <1>1, <1>2, <1>3, <1>4 DEF Next, Step, Terminated

(* The pool implements the family read it promises its callers: every      *)
(* object, or the error of one stub whose read really failed.              *)
THEOREM PoolImplementsFamilyRead == Spec => ImplementsFamilyRead
<1>1. Init => Family!FRInit
  BY DEF Init, Family!FRInit
<1> QED
  BY <1>1, FamilyStep, PoolCorrect, PTL DEF Spec, ImplementsFamilyRead, Family!FRSpec

-----------------------------------------------------------------------------
(* Every step of the export is a step of the pool or leaves it alone.      *)
LEMMA ExportPoolStep == [ExportNext]_exportVars => [Next]_vars
<1> SUFFICES ASSUME [ExportNext]_exportVars PROVE [Next]_vars
  OBVIOUS
<1>1. CASE PoolRuns
  BY <1>1 DEF PoolRuns, ReadGroup, Next, Step
<1>2. CASE Admin
  BY <1>2 DEF Admin, Edit, AdminDeletesGroup, AdminRenamesGroup, AdminCreatesGroup,
              AdminDeletesProfile, AdminMovesEndpoint, AdminDeletesEndpoint
<1>3. CASE ExportTerminated \/ UNCHANGED exportVars
  BY <1>3 DEF ExportTerminated, exportVars
<1>4. CASE \E m \in Macs : ReadMac(m)
  BY <1>4 DEF ReadMac
<1>5. CASE HandleExport \/ ListGroups \/ GroupsRead
  BY <1>5 DEF HandleExport, ListGroups, GroupsRead
<1>6. CASE ListProfiles \/ ListEndpoints \/ ListMacs \/ MacsRead \/ Filter
  BY <1>6 DEF ListProfiles, ListEndpoints, ListMacs, MacsRead, Filter
<1>7. QED
  BY <1>1, <1>2, <1>3, <1>4, <1>5, <1>6 DEF ExportNext, ExportStep

(* ExportEndpoints uses the pool as ReadPool describes it, whatever happens *)
(* to the source meanwhile.                                                *)
THEOREM ExportRunsPool == ExportSpec => Spec
<1>1. ExportInit => Init
  BY DEF ExportInit
<1> QED
  BY <1>1, ExportPoolStep, PTL DEF ExportSpec, Spec

(* No export is ever made of a group family with a hole in it.             *)
THEOREM ExportNoHalfRead == ExportSpec => []NoHalfRead
  BY ExportRunsPool, PoolNoHalfRead, PTL

(* ExportInv holds when a request arrives.                                 *)
LEMMA ExportInvInit == ExportInit => ExportInv
  BY DEF ExportInit, ExportInv, BundleResolves

(* No step of the export or of the administrator breaks ExportInv: the     *)
(* names are taken from seen, which nothing changes once the groups were   *)
(* read.                                                                   *)
LEMMA ExportInvStep == ExportInv /\ [ExportNext]_exportVars => ExportInv'
<1> SUFFICES ASSUME ExportInv, [ExportNext]_exportVars PROVE ExportInv'
  OBVIOUS
<1> USE DEF ExportInv, BundleResolves, WantGroups, SeenNames
<1>1. CASE HandleExport
  BY <1>1 DEF HandleExport, export
<1>2. CASE ListGroups
  BY <1>2 DEF ListGroups, export
<1>3. CASE PoolRuns
  BY <1>3 DEF PoolRuns
<1>4. CASE GroupsRead
  <2>1. UNCHANGED <<seen, request>> /\ phase # "done"
    BY <1>4 DEF GroupsRead
  <2>2. CASE ret = "error"
    <3>1. phase' = "failed" /\ UNCHANGED bundle
      BY <1>4, <2>2 DEF GroupsRead
    <3>2. QED
      BY <2>1, <3>1
  <2>3. CASE ret = "objects"
    <3>1. /\ bundle'.eps = bundle.eps
          /\ bundle' = [groups |-> bundle'.groups, eps |-> bundle'.eps]
      BY <1>4, <2>3 DEF GroupsRead
    <3>2. WantGroups => bundle'.groups = SeenNames \cap request.selection
      BY <1>4, <2>3 DEF GroupsRead
    <3>3. DOMAIN bundle'.eps = {}
      BY <2>1, <3>1
    <3>4. QED
      BY <2>1, <3>1, <3>2, <3>3
  <2>4. QED
    BY <1>4, <2>2, <2>3 DEF GroupsRead
<1>5. CASE ListProfiles
  BY <1>5 DEF ListProfiles
<1>6. CASE ListEndpoints
  BY <1>6 DEF ListEndpoints
<1>7. CASE ListMacs
  BY <1>7 DEF ListMacs
<1>8. ASSUME NEW m \in Macs, ReadMac(m) PROVE ExportInv'
  BY <1>8 DEF ReadMac
<1>9. CASE MacsRead
  BY <1>9 DEF MacsRead, export
<1>10. CASE Filter
  <2>1. DOMAIN bundle'.eps = Carried /\ bundle'.groups = bundle.groups
    BY <1>10 DEF Filter
  <2>2. ASSUME NEW m \in Carried
        PROVE  bundle'.eps[m].group \in SeenNames \cap request.selection
    <3>1. bundle'.eps[m].group = seen[taken[m].group]
      BY <1>10 DEF Filter
    <3>2. taken[m].group \in Stubs /\ seen[taken[m].group] \in request.selection
      BY DEF Carried, Candidates, InSelected, Selected
    <3>3. QED
      BY <3>1, <3>2
  <2>3. QED
    BY <1>10, <2>1, <2>2 DEF Filter
<1>11. CASE Admin
  <2>1. Edit
    BY <1>11 DEF Admin, AdminDeletesGroup, AdminRenamesGroup, AdminCreatesGroup,
                 AdminDeletesProfile, AdminMovesEndpoint, AdminDeletesEndpoint
  <2>2. QED
    BY <2>1 DEF Edit, export
<1>12. CASE ExportTerminated \/ UNCHANGED exportVars
  BY <1>12 DEF ExportTerminated, exportVars, export
<1>13. QED
  BY <1>1, <1>2, <1>3, <1>4, <1>5, <1>6, <1>7, <1>8, <1>9, <1>10, <1>11, <1>12
     DEF ExportNext, ExportStep

(* A finished bundle's endpoints refer by name to groups the operator      *)
(* selected and the bundle holds, for every source, request and number of  *)
(* changes made to the source during the export.                           *)
THEOREM ExportBundleResolves == ExportSpec => []BundleResolves
<1>1. ExportInv => BundleResolves
  BY DEF ExportInv
<1> QED
  BY <1>1, ExportInvInit, ExportInvStep, PTL DEF ExportSpec

-----------------------------------------------------------------------------
(* Assign and Without on a partial function.                               *)
LEMMA AssignPartial ==
  ASSUME NEW f, NEW S, NEW T, Partial(f, S, T), NEW x \in S, NEW v \in T
  PROVE  Partial(Assign(f, x, v), S, T)
<1> DEFINE g == [y \in DOMAIN f \cup {x} |-> IF y = x THEN v ELSE f[y]]
<1>1. DOMAIN g = DOMAIN f \cup {x} /\ \A y \in DOMAIN g : g[y] = IF y = x THEN v ELSE f[y]
  OBVIOUS
<1>2. g = [y \in DOMAIN g |-> g[y]]
  OBVIOUS
<1> HIDE DEF g
<1>3. \A y \in DOMAIN g : y \in S /\ g[y] \in T
  BY <1>1 DEF Partial
<1>4. QED
  BY <1>2, <1>3 DEF Partial, Assign, g

LEMMA WithoutPartial ==
  ASSUME NEW f, NEW S, NEW T, Partial(f, S, T), NEW x
  PROVE  Partial(Without(f, x), S, T)
<1> DEFINE g == [y \in DOMAIN f \ {x} |-> f[y]]
<1>1. DOMAIN g = DOMAIN f \ {x} /\ \A y \in DOMAIN g : g[y] = f[y]
  OBVIOUS
<1>2. g = [y \in DOMAIN g |-> g[y]]
  OBVIOUS
<1> HIDE DEF g
<1>3. QED
  BY <1>1, <1>2 DEF Partial, Without, g

LEMMA ExceptPartial ==
  ASSUME NEW f, NEW S, NEW T, Partial(f, S, T), NEW x, NEW v \in T
  PROVE  Partial([f EXCEPT ![x] = v], S, T)
<1> DEFINE g == [f EXCEPT ![x] = v]
<1>1. DOMAIN g = DOMAIN f /\ \A y \in DOMAIN g : g[y] = IF y = x THEN v ELSE f[y]
  BY DEF Partial
<1>2. g = [y \in DOMAIN g |-> g[y]]
  BY DEF Partial
<1> HIDE DEF g
<1>3. QED
  BY <1>1, <1>2 DEF Partial, g

-----------------------------------------------------------------------------
(* Types.                                                                  *)
SourceTypes ==
  /\ Partial(groups, GroupIds, Names)
  /\ nested \subseteq Stubs
  /\ Partial(profiles, ProfileIds, ProfileNames)
  /\ Partial(eps, Macs, Endpoint)
  /\ kept \subseteq Stubs /\ stable \subseteq DOMAIN eps
  /\ edits \in 0..MaxEdits /\ faults \in 0..MaxFaults

BundleTypes ==
  /\ request \in Requests
  /\ phase \in {"request", "listGroups", "readGroups", "listProfiles", "listEndpoints",
                "listMacs", "readMacs", "filter", "done", "failed"}
  /\ seen \in [Stubs -> Names \cup {NoName}]
  /\ Partial(profNames, ProfileIds, ProfileNames)
  /\ DOMAIN taken \cup todo \subseteq Macs
  /\ bundle.groups \subseteq Names
  /\ Partial(bundle.eps, Macs, [group : Names, profile : ProfileNames \cup {NoName}])

ExportTypes == SourceTypes /\ BundleTypes /\ ExportInv

(* An administrator's change keeps ids, names and endpoints in their       *)
(* types: a group created during the export has an id of its own.          *)
LEMMA AdminTypes == SourceTypes /\ Admin => SourceTypes'
<1> SUFFICES ASSUME SourceTypes, Admin PROVE SourceTypes'
  OBVIOUS
<1>1. Edit
  BY DEF Admin, AdminDeletesGroup, AdminRenamesGroup, AdminCreatesGroup,
         AdminDeletesProfile, AdminMovesEndpoint, AdminDeletesEndpoint
<1>2. UNCHANGED <<nested, faults>> /\ edits' \in 0..MaxEdits /\ edits < MaxEdits
  BY <1>1, BoundsAssumption DEF Edit, SourceTypes
<1>3. ASSUME NEW i \in DOMAIN groups, AdminDeletesGroup(i) PROVE SourceTypes'
  <2>1. Partial(groups', GroupIds, Names)
    BY <1>3, WithoutPartial DEF AdminDeletesGroup, SourceTypes
  <2>2. QED
    BY <1>2, <1>3, <2>1 DEF AdminDeletesGroup, SourceTypes
<1>4. ASSUME NEW i \in DOMAIN groups, NEW n \in Names, AdminRenamesGroup(i, n) PROVE SourceTypes'
  <2>1. Partial(groups', GroupIds, Names)
    BY <1>4, ExceptPartial DEF AdminRenamesGroup, SourceTypes
  <2>2. QED
    BY <1>2, <1>4, <2>1 DEF AdminRenamesGroup, SourceTypes
<1>5. ASSUME NEW n \in Names, AdminCreatesGroup(n) PROVE SourceTypes'
  <2>1. N + edits + 1 \in GroupIds
    BY <1>2, NAssumption, BoundsAssumption DEF SourceTypes, GroupIds
  <2>2. Partial(groups', GroupIds, Names)
    BY <1>5, <2>1, AssignPartial DEF AdminCreatesGroup, SourceTypes
  <2>3. QED
    BY <1>2, <1>5, <2>2 DEF AdminCreatesGroup, SourceTypes
<1>6. ASSUME NEW p \in DOMAIN profiles, AdminDeletesProfile(p) PROVE SourceTypes'
  <2>1. Partial(profiles', ProfileIds, ProfileNames)
    BY <1>6, WithoutPartial DEF AdminDeletesProfile, SourceTypes
  <2>2. QED
    BY <1>2, <1>6, <2>1 DEF AdminDeletesProfile, SourceTypes
<1>7. ASSUME NEW m \in DOMAIN eps, NEW i \in DOMAIN groups, AdminMovesEndpoint(m, i)
      PROVE  SourceTypes'
  <2> DEFINE ep == [eps[m] EXCEPT !.group = i, !.staticGroup = TRUE]
  <2>1. i \in GroupIds /\ eps[m] \in Endpoint
    BY DEF SourceTypes, Partial
  <2>2. ep \in Endpoint
    BY <2>1 DEF Endpoint
  <2>3. eps' = [eps EXCEPT ![m] = ep]
    BY <1>7 DEF AdminMovesEndpoint
  <2> HIDE DEF ep
  <2>4. Partial(eps', Macs, Endpoint)
    BY <2>2, <2>3, ExceptPartial DEF SourceTypes
  <2>5. DOMAIN eps' = DOMAIN eps
    BY <2>3
  <2>6. QED
    BY <1>2, <1>7, <2>4, <2>5 DEF AdminMovesEndpoint, SourceTypes
<1>8. ASSUME NEW m \in DOMAIN eps, AdminDeletesEndpoint(m) PROVE SourceTypes'
  <2>1. Partial(eps', Macs, Endpoint)
    BY <1>8, WithoutPartial DEF AdminDeletesEndpoint, SourceTypes
  <2>2. DOMAIN eps' = DOMAIN eps \ {m}
    BY <1>8 DEF AdminDeletesEndpoint, Without
  <2>3. QED
    BY <1>2, <1>8, <2>1, <2>2 DEF AdminDeletesEndpoint, SourceTypes
<1>9. QED
  BY <1>3, <1>4, <1>5, <1>6, <1>7, <1>8 DEF Admin

(* The types hold when a request arrives.                                  *)
LEMMA ExportTypesInit == ExportInit => ExportTypes
<1> SUFFICES ASSUME ExportInit PROVE ExportTypes
  OBVIOUS
<1>1. ExportInv
  BY ExportInvInit
<1>2. PICK s \in Sources :
        groups = s.groups /\ nested = s.nested /\ profiles = s.profiles /\ eps = s.eps
  BY DEF ExportInit
<1>3. s.groups \in [Stubs -> Names] /\ Stubs \subseteq GroupIds
  BY SourcesAssumption, NAssumption, BoundsAssumption DEF Stubs, GroupIds
<1>4. Partial(groups, GroupIds, Names)
  BY <1>2, <1>3 DEF Partial
<1>5. SourceTypes
  BY <1>2, <1>4, SourcesAssumption, BoundsAssumption DEF ExportInit, SourceTypes
<1>6. \A S, T : Partial(<< >>, S, T)
  BY DEF Partial
<1>7. BundleTypes
  BY <1>6 DEF ExportInit, BundleTypes
<1>8. QED
  BY <1>1, <1>5, <1>7 DEF ExportTypes

(* What ReadGroup writes into seen are names of groups.                    *)
LEMMA PoolTypes == ExportTypes /\ PoolRuns => SourceTypes' /\ BundleTypes'
<1> SUFFICES ASSUME ExportTypes, PoolRuns PROVE SourceTypes' /\ BundleTypes'
  OBVIOUS
<1>1. SourceTypes'
  BY DEF ExportTypes, SourceTypes, PoolRuns, source, history
<1>2. seen' \in [Stubs -> Names \cup {NoName}]
  <2>1. CASE UNCHANGED seen
    BY <2>1 DEF ExportTypes, BundleTypes
  <2>2. ASSUME NEW i \in DOMAIN groups, seen' = [seen EXCEPT ![i] = groups[i]]
        PROVE  seen' \in [Stubs -> Names \cup {NoName}]
    <3>1. groups[i] \in Names
      BY DEF ExportTypes, SourceTypes, Partial
    <3>2. QED
      BY <2>2, <3>1 DEF ExportTypes, BundleTypes
  <2>3. QED
    BY <2>1, <2>2 DEF PoolRuns, ReadGroup
<1>3. QED
  BY <1>1, <1>2 DEF ExportTypes, BundleTypes, PoolRuns

(* The bundle's endpoints have a name for their group and, when it is      *)
(* static, one for their profile.                                          *)
LEMMA FilterTypes == ExportTypes /\ Filter => SourceTypes' /\ BundleTypes'
<1> SUFFICES ASSUME ExportTypes, Filter PROVE SourceTypes' /\ BundleTypes'
  OBVIOUS
<1> DEFINE Ep(m) == [group |-> seen[taken[m].group], profile |-> ProfileName(taken[m])]
           new == [m \in Carried |-> Ep(m)]
<1>1. /\ SourceTypes' /\ bundle'.eps = new /\ bundle'.groups = bundle.groups
      /\ UNCHANGED <<request, seen, profNames, todo, taken>> /\ phase' = "done"
  BY DEF ExportTypes, SourceTypes, ExportInv, Filter, source, history
<1>2. ASSUME NEW m \in Carried
      PROVE  m \in Macs /\ Ep(m) \in [group : Names, profile : ProfileNames \cup {NoName}]
  <2>1. m \in DOMAIN taken /\ taken[m].group \in Stubs /\ seen[taken[m].group] \in request.selection
    BY DEF Carried, Candidates, InSelected, Selected
  <2>2. request.selection \subseteq Names
    BY RequestsAssumption DEF ExportTypes, BundleTypes
  <2>3. ProfileName(taken[m]) \in ProfileNames \cup {NoName}
    BY DEF Carried, ProfileResolves, ProfileName, ExportTypes, BundleTypes, Partial
  <2>4. QED
    BY <2>1, <2>2, <2>3 DEF ExportTypes, BundleTypes
<1>3. DOMAIN new = Carried /\ \A m \in Carried : new[m] = Ep(m)
  OBVIOUS
<1>4. new = [m \in DOMAIN new |-> new[m]]
  OBVIOUS
<1> HIDE DEF Ep, new
<1>5. Partial(new, Macs, [group : Names, profile : ProfileNames \cup {NoName}])
  BY <1>2, <1>3, <1>4 DEF Partial
<1>6. QED
  BY <1>1, <1>5 DEF ExportTypes, BundleTypes

(* No step leaves the types.                                               *)
LEMMA ExportTypesStep == ExportTypes /\ [ExportNext]_exportVars => ExportTypes'
<1> SUFFICES ASSUME ExportTypes, [ExportNext]_exportVars PROVE ExportTypes'
  OBVIOUS
<1>1. ExportInv'
  BY ExportInvStep DEF ExportTypes
<1>2. ASSUME UNCHANGED source, UNCHANGED <<kept, stable, edits>>, Fault \/ UNCHANGED faults
      PROVE  SourceTypes'
  BY <1>2, BoundsAssumption DEF ExportTypes, SourceTypes, source, Fault
<1>3. CASE Admin
  <2>1. UNCHANGED <<export, phase>>
    BY <1>3 DEF Admin, AdminDeletesGroup, AdminRenamesGroup, AdminCreatesGroup,
                AdminDeletesProfile, AdminMovesEndpoint, AdminDeletesEndpoint, Edit
  <2>2. BundleTypes'
    BY <2>1 DEF ExportTypes, BundleTypes, export
  <2>3. QED
    BY <1>1, <1>3, <2>2, AdminTypes DEF ExportTypes
<1>4. CASE PoolRuns
  BY <1>1, <1>4, PoolTypes DEF ExportTypes
<1>5. CASE Filter
  BY <1>1, <1>5, FilterTypes DEF ExportTypes
<1>6. CASE GroupsRead
  <2>1. SourceTypes'
    BY <1>2, <1>6 DEF GroupsRead, history
  <2>2. bundle'.groups \subseteq Names /\ bundle'.eps = bundle.eps
    BY <1>6, RequestsAssumption DEF GroupsRead, ExportTypes, BundleTypes, ExportInv
  <2>3. BundleTypes'
    BY <1>6, <2>2 DEF GroupsRead, ExportTypes, BundleTypes
  <2>4. QED
    BY <1>1, <2>1, <2>3 DEF ExportTypes
<1>7. CASE HandleExport \/ ListGroups \/ ListEndpoints \/ ListMacs \/ MacsRead \/ ListProfiles
  <2>1. SourceTypes'
    BY <1>2, <1>7
       DEF HandleExport, ListGroups, ListEndpoints, ListMacs, MacsRead, ListProfiles, history
  <2>2. DOMAIN taken' \cup todo' \subseteq Macs
    BY <1>7 DEF HandleExport, ListGroups, ListEndpoints, ListMacs, MacsRead, ListProfiles, export,
                ExportTypes, BundleTypes, SourceTypes, Partial
  <2>3. Partial(profNames', ProfileIds, ProfileNames)
    BY <1>7 DEF HandleExport, ListGroups, ListEndpoints, ListMacs, MacsRead, ListProfiles, export,
                ExportTypes, BundleTypes, SourceTypes
  <2>4. UNCHANGED <<request, seen, bundle>>
    BY <1>7 DEF HandleExport, ListGroups, ListEndpoints, ListMacs, MacsRead, ListProfiles, export
  <2>5. phase' \in {"done", "failed", "listGroups", "readGroups", "listEndpoints", "filter",
                    "listMacs", "readMacs"}
    BY <1>7 DEF HandleExport, ListGroups, ListEndpoints, ListMacs, MacsRead, ListProfiles
  <2>6. QED
    BY <1>1, <2>1, <2>2, <2>3, <2>4, <2>5 DEF ExportTypes, BundleTypes
<1>8. ASSUME NEW m \in Macs, ReadMac(m) PROVE ExportTypes'
  <2>1. SourceTypes'
    BY <1>2, <1>8 DEF ReadMac
  <2>2. DOMAIN taken' \cup todo' \subseteq Macs
    BY <1>8 DEF ReadMac, Assign, ExportTypes, BundleTypes
  <2>3. QED
    BY <1>1, <1>8, <2>1, <2>2 DEF ReadMac, ExportTypes, BundleTypes
<1>9. CASE ExportTerminated \/ UNCHANGED exportVars
  BY <1>1, <1>9
     DEF ExportTerminated, exportVars, source, export, history, ExportTypes, SourceTypes, BundleTypes
<1>10. QED
  BY <1>3, <1>4, <1>5, <1>6, <1>7, <1>8, <1>9 DEF ExportNext, ExportStep

(* Type correctness of the export, for every source, request and number of *)
(* changes made to the source meanwhile.                                   *)
THEOREM ExportTypesOK == ExportSpec => []ExportTypeOK
<1>1. TypeOK /\ ExportTypes => ExportTypeOK
  BY DEF ExportTypes, SourceTypes, BundleTypes, ExportTypeOK
<1>2. QED
  BY <1>1, ExportRunsPool, PoolTypeOK, ExportTypesInit, ExportTypesStep, PTL DEF ExportSpec

-----------------------------------------------------------------------------
(* Nothing is left out silently.                                           *)

(* ToldInv holds when a request arrives.                                   *)
LEMMA ToldInit == ExportInit => ToldInv
<1> SUFFICES ASSUME ExportInit PROVE ToldInv
  OBVIOUS
<1>1. PICK s \in Sources :
        groups = s.groups /\ nested = s.nested /\ profiles = s.profiles /\ eps = s.eps
  BY DEF ExportInit
<1>2. SeenInv
  <2>1. DOMAIN groups = Stubs
    BY <1>1, SourcesAssumption
  <2>2. \A w \in Workers : got[w] = "nil"
    BY DEF ExportInit, Init
  <2>3. \A i \in Stubs : ~Read(i)
    BY <2>2 DEF ExportInit, Init, Read
  <2>4. QED
    BY <2>1, <2>2, <2>3 DEF ExportInit, SeenInv
<1>3. StableInv
  <2>1. DOMAIN profNames = {}
    BY DEF ExportInit
  <2>2. \A m \in DOMAIN eps : eps[m].group \in Stubs
    BY <1>1, SourcesAssumption
  <2>3. QED
    BY <2>1, <2>2 DEF ExportInit, StableInv
<1>4. QED
  BY <1>2, <1>3 DEF ExportInit, ToldInv, TakenInv, GroupsTold

(* What an administrator's change leaves as it was: the name of a group    *)
(* that stays in kept, and of an endpoint that stays in stable the group,  *)
(* the profile and its name.                                               *)
StableFrame ==
  /\ kept' \subseteq kept /\ kept' \subseteq DOMAIN groups'
  /\ \A i \in kept' : groups'[i] = groups[i]
  /\ stable' \subseteq stable
  /\ \A m \in stable' :
       /\ m \in DOMAIN eps' /\ eps'[m] = eps[m] /\ eps[m].group \in kept'
       /\ eps[m].profile \in DOMAIN profiles =>
            eps[m].profile \in DOMAIN profiles' /\ profiles'[eps[m].profile] = profiles[eps[m].profile]

LEMMA AdminFrame == ExportTypes /\ ToldInv /\ Admin => StableFrame
<1> SUFFICES ASSUME ExportTypes, ToldInv, Admin PROVE StableFrame
  OBVIOUS
<1>1. /\ kept \subseteq DOMAIN groups /\ kept \subseteq Stubs
      /\ \A m \in stable : m \in DOMAIN eps /\ eps[m].group \in kept
  BY DEF ToldInv, SeenInv, StableInv, ExportTypes, SourceTypes
<1>2. ASSUME NEW i \in DOMAIN groups, AdminDeletesGroup(i) PROVE StableFrame
  <2>1. DOMAIN groups' = DOMAIN groups \ {i} /\ \A j \in DOMAIN groups' : groups'[j] = groups[j]
    BY <1>2 DEF AdminDeletesGroup, Without
  <2>2. \A m \in stable : eps[m].group # i
    BY <1>1, <1>2 DEF AdminDeletesGroup, In
  <2>3. QED
    BY <1>1, <1>2, <2>1, <2>2 DEF AdminDeletesGroup, StableFrame
<1>3. ASSUME NEW i \in DOMAIN groups, NEW n \in Names, AdminRenamesGroup(i, n) PROVE StableFrame
  <2>1. DOMAIN groups' = DOMAIN groups /\ \A j \in DOMAIN groups \ {i} : groups'[j] = groups[j]
    BY <1>3 DEF AdminRenamesGroup
  <2>2. \A m \in stable' : m \in stable /\ eps[m].group # i
    BY <1>1, <1>3 DEF AdminRenamesGroup, In
  <2>3. QED
    BY <1>1, <1>3, <2>1, <2>2 DEF AdminRenamesGroup, StableFrame
<1>4. ASSUME NEW n \in Names, AdminCreatesGroup(n) PROVE StableFrame
  <2>1. N + edits + 1 \notin Stubs
    BY NAssumption DEF ExportTypes, SourceTypes, Stubs
  <2>2. /\ DOMAIN groups' = DOMAIN groups \cup {N + edits + 1}
        /\ \A j \in DOMAIN groups \ {N + edits + 1} : groups'[j] = groups[j]
    BY <1>4 DEF AdminCreatesGroup, Assign
  <2>3. QED
    BY <1>1, <1>4, <2>1, <2>2 DEF AdminCreatesGroup, StableFrame
<1>5. ASSUME NEW p \in DOMAIN profiles, AdminDeletesProfile(p) PROVE StableFrame
  <2>1. DOMAIN profiles' = DOMAIN profiles \ {p} /\ \A q \in DOMAIN profiles' : profiles'[q] = profiles[q]
    BY <1>5 DEF AdminDeletesProfile, Without
  <2>2. QED
    BY <1>1, <1>5, <2>1 DEF AdminDeletesProfile, StableFrame
<1>6. ASSUME NEW m \in DOMAIN eps, NEW i \in DOMAIN groups, AdminMovesEndpoint(m, i)
      PROVE  StableFrame
  <2>1. DOMAIN eps' = DOMAIN eps /\ \A x \in DOMAIN eps \ {m} : eps'[x] = eps[x]
    BY <1>6 DEF AdminMovesEndpoint
  <2>2. QED
    BY <1>1, <1>6, <2>1 DEF AdminMovesEndpoint, StableFrame
<1>7. ASSUME NEW m \in DOMAIN eps, AdminDeletesEndpoint(m) PROVE StableFrame
  <2>1. DOMAIN eps' = DOMAIN eps \ {m} /\ \A x \in DOMAIN eps' : eps'[x] = eps[x]
    BY <1>7 DEF AdminDeletesEndpoint, Without
  <2>2. QED
    BY <1>1, <1>7, <2>1 DEF AdminDeletesEndpoint, StableFrame
<1>8. QED
  BY <1>2, <1>3, <1>4, <1>5, <1>6, <1>7 DEF Admin

(* An administrator's change keeps ToldInv.                                *)
LEMMA AdminTold == ExportTypes /\ ToldInv /\ Admin => ToldInv'
<1> SUFFICES ASSUME ExportTypes, ToldInv, Admin PROVE ToldInv'
  OBVIOUS
<1>1. StableFrame
  BY AdminFrame
<1>2. UNCHANGED <<vars, export, phase>> /\ phase # "done"
  BY DEF Admin, AdminDeletesGroup, AdminRenamesGroup, AdminCreatesGroup, AdminDeletesProfile,
         AdminMovesEndpoint, AdminDeletesEndpoint, Edit
<1>3. SeenInv'
  <2>1. \A i : Read(i)' => Read(i)
    BY <1>2 DEF Read, vars
  <2>2. QED
    BY <1>1, <1>2, <2>1 DEF ToldInv, SeenInv, StableFrame, vars, export
<1>4. StableInv'
  BY <1>1, <1>2 DEF ToldInv, StableInv, StableFrame, export
<1>5. TakenInv'
  BY <1>1, <1>2 DEF ToldInv, TakenInv, StableFrame, export
<1>6. GroupsTold'
  BY <1>1, <1>2 DEF ToldInv, GroupsTold, GroupTold, StableFrame, WantGroups, export, vars
<1>7. QED
  BY <1>2, <1>3, <1>4, <1>5, <1>6 DEF ToldInv

(* What a worker has of a group the administrator left alone is its name.  *)
LEMMA PoolTold == ExportTypes /\ PoolInv /\ ToldInv /\ PoolRuns => ToldInv'
<1> SUFFICES ASSUME ExportTypes, PoolInv, ToldInv, PoolRuns PROVE ToldInv'
  OBVIOUS
<1>1. /\ phase = "readGroups" /\ phase' = "readGroups"
      /\ UNCHANGED <<groups, profiles, eps, profNames, kept, stable>>
  BY DEF PoolRuns, source, history
<1>2. job \in [Workers -> 0..N] /\ got \in [Workers -> {"object", "nil"}]
      /\ pc \in [Workers -> {"receive", "check", "read", "store", "done"}]
      /\ out \in [Stubs -> {"object", "nil"}] /\ kept \subseteq Stubs /\ Stubs = 1..N
  BY DEF PoolInv, TypeOK, ExportTypes, SourceTypes, Stubs
<1>3. /\ \A w \in Workers : got[w] = "object" => pc[w] = "store"
      /\ \A i \in kept : Read(i) => seen[i] = groups[i]
  BY DEF ToldInv, SeenInv
<1>4. /\ \A w \in Workers : got'[w] = "object" => pc'[w] = "store"
      /\ \A i \in kept : Read(i)' => seen'[i] = groups[i]
  <2>1. CASE (CloseJobs \/ ReturnResult) /\ UNCHANGED seen
    BY <1>3, <2>1 DEF CloseJobs, ReturnResult, Read
  <2>2. ASSUME NEW w \in Workers, ReadGroup(w)
        PROVE  /\ \A v \in Workers : got'[v] = "object" => pc'[v] = "store"
               /\ \A i \in kept : Read(i)' => seen'[i] = groups[i]
    <3>1. /\ UNCHANGED <<job, out>> /\ pc' = [pc EXCEPT ![w] = "store"]
          /\ \A v \in Workers \ {w} : got'[v] = got[v]
      BY <1>2, <2>2 DEF ReadGroup, GetByID
    <3>2. \A v \in Workers : got'[v] = "object" => pc'[v] = "store"
      BY <1>2, <1>3, <3>1
    <3>3. ASSUME NEW i \in kept, Read(i)' PROVE seen'[i] = groups[i]
      <4>1. CASE job[w] = i /\ got'[w] = "object"
        BY <1>2, <2>2, <4>1 DEF ReadGroup, ExportTypes, BundleTypes
      <4>2. CASE Read(i)
        BY <1>2, <1>3, <2>2, <4>2 DEF ReadGroup, ExportTypes, BundleTypes
      <4>3. QED
        BY <3>1, <3>3, <4>1, <4>2 DEF Read
    <3>4. QED
      BY <3>2, <3>3
  <2>3. ASSUME NEW w \in Workers, SendJob(w), UNCHANGED seen
        PROVE  /\ \A v \in Workers : got'[v] = "object" => pc'[v] = "store"
               /\ \A i \in kept : Read(i)' => seen'[i] = groups[i]
    <3>1. /\ UNCHANGED <<got, out>> /\ got[w] # "object" /\ pc' = [pc EXCEPT ![w] = "check"]
          /\ \A v \in Workers \ {w} : job'[v] = job[v]
      BY <1>2, <1>3, <2>3 DEF SendJob
    <3>2. \A i : Read(i)' => Read(i)
      BY <3>1 DEF Read
    <3>3. QED
      BY <1>2, <1>3, <2>3, <3>1, <3>2
  <2>4. ASSUME NEW w \in Workers, CheckStop(w), UNCHANGED seen
        PROVE  /\ \A v \in Workers : got'[v] = "object" => pc'[v] = "store"
               /\ \A i \in kept : Read(i)' => seen'[i] = groups[i]
    <3>1. /\ UNCHANGED <<got, out>> /\ got[w] # "object" /\ pc' = [pc EXCEPT ![w] = AfterCheck]
          /\ \A v \in Workers \ {w} : job'[v] = job[v]
      BY <1>2, <1>3, <2>4 DEF CheckStop
    <3>2. \A i : Read(i)' => Read(i)
      BY <3>1 DEF Read
    <3>3. QED
      BY <1>2, <1>3, <2>4, <3>1, <3>2
  <2>5. ASSUME NEW w \in Workers, StoreResult(w), UNCHANGED seen
        PROVE  /\ \A v \in Workers : got'[v] = "object" => pc'[v] = "store"
               /\ \A i \in kept : Read(i)' => seen'[i] = groups[i]
    <3>1. /\ got' = [got EXCEPT ![w] = "nil"] /\ pc' = [pc EXCEPT ![w] = "receive"]
          /\ \A v \in Workers \ {w} : job'[v] = job[v]
          /\ out' = [out EXCEPT ![job[w]] = got[w]]
      BY <1>2, <2>5 DEF StoreResult
    <3>2. ASSUME NEW i \in kept, Read(i)' PROVE Read(i)
      <4>1. CASE out'[i] = "object"
        BY <1>2, <3>1, <4>1 DEF Read
      <4>2. CASE \E v \in Workers : job'[v] = i /\ got'[v] = "object"
        BY <1>2, <3>1, <4>2 DEF Read
      <4>3. QED
        BY <3>2, <4>1, <4>2 DEF Read
    <3>3. QED
      BY <1>2, <1>3, <2>5, <3>1, <3>2
  <2>6. ASSUME NEW w \in Workers, WorkerDone(w), UNCHANGED seen
        PROVE  /\ \A v \in Workers : got'[v] = "object" => pc'[v] = "store"
               /\ \A i \in kept : Read(i)' => seen'[i] = groups[i]
    BY <1>2, <1>3, <2>6 DEF WorkerDone, Read
  <2>7. QED
    BY <2>1, <2>2, <2>3, <2>4, <2>5, <2>6 DEF PoolRuns
<1>5. SeenInv'
  BY <1>1, <1>4 DEF ToldInv, SeenInv
<1>6. StableInv' /\ TakenInv' /\ GroupsTold'
  BY <1>1 DEF ToldInv, StableInv, TakenInv, GroupsTold
<1>7. QED
  BY <1>1, <1>5, <1>6 DEF ToldInv

(* Steps that leave the pool and the source alone keep what was read of    *)
(* the groups.                                                             *)
LEMMA SeenKept ==
  ASSUME ToldInv, UNCHANGED <<vars, groups, seen, kept>>
  PROVE  SeenInv'
  BY DEF ToldInv, SeenInv, Read, vars

(* Once the pool returned objects, every group left alone was seen under   *)
(* its name, and is carried or named by a note.                            *)
LEMMA GroupsReadTold == ExportTypes /\ PoolInv /\ ToldInv /\ GroupsRead => ToldInv'
<1> SUFFICES ASSUME ExportTypes, PoolInv, ToldInv, GroupsRead PROVE ToldInv'
  OBVIOUS
<1>1. UNCHANGED <<vars, groups, profiles, eps, request, seen, profNames, todo, taken, kept, stable>>
  BY DEF GroupsRead, source, history
<1>2. SeenInv'
  BY <1>1, SeenKept
<1>3. StableInv'
  BY <1>1 DEF ToldInv, StableInv
<1>4. phase' \in {"failed", "listProfiles", "done"} /\ (phase' = "done" => ~WantEndpoints)
  BY DEF GroupsRead
<1>5. ASSUME ret = "objects", WantGroups, NEW i \in kept PROVE GroupTold(i)'
  <2>1. i \in Stubs /\ out[i] = "object"
    BY <1>5, NAssumption DEF ExportTypes, SourceTypes, PoolInv, TypeOK, Stubs
  <2>2. seen[i] = groups[i]
    BY <1>5, <2>1 DEF ToldInv, SeenInv, Read
  <2>3. groups[i] \in SeenNames
    BY <2>1, <2>2 DEF SeenNames
  <2>4. CASE groups[i] \in request.selection
    <3>1. groups[i] \in bundle'.groups
      <4>1. bundle'.groups = SeenNames \cap request.selection
        BY <1>5 DEF GroupsRead, ExportTypes, ExportInv
      <4>2. QED
        BY <2>3, <2>4, <4>1
    <3>2. QED
      BY <1>1, <3>1 DEF GroupTold
  <2>5. CASE groups[i] \notin request.selection
    <3>1. <<"not selected", groups[i]>> \in GroupNotes
      BY <2>3, <2>5 DEF GroupNotes
    <3>2. <<"not selected", groups[i]>> \in notes'
      BY <1>5, <3>1 DEF GroupsRead
    <3>3. QED
      BY <1>1, <3>2 DEF GroupTold
  <2>6. QED
    BY <2>4, <2>5
<1>6. GroupsTold'
  <2>1. phase' # "failed" => ret = "objects"
    BY DEF GroupsRead
  <2>2. WantGroups' <=> WantGroups
    BY <1>1 DEF WantGroups
  <2>3. kept' = kept /\ ret' = ret
    BY <1>1 DEF vars
  <2>4. QED
    BY <1>4, <1>5, <2>1, <2>2, <2>3 DEF GroupsTold
<1>7. TakenInv'
  BY <1>4 DEF TakenInv
<1>8. WantEndpoints' <=> WantEndpoints
  BY <1>1 DEF WantEndpoints
<1>9. QED
  BY <1>2, <1>3, <1>4, <1>6, <1>7, <1>8 DEF ToldInv

(* Listing and reading the endpoints: what is taken of an endpoint left    *)
(* alone is what the source holds.                                         *)
LEMMA ListingTold ==
  /\ ExportTypes /\ ToldInv
  /\ \/ ListProfiles \/ ListEndpoints \/ ListMacs \/ MacsRead
     \/ \E m \in Macs : ReadMac(m)
  => ToldInv'
<1> SUFFICES ASSUME ExportTypes, ToldInv,
                    \/ ListProfiles \/ ListEndpoints \/ ListMacs \/ MacsRead
                    \/ \E m \in Macs : ReadMac(m)
             PROVE  ToldInv'
  OBVIOUS
<1>1. /\ UNCHANGED <<vars, groups, profiles, eps, request, seen, bundle, kept, stable>>
      /\ notes \subseteq notes'
      /\ phase \in {"listProfiles", "listEndpoints", "listMacs", "readMacs"}
      /\ phase' \in {"listEndpoints", "listMacs", "readMacs", "filter", "failed"}
  BY DEF ListProfiles, ListEndpoints, ListMacs, MacsRead, ReadMac, source, export, history
<1>2. SeenInv'
  BY <1>1, SeenKept
<1>3. GroupsTold'
  BY <1>1 DEF ToldInv, GroupsTold, GroupTold, WantGroups, vars
<1>4. \A m \in stable : m \in DOMAIN eps
  BY DEF ToldInv, StableInv
<1>5. StableInv'
  <2>1. profNames' = profiles \/ profNames' = profNames
    BY DEF ListProfiles, ListEndpoints, ListMacs, MacsRead, ReadMac, export
  <2>2. QED
    BY <1>1, <2>1 DEF ToldInv, StableInv
<1>6. TakenInv'
  <2>1. CASE ListProfiles
    BY <2>1 DEF ListProfiles, TakenInv
  <2>2. CASE ListEndpoints
    BY <1>1, <1>4, <2>2 DEF ListEndpoints, TakenInv
  <2>3. CASE ListMacs
    BY <1>1, <1>4, <2>3 DEF ListMacs, TakenInv
  <2>4. CASE MacsRead
    BY <1>1, <2>4 DEF MacsRead, export, ToldInv, TakenInv
  <2>5. ASSUME NEW m \in Macs, ReadMac(m) PROVE TakenInv'
    <3>1. CASE phase' = "failed"
      BY <3>1 DEF TakenInv
    <3>2. CASE taken' = Assign(taken, m, eps[m]) /\ todo' = todo \ {m} /\ phase' = phase
      <4>1. /\ DOMAIN taken' = DOMAIN taken \cup {m} /\ taken'[m] = eps[m]
            /\ \A x \in DOMAIN taken \ {m} : taken'[x] = taken[x]
        BY <3>2 DEF Assign
      <4>2. phase' = "readMacs" /\ phase = "readMacs"
        BY <2>5, <3>2 DEF ReadMac
      <4>3. QED
        BY <1>1, <3>2, <4>1, <4>2 DEF ToldInv, TakenInv
    <3>3. QED
      BY <2>5, <3>1, <3>2 DEF ReadMac
  <2>6. QED
    BY <2>1, <2>2, <2>3, <2>4, <2>5
<1>7. QED
  BY <1>1, <1>2, <1>3, <1>5, <1>6 DEF ToldInv

(* Of what was taken, every static endpoint of a selected group is carried *)
(* as it is on the source, or a note names it.                             *)
LEMMA FilterTold == ExportTypes /\ PoolInv /\ ToldInv /\ Filter => ToldInv'
<1> SUFFICES ASSUME ExportTypes, PoolInv, ToldInv, Filter PROVE ToldInv'
  OBVIOUS
<1> DEFINE Ep(m) == [group |-> seen[taken[m].group], profile |-> ProfileName(taken[m])]
           new == [m \in Carried |-> Ep(m)]
<1>1. /\ UNCHANGED <<vars, groups, profiles, eps, request, seen, profNames, kept, stable>>
      /\ phase = "filter" /\ phase' = "done"
      /\ bundle'.eps = new /\ bundle'.groups = bundle.groups
      /\ notes \subseteq notes'
      /\ \A m \in Candidates \ Carried : <<"endpoint skipped", m>> \in notes'
  BY DEF Filter, source, history, ExportTypes, ExportInv
<1>2. SeenInv'
  BY <1>1, SeenKept
<1>3. GroupsTold'
  BY <1>1 DEF ToldInv, GroupsTold, GroupTold, WantGroups
<1>4. StableInv' /\ TakenInv'
  BY <1>1 DEF ToldInv, StableInv, TakenInv
<1>5. DOMAIN new = Carried /\ \A m \in Carried : new[m] = Ep(m)
  OBVIOUS
<1> HIDE DEF new
<1>6. ASSUME NEW m \in stable PROVE EndpointTold(m)'
  <2>1. SUFFICES ASSUME eps[m].staticGroup \/ eps[m].staticProfile,
                        groups[eps[m].group] \in request.selection
                 PROVE  \/ <<"endpoint skipped", m>> \in notes'
                        \/ m \in DOMAIN bundle'.eps /\ bundle'.eps[m] = AsOnSource(eps[m])
    BY <1>1 DEF EndpointTold, AsOnSource
  <2>2. m \in DOMAIN taken /\ taken[m] = eps[m] /\ eps[m].group \in kept
    BY <1>1 DEF ToldInv, TakenInv, StableInv
  <2>3. eps[m].group \in Stubs /\ seen[eps[m].group] = groups[eps[m].group]
    <3>1. eps[m].group \in Stubs
      BY <2>2 DEF ExportTypes, SourceTypes
    <3>2. ret = "objects"
      BY <1>1 DEF ToldInv, GroupsTold
    <3>3. out[eps[m].group] = "object"
      BY <3>1, <3>2, NAssumption DEF PoolInv, TypeOK, Stubs
    <3>4. QED
      BY <2>2, <3>1, <3>3 DEF ToldInv, SeenInv, Read
  <2>4. m \in Candidates
    BY <2>1, <2>2, <2>3 DEF Candidates, InSelected, Selected, IsStatic
  <2>5. CASE m \in Carried
    <3>1. ProfileResolves(eps[m])
      BY <2>2, <2>5 DEF Carried
    <3>2. ProfileName(eps[m]) = AsOnSource(eps[m]).profile
      BY <3>1 DEF ProfileResolves, ProfileName, AsOnSource, ToldInv, StableInv
    <3>3. Ep(m) = AsOnSource(eps[m])
      BY <2>2, <2>3, <3>2 DEF AsOnSource
    <3>4. QED
      BY <1>1, <1>5, <2>5, <3>3
  <2>6. QED
    BY <1>1, <2>4, <2>5
<1>7. QED
  BY <1>1, <1>2, <1>3, <1>4, <1>6 DEF ToldInv

(* No step breaks ToldInv.                                                 *)
LEMMA ToldStep ==
  ExportTypes /\ PoolInv /\ ToldInv /\ [ExportNext]_exportVars => ToldInv'
<1> SUFFICES ASSUME ExportTypes, PoolInv, ToldInv, [ExportNext]_exportVars PROVE ToldInv'
  OBVIOUS
<1>1. CASE HandleExport \/ ListGroups
  <2>1. /\ UNCHANGED <<vars, groups, profiles, eps, request, seen, profNames, kept, stable>>
        /\ phase' \in {"done", "failed", "listGroups", "readGroups"}
        /\ phase' = "done" => ~WantGroups /\ ~WantEndpoints
    BY <1>1 DEF HandleExport, ListGroups, source, export, history, WantGroups, WantEndpoints
  <2>2. SeenInv'
    BY <2>1, SeenKept
  <2>3. StableInv' /\ TakenInv' /\ GroupsTold'
    BY <2>1 DEF ToldInv, StableInv, TakenInv, GroupsTold, WantGroups
  <2>4. QED
    BY <2>1, <2>2, <2>3 DEF ToldInv, WantEndpoints
<1>2. CASE PoolRuns
  BY <1>2, PoolTold
<1>3. CASE GroupsRead
  BY <1>3, GroupsReadTold
<1>4. CASE \/ ListProfiles \/ ListEndpoints \/ ListMacs \/ MacsRead
           \/ \E m \in Macs : ReadMac(m)
  BY <1>4, ListingTold
<1>5. CASE Filter
  BY <1>5, FilterTold
<1>6. CASE Admin
  BY <1>6, AdminTold
<1>7. CASE ExportTerminated \/ UNCHANGED exportVars
  <2>1. /\ UNCHANGED <<vars, groups, profiles, eps, request, seen, profNames, kept, stable>>
        /\ UNCHANGED <<phase, todo, taken, bundle, notes>>
    BY <1>7 DEF ExportTerminated, exportVars, source, export, history
  <2>2. SeenInv'
    BY <2>1, SeenKept
  <2>3. StableInv' /\ TakenInv'
    BY <2>1 DEF ToldInv, StableInv, TakenInv
  <2>4. GroupsTold'
    BY <2>1 DEF ToldInv, GroupsTold, GroupTold, WantGroups, vars
  <2>5. QED
    BY <2>1, <2>2, <2>3, <2>4 DEF ToldInv, WantEndpoints, EndpointTold, AsOnSource
<1>8. QED
  BY <1>1, <1>2, <1>3, <1>4, <1>5, <1>6, <1>7 DEF ExportNext, ExportStep

(* An export that ends with a bundle holds every group the administrator   *)
(* left alone and every static endpoint of a selected group as they are on *)
(* the source, or has a note that names them.                              *)
THEOREM ExportNothingUntold == ExportSpec => []ExportedOrTold
<1>1. ToldInv => ExportedOrTold
  BY DEF ToldInv, GroupsTold, GroupTold, EndpointTold, ExportedOrTold
<1>2. ExportSpec => []PoolInv
  BY ExportRunsPool, PoolCorrect, PTL
<1>3. QED
  BY <1>1, <1>2, ExportTypesInit, ExportTypesStep, ToldInit, ToldStep, PTL DEF ExportSpec
=============================================================================
