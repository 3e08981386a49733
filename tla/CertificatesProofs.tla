------------------------- MODULE CertificatesProofs -------------------------
(***************************************************************************)
(* Proofs about the import of certificates, for every selection, bundle,   *)
(* deployment and start, and any number of edits and faults.               *)
(*                                                                         *)
(* Between the import of a trusted certificate and the request that        *)
(* replaces it lies a look-up by name.  SettlingInv says whom that can     *)
(* find: the certificate just imported or, once somebody deleted it, one   *)
(* that somebody else gave its name.                                       *)
(*                                                                         *)
(* The second half is about the result.  What was announced is still to do,*)
(* was told, or has reached the target: FreshInv says where the            *)
(* certificates of this import are while it runs, and ReportedInv follows  *)
(* them to the end.                                                        *)
(***************************************************************************)
EXTENDS Certificates, TLAPS

\* An object on the target that the imported certificate k may be taken for.
Mine(k, e) == IF deleted THEN e.by \in {k, None} ELSE e.by = k

Named(k) == {e \in trusted : e.name = bt[k]}

LookUpInv ==
  phase = "lookUp" =>
    /\ ~deleted => Named(found[1]) # {}
    /\ \A e \in Named(found[1]) : Mine(found[1], e)

SettingsInv == phase = "settings" => Mine(found[1], found[2])

SettlingInv == LookUpInv /\ SettingsInv

Shape ==
  /\ \A e \in trusted : DOMAIN e = TrustedFields
  /\ DOMAIN store = Nodes
  /\ DOMAIN bt \subseteq (DOMAIN SourceTrusted) \X Contents
  /\ edits \in Nat /\ deleted \in BOOLEAN

CertificatesInv == Shape /\ SettlingInv /\ TrustKept

(* CertificatesInv holds before the export.                                *)
LEMMA CertificatesInit == Init => CertificatesInv
<1> SUFFICES ASSUME Init PROVE CertificatesInv
  OBVIOUS
<1>1. Shape
  <2>1. bt = << >> /\ DOMAIN << >> = {}
    BY DEF Init, ExportInit
  <2>2. (\A e \in trusted : DOMAIN e = TrustedFields) /\ DOMAIN store = Nodes
    BY StartsAssumption DEF Init, TrustedCerts, TrustedFields
  <2>3. edits \in Nat /\ deleted \in BOOLEAN
    BY DEF Init
  <2>4. QED
    BY <2>1, <2>2, <2>3 DEF Shape
<1>2. SettlingInv
  BY DEF Init, ExportInit, SettlingInv, LookUpInv, SettingsInv
<1>3. TrustKept
  BY StartsAssumption DEF Init, TrustedCerts, TrustKept
<1>4. QED
  BY <1>1, <1>2, <1>3 DEF CertificatesInv

(* What the import creates has the purposes of its source, and is the only *)
(* certificate of its name.                                                *)
LEMMA PostStep ==
  ASSUME CertificatesInv, NEW k \in DOMAIN bt, NEW described \in BOOLEAN, PostTrusted(k, described)
  PROVE  CertificatesInv' /\ trusted \subseteq trusted' /\ UNCHANGED <<store, edits>>
<1>1. UNCHANGED <<bt, deleted, edits, store>>
  BY DEF PostTrusted, Done, exporting
<1>2. CASE UNCHANGED trusted /\ Done(Trusted(k))
  BY <1>1, <1>2
  DEF CertificatesInv, Shape, SettlingInv, LookUpInv, SettingsInv, TrustKept, Done
<1>3. ASSUME ~TrustedClash(k), trusted' = trusted \cup {Imported(k, described)},
             phase' = "apply" \/ (phase' = "lookUp" /\ found' = <<k, None>>)
      PROVE  CertificatesInv' /\ trusted \subseteq trusted'
  <2> DEFINE new == Imported(k, described)
  <2>1. DOMAIN new = TrustedFields /\ new.by = k /\ new.name = bt[k] /\ new.uses = Source(k).uses
    BY DEF Imported, TrustedFields
  <2> HIDE DEF new
  <2>2. Shape'
    BY <1>1, <1>3, <2>1 DEF CertificatesInv, Shape, new
  <2>3. TrustKept'
    BY <1>3, <2>1 DEF CertificatesInv, TrustKept, new
  <2>4. ASSUME phase' = "lookUp" PROVE LookUpInv'
    <3>1. found'[1] = k
      BY <1>3, <2>4
    <3>2. {e \in trusted' : e.name = bt'[k]} = {new}
      BY <1>1, <1>3, <2>1 DEF Named, TrustedClash, new
    <3>3. \A e \in trusted' : e.name = bt'[k] => e.by = k
      BY <2>1, <3>2
    <3>4. QED
      BY <3>1, <3>2, <3>3 DEF LookUpInv, Named, Mine
  <2>5. SettlingInv'
    BY <1>3, <2>4 DEF SettlingInv, LookUpInv, SettingsInv
  <2>6. QED
    BY <1>3, <2>2, <2>3, <2>5 DEF CertificatesInv
<1>4. QED
  BY <1>1, <1>2, <1>3 DEF PostTrusted, Done

(* The look-up finds the certificate just imported, or after a deletion    *)
(* somebody else's of its name.                                            *)
LEMMA LookUpStep ==
  ASSUME CertificatesInv, NEW k \in DOMAIN bt, LookUp(k)
  PROVE  CertificatesInv' /\ UNCHANGED <<trusted, store, edits>>
<1>1. UNCHANGED <<bt, deleted, edits, trusted, store>> /\ phase = "lookUp" /\ found[1] = k
  BY DEF LookUp, Done, exporting, target
<1>2. Shape' /\ TrustKept'
  BY <1>1 DEF CertificatesInv, Shape, TrustKept
<1>3. SettlingInv'
  <2>1. CASE phase' = "apply"
    BY <2>1 DEF SettlingInv, LookUpInv, SettingsInv
  <2>2. CASE \E e \in trusted : e.name = bt[k] /\ found' = <<k, e>> /\ phase' = "settings"
    <3>1. PICK e \in trusted : e.name = bt[k] /\ found' = <<k, e>> /\ phase' = "settings"
      BY <2>2
    <3>2. Mine(k, e)
      BY <1>1, <3>1 DEF CertificatesInv, SettlingInv, LookUpInv, Named
    <3>3. Mine(k, e)'
      BY <1>1, <3>2 DEF Mine
    <3>4. found'[1] = k /\ found'[2] = e
      BY <3>1
    <3>5. QED
      BY <3>1, <3>3, <3>4 DEF SettlingInv, LookUpInv, SettingsInv
  <2>3. QED
    BY <2>1, <2>2 DEF LookUp, Done
<1>4. QED
  BY <1>1, <1>2, <1>3 DEF CertificatesInv

(* The second request replaces an object by one with the same purposes.    *)
(* Without a deletion that object is the import's own.                     *)
LEMMA PutStep ==
  ASSUME CertificatesInv, NEW k \in DOMAIN bt, PutSettings(k)
  PROVE  /\ CertificatesInv' /\ UNCHANGED <<store, edits>>
         /\ \A e \in trusted : e.by = None /\ ~deleted => e \in trusted'
<1> DEFINE e == found[2]
<1>1. /\ UNCHANGED <<bt, deleted, edits, store>> /\ phase' = "apply"
      /\ phase = "settings" /\ found[1] = k
      /\ \/ trusted' = trusted
         \/ e \in trusted /\ trusted' = (trusted \ {e}) \cup {WithSettings(k, e)}
  BY DEF PutSettings, Done, exporting
<1>2. Mine(k, e)
  BY <1>1 DEF CertificatesInv, SettlingInv, SettingsInv
<1>3. ASSUME e \in trusted
      PROVE  /\ DOMAIN WithSettings(k, e) = TrustedFields
             /\ WithSettings(k, e).by = e.by /\ WithSettings(k, e).uses = Source(k).uses
  <2>1. DOMAIN e = TrustedFields
    BY <1>3 DEF CertificatesInv, Shape
  <2> HIDE DEF e
  <2>2. QED
    BY <2>1 DEF WithSettings, TrustedFields
<1> HIDE DEF e
<1>4. Shape'
  BY <1>1, <1>3 DEF CertificatesInv, Shape
<1>5. SettlingInv'
  BY <1>1 DEF SettlingInv, LookUpInv, SettingsInv
<1>6. TrustKept'
  <2>1. CASE trusted' = trusted
    BY <2>1 DEF CertificatesInv, TrustKept
  <2>2. CASE e \in trusted /\ trusted' = (trusted \ {e}) \cup {WithSettings(k, e)}
    <3>1. e.by \in {k, None}
      BY <1>2 DEF Mine
    <3>2. QED
      BY <1>3, <2>2, <3>1 DEF CertificatesInv, TrustKept
  <2>3. QED
    BY <1>1, <2>1, <2>2
<1>7. ASSUME NEW f \in trusted, f.by = None, ~deleted PROVE f \in trusted'
  <2>1. k # None
    BY ExportAssumption DEF CertificatesInv, Shape
  <2>2. e.by = k
    BY <1>2, <1>7 DEF Mine
  <2>3. f # e
    BY <1>7, <2>1, <2>2
  <2>4. QED
    BY <1>1, <1>7, <2>3
<1>8. QED
  BY <1>1, <1>4, <1>5, <1>6, <1>7 DEF CertificatesInv

(* Steps that change neither the trusted certificates nor the settling.    *)
LEMMA OtherSteps ==
  ASSUME CertificatesInv, UNCHANGED trusted, phase' \notin {"lookUp", "settings"},
         DOMAIN store' = DOMAIN store,
         DOMAIN bt' \subseteq (DOMAIN SourceTrusted) \X Contents,
         edits' = edits, deleted' \in BOOLEAN
  PROVE  CertificatesInv'
  BY DEF CertificatesInv, Shape, SettlingInv, LookUpInv, SettingsInv, TrustKept

(* The export fills the bundle with certificates of the source.            *)
LEMMA ExportStep ==
  ASSUME CertificatesInv, Exporting
  PROVE  CertificatesInv' /\ UNCHANGED <<trusted, store, edits>>
<1>1. /\ UNCHANGED <<trusted, store, edits, deleted>>
      /\ phase' \in {"exportSystem", "exportKeys", "idle"}
  BY DEF Exporting, Export, ExportTrusted, ListSystem, ExportKeys, target
<1>2. DOMAIN bt' \subseteq (DOMAIN SourceTrusted) \X Contents
  <2>1. CASE UNCHANGED bt
    BY <2>1 DEF CertificatesInv, Shape
  <2>2. CASE ExportTrusted
    <3>1. PICK names \in SUBSET PickedTrusted : DOMAIN bt' = Entries(names)
      BY <2>2 DEF ExportTrusted
    <3>2. names \subseteq DOMAIN SourceTrusted
      BY ExportAssumption
    <3>3. QED
      BY <3>1, <3>2 DEF Entries
  <2>3. QED
    BY <2>1, <2>2 DEF Exporting, Export, ListSystem, ExportKeys
<1>3. QED
  BY <1>1, <1>2, OtherSteps DEF CertificatesInv, Shape

(* An import on a node leaves the other certificates there as they are,    *)
(* but for the admin role.                                                 *)
LEMMA SystemStep ==
  ASSUME CertificatesInv, NEW s \in DOMAIN bs, NEW m \in Nodes, ImportSystem(s, m) \/ ImportZip(s, m)
  PROVE  /\ CertificatesInv' /\ UNCHANGED <<trusted, edits>>
         /\ \A n \in Nodes : \A e \in store[n] :
              e \in store'[n] \/ (form.admin /\ [e EXCEPT !.admin = FALSE] \in store'[n])
<1>1. /\ UNCHANGED <<trusted, bt, edits, deleted>> /\ phase' = "apply"
      /\ \/ store' = store
         \/ store' = [store EXCEPT ![m] = {Yield(s, e) : e \in @} \cup {Landed(s, m)}]
  BY DEF ImportSystem, ImportZip, Done, exporting, target
<1>2. DOMAIN store = Nodes
  BY DEF CertificatesInv, Shape
<1>3. CertificatesInv'
  BY <1>1, OtherSteps DEF CertificatesInv, Shape
<1>4. ASSUME NEW n \in Nodes, NEW e \in store[n]
      PROVE  e \in store'[n] \/ (form.admin /\ [e EXCEPT !.admin = FALSE] \in store'[n])
  <2>1. CASE store'[n] = store[n]
    BY <2>1
  <2>2. CASE store'[n] = {Yield(s, f) : f \in store[n]} \cup {Landed(s, m)}
    <3>1. Yield(s, e) \in store'[n]
      BY <2>2
    <3>2. QED
      BY <3>1 DEF Yield, TakesAdmin
  <2>3. QED
    BY <1>1, <1>2, <2>1, <2>2
<1>5. QED
  BY <1>1, <1>3, <1>4

(* What administrators do while a certificate is settled: a name that is   *)
(* taken stays whose it is, and only a deletion frees it.                  *)
LEMMA AdminStep ==
  ASSUME CertificatesInv, Admin
  PROVE  CertificatesInv' /\ edits' # edits
<1>1. UNCHANGED <<bt, phase, found>> /\ edits' = edits + 1
  BY DEF Admin, AdminAddsTrusted, AdminDeletesTrusted, AdminDeletesSystem, Edit, exporting, run
<1>2. edits' # edits /\ edits' \in Nat
  BY <1>1 DEF CertificatesInv, Shape
<1>3. ASSUME NEW c, NEW name, AdminAddsTrusted(c, name) PROVE CertificatesInv'
  <2> DEFINE new == Theirs(c, name)
  <2>1. DOMAIN new = TrustedFields /\ new.by = None /\ new.name = name
    BY DEF Theirs, TrustedFields
  <2> HIDE DEF new
  <2>2. /\ trusted' = trusted \cup {new} /\ UNCHANGED <<store, deleted>>
        /\ \A e \in trusted : e.name # name
    BY <1>3 DEF AdminAddsTrusted, new
  <2>3. Shape'
    BY <1>1, <1>2, <2>1, <2>2 DEF CertificatesInv, Shape
  <2>4. TrustKept'
    BY <2>1, <2>2 DEF CertificatesInv, TrustKept
  <2>5. SettingsInv'
    BY <1>1, <2>2 DEF CertificatesInv, SettlingInv, SettingsInv, Mine
  <2>6. ASSUME phase = "lookUp" PROVE LookUpInv'
    <3> DEFINE k == found[1]
    <3>1. /\ ~deleted => Named(k) # {}
          /\ \A e \in Named(k) : Mine(k, e)
      BY <2>6 DEF CertificatesInv, SettlingInv, LookUpInv
    <3> HIDE DEF k
    <3>2. Named(k)' = Named(k) \cup {e \in {new} : name = bt[k]}
      BY <1>1, <2>1, <2>2 DEF Named, k
    <3>3. ~deleted => name # bt[k]
      BY <2>2, <3>1 DEF Named
    <3>4. \A e \in Named(k)' : Mine(k, e)
      BY <2>1, <3>1, <3>2, <3>3 DEF Mine
    <3>5. k' = k /\ deleted' = deleted
      BY <1>1, <2>2 DEF k
    <3>6. (~deleted => Named(k) # {})'
      BY <3>1, <3>2, <3>5
    <3>7. (\A e \in Named(k) : Mine(k, e))'
      BY <3>4, <3>5 DEF Mine
    <3>8. QED
      BY <3>6, <3>7 DEF LookUpInv, k
  <2>7. QED
    BY <1>1, <2>3, <2>4, <2>5, <2>6 DEF CertificatesInv, SettlingInv, LookUpInv
<1>4. ASSUME trusted' \subseteq trusted, deleted' = TRUE, DOMAIN store' = DOMAIN store
      PROVE  CertificatesInv'
  <2>1. Shape' /\ TrustKept'
    BY <1>1, <1>2, <1>4 DEF CertificatesInv, Shape, TrustKept
  <2>2. ASSUME NEW k, NEW e, Mine(k, e) PROVE Mine(k, e)'
    BY <1>4, <2>2 DEF Mine
  <2>3. SettingsInv'
    BY <1>1, <1>4 DEF CertificatesInv, SettlingInv, SettingsInv, Mine
  <2>4. LookUpInv'
    BY <1>1, <1>4 DEF CertificatesInv, SettlingInv, LookUpInv, Named, Mine
  <2>5. QED
    BY <2>1, <2>3, <2>4 DEF CertificatesInv, SettlingInv
<1>5. QED
  BY <1>2, <1>3, <1>4 DEF Admin, AdminDeletesTrusted, AdminDeletesSystem

StrangersStep ==
  edits' = edits =>
    /\ \A e \in trusted : e.by = None /\ ~deleted => e \in trusted'
    /\ \A n \in Nodes : \A e \in store[n] :
         ~e.ours => e \in store'[n] \/ (form.admin /\ [e EXCEPT !.admin = FALSE] \in store'[n])

(* CertificatesInv is inductive, and no step touches what is somebody      *)
(* else's.                                                                 *)
LEMMA CertificatesStep == CertificatesInv /\ [Next]_vars => CertificatesInv' /\ StrangersStep
<1> SUFFICES ASSUME CertificatesInv, [Next]_vars PROVE CertificatesInv' /\ StrangersStep
  OBVIOUS
<1>1. CASE Exporting
  BY <1>1, ExportStep DEF StrangersStep
<1>2. ASSUME NEW k \in DOMAIN bt, ImportTrusted(k) \/ ImportAgain(k)
      PROVE  CertificatesInv' /\ StrangersStep
  BY <1>2, PostStep DEF ImportTrusted, ImportAgain, StrangersStep
<1>3. ASSUME NEW k \in DOMAIN bt, LookUp(k) PROVE CertificatesInv' /\ StrangersStep
  BY <1>3, LookUpStep DEF StrangersStep
<1>4. ASSUME NEW k \in DOMAIN bt, PutSettings(k) PROVE CertificatesInv' /\ StrangersStep
  BY <1>4, PutStep DEF StrangersStep
<1>5. ASSUME NEW s \in DOMAIN bs, NEW n \in Nodes, ImportSystem(s, n) \/ ImportZip(s, n)
      PROVE  CertificatesInv' /\ StrangersStep
  BY <1>5, SystemStep DEF StrangersStep
<1>6. CASE Admin
  BY <1>6, AdminStep DEF StrangersStep
<1>7. CASE Request \/ ListTrusted \/ ListNodes \/ Finish \/ \E k \in DOMAIN bt : RefuseComma(k)
  <2>1. /\ UNCHANGED <<trusted, store, bt, edits>>
        /\ phase' \in {"listTrusted", "listNodes", "apply", "again", "done"}
        /\ deleted' = deleted \/ deleted' = FALSE
    BY <1>7
    DEF Request, ApplyRequest, ListTrusted, ListNodes, Finish, RefuseComma, Done, target, exporting
  <2>2. CertificatesInv'
    BY <2>1, OtherSteps DEF CertificatesInv, Shape
  <2>3. QED
    BY <2>1, <2>2 DEF StrangersStep
<1>8. ASSUME UNCHANGED <<trusted, store, bt, edits, deleted, phase, found>>
      PROVE  CertificatesInv' /\ StrangersStep
  BY <1>8 DEF StrangersStep, CertificatesInv, Shape, SettlingInv, LookUpInv, SettingsInv, TrustKept,
              Named, Mine
<1>9. CASE UNCHANGED vars \/ \E n \in Nodes : Restarted(n)
  BY <1>8, <1>9 DEF vars, Restarted, exporting, target, run
<1>10. QED
  BY <1>1, <1>2, <1>3, <1>4, <1>5, <1>6, <1>7, <1>9 DEF Next, Handler

(* The inductive invariant of the import of certificates.                  *)
LEMMA CertificatesAlways == Spec => []CertificatesInv
  BY CertificatesInit, CertificatesStep, PTL DEF Spec

(* What an import made is trusted for what its source is, at every moment. *)
THEOREM CertificatesTrustKept == Spec => []TrustKept
<1>1. CertificatesInv => TrustKept
  BY DEF CertificatesInv
<1>2. QED
  BY <1>1, CertificatesAlways, PTL

(* No step of an import changes what somebody else put on the target.      *)
THEOREM CertificatesStrangersUntouched == Spec => StrangersUntouched
<1>1. CertificatesInv /\ [Next]_vars => [StrangersStep]_vars
  BY CertificatesStep
<1>2. [][StrangersStep]_vars <=> StrangersUntouched
  BY DEF StrangersStep, StrangersUntouched
<1>3. QED
  BY <1>1, <1>2, CertificatesAlways, PTL DEF Spec

-----------------------------------------------------------------------------
(* Types.                                                                  *)
BundleTypes ==
  /\ DOMAIN bt \subseteq (DOMAIN SourceTrusted) \X Contents
  /\ \A k \in DOMAIN bt : bt[k] \in STRING
  /\ DOMAIN bs \subseteq DOMAIN SourceSystem \cup DOMAIN Zips
  /\ noted \subseteq PickedTrusted \cup PickedSystem
  /\ unread \subseteq Sightings

TargetTypes ==
  /\ trusted \subseteq TrustedCerts(DOMAIN bt \cup {None})
  /\ \A n \in Nodes : \A e \in store[n] :
       /\ DOMAIN e = SystemFields /\ {e.admin, e.ours} \subseteq BOOLEAN
       /\ e.ours => e.cert \in DOMAIN bs
  /\ up \in [Nodes -> BOOLEAN] /\ shown \in BOOLEAN

Verdicts == {"create", "withoutPortal", "skip", "blocked"}

RunTypes ==
  /\ \A x \in DOMAIN verdict : verdict[x] \in Verdicts
  /\ todo \subseteq Creates /\ told \subseteq Creates
  /\ phase \in {"exportTrusted", "exportSystem", "exportKeys", "idle", "listTrusted",
                "listNodes", "apply", "again", "lookUp", "settings", "done"}
  /\ quiet \in BOOLEAN /\ deleted \in BOOLEAN
  /\ edits \in 0..MaxEdits /\ faults \in 0..MaxFaults

ImportInv ==
  /\ BundleTypes /\ TargetTypes /\ RunTypes
  /\ PhaseInv /\ ItemsInv /\ FoundInv /\ MadeInv /\ FreshInv /\ ReportedInv

(* Items of the two kinds are told apart, and None is in neither.          *)
LEMMA ItemsDiffer ==
  /\ \A k, l : Trusted(k) = Trusted(l) => k = l
  /\ \A k, s, n : Trusted(k) # OnNode(s, n)
  /\ \A s, n, r, m : OnNode(s, n) = OnNode(r, m) => s = r /\ n = m
  /\ \A k : Trusted(k)[1] = "trusted" /\ Trusted(k)[2] = k
  /\ \A s, n : OnNode(s, n)[1] = "system" /\ OnNode(s, n)[2] = s /\ OnNode(s, n)[3] = n
  BY DEF Trusted, OnNode

LEMMA NoneIsNoItem == BundleTypes => None \notin DOMAIN bt
  BY ExportAssumption DEF BundleTypes

(* ImportInv holds before the export.                                      *)
LEMMA ImportInit == Init => ImportInv
<1> SUFFICES ASSUME Init PROVE ImportInv
  OBVIOUS
<1>1. PICK t \in Starts : trusted = t.trusted /\ store = t.store /\ shown = t.shown
  BY DEF Init
<1>2. /\ bt = << >> /\ bs = << >> /\ verdict = << >> /\ todo = {} /\ told = {} /\ noted = {}
      /\ unread = {} /\ phase = "exportTrusted"
  BY DEF Init, ExportInit
<1>3. BundleTypes
  BY <1>2 DEF BundleTypes
<1>4. TargetTypes
  <2>1. trusted \subseteq TrustedCerts(DOMAIN bt \cup {None})
    BY <1>1, StartsAssumption DEF TrustedCerts
  <2>2. \A n \in Nodes : \A e \in store[n] :
          DOMAIN e = SystemFields /\ e.admin \in BOOLEAN /\ e.ours = FALSE
    BY <1>1, StartsAssumption
  <2>3. up \in [Nodes -> BOOLEAN] /\ shown \in BOOLEAN
    BY <1>1, StartsAssumption DEF Init
  <2>4. QED
    BY <2>1, <2>2, <2>3 DEF TargetTypes
<1>5. RunTypes
  <2>1. DOMAIN verdict = {}
    BY <1>2
  <2>2. quiet \in BOOLEAN /\ deleted \in BOOLEAN
    BY DEF Init
  <2>3. edits \in 0..MaxEdits /\ faults \in 0..MaxFaults
    BY CertificatesBounds DEF Init
  <2>4. QED
    BY <1>2, <2>1, <2>2, <2>3 DEF RunTypes
<1>6. PhaseInv /\ ItemsInv /\ FoundInv /\ FreshInv /\ ReportedInv
  BY <1>2 DEF PhaseInv, ItemsInv, FoundInv, FreshInv, ReportedInv, Creates, Pending, Settling
<1>7. MadeInv
  BY <1>1, StartsAssumption DEF TrustedCerts, MadeInv
<1>8. QED
  BY <1>3, <1>4, <1>5, <1>6, <1>7 DEF ImportInv

(* Whether a request fails is noticed, and its count is bounded.           *)
LEMMA FaultTypes ==
  ASSUME RunTypes, Fault \/ NoFault
  PROVE  faults' \in 0..MaxFaults /\ quiet' \in BOOLEAN
<1>1. faults' \in 0..MaxFaults
  BY CertificatesBounds DEF RunTypes, Fault, NoFault
<1>2. quiet' = FALSE \/ quiet' = quiet
  BY DEF Fault, NoFault
<1>3. QED
  BY <1>1, <1>2 DEF RunTypes

-----------------------------------------------------------------------------
(* The export.                                                             *)

(* A name for every entry of the bundle.                                   *)
LEMMA NamesAreStrings ==
  ASSUME NEW names \in SUBSET DOMAIN SourceTrusted, NEW k \in Entries(names)
  PROVE  \A v \in Names(k) : v \in STRING
<1> DEFINE chain == SourceTrusted[k[1]].chain
<1>1. k[1] \in DOMAIN SourceTrusted /\ k[1] \in STRING /\ k[2] \in Range(chain)
  BY ExportNamesAssumption DEF Entries
<1>2. CASE k[2] = First(k[1])
  BY <1>1, <1>2 DEF Names
<1>3. CASE k[2] # First(k[1])
  <2>1. chain \in Seq(Contents) /\ chain # << >>
    BY <1>1, ExportAssumption
  <2>2. PICK i \in DOMAIN chain : chain[i] = k[2]
    BY <1>1 DEF Range
  <2>3. i \in 2..Len(chain)
    BY <1>3, <2>1, <2>2 DEF First
  <2>4. (CommonName[k[2]] # None => CommonName[k[2]] \in STRING) /\ Short[k[2]] \in STRING
    BY <1>1, <2>2, <2>3, ExportNamesAssumption
  <2>5. QED
    BY <1>3, <2>4 DEF Names
<1>4. QED
  BY <1>2, <1>3

LEMMA ExportBundle == ImportInv /\ Export => BundleTypes'
<1> SUFFICES ASSUME ImportInv, Export PROVE BundleTypes'
  OBVIOUS
<1>1. CASE ExportTrusted
  <2>1. PICK missed \in SUBSET (MayMiss \cap PickedTrusted) :
          LET out == missed \cup {n \in PickedTrusted : SourceTrusted[n].internal}
              keys == Entries(PickedTrusted \ out)
          IN /\ bt' \in {f \in [keys -> UNION {Names(k) : k \in keys}] :
                          \A k \in keys : f[k] \in Names(k)}
             /\ noted' = noted \cup out
                  \cup {n \in PickedTrusted : Range(SourceTrusted[n].chain) \cap NodeCerts # {}}
    BY <1>1 DEF ExportTrusted
  <2> DEFINE out == missed \cup {n \in PickedTrusted : SourceTrusted[n].internal}
             names == PickedTrusted \ out
  <2>2. names \subseteq DOMAIN SourceTrusted /\ out \subseteq PickedTrusted
    BY ExportAssumption
  <2>3. DOMAIN bt' = Entries(names) /\ \A k \in Entries(names) : bt'[k] \in Names(k)
    BY <2>1
  <2>4. noted' \subseteq noted \cup PickedTrusted
    BY <2>1, <2>2
  <2> HIDE DEF out, names
  <2>5. \A k \in DOMAIN bt' : bt'[k] \in STRING
    BY <2>2, <2>3, NamesAreStrings
  <2>6. DOMAIN bt' \subseteq (DOMAIN SourceTrusted) \X Contents
    BY <2>2, <2>3 DEF Entries
  <2>7. UNCHANGED <<bs, unread>>
    BY <1>1 DEF ExportTrusted
  <2>8. QED
    BY <2>4, <2>5, <2>6, <2>7 DEF ImportInv, BundleTypes
<1>2. CASE ListSystem
  BY <1>2, ExportAssumption DEF ListSystem, ImportInv, BundleTypes
<1>3. CASE ExportKeys
  <2>1. UNCHANGED <<bt, unread>>
    BY <1>3 DEF ExportKeys
  <2>2. DOMAIN bs' \subseteq PickedSystem \cup DOMAIN Zips /\ noted' \subseteq noted \cup PickedSystem
    BY <1>3 DEF ExportKeys
  <2>3. QED
    BY <2>1, <2>2, ExportAssumption DEF ImportInv, BundleTypes
<1>4. QED
  BY <1>1, <1>2, <1>3 DEF Export

(* Nothing is on the target yet, and nothing announced.                    *)
LEMMA ExportKeepsImport == ImportInv /\ Exporting => ImportInv'
<1> SUFFICES ASSUME ImportInv, Exporting PROVE ImportInv'
  OBVIOUS
<1>1. UNCHANGED <<trusted, store, up, shown, verdict, todo, told, found, quiet, deleted, edits, faults>>
  BY DEF Exporting, target, run
<1>2. \/ phase = "exportTrusted" /\ phase' = "exportSystem" /\ bs' = bs
      \/ phase = "exportSystem" /\ phase' = "exportKeys" /\ bt' = bt /\ bs' = bs
      \/ phase = "exportKeys" /\ phase' = "idle" /\ bt' = bt
  BY DEF Exporting, Export, ExportTrusted, ListSystem, ExportKeys
<1>3. BundleTypes'
  BY ExportBundle DEF Exporting
<1>4. verdict = << >> /\ bs = << >> /\ todo = {} /\ told = {}
  BY <1>2 DEF ImportInv, PhaseInv, Settling
<1>5. bt' = bt \/ \A e \in trusted : e.by = None
  BY <1>2 DEF ImportInv, PhaseInv, TargetTypes, TrustedCerts
<1>6. TargetTypes'
  <2>1. ASSUME NEW e \in trusted PROVE e \in TrustedCerts(DOMAIN bt' \cup {None})
    BY <1>5 DEF ImportInv, TargetTypes, TrustedCerts
  <2>2. \A n \in Nodes : \A e \in store[n] : ~e.ours
    BY <1>4 DEF ImportInv, TargetTypes
  <2>3. QED
    BY <1>1, <2>1, <2>2 DEF ImportInv, TargetTypes
<1>7. Creates' = {}
  BY <1>1, <1>4 DEF Creates
<1>8. RunTypes'
  BY <1>1, <1>2, <1>4, <1>7 DEF ImportInv, RunTypes
<1>9. PhaseInv' /\ ItemsInv' /\ FoundInv' /\ FreshInv' /\ ReportedInv'
  BY <1>1, <1>2, <1>4, <1>7
  DEF ImportInv, PhaseInv, ItemsInv, FoundInv, FreshInv, ReportedInv, Pending, Settling
<1>10. MadeInv'
  BY <1>1, <1>5 DEF ImportInv, MadeInv
<1>11. QED
  BY <1>3, <1>6, <1>8, <1>9, <1>10 DEF ImportInv

-----------------------------------------------------------------------------
(* Pre-flight.                                                             *)

(* Before anything is applied there is nothing to be said of the result.   *)
LEMMA BeforeApply ==
  ASSUME ImportInv, UNCHANGED <<bt, bs, noted, unread, trusted, store, up, shown>>
  PROVE  BundleTypes' /\ TargetTypes' /\ MadeInv'
  BY DEF ImportInv, BundleTypes, TargetTypes, MadeInv

(* A trusted certificate that is announced is not there, by content or, if *)
(* the target shows no fingerprints, by name: so no import made it.        *)
LEMMA ListTrustedKeeps == ImportInv /\ ListTrusted => ImportInv'
<1> SUFFICES ASSUME ImportInv, ListTrusted PROVE ImportInv'
  OBVIOUS
<1>1. /\ UNCHANGED <<bt, bs, noted, unread, trusted, store, up, shown, todo, told, found, deleted, edits>>
      /\ phase = "listTrusted" /\ phase' = "listNodes" /\ todo = {} /\ told = {}
  BY DEF ListTrusted, exporting, target, ImportInv, PhaseInv, Settling
<1>2. BundleTypes' /\ TargetTypes' /\ MadeInv'
  BY <1>1, BeforeApply
<1>3. \/ verdict' = [x \in {Trusted(k) : k \in DOMAIN bt} |-> TrustedVerdict(x[2])]
      \/ verdict' = Extend(<< >>, Trusted(None), "blocked")
  BY DEF ListTrusted
<1>4. /\ \A x \in DOMAIN verdict' : verdict'[x] \in Verdicts
      /\ \A x \in Creates' : \E k \in DOMAIN bt : x = Trusted(k) /\ \A e \in trusted : e.by # k
  <2>1. CASE verdict' = [x \in {Trusted(k) : k \in DOMAIN bt} |-> TrustedVerdict(x[2])]
    <3>1. ASSUME NEW k \in DOMAIN bt
          PROVE  /\ TrustedVerdict(k) \in {"create", "skip", "blocked"}
                 /\ TrustedVerdict(k) = "create" =>
                      \/ \A e \in trusted : e.cert # k[2]
                      \/ \A e \in trusted : e.name # bt[k]
      <4>1. CASE k[2] \in Dead
        BY <4>1 DEF TrustedVerdict
      <4>2. CASE k[2] \notin Dead /\ shown /\ trusted # {}
        BY <4>2 DEF TrustedVerdict
      <4>3. CASE k[2] \notin Dead /\ ~(shown /\ trusted # {})
        BY <4>3 DEF TrustedVerdict
      <4>4. QED
        BY <4>1, <4>2, <4>3
    <3>2. ASSUME NEW k \in DOMAIN bt, TrustedVerdict(k) = "create"
          PROVE  \A e \in trusted : e.by # k
      <4>1. k # None
        BY NoneIsNoItem DEF ImportInv
      <4>2. QED
        BY <3>1, <3>2, <4>1 DEF ImportInv, MadeInv
    <3>3. \A k \in DOMAIN bt : Trusted(k) \in DOMAIN verdict' /\ verdict'[Trusted(k)] = TrustedVerdict(k)
      BY <2>1, ItemsDiffer
    <3>4. ASSUME NEW x \in DOMAIN verdict'
          PROVE  \E k \in DOMAIN bt : x = Trusted(k) /\ verdict'[x] = TrustedVerdict(k)
      BY <2>1, <3>3, <3>4
    <3>5. QED
      BY <3>1, <3>2, <3>4 DEF Creates, Verdicts
  <2>2. CASE verdict' = Extend(<< >>, Trusted(None), "blocked")
    <3>1. DOMAIN verdict' = {Trusted(None)} /\ verdict'[Trusted(None)] = "blocked"
      BY <2>2 DEF Extend
    <3>2. QED
      BY <3>1 DEF Creates, Verdicts
  <2>3. QED
    BY <1>3, <2>1, <2>2
<1>5. RunTypes'
  <2>1. faults' \in 0..MaxFaults /\ quiet' \in BOOLEAN
    BY FaultTypes DEF ImportInv, ListTrusted
  <2>2. QED
    BY <1>1, <1>4, <2>1 DEF ImportInv, RunTypes
<1>6. PhaseInv' /\ FoundInv' /\ ReportedInv'
  BY <1>1 DEF PhaseInv, FoundInv, ReportedInv, Settling
<1>7. ItemsInv'
  BY <1>1, <1>4 DEF ItemsInv
<1>8. FreshInv'
  <2>1. Pending' = Creates'
    BY <1>1 DEF Pending
  <2>2. ASSUME NEW e \in trusted, Trusted(e.by) \in Creates' PROVE FALSE
    <3>1. PICK k \in DOMAIN bt : Trusted(e.by) = Trusted(k) /\ \A f \in trusted : f.by # k
      BY <1>4, <2>2
    <3>2. QED
      BY <3>1, ItemsDiffer
  <2>3. QED
    BY <1>1, <2>1, <2>2 DEF FreshInv
<1>9. QED
  BY <1>2, <1>5, <1>6, <1>7, <1>8 DEF ImportInv

(* What is created of the system certificates is one on one of the nodes.  *)
LEMMA SystemItems ==
  ASSUME NEW selected \in SUBSET Nodes, NEW unreadable, NEW listed,
         NEW x \in DOMAIN SystemVerdicts(selected, unreadable, listed)
  PROVE  LET v == SystemVerdicts(selected, unreadable, listed)[x]
         IN /\ v \in Verdicts
            /\ \E s, n : x = OnNode(s, n)
            /\ v \in {"create", "withoutPortal"} =>
                 \E s \in DOMAIN bs, n \in Nodes : x = OnNode(s, n)
<1> DEFINE refused == {s \in DOMAIN bs : s \in Dead \/ ~IssuerKnown(s, listed)}
           items == {OnNode(s, None) : s \in refused}
                      \cup {OnNode(s, n) : s \in DOMAIN bs \ refused, n \in selected}
           V(y) == IF y[3] = None THEN "blocked" ELSE NodeVerdict(y[2], y[3], unreadable)
<1>1. SystemVerdicts(selected, unreadable, listed) = [y \in items |-> V(y)]
  BY DEF SystemVerdicts
<1>2. x \in items /\ SystemVerdicts(selected, unreadable, listed)[x] = V(x)
  BY <1>1
<1>3. \A s, n : NodeVerdict(s, n, unreadable) \in Verdicts
  <2> SUFFICES ASSUME NEW s, NEW n PROVE NodeVerdict(s, n, unreadable) \in Verdicts
    OBVIOUS
  <2>1. CASE n \in unreadable
    BY <2>1 DEF NodeVerdict, Verdicts
  <2>2. CASE n \notin unreadable /\ shown /\ \E e \in store[n] : e.cert = s
    BY <2>2 DEF NodeVerdict, Verdicts
  <2>3. CASE n \notin unreadable /\ ~(shown /\ \E e \in store[n] : e.cert = s)
    BY <2>3 DEF NodeVerdict, Verdicts
  <2>4. QED
    BY <2>1, <2>2, <2>3
<1>4. V(x) \in Verdicts
  BY <1>3 DEF Verdicts
<1>5. \/ \E s : x = OnNode(s, None)
      \/ \E s \in DOMAIN bs, n \in selected : x = OnNode(s, n)
  BY <1>2
<1>6. (\E s : x = OnNode(s, None)) => V(x) = "blocked"
  BY ItemsDiffer
<1>7. QED
  BY <1>2, <1>4, <1>5, <1>6

(* What is created now was announced, the trusted ones by the step before. *)
LEMMA ListNodesKeeps == ImportInv /\ ListNodes => ImportInv'
<1> SUFFICES ASSUME ImportInv, ListNodes PROVE ImportInv'
  OBVIOUS
<1>1. /\ UNCHANGED <<bt, bs, noted, unread, trusted, store, up, shown, told, found, deleted, edits>>
      /\ phase = "listNodes" /\ phase' \in {"done", "apply"} /\ told = {}
      /\ todo' = Creates' /\ (phase' = "done" => todo' = {})
  BY DEF ListNodes, exporting, target, ImportInv, PhaseInv, Settling
<1>2. BundleTypes' /\ TargetTypes' /\ MadeInv'
  BY <1>1, BeforeApply
<1>3. PICK offered \in SUBSET Nodes, unreadable \in SUBSET Nodes, listed \in {trusted, {}} :
        verdict' =
          IF bs = << >> THEN verdict
          ELSE IF Selected(offered) = {} THEN Extend(verdict, OnNode(None, None), "blocked")
          ELSE LET new == SystemVerdicts(Selected(offered), unreadable, listed)
               IN [x \in DOMAIN verdict \cup DOMAIN new |->
                     IF x \in DOMAIN new THEN new[x] ELSE verdict[x]]
  BY DEF ListNodes
<1>4. ASSUME NEW x \in DOMAIN verdict'
      PROVE  \/ x \in DOMAIN verdict /\ verdict'[x] = verdict[x]
             \/ /\ verdict'[x] \in Verdicts /\ \E s, n : x = OnNode(s, n)
                /\ verdict'[x] \in {"create", "withoutPortal"} =>
                     \E s \in DOMAIN bs, n \in Nodes : x = OnNode(s, n)
  <2>1. CASE bs = << >>
    BY <1>3, <1>4, <2>1
  <2>2. CASE bs # << >> /\ Selected(offered) = {}
    BY <1>3, <1>4, <2>2 DEF Extend, Verdicts
  <2>3. CASE bs # << >> /\ Selected(offered) # {}
    <3> DEFINE new == SystemVerdicts(Selected(offered), unreadable, listed)
    <3>1. verdict' = [y \in DOMAIN verdict \cup DOMAIN new |->
                        IF y \in DOMAIN new THEN new[y] ELSE verdict[y]]
      BY <1>3, <2>3
    <3>2. Selected(offered) \in SUBSET Nodes
      BY DEF Selected
    <3>3. CASE x \in DOMAIN new
      BY <3>1, <3>2, <3>3, SystemItems
    <3>4. CASE x \notin DOMAIN new
      BY <1>4, <3>1, <3>4
    <3>5. QED
      BY <3>3, <3>4
  <2>4. QED
    BY <2>1, <2>2, <2>3
<1>5. \A x \in Creates' :
        x \in Creates \/ \E s \in DOMAIN bs, n \in Nodes : x = OnNode(s, n)
  BY <1>4 DEF Creates
<1>6. RunTypes'
  <2>1. faults' \in 0..MaxFaults /\ quiet' \in BOOLEAN
    BY FaultTypes DEF ImportInv, ListNodes
  <2>2. \A x \in DOMAIN verdict' : verdict'[x] \in Verdicts
    BY <1>4 DEF ImportInv, RunTypes
  <2>3. QED
    BY <1>1, <2>1, <2>2 DEF ImportInv, RunTypes
<1>7. ItemsInv'
  BY <1>1, <1>5 DEF ImportInv, ItemsInv
<1>8. PhaseInv' /\ FoundInv' /\ ReportedInv'
  BY <1>1 DEF PhaseInv, FoundInv, ReportedInv, Settling
<1>9. FreshInv'
  <2>1. Pending = Creates /\ Pending' \subseteq Creates'
    BY <1>1 DEF Pending
  <2>2. \A k : Trusted(k) \in Creates' => Trusted(k) \in Creates
    BY <1>5, ItemsDiffer
  <2>3. QED
    BY <1>1, <2>1, <2>2 DEF ImportInv, FreshInv
<1>10. QED
  BY <1>2, <1>6, <1>7, <1>8, <1>9 DEF ImportInv

(* An import begins with an empty result.                                  *)
LEMMA RequestKeeps == ImportInv /\ Request => ImportInv'
<1> SUFFICES ASSUME ImportInv, Request PROVE ImportInv'
  OBVIOUS
<1>1. /\ UNCHANGED <<bt, bs, noted, unread, trusted, store, up, shown, edits, faults>>
      /\ phase' = "listTrusted" /\ verdict' = << >> /\ todo' = {} /\ told' = {}
      /\ quiet' = TRUE /\ deleted' = FALSE
  BY DEF Request, ApplyRequest, exporting, target
<1>2. BundleTypes' /\ TargetTypes' /\ MadeInv'
  BY <1>1, BeforeApply
<1>3. DOMAIN verdict' = {}
  BY <1>1
<1>4. RunTypes'
  <2>1. quiet' \in BOOLEAN /\ deleted' \in BOOLEAN
    BY <1>1
  <2>2. QED
    BY <1>1, <1>3, <2>1 DEF ImportInv, RunTypes
<1>5. Creates' = {}
  BY <1>3 DEF Creates
<1>6. PhaseInv' /\ ItemsInv' /\ FoundInv' /\ FreshInv' /\ ReportedInv'
  BY <1>1, <1>5 DEF PhaseInv, ItemsInv, FoundInv, FreshInv, ReportedInv, Pending, Settling
<1>7. QED
  BY <1>2, <1>4, <1>6 DEF ImportInv

-----------------------------------------------------------------------------
(* Applying.                                                               *)

(* What is reached stays so when the target only gains trusted             *)
(* certificates.                                                           *)
LEMMA GainKeepsReached ==
  ASSUME UNCHANGED <<bt, bs, store>>, trusted \subseteq trusted', NEW x, Reached(x)
  PROVE  Reached(x)'
<1>1. CASE x[1] = "trusted"
  BY <1>1 DEF Reached, TrustedComplete, TrustedForeign, TrustedTwin, TrustedTaken
<1>2. CASE x[1] # "trusted"
  BY <1>2 DEF Reached, NodeHeld, NodeClash
<1>3. QED
  BY <1>1, <1>2

(* An item that is done with is reached or in the result; the others are   *)
(* as they were.                                                           *)
LEMMA DoneKeeps ==
  ASSUME ImportInv, NEW x \in todo, Done(x), phase \in Settling \cup {"apply"},
         UNCHANGED <<bt, bs, noted, unread>>, TargetTypes', MadeInv',
         Fault \/ NoFault,
         told' = told \/ told' = told \cup {x},
         phase \in {"lookUp", "settings"} => x = Trusted(found[1]),
         \A e \in trusted' : Trusted(e.by) = x \/ \E f \in trusted : f.by = e.by,
         ~deleted => \A y \in Creates \ {x} : Reached(y) => Reached(y)',
         ~deleted => x \in told' \/ Reached(x)'
  PROVE  ImportInv'
<1>1. /\ UNCHANGED <<verdict, deleted, edits>> /\ todo' = todo \ {x} /\ phase' = "apply"
      /\ Creates' = Creates
  BY DEF Done, Creates
<1>2. BundleTypes'
  BY DEF ImportInv, BundleTypes
<1>3. RunTypes'
  <2>1. faults' \in 0..MaxFaults /\ quiet' \in BOOLEAN
    BY FaultTypes DEF ImportInv
  <2>2. todo' \subseteq Creates' /\ told' \subseteq Creates'
    BY <1>1 DEF ImportInv, RunTypes
  <2>3. QED
    BY <1>1, <2>1, <2>2 DEF ImportInv, RunTypes
<1>4. PhaseInv' /\ FoundInv'
  BY <1>1 DEF PhaseInv, FoundInv, Settling
<1>5. ItemsInv'
  BY <1>1 DEF ImportInv, ItemsInv
<1>6. FreshInv'
  <2>1. Pending' = todo \ {x}
    BY <1>1 DEF Pending
  <2>2. Pending' \subseteq Pending
    <3>1. CASE phase \in {"apply", "again"}
      BY <2>1, <3>1 DEF Pending
    <3>2. CASE phase \in {"lookUp", "settings"}
      BY <2>1, <3>2 DEF Pending
    <3>3. QED
      BY <3>1, <3>2 DEF Settling
  <2>3. QED
    BY <2>1, <2>2 DEF ImportInv, FreshInv
<1>7. ReportedInv'
  <2>1. SUFFICES ASSUME ~deleted, NEW y \in Creates, y \notin todo', y \notin told' PROVE Reached(y)'
    BY <1>1 DEF ReportedInv
  <2>2. CASE y = x
    BY <2>1, <2>2
  <2>3. CASE y # x
    <3>1. y \notin todo /\ y \notin told
      BY <1>1, <2>1, <2>3
    <3>2. Reached(y)
      BY <2>1, <3>1 DEF ImportInv, ReportedInv
    <3>3. QED
      BY <2>1, <2>3, <3>2
  <2>4. QED
    BY <2>2, <2>3
<1>8. QED
  BY <1>2, <1>3, <1>4, <1>5, <1>6, <1>7 DEF ImportInv

(* A step on to the next request about the same certificate.               *)
LEMMA GoOnKeeps ==
  ASSUME ImportInv, NEW k \in DOMAIN bt, Trusted(k) \in todo, phase \in Settling \cup {"apply"},
         phase' \in Settling, found'[1] = k,
         UNCHANGED <<bt, bs, noted, unread, verdict, todo, deleted, edits, store>>,
         TargetTypes', MadeInv', NoFault, trusted \subseteq trusted',
         told' = told \/ told' = told \cup {Trusted(k)},
         IF phase' = "again" THEN Source(k).comma ELSE Source(k).comma => Trusted(k) \in told',
         phase' = "settings" => found'[2].name = bt[k],
         phase \in {"lookUp", "settings"} => found[1] = k /\ phase' # "again",
         \A e \in trusted' \ trusted : phase' \in {"lookUp", "settings"} /\ e.by = k
  PROVE  ImportInv'
<1>1. Creates' = Creates /\ Trusted(k) \in Creates
  BY DEF Creates, ImportInv, RunTypes
<1>2. BundleTypes'
  BY DEF ImportInv, BundleTypes
<1>3. RunTypes'
  <2>1. faults' \in 0..MaxFaults /\ quiet' \in BOOLEAN
    BY FaultTypes DEF ImportInv
  <2>2. phase' \in {"again", "lookUp", "settings"}
    BY DEF Settling
  <2>3. QED
    BY <1>1, <2>1, <2>2 DEF ImportInv, RunTypes
<1>4. PhaseInv' /\ FoundInv'
  BY DEF PhaseInv, FoundInv, Settling
<1>5. ItemsInv'
  BY <1>1 DEF ImportInv, ItemsInv
<1>6. FreshInv'
  <2>1. Pending' \subseteq Pending /\ (phase' \in {"lookUp", "settings"} => Trusted(k) \notin Pending')
    <3>1. CASE phase \in {"apply", "again"} /\ phase' = "again"
      BY <3>1 DEF Pending
    <3>2. CASE phase \in {"apply", "again"} /\ phase' \in {"lookUp", "settings"}
      BY <3>2 DEF Pending
    <3>3. CASE phase \in {"lookUp", "settings"} /\ phase' \in {"lookUp", "settings"}
      BY <3>3 DEF Pending
    <3>4. QED
      BY <3>1, <3>2, <3>3 DEF Settling
  <2>2. QED
    BY <2>1 DEF ImportInv, FreshInv
<1>7. ReportedInv'
  <2>1. SUFFICES ASSUME ~deleted, NEW y \in Creates, y \notin todo, y \notin told' PROVE Reached(y)'
    BY <1>1 DEF ReportedInv
  <2>2. Reached(y)
    BY <2>1 DEF ImportInv, ReportedInv
  <2>3. QED
    BY <2>2, GainKeepsReached
<1>8. QED
  BY <1>2, <1>3, <1>4, <1>5, <1>6, <1>7 DEF ImportInv

(* The POST of a trusted certificate.  A duplicate was not made from this  *)
(* entry (FreshInv): it is somebody else's or another entry's.             *)
LEMMA PostKeeps ==
  ASSUME ImportInv, NEW k \in DOMAIN bt, NEW described \in BOOLEAN, PostTrusted(k, described),
         Trusted(k) \in todo, phase \in {"apply", "again"},
         described <=> ~Source(k).comma
  PROVE  ImportInv'
<1> DEFINE new == Imported(k, described)
<1>1. UNCHANGED <<bt, bs, noted, unread, verdict, deleted, edits, store, up, shown>>
  BY DEF PostTrusted, Done, exporting
<1>2. k \in (DOMAIN SourceTrusted) \X Contents /\ bt[k] \in STRING /\ k # None
  BY NoneIsNoItem DEF ImportInv, BundleTypes
<1>3. new \in TrustedCerts(DOMAIN bt \cup {None}) /\ new.by = k /\ new.cert = k[2] /\ new.name = bt[k]
      /\ new.desc = described /\ new.crl = FALSE
  BY <1>2, PurposesAssumption DEF Imported, Source, TrustedCerts
<1>4. ASSUME NEW e \in trusted PROVE e.by # k
  BY DEF ImportInv, FreshInv, Pending
<1> HIDE DEF new
<1>5. ASSUME trusted' = trusted \/ trusted' = trusted \cup {new}
      PROVE  TargetTypes' /\ MadeInv'
  BY <1>1, <1>2, <1>3, <1>5 DEF ImportInv, TargetTypes, MadeInv
<1>6. CASE /\ ~TrustedHeld(k) /\ ~TrustedClash(k)
           /\ trusted' = trusted \cup {new}
           /\ \/ /\ NoFault
                 /\ IF described THEN UNCHANGED told ELSE Tell(Trusted(k))
                 /\ IF Source(k).crl
                    THEN phase' = "lookUp" /\ found' = <<k, None>>
                         /\ UNCHANGED <<exporting, form, verdict, todo, deleted, edits>>
                    ELSE Done(Trusted(k))
              \/ Lost(Trusted(k)) /\ Done(Trusted(k))
  <2>1. /\ TargetTypes' /\ MadeInv'
        /\ \A y : Reached(y) => Reached(y)'
    BY <1>1, <1>5, <1>6, GainKeepsReached
  <2>2. new \in trusted' /\ \A e \in trusted' : e.by = k \/ e \in trusted
    BY <1>3, <1>6
  <2>3. CASE Lost(Trusted(k)) /\ Done(Trusted(k))
    <3>1. Fault /\ told' = told \cup {Trusted(k)}
      BY <2>3 DEF Lost, Tell
    <3>2. \A e \in trusted' : Trusted(e.by) = Trusted(k) \/ \E f \in trusted : f.by = e.by
      BY <2>2
    <3>3. phase \in Settling \cup {"apply"} /\ Done(Trusted(k)) /\ Trusted(k) \in told'
      BY <2>3, <3>1 DEF Settling
    <3>4. QED
      BY <1>1, <2>1, <3>1, <3>2, <3>3, DoneKeeps
  <2>4. CASE NoFault /\ Source(k).crl /\ ~Done(Trusted(k))
    <3>1. /\ phase' = "lookUp" /\ found'[1] = k /\ UNCHANGED todo
          /\ IF described THEN UNCHANGED told ELSE Tell(Trusted(k))
      BY <1>6, <2>3, <2>4
    <3>2. told' = told \/ told' = told \cup {Trusted(k)}
      BY <3>1 DEF Tell
    <3>3. Source(k).comma => Trusted(k) \in told'
      BY <3>1 DEF Tell
    <3>4. QED
      BY <1>1, <2>1, <2>2, <2>4, <3>1, <3>2, <3>3, <1>6, GoOnKeeps DEF Settling
  <2>5. CASE NoFault /\ ~Source(k).crl /\ Done(Trusted(k))
    <3>1. told' = told \/ told' = told \cup {Trusted(k)}
      BY <1>6, <2>5 DEF Tell, Lost
    <3>2. ~described => Trusted(k) \in told'
      BY <1>6, <2>5 DEF Tell, Lost
    <3>3. described => Reached(Trusted(k))'
      BY <1>1, <1>3, <2>2, <2>5, ItemsDiffer DEF Reached, TrustedComplete
    <3>4. QED
      BY <1>1, <2>1, <2>2, <2>5, <3>1, <3>2, <3>3, DoneKeeps DEF Settling
  <2>6. CASE NoFault /\ Source(k).crl /\ Done(Trusted(k))
    <3>1. phase' = "apply"
      BY <2>6 DEF Done
    <3>2. Lost(Trusted(k)) /\ Done(Trusted(k))
      BY <1>6, <2>6, <3>1
    <3>3. QED
      BY <2>3, <3>2
  <2>7. QED
    BY <1>6, <2>3, <2>4, <2>5, <2>6
<1>7. CASE /\ UNCHANGED trusted /\ Done(Trusted(k))
           /\ \/ (TrustedHeld(k) \/ TrustedClash(k)) /\ Fine
              \/ TrustedClash(k) /\ ~TrustedHeld(k) /\ Refused(Trusted(k))
              \/ Lost(Trusted(k))
  <2>1. /\ TargetTypes' /\ MadeInv'
        /\ \A y : Reached(y) => Reached(y)'
    BY <1>1, <1>5, <1>7, GainKeepsReached
  <2>2. TrustedHeld(k) \/ TrustedClash(k) => Reached(Trusted(k))
    <3>1. TrustedHeld(k) => TrustedForeign(k) \/ TrustedTwin(k)
      BY <1>4 DEF TrustedHeld, TrustedForeign, TrustedTwin
    <3>2. TrustedClash(k) => TrustedHeld(k) \/ TrustedTaken(k)
      BY DEF TrustedClash, TrustedHeld, TrustedTaken
    <3>3. QED
      BY <3>1, <3>2, ItemsDiffer DEF Reached
  <2>3. /\ Fault \/ NoFault
        /\ told' = told \/ told' = told \cup {Trusted(k)}
        /\ Trusted(k) \in told' \/ Reached(Trusted(k))
    BY <1>7, <2>2 DEF Fine, Refused, Lost, Tell
  <2>4. Trusted(k) \in told' \/ Reached(Trusted(k))'
    BY <2>1, <2>3
  <2>5. QED
    BY <1>1, <1>7, <2>1, <2>3, <2>4, DoneKeeps DEF Settling
<1>8. QED
  BY <1>6, <1>7 DEF PostTrusted, new

(* The refusal for a comma leads to the one retry.                         *)
LEMMA CommaKeeps == ASSUME ImportInv, NEW k \in DOMAIN bt, RefuseComma(k) PROVE ImportInv'
<1>1. /\ UNCHANGED <<bt, bs, noted, unread, trusted, store, up, shown, verdict, deleted, edits>>
      /\ phase = "apply" /\ Trusted(k) \in todo /\ Source(k).comma
  BY DEF RefuseComma, Done, Turn, exporting, target
<1>2. TargetTypes' /\ MadeInv' /\ \A y : Reached(y) => Reached(y)'
  BY <1>1, BeforeApply, GainKeepsReached
<1>3. CASE phase' = "again" /\ found' = <<k, None>> /\ NoFault /\ UNCHANGED <<todo, told>>
  <2>1. found'[1] = k /\ phase' \in Settling /\ phase \in Settling \cup {"apply"}
    BY <1>1, <1>3 DEF Settling
  <2>2. QED
    BY <1>1, <1>2, <1>3, <2>1, GoOnKeeps
<1>4. CASE Lost(Trusted(k)) /\ Done(Trusted(k))
  <2>1. Fault /\ told' = told \cup {Trusted(k)} /\ phase \in Settling \cup {"apply"}
    BY <1>1, <1>4 DEF Lost, Tell
  <2>2. QED
    BY <1>1, <1>2, <1>4, <2>1, DoneKeeps
<1>5. QED
  BY <1>3, <1>4 DEF RefuseComma

(* The look-up leads to the settings, or the result names the certificate. *)
LEMMA LookUpKeeps ==
  ASSUME ImportInv, NEW k \in DOMAIN bt, LookUp(k) PROVE ImportInv'
<1>1. /\ UNCHANGED <<bt, bs, noted, unread, trusted, store, up, shown, verdict, deleted, edits>>
      /\ phase = "lookUp" /\ found[1] = k
  BY DEF LookUp, Done, exporting, target
<1>2. Trusted(k) \in todo /\ (Source(k).comma => Trusted(k) \in told) /\ phase \in Settling
  BY <1>1 DEF ImportInv, FoundInv, Settling
<1>3. TargetTypes' /\ MadeInv' /\ \A y : Reached(y) => Reached(y)'
  BY <1>1, BeforeApply, GainKeepsReached
<1>4. ASSUME NEW e \in trusted, e.name = bt[k], found' = <<k, e>>, phase' = "settings", NoFault,
             UNCHANGED <<todo, told>>
      PROVE  ImportInv'
  <2>1. found'[1] = k /\ found'[2] = e /\ phase' \in Settling
    BY <1>4 DEF Settling
  <2>2. QED
    BY <1>1, <1>2, <1>3, <1>4, <2>1, GoOnKeeps
<1>5. CASE Done(Trusted(k)) /\ (Refused(Trusted(k)) \/ Lost(Trusted(k)))
  <2>1. (Fault \/ NoFault) /\ told' = told \cup {Trusted(k)}
    BY <1>5 DEF Lost, Refused, Tell
  <2>2. QED
    BY <1>1, <1>2, <1>3, <1>5, <2>1, DoneKeeps
<1>6. QED
  BY <1>4, <1>5 DEF LookUp

(* The settings go to the import's own certificate, which then is complete *)
(* unless its description was left out, and that is in the result.         *)
LEMMA PutKeeps ==
  ASSUME CertificatesInv, ImportInv, NEW k \in DOMAIN bt, PutSettings(k) PROVE ImportInv'
<1> DEFINE e == found[2]
           new == WithSettings(k, e)
<1>1. /\ UNCHANGED <<bt, bs, noted, unread, store, up, shown, verdict, deleted, edits>>
      /\ phase = "settings" /\ found[1] = k /\ Done(Trusted(k))
      /\ Fault \/ NoFault
      /\ told' = told \/ told' = told \cup {Trusted(k)}
      /\ \/ e \in trusted /\ trusted' = (trusted \ {e}) \cup {new}
         \/ UNCHANGED trusted /\ Trusted(k) \in told'
  BY DEF PutSettings, Done, exporting, Fine, Lost, Refused, Tell
<1>2. /\ Trusted(k) \in todo /\ (Source(k).comma => Trusted(k) \in told)
      /\ e.name = bt[k] /\ phase \in Settling \cup {"apply"}
  BY <1>1 DEF ImportInv, FoundInv, Settling
<1>3. Mine(k, e)
  BY <1>1 DEF CertificatesInv, SettlingInv, SettingsInv
<1>4. k \in (DOMAIN SourceTrusted) \X Contents /\ bt[k] \in STRING /\ k # None
  BY NoneIsNoItem DEF ImportInv, BundleTypes
<1>5. ASSUME e \in trusted
      PROVE  /\ new \in TrustedCerts(DOMAIN bt \cup {None})
             /\ new.cert = e.cert /\ new.by = e.by /\ new.name = bt[k]
             /\ new.crl = TRUE /\ new.desc = ~Source(k).comma
  <2>1. e \in TrustedCerts(DOMAIN bt \cup {None})
    BY <1>5 DEF ImportInv, TargetTypes
  <2>2. Source(k).uses \subseteq Purposes
    BY <1>4, PurposesAssumption DEF Source
  <2> HIDE DEF e
  <2>3. QED
    BY <1>4, <2>1, <2>2 DEF WithSettings, TrustedCerts
<1> HIDE DEF e, new
<1>6. CASE UNCHANGED trusted /\ Trusted(k) \in told'
  <2>1. TargetTypes' /\ MadeInv' /\ \A y : Reached(y) => Reached(y)'
    BY <1>1, <1>6, BeforeApply, GainKeepsReached
  <2>2. QED
    BY <1>1, <1>2, <1>6, <2>1, DoneKeeps
<1>7. CASE e \in trusted /\ trusted' = (trusted \ {e}) \cup {new}
  <2>1. TargetTypes'
    BY <1>1, <1>5, <1>7 DEF ImportInv, TargetTypes
  <2>2. MadeInv'
    <3>1. e.by \in {k, None}
      BY <1>3 DEF Mine
    <3>2. e.by # None => e.cert = e.by[2]
      BY <1>7 DEF ImportInv, MadeInv
    <3>3. QED
      BY <1>1, <1>5, <1>7, <3>1, <3>2 DEF ImportInv, MadeInv
  <2>3. \A f \in trusted' : Trusted(f.by) = Trusted(k) \/ \E g \in trusted : g.by = f.by
    BY <1>5, <1>7
  <2>4. ASSUME ~deleted, NEW y \in Creates \ {Trusted(k)}, Reached(y) PROVE Reached(y)'
    <3>1. e.by = k
      BY <1>3, <2>4 DEF Mine
    <3>2. CASE \E l \in DOMAIN bt : y = Trusted(l)
      <4>1. PICK l \in DOMAIN bt : y = Trusted(l)
        BY <3>2
      <4>2. l # k /\ y[1] = "trusted" /\ y[2] = l
        BY <2>4, <4>1, ItemsDiffer
      <4>3. CASE TrustedComplete(l)
        <5>1. PICK f \in trusted : f.by = l /\ f.desc /\ (Source(l).crl => f.crl)
          BY <4>3 DEF TrustedComplete
        <5>2. f # e
          BY <3>1, <4>2, <5>1
        <5>3. QED
          BY <1>7, <4>2, <5>1, <5>2 DEF TrustedComplete, Reached
      <4>4. CASE TrustedTaken(l)
        <5>1. PICK f \in trusted : f.name = bt[l] /\ f.cert # l[2]
          BY <4>4 DEF TrustedTaken
        <5>2. CASE f = e
          BY <1>1, <1>2, <1>5, <1>7, <4>2, <5>1, <5>2 DEF TrustedTaken, Reached
        <5>3. CASE f # e
          BY <1>1, <1>7, <4>2, <5>1, <5>3 DEF TrustedTaken, Reached
        <5>4. QED
          BY <5>2, <5>3
      <4>5. CASE TrustedForeign(l)
        <5>1. PICK f \in trusted : f.cert = l[2] /\ f.by = None
          BY <4>5 DEF TrustedForeign
        <5>2. f # e
          BY <1>4, <3>1, <5>1
        <5>3. QED
          BY <1>7, <4>2, <5>1, <5>2 DEF TrustedForeign, Reached
      <4>6. CASE TrustedTwin(l)
        <5>1. PICK f \in trusted : f.cert = l[2] /\ f.by \notin {None, l}
          BY <4>6 DEF TrustedTwin
        <5>2. CASE f = e
          BY <1>5, <1>7, <4>2, <5>1, <5>2 DEF TrustedTwin, Reached
        <5>3. CASE f # e
          BY <1>7, <4>2, <5>1, <5>3 DEF TrustedTwin, Reached
        <5>4. QED
          BY <5>2, <5>3
      <4>7. QED
        BY <2>4, <4>2, <4>3, <4>4, <4>5, <4>6 DEF Reached
    <3>3. CASE \E s, n : y = OnNode(s, n)
      <4>1. y[1] # "trusted"
        BY <3>3, ItemsDiffer
      <4>2. QED
        BY <1>1, <2>4, <4>1 DEF Reached, NodeHeld, NodeClash
    <3>4. QED
      BY <2>4, <3>2, <3>3 DEF ImportInv, ItemsInv
  <2>5. ASSUME ~deleted, Trusted(k) \notin told' PROVE Reached(Trusted(k))'
    <3>1. ~Source(k).comma
      BY <1>1, <1>2, <2>5
    <3>2. e.by = k /\ e.cert = k[2]
      BY <1>3, <1>4, <1>7, <2>5 DEF Mine, ImportInv, MadeInv
    <3>3. new \in trusted' /\ new.by = k /\ new.desc /\ new.crl
      BY <1>5, <1>7, <3>1, <3>2
    <3>4. QED
      BY <3>3, ItemsDiffer DEF Reached, TrustedComplete
  <2>6. QED
    BY <1>1, <1>2, <2>1, <2>2, <2>3, <2>4, <2>5, DoneKeeps
<1>8. QED
  BY <1>1, <1>6, <1>7

(* A system certificate is on its node, or the result names it.  What the  *)
(* node had it keeps, but for the admin role.                              *)
LEMMA SystemKeeps ==
  ASSUME CertificatesInv, ImportInv, NEW s \in DOMAIN bs, NEW n \in Nodes,
         ImportSystem(s, n) \/ ImportZip(s, n)
  PROVE  ImportInv'
<1> DEFINE x == OnNode(s, n)
<1>1. /\ UNCHANGED <<bt, bs, noted, unread, trusted, shown, verdict, deleted, edits>>
      /\ phase = "apply" /\ x \in todo /\ Done(x)
      /\ phase \in Settling \cup {"apply"}
      /\ Fault \/ NoFault
      /\ told' = told \/ told' = told \cup {x}
  BY DEF ImportSystem, ImportZip, Done, Turn, exporting, target, Fine, Lost, Refused, Tell
<1>2. MadeInv'
  BY <1>1 DEF ImportInv, MadeInv
<1>3. x[1] # "trusted" /\ x[2] = s /\ x[3] = n
  BY ItemsDiffer
<1> HIDE DEF x
<1>4. ASSUME UNCHANGED <<store, up>>, x \in told' \/ NodeHeld(s, n) \/ NodeClash(s, n)
      PROVE  ImportInv'
  <2>1. TargetTypes' /\ \A y : Reached(y) => Reached(y)'
    BY <1>1, <1>4, BeforeApply, GainKeepsReached
  <2>2. x \in told' \/ Reached(x)
    BY <1>3, <1>4 DEF Reached
  <2>3. QED
    BY <1>1, <1>2, <2>1, <2>2, DoneKeeps
<1>5. ASSUME store' = [store EXCEPT ![n] = {Yield(s, e) : e \in @} \cup {Landed(s, n)}],
             up' = [up EXCEPT ![n] = ~TakesAdmin(s)]
      PROVE  ImportInv'
  <2>1. DOMAIN store = Nodes
    BY DEF CertificatesInv, Shape
  <2>2. /\ store'[n] = {Yield(s, e) : e \in store[n]} \cup {Landed(s, n)}
        /\ \A m \in Nodes \ {n} : store'[m] = store[m]
    BY <1>5, <2>1
  <2>3. ASSUME NEW e \in store[n]
        PROVE  /\ Yield(s, e).cert = e.cert /\ Yield(s, e).name = e.name /\ Yield(s, e).ours = e.ours
               /\ DOMAIN Yield(s, e) = SystemFields /\ Yield(s, e).admin \in BOOLEAN
    <3>1. DOMAIN e = SystemFields /\ e.admin \in BOOLEAN
      BY DEF ImportInv, TargetTypes
    <3>2. Yield(s, e) = e \/ Yield(s, e) = [e EXCEPT !.admin = FALSE]
      BY DEF Yield
    <3>3. QED
      BY <3>1, <3>2 DEF SystemFields
  <2>4. /\ DOMAIN Landed(s, n) = SystemFields /\ Landed(s, n).cert = s /\ Landed(s, n).ours = TRUE
        /\ Landed(s, n).admin \in BOOLEAN
    <3>1. TakesAdmin(s) \in BOOLEAN
      BY DEF TakesAdmin
    <3>2. QED
      BY <3>1 DEF Landed, SystemFields
  <2>5. up' \in [Nodes -> BOOLEAN]
    BY <1>5 DEF ImportInv, TargetTypes
  <2>6. TargetTypes'
    <3>1. ASSUME NEW m \in Nodes, NEW e \in store'[m]
          PROVE  /\ DOMAIN e = SystemFields /\ {e.admin, e.ours} \subseteq BOOLEAN
                 /\ e.ours => e.cert \in DOMAIN bs
      <4>1. CASE m # n
        BY <2>2, <4>1 DEF ImportInv, TargetTypes
      <4>2. CASE m = n /\ e = Landed(s, n)
        BY <2>4, <4>2
      <4>3. CASE m = n /\ \E f \in store[n] : e = Yield(s, f)
        BY <2>3, <4>3 DEF ImportInv, TargetTypes
      <4>4. QED
        BY <2>2, <4>1, <4>2, <4>3
    <3>2. QED
      BY <1>1, <2>5, <3>1 DEF ImportInv, TargetTypes
  <2>7. ASSUME NEW y \in Creates \ {x}, Reached(y) PROVE Reached(y)'
    <3>1. CASE y[1] = "trusted"
      BY <1>1, <2>7, <3>1
      DEF Reached, TrustedComplete, TrustedForeign, TrustedTwin, TrustedTaken
    <3>2. CASE y[1] # "trusted"
      <4>1. PICK r \in DOMAIN bs, m \in Nodes : y = OnNode(r, m)
        BY <2>7, <3>2, ItemsDiffer DEF ImportInv, ItemsInv
      <4>2. y[2] = r /\ y[3] = m
        BY <4>1, ItemsDiffer
      <4>3. \A e \in store[m] : \E f \in store'[m] : f.cert = e.cert /\ f.name = e.name
        <5>1. CASE m = n
          BY <2>2, <2>3, <5>1
        <5>2. CASE m # n
          BY <2>2, <5>2
        <5>3. QED
          BY <5>1, <5>2
      <4>4. NodeHeld(r, m) \/ NodeClash(r, m)
        BY <2>7, <3>2, <4>2 DEF Reached
      <4>5. NodeHeld(r, m)' \/ NodeClash(r, m)'
        BY <1>1, <4>3, <4>4 DEF NodeHeld, NodeClash
      <4>6. QED
        BY <3>2, <4>2, <4>5 DEF Reached
    <3>3. QED
      BY <3>1, <3>2
  <2>8. Reached(x)'
    BY <1>3, <2>2, <2>4 DEF Reached, NodeHeld
  <2>9. QED
    BY <1>1, <1>2, <2>6, <2>7, <2>8, DoneKeeps
<1>6. CASE ImportZip(s, n)
  <2>1. UNCHANGED <<store, up>> /\ x \in told'
    BY <1>6 DEF ImportZip, Refused, Tell, target, x
  <2>2. QED
    BY <1>4, <2>1
<1>7. CASE ImportSystem(s, n)
  <2>1. CASE /\ store' = [store EXCEPT ![n] = {Yield(s, e) : e \in @} \cup {Landed(s, n)}]
             /\ up' = [up EXCEPT ![n] = ~TakesAdmin(s)]
    BY <1>5, <2>1
  <2>2. CASE /\ UNCHANGED <<store, up>>
             /\ \/ up[n] /\ (NodeHeld(s, n) \/ NodeClash(s, n)) /\ Fine
                \/ up[n] /\ ~NodeHeld(s, n) /\ NodeRefuses(s, n) /\ Refused(x)
                \/ ~up[n] /\ Refused(x)
                \/ Lost(x)
    BY <1>4, <2>2 DEF Refused, Lost, Tell
  <2>3. QED
    BY <1>7, <2>1, <2>2 DEF ImportSystem, x
<1>8. QED
  BY <1>6, <1>7

(* What administrators add changes nothing that was reached, and deleting  *)
(* is noticed.                                                             *)
LEMMA AdminKeeps == ImportInv /\ Admin => ImportInv'
<1> SUFFICES ASSUME ImportInv, Admin PROVE ImportInv'
  OBVIOUS
<1>1. /\ Edit
      /\ \/ deleted' = TRUE /\ trusted' \subseteq trusted
            /\ \A n \in Nodes : store'[n] \subseteq store[n]
         \/ /\ UNCHANGED <<store, deleted>>
            /\ \E c \in Strangers, k \in DOMAIN bt : trusted' = trusted \cup {Theirs(c, bt[k])}
  <2>1. ASSUME NEW m \in Nodes, NEW e \in store[m], AdminDeletesSystem(m, e)
        PROVE  \A n \in Nodes : store'[n] \subseteq store[n]
    BY <2>1 DEF AdminDeletesSystem
  <2>2. QED
    BY <2>1 DEF Admin, AdminAddsTrusted, AdminDeletesTrusted, AdminDeletesSystem
<1>2. /\ UNCHANGED <<bt, bs, noted, unread, phase, up, shown, verdict, todo, found, told, faults>>
      /\ quiet' = FALSE /\ Creates' = Creates
  BY <1>1 DEF Edit, exporting, run, Creates
<1>3. edits' \in 0..MaxEdits
  BY <1>1, CertificatesBounds DEF Edit, ImportInv, RunTypes
<1>4. \A e \in trusted' : e \in trusted \/ \E c \in Strangers, k \in DOMAIN bt : e = Theirs(c, bt[k])
  BY <1>1
<1>5. \A c \in Strangers, k \in DOMAIN bt :
        /\ Theirs(c, bt[k]) \in TrustedCerts(DOMAIN bt \cup {None})
        /\ Theirs(c, bt[k]).by = None
  BY DEF Theirs, TrustedCerts, ImportInv, BundleTypes
<1>6. BundleTypes' /\ MadeInv'
  BY <1>2, <1>4, <1>5 DEF ImportInv, BundleTypes, MadeInv
<1>7. TargetTypes'
  <2>1. \A n \in Nodes : store'[n] \subseteq store[n]
    BY <1>1
  <2>2. QED
    BY <1>2, <1>4, <1>5, <2>1 DEF ImportInv, TargetTypes
<1>8. RunTypes'
  <2>1. quiet' \in BOOLEAN /\ deleted' \in BOOLEAN
    <3>1. deleted' = TRUE \/ deleted' = deleted
      BY <1>1
    <3>2. QED
      BY <1>2, <3>1 DEF ImportInv, RunTypes
  <2>2. QED
    BY <1>2, <1>3, <2>1 DEF ImportInv, RunTypes
<1>9. PhaseInv' /\ ItemsInv' /\ FoundInv'
  BY <1>2 DEF ImportInv, PhaseInv, ItemsInv, FoundInv
<1>10. FreshInv'
  <2>1. Pending' = Pending
    BY <1>2 DEF Pending
  <2>2. Pending \subseteq Creates
    BY DEF Pending, ImportInv, RunTypes
  <2>3. Trusted(None) \notin Pending
    BY <2>2, NoneIsNoItem, ItemsDiffer DEF ImportInv, ItemsInv
  <2>4. QED
    BY <1>4, <1>5, <2>1, <2>3 DEF ImportInv, FreshInv
<1>11. ReportedInv'
  <2>1. SUFFICES ASSUME ~deleted', NEW y, Reached(y) PROVE Reached(y)'
    BY <1>1, <1>2 DEF ImportInv, ReportedInv
  <2>2. UNCHANGED store /\ trusted \subseteq trusted'
    BY <1>1, <2>1
  <2>3. QED
    BY <1>2, <2>1, <2>2, GainKeepsReached
<1>12. QED
  BY <1>6, <1>7, <1>8, <1>9, <1>10, <1>11 DEF ImportInv

(* Steps that change neither bundle nor certificates nor the result.       *)
LEMMA IdleKeeps ==
  ASSUME ImportInv, UNCHANGED <<bt, bs, noted, unread, trusted, store, shown>>,
         UNCHANGED <<verdict, todo, found, told, quiet, deleted, edits, faults>>,
         up' \in [Nodes -> BOOLEAN],
         \/ UNCHANGED phase
         \/ phase = "apply" /\ phase' = "done" /\ todo = {}
  PROVE  ImportInv'
<1>1. Creates' = Creates
  BY DEF Creates
<1>2. BundleTypes' /\ TargetTypes' /\ MadeInv' /\ ItemsInv'
  BY <1>1 DEF ImportInv, BundleTypes, TargetTypes, MadeInv, ItemsInv
<1>3. RunTypes'
  BY <1>1 DEF ImportInv, RunTypes
<1>4. PhaseInv' /\ FoundInv'
  BY DEF ImportInv, PhaseInv, FoundInv, Settling
<1>5. FreshInv'
  <2>1. Pending' \subseteq Pending
    BY <1>1 DEF Pending
  <2>2. QED
    BY <2>1 DEF ImportInv, FreshInv
<1>6. ReportedInv'
  <2>1. \A y : Reached(y) => Reached(y)'
    BY GainKeepsReached
  <2>2. QED
    BY <1>1, <2>1 DEF ImportInv, ReportedInv, Settling
<1>7. QED
  BY <1>2, <1>3, <1>4, <1>5, <1>6 DEF ImportInv

(* ImportInv is inductive, relative to CertificatesInv.                    *)
LEMMA ImportStep == CertificatesInv /\ ImportInv /\ [Next]_vars => ImportInv'
<1> SUFFICES ASSUME CertificatesInv, ImportInv, [Next]_vars PROVE ImportInv'
  OBVIOUS
<1>1. CASE Exporting
  BY <1>1, ExportKeepsImport
<1>2. CASE Request \/ ListTrusted \/ ListNodes
  BY <1>2, RequestKeeps, ListTrustedKeeps, ListNodesKeeps
<1>3. ASSUME NEW k \in DOMAIN bt, ImportTrusted(k) PROVE ImportInv'
  <2>1. phase = "apply" /\ Trusted(k) \in todo /\ ~Source(k).comma /\ PostTrusted(k, TRUE)
    BY <1>3 DEF ImportTrusted, Turn
  <2>2. QED
    BY <2>1, PostKeeps
<1>4. ASSUME NEW k \in DOMAIN bt, ImportAgain(k) PROVE ImportInv'
  <2>1. phase = "again" /\ found[1] = k /\ PostTrusted(k, FALSE)
    BY <1>4 DEF ImportAgain
  <2>2. Trusted(k) \in todo /\ Source(k).comma
    BY <2>1 DEF ImportInv, FoundInv, Settling
  <2>3. QED
    BY <2>1, <2>2, PostKeeps
<1>5. ASSUME NEW k \in DOMAIN bt, RefuseComma(k) \/ LookUp(k) \/ PutSettings(k) PROVE ImportInv'
  BY <1>5, CommaKeeps, LookUpKeeps, PutKeeps
<1>6. ASSUME NEW s \in DOMAIN bs, NEW n \in Nodes, ImportSystem(s, n) \/ ImportZip(s, n)
      PROVE  ImportInv'
  BY <1>6, SystemKeeps
<1>7. CASE Admin
  BY <1>7, AdminKeeps
<1>8. up \in [Nodes -> BOOLEAN]
  BY DEF ImportInv, TargetTypes
<1>9. CASE Finish
  BY <1>8, <1>9, IdleKeeps DEF Finish, exporting, target, run
<1>10. ASSUME NEW n \in Nodes, Restarted(n) PROVE ImportInv'
  <2>1. up' \in [Nodes -> BOOLEAN]
    BY <1>8, <1>10 DEF Restarted
  <2>2. QED
    BY <1>10, <2>1, IdleKeeps DEF Restarted, exporting, run
<1>11. CASE UNCHANGED vars
  BY <1>8, <1>11, IdleKeeps DEF vars, exporting, target, run
<1>12. QED
  BY <1>1, <1>2, <1>3, <1>4, <1>5, <1>6, <1>7, <1>9, <1>10, <1>11 DEF Next, Handler

LEMMA ImportAlways == Spec => []ImportInv
  BY CertificatesAlways, ImportInit, ImportStep, PTL DEF Spec

(* Type correctness of bundle, target and import.                          *)
THEOREM CertificatesTypeOK == Spec => []TypeOK
<1>1. ImportInv => TypeOK
  BY DEF ImportInv, BundleTypes, TargetTypes, RunTypes, Verdicts, TypeOK
<1>2. QED
  BY <1>1, ImportAlways, PTL

(* What was announced is on the target, a trusted certificate with the CRL *)
(* settings and the description of its own entry, or the result names it,  *)
(* unless somebody deleted something, the name belongs to another          *)
(* certificate, or the same certificate is there from somebody else or     *)
(* from another entry of the bundle.                                       *)
THEOREM CertificatesIncompleteIsReported == Spec => []IncompleteIsReported
<1>1. ImportInv => IncompleteIsReported
  BY DEF ImportInv, PhaseInv, ReportedInv, IncompleteIsReported, Settling
<1>2. QED
  BY <1>1, ImportAlways, PTL
=============================================================================
