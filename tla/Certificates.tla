---------------------------- MODULE Certificates ----------------------------
(***************************************************************************)
(* Certificates: pre-flight and import of trusted and system certificates  *)
(* into a deployment of several nodes, repeated as the operator likes.     *)
(*                                                                         *)
(* A trusted certificate is written once for the deployment, its CRL       *)
(* settings in a second request that finds the object by name and replaces *)
(* it whole.  A system certificate is written to every selected node, each *)
(* dialled directly; taking the admin role restarts the node.  Within a    *)
(* family the order is fixed but not the alphabet's.                       *)
(* How many objects were created or skipped is not counted here.           *)
(***************************************************************************)
EXTENDS CertificateExport

CONSTANTS
  Nodes,       \* the target's nodes
  AdminNodes,  \* those that serve the admin API
  Connected,   \* the one the import logs in to
  Forms,       \* what the operator may send: nodes ticked, admin role wanted
  Purposes,    \* what a trusted certificate may be trusted for
  Strangers,   \* certificates the target may have got from somebody else
  Starts,      \* what the target may have at the start
  MaxEdits,    \* bound on changes to the target by somebody else
  MaxFaults    \* bound on failed requests

ASSUME NodesAssumption ==
  /\ AdminNodes \subseteq Nodes /\ Connected \in AdminNodes /\ None \notin Nodes
  /\ \A f \in Forms : f.nodes \subseteq AdminNodes /\ f.admin \in BOOLEAN
TrustedFields == {"cert", "name", "uses", "crl", "desc", "by"}
TrustedCerts(origins) ==
  [cert : Contents \cup Strangers, name : STRING, uses : SUBSET Purposes,
   crl : BOOLEAN, desc : BOOLEAN, by : origins]
SystemFields == {"cert", "name", "tag", "admin", "ours"}
ASSUME StartsAssumption ==   \* nothing is there from an import
  \A t \in Starts :
    /\ t.trusted \subseteq TrustedCerts({None})
    /\ DOMAIN t.store = Nodes /\ t.shown \in BOOLEAN
    /\ \A n \in Nodes : \A e \in t.store[n] :
         DOMAIN e = SystemFields /\ e.admin \in BOOLEAN /\ e.ours = FALSE
ASSUME PurposesAssumption ==
  \A n \in DOMAIN SourceTrusted : SourceTrusted[n].uses \subseteq Purposes
ASSUME CertificatesBounds == {MaxEdits, MaxFaults} \subseteq Nat

VARIABLES
  trusted,   \* the target's trusted certificates
  store,     \* node -> its system certificates
  up,        \* node -> it answers
  shown,     \* the target shows SHA-256 fingerprints
  form,      \* what the operator sent with this import
  verdict,   \* item -> "create", "withoutPortal", "skip" or "blocked"
  todo,      \* items that are still to be created
  found,     \* the certificate being settled, and the object looked up for it
  told,      \* items that the result names as failed or incomplete
  quiet,     \* since the import began no request failed and nobody else
             \* changed the target
  deleted,   \* since the import began somebody deleted something
  edits, faults

target == <<trusted, store, up, shown>>
run == <<form, verdict, todo, found, told>>
vars == <<exporting, phase, target, run, quiet, deleted, edits, faults>>

\* Items; None where one item stands for all nodes or for the whole family.
Trusted(k) == <<"trusted", k>>
OnNode(s, n) == <<"system", s, n>>

Creates == {x \in DOMAIN verdict : verdict[x] \in {"create", "withoutPortal"}}

Fault == faults < MaxFaults /\ faults' = faults + 1 /\ quiet' = FALSE
NoFault == UNCHANGED <<faults, quiet>>

Extend(f, x, v) == [y \in DOMAIN f \cup {x} |-> IF y = x THEN v ELSE f[y]]

-----------------------------------------------------------------------------
(* Pre-flight                                                              *)

\* Compared by content, or by name when the target shows no fingerprints.
TrustedVerdict(k) ==
  CASE k[2] \in Dead           -> "blocked"
    [] k[2] \notin Dead /\ shown /\ trusted # {} ->
         IF \E e \in trusted : e.cert = k[2] THEN "skip" ELSE "create"
    [] OTHER -> IF \E e \in trusted : e.name = bt[k] THEN "skip" ELSE "create"

\* preflightTrustedCerts: one item stands for a family that cannot be read.
ListTrusted ==
  /\ phase = "listTrusted"
  /\ phase' = "listNodes"
  /\ \/ /\ verdict' = [x \in {Trusted(k) : k \in DOMAIN bt} |-> TrustedVerdict(x[2])]
        /\ NoFault
     \/ /\ verdict' = Extend(<<>>, Trusted(None), "blocked")
        /\ Fault
  /\ UNCHANGED <<exporting, target, form, todo, found, told, deleted, edits>>

\* An issuer counts when the bundle carries it, dead or blocked as it may be,
\* or the target lists it.
IssuerKnown(s, listed) ==
  \/ bs[s].issuer = None
  \/ \E k \in DOMAIN bt : k[2] = bs[s].issuer
  \/ \E e \in listed : e.cert = bs[s].issuer

TagHeld(s, n) ==
  /\ bs[s].tag # None
  /\ \E e \in store[n] : e.tag = bs[s].tag /\ e.name # bs[s].name

\* Mutation: a portal tag that is taken blocks the certificate.
NodeVerdictTagBlocks(s, n, unreadable) ==
  CASE n \in unreadable -> "blocked"
    [] n \notin unreadable /\ shown /\ (\E e \in store[n] : e.cert = s) -> "skip"
    [] OTHER ->
         IF (\E e \in store[n] : e.name = bs[s].name) \/ TagHeld(s, n) THEN "blocked" ELSE "create"

\* One certificate on one node: same content, same name, portal tag taken.
NodeVerdict(s, n, unreadable) ==
  CASE n \in unreadable -> "blocked"
    [] n \notin unreadable /\ shown /\ (\E e \in store[n] : e.cert = s) -> "skip"
    [] OTHER -> IF \E e \in store[n] : e.name = bs[s].name THEN "blocked"
                ELSE IF TagHeld(s, n) THEN "withoutPortal"
                ELSE "create"

\* A certificate that is blocked for all nodes has a single item.
SystemVerdicts(selected, unreadable, listed) ==
  LET refused == {s \in DOMAIN bs : s \in Dead \/ ~IssuerKnown(s, listed)}
  IN [x \in {OnNode(s, None) : s \in refused}
            \cup {OnNode(s, n) : s \in DOMAIN bs \ refused, n \in selected} |->
        IF x[3] = None THEN "blocked" ELSE NodeVerdict(x[2], x[3], unreadable)]

Selected(offered) ==
  {n \in offered \cap AdminNodes : form.nodes = {} \/ n \in form.nodes}

\* preflightSystemCerts: the node list, the store of every node, the trusted
\* certificates.  A node that is restarting may still be reported connected,
\* and then its store is unreadable.  Without a node list only the node the
\* import is connected to is offered.  handleApply ends when there is nothing
\* to create.
ListNodes ==
  /\ phase = "listNodes"
  /\ \E offered \in SUBSET Nodes, unreadable \in SUBSET Nodes, listed \in {trusted, {}} :
       /\ {n \in Nodes : ~up[n]} \cap offered \subseteq unreadable
       /\ LET complete == {n \in Nodes : up[n]} \subseteq offered
              failures == Cardinality({n \in unreadable : up[n]})
                            + (IF listed = trusted THEN 0 ELSE 1) + (IF complete THEN 0 ELSE 1)
          IN /\ complete \/ offered = {Connected}
             /\ \/ failures = 0 /\ NoFault
                \/ failures = 1 /\ Fault
       /\ verdict' =
            IF bs = <<>> THEN verdict
            ELSE IF Selected(offered) = {} THEN Extend(verdict, OnNode(None, None), "blocked")
            ELSE LET new == SystemVerdicts(Selected(offered), unreadable, listed)
                 IN [x \in DOMAIN verdict \cup DOMAIN new |->
                       IF x \in DOMAIN new THEN new[x] ELSE verdict[x]]
  /\ todo' = Creates'
  /\ phase' = IF todo' = {} THEN "done" ELSE "apply"
  /\ UNCHANGED <<exporting, target, form, found, told, deleted, edits>>

\* Mutation: the result starts with the errors of the import before.
ApplyRequestKeepsErrors(f) ==
  /\ phase \in {"idle", "done"}
  /\ up[Connected]
  /\ phase' = "listTrusted"
  /\ form' = f
  /\ verdict' = <<>> /\ todo' = {} /\ found' = None
  /\ quiet' = TRUE /\ deleted' = FALSE
  /\ UNCHANGED <<exporting, target, told, edits, faults>>

\* handleApply begins: pre-flight runs again whatever the browser was shown.
ApplyRequest(f) ==
  /\ phase \in {"idle", "done"}
  /\ up[Connected]
  /\ phase' = "listTrusted"
  /\ form' = f
  /\ verdict' = <<>> /\ todo' = {} /\ found' = None /\ told' = {}
  /\ quiet' = TRUE /\ deleted' = FALSE
  /\ UNCHANGED <<exporting, target, edits, faults>>

-----------------------------------------------------------------------------
(* Trusted certificates: applying                                          *)

Source(k) == SourceTrusted[k[1]]

\* Trusted certificates come before system certificates.
Turn(x) ==
  x \in todo /\ x = CHOOSE y \in todo : y[1] = "trusted" \/ \A z \in todo : z[1] = "system"

Done(x) ==
  /\ todo' = todo \ {x}
  /\ phase' = "apply" /\ found' = None
  /\ UNCHANGED <<exporting, form, verdict, deleted, edits>>

Tell(x) == told' = told \cup {x}
\* Created, or skipped as a duplicate.
Fine == NoFault /\ UNCHANGED told
Refused(x) == NoFault /\ Tell(x)

\* Mutation: a failed request is only logged.
LostSilently(x) == Fault /\ UNCHANGED told

\* No answer: the request may have been carried out.
Lost(x) == Fault /\ Tell(x)

\* ISE keeps contents and names unique.
TrustedHeld(k) == \E e \in trusted : e.cert = k[2]
TrustedClash(k) == \E e \in trusted : e.name = bt[k]

\* The import carries name, description and trust flags.
Imported(k, described) ==
  [cert |-> k[2], name |-> bt[k], uses |-> Source(k).uses, crl |-> FALSE,
   desc |-> described, by |-> k]

\* Mutation: a duplicate falls through to the CRL settings.
PostTrustedGoesOn(k, described) ==
  /\ UNCHANGED <<store, up, shown>>
  /\ \/ /\ ~TrustedHeld(k) /\ ~TrustedClash(k)
        /\ trusted' = trusted \cup {Imported(k, described)}
        /\ \/ /\ NoFault
              /\ IF described THEN UNCHANGED told ELSE Tell(Trusted(k))
              /\ IF Source(k).crl
                 THEN phase' = "lookUp" /\ found' = <<k, None>>
                      /\ UNCHANGED <<exporting, form, verdict, todo, deleted, edits>>
                 ELSE Done(Trusted(k))
           \/ Lost(Trusted(k)) /\ Done(Trusted(k))
     \/ /\ TrustedHeld(k) \/ TrustedClash(k)
        /\ Fine /\ UNCHANGED trusted
        /\ phase' = "lookUp" /\ found' = <<k, None>>
        /\ UNCHANGED <<exporting, form, verdict, todo, deleted, edits>>

\* POST .../trusted-certificate/import.  ISE's words for a name that is taken
\* may or may not be those isFine knows.
PostTrusted(k, described) ==
  /\ UNCHANGED <<store, up, shown>>
  /\ \/ /\ ~TrustedHeld(k) /\ ~TrustedClash(k)
        /\ trusted' = trusted \cup {Imported(k, described)}
        /\ \/ /\ NoFault
              /\ IF described THEN UNCHANGED told ELSE Tell(Trusted(k))
              /\ IF Source(k).crl
                 THEN phase' = "lookUp" /\ found' = <<k, None>>
                      /\ UNCHANGED <<exporting, form, verdict, todo, deleted, edits>>
                 ELSE Done(Trusted(k))
           \/ Lost(Trusted(k)) /\ Done(Trusted(k))
     \/ /\ UNCHANGED trusted /\ Done(Trusted(k))
        /\ \/ (TrustedHeld(k) \/ TrustedClash(k)) /\ Fine
           \/ TrustedClash(k) /\ ~TrustedHeld(k) /\ Refused(Trusted(k))
           \/ Lost(Trusted(k))

ImportTrusted(k) ==
  /\ phase = "apply" /\ Turn(Trusted(k))
  /\ ~Source(k).comma
  /\ PostTrusted(k, TRUE)

\* A description with a comma fails ISE's security check.
RefuseComma(k) ==
  /\ phase = "apply" /\ Turn(Trusted(k))
  /\ Source(k).comma
  /\ \/ /\ phase' = "again" /\ found' = <<k, None>> /\ NoFault
        /\ UNCHANGED <<exporting, form, verdict, todo, told, deleted, edits>>
     \/ Lost(Trusted(k)) /\ Done(Trusted(k))
  /\ UNCHANGED target

\* The one retry without it; that it is missing is reported.
ImportAgain(k) ==
  /\ phase = "again" /\ found[1] = k
  /\ PostTrusted(k, FALSE)

\* The created certificate is looked up by its name; found then holds the object,
\* which an id stands for.
LookUp(k) ==
  /\ phase = "lookUp" /\ found[1] = k
  /\ \/ \E e \in trusted :
          /\ e.name = bt[k]
          /\ found' = <<k, e>> /\ phase' = "settings"
          /\ NoFault
          /\ UNCHANGED <<exporting, form, verdict, todo, told, deleted, edits>>
     \/ (\A e \in trusted : e.name # bt[k]) /\ Refused(Trusted(k)) /\ Done(Trusted(k))
     \/ Lost(Trusted(k)) /\ Done(Trusted(k))
  /\ UNCHANGED target

\* Mutation: the trust flags are not sent again.
WithoutFlags(k, e) ==
  [e EXCEPT !.name = bt[k], !.uses = {}, !.crl = TRUE, !.desc = ~Source(k).comma]

\* The body of the PUT, which replaces the object.
WithSettings(k, e) ==
  [e EXCEPT !.name = bt[k], !.uses = Source(k).uses, !.crl = TRUE, !.desc = ~Source(k).comma]

\* PUT of the CRL settings.  A failure is reported, the certificate stays.
PutSettings(k) ==
  /\ phase = "settings" /\ found[1] = k
  /\ LET e == found[2]
     IN \/ /\ e \in trusted
           /\ trusted' = (trusted \ {e}) \cup {WithSettings(k, e)}
           /\ Fine \/ Lost(Trusted(k))
        \/ /\ UNCHANGED trusted
           /\ (e \notin trusted /\ Refused(Trusted(k))) \/ Lost(Trusted(k))
  /\ Done(Trusted(k))
  /\ UNCHANGED <<store, up, shown>>

-----------------------------------------------------------------------------
(* System certificates: applying                                           *)

TakesAdmin(s) == bs[s].admin /\ form.admin

Tag(s, n) == IF verdict[OnNode(s, n)] = "withoutPortal" THEN None ELSE bs[s].tag

\* What ISE refuses with allowReplacement... false.
NodeHeld(s, n) == \E e \in store[n] : e.cert = s
NodeClash(s, n) == \E e \in store[n] : e.name = bs[s].name
NodeRefuses(s, n) ==
  \/ NodeClash(s, n)
  \/ Tag(s, n) # None /\ \E e \in store[n] : e.tag = Tag(s, n)
  \/ bs[s].issuer # None /\ \A e \in trusted : e.cert # bs[s].issuer

Landed(s, n) ==
  [cert |-> s, name |-> bs[s].name, tag |-> Tag(s, n), admin |-> TakesAdmin(s), ours |-> TRUE]

Yield(s, e) == IF TakesAdmin(s) THEN [e EXCEPT !.admin = FALSE] ELSE e

\* POST .../system-certificate/import, dialled at the node itself.  The admin
\* role moves to the new certificate and restarts the node.
ImportSystem(s, n) ==
  LET x == OnNode(s, n)
  IN /\ phase = "apply" /\ Turn(x)
     /\ ~bs[s].zip
     /\ Done(x)
     /\ UNCHANGED <<trusted, shown>>
     /\ \/ /\ up[n] /\ ~NodeHeld(s, n) /\ ~NodeRefuses(s, n)
           /\ store' = [store EXCEPT ![n] = {Yield(s, e) : e \in @} \cup {Landed(s, n)}]
           /\ up' = [up EXCEPT ![n] = ~TakesAdmin(s)]
           /\ Fine \/ Lost(x)
        \/ /\ UNCHANGED <<store, up>>
           /\ \/ up[n] /\ (NodeHeld(s, n) \/ NodeClash(s, n)) /\ Fine
              \/ up[n] /\ ~NodeHeld(s, n) /\ NodeRefuses(s, n) /\ Refused(x)
              \/ ~up[n] /\ Refused(x)
              \/ Lost(x)

\* The key of a ZIP needs the password it was exported with.  The form has no
\* visible field for it: the report that decides so leaves the object out.
ImportZip(s, n) ==
  LET x == OnNode(s, n)
  IN /\ phase = "apply" /\ Turn(x)
     /\ bs[s].zip
     /\ Refused(x) /\ Done(x)
     /\ UNCHANGED target

Finish ==
  /\ phase = "apply" /\ todo = {}
  /\ phase' = "done"
  /\ UNCHANGED <<exporting, target, run, quiet, deleted, edits, faults>>

Handler ==
  \/ ListTrusted \/ ListNodes
  \/ \E k \in DOMAIN bt :
       ImportTrusted(k) \/ RefuseComma(k) \/ ImportAgain(k) \/ LookUp(k) \/ PutSettings(k)
  \/ \E s \in DOMAIN bs, n \in Nodes : ImportSystem(s, n) \/ ImportZip(s, n)
  \/ Finish

-----------------------------------------------------------------------------
(* The deployment and its administrators                                   *)

Restarted(n) ==
  /\ ~up[n]
  /\ up' = [up EXCEPT ![n] = TRUE]
  /\ UNCHANGED <<exporting, phase, trusted, store, shown, run, quiet, deleted, edits, faults>>

Edit ==
  /\ edits < MaxEdits /\ edits' = edits + 1 /\ quiet' = FALSE
  /\ phase \notin {"exportTrusted", "exportSystem", "exportKeys"}
  /\ UNCHANGED <<exporting, phase, up, shown, run, faults>>

Theirs(c, name) == [cert |-> c, name |-> name, uses |-> {}, crl |-> FALSE, desc |-> FALSE, by |-> None]

AdminAddsTrusted(c, name) ==
  /\ Edit
  /\ \A e \in trusted : e.cert # c /\ e.name # name
  /\ trusted' = trusted \cup {Theirs(c, name)}
  /\ UNCHANGED <<store, deleted>>

AdminDeletesTrusted(e) ==
  /\ Edit
  /\ trusted' = trusted \ {e} /\ deleted' = TRUE
  /\ UNCHANGED store

AdminDeletesSystem(n, e) ==
  /\ Edit
  /\ ~e.admin                              \* a node keeps its admin certificate
  /\ store' = [store EXCEPT ![n] = @ \ {e}] /\ deleted' = TRUE
  /\ UNCHANGED trusted

Admin ==
  \/ \E c \in Strangers, k \in DOMAIN bt : AdminAddsTrusted(c, bt[k])
  \/ \E e \in trusted : AdminDeletesTrusted(e)
  \/ \E n \in Nodes : \E e \in store[n] : AdminDeletesSystem(n, e)

Request == \E f \in Forms : ApplyRequest(f)
Exporting == Export /\ UNCHANGED <<target, run, quiet, deleted, edits, faults>>

Next ==
  \/ Exporting \/ Request \/ Handler \/ Admin
  \/ \E n \in Nodes : Restarted(n)

Init ==
  /\ ExportInit
  /\ \E t \in Starts : trusted = t.trusted /\ store = t.store /\ shown = t.shown
  /\ up = [n \in Nodes |-> TRUE]
  /\ form = [nodes |-> {}, admin |-> FALSE]
  /\ verdict = <<>> /\ todo = {} /\ found = None /\ told = {}
  /\ quiet = FALSE /\ deleted = FALSE /\ edits = 0 /\ faults = 0

Spec == Init /\ [][Next]_vars

\* What the form sends when no box was touched: every node, no admin role.
Untouched == [nodes |-> {}, admin |-> FALSE]

\* Every call is bounded by the client's timeout, a node comes back from a
\* restart, and the operator imports again and again, now and then with every
\* node ticked.
FairSpec ==
  /\ Spec
  /\ WF_vars(Exporting) /\ WF_vars(Handler)
  /\ \A n \in Nodes : WF_vars(Restarted(n))
  /\ WF_vars(Request) /\ SF_vars(ApplyRequest(Untouched))

-----------------------------------------------------------------------------
(* Types of the variables.                                                 *)
TypeOK ==
  /\ DOMAIN bt \subseteq (DOMAIN SourceTrusted) \X Contents
  /\ DOMAIN bs \subseteq DOMAIN SourceSystem \cup DOMAIN Zips
  /\ noted \subseteq PickedTrusted \cup PickedSystem
  /\ unread \subseteq Sightings
  /\ trusted \subseteq TrustedCerts(DOMAIN bt \cup {None})
  /\ \A n \in Nodes : \A e \in store[n] :
       {e.admin, e.ours} \subseteq BOOLEAN /\ (e.ours => e.cert \in DOMAIN bs)
  /\ up \in [Nodes -> BOOLEAN] /\ shown \in BOOLEAN
  /\ \A x \in DOMAIN verdict : verdict[x] \in {"create", "withoutPortal", "skip", "blocked"}
  /\ todo \subseteq Creates /\ told \subseteq Creates
  /\ phase \in {"exportTrusted", "exportSystem", "exportKeys", "idle", "listTrusted",
                "listNodes", "apply", "again", "lookUp", "settings", "done"}
  /\ {quiet, deleted} \subseteq BOOLEAN
  /\ edits \in 0..MaxEdits /\ faults \in 0..MaxFaults

(* A trusted certificate that an import made has the trust purposes of its *)
(* source at every moment, also after the second request, which replaces   *)
(* the whole object (the PUT in ApplyImport).                              *)
TrustKept ==
  \A e \in trusted : e.by # None => e.uses = Source(e.by).uses

(* A certificate that somebody else put on the target stays as it is: its  *)
(* name, its trust purposes, its portal tag, on whatever node. Only the    *)
(* admin role moves, and only when the operator asked for that. A second   *)
(* request could hit another's trusted certificate after a deletion, since *)
(* it finds the object by name.                                            *)
StrangersUntouched ==
  [][edits' = edits =>
       /\ \A e \in trusted : e.by = None /\ ~deleted => e \in trusted'
       /\ \A n \in Nodes : \A e \in store[n] :
            ~e.ours => e \in store'[n] \/ (form.admin /\ [e EXCEPT !.admin = FALSE] \in store'[n])]_vars

\* The certificate this entry was imported as, with all that belongs to it.
TrustedComplete(k) ==
  \E e \in trusted : e.by = k /\ e.desc /\ (Source(k).crl => e.crl)

\* ISE refuses the entry as a duplicate and the import goes on to the next:
\* the certificate is there from somebody else, or from another entry of the
\* bundle that holds it too, or its name belongs to another certificate.
TrustedForeign(k) == \E e \in trusted : e.cert = k[2] /\ e.by = None
TrustedTwin(k) == \E e \in trusted : e.cert = k[2] /\ e.by \notin {None, k}
TrustedTaken(k) == \E e \in trusted : e.name = bt[k] /\ e.cert # k[2]

\* What the import of an item brings about, or finds in its place.
Reached(x) ==
  IF x[1] = "trusted"
  THEN TrustedComplete(x[2]) \/ TrustedForeign(x[2]) \/ TrustedTwin(x[2]) \/ TrustedTaken(x[2])
  ELSE NodeHeld(x[2], x[3]) \/ NodeClash(x[2], x[3])

(* What pre-flight announced is on the target afterwards, a trusted        *)
(* certificate with its CRL settings and its description, or the result    *)
(* names it. Except: somebody deleted something; another certificate has   *)
(* the name, also one of the same bundle; the certificate itself came from *)
(* somebody else meanwhile; or another entry of the bundle brought it      *)
(* first. In the last three ISE refuses the POST as that of a duplicate,   *)
(* which is counted as skipped: the CRL settings and the description of an *)
(* entry whose certificate also came in another one's chain are lost       *)
(* without a word.                                                         *)
IncompleteIsReported ==
  phase = "done" /\ ~deleted => \A x \in Creates \ told : Reached(x)

TrustedArrived(k) == k[2] \in Dead \/ TrustedHeld(k) \/ TrustedTaken(k)

SystemArrived(s, n) ==
  \/ NodeHeld(s, n) \/ NodeClash(s, n)
  \/ s \in Dead
  \/ bs[s].issuer # None /\ \A e \in trusted : e.cert # bs[s].issuer

(* Importing again carries over every certificate the operator picked and  *)
(* the bundle's notes do not name, system certificates to every node that  *)
(* serves the admin API, through lost requests, restarts and a portal tag  *)
(* that is taken. Only a certificate whose name somebody else uses, one    *)
(* that expired or whose issuer never arrives, and one that no source node *)
(* gave out when the export listed it stay behind; the last without a note *)
(* in the bundle. A ZIP's key stays behind as well.                        *)
CertificatesArrive ==
  <>[](/\ \A n \in PickedTrusted \ noted :
            <<n, First(n)>> \in DOMAIN bt /\ TrustedArrived(<<n, First(n)>>)
       /\ \A s \in PickedSystem \ noted, n \in AdminNodes :
            Holders(s) # {} => s \in DOMAIN bs /\ SystemArrived(s, n))

-----------------------------------------------------------------------------
(* Inductive strengthenings of IncompleteIsReported.                       *)

\* The phases in which an import is under way on one trusted certificate.
Settling == {"again", "lookUp", "settings"}

\* Only an export changes the bundle, and nothing was imported before it ended.
PhaseInv ==
  /\ phase = "exportTrusted" => bt = <<>>
  /\ phase \in {"exportTrusted", "exportSystem", "exportKeys"} => bs = <<>>
  /\ phase \in {"exportTrusted", "exportSystem", "exportKeys", "idle"} => verdict = <<>>
  /\ phase \notin Settling \cup {"apply"} => todo = {}
  /\ phase \notin Settling \cup {"apply", "done"} => told = {}

\* What is created is a certificate of the bundle, on a node of the target.
ItemsInv ==
  \A x \in Creates :
    \/ \E k \in DOMAIN bt : x = Trusted(k)
    \/ \E s \in DOMAIN bs, n \in Nodes : x = OnNode(s, n)

\* The certificate that is being settled is not done with; a description that
\* was left out has been reported.
FoundInv ==
  phase \in Settling =>
    /\ found[1] \in DOMAIN bt /\ Trusted(found[1]) \in todo
    /\ IF phase = "again" THEN Source(found[1]).comma
       ELSE Source(found[1]).comma => Trusted(found[1]) \in told
    /\ phase = "settings" => found[2].name = bt[found[1]]

\* What an import made keeps the content and the name it was made with.
MadeInv == \A e \in trusted : e.by # None => e.cert = e.by[2] /\ e.name = bt[e.by]

\* Announced and not posted.
Pending ==
  CASE phase = "listNodes"                -> Creates
    [] phase \in {"apply", "again"}       -> todo
    [] phase \in {"lookUp", "settings"}   -> todo \ {Trusted(found[1])}
    [] OTHER                              -> {}

\* Of these the target has nothing that an import made, so a duplicate is
\* somebody else's.
FreshInv == \A e \in trusted : Trusted(e.by) \notin Pending

ReportedInv ==
  phase \in Settling \cup {"apply", "done"} /\ ~deleted =>
    \A x \in Creates \ (todo \cup told) : Reached(x)
=============================================================================
