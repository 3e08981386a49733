------------------------- MODULE CertificateExport -------------------------
(***************************************************************************)
(* CertificateExport: trusted and system certificates, from the picker's   *)
(* selection on the source to the bundle.                                  *)
(*                                                                         *)
(* A certificate is its content (what the SHA-256 fingerprint tells        *)
(* apart); the name is what a store calls it.  A trusted certificate's     *)
(* export may hold a chain, whose members become entries of their own.     *)
(* The same system certificate may sit on several source nodes under       *)
(* different names.  Encodings, dates and key material are abstracted to   *)
(* what later decisions read: dead or not, who issued it, how the private  *)
(* key is protected.                                                       *)
(***************************************************************************)
EXTENDS Naturals, Sequences, FiniteSets, Functions

CONSTANTS
  None,
  SourceTrusted,   \* the source's trusted certificates, by friendlyName
  SourceSystem,    \* its system certificates, by content
  Zips,            \* certificates attached as a ZIP from the ISE GUI
  CommonName,      \* content of a chain member -> its CN, or None
  Short,           \* content of a chain member -> a name from the fingerprint
  NodeCerts,       \* self-signed certificates of the source's own nodes
  Dead,            \* expired certificates
  PickedTrusted,   \* friendlyNames ticked in the picker
  PickedSystem,    \* contents ticked in the picker
  MayMiss,         \* picked ones that the source may not give out, and nodes
                   \* that may not answer
  MayHide          \* single certificates that a node which answers may not give out

SourceNodes == UNION {DOMAIN SourceSystem[s].at : s \in DOMAIN SourceSystem}
\* A system certificate as one of the source's nodes lists it.
Sightings == {x \in (DOMAIN SourceSystem) \X SourceNodes : x[2] \in DOMAIN SourceSystem[x[1]].at}
Contents == UNION {Range(SourceTrusted[n].chain) : n \in DOMAIN SourceTrusted}

ASSUME ExportAssumption ==
  /\ \A n \in DOMAIN SourceTrusted :
       /\ SourceTrusted[n].chain \in Seq(Contents) \ {<<>>}
       /\ {SourceTrusted[n].crl, SourceTrusted[n].comma, SourceTrusted[n].internal} \subseteq BOOLEAN
  /\ PickedTrusted \subseteq DOMAIN SourceTrusted
  /\ PickedSystem \subseteq DOMAIN SourceSystem
  /\ MayHide \subseteq Sightings
  /\ None \notin DOMAIN SourceSystem \cup DOMAIN Zips \cup ((DOMAIN SourceTrusted) \X Contents)

\* A chain member's name is its CN or, failing that, made of its fingerprint.
ASSUME ExportNamesAssumption ==
  /\ DOMAIN SourceTrusted \subseteq STRING
  /\ \A n \in DOMAIN SourceTrusted :
       LET chain == SourceTrusted[n].chain
       IN \A i \in 2..Len(chain) :
            /\ CommonName[chain[i]] # None => CommonName[chain[i]] \in STRING
            /\ Short[chain[i]] \in STRING

VARIABLES
  bt,      \* trusted certificates of the bundle: <<source's name, content>> -> name
  bs,      \* system certificates of the bundle, by content
  noted,   \* what was picked and is named in the bundle's notes as left out
  unread,  \* sightings that did not make it into the list of certificates
  phase    \* the next step, here and in the import

exporting == <<bt, bs, noted, unread>>

-----------------------------------------------------------------------------
(* ExportTrustedCerts                                                      *)

First(n) == SourceTrusted[n].chain[1]

\* One entry per member of the chain; a node's own certificate stays behind.
Entries(names) ==
  {k \in names \X Contents : k[2] \in Range(SourceTrusted[k[1]].chain) \ NodeCerts}

\* The first keeps its name.  Another is called by its CN, or by its
\* fingerprint when it has none or the name is taken by an earlier entry;
\* whether it is depends on the order of the selection, which is left open.
Names(k) ==
  IF k[2] = First(k[1]) THEN {k[1]}
  ELSE IF CommonName[k[2]] = None THEN {Short[k[2]]}
  ELSE {CommonName[k[2]], Short[k[2]]}

\* A name that is gone, an export that fails or holds no certificate, and
\* ISE's internal CA leave a note and no entry.
ExportTrusted ==
  /\ phase = "exportTrusted"
  /\ phase' = "exportSystem"
  /\ \E missed \in SUBSET (MayMiss \cap PickedTrusted) :
       LET out == missed \cup {n \in PickedTrusted : SourceTrusted[n].internal}
           keys == Entries(PickedTrusted \ out)
       IN /\ bt' \in {f \in [keys -> UNION {Names(k) : k \in keys}] : \A k \in keys : f[k] \in Names(k)}
          /\ noted' = noted \cup out
               \cup {n \in PickedTrusted : Range(SourceTrusted[n].chain) \cap NodeCerts # {}}
  /\ UNCHANGED <<bs, unread>>

-----------------------------------------------------------------------------
(* ListSystemCerts and ExportSystemCerts                                   *)

\* The nodes that s was listed for.
Holders(s) == {n \in DOMAIN SourceSystem[s].at : <<s, n>> \notin unread}

\* ListSystemCerts: a node that does not answer is passed over.  So is a
\* certificate at its first sighting when it has no fingerprint or no id, or
\* when the export of its public part fails; the next node that lists it then
\* counts as the first.
ListSystem ==
  /\ phase = "exportSystem"
  /\ phase' = "exportKeys"
  /\ \E silent \in SUBSET (SourceNodes \cap MayMiss), hidden \in SUBSET MayHide :
       unread' = hidden \cup {x \in Sightings : x[2] \in silent}
  /\ UNCHANGED <<bt, bs, noted>>

\* Name, tag and roles are those of the node where the content was seen first.
Exported(s, node) ==
  [name |-> SourceSystem[s].at[node].name, tag |-> SourceSystem[s].at[node].tag,
   admin |-> SourceSystem[s].at[node].admin, issuer |-> SourceSystem[s].issuer, zip |-> FALSE]

\* A ZIP brings no tag and no admin role, and its issuer is not recorded.
Attached(z) ==
  [name |-> Zips[z], tag |-> None, admin |-> FALSE, issuer |-> None, zip |-> TRUE]

\* What is ticked and not listed now is left out without a note.  What cannot
\* be exported with its key, or has a fingerprint that the source writes
\* otherwise than the picker does, is noted.
ExportKeys ==
  /\ phase = "exportKeys"
  /\ phase' = "idle"
  /\ \E missed \in SUBSET (MayMiss \cap PickedSystem) :
       LET there == {s \in PickedSystem : Holders(s) # {}}
       IN /\ \E node \in [there -> SourceNodes] :
               /\ \A s \in there : node[s] \in Holders(s)
               /\ bs' = [s \in (there \ missed) \cup DOMAIN Zips |->
                           IF s \in DOMAIN Zips THEN Attached(s) ELSE Exported(s, node[s])]
          /\ noted' = noted \cup (there \cap missed)
  /\ UNCHANGED <<bt, unread>>

Export == ExportTrusted \/ ListSystem \/ ExportKeys

ExportInit ==
  /\ phase = "exportTrusted"
  /\ bt = <<>> /\ bs = <<>> /\ noted = {} /\ unread = {}
=============================================================================
