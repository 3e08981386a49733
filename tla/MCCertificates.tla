--------------------------- MODULE MCCertificates ---------------------------
(* A root, a sub CA exported with its chain, an expired root, a node's own *)
(* certificate; one system certificate on both source nodes under two      *)
(* names, one under the name that is every node's default, one issued by   *)
(* the expired root, one attached as a ZIP.                                *)
EXTENDS Certificates

CONSTANTS root, sub, old, own, web, eap, dead, zip, theirs, foreign, self, a, b, n1, n2, psn

Ca(chain, uses, crl, comma) ==
  [chain |-> chain, uses |-> uses, crl |-> crl, comma |-> comma, internal |-> FALSE]

MCSourceTrusted ==
  [n \in {"root", "sub", "old", "own", "inner"} |->
     CASE n = "root"  -> Ca(<<root>>, {"infrastructure"}, TRUE, TRUE)
       [] n = "sub"   -> Ca(<<sub, root>>, {"endpoints"}, TRUE, FALSE)
       [] n = "old"   -> Ca(<<old>>, {"infrastructure"}, FALSE, FALSE)
       [] n = "own"   -> Ca(<<own>>, {"infrastructure"}, FALSE, FALSE)
       [] n = "inner" -> [Ca(<<old>>, {}, FALSE, FALSE) EXCEPT !.internal = TRUE]]

At(name, tag, admin) == [name |-> name, tag |-> tag, admin |-> admin]

MCSourceSystem ==
  [s \in {web, eap, dead} |->
     CASE s = web  -> [at |-> [n \in {a, b} |-> IF n = a THEN At("web", "portal", TRUE)
                                                         ELSE At("default", "portal", FALSE)],
                       issuer |-> sub]
       [] s = eap  -> [at |-> [n \in {b} |-> At("default", None, FALSE)], issuer |-> None]
       [] s = dead -> [at |-> [n \in {a} |-> At("dead", None, FALSE)], issuer |-> old]]

MCZips == [z \in {zip} |-> "zip"]
MCCommonName == [c \in {root} |-> "root"]
MCShort == [c \in {root} |-> "0f3a"]
MCMayMiss == {"sub", a}
MCMayHide == {<<eap, b>>}

Own == [cert |-> self, name |-> "own", tag |-> None, admin |-> TRUE, ours |-> FALSE]
Other(name, tag) == [Own EXCEPT !.cert = foreign, !.name = name, !.tag = tag, !.admin = FALSE]

Nothing == [n \in {n1, n2, psn} |-> {Own}]

\* A new deployment; one where the names or the portal tag are in use.
MCStarts ==
  {[trusted |-> {}, store |-> Nothing, shown |-> TRUE],
   [trusted |-> {Theirs(root, "its root")},
    store |-> [Nothing EXCEPT ![n2] = @ \cup {Other("other", "portal")}], shown |-> TRUE],
   [trusted |-> {Theirs(theirs, "sub")},
    store |-> [Nothing EXCEPT ![n1] = @ \cup {Other("default", None)}], shown |-> FALSE]}

MCForms == {Untouched, [nodes |-> {n2}, admin |-> TRUE]}
=============================================================================
