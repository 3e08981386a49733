------------------------------- MODULE Client -------------------------------
(***************************************************************************)
(* Client: how one family's import talks to the target through Client: a   *)
(* paged listing, then one POST per object that was not listed.            *)
(*                                                                         *)
(* An ERS write carries a CSRF nonce, which is fetched when the client has *)
(* none, and again, once, when the write is refused for it.  A nonce is    *)
(* "none", "fresh" or "stale"; it lives as long as the session on the      *)
(* target.  An OpenAPI write needs no nonce.                               *)
(***************************************************************************)
EXTENDS Naturals, Sequences, FiniteSets, SequencesExt

CONSTANTS
  Objects,     \* names
  None,
  Wanted,      \* objects of the bundle
  Ers,         \* those written through ERS; the others through the OpenAPI
  PageSize,    \* pageSize
  MaxPages,    \* the guard: 1000 in the code
  Starts,      \* what the collection may be at the start, in listing order
  MaxEdits,    \* bound on what others do
  MaxFaults    \* bound on failed requests

ASSUME ClientAssumption ==
  /\ None \notin Objects /\ Wanted \subseteq Objects /\ Ers \subseteq Wanted
  /\ {PageSize, MaxPages} \subseteq Nat \ {0}
  /\ Starts \subseteq Seq(Objects)
ASSUME ClientBounds == {MaxEdits, MaxFaults} \subseteq Nat

VARIABLES
  coll,      \* the collection on the target, in the order of its listing
  honours,   \* it honours the page parameter
  totals,    \* it reports its size with every page, as ERS does
  check,     \* the CSRF check is on
  issues,    \* what a fetch returns while it is: "fresh", or "stale" when the
             \* target takes none of its own nonces
  token,     \* csrfToken
  pc,        \* the next step
  page, out, \* of the listing
  writing,   \* the object whose POST is under way
  tries,     \* attempts of that POST
  result,    \* what became of an object
  carried,   \* how often its POST was carried out
  uneasy,    \* since the POST began a request failed, or a session or the
             \* setting changed
  start,     \* the collection when the listing began
  lost,      \* something was deleted while the listing ran
  changed,   \* the collection changed at all while it ran
  edits, faults

collection == <<coll, honours, totals, check, issues>>
listing == <<page, out, start, lost, changed>>
post == <<writing, tries, result, carried, uneasy>>
vars == <<collection, token, pc, listing, post, edits, faults>>

Fault == faults < MaxFaults /\ faults' = faults + 1

-----------------------------------------------------------------------------
(* ersList and openAPIList                                                 *)

Page(p) ==
  LET from == IF honours THEN (p - 1) * PageSize + 1 ELSE 1
      to == from + PageSize - 1
  IN SubSeq(coll, from, IF to < Len(coll) THEN to ELSE Len(coll))

\* Mutation: the total is compared one off.
EnoughTooSoon(read, got) == Len(got) < PageSize \/ (totals /\ Len(read) + 1 >= Len(coll))

\* A short page ends the listing, and so does a total that is reached.
Enough(read, got) == Len(got) < PageSize \/ (totals /\ Len(coll) > 0 /\ Len(read) >= Len(coll))

\* Mutation: no guard.
AfterPageForEver(read, got) == IF Enough(read, got) THEN "pick" ELSE "list"

AfterPage(read, got) ==
  IF Enough(read, got) THEN "pick" ELSE IF page = MaxPages THEN "failed" ELSE "list"

\* An error, the guard included, ends the listing and with it the family.
ListPage ==
  /\ pc = "list"
  /\ \/ LET got == Page(page)
            read == out \o got
        IN /\ out' = read
           /\ page' = page + 1
           /\ pc' = AfterPage(read, got)
           /\ UNCHANGED faults
     \/ pc' = "failed" /\ Fault /\ UNCHANGED <<out, page>>
  /\ UNCHANGED <<collection, token, start, lost, changed, post, edits>>

-----------------------------------------------------------------------------
(* do, attempt and fetchCSRF                                               *)

Todo == {x \in Wanted \ Range(out) : result[x] = "none"}

\* The next object; objects listed before are skipped by pre-flight.
Pick ==
  /\ pc = "pick"
  /\ IF Todo = {}
     THEN pc' = "done" /\ UNCHANGED <<writing, tries, uneasy>>
     ELSE /\ writing' \in Todo /\ tries' = 1 /\ uneasy' = FALSE
          /\ pc' = "attempt"
  /\ UNCHANGED <<collection, token, listing, result, carried, edits, faults>>

NeedsCSRF == writing \in Ers

End(r) ==
  /\ result' = [result EXCEPT ![writing] = r]
  /\ pc' = "pick"
  /\ UNCHANGED <<writing, tries>>

\* Without the check no token comes back, and the write goes without.
Fetched == IF check THEN issues ELSE token

\* The first half of attempt.  A fetch that fails ends the write.
FetchForAttempt ==
  /\ pc = "attempt" /\ NeedsCSRF /\ token = "none"
  /\ \/ /\ token' = Fetched /\ pc' = "send"
        /\ UNCHANGED <<writing, tries, result, uneasy, faults>>
     \/ End("failed") /\ Fault /\ uneasy' = TRUE /\ UNCHANGED token
  /\ UNCHANGED <<collection, listing, carried, edits>>

Refused == NeedsCSRF /\ check /\ token # "fresh"

\* Mutation: a refused write is tried again however often.
RefuseForever ==
  /\ Refused
  /\ token' = "none" /\ pc' = "renew" /\ UNCHANGED <<writing, tries, result>>

\* The target refuses the nonce: a first time it is dropped and fetched again.
RefuseNonce ==
  /\ Refused
  /\ IF tries = 1
     THEN token' = "none" /\ pc' = "renew" /\ UNCHANGED <<writing, tries, result>>
     ELSE End("refused") /\ UNCHANGED token

\* On the target: names are unique.
CarryOut ==
  /\ ~Refused /\ writing \notin Range(coll)
  /\ coll' = Append(coll, writing)
  /\ carried' = [carried EXCEPT ![writing] = @ + 1]

\* Mutation: a request without an answer is tried again.
LoseAndRepeat ==
  /\ Fault /\ uneasy' = TRUE
  /\ UNCHANGED <<coll, carried>> \/ CarryOut
  /\ pc' = "attempt" /\ UNCHANGED <<writing, tries, result, token>>

\* No answer; the write may have been carried out.
Lose ==
  /\ Fault /\ uneasy' = TRUE
  /\ UNCHANGED <<coll, carried>> \/ CarryOut
  /\ End("failed") /\ UNCHANGED token

\* The second half of attempt; a duplicate counts as skipped.
Answer ==
  /\ ~Refused
  /\ \/ CarryOut /\ End("created")
     \/ writing \in Range(coll) /\ End("skipped") /\ UNCHANGED <<coll, carried>>
  /\ UNCHANGED token

Send ==
  /\ \/ pc = "send"
     \/ pc = "attempt" /\ (NeedsCSRF => token # "none")
  /\ \/ Answer /\ UNCHANGED <<uneasy, faults>>
     \/ RefuseNonce /\ UNCHANGED <<coll, carried, uneasy, faults>>
     \/ Lose
  /\ UNCHANGED <<honours, totals, check, issues, listing, edits>>

\* Mutation: the write is repeated with no new nonce.
RepeatOnly ==
  /\ pc = "renew"
  /\ pc' = "send" /\ tries' = 2
  /\ UNCHANGED <<collection, token, listing, writing, result, carried, uneasy, edits, faults>>

\* The second attempt, unless the fetch fails: then the refusal stands.
Renew ==
  /\ pc = "renew"
  /\ \/ /\ token' = Fetched /\ tries' = 2 /\ pc' = "attempt"
        /\ UNCHANGED <<writing, result, uneasy, faults>>
     \/ End("refused") /\ Fault /\ uneasy' = TRUE /\ UNCHANGED token
  /\ UNCHANGED <<collection, listing, carried, edits>>

Handler == ListPage \/ Pick \/ FetchForAttempt \/ Send \/ Renew

-----------------------------------------------------------------------------
(* The target and its administrators                                       *)

Edit ==
  /\ edits < MaxEdits /\ edits' = edits + 1
  /\ UNCHANGED <<honours, totals, issues, pc, page, out, start, writing, tries, result, carried, faults>>

Listing == pc = "list"

\* A new object may come anywhere in the order of the listing.
Add(x, i) ==
  /\ Edit
  /\ x \notin Range(coll) /\ i \in 1..(Len(coll) + 1)
  /\ coll' = InsertAt(coll, i, x)
  /\ changed' = (changed \/ Listing)
  /\ UNCHANGED <<check, token, uneasy, lost>>

Delete(i) ==
  /\ Edit
  /\ i \in DOMAIN coll
  /\ coll' = RemoveAt(coll, i)
  /\ changed' = (changed \/ Listing) /\ lost' = (lost \/ Listing)
  /\ UNCHANGED <<check, token, uneasy>>

SessionEnds ==
  /\ Edit
  /\ token = "fresh" /\ token' = "stale" /\ uneasy' = TRUE
  /\ UNCHANGED <<coll, check, lost, changed>>

SwitchCheck ==
  /\ Edit
  /\ check' = ~check /\ uneasy' = TRUE
  /\ UNCHANGED <<coll, token, lost, changed>>

Others ==
  \/ \E x \in Objects, i \in 1..(Len(coll) + 1) : Add(x, i)
  \/ \E i \in DOMAIN coll : Delete(i)
  \/ SessionEnds \/ SwitchCheck

Next == Handler \/ Others

Init ==
  /\ coll \in Starts
  /\ honours \in BOOLEAN /\ totals \in BOOLEAN /\ check \in BOOLEAN
  /\ issues \in {"fresh", "stale"}
  /\ token \in {"none", "fresh", "stale"}   \* an earlier family may have left one
  /\ pc = "list" /\ page = 1 /\ out = <<>>
  /\ writing = None /\ tries = 0
  /\ result = [x \in Wanted |-> "none"] /\ carried = [x \in Wanted |-> 0]
  /\ uneasy = FALSE /\ start = coll /\ lost = FALSE /\ changed = FALSE
  /\ edits = 0 /\ faults = 0

Spec == Init /\ [][Next]_vars

\* Every request is bounded by the client's timeout.
FairSpec == Spec /\ WF_vars(Handler)

-----------------------------------------------------------------------------
(* Types of the variables.                                                 *)
TypeOK ==
  /\ coll \in Seq(Objects) /\ out \in Seq(Objects) /\ start \in Seq(Objects)
  /\ {honours, totals, check, uneasy, lost, changed} \subseteq BOOLEAN
  /\ issues \in {"fresh", "stale"} /\ token \in {"none", "fresh", "stale"}
  /\ pc \in {"list", "pick", "attempt", "send", "renew", "failed", "done"}
  /\ page \in 1..(MaxPages + 1)
  /\ writing \in Wanted \cup {None} /\ tries \in 0..2
  /\ result \in [Wanted -> {"none", "created", "skipped", "failed", "refused"}]
  /\ carried \in [Wanted -> Nat]
  /\ edits \in 0..MaxEdits /\ faults \in 0..MaxFaults

(* A write is carried out at most once, whatever was retried, and the      *)
(* result knows it: what counts as created was carried out, what counts as *)
(* skipped or refused was not. Only without an answer it is unknown.       *)
WrittenOnce ==
  \A x \in Wanted :
    /\ carried[x] <= 1
    /\ result[x] = "created" => carried[x] = 1
    /\ result[x] \in {"none", "skipped", "refused"} => carried[x] = 0

(* A nonce that went stale before a write, however long ago, never makes   *)
(* the write fail: the one retry in do has a fresh one. A write is refused *)
(* only when the session ends or the setting changes while it runs, when a *)
(* request fails, or on a target that takes none of its own nonces.        *)
StaleNonceIsRenewed ==
  \A x \in Wanted :
    result[x] = "refused" /\ x = writing => uneasy \/ issues = "stale"

(* A listing that ended well names every object that was there from the    *)
(* beginning, also when others add objects between two pages and push some *)
(* to the next; nothing twice when nothing changed. Only a deletion makes  *)
(* it pass over an object that still exists.                               *)
NothingPassedOver ==
  pc \notin {"list", "failed"} /\ honours =>
    /\ ~lost => Range(start) \subseteq Range(out)
    /\ ~changed => out = start

(* The import of a family ends, also against a target that repeats its     *)
(* first page for ever or refuses every nonce.                             *)
EveryImportEnds == <>(pc \in {"done", "failed"})
=============================================================================
