---------------------------- MODULE ClientProofs ----------------------------
(***************************************************************************)
(* Proofs about the client, for every collection, page size and nonce, and *)
(* any number of edits and faults.                                         *)
(*                                                                         *)
(* NonceInv is inductive.  A write under way has no result yet, so what is *)
(* carried out now was not before.  The second attempt has a fresh nonce   *)
(* unless something happened since the first, or the target gives none.    *)
(***************************************************************************)
EXTENDS Client, TLAPS

Writing == pc \in {"attempt", "send", "renew"}

ResultTypeOK == result \in [Wanted -> {"none", "created", "skipped", "failed", "refused"}]

PostTypeOK ==
  /\ issues \in {"fresh", "stale"} /\ token \in {"none", "fresh", "stale"}
  /\ check \in BOOLEAN /\ uneasy \in BOOLEAN
  /\ writing \in Wanted \cup {None}
  /\ ResultTypeOK
  /\ carried \in [Wanted -> Nat]

UnderWay == Writing => writing \in Wanted /\ result[writing] = "none"

SecondIsFresh ==
  pc \in {"attempt", "send"} /\ tries # 1 /\ NeedsCSRF /\ check /\ ~uneasy /\ issues = "fresh" =>
    token = "fresh"

NonceInv == PostTypeOK /\ UnderWay /\ WrittenOnce /\ SecondIsFresh /\ StaleNonceIsRenewed

(* The constants' part of the assumptions that the steps need.             *)
LEMMA NamesDiffer == None \notin Wanted
  BY ClientAssumption

(* NonceInv holds when a family's import begins.                           *)
LEMMA NonceInit == Init => NonceInv
<1> SUFFICES ASSUME Init PROVE NonceInv
  OBVIOUS
<1>1. PostTypeOK
  BY DEF Init, PostTypeOK, ResultTypeOK
<1>2. UnderWay /\ WrittenOnce /\ SecondIsFresh
  BY DEF Init, UnderWay, Writing, WrittenOnce, SecondIsFresh
<1>3. StaleNonceIsRenewed
  BY NamesDiffer DEF Init, StaleNonceIsRenewed
<1>4. QED
  BY <1>1, <1>2, <1>3 DEF NonceInv

(* A step that ends the write under way with result r keeps WrittenOnce,   *)
(* if what it carried out fits the result.                                 *)
LEMMA EndKeepsOnce ==
  ASSUME NonceInv, Writing, NEW r \in {"created", "skipped", "failed", "refused"}, End(r),
         carried' \in [Wanted -> Nat],
         \A x \in Wanted : x # writing => carried'[x] = carried[x],
         \/ carried'[writing] = 0 /\ r # "created"
         \/ carried'[writing] = 1 /\ r \in {"created", "failed"}
  PROVE  WrittenOnce' /\ UnderWay' /\ ResultTypeOK'
  BY DEF NonceInv, PostTypeOK, ResultTypeOK, UnderWay, Writing, WrittenOnce, End

(* Before a write is sent nothing of it was carried out.                   *)
LEMMA NotYetCarried ==
  ASSUME NonceInv, Writing
  PROVE  writing \in Wanted /\ carried[writing] = 0
  BY DEF NonceInv, UnderWay, WrittenOnce

(* Carrying the write under way out counts it once.                        *)
LEMMA CarriedOnce ==
  ASSUME NonceInv, Writing, CarryOut
  PROVE  /\ carried' \in [Wanted -> Nat] /\ carried'[writing] = 1
         /\ \A x \in Wanted : x # writing => carried'[x] = carried[x]
  BY NotYetCarried DEF CarryOut, NonceInv, PostTypeOK

(* Sending preserves NonceInv: answered, refused or lost.                  *)
LEMMA SendStep == NonceInv /\ Send => NonceInv'
<1> SUFFICES ASSUME NonceInv, Send PROVE NonceInv'
  OBVIOUS
<1>1. Writing /\ pc \in {"attempt", "send"}
  BY DEF Send, Writing
<1>2. writing \in Wanted /\ carried[writing] = 0
  BY <1>1, NotYetCarried
<1>3. UNCHANGED <<check, issues>>
  BY DEF Send
<1>4. CASE Answer /\ UNCHANGED uneasy
  <2>1. PICK r \in {"created", "skipped"} :
          /\ End(r) /\ UNCHANGED token
          /\ (r = "created" /\ CarryOut) \/ (r = "skipped" /\ UNCHANGED carried)
    BY <1>4 DEF Answer
  <2>2. carried' \in [Wanted -> Nat]
    BY <1>1, <2>1, CarriedOnce DEF NonceInv, PostTypeOK
  <2>3. WrittenOnce' /\ UnderWay' /\ ResultTypeOK'
    <3>1. CASE r = "created"
      BY <1>1, <2>1, <2>2, <3>1, CarriedOnce, EndKeepsOnce
    <3>2. CASE r = "skipped"
      BY <1>1, <1>2, <2>1, <2>2, <3>2, EndKeepsOnce
    <3>3. QED
      BY <3>1, <3>2
  <2>4. PostTypeOK' /\ SecondIsFresh' /\ StaleNonceIsRenewed'
    BY <1>2, <1>3, <1>4, <2>1, <2>2, <2>3
       DEF NonceInv, PostTypeOK, ResultTypeOK, SecondIsFresh, StaleNonceIsRenewed, End
  <2>5. QED
    BY <2>3, <2>4 DEF NonceInv
<1>5. CASE RefuseNonce /\ UNCHANGED <<carried, uneasy>>
  <2>1. CASE tries = 1
    BY <1>1, <1>3, <1>5, <2>1
       DEF RefuseNonce, NonceInv, PostTypeOK, ResultTypeOK, UnderWay, Writing, WrittenOnce,
           SecondIsFresh, StaleNonceIsRenewed
  <2>2. CASE tries # 1
    <3>1. End("refused") /\ UNCHANGED token
      BY <1>5, <2>2 DEF RefuseNonce
    <3>2. carried' \in [Wanted -> Nat]
      BY <1>5 DEF NonceInv, PostTypeOK
    <3>3. WrittenOnce' /\ UnderWay' /\ ResultTypeOK'
      BY <1>1, <1>2, <1>5, <3>1, <3>2, EndKeepsOnce
    <3>4. uneasy \/ issues = "stale"
      BY <1>1, <1>5, <2>2 DEF RefuseNonce, Refused, NonceInv, PostTypeOK, SecondIsFresh
    <3>5. PostTypeOK' /\ SecondIsFresh' /\ StaleNonceIsRenewed'
      BY <1>3, <1>5, <3>1, <3>2, <3>3, <3>4
         DEF NonceInv, PostTypeOK, ResultTypeOK, SecondIsFresh, StaleNonceIsRenewed, End
    <3>6. QED
      BY <3>3, <3>5 DEF NonceInv
  <2>3. QED
    BY <2>1, <2>2
<1>6. CASE Lose
  <2>1. End("failed") /\ UNCHANGED token /\ uneasy' = TRUE
    BY <1>6 DEF Lose
  <2>2. carried' \in [Wanted -> Nat]
    BY <1>1, <1>6, CarriedOnce DEF Lose, NonceInv, PostTypeOK
  <2>3. WrittenOnce' /\ UnderWay' /\ ResultTypeOK'
    <3>1. CASE UNCHANGED carried
      BY <1>1, <1>2, <2>1, <2>2, <3>1, EndKeepsOnce
    <3>2. CASE CarryOut
      BY <1>1, <2>1, <2>2, <3>2, CarriedOnce, EndKeepsOnce
    <3>3. QED
      BY <1>6, <3>1, <3>2 DEF Lose
  <2>4. PostTypeOK' /\ SecondIsFresh' /\ StaleNonceIsRenewed'
    BY <1>3, <2>1, <2>2, <2>3
       DEF NonceInv, PostTypeOK, ResultTypeOK, SecondIsFresh, StaleNonceIsRenewed, End
  <2>5. QED
    BY <2>3, <2>4 DEF NonceInv
<1>7. QED
  BY <1>4, <1>5, <1>6 DEF Send

(* Fetching a nonce, before the first attempt or the second, preserves     *)
(* NonceInv.                                                               *)
LEMMA FetchStep == NonceInv /\ (FetchForAttempt \/ Renew) => NonceInv'
<1> SUFFICES ASSUME NonceInv, FetchForAttempt \/ Renew PROVE NonceInv'
  OBVIOUS
<1>1. Writing /\ UNCHANGED <<check, issues, carried, writing>>
  BY DEF FetchForAttempt, Renew, End, Writing, collection
<1>2. writing \in Wanted /\ carried[writing] = 0
  BY <1>1, NotYetCarried
<1>3. carried' \in [Wanted -> Nat]
  BY <1>1 DEF NonceInv, PostTypeOK
<1>4. CASE token' = Fetched /\ UNCHANGED <<result, uneasy>>
  <2>1. PostTypeOK' /\ UnderWay' /\ WrittenOnce' /\ StaleNonceIsRenewed'
    BY <1>1, <1>2, <1>4
       DEF NonceInv, PostTypeOK, ResultTypeOK, UnderWay, WrittenOnce, StaleNonceIsRenewed, Fetched, Writing
  <2>2. SecondIsFresh'
    <3>1. CASE FetchForAttempt
      <4>1. UNCHANGED tries /\ token = "none" /\ pc = "attempt"
        BY <3>1, <1>4 DEF FetchForAttempt, End
      <4>2. QED
        BY <1>1, <1>4, <4>1 DEF NonceInv, SecondIsFresh, NeedsCSRF
    <3>2. CASE Renew
      BY <1>1, <1>4, <3>2 DEF SecondIsFresh, Fetched, NeedsCSRF
    <3>3. QED
      BY <3>1, <3>2
  <2>3. QED
    BY <2>1, <2>2 DEF NonceInv
<1>5. ASSUME NEW r \in {"failed", "refused"}, End(r), uneasy' = TRUE, UNCHANGED token
      PROVE  NonceInv'
  <2>1. WrittenOnce' /\ UnderWay' /\ ResultTypeOK'
    BY <1>1, <1>2, <1>3, <1>5, EndKeepsOnce
  <2>2. PostTypeOK' /\ SecondIsFresh' /\ StaleNonceIsRenewed'
    BY <1>1, <1>3, <1>5, <2>1
       DEF NonceInv, PostTypeOK, ResultTypeOK, SecondIsFresh, StaleNonceIsRenewed, End
  <2>3. QED
    BY <2>1, <2>2 DEF NonceInv
<1>6. QED
  BY <1>4, <1>5 DEF FetchForAttempt, Renew

(* What others do preserves NonceInv: it may only age the nonce, and that  *)
(* is noticed.                                                             *)
LEMMA OthersStep == NonceInv /\ Others => NonceInv'
<1> SUFFICES ASSUME NonceInv, Others PROVE NonceInv'
  OBVIOUS
<1>1. Edit
  BY DEF Others, Add, Delete, SessionEnds, SwitchCheck
<1>2. \/ UNCHANGED <<check, token, uneasy>>
      \/ uneasy' = TRUE /\ token' \in {token, "stale"} /\ check' \in {check, ~check}
  BY DEF Others, Add, Delete, SessionEnds, SwitchCheck
<1>3. PostTypeOK'
  BY <1>1, <1>2 DEF Edit, NonceInv, PostTypeOK, ResultTypeOK
<1>4. UnderWay' /\ WrittenOnce' /\ SecondIsFresh' /\ StaleNonceIsRenewed'
  BY <1>1, <1>2
     DEF Edit, NonceInv, PostTypeOK, ResultTypeOK, UnderWay, Writing, WrittenOnce, SecondIsFresh, StaleNonceIsRenewed,
         NeedsCSRF
<1>5. QED
  BY <1>3, <1>4 DEF NonceInv

(* Every step preserves NonceInv.                                          *)
LEMMA NonceStep == NonceInv /\ [Next]_vars => NonceInv'
<1> SUFFICES ASSUME NonceInv, [Next]_vars PROVE NonceInv'
  OBVIOUS
<1>1. CASE ListPage
  <2>1. UNCHANGED <<check, issues, token, writing, result, carried, uneasy>>
    BY <1>1 DEF ListPage, collection, post
  <2>2. pc' \in {"list", "pick", "failed"}
    BY <1>1 DEF ListPage, AfterPage
  <2>3. QED
    BY <2>1, <2>2
       DEF NonceInv, PostTypeOK, ResultTypeOK, UnderWay, Writing, WrittenOnce, SecondIsFresh,
           StaleNonceIsRenewed
<1>2. CASE Pick
  BY <1>2
     DEF Pick, Todo, collection, NonceInv, PostTypeOK, ResultTypeOK, UnderWay, Writing, WrittenOnce,
         SecondIsFresh, StaleNonceIsRenewed
<1>3. CASE FetchForAttempt \/ Renew
  BY <1>3, FetchStep
<1>4. CASE Send
  BY <1>4, SendStep
<1>5. CASE Others
  BY <1>5, OthersStep
<1>6. CASE UNCHANGED vars
  BY <1>6
     DEF vars, collection, post, NonceInv, PostTypeOK, ResultTypeOK, UnderWay, Writing, WrittenOnce,
         SecondIsFresh, StaleNonceIsRenewed, NeedsCSRF
<1>7. QED
  BY <1>1, <1>2, <1>3, <1>4, <1>5, <1>6 DEF Next, Handler

(* NonceInv is an invariant of the client.                                 *)
THEOREM ClientNonceInv == Spec => []NonceInv
  BY NonceInit, NonceStep, PTL DEF Spec

(* However often a write was tried, it is carried out at most once, and    *)
(* its result is true of the target.                                       *)
THEOREM ClientWrittenOnce == Spec => []WrittenOnce
<1>1. NonceInv => WrittenOnce
  BY DEF NonceInv
<1> QED
  BY <1>1, ClientNonceInv, PTL

(* The one retry suffices for a nonce that went stale before the write.    *)
THEOREM ClientStaleNonceIsRenewed == Spec => []StaleNonceIsRenewed
<1>1. NonceInv => StaleNonceIsRenewed
  BY DEF NonceInv
<1> QED
  BY <1>1, ClientNonceInv, PTL
=============================================================================
