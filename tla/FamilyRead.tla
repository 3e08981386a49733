----------------------------- MODULE FamilyRead -----------------------------
(***************************************************************************)
(* What reading one object family from ISE promises its caller: either     *)
(* the object of every stub, or the error of one stub that could not be    *)
(* read, and never a family with a hole in it.  ersGetAll (ise.go) is      *)
(* shown to implement this in ReadPool.                                    *)
(***************************************************************************)
CONSTANTS Stubs,     \* the stubs of the collection listing
          NoError    \* the nil error

VARIABLES read,      \* the stubs whose object has been stored
          error,     \* the stub whose failed read is the one reported
          answer     \* "pending", "objects" or "error"

frVars == <<read, error, answer>>

FRInit == read = {} /\ error = NoError /\ answer = "pending"

ReadObject(s) ==
  /\ answer = "pending"
  /\ s \notin read
  /\ read' = read \cup {s}
  /\ UNCHANGED <<error, answer>>

\* Only the first failure is kept.
FailObject(s) ==
  /\ answer = "pending"
  /\ error = NoError
  /\ s \notin read
  /\ error' = s
  /\ UNCHANGED <<read, answer>>

AnswerObjects ==
  /\ answer = "pending"
  /\ error = NoError
  /\ read = Stubs
  /\ answer' = "objects"
  /\ UNCHANGED <<read, error>>

AnswerError ==
  /\ answer = "pending"
  /\ error # NoError
  /\ answer' = "error"
  /\ UNCHANGED <<read, error>>

FRNext ==
  \/ \E s \in Stubs : ReadObject(s) \/ FailObject(s)
  \/ AnswerObjects
  \/ AnswerError

FRSpec == FRInit /\ [][FRNext]_frVars
=============================================================================
