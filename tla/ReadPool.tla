------------------------------ MODULE ReadPool ------------------------------
(***************************************************************************)
(* ersGetAll (ise.go): the bounded pool of goroutines that reads the full  *)
(* object of every stub of an ERS listing.                                 *)
(*                                                                         *)
(* The caller sends the stub indices over an unbuffered channel, closes it *)
(* and waits for the workers.  A worker looks at firstEr under the mutex   *)
(* before it reads, reads without the mutex, and takes the mutex again to  *)
(* store its result, so a failure may be recorded between its look and its *)
(* read.  A GET fails when ISE refuses it or the object was deleted after  *)
(* the listing.                                                            *)
(***************************************************************************)
EXTENDS Naturals

CONSTANTS N,         \* len(stubs)
          Workers,   \* the detailWorkers goroutines
          NoError    \* the nil error

ASSUME NAssumption == N \in Nat
ASSUME WorkersAssumption == Workers # {}
ASSUME NoErrorAssumption == NoError \notin 1..N

Stubs == 1..N

VARIABLES
  next,      \* the index the caller offers on jobs; N+1 when all were taken
  jobs,      \* the channel: "open" or "closed"
  pc,        \* where each worker is in its loop
  job,       \* the index a worker holds (0: none)
  got,       \* what a worker's GET returned and it has not stored yet
  out,       \* the result slice: nil or the object
  firstEr,   \* the index whose read failed first, or NoError
  ret        \* what ersGetAll returned

vars == <<next, jobs, pc, job, got, out, firstEr, ret>>

Init ==
  /\ next = 1
  /\ jobs = "open"
  /\ pc = [w \in Workers |-> "receive"]
  /\ job = [w \in Workers |-> 0]
  /\ got = [w \in Workers |-> "nil"]
  /\ out = [i \in Stubs |-> "nil"]
  /\ firstEr = NoError
  /\ ret = "pending"

-----------------------------------------------------------------------------
(* The caller                                                              *)

\* Mutation: the caller's loop runs one index too far.
SendPastEnd(w) ==
  /\ next <= N + 1
  /\ pc[w] = "receive"
  /\ job' = [job EXCEPT ![w] = next]
  /\ next' = next + 1
  /\ pc' = [pc EXCEPT ![w] = "check"]
  /\ UNCHANGED <<jobs, got, out, firstEr, ret>>

\* jobs <- i meets a worker's receive: the channel is unbuffered.
SendJob(w) ==
  /\ next <= N
  /\ pc[w] = "receive"
  /\ job' = [job EXCEPT ![w] = next]
  /\ next' = next + 1
  /\ pc' = [pc EXCEPT ![w] = "check"]
  /\ UNCHANGED <<jobs, got, out, firstEr, ret>>

CloseJobs ==
  /\ next = N + 1
  /\ jobs = "open"
  /\ jobs' = "closed"
  /\ UNCHANGED <<next, pc, job, got, out, firstEr, ret>>

\* wg.Wait() has returned.
ReturnResult ==
  /\ jobs = "closed"
  /\ ret = "pending"
  /\ \A w \in Workers : pc[w] = "done"
  /\ ret' = IF firstEr # NoError THEN "error" ELSE "objects"
  /\ UNCHANGED <<next, jobs, pc, job, got, out, firstEr>>

-----------------------------------------------------------------------------
(* A worker                                                                *)

\* Mutation: a worker that sees the failure looks again instead of receiving.
SpinAfterCheck == IF firstEr # NoError THEN "check" ELSE "read"

\* Where the first critical section leads: after a failure the job is dropped
\* and the worker goes on receiving, so the caller's sends never block.
AfterCheck == IF firstEr # NoError THEN "receive" ELSE "read"

CheckStop(w) ==
  /\ pc[w] = "check"
  /\ pc' = [pc EXCEPT ![w] = AfterCheck]
  /\ job' = IF AfterCheck = "read" THEN job ELSE [job EXCEPT ![w] = 0]
  /\ UNCHANGED <<next, jobs, got, out, firstEr, ret>>

\* ersGetByID, outside the mutex: an object, or nil with an error.
GetByID(w) ==
  /\ pc[w] = "read"
  /\ \E o \in {"object", "nil"} : got' = [got EXCEPT ![w] = o]
  /\ pc' = [pc EXCEPT ![w] = "store"]
  /\ UNCHANGED <<next, jobs, job, out, firstEr, ret>>

\* Mutation: firstEr is overwritten by every result.
LastResultKept(i, o) == IF o = "nil" THEN i ELSE NoError

\* The error kept when the read of stub i returned o.
KeptError(i, o) == IF o = "nil" /\ firstEr = NoError THEN i ELSE firstEr

\* The second critical section.
StoreResult(w) ==
  /\ pc[w] = "store"
  /\ firstEr' = KeptError(job[w], got[w])
  /\ out' = [out EXCEPT ![job[w]] = got[w]]
  /\ pc' = [pc EXCEPT ![w] = "receive"]
  /\ job' = [job EXCEPT ![w] = 0]
  /\ got' = [got EXCEPT ![w] = "nil"]
  /\ UNCHANGED <<next, jobs, ret>>

\* range jobs ends when the channel is closed and empty.
WorkerDone(w) ==
  /\ jobs = "closed"
  /\ pc[w] = "receive"
  /\ pc' = [pc EXCEPT ![w] = "done"]
  /\ UNCHANGED <<next, jobs, job, got, out, firstEr, ret>>

-----------------------------------------------------------------------------
Terminated == ret # "pending" /\ UNCHANGED vars

Step ==
  \/ CloseJobs
  \/ ReturnResult
  \/ \E w \in Workers : SendJob(w) \/ CheckStop(w) \/ GetByID(w) \/ StoreResult(w)
                          \/ WorkerDone(w)

Next == Step \/ Terminated

Spec == Init /\ [][Next]_vars

-----------------------------------------------------------------------------
(* Type correctness of the pool's state.                                   *)
TypeOK ==
  /\ next \in 1..(N + 1)
  /\ jobs \in {"open", "closed"}
  /\ pc \in [Workers -> {"receive", "check", "read", "store", "done"}]
  /\ job \in [Workers -> 0..N]
  /\ got \in [Workers -> {"object", "nil"}]
  /\ out \in [Stubs -> {"object", "nil"}]
  /\ firstEr \in Stubs \cup {NoError}
  /\ ret \in {"pending", "objects", "error"}

(* "A half-read family is worse than a failed one": when ersGetAll returns *)
(* without an error every stub's object is in the slice, whatever the      *)
(* order in which the workers looked, read and stored.                     *)
NoHalfRead == ret = "objects" => \A i \in Stubs : out[i] = "object"

\* The error ersGetAll returns is that of a read that really failed, and no
\* later success of the same run fills that slot.
ErrorIsReal == firstEr # NoError => out[firstEr] = "nil"

\* Every stub is handed to one worker only, so no two goroutines write the
\* same slot of the slice.
OneWorkerPerStub ==
  /\ \A w \in Workers : job[w] < next
  /\ \A v, w \in Workers : v # w /\ job[v] = job[w] => job[v] = 0
  /\ \A w \in Workers : job[w] # 0 => out[job[w]] = "nil"

\* The inductive strengthening behind the invariants above: a stub that has
\* been sent is stored, held by a worker, or given up because of a failure.
PoolInv ==
  /\ TypeOK
  /\ OneWorkerPerStub
  /\ ErrorIsReal
  /\ jobs = "closed" => next = N + 1
  /\ \A w \in Workers : pc[w] \in {"check", "read", "store"} <=> job[w] # 0
  /\ \A w \in Workers : pc[w] = "done" => jobs = "closed"
  /\ \A i \in Stubs : i < next =>
        out[i] = "object" \/ firstEr # NoError \/ \E w \in Workers : job[w] = i
  /\ \A i \in Stubs : i >= next => out[i] = "nil"
  /\ firstEr # NoError => firstEr < next /\ \A w \in Workers : job[w] # firstEr
  /\ ret # "pending" => jobs = "closed" /\ \A w \in Workers : pc[w] = "done"
  /\ ret = "objects" => firstEr = NoError
  /\ ret = "error" => firstEr # NoError

\* The object slots filled so far are the abstract read set.
Family == INSTANCE FamilyRead WITH
            read <- {i \in Stubs : out[i] = "object"},
            error <- firstEr,
            answer <- ret

(* ersGetAll implements the family read: all objects, or one real error.   *)
ImplementsFamilyRead == Family!FRSpec

=============================================================================
