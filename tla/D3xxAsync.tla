------------------------------- MODULE D3xxAsync -------------------------------
(***************************************************************************)
(* D3xxAsyncBackend of ponkan/transport/d3xx_streaming.py: blocking pipe   *)
(* reads run as jobs of a thread pool of max_workers threads.              *)
(*                                                                         *)
(* A job is known by the slot it reads into (a slot has at most one job).  *)
(* jobs holds the ones no worker has taken; the executor's queue is first  *)
(* in first out.  A worker is                                              *)
(*   "free"       waiting for a job,                                       *)
(*   "reading"    in _read_into_slot, before its check of                  *)
(*                _cancel_requested,                                       *)
(*   "calling"    past the check and about to run the callback,            *)
(*   "returning"  past the callback's put, with the future not done yet.   *)
(* A future is done when its job was cancelled or its worker is free       *)
(* again, so _futures needs no variable of its own.  The lock only guards  *)
(* _futures and the flags inside steps that are atomic here.               *)
(*                                                                         *)
(* _read_into_slot turns D3xxBackendError, OSError and RuntimeError into a *)
(* status; a read that raises anything else would end the job without a    *)
(* callback and is left out.                                               *)
(***************************************************************************)
EXTENDS BufferPool, Sequences

CONSTANT MaxWorkers  \* max_workers

ASSUME MaxWorkersAssumption == MaxWorkers \in Nat \ {0}

VARIABLES
    jobs,             \* submitted and not taken by a worker, oldest first
    worker,           \* what each thread of the pool does
    cancelRequested,  \* _cancel_requested
    closed            \* _released, and the handle is closed

d3xxVars == <<jobs, worker, cancelRequested, closed>>

Workers == 1 .. MaxWorkers

FreeWorker == [at |-> "free", slot |-> None, outcome |-> None]

D3xxTypeOK ==
    /\ jobs \in Seq(Slots)
    /\ worker \in [Workers -> [at : {"free", "reading", "calling", "returning"},
                               slot : Slots \cup {None},
                               outcome : Outcomes \cup {None}]]
    /\ cancelRequested \in BOOLEAN
    /\ closed \in BOOLEAN
    /\ \A w \in Workers :
          /\ worker[w].at = "free" <=> worker[w].slot = None
          /\ worker[w].at = "calling" => worker[w].outcome # None

D3xxInit ==
    /\ jobs = <<>>
    /\ worker = [w \in Workers |-> FreeWorker]
    /\ cancelRequested = FALSE
    /\ closed = FALSE

CanSubmit == ~closed /\ ~cancelRequested

\* submit_read; without CanSubmit it raises.
SubmitJob(i) ==
    /\ CanSubmit
    /\ jobs' = Append(jobs, i)
    /\ UNCHANGED <<worker, cancelRequested, closed>>

TakeJob_Newest(w) ==
    /\ worker[w].at = "free"
    /\ jobs # <<>>
    /\ worker' = [worker EXCEPT ![w].at = "reading", ![w].slot = jobs[Len(jobs)]]
    /\ jobs' = SubSeq(jobs, 1, Len(jobs) - 1)
    /\ UNCHANGED <<cancelRequested, closed>>

TakeJob(w) ==
    /\ worker[w].at = "free"
    /\ jobs # <<>>
    /\ worker' = [worker EXCEPT ![w].at = "reading", ![w].slot = Head(jobs)]
    /\ jobs' = Tail(jobs)
    /\ UNCHANGED <<cancelRequested, closed>>

EndRead_IgnoresCancel(w, outcome) ==
    /\ worker[w].at = "reading"
    /\ worker' = [worker EXCEPT ![w].at = "calling", ![w].outcome = outcome]
    /\ UNCHANGED <<jobs, cancelRequested, closed>>

\* read_pipe returns or raises, its bytes are copied into the slot, and the flag
\* decides whether the callback will run.
EndRead(w, outcome) ==
    /\ worker[w].at = "reading"
    /\ worker' = [worker EXCEPT ![w] =
                      IF cancelRequested
                      THEN FreeWorker
                      ELSE [@ EXCEPT !.at = "calling", !.outcome = outcome]]
    /\ UNCHANGED <<jobs, cancelRequested, closed>>

\* The callback posts its result; the rest of it is the engine's.
RunCallback(w) ==
    /\ worker[w].at = "calling"
    /\ worker' = [worker EXCEPT ![w].at = "returning"]
    /\ UNCHANGED <<jobs, cancelRequested, closed>>

ReturnFromCallback(w) ==
    /\ worker[w].at = "returning"
    /\ worker' = [worker EXCEPT ![w] = FreeWorker]
    /\ UNCHANGED <<jobs, cancelRequested, closed>>

\* cancel_all: the flag first, then every future that has not started.
RequestCancel ==
    /\ cancelRequested' = TRUE
    /\ UNCHANGED <<jobs, worker, closed>>

CancelJob(k) ==
    /\ k \in DOMAIN jobs
    /\ jobs' = SubSeq(jobs, 1, k - 1) \o SubSeq(jobs, k + 1, Len(jobs))
    /\ UNCHANGED <<worker, cancelRequested, closed>>

\* drain() returns.
FuturesDone == jobs = <<>> /\ \A w \in Workers : worker[w].at = "free"

\* release(): cancel_all, drain, executor shutdown and handle close.  The handle counts
\* as closed once FT_Close was tried: when that raises, the exception leaves stop(),
\* which has freed its slots before, and the state is the same.
CloseHandle ==
    /\ FuturesDone
    /\ closed' = TRUE
    /\ cancelRequested' = TRUE
    /\ UNCHANGED <<jobs, worker>>
================================================================================
