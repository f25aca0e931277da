------------------------------- MODULE D3xxProofs -------------------------------
(***************************************************************************)
(* The engine on the D3XX worker backend, for any number of slots and of   *)
(* workers: it does what StreamingSystem says an engine may do, so that    *)
(* what is proved of StreamingSystem holds of it; and with one worker      *)
(* frames keep the order of their reads.                                   *)
(*                                                                         *)
(* P is StreamingSystem under the substitution of D3xxStream's System,     *)
(* with the lemmas and invariants of its proofs.  The proof follows a slot *)
(* by the job that reads into it, from the executor's queue to a worker.   *)
(***************************************************************************)
EXTENDS D3xxStream, FiniteSetTheorems, SequenceTheorems, TLAPS

\* StreamingSystem, and what is proved of it.
P == INSTANCE StreamingAccountProofs WITH
    transfer <- [i \in Slots |-> Transfer(i)],
    cancelling <- cancelRequested,
    released <- closed,
    ShutdownCanFail <- FALSE

\* The engine that StreamingSystem composes is this one.
LEMMA SameData ==
    /\ P!Slots = Slots /\ P!Outcomes = Outcomes /\ P!RawFrameSlot = RawFrameSlot
    /\ P!RawFrameResult = RawFrameResult /\ P!Frame = Frame /\ P!Counters = Counters
    /\ P!Steps = Steps /\ P!FreeSlot = FreeSlot /\ P!EmptyPool = EmptyPool
    /\ \A pool, i : P!Checkout(pool, i) = Checkout(pool, i)
    /\ \A pool, i : P!Release(pool, i) = Release(pool, i)
    /\ \A pool : P!InUse(pool) = InUse(pool)
    /\ \A pool : P!InUseCount(pool) = InUseCount(pool)
    /\ \A q : P!Retains(q) = Retains(q) /\ P!Drops(q) = Drops(q)
    /\ \A q, frame : P!PutFrame(q, frame) = PutFrame(q, frame)
<1>1. /\ P!Slots = Slots /\ P!Outcomes = Outcomes /\ P!Steps = Steps
      /\ P!FreeSlot = FreeSlot /\ P!Counters = Counters /\ P!Frame = Frame
      /\ P!RawFrameSlot = RawFrameSlot
    BY DEF P!Slots, Slots, P!Outcomes, Outcomes, P!Steps, Steps, P!FreeSlot, FreeSlot,
           P!Counters, Counters, P!Frame, Frame, P!RawFrameSlot, RawFrameSlot
<1>2. P!RawFrameResult = RawFrameResult /\ P!EmptyPool = EmptyPool
    BY <1>1 DEF P!RawFrameResult, RawFrameResult, P!EmptyPool, EmptyPool
<1>3. /\ \A pool, i : P!Checkout(pool, i) = Checkout(pool, i)
      /\ \A pool, i : P!Release(pool, i) = Release(pool, i)
      /\ \A pool : P!InUse(pool) = InUse(pool)
    BY <1>1 DEF P!Checkout, Checkout, P!Release, Release, P!InUse, InUse
<1>4. \A S : P!Cardinality(S) = Cardinality(S)
    BY DEF P!Cardinality, Cardinality
<1>5. \A pool : P!InUseCount(pool) = InUseCount(pool)
    BY <1>3, <1>4 DEF P!InUseCount, InUseCount
<1>6. /\ \A q : P!Retains(q) = Retains(q) /\ P!Drops(q) = Drops(q) /\ P!Full(q) = Full(q)
    BY DEF P!Retains, Retains, P!Drops, Drops, P!Full, Full
<1>7. \A q, frame : P!PutFrame(q, frame) = PutFrame(q, frame)
    BY <1>6 DEF P!PutFrame, PutFrame
<1> QED
    BY <1>1, <1>2, <1>3, <1>5, <1>6, <1>7

\* What StreamingSystem assumes of its constants holds of these.
LEMMA SystemAssumptions ==
    /\ RawSlots \in Nat \ {0} /\ None \notin Nat
    /\ None \notin P!RawFrameResult /\ None \notin P!Outcomes
    /\ OutputQueueSize \in Nat \ {0} /\ DropPolicy \in P!Policies /\ MaxSubmits \in Nat
    /\ FALSE \in BOOLEAN
<1>1. None \notin P!RawFrameResult /\ None \notin P!Outcomes
    BY BufferPoolAssumption, SameData
<1>2. DropPolicy \in P!Policies
    BY FrameQueueAssumption DEF P!Policies, Policies
<1> QED
    BY <1>1, <1>2, BufferPoolAssumption, FrameQueueAssumption, MaxSubmitsAssumption

\* The invariants of its proofs, which hold of the engine on this backend too.
SystemInv ==
    /\ P!TypeOK /\ P!OwnershipInv /\ P!BytesInv
    /\ P!NumbersInv /\ P!Accounts /\ P!StopInv

\* They hold initially.
LEMMA SystemInit == P!Init => SystemInv
<1>1. P!Init => P!TypeOK /\ P!OwnershipInv /\ P!BytesInv
    BY SystemAssumptions, P!TypeInit, P!OwnershipInit, P!BytesInit
       DEF P!TypeInit, P!OwnershipInit, P!BytesInit
<1>2. P!Init => P!NumbersInv /\ P!Accounts /\ P!StopInv
    BY SystemAssumptions, P!NumbersInit, P!AccountsInit, P!StopInit
       DEF P!NumbersInit, P!AccountsInit, P!StopInit
<1> QED
    BY <1>1, <1>2 DEF SystemInv

\* Every step of StreamingSystem keeps them.
LEMMA SystemNext == SystemInv /\ [P!Next]_(P!vars) => SystemInv'
<1> SUFFICES ASSUME SystemInv, [P!Next]_(P!vars) PROVE SystemInv'
    OBVIOUS
<1>0. /\ P!TypeOK /\ P!OwnershipInv /\ P!BytesInv
      /\ P!NumbersInv /\ P!Accounts /\ P!StopInv
    BY DEF SystemInv
<1>1. P!TypeOK'
    BY <1>0, SystemAssumptions, P!TypeNext DEF P!TypeNext
<1>2. P!OwnershipInv'
    BY <1>0, SystemAssumptions, P!OwnershipNext DEF P!OwnershipNext
<1>3. P!BytesInv'
    BY <1>0, SystemAssumptions, P!BytesNext DEF P!BytesNext
<1>4. P!NumbersInv'
    BY <1>0, SystemAssumptions, P!NumbersNext DEF P!NumbersNext
<1>5. P!Accounts'
    BY <1>0, SystemAssumptions, P!AccountsNext DEF P!AccountsNext
<1>6. P!StopInv'
    BY <1>0, SystemAssumptions, P!StopNext DEF P!StopNext
<1> QED
    BY <1>1, <1>2, <1>3, <1>4, <1>5, <1>6 DEF SystemInv

\* While a slot is in flight the completion queue has room for its result.
LEMMA SystemRoom ==
    ASSUME P!TypeOK, P!SlotOwnership, NEW i \in P!Slots, P!InFlight(i)
    PROVE  Len(completionQueue) < RawSlots
BY SystemAssumptions, P!RoomForOneMore DEF P!RoomForOneMore

\* The engine's variables have the same types in both.
LEMMA SameTypes ==
    /\ P!EngineTypeOK <=> EngineTypeOK
    /\ P!EngineTypeOK' <=> EngineTypeOK'
BY SameData DEF P!EngineTypeOK, EngineTypeOK

\* Both start from the same engine.
LEMMA SameInit == P!EngineInit <=> EngineInit
BY SameData DEF P!EngineInit, EngineInit

\* The caller's steps that call no backend are the same.
LEMMA SameCaller == P!CallerStep <=> CallerStep
<1> USE DEF P!poolVars, poolVars, P!countVars, countVars, P!callerVars, callerVars,
    P!engineVars, engineVars
<1>1. (P!Start <=> Start) /\ (P!StartSlotInUse <=> StartSlotInUse)
    BY DEF P!Start, Start, P!StartSlotInUse, StartSlotInUse
<1>2. (P!CountSubmitted <=> CountSubmitted) /\ (P!TakeResult <=> TakeResult)
    BY DEF P!CountSubmitted, CountSubmitted, P!TakeResult, TakeResult
<1>3. /\ P!UsbError <=> UsbError
      /\ P!ShortRead <=> ShortRead
      /\ P!DecodeFails <=> DecodeFails
      /\ P!DecoderRaises <=> DecoderRaises
    BY DEF P!UsbError, UsbError, P!ShortRead, ShortRead, P!DecodeFails, DecodeFails,
           P!DecoderRaises, DecoderRaises, P!Discard, Discard, P!InHand, InHand
<1>4. P!DecodeFrame <=> DecodeFrame
    BY SameData DEF P!DecodeFrame, DecodeFrame, P!InHand, InHand
<1>5. P!RecycleStopped <=> RecycleStopped
    BY SameData DEF P!RecycleStopped, RecycleStopped
<1>6. (P!TakeFrame <=> TakeFrame) /\ (P!Stop <=> Stop)
    BY SameData DEF P!TakeFrame, TakeFrame, P!Stop, Stop
<1>7. (P!StartAgain <=> StartAgain) /\ (P!StopAgain <=> StopAgain)
    BY SameData DEF P!StartAgain, StartAgain, P!StopAgain, StopAgain
<1> QED
    BY <1>1, <1>2, <1>3, <1>4, <1>5, <1>6, <1>7 DEF P!CallerStep, CallerStep

--------------------------------------------------------------------------------
(* Who holds a slot, for a queue q of jobs and a pool t of workers          *)

\* A job for slot i waits; worker w is at this step of it; the worker has a job.
Waits(q, i) == \E k \in DOMAIN q : q[k] = i
Does(t, w, step, i) == t[w].at = step /\ t[w].slot = i
Busy(t, w) == t[w].at \in {"reading", "calling"}

\* Transfer, as a function of the queue and the pool.
TransferOf(q, t, i) ==
    IF Waits(q, i) THEN "pending"
    ELSE IF \E w \in Workers : Does(t, w, "reading", i) THEN "pending"
    ELSE IF \E w \in Workers : Does(t, w, "calling", i)
         THEN t[CHOOSE w \in Workers : Does(t, w, "calling", i)].outcome
    ELSE "idle"

\* What D3xxTypeOK says of the pool.
WorkerStates ==
    [Workers -> [at : {"free", "reading", "calling", "returning"},
                 slot : Slots \cup {None},
                 outcome : Outcomes \cup {None}]]

\* A slot has one job at most, which waits or is with one worker.
OneJobEach(q, t) ==
    /\ \A j, k \in DOMAIN q : q[j] = q[k] => j = k
    /\ \A w \in Workers : Busy(t, w) => ~Waits(q, t[w].slot)
    /\ \A v, w \in Workers : Busy(t, v) /\ Busy(t, w) /\ t[v].slot = t[w].slot => v = w

\* What the backend's side of a slot is, read off the job that holds it.
LEMMA TransferCases ==
    ASSUME NEW q, NEW t \in WorkerStates, OneJobEach(q, t), NEW i
    PROVE  /\ Waits(q, i) => TransferOf(q, t, i) = "pending"
           /\ \A w \in Workers : Does(t, w, "reading", i) => TransferOf(q, t, i) = "pending"
           /\ \A w \in Workers : Does(t, w, "calling", i) => TransferOf(q, t, i) = t[w].outcome
           /\ ~Waits(q, i) /\ (\A w \in Workers : Busy(t, w) => t[w].slot # i)
                => TransferOf(q, t, i) = "idle"
<1>1. Waits(q, i) => TransferOf(q, t, i) = "pending"
    BY DEF TransferOf
<1>2. \A w \in Workers : Does(t, w, "reading", i) => TransferOf(q, t, i) = "pending"
    BY DEF TransferOf
<1>3. ASSUME NEW w \in Workers, Does(t, w, "calling", i)
      PROVE  TransferOf(q, t, i) = t[w].outcome
    <2>1. \A v \in Workers : Does(t, v, "calling", i) => v = w
        BY <1>3 DEF Does, OneJobEach, Busy
    <2>2. ~Waits(q, i) /\ \A v \in Workers : ~Does(t, v, "reading", i)
        <3>1. Busy(t, w) /\ t[w].slot = i
            BY <1>3 DEF Does, Busy
        <3>2. ASSUME NEW v \in Workers, Does(t, v, "reading", i) PROVE FALSE
            <4>1. v = w
                BY <3>1, <3>2 DEF Does, Busy, OneJobEach
            <4> QED
                BY <1>3, <3>2, <4>1 DEF Does
        <3> QED
            BY <3>1, <3>2 DEF OneJobEach
    <2>3. (CHOOSE v \in Workers : Does(t, v, "calling", i)) = w
        BY <1>3, <2>1
    <2> QED
        BY <1>3, <2>2, <2>3 DEF TransferOf
<1>4. ~Waits(q, i) /\ (\A w \in Workers : Busy(t, w) => t[w].slot # i)
          => TransferOf(q, t, i) = "idle"
    BY DEF TransferOf, Does, Busy
<1> QED
    BY <1>1, <1>2, <1>3, <1>4

\* A slot without work is in no job.
LEMMA IdleIsFree ==
    ASSUME NEW q, NEW t \in WorkerStates, OneJobEach(q, t), NEW i,
           \A w \in Workers : t[w].at = "calling" => t[w].outcome \in Outcomes,
           TransferOf(q, t, i) = "idle"
    PROVE  ~Waits(q, i) /\ \A w \in Workers : Busy(t, w) => t[w].slot # i
<1>1. ~Waits(q, i)
    BY TransferCases
<1>2. ASSUME NEW w \in Workers, Busy(t, w), t[w].slot = i PROVE FALSE
    <2>1. t[w].at \in {"reading", "calling"}
        BY <1>2 DEF Busy
    <2>2. CASE t[w].at = "reading"
        BY <1>2, <2>2, TransferCases DEF Does
    <2>3. CASE t[w].at = "calling"
        BY <1>2, <2>3, TransferCases DEF Does, Outcomes
    <2> QED
        BY <2>1, <2>2, <2>3
<1> QED
    BY <1>1, <1>2

\* The same job in another queue or pool is the same transfer.
LEMMA SameTransfer ==
    ASSUME NEW q, NEW t \in WorkerStates, OneJobEach(q, t),
           NEW p, NEW s \in WorkerStates, OneJobEach(p, s), NEW i,
           Waits(p, i) \/ (\E w \in Workers : Does(s, w, "reading", i))
               <=> Waits(q, i) \/ (\E w \in Workers : Does(t, w, "reading", i)),
           \A w \in Workers : Does(s, w, "calling", i) <=> Does(t, w, "calling", i),
           \A w \in Workers : Does(s, w, "calling", i) => s[w].outcome = t[w].outcome
    PROVE  TransferOf(p, s, i) = TransferOf(q, t, i)
<1>1. CASE Waits(q, i) \/ \E w \in Workers : Does(t, w, "reading", i)
    BY <1>1, TransferCases
<1>2. CASE \E w \in Workers : Does(t, w, "calling", i)
    BY <1>2, TransferCases
<1>3. CASE /\ ~(Waits(q, i) \/ \E w \in Workers : Does(t, w, "reading", i))
           /\ ~\E w \in Workers : Does(t, w, "calling", i)
    <2>1. ~Waits(p, i) /\ \A w \in Workers : Busy(s, w) => s[w].slot # i
        BY <1>3 DEF Busy, Does
    <2>2. ~Waits(q, i) /\ \A w \in Workers : Busy(t, w) => t[w].slot # i
        BY <1>3 DEF Busy, Does
    <2> QED
        BY <2>1, <2>2, TransferCases
<1> QED
    BY <1>1, <1>2, <1>3

\* A worker that keeps its slot, its outcome or its idleness.
LEMMA WorkerMoves ==
    ASSUME NEW q, NEW t \in WorkerStates, OneJobEach(q, t), NEW w \in Workers,
           NEW s \in WorkerStates, \A v \in Workers : v # w => s[v] = t[v],
           Busy(s, w) => Busy(t, w) /\ s[w].slot = t[w].slot
    PROVE  /\ OneJobEach(q, s)
           /\ \A i : i # t[w].slot \/ ~Busy(t, w) => TransferOf(q, s, i) = TransferOf(q, t, i)
           /\ Busy(t, w) /\ ~Busy(s, w) => TransferOf(q, s, t[w].slot) = "idle"
           /\ Busy(t, w) /\ s[w].at = "calling" => TransferOf(q, s, t[w].slot) = s[w].outcome
<1>1. OneJobEach(q, s)
    BY DEF OneJobEach, Busy
<1>2. ASSUME NEW i, i # t[w].slot \/ ~Busy(t, w)
      PROVE  TransferOf(q, s, i) = TransferOf(q, t, i)
    <2>1. ~Does(s, w, "reading", i) /\ ~Does(t, w, "reading", i)
          /\ ~Does(s, w, "calling", i) /\ ~Does(t, w, "calling", i)
        BY <1>2 DEF Does, Busy
    <2>2. \A v \in Workers : /\ Does(s, v, "reading", i) <=> Does(t, v, "reading", i)
                             /\ Does(s, v, "calling", i) <=> Does(t, v, "calling", i)
                             /\ Does(s, v, "calling", i) => s[v].outcome = t[v].outcome
        BY <2>1 DEF Does
    <2> QED
        BY <1>1, <2>2, SameTransfer
<1>3. ASSUME Busy(t, w), ~Busy(s, w)
      PROVE  TransferOf(q, s, t[w].slot) = "idle"
    <2>1. ~Waits(q, t[w].slot)
        BY <1>3 DEF OneJobEach
    <2>2. \A v \in Workers : Busy(s, v) => s[v].slot # t[w].slot
        BY <1>3 DEF OneJobEach, Busy
    <2> QED
        BY <1>1, <2>1, <2>2, TransferCases
<1>4. ASSUME Busy(t, w), s[w].at = "calling"
      PROVE  TransferOf(q, s, t[w].slot) = s[w].outcome
    BY <1>1, <1>4, TransferCases DEF Does, Busy
<1> QED
    BY <1>1, <1>2, <1>3, <1>4

\* submit_read of a slot that has no job.
LEMMA JobAdded ==
    ASSUME NEW q \in Seq(Slots), NEW t \in WorkerStates, OneJobEach(q, t),
           NEW i \in Slots, TransferOf(q, t, i) = "idle",
           \A w \in Workers : t[w].at = "calling" => t[w].outcome \in Outcomes
    PROVE  /\ Append(q, i) \in Seq(Slots)
           /\ OneJobEach(Append(q, i), t)
           /\ \A j : TransferOf(Append(q, i), t, j) =
                        IF j = i THEN "pending" ELSE TransferOf(q, t, j)
<1> DEFINE p == Append(q, i)
<1>1. /\ p \in Seq(Slots) /\ Len(p) = Len(q) + 1 /\ Len(q) \in Nat
      /\ \A k \in 1 .. Len(q) : p[k] = q[k]
      /\ p[Len(q) + 1] = i
    BY AppendProperties, LenProperties
<1>2. DOMAIN q = 1 .. Len(q) /\ DOMAIN p = 1 .. Len(q) + 1
    BY <1>1, LenProperties
<1> HIDE DEF p
<1>9. \A k \in DOMAIN p : k \in DOMAIN q \/ k = Len(q) + 1
    BY <1>1, <1>2
<1>10. /\ \A k \in DOMAIN q : k \in DOMAIN p /\ p[k] = q[k]
       /\ Len(q) + 1 \in DOMAIN p
    BY <1>1, <1>2
<1>3. /\ \A k \in DOMAIN p :
             (k \in DOMAIN q /\ p[k] = q[k]) \/ (k = Len(q) + 1 /\ p[k] = i)
      /\ \A k \in DOMAIN q : k \in DOMAIN p /\ p[k] = q[k]
      /\ Len(q) + 1 \in DOMAIN p
  <2>1. p[Len(q) + 1] = i
      BY <1>1
  <2> QED
      BY <1>9, <1>10, <2>1
<1>4. ~Waits(q, i) /\ \A w \in Workers : Busy(t, w) => t[w].slot # i
    BY IdleIsFree
<1>5. \A j : Waits(p, j) <=> Waits(q, j) \/ j = i
    BY <1>1, <1>3 DEF Waits
<1>6. OneJobEach(p, t)
    <2>1. \A j, k \in DOMAIN p : p[j] = p[k] => j = k
        BY <1>3, <1>4 DEF OneJobEach, Waits
    <2> QED
        BY <1>4, <1>5, <2>1 DEF OneJobEach
<1>7. TransferOf(p, t, i) = "pending"
    BY <1>5, <1>6, TransferCases
<1>8. \A j : j # i => TransferOf(p, t, j) = TransferOf(q, t, j)
    BY <1>5, <1>6, SameTransfer
<1> QED
    BY <1>1, <1>6, <1>7, <1>8 DEF p

\* Worker w begins to read into slot i.
Begun(t, w, i) == [t EXCEPT ![w].at = "reading", ![w].slot = i]

\* A worker takes the oldest job; the transfer it belongs to goes on.
LEMMA JobTaken ==
    ASSUME NEW q \in Seq(Slots), NEW t \in WorkerStates, OneJobEach(q, t), q # <<>>,
           NEW w \in Workers, t[w].at = "free"
    PROVE  /\ Tail(q) \in Seq(Slots) /\ Head(q) \in Slots
           /\ Begun(t, w, Head(q)) \in WorkerStates
           /\ OneJobEach(Tail(q), Begun(t, w, Head(q)))
           /\ \A i : TransferOf(Tail(q), Begun(t, w, Head(q)), i) = TransferOf(q, t, i)
<1> DEFINE s == Begun(t, w, Head(q))
           p == Tail(q)
<1>1. /\ p \in Seq(Slots) /\ Len(p) = Len(q) - 1 /\ Len(q) \in Nat \ {0}
      /\ Head(q) = q[1] /\ Head(q) \in Slots
      /\ \A k \in 1 .. Len(p) : p[k] = q[k + 1]
    BY HeadTailProperties, EmptySeq
<1>2. DOMAIN q = 1 .. Len(q) /\ DOMAIN p = 1 .. Len(q) - 1
    BY <1>1, LenProperties
<1>3. /\ s \in WorkerStates /\ s[w].at = "reading" /\ s[w].slot = q[1]
      /\ \A v \in Workers : v # w => s[v] = t[v]
    BY <1>1 DEF WorkerStates, Begun
<1> HIDE DEF s, p
<1>11. /\ \A k \in DOMAIN p : k \in Nat /\ k # 0 /\ k + 1 \in DOMAIN q /\ p[k] = q[k + 1]
       /\ 1 \in DOMAIN q
    BY <1>1, <1>2
<1>12. \A k \in DOMAIN q : k = 1 \/ (k - 1 \in DOMAIN p /\ (k - 1) + 1 = k)
    BY <1>1, <1>2
<1>4. /\ \A k \in DOMAIN q : k = 1 \/ (k - 1 \in DOMAIN p /\ p[k - 1] = q[k])
      /\ \A k \in DOMAIN p : k \in Nat /\ k # 0 /\ k + 1 \in DOMAIN q /\ p[k] = q[k + 1]
      /\ 1 \in DOMAIN q
  <2>1. ASSUME NEW k \in DOMAIN q, k # 1
        PROVE  k - 1 \in DOMAIN p /\ p[k - 1] = q[k]
    <3>1. k - 1 \in DOMAIN p /\ (k - 1) + 1 = k
        BY <1>12, <2>1
    <3> QED
        BY <1>11, <3>1
  <2> QED
      BY <1>11, <2>1
<1>5. \A i : Waits(q, i) <=> Waits(p, i) \/ i = q[1]
    BY <1>4 DEF Waits
<1>6. ~Waits(p, q[1])
    <2> SUFFICES ASSUME NEW k \in DOMAIN p, p[k] = q[1] PROVE FALSE
        BY DEF Waits
    <2>1. k + 1 = 1
        BY <1>4 DEF OneJobEach
    <2> QED
        BY <1>4, <2>1
<1>7. \A j, k \in DOMAIN p : p[j] = p[k] => j = k
    <2> SUFFICES ASSUME NEW j \in DOMAIN p, NEW k \in DOMAIN p, p[j] = p[k]
                 PROVE  j = k
        OBVIOUS
    <2>1. j + 1 = k + 1
        BY <1>4 DEF OneJobEach
    <2> QED
        BY <1>4, <2>1
<1>8. \A v \in Workers : Busy(t, v) => t[v].slot # q[1] /\ v # w
    BY <1>5 DEF OneJobEach, Busy
<1>9. OneJobEach(p, s)
    <2>1. \A v \in Workers : Busy(s, v) => ~Waits(p, s[v].slot)
        BY <1>3, <1>5, <1>6 DEF OneJobEach, Busy
    <2>2. \A u, v \in Workers : Busy(s, u) /\ Busy(s, v) /\ s[u].slot = s[v].slot => u = v
        BY <1>3, <1>8 DEF OneJobEach, Busy
    <2> QED
        BY <1>7, <2>1, <2>2 DEF OneJobEach
<1>10. ASSUME NEW i PROVE TransferOf(p, s, i) = TransferOf(q, t, i)
    <2>1. Waits(p, i) \/ (\E v \in Workers : Does(s, v, "reading", i))
              <=> Waits(q, i) \/ (\E v \in Workers : Does(t, v, "reading", i))
        <3>1. \A v \in Workers : v # w => (Does(s, v, "reading", i) <=> Does(t, v, "reading", i))
            BY <1>3 DEF Does
        <3>2. ~Does(t, w, "reading", i) /\ (Does(s, w, "reading", i) <=> i = q[1])
            BY <1>3 DEF Does
        <3> QED
            BY <1>5, <3>1, <3>2
    <2>2. \A v \in Workers : /\ Does(s, v, "calling", i) <=> Does(t, v, "calling", i)
                             /\ Does(s, v, "calling", i) => s[v].outcome = t[v].outcome
        BY <1>3 DEF Does
    <2> QED
        BY <1>3, <1>9, <2>1, <2>2, SameTransfer
<1> QED
    BY <1>1, <1>3, <1>9, <1>10 DEF s, p

\* q without its n-th element.
Without(q, n) == SubSeq(q, 1, n - 1) \o SubSeq(q, n + 1, Len(q))

\* p lists q without its n-th element.
IsCut(q, n, p) ==
    \A k \in DOMAIN p : /\ k \in Nat
                        /\ k < n => k \in DOMAIN q /\ p[k] = q[k]
                        /\ ~(k < n) => k + 1 \in DOMAIN q /\ p[k] = q[k + 1]

\* It has the elements before that one, then those after it.
LEMMA CutOut ==
    ASSUME NEW q \in Seq(Slots), NEW n \in DOMAIN q
    PROVE  LET p == Without(q, n)
           IN  /\ p \in Seq(Slots) /\ Len(q) \in Nat /\ n \in 1 .. Len(q)
               /\ DOMAIN q = 1 .. Len(q) /\ DOMAIN p = 1 .. Len(q) - 1
               /\ IsCut(q, n, p)
<1> DEFINE front == SubSeq(q, 1, n - 1)
           back == SubSeq(q, n + 1, Len(q))
           p == front \o back
<1>1. Len(q) \in Nat /\ DOMAIN q = 1 .. Len(q) /\ n \in 1 .. Len(q)
    BY LenProperties
<1>2. \A k \in DOMAIN q : q[k] \in Slots
    BY <1>1, ElementOfSeq
<1>3. /\ front \in Seq(Slots) /\ Len(front) = n - 1
      /\ \A k \in 1 .. n - 1 : front[k] = q[k]
  <2>1. 1 \in Int /\ n - 1 \in Int /\ \A k \in 1 .. n - 1 : q[k] \in Slots
      BY <1>1, <1>2
  <2>2. /\ SubSeq(q, 1, n - 1) \in Seq(Slots)
        /\ Len(SubSeq(q, 1, n - 1)) = IF 1 <= n - 1 THEN (n - 1) - 1 + 1 ELSE 0
        /\ \A k \in 1 .. (n - 1) - 1 + 1 : SubSeq(q, 1, n - 1)[k] = q[1 + k - 1]
      BY <2>1, SubSeqProperties
  <2>3. \A k \in 1 .. n - 1 : 1 + k - 1 = k
      BY <1>1
  <2> QED
      BY <1>1, <2>2, <2>3
<1>4. /\ back \in Seq(Slots) /\ Len(back) = Len(q) - n
      /\ \A k \in 1 .. Len(q) - n : back[k] = q[k + n]
  <2>1. n + 1 \in Int /\ Len(q) \in Int /\ \A k \in n + 1 .. Len(q) : q[k] \in Slots
      BY <1>1, <1>2
  <2>2. /\ SubSeq(q, n + 1, Len(q)) \in Seq(Slots)
        /\ Len(SubSeq(q, n + 1, Len(q)))
              = IF n + 1 <= Len(q) THEN Len(q) - (n + 1) + 1 ELSE 0
        /\ \A k \in 1 .. Len(q) - (n + 1) + 1 :
              SubSeq(q, n + 1, Len(q))[k] = q[(n + 1) + k - 1]
      BY <2>1, SubSeqProperties
  <2>3. \A k \in 1 .. Len(q) - n : (n + 1) + k - 1 = k + n
      BY <1>1
  <2> QED
      BY <1>1, <2>2, <2>3
<1> HIDE DEF front, back
<1>5. /\ p \in Seq(Slots) /\ Len(p) = Len(q) - 1
      /\ \A k \in 1 .. Len(q) - 1 : p[k] = IF k <= n - 1 THEN front[k] ELSE back[k - (n - 1)]
  <2>1. /\ p \in Seq(Slots) /\ Len(p) = Len(front) + Len(back)
        /\ \A k \in 1 .. Len(front) + Len(back) :
              p[k] = IF k <= Len(front) THEN front[k] ELSE back[k - Len(front)]
      BY <1>3, <1>4, ConcatProperties
  <2>2. Len(front) + Len(back) = Len(q) - 1
      BY <1>1, <1>3, <1>4
  <2> QED
      BY <1>3, <2>1, <2>2
<1>6. DOMAIN p = 1 .. Len(q) - 1
    BY <1>5, LenProperties
<1> HIDE DEF p
<1>7. \A k \in DOMAIN p : /\ k \in Nat
                          /\ k < n => k \in DOMAIN q /\ p[k] = q[k]
                          /\ ~(k < n) => k + 1 \in DOMAIN q /\ p[k] = q[k + 1]
    <2> SUFFICES ASSUME NEW k \in DOMAIN p
                 PROVE  /\ k \in Nat
                        /\ k < n => k \in DOMAIN q /\ p[k] = q[k]
                        /\ ~(k < n) => k + 1 \in DOMAIN q /\ p[k] = q[k + 1]
        OBVIOUS
    <2>1. CASE k < n
        BY <1>1, <1>3, <1>5, <1>6, <2>1
    <2>2. CASE ~(k < n)
        <3>1. p[k] = back[k - (n - 1)]
            BY <1>1, <1>5, <1>6, <2>2
        <3>2. back[k - (n - 1)] = q[(k - (n - 1)) + n]
            BY <1>1, <1>4, <1>6, <2>2
        <3>3. (k - (n - 1)) + n = k + 1
            BY <1>1, <1>6
        <3> QED
            BY <1>1, <1>6, <2>2, <3>1, <3>2, <3>3
    <2> QED
        BY <2>1, <2>2
<1> QED
    BY <1>1, <1>5, <1>6, <1>7 DEF p, front, back, Without, IsCut

\* A job that is cancelled before a worker takes it leaves its slot without work.
LEMMA JobCancelled ==
    ASSUME NEW q \in Seq(Slots), NEW t \in WorkerStates, OneJobEach(q, t),
           NEW n \in DOMAIN q
    PROVE  LET p == Without(q, n)
           IN  /\ p \in Seq(Slots)
               /\ OneJobEach(p, t)
               /\ \A i : TransferOf(p, t, i) = IF i = q[n] THEN "idle" ELSE TransferOf(q, t, i)
<1> DEFINE p == Without(q, n)
<1>1. Len(q) \in Nat /\ DOMAIN q = 1 .. Len(q) /\ n \in 1 .. Len(q)
    BY CutOut
<1>5. p \in Seq(Slots)
    BY CutOut
<1>6. DOMAIN p = 1 .. Len(q) - 1
    BY CutOut
<1>2. IsCut(q, n, p)
    BY CutOut
<1> HIDE DEF p
<1>7. \A k \in DOMAIN p : /\ k \in Nat
                          /\ k < n => k \in DOMAIN q /\ p[k] = q[k]
                          /\ ~(k < n) => k + 1 \in DOMAIN q /\ p[k] = q[k + 1]
    BY <1>2 DEF IsCut
<1>8. \A k \in DOMAIN q : k # n => \/ k < n /\ k \in DOMAIN p
                                   \/ k > n /\ k - 1 \in DOMAIN p /\ k - 1 \in Nat
    BY <1>1, <1>6
<1>9. \A j, k \in DOMAIN p : p[j] = p[k] => j = k
    <2> SUFFICES ASSUME NEW j \in DOMAIN p, NEW k \in DOMAIN p, p[j] = p[k]
                 PROVE  j = k
        OBVIOUS
    <2>1. (IF j < n THEN j ELSE j + 1) = (IF k < n THEN k ELSE k + 1)
        BY <1>7 DEF OneJobEach
    <2> QED
        BY <1>1, <1>7, <2>1
<1>10. \A i : Waits(p, i) => Waits(q, i)
    BY <1>7 DEF Waits
<1>11. ~Waits(p, q[n])
    <2> SUFFICES ASSUME NEW k \in DOMAIN p, p[k] = q[n] PROVE FALSE
        BY DEF Waits
    <2>1. (IF k < n THEN k ELSE k + 1) = n
        BY <1>7 DEF OneJobEach
    <2> QED
        BY <1>1, <1>7, <2>1
<1>12. \A i : i # q[n] /\ Waits(q, i) => Waits(p, i)
    <2> SUFFICES ASSUME NEW k \in DOMAIN q, q[k] # q[n] PROVE Waits(p, q[k])
        BY DEF Waits
    <2>1. k # n
        OBVIOUS
    <2>2. CASE k < n
        BY <1>7, <1>8, <2>2 DEF Waits
    <2>3. CASE ~(k < n)
        <3>1. k - 1 \in DOMAIN p /\ ~(k - 1 < n) /\ (k - 1) + 1 = k
            BY <1>1, <1>8, <2>1, <2>3
        <3> QED
            BY <1>7, <3>1 DEF Waits
    <2> QED
        BY <2>2, <2>3
<1>13. OneJobEach(p, t)
    BY <1>9, <1>10 DEF OneJobEach
<1>14. TransferOf(p, t, q[n]) = "idle"
    <2>1. Waits(q, q[n])
        BY DEF Waits
    <2>2. \A w \in Workers : Busy(t, w) => t[w].slot # q[n]
        BY <2>1 DEF OneJobEach
    <2> QED
        BY <1>11, <1>13, <2>2, TransferCases
<1>15. \A i : i # q[n] => TransferOf(p, t, i) = TransferOf(q, t, i)
    BY <1>10, <1>12, <1>13, SameTransfer
<1> QED
    BY <1>5, <1>13, <1>14, <1>15 DEF p

--------------------------------------------------------------------------------
(* The steps of the worker pool, seen through Transfer                      *)

\* The pool is well typed and no slot has two jobs.
BackendInv == D3xxTypeOK /\ OneJobEach(jobs, worker)

\* The transfers that StreamingSystem sees.
Map == [i \in Slots |-> Transfer(i)]

\* A worker without a slot or an outcome is told from one with.
LEMMA NoneIsNoSlot == None \notin Slots /\ None \notin Outcomes
BY BufferPoolAssumption DEF Slots

\* What the typing of the pool says of a worker.
LEMMA WorkerTypes ==
    ASSUME D3xxTypeOK
    PROVE  /\ jobs \in Seq(Slots) /\ worker \in WorkerStates
           /\ \A w \in Workers : Busy(worker, w) => worker[w].slot \in Slots
           /\ \A w \in Workers : worker[w].at = "calling" => worker[w].outcome \in Outcomes
<1>1. jobs \in Seq(Slots) /\ worker \in WorkerStates
    BY DEF D3xxTypeOK, WorkerStates
<1>2. \A w \in Workers : /\ worker[w].slot \in Slots \cup {None}
                         /\ worker[w].outcome \in Outcomes \cup {None}
    BY <1>1 DEF WorkerStates
<1>3. \A w \in Workers : Busy(worker, w) => worker[w].slot \in Slots
    BY <1>2 DEF D3xxTypeOK, Busy
<1>4. \A w \in Workers : worker[w].at = "calling" => worker[w].outcome \in Outcomes
    BY <1>2 DEF D3xxTypeOK
<1> QED
    BY <1>1, <1>3, <1>4

\* The transfer of a slot, before and after a step.
LEMMA MapIs ==
    /\ \A i \in Slots : Map[i] = TransferOf(jobs, worker, i)
    /\ \A i \in Slots : Map'[i] = TransferOf(jobs', worker', i)
    /\ Map = [i \in Slots |-> Map[i]] /\ Map' = [i \in Slots |-> Map'[i]]
BY DEF Map, Transfer, TransferOf, Waits, Does, Held

\* submit_read
LEMMA SubmitJobIs ==
    ASSUME BackendInv, NEW i \in Slots, Map[i] = "idle", SubmitJob(i)
    PROVE  P!SubmitRead(i) /\ BackendInv'
<1>1. /\ CanSubmit /\ jobs' = Append(jobs, i)
      /\ worker' = worker /\ cancelRequested' = cancelRequested /\ closed' = closed
    BY DEF SubmitJob
<1>2. TransferOf(jobs, worker, i) = "idle"
    BY MapIs
<1>3. /\ jobs' \in Seq(Slots) /\ OneJobEach(jobs', worker')
      /\ \A j : TransferOf(jobs', worker', j) =
                   IF j = i THEN "pending" ELSE TransferOf(jobs, worker, j)
    BY <1>1, <1>2, WorkerTypes, JobAdded DEF BackendInv
<1>4. Map' = [Map EXCEPT ![i] = "pending"]
    BY <1>3, MapIs
<1>5. P!SubmitRead(i)
    BY <1>1, <1>4 DEF P!SubmitRead, P!Accepting, CanSubmit, Map
<1>6. BackendInv'
    BY <1>1, <1>3 DEF BackendInv, D3xxTypeOK
<1> QED
    BY <1>5, <1>6

\* A worker takes a job.
LEMMA TakeJobIs ==
    ASSUME BackendInv, NEW w \in Workers, TakeJob(w)
    PROVE  UNCHANGED P!backendVars /\ BackendInv'
<1>1. /\ worker[w].at = "free" /\ jobs # <<>> /\ jobs' = Tail(jobs)
      /\ worker' = Begun(worker, w, Head(jobs))
      /\ cancelRequested' = cancelRequested /\ closed' = closed
    BY DEF TakeJob, Begun
<1>2. /\ jobs' \in Seq(Slots) /\ Head(jobs) \in Slots
      /\ worker' \in WorkerStates /\ OneJobEach(jobs', worker')
      /\ \A j : TransferOf(jobs', worker', j) = TransferOf(jobs, worker, j)
  <2>1. jobs \in Seq(Slots) /\ worker \in WorkerStates /\ OneJobEach(jobs, worker)
      BY WorkerTypes DEF BackendInv
  <2> QED
      BY ONLY <1>1, <2>1, w \in Workers, JobTaken
<1>3. Map' = Map
    BY <1>2, MapIs
<1>4. \A v \in Workers : /\ worker'[v].at = "free" <=> worker'[v].slot = None
                         /\ worker'[v].at = "calling" => worker'[v].outcome # None
    <2>1. worker'[w].at = "reading" /\ worker'[w].slot = Head(jobs)
        BY <1>1, WorkerTypes DEF BackendInv, WorkerStates, Begun
    <2>2. \A v \in Workers : v # w => worker'[v] = worker[v]
        BY <1>1, WorkerTypes DEF BackendInv, WorkerStates, Begun
    <2> QED
        BY <1>2, <2>1, <2>2, NoneIsNoSlot DEF BackendInv, D3xxTypeOK
<1>5. BackendInv'
    BY <1>1, <1>2, <1>4 DEF BackendInv, D3xxTypeOK, WorkerStates
<1> QED
    BY <1>1, <1>3, <1>5 DEF P!backendVars, Map

\* The typing of the pool after one worker moved.
LEMMA MovedTypes ==
    ASSUME BackendInv, NEW w \in Workers, NEW state,
           worker' = [worker EXCEPT ![w] = state], UNCHANGED <<jobs, cancelRequested, closed>>,
           state \in [at : {"free", "reading", "calling", "returning"},
                      slot : Slots \cup {None}, outcome : Outcomes \cup {None}],
           state.at = "free" <=> state.slot = None,
           state.at = "calling" => state.outcome # None,
           state.at \in {"reading", "calling"} =>
               Busy(worker, w) /\ state.slot = worker[w].slot
    PROVE  /\ BackendInv' /\ worker' \in WorkerStates
           /\ \A i : i # worker[w].slot \/ ~Busy(worker, w) =>
                        TransferOf(jobs', worker', i) = TransferOf(jobs, worker, i)
           /\ Busy(worker, w) /\ state.at \notin {"reading", "calling"} =>
                 TransferOf(jobs', worker', worker[w].slot) = "idle"
           /\ Busy(worker, w) /\ state.at = "calling" =>
                 TransferOf(jobs', worker', worker[w].slot) = state.outcome
<1>1. /\ worker' \in WorkerStates /\ worker'[w] = state
      /\ \A v \in Workers : v # w => worker'[v] = worker[v]
    BY WorkerTypes DEF BackendInv, WorkerStates, Begun
<1>2. Busy(worker', w) => Busy(worker, w) /\ worker'[w].slot = worker[w].slot
    BY <1>1 DEF Busy
<1>3. /\ OneJobEach(jobs, worker')
      /\ \A i : i # worker[w].slot \/ ~Busy(worker, w) =>
                   TransferOf(jobs, worker', i) = TransferOf(jobs, worker, i)
      /\ Busy(worker, w) /\ ~Busy(worker', w) =>
            TransferOf(jobs, worker', worker[w].slot) = "idle"
      /\ Busy(worker, w) /\ worker'[w].at = "calling" =>
            TransferOf(jobs, worker', worker[w].slot) = worker'[w].outcome
  <2>1. worker \in WorkerStates /\ OneJobEach(jobs, worker)
      BY WorkerTypes DEF BackendInv
  <2> QED
      BY ONLY <1>1, <1>2, <2>1, w \in Workers, WorkerMoves
<1>4. \A v \in Workers : /\ worker'[v].at = "free" <=> worker'[v].slot = None
                         /\ worker'[v].at = "calling" => worker'[v].outcome # None
    BY <1>1 DEF BackendInv, D3xxTypeOK
<1>5. BackendInv'
    BY <1>1, <1>3, <1>4 DEF BackendInv, D3xxTypeOK, WorkerStates
<1> QED
    BY <1>1, <1>3, <1>5 DEF Busy

\* A read ends: its transfer settles, or is abandoned when the pool is cancelled.
LEMMA EndReadIs ==
    ASSUME BackendInv, NEW w \in Workers, NEW outcome \in Outcomes, EndRead(w, outcome)
    PROVE  /\ worker[w].slot \in Slots /\ BackendInv'
           /\ IF cancelRequested THEN P!Abandon(worker[w].slot)
                                 ELSE P!Settle(worker[w].slot, outcome)
<1> DEFINE i == worker[w].slot
           state == IF cancelRequested THEN FreeWorker
                    ELSE [worker[w] EXCEPT !.at = "calling", !.outcome = outcome]
<1>1. /\ worker[w].at = "reading" /\ worker' = [worker EXCEPT ![w] = state]
      /\ UNCHANGED <<jobs, cancelRequested, closed>>
    BY DEF EndRead
<1>2. worker \in WorkerStates /\ i \in Slots /\ Busy(worker, w) /\ i # None
    BY <1>1, WorkerTypes, NoneIsNoSlot DEF BackendInv, Busy
<1>3. /\ state \in [at : {"free", "reading", "calling", "returning"},
                    slot : Slots \cup {None}, outcome : Outcomes \cup {None}]
      /\ state.at = "free" <=> state.slot = None
      /\ state.at = "calling" => state.outcome # None
      /\ state.at \in {"reading", "calling"} => state.slot = i
      /\ cancelRequested => state.at = "free"
      /\ ~cancelRequested => state.at = "calling" /\ state.outcome = outcome
    <2>1. worker[w] \in [at : {"free", "reading", "calling", "returning"},
                         slot : Slots \cup {None}, outcome : Outcomes \cup {None}]
        BY <1>2 DEF WorkerStates
    <2>2. outcome # None
        BY NoneIsNoSlot
    <2>3. CASE cancelRequested
        BY <2>3 DEF FreeWorker
    <2>4. CASE ~cancelRequested
        BY <1>2, <2>1, <2>2, <2>4
    <2> QED
        BY <2>3, <2>4
<1> HIDE DEF state
<1>4. /\ BackendInv'
      /\ \A j : j # i => TransferOf(jobs', worker', j) = TransferOf(jobs, worker, j)
      /\ cancelRequested => TransferOf(jobs', worker', i) = "idle"
      /\ ~cancelRequested => TransferOf(jobs', worker', i) = outcome
    BY <1>1, <1>2, <1>3, MovedTypes
<1>5. TransferOf(jobs, worker, i) = "pending"
    BY <1>1, <1>2, WorkerTypes, TransferCases DEF BackendInv, Does
<1>6. Map[i] = "pending"
    BY <1>2, <1>5, MapIs
<1>7. Map' = [Map EXCEPT ![i] = IF cancelRequested THEN "idle" ELSE outcome]
    BY <1>2, <1>4, MapIs
<1> QED
    BY <1>1, <1>2, <1>4, <1>6, <1>7 DEF P!Abandon, P!Settle, Map

\* The callback runs: the transfer ends with the outcome of its read.
LEMMA RunCallbackIs ==
    ASSUME BackendInv, NEW w \in Workers, RunCallback(w)
    PROVE  /\ worker[w].slot \in Slots /\ BackendInv'
           /\ Map[worker[w].slot] = worker[w].outcome
           /\ P!Callback(worker[w].slot)
<1> DEFINE i == worker[w].slot
           state == [worker[w] EXCEPT !.at = "returning"]
<1>1. /\ worker[w].at = "calling" /\ worker' = [worker EXCEPT ![w] = state]
      /\ UNCHANGED <<jobs, cancelRequested, closed>>
    BY DEF RunCallback
<1>2. /\ worker \in WorkerStates /\ i \in Slots /\ Busy(worker, w) /\ i # None
      /\ worker[w].outcome \in Outcomes
    BY <1>1, WorkerTypes, NoneIsNoSlot DEF BackendInv, Busy
<1>3. /\ state \in [at : {"free", "reading", "calling", "returning"},
                    slot : Slots \cup {None}, outcome : Outcomes \cup {None}]
      /\ state.at = "returning" /\ state.slot # None
    BY <1>2 DEF WorkerStates
<1> HIDE DEF state
<1>4. /\ BackendInv'
      /\ \A j : j # i => TransferOf(jobs', worker', j) = TransferOf(jobs, worker, j)
      /\ TransferOf(jobs', worker', i) = "idle"
    BY <1>1, <1>2, <1>3, MovedTypes
<1>5. TransferOf(jobs, worker, i) = worker[w].outcome
    BY <1>1, <1>2, WorkerTypes, TransferCases DEF BackendInv, Does
<1>6. Map[i] = worker[w].outcome
    BY <1>2, <1>5, MapIs
<1>7. Map' = [Map EXCEPT ![i] = "idle"]
    BY <1>2, <1>4, MapIs
<1> QED
    BY <1>1, <1>2, <1>4, <1>6, <1>7, SameData DEF P!Callback, Map

\* The callback returns.
LEMMA ReturnIs ==
    ASSUME BackendInv, NEW w \in Workers, ReturnFromCallback(w)
    PROVE  BackendInv' /\ UNCHANGED P!backendVars
<1>1. /\ worker[w].at = "returning" /\ worker' = [worker EXCEPT ![w] = FreeWorker]
      /\ UNCHANGED <<jobs, cancelRequested, closed>>
    BY DEF ReturnFromCallback
<1>2. /\ FreeWorker \in [at : {"free", "reading", "calling", "returning"},
                         slot : Slots \cup {None}, outcome : Outcomes \cup {None}]
      /\ FreeWorker.at = "free" /\ FreeWorker.slot = None /\ ~Busy(worker, w)
    BY <1>1 DEF FreeWorker, Busy
<1>3. /\ BackendInv'
      /\ \A j : TransferOf(jobs', worker', j) = TransferOf(jobs, worker, j)
    BY <1>1, <1>2, MovedTypes
<1>4. Map' = Map
    BY <1>3, MapIs
<1> QED
    BY <1>1, <1>3, <1>4 DEF P!backendVars, Map

\* A job that no worker took is cancelled.
LEMMA CancelJobIs ==
    ASSUME BackendInv, cancelRequested, NEW k \in DOMAIN jobs, CancelJob(k)
    PROVE  jobs[k] \in Slots /\ BackendInv' /\ P!Abandon(jobs[k])
<1> DEFINE p == Without(jobs, k)
<1>1. jobs' = p /\ UNCHANGED <<worker, cancelRequested, closed>>
    BY DEF CancelJob, Without
<1>2. jobs \in Seq(Slots) /\ worker \in WorkerStates /\ OneJobEach(jobs, worker)
    BY WorkerTypes DEF BackendInv
<1>3. jobs[k] \in Slots
    BY <1>2, LenProperties, ElementOfSeq
<1>4. /\ p \in Seq(Slots) /\ OneJobEach(p, worker)
      /\ \A i : TransferOf(p, worker, i) =
                   IF i = jobs[k] THEN "idle" ELSE TransferOf(jobs, worker, i)
    BY <1>2, JobCancelled
<1> HIDE DEF p
<1>5. Map[jobs[k]] = "pending"
    <2>1. Waits(jobs, jobs[k])
        BY DEF Waits
    <2>2. TransferOf(jobs, worker, jobs[k]) = "pending"
        BY <1>2, <2>1, TransferCases
    <2> QED
        BY <1>3, <2>2, MapIs
<1>6. Map' = [Map EXCEPT ![jobs[k]] = "idle"]
    BY <1>1, <1>4, MapIs
<1>7. BackendInv'
    BY <1>1, <1>4 DEF BackendInv, D3xxTypeOK
<1> QED
    BY <1>1, <1>3, <1>5, <1>6, <1>7 DEF P!Abandon, Map

\* Without jobs and with every worker free, every transfer is idle.
LEMMA DoneIsQuiet ==
    ASSUME BackendInv, FuturesDone
    PROVE  P!Quiet
<1> SUFFICES ASSUME NEW i \in Slots PROVE Map[i] = "idle"
    BY SameData DEF P!Quiet, Map
<1>1. ~Waits(jobs, i) /\ \A w \in Workers : ~Busy(worker, w)
    BY DEF FuturesDone, Waits, Busy
<1>2. TransferOf(jobs, worker, i) = "idle"
    BY <1>1, WorkerTypes, TransferCases DEF BackendInv
<1> QED
    BY <1>2, MapIs

--------------------------------------------------------------------------------
(* The engine on the worker pool                                            *)

\* The workers between the callback's put and its count.
Returning == {w \in Workers : worker[w].at = "returning"}

\* The rest of the invariant is the one of StreamingSystem, seen through Transfer.
D3xxInv ==
    /\ D3xxStreamTypeOK
    /\ BackendInv
    /\ posted = Cardinality(Returning)
    /\ SystemInv

\* The steps of the engine that call a backend are the ones StreamingSystem composes.
LEMMA SameSteps ==
    /\ \A accepted : P!StartSlot(accepted) <=> StartSlot(accepted)
    /\ \A accepted : P!Recycle(accepted) <=> Recycle(accepted)
    /\ \A from, to : P!StopStep(from, to) <=> StopStep(from, to)
    /\ P!StopRelease <=> StopRelease
    /\ \A i, outcome : P!PostResult(i, outcome) <=> PostResult(i, outcome)
    /\ P!CountCompleted <=> CountCompleted
<1> USE DEF P!poolVars, poolVars, P!countVars, countVars, P!callerVars, callerVars
<1>1. \A pool, i, accepted : P!SubmitSlot(pool, i, accepted) <=> SubmitSlot(pool, i, accepted)
    BY DEF P!SubmitSlot, SubmitSlot
<1>2. \A accepted : P!StartSlot(accepted) <=> StartSlot(accepted)
    BY <1>1, SameData DEF P!StartSlot, StartSlot
<1>3. \A accepted : P!Recycle(accepted) <=> Recycle(accepted)
    BY <1>1, SameData DEF P!Recycle, Recycle
<1>4. \A from, to : P!StopStep(from, to) <=> StopStep(from, to)
    BY DEF P!StopStep, StopStep
<1>5. P!StopRelease <=> StopRelease
    BY SameData DEF P!StopRelease, StopRelease
<1>6. \A i, outcome : P!PostResult(i, outcome) <=> PostResult(i, outcome)
    BY SameData DEF P!PostResult, PostResult
<1>7. P!CountCompleted <=> CountCompleted
    BY DEF P!CountCompleted, CountCompleted
<1> QED
    BY <1>2, <1>3, <1>4, <1>5, <1>6, <1>7

\* The caller's steps between calls of the backend.
LEMMA AloneIs ==
    ASSUME BackendInv, UNCHANGED d3xxVars
    PROVE  UNCHANGED P!backendVars /\ BackendInv' /\ Returning' = Returning
BY DEF d3xxVars, P!backendVars, BackendInv, D3xxTypeOK, Transfer, Held, Returning,
       OneJobEach, Waits, Busy

\* A submission finds its slot without work.
LEMMA SubmitIs ==
    ASSUME D3xxInv,
           SubmitSlotRead \/ SubmitSlotRefused \/ ResubmitSlotRead \/ ResubmitSlotRefused
    PROVE  P!Next /\ BackendInv' /\ posted' = Cardinality(Returning')
<1>1. CASE SubmitSlotRead
    <2>1. cursor \in Slots /\ ~slots[cursor].in_use
        BY <1>1 DEF SubmitSlotRead, StartSlot, D3xxInv, D3xxStreamTypeOK, EngineTypeOK
    <2>2. Map[cursor] = "idle"
        BY <2>1, SameData DEF D3xxInv, SystemInv, P!OwnershipInv, P!SlotOwnership, P!InFlight, Map
    <2>3. P!SubmitRead(cursor) /\ BackendInv'
        BY <1>1, <2>1, <2>2, SubmitJobIs DEF SubmitSlotRead, D3xxInv
    <2>4. P!SubmitFirst
        BY <1>1, <2>3, SameSteps DEF SubmitSlotRead, P!SubmitFirst
    <2>5. Returning' = Returning /\ posted' = posted
        BY <1>1 DEF SubmitSlotRead, StartSlot, SubmitJob, Returning, countVars
    <2> QED
        BY <2>3, <2>4, <2>5 DEF P!Next, P!Caller, D3xxInv
<1>2. CASE ResubmitSlotRead
    <2>1. current \in RawFrameResult
        BY <1>2 DEF ResubmitSlotRead, Recycle, D3xxInv, D3xxStreamTypeOK, EngineTypeOK
    <2>2. current.slot \in Slots /\ current # None
        BY <2>1, BufferPoolAssumption DEF RawFrameResult
    <2>3. Map[current.slot] = "idle"
        BY <2>2, SameData
           DEF D3xxInv, SystemInv, P!OwnershipInv, P!SlotOwnership, P!InFlight, P!InHandSlot, Map
    <2>4. P!SubmitRead(current.slot) /\ BackendInv'
        BY <1>2, <2>2, <2>3, SubmitJobIs DEF ResubmitSlotRead, D3xxInv
    <2>5. P!Resubmit
        BY <1>2, <2>4, SameSteps DEF ResubmitSlotRead, P!Resubmit
    <2>6. Returning' = Returning /\ posted' = posted
        BY <1>2 DEF ResubmitSlotRead, Recycle, SubmitJob, Returning, countVars
    <2> QED
        BY <2>4, <2>5, <2>6 DEF P!Next, P!Caller, D3xxInv
<1>3. CASE SubmitSlotRefused \/ ResubmitSlotRefused
    <2>1. UNCHANGED P!backendVars /\ BackendInv' /\ Returning' = Returning
        BY <1>3, AloneIs DEF SubmitSlotRefused, ResubmitSlotRefused, D3xxInv
    <2>2. posted' = posted
        BY <1>3 DEF SubmitSlotRefused, ResubmitSlotRefused, StartSlot, Recycle, countVars
    <2>3. P!SubmitFirstRefused \/ P!ResubmitRefused
        BY <1>3, <2>1, SameSteps
           DEF SubmitSlotRefused, ResubmitSlotRefused, P!SubmitFirstRefused,
               P!ResubmitRefused, CanSubmit, P!Accepting
    <2> QED
        BY <2>1, <2>2, <2>3 DEF P!Next, P!Caller, D3xxInv
<1> QED
    BY <1>1, <1>2, <1>3

\* cancel_all sets its flag, then cancels the jobs no worker took; drain waits for the
\* others; release closes the handle.
LEMMA StopIs ==
    ASSUME D3xxInv, StopCancels \/ CancelFuture \/ StopDrains \/ StopReleases
    PROVE  P!Next /\ BackendInv' /\ posted' = Cardinality(Returning')
<1> USE DEF P!backendVars, Map
<1>1. CASE StopCancels
    <2>1. UNCHANGED <<jobs, worker, closed>> /\ cancelRequested' = TRUE
        BY <1>1 DEF StopCancels, RequestCancel
    <2>2. Map' = Map /\ BackendInv' /\ Returning' = Returning
        BY <2>1, MapIs DEF D3xxInv, BackendInv, D3xxTypeOK, Returning
    <2>3. P!CancelTransfers
        BY <1>1, <2>1, <2>2, SameSteps DEF StopCancels, P!CancelTransfers, P!CancelAll
    <2>4. posted' = posted
        BY <1>1 DEF StopCancels, StopStep, countVars
    <2> QED
        BY <2>2, <2>3, <2>4 DEF P!Next, P!Caller, D3xxInv
<1>2. CASE CancelFuture
    <2>1. PICK k \in DOMAIN jobs : CancelJob(k)
        BY <1>2 DEF CancelFuture
    <2>2. cancelRequested
        BY <1>2 DEF CancelFuture, D3xxInv, SystemInv, P!OwnershipInv
    <2>3. jobs[k] \in Slots /\ BackendInv' /\ P!Abandon(jobs[k])
        BY <2>1, <2>2, CancelJobIs DEF D3xxInv
    <2>4. UNCHANGED engineVars
        BY <1>2 DEF CancelFuture
    <2>5. P!ReadAbandoned(jobs[k])
        <3>1. "error" \in P!Outcomes /\ buffer' = P!Written(jobs[k], "error") /\ P!BufferOnly
            BY <2>4 DEF P!Outcomes, P!Written, P!BufferOnly, P!poolVars, P!countVars,
                        P!callerVars, engineVars, poolVars, countVars, callerVars
        <3> QED
            BY <2>3, <3>1 DEF P!ReadAbandoned
    <2>6. Returning' = Returning /\ posted' = posted
        BY <2>1, <2>4 DEF CancelJob, Returning, engineVars, countVars
    <2> QED
        BY <2>3, <2>5, <2>6, SameData DEF P!Next, P!Transfer, D3xxInv
<1>3. CASE StopDrains
    <2>1. UNCHANGED P!backendVars /\ BackendInv' /\ Returning' = Returning
        BY <1>3, AloneIs DEF StopDrains, D3xxInv
    <2>2. posted' = posted
        BY <1>3 DEF StopDrains, StopStep, countVars
    <2>3. P!Quiet
        BY <1>3, DoneIsQuiet DEF StopDrains, D3xxInv
    <2>4. posted = 0
        <3>1. Returning = {}
            BY <1>3 DEF StopDrains, FuturesDone, Returning
        <3> QED
            BY <3>1, FS_EmptySet DEF D3xxInv
    <2>5. P!DrainTransfers
        BY <1>3, <2>1, <2>3, <2>4, SameSteps DEF StopDrains, P!DrainTransfers, P!Drained
    <2> QED
        BY <2>1, <2>2, <2>5 DEF P!Next, P!Caller, D3xxInv
<1>4. CASE StopReleases
    <2>1. UNCHANGED <<jobs, worker>> /\ cancelRequested' = TRUE /\ closed' = TRUE
        BY <1>4 DEF StopReleases, CloseHandle
    <2>2. Map' = Map /\ BackendInv' /\ Returning' = Returning
        BY <2>1, MapIs DEF D3xxInv, BackendInv, D3xxTypeOK, Returning
    <2>3. P!FinishStop
        BY <1>4, <2>1, <2>2, SameSteps DEF StopReleases, P!FinishStop, P!ReleaseBackend
    <2>4. posted' = posted
        BY <1>4 DEF StopReleases, StopRelease, countVars
    <2> QED
        BY <2>2, <2>3, <2>4 DEF P!Next, P!Caller, D3xxInv
<1> QED
    BY <1>1, <1>2, <1>3, <1>4

\* What a worker does is what the backend's threads do to a transfer, or nothing.
LEMMA WorkerIs ==
    ASSUME D3xxInv, NEW w \in Workers, WorkerThread(w)
    PROVE  [P!Next]_(P!vars) /\ BackendInv' /\ posted' = Cardinality(Returning')
<1>0. /\ IsFiniteSet(Returning) /\ Cardinality(Returning) \in Nat
      /\ worker \in WorkerStates /\ posted = Cardinality(Returning)
    <2>1. IsFiniteSet(Workers)
        BY FS_Interval, MaxWorkersAssumption DEF Workers
    <2>2. IsFiniteSet(Returning)
        BY <2>1, FS_Subset DEF Returning
    <2> QED
        BY <2>2, FS_CardinalityType, WorkerTypes DEF D3xxInv, BackendInv
<1>1. CASE WorkerTakesJob(w)
    <2>1. UNCHANGED P!backendVars /\ BackendInv' /\ UNCHANGED engineVars
        BY <1>1, TakeJobIs DEF WorkerTakesJob, D3xxInv
    <2>2. UNCHANGED P!vars /\ posted' = posted
        BY <2>1 DEF P!vars, P!engineVars, engineVars, P!poolVars, poolVars, P!countVars,
                    countVars, P!callerVars, callerVars
    <2>3. Returning' = Returning
        <3>1. worker[w].at = "free" /\ worker'[w].at = "reading"
            BY <1>0, <1>1 DEF WorkerTakesJob, TakeJob, WorkerStates
        <3>2. \A v \in Workers : v # w => worker'[v] = worker[v]
            BY <1>0, <1>1 DEF WorkerTakesJob, TakeJob, WorkerStates
        <3> QED
            BY <3>1, <3>2 DEF Returning
    <2> QED
        BY <1>0, <2>1, <2>2, <2>3
<1>2. CASE WorkerEndsRead(w)
    <2> PICK outcome \in Outcomes :
            /\ EndRead(w, outcome)
            /\ buffer' = IF outcome = "error" THEN buffer
                         ELSE [buffer EXCEPT ![worker[w].slot] = slots[worker[w].slot].sequence]
            /\ UNCHANGED <<running, poolVars, completionQueue, outputQueue, countVars,
                           callerVars>>
        BY <1>2 DEF WorkerEndsRead
    <2> DEFINE i == worker[w].slot
    <2>1. /\ i \in Slots /\ BackendInv'
          /\ IF cancelRequested THEN P!Abandon(i) ELSE P!Settle(i, outcome)
        BY EndReadIs DEF D3xxInv
    <2>2. buffer' = P!Written(i, outcome) /\ P!BufferOnly
        BY DEF P!Written, P!BufferOnly, P!poolVars, poolVars, P!countVars, countVars,
               P!callerVars, callerVars
    <2>3. P!ReadSettles(i) \/ P!ReadAbandoned(i)
        BY <2>1, <2>2, SameData DEF P!ReadSettles, P!ReadAbandoned
    <2>4. Returning' = Returning /\ posted' = posted
        <3>1. worker[w].at = "reading" /\ worker'[w].at # "returning"
            BY <1>0 DEF EndRead, WorkerStates, FreeWorker
        <3>2. \A v \in Workers : v # w => worker'[v] = worker[v]
            BY <1>0 DEF EndRead, WorkerStates
        <3>3. posted' = posted
            BY DEF countVars
        <3> QED
            BY <3>1, <3>2, <3>3 DEF Returning
    <2> QED
        BY <1>0, <2>1, <2>3, <2>4, SameData DEF P!Next, P!Transfer
<1>3. CASE WorkerCallsBack(w)
    <2> DEFINE i == worker[w].slot
    <2>1. /\ i \in Slots /\ BackendInv' /\ P!Callback(i) /\ Map[i] = worker[w].outcome
        BY <1>3, RunCallbackIs DEF WorkerCallsBack, D3xxInv
    <2>2. P!PostResult(i, Map[i])
        BY <1>3, <2>1, SameSteps DEF WorkerCallsBack
    <2>3. P!Complete(i)
        BY <2>1, <2>2 DEF P!Complete, Map
    <2>4. Len(completionQueue) < RawSlots
        <3>1. P!InFlight(i) /\ i \in P!Slots /\ P!SlotOwnership /\ P!TypeOK
            BY <2>1, SameData DEF P!InFlight, P!Callback, P!Outcomes, D3xxInv, SystemInv,
                                P!OwnershipInv
        <3> QED
            BY <3>1, SystemRoom
    <2>5. posted' = posted + 1
        <3>1. Len(completionQueue) \in Nat
            BY LenProperties DEF D3xxInv, D3xxStreamTypeOK, EngineTypeOK
        <3>2. ~(Len(completionQueue) >= RawSlots)
            BY <2>4, <3>1, BufferPoolAssumption
        <3> QED
            BY <1>3, <3>2 DEF WorkerCallsBack, PostResult
    <2>6. Returning' = Returning \cup {w} /\ w \notin Returning
        <3>1. worker[w].at = "calling" /\ worker'[w].at = "returning"
            BY <1>0, <1>3 DEF WorkerCallsBack, RunCallback, WorkerStates
        <3>2. \A v \in Workers : v # w => worker'[v] = worker[v]
            BY <1>0, <1>3 DEF WorkerCallsBack, RunCallback, WorkerStates
        <3> QED
            BY <3>1, <3>2 DEF Returning
    <2>7. posted' = Cardinality(Returning')
        BY <1>0, <2>5, <2>6, FS_AddElement
    <2> QED
        BY <2>1, <2>3, <2>7, SameData DEF P!Next, P!Transfer
<1>4. CASE WorkerReturns(w)
    <2>1. BackendInv' /\ UNCHANGED P!backendVars
        BY <1>4, ReturnIs DEF WorkerReturns, D3xxInv
    <2>2. P!CompletionCounted
        BY <1>4, <2>1, SameSteps DEF WorkerReturns, P!CompletionCounted
    <2>3. posted' = posted - 1
        BY <1>4 DEF WorkerReturns, CountCompleted
    <2>4. Returning' = Returning \ {w} /\ w \in Returning
        <3>1. worker[w].at = "returning" /\ worker'[w].at = "free"
            BY <1>0, <1>4 DEF WorkerReturns, ReturnFromCallback, WorkerStates, FreeWorker
        <3>2. \A v \in Workers : v # w => worker'[v] = worker[v]
            BY <1>0, <1>4 DEF WorkerReturns, ReturnFromCallback, WorkerStates
        <3> QED
            BY <3>1, <3>2 DEF Returning
    <2>5. posted' = Cardinality(Returning')
        BY <1>0, <2>3, <2>4, FS_RemoveElement
    <2> QED
        BY <2>1, <2>2, <2>5 DEF P!Next
<1> QED
    BY <1>1, <1>2, <1>3, <1>4 DEF WorkerThread

\* Initially no job exists, which is the initial state of StreamingSystem.
LEMMA D3xxInvInit == D3xxStreamInit => P!Init /\ D3xxInv
<1> SUFFICES ASSUME D3xxStreamInit PROVE P!Init /\ D3xxInv
    OBVIOUS
<1>1. EngineInit /\ D3xxInit
    BY DEF D3xxStreamInit
<1>2. BackendInv
    <2>1. jobs = <<>> /\ worker = [w \in Workers |-> FreeWorker]
        BY <1>1 DEF D3xxInit
    <2>2. \A w \in Workers : worker[w] = FreeWorker
        BY <2>1
    <2>3. jobs \in Seq(Slots) /\ DOMAIN jobs = {}
        BY <2>1
    <2>4. D3xxTypeOK
        <3>1. FreeWorker \in [at : {"free", "reading", "calling", "returning"},
                              slot : Slots \cup {None}, outcome : Outcomes \cup {None}]
            BY DEF FreeWorker
        <3>2. \A w \in Workers : worker[w].at = "free" /\ worker[w].slot = None
            BY <2>2 DEF FreeWorker
        <3>3. cancelRequested \in BOOLEAN /\ closed \in BOOLEAN
            BY <1>1 DEF D3xxInit
        <3> QED
            BY <2>1, <2>3, <3>1, <3>2, <3>3 DEF D3xxTypeOK
    <2>5. OneJobEach(jobs, worker)
        BY <2>2, <2>3 DEF OneJobEach, Busy, FreeWorker
    <2> QED
        BY <2>4, <2>5 DEF BackendInv
<1>3. Returning = {} /\ posted = 0
    BY <1>1 DEF D3xxInit, EngineInit, Returning, FreeWorker
<1>4. FuturesDone
    BY <1>1 DEF D3xxInit, FuturesDone, FreeWorker
<1>5. \A i \in Slots : Map[i] = "idle"
    BY <1>2, <1>4, DoneIsQuiet, SameData DEF P!Quiet, Map
<1>6. Map = [i \in Slots |-> "idle"]
    BY <1>5, MapIs
<1>7. P!Init
    BY <1>1, <1>6, SameInit, SameData DEF P!Init, P!BackendInit, D3xxInit, Map
<1>8. SystemInv
    BY <1>7, SystemInit
<1>9. D3xxStreamTypeOK
    BY <1>2, <1>8, SameTypes DEF D3xxStreamTypeOK, BackendInv, SystemInv, P!TypeOK
<1> QED
    BY <1>2, <1>3, <1>7, <1>8, <1>9, FS_EmptySet DEF D3xxInv

\* Every step is a step of StreamingSystem or leaves it alone, and keeps the invariant.
LEMMA D3xxStep ==
    ASSUME D3xxInv, [D3xxStreamNext]_allVars
    PROVE  [P!Next]_(P!vars) /\ D3xxInv'
<1>1. [P!Next]_(P!vars) /\ BackendInv' /\ posted' = Cardinality(Returning')
    <2>1. CASE EngineAlone
        <3>1. UNCHANGED P!backendVars /\ BackendInv' /\ Returning' = Returning
            BY <2>1, AloneIs DEF EngineAlone, D3xxInv
        <3>2. P!CallerAlone
            BY <2>1, <3>1, SameCaller DEF EngineAlone, P!CallerAlone
        <3>3. posted' = posted
            BY <2>1 DEF EngineAlone, CallerStep, Start, StartSlotInUse, CountSubmitted,
                   TakeResult, UsbError, ShortRead, DecodeFrame, DecodeFails, DecoderRaises,
                   Discard, RecycleStopped, TakeFrame, Stop, StartAgain, StopAgain,
                   engineVars, countVars
        <3> QED
            BY <3>1, <3>2, <3>3 DEF P!Next, P!Caller, D3xxInv
    <2>2. CASE UNCHANGED allVars
        <3>1. UNCHANGED P!backendVars /\ BackendInv' /\ Returning' = Returning
            BY <2>2, AloneIs DEF allVars, D3xxInv
        <3>2. UNCHANGED P!vars /\ posted' = posted
            BY <2>2, <3>1 DEF allVars, P!vars, P!engineVars, engineVars, P!poolVars, poolVars,
                          P!countVars, countVars, P!callerVars, callerVars
        <3> QED
            BY <3>1, <3>2 DEF D3xxInv
    <2> QED
        BY <2>1, <2>2, SubmitIs, StopIs, WorkerIs DEF D3xxStreamNext, CallerThread
<1>2. SystemInv'
    BY <1>1, SystemNext DEF D3xxInv
<1>3. D3xxStreamTypeOK'
    BY <1>1, <1>2, SameTypes DEF D3xxStreamTypeOK, BackendInv, SystemInv, P!TypeOK
<1> QED
    BY <1>1, <1>2, <1>3 DEF D3xxInv

\* The worker backend keeps the AsyncTransferBackend protocol: the engine on it does
\* what StreamingSystem says it may.
THEOREM WorkersKeepTheProtocol == D3xxStreamSpec => P!Init /\ [][P!Next]_(P!vars)
<1>1. D3xxStreamInit => P!Init /\ D3xxInv
    BY D3xxInvInit
<1>2. D3xxInv /\ [D3xxStreamNext]_allVars => D3xxInv'
    BY D3xxStep
<1>3. D3xxInv /\ [D3xxStreamNext]_allVars => [P!Next]_(P!vars)
    BY D3xxStep
<1> QED
    BY <1>1, <1>2, <1>3, PTL DEF D3xxStreamSpec

\* The engine and the worker pool keep their types.
THEOREM D3xxStreamTypes == D3xxStreamSpec => []D3xxStreamTypeOK
<1>1. D3xxInv /\ [D3xxStreamNext]_allVars => D3xxInv'
    BY D3xxStep
<1>2. D3xxInv => D3xxStreamTypeOK
    BY DEF D3xxInv
<1>3. D3xxStreamInit => D3xxInv
    BY D3xxInvInit
<1> QED
    BY <1>1, <1>2, <1>3, PTL DEF D3xxStreamSpec

\* What is proved of the engine on any backend holds of it on the worker pool; this
\* pool shuts down without raising, so a stop() with nothing to do has a closed handle.
THEOREM D3xxStreamIsSafe ==
    D3xxStreamSpec =>
        [](/\ P!SlotOwnership /\ P!QueueHasRoom /\ P!FrameIntegrity /\ P!ClosedWhenQuiet
           /\ P!NoDuplicateRead /\ P!StatsConservation /\ P!NoOpStopIsClosed)
<1>1. D3xxInv /\ [D3xxStreamNext]_allVars => D3xxInv'
    BY D3xxStep
<1>2. D3xxStreamInit => D3xxInv
    BY D3xxInvInit
<1>3. D3xxInv =>
          /\ P!SlotOwnership /\ P!QueueHasRoom /\ P!FrameIntegrity /\ P!ClosedWhenQuiet
          /\ P!NoDuplicateRead /\ P!StatsConservation /\ P!NoOpStopIsClosed
    <2> SUFFICES ASSUME D3xxInv
                 PROVE  /\ P!SlotOwnership /\ P!QueueHasRoom /\ P!FrameIntegrity
                        /\ P!ClosedWhenQuiet /\ P!NoDuplicateRead /\ P!StatsConservation
                        /\ P!NoOpStopIsClosed
        OBVIOUS
    <2>1. /\ P!TypeOK /\ P!OwnershipInv /\ P!BytesInv
          /\ P!NumbersInv /\ P!Accounts /\ P!StopInv
        BY DEF D3xxInv, SystemInv
    <2>2. P!SlotOwnership /\ P!FrameIntegrity /\ P!ClosedWhenQuiet
        BY <2>1 DEF P!OwnershipInv, P!BytesInv
    <2>3. P!QueueHasRoom
        BY <2>1, <2>2, SystemRoom DEF P!QueueHasRoom, P!InFlight, P!Outcomes
    <2>4. P!NoDuplicateRead
        BY <2>1, SystemAssumptions, P!NumbersAreDistinct DEF P!NumbersAreDistinct
    <2>5. P!StatsConservation
        BY <2>1, SystemAssumptions, P!AccountsAreConservation DEF P!AccountsAreConservation
    <2>6. P!NoOpStopIsClosed
        BY <2>1 DEF P!StopInv, P!NoOpStopIsClosed
    <2> QED
        BY <2>2, <2>3, <2>4, <2>5, <2>6
<1> QED
    BY <1>1, <1>2, <1>3, PTL DEF D3xxStreamSpec

\* On the worker pool the program sees what FrameStream promises: reads outstanding at once
\* up to RawSlots, each found at most once, decoded in the order found, a frame of its own
\* bytes for each at most.
THEOREM WorkersKeepThePromises ==
    D3xxStreamSpec => P!Stream!StreamInit /\ [][P!Stream!StreamNext]_(P!Stream!streamVars)
<1>1. D3xxInv /\ [D3xxStreamNext]_allVars => D3xxInv'
    BY D3xxStep
<1>2. D3xxStreamInit => D3xxInv
    BY D3xxInvInit
<1>3. D3xxStreamInit => P!Stream!StreamInit
    BY SystemAssumptions, D3xxInvInit, P!PromisesInit DEF P!PromisesInit
<1>4. D3xxInv /\ D3xxInv' /\ [D3xxStreamNext]_allVars
          => [P!Stream!StreamNext]_(P!Stream!streamVars)
    <2> SUFFICES ASSUME D3xxInv, D3xxInv', [D3xxStreamNext]_allVars
                 PROVE  [P!Stream!StreamNext]_(P!Stream!streamVars)
        OBVIOUS
    <2>1. [P!Next]_(P!vars)
        BY D3xxStep
    <2>2. P!IndInv /\ P!NumbersInv
        BY DEF D3xxInv, SystemInv, P!IndInv
    <2>3. (P!IndInv)'
        BY DEF D3xxInv, SystemInv, P!IndInv
    <2> QED
        BY <2>1, <2>2, <2>3, SystemAssumptions, P!PromisesNext
           DEF P!PromisesNext, P!Promised
<1> QED
    BY <1>1, <1>2, <1>3, <1>4, PTL DEF D3xxStreamSpec

--------------------------------------------------------------------------------
(* The order of the frames, with a single worker                            *)

\* Numbers below others; a queue whose numbers rise.
Below(A, B) == \A a \in A, b \in B : a < b
Rising(q) == \A j, k \in DOMAIN q : j < k => q[j].sequence < q[k].sequence

\* The numbers of the read the worker is at and of the jobs that wait.
AtWorker == IF Busy(worker, 1) THEN {slots[worker[1].slot].sequence} ELSE {}
AtJobs == {slots[jobs[k]].sequence : k \in DOMAIN jobs}

\* The numbers of the jobs that wait rise.
RisingJobs ==
    \A j, k \in DOMAIN jobs : j < k => slots[jobs[j]].sequence < slots[jobs[k]].sequence

\* Everything at an earlier place of the pipeline is below everything at a later one.
Ordered(decoded, hand, done, reading, waiting) ==
    /\ Below(decoded, hand) /\ Below(decoded, done)
    /\ Below(decoded, reading) /\ Below(decoded, waiting)
    /\ Below(hand, done) /\ Below(hand, reading) /\ Below(hand, waiting)
    /\ Below(done, reading) /\ Below(done, waiting)
    /\ Below(reading, waiting)

\* Numbers rise within each place of the pipeline, and from one place to the next.
OrderInv ==
    /\ Rising(outputQueue) /\ Rising(completionQueue) /\ RisingJobs
    /\ Ordered(P!Numbers(outputQueue), P!Hand, P!Numbers(completionQueue), AtWorker, AtJobs)

\* A number above all those of a queue may follow them.
LEMMA AppendRising ==
    ASSUME NEW S, NEW q \in Seq(S), NEW e \in S, Rising(q),
           Below(P!Numbers(q), {e.sequence})
    PROVE  /\ Rising(Append(q, e))
           /\ P!Numbers(Append(q, e)) = P!Numbers(q) \cup {e.sequence}
<1> DEFINE p == Append(q, e)
<1>1. /\ p \in Seq(S) /\ Len(p) = Len(q) + 1 /\ Len(q) \in Nat
      /\ \A k \in 1 .. Len(q) : p[k] = q[k]
      /\ p[Len(q) + 1] = e
    BY AppendProperties, LenProperties
<1>2. DOMAIN q = 1 .. Len(q) /\ DOMAIN p = 1 .. Len(q) + 1
    BY <1>1, LenProperties
<1> HIDE DEF p
<1>3. \A k \in DOMAIN p : k \in DOMAIN q \/ k = Len(q) + 1
    BY <1>1, <1>2
<1>4. /\ \A k \in DOMAIN q : k \in DOMAIN p /\ p[k] = q[k] /\ k \in Nat /\ k < Len(q) + 1
      /\ Len(q) + 1 \in DOMAIN p
    BY <1>1, <1>2
<1>5. p[Len(q) + 1] = e
    BY <1>1
<1>6. P!Numbers(p) = P!Numbers(q) \cup {e.sequence}
    BY <1>3, <1>4, <1>5 DEF P!Numbers
<1>7. Rising(p)
    <2> SUFFICES ASSUME NEW j \in DOMAIN p, NEW k \in DOMAIN p, j < k
                 PROVE  p[j].sequence < p[k].sequence
        BY DEF Rising
    <2>1. j \in DOMAIN q
        BY <1>1, <1>3, <1>4
    <2>2. CASE k \in DOMAIN q
        BY <1>4, <2>1, <2>2 DEF Rising
    <2>3. CASE k = Len(q) + 1
        BY <1>4, <1>5, <2>1, <2>3 DEF Below, P!Numbers
    <2> QED
        BY <1>3, <2>2, <2>3
<1> QED
    BY <1>6, <1>7 DEF p

\* Taking the oldest element takes the lowest number.
LEMMA TailRising ==
    ASSUME NEW S, NEW q \in Seq(S), q # <<>>, Rising(q)
    PROVE  /\ Rising(Tail(q))
           /\ Head(q).sequence \in P!Numbers(q)
           /\ P!Numbers(Tail(q)) \subseteq P!Numbers(q)
           /\ Below({Head(q).sequence}, P!Numbers(Tail(q)))
<1>1. /\ Tail(q) \in Seq(S) /\ Len(Tail(q)) = Len(q) - 1 /\ Len(q) \in Nat \ {0}
      /\ Head(q) = q[1]
      /\ \A k \in 1 .. Len(Tail(q)) : Tail(q)[k] = q[k + 1]
    BY HeadTailProperties, EmptySeq
<1>2. DOMAIN q = 1 .. Len(q) /\ DOMAIN Tail(q) = 1 .. Len(q) - 1
    BY <1>1, LenProperties
<1>3. /\ 1 \in DOMAIN q
      /\ \A k \in DOMAIN Tail(q) : /\ k \in Nat /\ 1 < k + 1
                                   /\ Tail(q)[k] = q[k + 1] /\ k + 1 \in DOMAIN q
    BY <1>1, <1>2
<1>4. Head(q).sequence \in P!Numbers(q) /\ P!Numbers(Tail(q)) \subseteq P!Numbers(q)
    BY <1>1, <1>3 DEF P!Numbers
<1>5. Rising(Tail(q))
    <2> SUFFICES ASSUME NEW j \in DOMAIN Tail(q), NEW k \in DOMAIN Tail(q), j < k
                 PROVE  Tail(q)[j].sequence < Tail(q)[k].sequence
        BY DEF Rising
    <2>1. j + 1 < k + 1
        BY <1>3
    <2> QED
        BY <1>3, <2>1 DEF Rising
<1>6. Below({Head(q).sequence}, P!Numbers(Tail(q)))
    BY <1>1, <1>3 DEF Below, P!Numbers, Rising
<1> QED
    BY <1>4, <1>5, <1>6

\* A decoded frame follows the ones that wait, whatever is dropped for it.
LEMMA PutFrameRising ==
    ASSUME NEW q \in Seq(Frame), NEW frame \in Frame, Rising(q),
           Below(P!Numbers(q), {frame.sequence})
    PROVE  /\ Rising(PutFrame(q, frame))
           /\ P!Numbers(PutFrame(q, frame)) \subseteq P!Numbers(q) \cup {frame.sequence}
<1>1. Full(q) => q # <<>>
    BY FrameQueueAssumption DEF Full
<1>2. /\ Rising(Append(q, frame))
      /\ P!Numbers(Append(q, frame)) = P!Numbers(q) \cup {frame.sequence}
    BY AppendRising
<1>3. ASSUME q # <<>>
      PROVE  /\ Rising(Append(Tail(q), frame))
             /\ P!Numbers(Append(Tail(q), frame)) \subseteq P!Numbers(q) \cup {frame.sequence}
    <2> DEFINE rest == Tail(q)
    <2>1. /\ rest \in Seq(Frame) /\ Rising(rest)
          /\ P!Numbers(rest) \subseteq P!Numbers(q)
        BY <1>3, HeadTailProperties, TailRising
    <2> HIDE DEF rest
    <2>2. Below(P!Numbers(rest), {frame.sequence})
        BY <2>1 DEF Below
    <2>3. /\ Rising(Append(rest, frame))
          /\ P!Numbers(Append(rest, frame)) = P!Numbers(rest) \cup {frame.sequence}
        BY <2>1, <2>2, AppendRising
    <2> QED
        BY <2>1, <2>3 DEF rest
<1> QED
    BY <1>1, <1>2, <1>3 DEF PutFrame

\* The jobs and the worker only hold slots in flight.
LEMMA HeldIsFlying ==
    ASSUME D3xxInv
    PROVE  /\ \A k \in DOMAIN jobs : jobs[k] \in Slots /\ Map[jobs[k]] # "idle"
           /\ \A w \in Workers : Busy(worker, w) =>
                 worker[w].slot \in Slots /\ Map[worker[w].slot] # "idle"
           /\ \A k \in DOMAIN jobs : slots[jobs[k]].sequence \in P!Flying
           /\ \A w \in Workers : Busy(worker, w) => slots[worker[w].slot].sequence \in P!Flying
           /\ \A n \in P!Flying : n \in Nat /\ n < nextSequence
<1>1. jobs \in Seq(Slots) /\ worker \in WorkerStates /\ OneJobEach(jobs, worker)
    BY WorkerTypes DEF D3xxInv, BackendInv
<1>2. \A w \in Workers : worker[w].at = "calling" => worker[w].outcome \in Outcomes
    BY WorkerTypes DEF D3xxInv, BackendInv
<1>3. \A k \in DOMAIN jobs : jobs[k] \in Slots /\ Map[jobs[k]] # "idle"
    <2> SUFFICES ASSUME NEW k \in DOMAIN jobs
                 PROVE  jobs[k] \in Slots /\ Map[jobs[k]] # "idle"
        OBVIOUS
    <2>1. jobs[k] \in Slots
        BY <1>1, LenProperties, ElementOfSeq
    <2>2. Waits(jobs, jobs[k])
        BY DEF Waits
    <2> QED
        BY <1>1, <1>2, <2>1, <2>2, IdleIsFree, MapIs
<1>4. \A w \in Workers : Busy(worker, w) =>
          worker[w].slot \in Slots /\ Map[worker[w].slot] # "idle"
    <2> SUFFICES ASSUME NEW w \in Workers, Busy(worker, w)
                 PROVE  worker[w].slot \in Slots /\ Map[worker[w].slot] # "idle"
        OBVIOUS
    <2>1. worker[w].slot \in Slots
        BY WorkerTypes DEF D3xxInv, BackendInv
    <2> QED
        BY <1>1, <1>2, <2>1, IdleIsFree, MapIs
<1>5. \A i \in Slots : Map[i] # "idle" => slots[i].sequence \in P!Flying
    BY SameData DEF P!Flying, P!Flights, P!InFlight, Map
<1>6. \A n \in P!Flying : n \in Nat /\ n < nextSequence
    BY DEF D3xxInv, SystemInv, P!NumbersInv
<1> QED
    BY <1>3, <1>4, <1>5, <1>6

\* No read exists before the first submission.
LEMMA OrderInit == D3xxStreamInit => OrderInv
<1> SUFFICES ASSUME D3xxStreamInit PROVE OrderInv
    OBVIOUS
<1>1. /\ outputQueue = <<>> /\ completionQueue = <<>> /\ jobs = <<>> /\ pc = "idle"
    BY DEF D3xxStreamInit, EngineInit, D3xxInit
<1>2. DOMAIN outputQueue = {} /\ DOMAIN completionQueue = {} /\ DOMAIN jobs = {}
    BY <1>1
<1>3. P!Numbers(outputQueue) = {} /\ P!Numbers(completionQueue) = {} /\ AtJobs = {}
    BY <1>2 DEF P!Numbers, AtJobs
<1>4. P!Hand = {}
    BY <1>1 DEF P!Hand
<1> QED
    BY <1>2, <1>3, <1>4 DEF OrderInv, Ordered, Below, Rising, RisingJobs

\* A slot that is being recycled has no job.
LEMMA RecyclingIsIdle ==
    ASSUME D3xxInv, pc = "recycling"
    PROVE  current.slot \in Slots /\ Map[current.slot] = "idle"
<1>1. current \in RawFrameResult /\ current # None
    BY BufferPoolAssumption DEF D3xxInv, D3xxStreamTypeOK, EngineTypeOK
<1>2. current.slot \in Slots
    BY <1>1 DEF RawFrameResult
<1> QED
    BY <1>1, <1>2, SameData
       DEF D3xxInv, SystemInv, P!OwnershipInv, P!SlotOwnership, P!InFlight, P!InHandSlot, Map

\* A step that keeps the numbers of the reads in flight keeps those of the backend.
LEMMA JobsKept ==
    ASSUME D3xxInv, UNCHANGED <<jobs, worker>>,
           \A i \in Slots : Map[i] # "idle" => slots'[i].sequence = slots[i].sequence
    PROVE  AtWorker' = AtWorker /\ AtJobs' = AtJobs /\ (RisingJobs => RisingJobs')
<1>1. \A k \in DOMAIN jobs : slots'[jobs[k]].sequence = slots[jobs[k]].sequence
    BY HeldIsFlying
<1>2. AtJobs' = AtJobs /\ (RisingJobs => RisingJobs')
    BY <1>1 DEF AtJobs, RisingJobs
<1>3. 1 \in Workers
    BY MaxWorkersAssumption DEF Workers
<1>4. Busy(worker, 1) => slots'[worker[1].slot].sequence = slots[worker[1].slot].sequence
    BY <1>3, HeldIsFlying
<1>5. AtWorker' = AtWorker
    BY <1>4 DEF AtWorker, Busy
<1> QED
    BY <1>2, <1>5

\* A step that only takes numbers away keeps the order.
LEMMA OrderFrame ==
    ASSUME OrderInv, Rising(outputQueue'), Rising(completionQueue'), RisingJobs',
           P!Numbers(outputQueue') \subseteq P!Numbers(outputQueue),
           P!Hand' \subseteq P!Hand,
           P!Numbers(completionQueue') \subseteq P!Numbers(completionQueue),
           AtWorker' \subseteq AtWorker, AtJobs' \subseteq AtJobs
    PROVE  OrderInv'
<1>1. P!Numbers(outputQueue)' = P!Numbers(outputQueue')
      /\ P!Numbers(completionQueue)' = P!Numbers(completionQueue')
    BY DEF P!Numbers
<1>2. Rising(outputQueue)' /\ Rising(completionQueue)'
    BY DEF Rising
<1>3. Ordered(P!Numbers(outputQueue'), P!Hand', P!Numbers(completionQueue'), AtWorker', AtJobs')
    BY DEF OrderInv, Ordered, Below
<1> QED
    BY <1>1, <1>2, <1>3 DEF OrderInv, Ordered, Below

\* The caller's steps between calls of the backend.
LEMMA OrderCaller ==
    ASSUME D3xxInv, OrderInv, EngineAlone
    PROVE  OrderInv'
<1> USE DEF poolVars, countVars, callerVars
<1>0. /\ outputQueue \in Seq(Frame) /\ completionQueue \in Seq(RawFrameResult)
      /\ buffer \in [Slots -> Nat \cup {None}]
      /\ pc = "decoding" => current \in RawFrameResult
      /\ pc = "recycling" => current \in RawFrameResult
    BY DEF D3xxInv, D3xxStreamTypeOK, EngineTypeOK
<1>1. jobs' = jobs /\ worker' = worker
    BY DEF EngineAlone, d3xxVars
<1>2. CASE slots' = slots
  <2>0. AtWorker' = AtWorker /\ AtJobs' = AtJobs /\ RisingJobs'
      BY <1>1, <1>2, JobsKept DEF OrderInv
  <2>1. CASE TakeResult
    <3>1. /\ completionQueue # <<>> /\ completionQueue' = Tail(completionQueue)
          /\ current' = Head(completionQueue) /\ pc' = "decoding"
          /\ outputQueue' = outputQueue
        BY <2>1 DEF TakeResult
    <3>2. /\ Rising(completionQueue')
          /\ Head(completionQueue).sequence \in P!Numbers(completionQueue)
          /\ P!Numbers(completionQueue') \subseteq P!Numbers(completionQueue)
          /\ Below({Head(completionQueue).sequence}, P!Numbers(completionQueue'))
        BY <1>0, <3>1, TailRising DEF OrderInv
    <3>3. P!Hand' = {Head(completionQueue).sequence}
        BY <3>1 DEF P!Hand
    <3>4. Ordered(P!Numbers(outputQueue), P!Hand', P!Numbers(completionQueue'),
                  AtWorker', AtJobs')
        BY <2>0, <3>2, <3>3 DEF OrderInv, Ordered, Below
    <3>5. P!Numbers(outputQueue)' = P!Numbers(outputQueue)
          /\ P!Numbers(completionQueue)' = P!Numbers(completionQueue')
        BY <3>1 DEF P!Numbers
    <3> QED
        BY <2>0, <3>1, <3>2, <3>4, <3>5 DEF OrderInv, Rising
  <2>2. CASE DecodeFrame
    <3> DEFINE frame == [sequence |-> current.sequence, data |-> buffer[current.slot]]
    <3>1. /\ pc = "decoding" /\ pc' = "recycling" /\ completionQueue' = completionQueue
          /\ outputQueue' = PutFrame(outputQueue, frame)
        BY <2>2 DEF DecodeFrame, InHand
    <3>2. frame \in Frame /\ frame.sequence = current.sequence
        BY <1>0, <3>1 DEF Frame, RawFrameResult
    <3> HIDE DEF frame
    <3>3. P!Hand = {frame.sequence} /\ P!Hand' = {}
        BY <3>1, <3>2 DEF P!Hand
    <3>4. /\ Rising(outputQueue')
          /\ P!Numbers(outputQueue') \subseteq P!Numbers(outputQueue) \cup P!Hand
        BY <1>0, <3>1, <3>2, <3>3, PutFrameRising DEF OrderInv, Ordered
    <3>5. Ordered(P!Numbers(outputQueue'), P!Hand', P!Numbers(completionQueue),
                  AtWorker', AtJobs')
        BY <2>0, <3>3, <3>4 DEF OrderInv, Ordered, Below
    <3>6. P!Numbers(outputQueue)' = P!Numbers(outputQueue')
          /\ P!Numbers(completionQueue)' = P!Numbers(completionQueue)
        BY <3>1 DEF P!Numbers
    <3> QED
        BY <2>0, <3>1, <3>4, <3>5, <3>6 DEF OrderInv, Rising
  <2>3. CASE TakeFrame
    <3>1. /\ outputQueue # <<>> /\ outputQueue' = Tail(outputQueue)
          /\ completionQueue' = completionQueue /\ P!Hand' = P!Hand
        BY <2>3 DEF TakeFrame, P!Hand
    <3>2. Rising(outputQueue') /\ P!Numbers(outputQueue') \subseteq P!Numbers(outputQueue)
        BY <1>0, <3>1, TailRising DEF OrderInv
    <3> QED
        BY <2>0, <3>1, <3>2, OrderFrame DEF OrderInv
  <2>4. CASE ~(TakeResult \/ DecodeFrame \/ TakeFrame)
    <3>1. /\ outputQueue' = outputQueue /\ completionQueue' = completionQueue
          /\ P!Hand' \subseteq P!Hand
        BY <2>4 DEF EngineAlone, CallerStep, Start, StartSlotInUse, CountSubmitted, UsbError,
             ShortRead, DecodeFails, DecoderRaises, Discard, InHand, RecycleStopped, Stop,
             StartAgain, StopAgain, engineVars, P!Hand
    <3> QED
        BY <2>0, <3>1, OrderFrame DEF OrderInv
  <2> QED
      BY <2>1, <2>2, <2>3, <2>4
<1>3. CASE slots' # slots
  <2>1. RecycleStopped
      BY <1>3 DEF EngineAlone, CallerStep, Start, StartSlotInUse, CountSubmitted, TakeResult,
             UsbError, ShortRead, DecodeFrame, DecodeFails, DecoderRaises, Discard, TakeFrame,
             Stop, StartAgain, StopAgain, engineVars
  <2>2. /\ pc = "recycling" /\ pc' = "idle" /\ slots' = Release(slots, current.slot)
        /\ outputQueue' = outputQueue /\ completionQueue' = completionQueue
      BY <2>1 DEF RecycleStopped
  <2>3. Map[current.slot] = "idle"
      BY <1>0, <2>2, RecyclingIsIdle
  <2>4. \A i \in Slots : Map[i] # "idle" => slots'[i].sequence = slots[i].sequence
      BY <2>2, <2>3 DEF Release, D3xxInv, D3xxStreamTypeOK, EngineTypeOK
  <2>5. AtWorker' = AtWorker /\ AtJobs' = AtJobs /\ RisingJobs'
      BY <1>1, <2>4, JobsKept DEF OrderInv
  <2>6. P!Hand' = {}
      BY <2>2 DEF P!Hand
  <2> QED
      BY <2>2, <2>5, <2>6, OrderFrame DEF OrderInv
<1> QED
    BY <1>2, <1>3

\* A submission puts a number behind all the others, a refusal puts none.
LEMMA OrderSubmit ==
    ASSUME D3xxInv, OrderInv,
           SubmitSlotRead \/ SubmitSlotRefused \/ ResubmitSlotRead \/ ResubmitSlotRefused
    PROVE  OrderInv'
<1> USE DEF poolVars, countVars, callerVars
<1> DEFINE Submits(i) ==
        /\ i \in Slots /\ Map[i] = "idle" /\ worker' = worker
        /\ \A j \in Slots : j # i => slots'[j].sequence = slots[j].sequence
        /\ slots'[i].sequence = nextSequence
        /\ UNCHANGED <<outputQueue, completionQueue>>
        /\ pc # "decoding" /\ pc' # "decoding"
<1>1. /\ jobs \in Seq(Slots) /\ Len(jobs) \in Nat /\ DOMAIN jobs = 1 .. Len(jobs)
      /\ slots \in [Slots -> RawFrameSlot]
    BY WorkerTypes, LenProperties DEF D3xxInv, BackendInv, D3xxStreamTypeOK, EngineTypeOK
<1>2. \E i : Submits(i) /\ (jobs' = jobs \/ jobs' = Append(jobs, i))
  <2>1. CASE SubmitSlotRead \/ SubmitSlotRefused
    <3>1. PICK accepted \in BOOLEAN : StartSlot(accepted)
        BY <2>1 DEF SubmitSlotRead, SubmitSlotRefused
    <3>2. /\ cursor \in Slots /\ ~slots[cursor].in_use
          /\ slots' = [Checkout(slots, cursor) EXCEPT ![cursor].sequence = nextSequence]
          /\ UNCHANGED <<outputQueue, completionQueue>>
          /\ pc = "starting" /\ pc' # "decoding"
        BY <3>1 DEF StartSlot, SubmitSlot, D3xxInv, D3xxStreamTypeOK, EngineTypeOK
    <3>3. Map[cursor] = "idle"
        BY <3>2, SameData
           DEF D3xxInv, SystemInv, P!OwnershipInv, P!SlotOwnership, P!InFlight, Map
    <3>4. /\ \A j \in Slots : j # cursor => slots'[j].sequence = slots[j].sequence
          /\ slots'[cursor].sequence = nextSequence
        BY <1>1, <3>2 DEF Checkout, RawFrameSlot
    <3>5. worker' = worker /\ (jobs' = jobs \/ jobs' = Append(jobs, cursor))
        BY <2>1 DEF SubmitSlotRead, SubmitSlotRefused, SubmitJob, d3xxVars
    <3> QED
        BY <3>2, <3>3, <3>4, <3>5
  <2>2. CASE ResubmitSlotRead \/ ResubmitSlotRefused
    <3> DEFINE i == current.slot
    <3>1. PICK accepted \in BOOLEAN : Recycle(accepted)
        BY <2>2 DEF ResubmitSlotRead, ResubmitSlotRefused
    <3>2. /\ slots' = [Checkout(Release(slots, i), i) EXCEPT ![i].sequence = nextSequence]
          /\ UNCHANGED <<outputQueue, completionQueue>>
          /\ pc = "recycling" /\ pc' # "decoding"
        BY <3>1 DEF Recycle, SubmitSlot
    <3>3. i \in Slots /\ Map[i] = "idle"
        BY <3>2, RecyclingIsIdle
    <3>4. /\ \A j \in Slots : j # i => slots'[j].sequence = slots[j].sequence
          /\ slots'[i].sequence = nextSequence
        BY <1>1, <3>2, <3>3 DEF Checkout, Release, RawFrameSlot, FreeSlot
    <3>5. worker' = worker /\ (jobs' = jobs \/ jobs' = Append(jobs, i))
        BY <2>2 DEF ResubmitSlotRead, ResubmitSlotRefused, SubmitJob, d3xxVars
    <3> QED
        BY <3>2, <3>3, <3>4, <3>5
  <2> QED
      BY <2>1, <2>2
<1>3. PICK i : Submits(i) /\ (jobs' = jobs \/ jobs' = Append(jobs, i))
    BY <1>2
<1>4. P!Hand = {} /\ P!Hand' = {}
    BY <1>3 DEF P!Hand
<1>5. CASE jobs' = jobs
  <2>1. AtWorker' = AtWorker /\ AtJobs' = AtJobs /\ RisingJobs'
      BY <1>3, <1>5, JobsKept DEF OrderInv
  <2> QED
      BY <1>3, <1>4, <2>1, OrderFrame DEF OrderInv
<1>6. CASE jobs' = Append(jobs, i)
  <2>1. /\ \A k \in DOMAIN jobs : jobs[k] \in Slots /\ slots'[jobs[k]].sequence = slots[jobs[k]].sequence
        /\ \A k \in DOMAIN jobs : slots[jobs[k]].sequence \in P!Flying
      BY <1>3, HeldIsFlying
  <2>2. /\ DOMAIN jobs' = 1 .. Len(jobs) + 1 /\ jobs'[Len(jobs) + 1] = i
        /\ \A k \in 1 .. Len(jobs) : jobs'[k] = jobs[k]
      BY <1>1, <1>3, <1>6, AppendProperties, LenProperties
  <2>3. /\ \A k \in DOMAIN jobs' : k \in DOMAIN jobs \/ k = Len(jobs) + 1
        /\ \A k \in DOMAIN jobs : k \in DOMAIN jobs' /\ jobs'[k] = jobs[k]
                                  /\ k \in Nat /\ k < Len(jobs) + 1
        /\ Len(jobs) + 1 \in DOMAIN jobs'
      BY <1>1, <2>2
  <2>4. AtJobs' = AtJobs \cup {nextSequence}
    <3>1. \A k \in DOMAIN jobs : slots'[jobs'[k]].sequence = slots[jobs[k]].sequence
        BY <2>1, <2>3
    <3>2. slots'[jobs'[Len(jobs) + 1]].sequence = nextSequence
        BY <1>3, <2>2
    <3>3. AtJobs' = {slots'[jobs'[k]].sequence : k \in DOMAIN jobs'}
        BY DEF AtJobs
    <3> QED
        BY <2>3, <3>1, <3>2, <3>3 DEF AtJobs
  <2>5. RisingJobs'
    <3> SUFFICES ASSUME NEW j \in DOMAIN jobs', NEW k \in DOMAIN jobs', j < k
                 PROVE  slots'[jobs'[j]].sequence < slots'[jobs'[k]].sequence
        BY DEF RisingJobs
    <3>1. j \in DOMAIN jobs
        BY <1>1, <2>3
    <3>2. CASE k \in DOMAIN jobs
        BY <2>1, <2>3, <3>1, <3>2 DEF OrderInv, RisingJobs
    <3>3. CASE k = Len(jobs) + 1
      <4>1. slots'[jobs'[k]].sequence = nextSequence
          BY <1>3, <2>2, <3>3
      <4>2. slots'[jobs'[j]].sequence \in P!Flying
          BY <2>1, <2>3, <3>1
      <4> QED
          BY <4>1, <4>2, HeldIsFlying
    <3> QED
        BY <2>3, <3>2, <3>3
  <2>6. AtWorker' = AtWorker
    <3>1. 1 \in Workers
        BY MaxWorkersAssumption DEF Workers
    <3>2. Busy(worker, 1) => slots'[worker[1].slot].sequence = slots[worker[1].slot].sequence
        BY <1>3, <3>1, HeldIsFlying
    <3> QED
        BY <1>3, <3>2 DEF AtWorker, Busy
  <2>7. \A n \in P!Numbers(outputQueue) \cup P!Numbers(completionQueue) \cup AtWorker :
            n < nextSequence
    <3>1. \A n \in AtWorker : n \in P!Flying
        BY HeldIsFlying, MaxWorkersAssumption DEF AtWorker, Workers
    <3> QED
        BY <3>1 DEF D3xxInv, SystemInv, P!NumbersInv
  <2>8. Ordered(P!Numbers(outputQueue), P!Hand', P!Numbers(completionQueue), AtWorker', AtJobs')
      BY <1>4, <2>4, <2>6, <2>7 DEF OrderInv, Ordered, Below
  <2>9. P!Numbers(outputQueue)' = P!Numbers(outputQueue)
        /\ P!Numbers(completionQueue)' = P!Numbers(completionQueue)
      BY <1>3 DEF P!Numbers
  <2> QED
      BY <1>3, <2>5, <2>8, <2>9 DEF OrderInv, Rising
<1> QED
    BY <1>3, <1>5, <1>6

\* stop() cancels jobs and then finds none; it keeps the order of the rest.
LEMMA OrderStop ==
    ASSUME D3xxInv, OrderInv, StopCancels \/ CancelFuture \/ StopDrains \/ StopReleases
    PROVE  OrderInv'
<1> USE DEF poolVars, countVars, callerVars
<1>1. CASE StopCancels \/ StopDrains
  <2>1. /\ UNCHANGED <<jobs, worker, slots, outputQueue, completionQueue>>
        /\ pc' # "decoding"
      BY <1>1 DEF StopCancels, StopDrains, StopStep, RequestCancel, d3xxVars
  <2>2. AtWorker' = AtWorker /\ AtJobs' = AtJobs /\ RisingJobs' /\ P!Hand' = {}
      BY <2>1, JobsKept DEF OrderInv, P!Hand
  <2> QED
      BY <2>1, <2>2, OrderFrame DEF OrderInv
<1>2. CASE CancelFuture
  <2>1. PICK n \in DOMAIN jobs : CancelJob(n)
      BY <1>2 DEF CancelFuture
  <2>2. /\ UNCHANGED <<worker, slots, outputQueue, completionQueue, pc, current>>
        /\ jobs' = Without(jobs, n)
      BY <1>2, <2>1 DEF CancelFuture, CancelJob, engineVars, Without
  <2>3. jobs \in Seq(Slots)
      BY WorkerTypes DEF D3xxInv, BackendInv
  <2>4. \A k \in DOMAIN jobs' : /\ k \in Nat
                                /\ k < n => k \in DOMAIN jobs /\ jobs'[k] = jobs[k]
                                /\ ~(k < n) => k + 1 \in DOMAIN jobs /\ jobs'[k] = jobs[k + 1]
    <3>1. IsCut(jobs, n, jobs')
        BY <2>2, <2>3, CutOut
    <3> QED
        BY <3>1 DEF IsCut
  <2>5. AtJobs' \subseteq AtJobs
    <3>1. AtJobs' = {slots[jobs'[k]].sequence : k \in DOMAIN jobs'}
        BY <2>2 DEF AtJobs
    <3> QED
        BY <2>4, <3>1 DEF AtJobs
  <2>6. RisingJobs'
    <3> SUFFICES ASSUME NEW j \in DOMAIN jobs', NEW k \in DOMAIN jobs', j < k
                 PROVE  slots[jobs'[j]].sequence < slots[jobs'[k]].sequence
        BY <2>2 DEF RisingJobs
    <3> DEFINE a == IF j < n THEN j ELSE j + 1
               b == IF k < n THEN k ELSE k + 1
    <3>1. /\ a \in DOMAIN jobs /\ jobs'[j] = jobs[a]
          /\ b \in DOMAIN jobs /\ jobs'[k] = jobs[b]
        BY <2>4
    <3>2. a < b
      <4>1. j \in Nat /\ k \in Nat /\ n \in Nat
          BY <2>3, <2>4, LenProperties
      <4> QED
          BY <4>1
    <3> QED
        BY <3>1, <3>2 DEF OrderInv, RisingJobs
  <2>7. AtWorker' = AtWorker /\ P!Hand' = P!Hand
      BY <2>2 DEF AtWorker, Busy, P!Hand
  <2> QED
      BY <2>2, <2>5, <2>6, <2>7, OrderFrame DEF OrderInv
<1>3. CASE StopReleases
  <2>1. /\ UNCHANGED <<jobs, worker, outputQueue, completionQueue>> /\ pc' = "idle"
        /\ jobs = <<>> /\ \A w \in Workers : worker[w].at = "free"
      BY <1>3 DEF StopReleases, StopRelease, CloseHandle, FuturesDone
  <2>2. ~Busy(worker, 1) /\ ~Busy(worker', 1) /\ DOMAIN jobs' = {}
      BY <2>1, MaxWorkersAssumption DEF Busy, Workers
  <2>3. AtWorker' = {} /\ AtJobs' = {} /\ RisingJobs' /\ P!Hand' = {}
      BY <2>1, <2>2 DEF AtWorker, AtJobs, RisingJobs, P!Hand, Busy
  <2> QED
      BY <2>1, <2>3, OrderFrame DEF OrderInv
<1> QED
    BY <1>1, <1>2, <1>3

\* The worker takes the oldest job, ends the read it is at, posts its result and returns.
LEMMA OrderWorker ==
    ASSUME MaxWorkers = 1, D3xxInv, OrderInv, NEW w \in Workers, WorkerThread(w)
    PROVE  OrderInv'
<1> USE DEF poolVars, countVars, callerVars
<1>0. /\ w = 1 /\ worker \in WorkerStates /\ jobs \in Seq(Slots)
      /\ completionQueue \in Seq(RawFrameResult) /\ slots \in [Slots -> RawFrameSlot]
    BY WorkerTypes DEF Workers, D3xxInv, BackendInv, D3xxStreamTypeOK, EngineTypeOK
<1>1. CASE WorkerTakesJob(w)
  <2>1. /\ worker[1].at = "free" /\ jobs # <<>> /\ jobs' = Tail(jobs)
        /\ worker'[1].at = "reading" /\ worker'[1].slot = Head(jobs)
        /\ UNCHANGED <<slots, outputQueue, completionQueue, pc, current>>
      BY <1>0, <1>1 DEF WorkerTakesJob, TakeJob, engineVars, WorkerStates
  <2>2. /\ Head(jobs) = jobs[1] /\ 1 \in DOMAIN jobs
        /\ \A k \in DOMAIN jobs' : /\ k \in Nat /\ 1 < k + 1
                                   /\ jobs'[k] = jobs[k + 1] /\ k + 1 \in DOMAIN jobs
    <3>1. /\ jobs' \in Seq(Slots) /\ Len(jobs') = Len(jobs) - 1 /\ Len(jobs) \in Nat \ {0}
          /\ Head(jobs) = jobs[1]
          /\ \A k \in 1 .. Len(jobs') : jobs'[k] = jobs[k + 1]
        BY <1>0, <2>1, HeadTailProperties, EmptySeq
    <3>2. DOMAIN jobs = 1 .. Len(jobs) /\ DOMAIN jobs' = 1 .. Len(jobs) - 1
        BY <1>0, <3>1, LenProperties
    <3> QED
        BY <3>1, <3>2
  <2>3. AtWorker = {} /\ AtWorker' = {slots[jobs[1]].sequence}
      BY <2>1, <2>2 DEF AtWorker, Busy
  <2>4. AtJobs' = {slots[jobs[k + 1]].sequence : k \in DOMAIN jobs'}
      BY <2>1, <2>2 DEF AtJobs
  <2>5. AtJobs' \subseteq AtJobs /\ AtWorker' \subseteq AtJobs
      BY <2>2, <2>3, <2>4 DEF AtJobs
  <2>6. Below(AtWorker', AtJobs')
      BY <2>2, <2>3, <2>4 DEF OrderInv, RisingJobs, Below
  <2>7. RisingJobs'
    <3> SUFFICES ASSUME NEW j \in DOMAIN jobs', NEW k \in DOMAIN jobs', j < k
                 PROVE  slots[jobs'[j]].sequence < slots[jobs'[k]].sequence
        BY <2>1 DEF RisingJobs
    <3>1. j + 1 < k + 1
        BY <2>2
    <3> QED
        BY <2>2, <3>1 DEF OrderInv, RisingJobs
  <2>8. Ordered(P!Numbers(outputQueue), P!Hand, P!Numbers(completionQueue), AtWorker', AtJobs')
      BY <2>5, <2>6 DEF OrderInv, Ordered, Below
  <2>9. /\ P!Numbers(outputQueue)' = P!Numbers(outputQueue)
        /\ P!Numbers(completionQueue)' = P!Numbers(completionQueue)
        /\ P!Hand' = P!Hand
      BY <2>1 DEF P!Numbers, P!Hand
  <2> QED
      BY <2>1, <2>7, <2>8, <2>9 DEF OrderInv, Rising
<1>2. CASE WorkerEndsRead(w)
  <2>1. /\ worker[1].at = "reading" /\ jobs' = jobs
        /\ Busy(worker', 1) => worker'[1].slot = worker[1].slot
        /\ UNCHANGED <<slots, outputQueue, completionQueue, pc, current>>
      BY <1>0, <1>2 DEF WorkerEndsRead, EndRead, FreeWorker, Busy, WorkerStates
  <2>2. AtWorker' \subseteq AtWorker
      BY <2>1 DEF AtWorker, Busy
  <2>3. AtJobs' = AtJobs /\ RisingJobs' /\ P!Hand' = P!Hand
      BY <2>1 DEF AtJobs, RisingJobs, OrderInv, P!Hand
  <2> QED
      BY <2>1, <2>2, <2>3, OrderFrame DEF OrderInv
<1>3. CASE WorkerCallsBack(w)
  <2> DEFINE i == worker[1].slot
             result == [slot |-> i, outcome |-> worker[1].outcome,
                        sequence |-> slots[i].sequence]
  <2>1. /\ worker[1].at = "calling" /\ worker'[1].at = "returning" /\ jobs' = jobs
        /\ PostResult(i, worker[1].outcome)
      BY <1>0, <1>3 DEF WorkerCallsBack, RunCallback, WorkerStates
  <2>2. /\ i \in Slots /\ P!InFlight(i) /\ worker[1].outcome \in Outcomes
    <3>1. i \in Slots /\ Map[i] # "idle"
        BY <1>0, <2>1, HeldIsFlying DEF Busy
    <3>2. worker[1].outcome \in Outcomes
        BY <1>0, <2>1, WorkerTypes DEF D3xxInv, BackendInv
    <3> QED
        BY <3>1, <3>2 DEF P!InFlight, Map
  <2>3. slots[i].sequence \in Nat
      BY <1>0, <2>1, HeldIsFlying DEF Busy
  <2>4. ~(Len(completionQueue) >= RawSlots)
    <3>1. Len(completionQueue) < RawSlots
        BY <2>2, SystemRoom, SameData DEF D3xxInv, SystemInv, P!OwnershipInv
    <3>2. Len(completionQueue) \in Nat
        BY <1>0, LenProperties
    <3> QED
        BY <3>1, <3>2, BufferPoolAssumption
  <2>5. /\ completionQueue' = Append(completionQueue, result)
        /\ UNCHANGED <<slots, outputQueue, pc, current>>
    <3>1. slots[i].sequence # None
        BY <2>3, BufferPoolAssumption
    <3> QED
        BY <2>1, <2>4, <3>1 DEF PostResult
  <2>6. result \in RawFrameResult /\ result.sequence = slots[i].sequence
      BY <2>2, <2>3 DEF RawFrameResult
  <2> HIDE DEF result
  <2>7. AtWorker = {result.sequence} /\ AtWorker' = {}
      BY <2>1, <2>6 DEF AtWorker, Busy
  <2>8. /\ Rising(completionQueue')
        /\ P!Numbers(completionQueue') = P!Numbers(completionQueue) \cup AtWorker
    <3>1. /\ Rising(completionQueue)
          /\ Below(P!Numbers(completionQueue), {result.sequence})
        BY <2>7 DEF OrderInv, Ordered
    <3>2. completionQueue \in Seq(RawFrameResult)
        BY <1>0
    <3>3. completionQueue' = Append(completionQueue, result)
        BY <2>5
    <3> QED
        BY ONLY <2>6, <2>7, <3>1, <3>2, <3>3, AppendRising
  <2>9. AtJobs' = AtJobs /\ RisingJobs'
      BY <2>1, <2>5 DEF AtJobs, RisingJobs, OrderInv
  <2>10. Ordered(P!Numbers(outputQueue), P!Hand, P!Numbers(completionQueue'),
                 AtWorker', AtJobs')
      BY <2>7, <2>8, <2>9 DEF OrderInv, Ordered, Below
  <2>11. /\ P!Numbers(outputQueue)' = P!Numbers(outputQueue)
         /\ P!Numbers(completionQueue)' = P!Numbers(completionQueue')
         /\ P!Hand' = P!Hand
      BY <2>5 DEF P!Numbers, P!Hand
  <2> QED
      BY <2>5, <2>8, <2>9, <2>10, <2>11 DEF OrderInv, Rising
<1>4. CASE WorkerReturns(w)
  <2>1. /\ worker[1].at = "returning" /\ worker'[1].at = "free" /\ jobs' = jobs
        /\ UNCHANGED <<slots, outputQueue, completionQueue, pc, current>>
      BY <1>0, <1>4 DEF WorkerReturns, ReturnFromCallback, CountCompleted, FreeWorker,
                        WorkerStates
  <2>2. AtWorker' = {} /\ AtJobs' = AtJobs /\ RisingJobs' /\ P!Hand' = P!Hand
      BY <2>1 DEF AtWorker, Busy, AtJobs, RisingJobs, OrderInv, P!Hand
  <2> QED
      BY <2>1, <2>2, OrderFrame DEF OrderInv
<1> QED
    BY <1>1, <1>2, <1>3, <1>4 DEF WorkerThread

\* Every step of the pool of one worker keeps the order.
LEMMA OrderNext ==
    ASSUME MaxWorkers = 1, D3xxInv, OrderInv, [D3xxStreamNext]_allVars
    PROVE  OrderInv'
<1>1. CASE UNCHANGED allVars
  <2>1. UNCHANGED <<slots, jobs, worker, outputQueue, completionQueue, pc, current>>
      BY <1>1 DEF allVars, engineVars, d3xxVars, poolVars, callerVars
  <2>2. AtWorker' = AtWorker /\ AtJobs' = AtJobs /\ RisingJobs' /\ P!Hand' = P!Hand
      BY <2>1, JobsKept DEF OrderInv, P!Hand
  <2> QED
      BY <2>1, <2>2, OrderFrame DEF OrderInv
<1> QED
    BY <1>1, OrderCaller, OrderSubmit, OrderStop, OrderWorker DEF D3xxStreamNext, CallerThread

\* Rising sequences of numbers, the first below the second, rise as one.
LEMMA ConcatRising ==
    ASSUME NEW a \in Seq(Nat), NEW b \in Seq(Nat), NEW A, NEW B,
           \A j, k \in DOMAIN a : j < k => a[j] < a[k],
           \A j, k \in DOMAIN b : j < k => b[j] < b[k],
           \A k \in DOMAIN a : a[k] \in A,
           \A k \in DOMAIN b : b[k] \in B,
           Below(A, B)
    PROVE  /\ a \o b \in Seq(Nat)
           /\ \A j, k \in DOMAIN (a \o b) : j < k => (a \o b)[j] < (a \o b)[k]
           /\ \A k \in DOMAIN (a \o b) : (a \o b)[k] \in A \cup B
<1> DEFINE c == a \o b
<1>1. /\ c \in Seq(Nat) /\ Len(c) = Len(a) + Len(b)
      /\ \A k \in 1 .. Len(a) + Len(b) : c[k] = IF k <= Len(a) THEN a[k] ELSE b[k - Len(a)]
    BY ConcatProperties
<1>2. /\ Len(a) \in Nat /\ Len(b) \in Nat
      /\ DOMAIN a = 1 .. Len(a) /\ DOMAIN b = 1 .. Len(b)
      /\ DOMAIN c = 1 .. Len(a) + Len(b)
    BY <1>1, LenProperties
<1> HIDE DEF c
<1>3. \A k \in DOMAIN c :
         /\ k \in Nat
         /\ k <= Len(a) => k \in DOMAIN a /\ c[k] = a[k]
         /\ ~(k <= Len(a)) => k - Len(a) \in DOMAIN b /\ c[k] = b[k - Len(a)]
    BY <1>1, <1>2
<1>4. \A j, k \in DOMAIN c : j < k => c[j] < c[k]
    <2> SUFFICES ASSUME NEW j \in DOMAIN c, NEW k \in DOMAIN c, j < k
                 PROVE  c[j] < c[k]
        OBVIOUS
    <2>1. CASE k <= Len(a)
        BY <1>2, <1>3, <2>1
    <2>2. CASE j <= Len(a) /\ ~(k <= Len(a))
        BY <1>3, <2>2 DEF Below
    <2>3. CASE ~(j <= Len(a)) /\ ~(k <= Len(a))
        <3>1. j - Len(a) < k - Len(a)
            BY <1>2, <1>3
        <3> QED
            BY <1>3, <2>3, <3>1
    <2> QED
        BY <1>2, <1>3, <2>1, <2>2, <2>3
<1>5. \A k \in DOMAIN c : c[k] \in A \cup B
    BY <1>3
<1> QED
    BY <1>1, <1>4, <1>5 DEF c

\* The numbers of a rising queue are a rising sequence of naturals.
LEMMA NumbersRise ==
    ASSUME NEW S, NEW q \in Seq(S), Rising(q), \A n \in P!Numbers(q) : n \in Nat
    PROVE  LET numbers == [k \in DOMAIN q |-> q[k].sequence]
           IN  /\ numbers \in Seq(Nat)
               /\ \A j, k \in DOMAIN numbers : j < k => numbers[j] < numbers[k]
               /\ \A k \in DOMAIN numbers : numbers[k] \in P!Numbers(q)
<1> DEFINE numbers == [k \in DOMAIN q |-> q[k].sequence]
<1>1. DOMAIN q = 1 .. Len(q) /\ Len(q) \in Nat
    BY LenProperties
<1>2. \A k \in DOMAIN q : q[k].sequence \in P!Numbers(q)
    BY DEF P!Numbers
<1>3. numbers \in [1 .. Len(q) -> Nat]
    BY <1>1, <1>2
<1> QED
    BY <1>1, <1>2, <1>3 DEF Rising

\* The places of the pipeline, end to end, are the line that InOrder is about.
LEMMA OrderIsInOrder == MaxWorkers = 1 /\ D3xxInv /\ OrderInv => InOrder
<1> SUFFICES ASSUME MaxWorkers = 1, D3xxInv, OrderInv PROVE InOrder
    OBVIOUS
<1> DEFINE decoded == [k \in DOMAIN outputQueue |-> outputQueue[k].sequence]
           done == [k \in DOMAIN completionQueue |-> completionQueue[k].sequence]
           inHand == IF pc = "decoding" THEN <<current.sequence>> ELSE <<>>
           inWorker == IF worker[1].at \in {"reading", "calling"}
                       THEN <<slots[Held(1)].sequence>> ELSE <<>>
           waiting == [k \in DOMAIN jobs |-> slots[jobs[k]].sequence]
<1>1. /\ outputQueue \in Seq(Frame) /\ completionQueue \in Seq(RawFrameResult)
      /\ jobs \in Seq(Slots)
    BY WorkerTypes DEF D3xxInv, BackendInv, D3xxStreamTypeOK, EngineTypeOK
<1>2. \A n \in P!Numbers(outputQueue) \cup P!Numbers(completionQueue) \cup P!Hand
               \cup P!Flying : n \in Nat
    BY DEF D3xxInv, SystemInv, P!NumbersInv
<1>3. /\ decoded \in Seq(Nat)
      /\ \A j, k \in DOMAIN decoded : j < k => decoded[j] < decoded[k]
      /\ \A k \in DOMAIN decoded : decoded[k] \in P!Numbers(outputQueue)
    BY <1>1, <1>2, NumbersRise DEF OrderInv
<1>4. /\ done \in Seq(Nat)
      /\ \A j, k \in DOMAIN done : j < k => done[j] < done[k]
      /\ \A k \in DOMAIN done : done[k] \in P!Numbers(completionQueue)
    BY <1>1, <1>2, NumbersRise DEF OrderInv
<1>5. /\ inHand \in Seq(Nat)
      /\ \A j, k \in DOMAIN inHand : j = k
      /\ \A k \in DOMAIN inHand : inHand[k] \in P!Hand
  <2>1. CASE pc = "decoding"
    <3>1. current.sequence \in Nat /\ P!Hand = {current.sequence}
        BY <1>2, <2>1 DEF P!Hand
    <3> QED
        BY <2>1, <3>1
  <2>2. CASE pc # "decoding"
      BY <2>2
  <2> QED
      BY <2>1, <2>2
<1>6. /\ inWorker \in Seq(Nat)
      /\ \A j, k \in DOMAIN inWorker : j = k
      /\ \A k \in DOMAIN inWorker : inWorker[k] \in AtWorker
  <2>1. CASE Busy(worker, 1)
    <3>1. 1 \in Workers
        BY MaxWorkersAssumption DEF Workers
    <3>2. slots[Held(1)].sequence \in Nat /\ AtWorker = {slots[Held(1)].sequence}
        BY <2>1, <3>1, HeldIsFlying DEF AtWorker, Held
    <3>3. inWorker = <<slots[Held(1)].sequence>>
        BY <2>1 DEF Busy
    <3> QED
        BY <3>2, <3>3
  <2>2. CASE ~Busy(worker, 1)
    <3>1. inWorker = <<>>
        BY <2>2 DEF Busy
    <3> QED
        BY <3>1
  <2> QED
      BY <2>1, <2>2
<1>7. /\ waiting \in Seq(Nat)
      /\ \A j, k \in DOMAIN waiting : j < k => waiting[j] < waiting[k]
      /\ \A k \in DOMAIN waiting : waiting[k] \in AtJobs
  <2>1. DOMAIN jobs = 1 .. Len(jobs) /\ Len(jobs) \in Nat
      BY <1>1, LenProperties
  <2>2. \A k \in DOMAIN jobs : slots[jobs[k]].sequence \in Nat
      BY HeldIsFlying
  <2>3. waiting \in [1 .. Len(jobs) -> Nat]
      BY <2>1, <2>2
  <2> QED
      BY <2>1, <2>3 DEF OrderInv, RisingJobs, AtJobs
<1>8. /\ \A j, k \in DOMAIN inHand : j < k => inHand[j] < inHand[k]
      /\ \A j, k \in DOMAIN inWorker : j < k => inWorker[j] < inWorker[k]
  <2>1. ASSUME NEW s \in Seq(Nat), \A j, k \in DOMAIN s : j = k
        PROVE  \A j, k \in DOMAIN s : j < k => s[j] < s[k]
    <3>1. \A k \in DOMAIN s : k \in Nat
        BY LenProperties
    <3> QED
        BY <2>1, <3>1
  <2> QED
      BY <1>5, <1>6, <2>1
<1> HIDE DEF decoded, done, inHand, inWorker, waiting
<1> DEFINE O == P!Numbers(outputQueue)
           C == P!Numbers(completionQueue)
           upToHand == decoded \o inHand
           upToDone == upToHand \o done
           upToWorker == upToDone \o inWorker
           line == upToWorker \o waiting
<1>9. /\ Below(O, P!Hand) /\ Below(O \cup P!Hand, C)
      /\ Below(O \cup P!Hand \cup C, AtWorker)
      /\ Below(O \cup P!Hand \cup C \cup AtWorker, AtJobs)
    BY DEF OrderInv, Ordered, Below
<1> HIDE DEF O, C
<1>10. /\ \A k \in DOMAIN decoded : decoded[k] \in O
       /\ \A k \in DOMAIN done : done[k] \in C
    BY <1>3, <1>4 DEF O, C
<1>11. /\ upToHand \in Seq(Nat)
       /\ \A j, k \in DOMAIN upToHand : j < k => upToHand[j] < upToHand[k]
       /\ \A k \in DOMAIN upToHand : upToHand[k] \in O \cup P!Hand
    BY <1>3, <1>5, <1>8, <1>9, <1>10, ConcatRising
<1> HIDE DEF upToHand
<1>12. /\ upToDone \in Seq(Nat)
       /\ \A j, k \in DOMAIN upToDone : j < k => upToDone[j] < upToDone[k]
       /\ \A k \in DOMAIN upToDone : upToDone[k] \in O \cup P!Hand \cup C
    BY <1>4, <1>9, <1>10, <1>11, ConcatRising
<1> HIDE DEF upToDone
<1>13. /\ upToWorker \in Seq(Nat)
       /\ \A j, k \in DOMAIN upToWorker : j < k => upToWorker[j] < upToWorker[k]
       /\ \A k \in DOMAIN upToWorker : upToWorker[k] \in O \cup P!Hand \cup C \cup AtWorker
    BY <1>6, <1>8, <1>9, <1>12, ConcatRising
<1> HIDE DEF upToWorker
<1>14. \A j, k \in DOMAIN line : j < k => line[j] < line[k]
    BY <1>7, <1>9, <1>13, ConcatRising
<1> QED
    BY <1>14 DEF InOrder, line, upToWorker, upToDone, upToHand, decoded, inHand, done,
                 inWorker, waiting

\* With the single worker that _open_d3xx_engine builds the pool with, reads go through
\* the pipeline in the order of their submission: the newest queued frame is the latest.
THEOREM FramesInOrder ==
    ASSUME MaxWorkers = 1
    PROVE  D3xxStreamSpec => []InOrder
<1>1. D3xxStreamInit => D3xxInv /\ OrderInv
    BY D3xxInvInit, OrderInit
<1>2. D3xxInv /\ OrderInv /\ [D3xxStreamNext]_allVars => D3xxInv' /\ OrderInv'
    BY D3xxStep, OrderNext
<1>3. D3xxInv /\ OrderInv => InOrder
    BY OrderIsInOrder
<1> QED
    BY <1>1, <1>2, <1>3, PTL DEF D3xxStreamSpec
================================================================================
