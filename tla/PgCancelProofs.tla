--------------------------- MODULE PgCancelProofs ---------------------------
(***************************************************************************)
(* Proofs about PgCancel, for every number of queries, every capacity and  *)
(* every concurrency: the cancellation slots are accounted for.            *)
(*                                                                         *)
(* SlotsAccounted is nearly inductive.  What it lacks is that a query has  *)
(* no job while somebody still waits for it (OneJobEach): without it, the  *)
(* drop of a guard could overwrite a job that holds a slot.                *)
(* CancelsOnlyAbandoned also needs that a query is completed or refused     *)
(* before its caller has the result, and that a job about to send was      *)
(* found incomplete.                                                       *)
(***************************************************************************)
EXTENDS PgCancel, FiniteSetTheorems, TLAPS

\* The jobs at one of the places S.
JobsAt(j, S) == {q \in Queries : j[q] \in S}

\* A query that is waited for has no job yet: each is dropped once.
OneJobEach == \A q \in Queries : caller[q] \in {"new", "waiting"} => job[q] = "none"

\* A query that returned is complete or was refused, and only one that is
\* abandoned or refused gets to send.
ReturnedIsComplete ==
  \A q \in Queries :
    /\ caller[q] = "returned" => q \in completed \cup refused
    /\ job[q] = "send" => caller[q] = "dropped" \/ q \in refused

\* The inductive invariant.
CancelInv == CancelTypeOK /\ SlotsAccounted /\ OneJobEach /\ ReturnedIsComplete /\ CancelsOnlyAbandoned

\* How the number of jobs at S changes when job q goes to p.
CountMoves(j, k, q, p, S) ==
  /\ Cardinality(JobsAt(j, S)) \in Nat
  /\ j[q] \in S => Cardinality(JobsAt(j, S)) > 0
  /\ Cardinality(JobsAt(k, S)) =
       IF j[q] \in S THEN IF p \in S THEN Cardinality(JobsAt(j, S)) ELSE Cardinality(JobsAt(j, S)) - 1
                     ELSE IF p \in S THEN Cardinality(JobsAt(j, S)) + 1 ELSE Cardinality(JobsAt(j, S))

\* The step of a job moves the count by that job at most.
LEMMA JobsCount ==
  ASSUME NEW j \in [Queries -> JobPlaces], NEW q \in Queries, NEW p \in JobPlaces, NEW S
  PROVE  CountMoves(j, [j EXCEPT ![q] = p], q, p, S)
<1> DEFINE k == [j EXCEPT ![q] = p]
<1> DEFINE J == JobsAt(j, S)
<1>1. IsFiniteSet(J)
  <2>1. J \subseteq Queries
    BY DEF JobsAt
  <2>2. IsFiniteSet(Queries)
    BY FS_Interval, CancelAssumption DEF Queries
  <2> QED BY <2>1, <2>2, FS_Subset
<1>2. q \in J <=> j[q] \in S
  BY DEF JobsAt
<1>3. Cardinality(J) \in Nat
  BY <1>1, FS_CardinalityType
<1>4. Cardinality(J \cup {q}) = IF q \in J THEN Cardinality(J) ELSE Cardinality(J) + 1
  BY <1>1, FS_AddElement
<1>5. Cardinality(J \ {q}) = IF q \in J THEN Cardinality(J) - 1 ELSE Cardinality(J)
  BY <1>1, FS_RemoveElement
<1>6. q \in J => Cardinality(J) > 0
  <2>1. J = {} <=> Cardinality(J) = 0
    BY <1>1, FS_EmptySet
  <2> QED BY <2>1, <1>3
<1>7. JobsAt(k, S) = IF p \in S THEN J \cup {q} ELSE J \ {q}
  BY DEF JobsAt
<1> QED BY <1>2, <1>3, <1>4, <1>5, <1>6, <1>7 DEF CountMoves

\* At the start no job has a slot.
LEMMA StartsInv == CancelInit => CancelInv
<1> SUFFICES ASSUME CancelInit PROVE CancelInv
  OBVIOUS
<1>1. CountedJobs = {} /\ PermittedJobs = {}
  BY DEF CancelInit, CountedJobs, PermittedJobs, Counted, Permitted
<1>2. Cardinality(CountedJobs) = 0 /\ Cardinality(PermittedJobs) = 0
  BY <1>1, FS_EmptySet
<1>3. SlotsAccounted
  BY <1>2, CancelAssumption DEF CancelInit, SlotsAccounted
<1>4. CancelTypeOK
  BY CancelAssumption DEF CancelInit, CancelTypeOK, JobPlaces, Counted
<1>5. OneJobEach
  BY DEF CancelInit, OneJobEach
<1>6. ReturnedIsComplete /\ CancelsOnlyAbandoned
  BY DEF CancelInit, ReturnedIsComplete, CancelsOnlyAbandoned
<1> QED BY <1>3, <1>4, <1>5, <1>6 DEF CancelInv

\* A step of job q to p that moves the two counts accordingly, and takes a permit
\* only when there is one, keeps the slots accounted for.
LEMMA SlotsMove ==
  ASSUME CancelInv, NEW q \in Queries, NEW p \in JobPlaces,
         job' = [job EXCEPT ![q] = p],
         pending' = IF job[q] \in Counted
                      THEN IF p \in Counted THEN pending ELSE pending - 1
                      ELSE IF p \in Counted THEN pending + 1 ELSE pending,
         free' = IF job[q] \in Permitted
                      THEN IF p \in Permitted THEN free ELSE free + 1
                      ELSE IF p \in Permitted THEN free - 1 ELSE free,
         p \in Permitted /\ job[q] \notin Permitted => free > 0
  PROVE  /\ SlotsAccounted'
         /\ pending' \in Nat /\ free' \in 0..Concurrency
         /\ job' \in [Queries -> JobPlaces]
<1>1. job \in [Queries -> JobPlaces] /\ pending \in Nat /\ free \in 0..Concurrency
  BY DEF CancelInv, CancelTypeOK
<1>2. /\ CountedJobs = JobsAt(job, Counted) /\ CountedJobs' = JobsAt(job', Counted)
      /\ PermittedJobs = JobsAt(job, Permitted) /\ PermittedJobs' = JobsAt(job', Permitted)
  BY DEF CountedJobs, PermittedJobs, JobsAt
<1>3. pending = Cardinality(CountedJobs) /\ free + Cardinality(PermittedJobs) = Concurrency
  BY DEF CancelInv, SlotsAccounted
<1>4. pending' = Cardinality(CountedJobs') /\ pending' \in Nat
  <2>1. CountMoves(job, job', q, p, Counted)
    BY <1>1, JobsCount, Zenon
  <2> QED BY <2>1, <1>2, <1>3 DEF CountMoves
<1>5. /\ free' + Cardinality(PermittedJobs') = Concurrency
      /\ free' \in 0..Concurrency
  <2>1. CountMoves(job, job', q, p, Permitted)
    BY <1>1, JobsCount, Zenon
  <2> DEFINE c == Cardinality(JobsAt(job, Permitted))
             d == Cardinality(JobsAt(job', Permitted))
  <2>2. /\ c \in Nat /\ free + c = Concurrency
        /\ job[q] \in Permitted => c > 0
        /\ d = IF job[q] \in Permitted THEN IF p \in Permitted THEN c ELSE c - 1
                                       ELSE IF p \in Permitted THEN c + 1 ELSE c
    BY <2>1, <1>2, <1>3 DEF CountMoves
  <2>3. free \in Nat /\ Concurrency \in Nat
    BY <1>1, CancelAssumption
  <2> HIDE DEF c, d
  <2>4. d \in Nat /\ free' + d = Concurrency
    BY <2>2, <2>3
  <2>5. free' \in Nat
    BY <2>3
  <2>6. d = Cardinality(PermittedJobs')
    BY <1>2 DEF d
  <2> QED BY <2>3, <2>4, <2>5, <2>6
<1> QED BY <1>1, <1>4, <1>5 DEF SlotsAccounted

\* What the steps of the callers and of the server leave alone keeps the slots
\* accounted for.
LEMMA SlotsKept ==
  ASSUME CancelInv, UNCHANGED slots
  PROVE  SlotsAccounted'
  BY DEF CancelInv, SlotsAccounted, CountedJobs, PermittedJobs, slots

\* The drop of a guard or a stream may give its query a job, without a slot yet.
LEMMA DropKeeps ==
  ASSUME CancelInv, NEW q \in Queries, NEW p \in {"dropped", "returned"},
         caller[q] \in {"new", "waiting"},
         caller' = [caller EXCEPT ![q] = p],
         completed' \in {completed, completed \cup {q}},
         refused' \in {refused, refused \cup {q}},
         p = "returned" => q \in completed' \cup refused',
         UNCHANGED job \/ job' = [job EXCEPT ![q] = "drop"],
         UNCHANGED <<backend, pending, free, requests>>
  PROVE  CancelInv'
<1>1. job[q] = "none" /\ "drop" \in JobPlaces
  BY DEF CancelInv, OneJobEach, JobPlaces
<1>2. UNCHANGED <<conn, backlog, taken, active, pending, free, requests>>
  BY DEF backend
<1>3. SlotsAccounted' /\ job' \in [Queries -> JobPlaces]
  <2>1. CASE UNCHANGED job
    BY <1>2, <2>1, SlotsKept DEF slots, CancelInv, CancelTypeOK
  <2>2. CASE job' = [job EXCEPT ![q] = "drop"]
    <3>1. /\ job[q] \notin Counted /\ job[q] \notin Permitted
          /\ "drop" \notin Counted /\ "drop" \notin Permitted
      BY <1>1 DEF Counted, Permitted
    <3> QED BY <1>1, <1>2, <2>2, <3>1, SlotsMove
  <2> QED BY <1>2, <2>1, <2>2
<1>4. CancelTypeOK'
  BY <1>2, <1>3 DEF CancelInv, CancelTypeOK
<1>5. OneJobEach' /\ ReturnedIsComplete'
  BY <1>1, <1>2 DEF CancelInv, CancelTypeOK, OneJobEach, ReturnedIsComplete
<1>6. CancelsOnlyAbandoned'
  BY <1>2 DEF CancelInv, CancelTypeOK, CancelsOnlyAbandoned
<1> QED BY <1>3, <1>4, <1>5, <1>6 DEF CancelInv

\* Every step of a job moves the counts together with the job.
LEMMA JobKeepsSlots ==
  ASSUME CancelInv, NEW q \in Queries, Job(q) \/ ShutDown(q)
  PROVE  /\ SlotsAccounted'
         /\ pending' \in Nat /\ free' \in 0..Concurrency
         /\ job' \in [Queries -> JobPlaces]
<1> USE DEF JobPlaces, Counted, Permitted, Step
<1>0. job \in [Queries -> JobPlaces] /\ pending \in Nat /\ free \in 0..Concurrency
  BY DEF CancelInv, CancelTypeOK
<1>1. CASE Add(q)
  <2>1. PICK p \in {"undo", "acquire"} : job' = [job EXCEPT ![q] = p]
    BY <1>1 DEF Add
  <2> QED BY <1>1, <2>1, SlotsMove DEF Add
<1>2. CASE TakePermit(q)
  <2>1. CASE free > 0 /\ Step(q, "acquire", "sleep") /\ free' = free - 1
    BY <1>2, <2>1, SlotsMove DEF TakePermit
  <2>2. CASE free = 0 /\ Step(q, "acquire", "undo") /\ UNCHANGED free
    BY <1>2, <2>2, SlotsMove DEF TakePermit
  <2> QED BY <1>2, <2>1, <2>2 DEF TakePermit
<1>3. CASE Undo(q)
  BY <1>3, SlotsMove DEF Undo
<1>4. CASE WakeUp(q)
  <2>1. PICK p \in {"release", "send"} : job' = [job EXCEPT ![q] = p]
    BY <1>4 DEF WakeUp
  <2> QED BY <1>4, <2>1, SlotsMove DEF WakeUp
<1>5. CASE Send(q)
  BY <1>5, SlotsMove DEF Send
<1>6. CASE GivePermit(q)
  BY <1>6, SlotsMove DEF GivePermit
<1>7. CASE Sub(q)
  BY <1>7, SlotsMove DEF Sub
<1>8. CASE ShutDown(q)
  BY <1>8, SlotsMove DEF ShutDown
<1> QED BY <1>1, <1>2, <1>3, <1>4, <1>5, <1>6, <1>7, <1>8 DEF Job

\* A job's step leaves the rest of the state as it was, but for a CancelRequest.
LEMMA JobStep ==
  ASSUME CancelInv, NEW q \in Queries, Job(q) \/ ShutDown(q)
  PROVE  CancelInv'
<1>1. /\ UNCHANGED <<caller, conn, backlog, taken, active, completed, refused>>
      /\ requests' \subseteq requests \cup {r \in {q} : job[r] = "send"}
      /\ job[q] # "none"
      /\ \E p : job' = [job EXCEPT ![q] = p] /\ (p = "send" => job[q] = "sleep" /\ q \notin completed)
  <2> USE DEF JobKeeps, backend, Step
  <2>2. CASE Add(q) \/ TakePermit(q) \/ Undo(q)
    BY <2>2 DEF Add, TakePermit, Undo
  <2>3. CASE WakeUp(q) \/ ShutDown(q)
    BY <2>3 DEF WakeUp, ShutDown
  <2>4. CASE Send(q)
    <3>1. job[q] = "send" /\ job' = [job EXCEPT ![q] = "release"]
      BY <2>4 DEF Send
    <3>2. requests' = requests \cup {q} \/ requests' = requests
      BY <2>4 DEF Send
    <3>3. requests' \subseteq requests \cup {r \in {q} : job[r] = "send"}
      BY <3>1, <3>2
    <3>4. UNCHANGED <<caller, conn, backlog, taken, active, completed, refused>>
      BY <2>4 DEF Send
    <3>5. \E p : job' = [job EXCEPT ![q] = p] /\ (p = "send" => job[q] = "sleep" /\ q \notin completed)
      <4> WITNESS "release"
      <4> QED BY <3>1
    <3> QED BY <3>1, <3>3, <3>4, <3>5
  <2>5. CASE GivePermit(q) \/ Sub(q)
    BY <2>5 DEF GivePermit, Sub
  <2> QED BY <2>2, <2>3, <2>4, <2>5 DEF Job
<1>2. SlotsAccounted' /\ pending' \in Nat /\ free' \in 0..Concurrency /\ job' \in [Queries -> JobPlaces]
  BY JobKeepsSlots
<1>3. CancelTypeOK'
  BY <1>1, <1>2 DEF CancelInv, CancelTypeOK
<1>4. OneJobEach'
  BY <1>1 DEF CancelInv, CancelTypeOK, OneJobEach
<1>5. ReturnedIsComplete'
  <2>1. caller[q] \in {"dropped", "returned"}
    BY <1>1 DEF CancelInv, CancelTypeOK, OneJobEach
  <2> QED BY <1>1, <2>1 DEF CancelInv, CancelTypeOK, ReturnedIsComplete
<1>6. CancelsOnlyAbandoned'
  BY <1>1 DEF CancelInv, ReturnedIsComplete, CancelsOnlyAbandoned
<1> QED BY <1>2, <1>3, <1>4, <1>5, <1>6 DEF CancelInv

\* The steps of the callers, the actor and the server do not touch the slots.
BackendMoves ==
  \/ Take \/ FailRequest \/ Break \/ ActorGone \/ ServerFinishes \/ MarkCompleted
  \/ \E q \in Queries : CancelArrives(q) \/ Submit(q)

LEMMA BackendStep == ASSUME CancelInv, BackendMoves PROVE CancelInv'
<1>1. UNCHANGED slots
  BY DEF BackendMoves, Take, FailRequest, Break, ActorGone, ServerFinishes, MarkCompleted,
         CancelArrives, Submit, slots
<1>2. SlotsAccounted'
  BY <1>1, SlotsKept
<1>3. /\ completed \subseteq completed' /\ completed' \subseteq Queries
      /\ refused \subseteq refused' /\ refused' \subseteq Queries
      /\ requests' \subseteq requests
      /\ \/ UNCHANGED caller
         \/ \E q \in Queries : caller[q] = "new" /\ caller' = [caller EXCEPT ![q] = "waiting"]
      /\ conn' \in {"up", "broken", "gone"} /\ backlog' \in Seq(Queries)
      /\ taken' \in Queries \cup {NoQuery} /\ active' \in Queries \cup {NoQuery}
  <2>1. /\ completed \subseteq Queries /\ refused \subseteq Queries
        /\ conn \in {"up", "broken", "gone"} /\ backlog \in Seq(Queries)
        /\ taken \in Queries \cup {NoQuery} /\ active \in Queries \cup {NoQuery}
    BY DEF CancelInv, CancelTypeOK
  <2>2. backlog # <<>> => Head(backlog) \in Queries /\ Tail(backlog) \in Seq(Queries)
    BY <2>1
  <2>3. CASE Take
    BY <2>1, <2>2, <2>3 DEF Take
  <2>4. CASE FailRequest
    BY <2>1, <2>2, <2>4 DEF FailRequest
  <2>5. CASE Break \/ ServerFinishes
    BY <2>1, <2>5 DEF Break, ServerFinishes
  <2>6. CASE ActorGone
    BY <2>1, <2>6 DEF ActorGone
  <2>7. CASE MarkCompleted
    BY <2>1, <2>7 DEF MarkCompleted
  <2>8. ASSUME NEW q \in Queries, CancelArrives(q) PROVE <1>3!:
    BY <2>1, <2>8 DEF CancelArrives
  <2>9. ASSUME NEW q \in Queries, Submit(q) PROVE <1>3!:
    <3>1. caller[q] = "new" /\ caller' = [caller EXCEPT ![q] = "waiting"]
      BY <2>9 DEF Submit, Fresh
    <3>2. backlog' \in Seq(Queries)
      BY <2>1, <2>9 DEF Submit
    <3>3. UNCHANGED <<conn, taken, active, completed, refused, requests>>
      BY <2>9 DEF Submit
    <3> QED BY <2>1, <3>1, <3>2, <3>3
  <2> QED BY <2>3, <2>4, <2>5, <2>6, <2>7, <2>8, <2>9 DEF BackendMoves
<1>4. CancelTypeOK'
  BY <1>1, <1>3 DEF CancelInv, CancelTypeOK, slots
<1>5. OneJobEach'
  BY <1>1, <1>3 DEF CancelInv, CancelTypeOK, OneJobEach, slots
<1>6. ReturnedIsComplete' /\ CancelsOnlyAbandoned'
  BY <1>1, <1>3 DEF CancelInv, CancelTypeOK, OneJobEach, ReturnedIsComplete, CancelsOnlyAbandoned, slots
<1> QED BY <1>2, <1>4, <1>5, <1>6 DEF CancelInv

\* The invariant is inductive.
LEMMA KeepsInv == CancelInv /\ [CancelNext]_cancelVars => CancelInv'
<1> SUFFICES ASSUME CancelInv, [CancelNext]_cancelVars PROVE CancelInv'
  OBVIOUS
<1>1. CASE UNCHANGED cancelVars
  <2>1. SlotsAccounted'
    BY <1>1, SlotsKept DEF cancelVars
  <2> QED BY <1>1, <2>1 DEF cancelVars, slots, backend, CancelInv, CancelTypeOK, OneJobEach,
                            ReturnedIsComplete, CancelsOnlyAbandoned
<1>2. ASSUME NEW q \in Queries, CallerReturns(q) PROVE CancelInv'
  BY <1>2, DropKeeps DEF CallerReturns, DropGuard, DropStream, Schedule
<1>3. ASSUME NEW q \in Queries, CallerDrops(q) PROVE CancelInv'
  BY <1>3, DropKeeps DEF CallerDrops, DropGuard, DropStream, Schedule
<1>4. ASSUME NEW q \in Queries, SubmitFails(q) PROVE CancelInv'
  BY <1>4, DropKeeps DEF SubmitFails, Fresh, Schedule
<1>5. ASSUME NEW q \in Queries, Job(q) \/ ShutDown(q) PROVE CancelInv'
  BY <1>5, JobStep
<1>6. CASE BackendMoves
  BY <1>6, BackendStep
<1>7. CASE Quiet
  BY <1>1, <1>7 DEF Quiet
<1> QED BY <1>1, <1>2, <1>3, <1>4, <1>5, <1>6, <1>7 DEF CancelNext, BackendMoves

\* The invariant holds throughout.
LEMMA CancelInvariant == CancelSpec => []CancelInv
BY StartsInv, KeepsInv, PTL DEF CancelSpec

\* No cancellation slot is lost or counted twice, for every number of abandoned
\* queries, every capacity and every concurrency: PENDING_CANCELS is the number
\* of reservations in progress and every permit is free or held by one job,
\* failed reservations, timeouts and shutdowns of the runtime included.
THEOREM SlotsNeverLeak == CancelSpec => []SlotsAccounted
<1>1. CancelInv => SlotsAccounted
  BY DEF CancelInv
<1> QED BY <1>1, CancelInvariant, PTL

\* The state of the cancellations keeps its shape; in particular PENDING_CANCELS,
\* an unsigned counter, never goes below zero.
THEOREM CancelTypeCorrect == CancelSpec => []CancelTypeOK
<1>1. CancelInv => CancelTypeOK
  BY DEF CancelInv
<1> QED BY <1>1, CancelInvariant, PTL

\* A query that handle_query answered never sends a CancelRequest, however its
\* scheduled job, the actor, the callers and the loss of the connection
\* interleave; only abandoned and refused ones do.
THEOREM NeverCancelsAnswered == CancelSpec => []CancelsOnlyAbandoned
<1>1. CancelInv => CancelsOnlyAbandoned
  BY DEF CancelInv
<1> QED BY <1>1, CancelInvariant, PTL
=============================================================================
