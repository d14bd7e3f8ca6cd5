-------------------- MODULE InferenceWorkerProofs --------------------
(***************************************************************************)
(* Theorems about InferenceWorker, for every set of callers and every      *)
(* bound on the items: the types, what a call that has ended leaves        *)
(* behind, how promptly a stream stops, that the worker never waits for    *)
(* itself, and that it implements OrderedStream.                           *)
(***************************************************************************)
EXTENDS InferenceWorker, TLAPS

(* A job is queued once, and the worker's is the oldest.                    *)
JobsAreDistinct == \A i, j \in DOMAIN jobs : jobs[i] = jobs[j] => i = j

Serves(c) == wpc # "idle" /\ Current = c

(* Where the worker is: it has a job, its thread is marked whenever the     *)
(* function or the iterator runs, and what it puts is an item.              *)
IsValue(item) == item \in {Value(i) : i \in 1..MaxItems}

WorkerInv ==
  /\ wpc # "blocked"
  /\ wpc # "idle" => jobs # <<>>
  /\ wpc \in {"call", "next"} => active
  /\ wpc \in {"check", "put", "putting", "closing"} => held \in Items
  /\ wpc \in {"check", "put", "putting"} /\ IsValue(held) => active

(* The calls of a job in the executor: it has begun and has not ended, and  *)
(* _Done has not been received.  The worker is in the function of a run(),  *)
(* or in the iterator of a stream.                                          *)
Live(c) ==
  /\ HasJob(c) =>
       pc[c] \in {"running", "getting", "yielded", "joining_error", "stopping"}
  /\ Serves(c) => (wpc = "call" <=> pc[c] = "running")
  /\ stop[c] <=> pc[c] \in {"stopping", "closed"}

NotStarted(c) ==
  pc[c] \in {"idle", "running"} =>
    queue[c] = <<>> /\ generated[c] = 0 /\ got[c] = <<>> /\ late[c] = 0

(* Until a stream is closed every item that was generated has been          *)
(* received, is in the queue, or in the worker's hand: one at most of each. *)
Holding(c) ==
  Serves(c) /\ wpc \in {"check", "put", "putting"} /\ IsValue(held)

Queued(c) == queue[c] # <<>> /\ IsValue(Head(queue[c]))

Counted(c) ==
  ~stop[c] =>
    generated[c] = Len(got[c]) + (IF Queued(c) THEN 1 ELSE 0)
                               + (IF Holding(c) THEN 1 ELSE 0)

Numbered(c) ==
  /\ Holding(c) => held = Value(generated[c])
  /\ ~stop[c] /\ Queued(c) => Head(queue[c]) = Value(Len(got[c]) + 1)
  /\ InOrder(got[c])

(* Only a stopped stream drops a value, and the end mark is the last item.  *)
Marked(c) ==
  /\ Serves(c) /\ wpc = "closing" /\ IsValue(held) => stop[c]
  /\ queue[c] = <<Done>> => ~HasJob(c)
  /\ (queue[c] = <<Error>> \/ pc[c] = "joining_error") /\ HasJob(c) =>
       Serves(c) /\ wpc = "closing" /\ held = Error
  /\ pc[c] \in {"joining_done", "joining_error"} => queue[c] = <<>>

(* After the stop event one item may still come; it is not put.             *)
Prompt(c) ==
  late[c] # 0 =>
    /\ late[c] = 1 /\ stop[c]
    /\ HasJob(c) => Serves(c) /\ wpc \in {"check", "closing"} /\ IsValue(held)

CallInv(c) ==
  /\ Live(c) /\ NotStarted(c) /\ Counted(c) /\ Numbered(c) /\ Marked(c)
  /\ Prompt(c)

IInv ==
  /\ TypeOK /\ JobsAreDistinct /\ WorkerInv
  /\ \A c \in Callers : CallInv(c)
-----------------------------------------------------------------------------
(* Items are told apart by their tags. *)
LEMMA ItemFacts ==
  /\ Done \in Items /\ Error \in Items /\ Done # Error
  /\ Done.tag = "done" /\ Error.tag = "error"
  /\ ~IsValue(Done) /\ ~IsValue(Error)
  /\ \A i \in 1..MaxItems : /\ IsValue(Value(i)) /\ Value(i) \in Items
                            /\ Value(i).tag = "value" /\ Value(i).number = i
  /\ \A item \in Items :
       /\ item = Done \/ item = Error \/ IsValue(item)
       /\ item.tag = "value" <=> IsValue(item)
       /\ item.tag = "done"  <=> item = Done
       /\ item.tag = "error" <=> item = Error
       /\ IsValue(item) => item.number \in 1..MaxItems /\ item = Value(item.number)
<1>1. \A i \in 1..MaxItems : Value(i).tag = "value" /\ Value(i).number = i
  BY DEF Value
<1>2. Done.tag = "done" /\ Error.tag = "error"
  BY DEF Done, Error
<1>3. Done # Error /\ ~IsValue(Done) /\ ~IsValue(Error)
  BY <1>1, <1>2 DEF IsValue
<1>4. \A item : item \in Items <=> IsValue(item) \/ item = Done \/ item = Error
  BY DEF Items, IsValue
<1>5. ASSUME NEW item, IsValue(item)
      PROVE  /\ item.tag = "value" /\ item.number \in 1..MaxItems
             /\ item = Value(item.number)
  BY <1>1, <1>5 DEF IsValue
<1>6. \A i \in 1..MaxItems : IsValue(Value(i))
  BY DEF IsValue
<1> QED BY <1>1, <1>2, <1>3, <1>4, <1>5, <1>6

Slot == {<<>>} \cup {<<i>> : i \in Items}

(* A queue has one slot. *)
LEMMA SlotFacts ==
  ASSUME NEW q \in Slot
  PROVE  q # <<>> => Head(q) \in Items /\ Tail(q) = <<>> /\ q = <<Head(q)>>
<1>1. SUFFICES ASSUME NEW i \in Items, q = <<i>>
               PROVE  Head(q) \in Items /\ Tail(q) = <<>> /\ q = <<Head(q)>>
  BY DEF Slot
<1>2. Head(q) = i
  BY <1>1
<1>3. Tail(<<i>>) = <<>>
  OBVIOUS
<1> QED BY <1>1, <1>2, <1>3

(* An empty queue, a full one, and what a full one holds. *)
LEMMA SlotsDiffer ==
  /\ Len(<<>>) = 0
  /\ \A i, j \in Items : <<i>> # <<>> /\ (<<i>> = <<j>> => i = j)
OBVIOUS

(* The executor's queue: its head, a new job, the end of one. *)
LEMMA CurrentHasJob ==
  ASSUME jobs \in Seq(Callers), jobs # <<>>
  PROVE  Current \in Callers /\ HasJob(Current)
<1>1. 1 \in DOMAIN jobs /\ jobs[1] = Current
  BY DEF Current
<1> QED BY <1>1 DEF HasJob

(* With the same jobs the same is served. *)
LEMMA SameJobs ==
  ASSUME UNCHANGED jobs
  PROVE  /\ Current' = Current
         /\ JobsAreDistinct' <=> JobsAreDistinct
         /\ \A c \in Callers : HasJob(c)' <=> HasJob(c)
BY DEF Current, JobsAreDistinct, HasJob

(* A job is appended; the worker's stays the first. *)
LEMMA JobComes ==
  ASSUME jobs \in Seq(Callers), JobsAreDistinct,
         NEW c \in Callers, ~HasJob(c), jobs' = Append(jobs, c)
  PROVE  /\ jobs' \in Seq(Callers) /\ jobs' # <<>> /\ JobsAreDistinct'
         /\ jobs # <<>> => Current' = Current
         /\ \A d \in Callers : HasJob(d)' <=> HasJob(d) \/ d = c
<1>1. /\ DOMAIN jobs' = 1..(Len(jobs) + 1) /\ DOMAIN jobs = 1..Len(jobs)
      /\ Len(jobs) \in Nat
      /\ \A i \in 1..Len(jobs) : jobs'[i] = jobs[i]
      /\ jobs'[Len(jobs) + 1] = c
  OBVIOUS
<1>2. JobsAreDistinct'
  BY <1>1 DEF JobsAreDistinct, HasJob
<1>3. jobs # <<>> => Current' = Current
  BY DEF Current
<1>4. ASSUME NEW d \in Callers PROVE HasJob(d)' <=> HasJob(d) \/ d = c
  <2>1. HasJob(d)' => HasJob(d) \/ d = c
    BY <1>1 DEF HasJob
  <2>2. HasJob(d) => HasJob(d)'
    BY <1>1 DEF HasJob
  <2>3. Len(jobs) + 1 \in DOMAIN jobs'
    BY <1>1
  <2>4. d = c => HasJob(d)'
    BY <1>1, <2>3 DEF HasJob
  <2> QED BY <2>1, <2>2, <2>4
<1> QED BY <1>2, <1>3, <1>4

(* The first job ends; no other does. *)
LEMMA JobEnds ==
  ASSUME jobs \in Seq(Callers), jobs # <<>>, JobsAreDistinct, jobs' = Tail(jobs)
  PROVE  /\ jobs' \in Seq(Callers) /\ JobsAreDistinct'
         /\ \A d \in Callers : HasJob(d)' <=> HasJob(d) /\ d # Current
<1>1. /\ Len(jobs) \in Nat \ {0} /\ DOMAIN jobs = 1..Len(jobs)
      /\ DOMAIN jobs' = 1..(Len(jobs) - 1)
      /\ \A i \in 1..(Len(jobs) - 1) : jobs'[i] = jobs[i + 1]
      /\ Current = jobs[1]
  BY DEF Current
<1>2. JobsAreDistinct'
  <2> SUFFICES ASSUME NEW i \in DOMAIN jobs', NEW j \in DOMAIN jobs',
                      jobs'[i] = jobs'[j]
               PROVE  i = j
    BY DEF JobsAreDistinct
  <2>1. /\ i + 1 \in DOMAIN jobs /\ j + 1 \in DOMAIN jobs
        /\ jobs[i + 1] = jobs[j + 1]
    BY <1>1
  <2> QED BY <1>1, <2>1 DEF JobsAreDistinct
<1>3. ASSUME NEW d \in Callers PROVE HasJob(d)' <=> HasJob(d) /\ d # Current
  <2>1. ASSUME HasJob(d)' PROVE HasJob(d) /\ d # Current
    <3>1. PICK i \in DOMAIN jobs' : jobs'[i] = d
      BY <2>1 DEF HasJob
    <3>2. i + 1 \in DOMAIN jobs /\ jobs[i + 1] = d /\ 1 \in DOMAIN jobs /\ i # 0
      BY <1>1, <3>1
    <3>3. i + 1 # 1
      BY <1>1, <3>1
    <3> QED BY <1>1, <3>2, <3>3 DEF HasJob, JobsAreDistinct
  <2>2. ASSUME HasJob(d), d # Current PROVE HasJob(d)'
    <3>1. PICK i \in DOMAIN jobs : jobs[i] = d
      BY <2>2 DEF HasJob
    <3>2. i - 1 \in DOMAIN jobs' /\ jobs'[i - 1] = d
      BY <1>1, <2>2, <3>1
    <3> QED BY <3>2 DEF HasJob
  <2> QED BY <2>1, <2>2
<1> QED BY <1>2, <1>3
-----------------------------------------------------------------------------
(* What a step does not touch keeps its invariant.                          *)
Same(d) ==
  /\ pc'[d] = pc[d] /\ queue'[d] = queue[d] /\ stop'[d] = stop[d]
  /\ generated'[d] = generated[d] /\ got'[d] = got[d] /\ late'[d] = late[d]

LEMMA SameInv ==
  ASSUME NEW d \in Callers, CallInv(d), Same(d),
         HasJob(d)' <=> HasJob(d), Serves(d)' <=> Serves(d),
         Serves(d) => wpc' = wpc /\ held' = held
  PROVE  CallInv(d)'
BY DEF CallInv, Same, Live, NotStarted, Counted, Numbered, Marked, Prompt,
       Queued, Holding, InOrder

(* A step of the worker is about its current job: another caller's call is  *)
(* neither served nor changed.                                              *)
LEMMA WorkerFrame ==
  ASSUME IInv, jobs # <<>>, NEW d \in Callers, d # Current, Same(d),
         UNCHANGED jobs \/ (jobs' = Tail(jobs) /\ wpc' = "idle")
  PROVE  CallInv(d)'
<1>1. jobs \in Seq(Callers) /\ JobsAreDistinct /\ CallInv(d)
  BY DEF IInv, TypeOK
<1>2. CASE UNCHANGED jobs
  BY <1>1, <1>2, SameJobs, SameInv DEF Serves
<1>3. CASE jobs' = Tail(jobs) /\ wpc' = "idle"
  <2>1. HasJob(d)' <=> HasJob(d)
    BY <1>1, <1>3, JobEnds
  <2> QED BY <1>1, <1>3, <2>1, SameInv DEF Serves
<1> QED BY <1>2, <1>3

(* A step of a caller is about its own call.                                *)
LEMMA CallerFrame ==
  ASSUME IInv, NEW c \in Callers, NEW d \in Callers, d # c, Same(d),
         UNCHANGED workerVars,
         UNCHANGED jobs \/ (jobs' = Append(jobs, c) /\ ~HasJob(c))
  PROVE  CallInv(d)'
<1>1. jobs \in Seq(Callers) /\ JobsAreDistinct /\ CallInv(d)
  BY DEF IInv, TypeOK
<1>2. (HasJob(d)' <=> HasJob(d)) /\ (wpc # "idle" => Current' = Current)
  BY <1>1, SameJobs, JobComes DEF IInv, WorkerInv
<1> QED BY <1>1, <1>2, SameInv DEF Serves, workerVars

(* The worker takes a job. *)
LEMMA TakeInv ==
  ASSUME IInv, Take
  PROVE  IInv'
<1>1. /\ jobs # <<>> /\ jobs \in Seq(Callers) /\ JobsAreDistinct
      /\ Current \in Callers /\ HasJob(Current)
  BY CurrentHasJob DEF IInv, TypeOK, WorkerInv, Take
<1>2. PICK c \in Callers : c = Current
  BY <1>1
<1>3. CallInv(c) /\ WorkerInv /\ TypeOK /\ HasJob(c)
  BY <1>1, <1>2 DEF IInv
<1>4. TypeOK'
  BY <1>1, <1>2, <1>3, JobEnds, ItemFacts, WorkerAssumption
  DEF TypeOK, Take, Goto, WorkerPc, CallerPc, Slot, callerVars
<1>5. JobsAreDistinct' /\ WorkerInv'
  BY <1>1, <1>2, <1>3, JobEnds, SameJobs, ItemFacts
  DEF WorkerInv, TypeOK, Take, Goto, callerVars
<1>6. CallInv(c)'
  BY <1>1, <1>2, <1>3, JobEnds, SameJobs, ItemFacts, SlotFacts, WorkerAssumption
  DEF CallInv, Live, NotStarted, Counted, Numbered, Marked, Prompt, Queued,
      Holding, Serves, WorkerInv, TypeOK, Take, Goto, callerVars,
      InOrder, Slot
<1>7. ASSUME NEW d \in Callers, d # c PROVE CallInv(d)'
  BY <1>1, <1>2, <1>3, <1>7, WorkerFrame
  DEF TypeOK, Take, Goto, callerVars, Same
<1> QED BY <1>4, <1>5, <1>6, <1>7 DEF IInv

(* The function of a run() is over. *)
LEMMA EndRunInv ==
  ASSUME IInv, EndRun
  PROVE  IInv'
<1>1. /\ jobs # <<>> /\ jobs \in Seq(Callers) /\ JobsAreDistinct
      /\ Current \in Callers /\ HasJob(Current)
  BY CurrentHasJob DEF IInv, TypeOK, WorkerInv, EndRun
<1>2. PICK c \in Callers : c = Current
  BY <1>1
<1>3. CallInv(c) /\ WorkerInv /\ TypeOK /\ HasJob(c)
  BY <1>1, <1>2 DEF IInv
<1>4. TypeOK'
  BY <1>1, <1>2, <1>3, JobEnds, ItemFacts, WorkerAssumption
  DEF TypeOK, EndRun, Goto, WorkerPc, CallerPc, Slot, callerVars
<1>5. JobsAreDistinct' /\ WorkerInv'
  BY <1>1, <1>2, <1>3, JobEnds, SameJobs, ItemFacts
  DEF WorkerInv, TypeOK, EndRun, Goto, callerVars
<1>6. CallInv(c)'
  BY <1>1, <1>2, <1>3, JobEnds, SameJobs, ItemFacts, SlotFacts, WorkerAssumption
  DEF CallInv, Live, NotStarted, Counted, Numbered, Marked, Prompt, Queued,
      Holding, Serves, WorkerInv, TypeOK, EndRun, Goto, callerVars,
      InOrder, Slot
<1>7. ASSUME NEW d \in Callers, d # c PROVE CallInv(d)'
  BY <1>1, <1>2, <1>3, <1>7, WorkerFrame
  DEF TypeOK, EndRun, Goto, callerVars, Same
<1> QED BY <1>4, <1>5, <1>6, <1>7 DEF IInv

(* An item is generated. *)
LEMMA GenerateInv ==
  ASSUME IInv, Generate
  PROVE  IInv'
<1>1. /\ jobs # <<>> /\ jobs \in Seq(Callers) /\ JobsAreDistinct
      /\ Current \in Callers /\ HasJob(Current)
  BY CurrentHasJob DEF IInv, TypeOK, WorkerInv, Generate
<1>2. PICK c \in Callers : c = Current
  BY <1>1
<1>3. CallInv(c) /\ WorkerInv /\ TypeOK /\ HasJob(c)
  BY <1>1, <1>2 DEF IInv
<1>4. /\ generated[c] + 1 \in 1..MaxItems /\ generated[c] \in Nat
      /\ held' = Value(generated[c] + 1) /\ IsValue(held') /\ held' \in Items
      /\ generated'[c] = generated[c] + 1
      /\ late'[c] = IF stop[c] THEN late[c] + 1 ELSE late[c]
  BY <1>2, <1>3, ItemFacts, WorkerAssumption DEF Generate, TypeOK
<1>5. TypeOK'
  <2>1. generated' \in [Callers -> 0..MaxItems]
    BY <1>2, <1>3, <1>4 DEF Generate, TypeOK
  <2>2. late' \in [Callers -> Nat]
    BY <1>2, <1>3 DEF Generate, TypeOK
  <2> QED BY <1>3, <1>4, <2>1, <2>2 DEF Generate, TypeOK, WorkerPc
<1>6. JobsAreDistinct' /\ WorkerInv'
  BY <1>4, <1>1, <1>2, <1>3, JobEnds, SameJobs, ItemFacts
  DEF WorkerInv, TypeOK, Generate, Goto, callerVars
<1>7. /\ jobs' = jobs /\ pc' = pc /\ queue' = queue /\ stop' = stop /\ got' = got
      /\ wpc = "next" /\ wpc' = "check" /\ HasJob(c)' /\ Current' = Current
  BY <1>3, SameJobs DEF Generate
<1>8. CallInv(c)'
  <2>1. Live(c)' /\ NotStarted(c)'
    BY <1>2, <1>3, <1>7, <1>4 DEF CallInv, Live, NotStarted, Serves
  <2>2. Counted(c)' /\ Numbered(c)'
    <3>1. got[c] \in Seq(1..MaxItems) /\ Len(got[c]) \in Nat
      BY <1>3 DEF TypeOK
    <3>2. Holding(c)' /\ ~Holding(c) /\ (Queued(c)' <=> Queued(c))
      BY <1>2, <1>7, <1>4 DEF Holding, Serves, Queued
    <3>3. Counted(c)'
      <4>1. CASE Queued(c)
        BY <3>1, <3>2, <4>1, <1>3, <1>7, <1>4 DEF CallInv, Counted
      <4>2. CASE ~Queued(c)
        <5>1. ~stop[c] => generated[c] = Len(got[c])
          BY <3>1, <3>2, <4>2, <1>3, <1>4 DEF CallInv, Counted
        <5>2. ~Queued(c)' /\ Holding(c)'
          BY <3>2, <4>2
        <5> QED BY <3>1, <5>1, <5>2, <1>7, <1>4 DEF Counted
      <4> QED BY <4>1, <4>2
    <3>4. Numbered(c)'
      BY <3>2, <1>3, <1>7, <1>4 DEF CallInv, Numbered, InOrder, Queued
    <3> QED BY <3>3, <3>4
  <2>3. Marked(c)'
    BY <1>2, <1>3, <1>7, <1>4 DEF CallInv, Marked, Serves
  <2>4. Prompt(c)'
    BY <1>2, <1>3, <1>7, <1>4 DEF CallInv, Prompt, Serves, TypeOK
  <2> QED BY <2>1, <2>2, <2>3, <2>4 DEF CallInv
<1>9. ASSUME NEW d \in Callers, d # c PROVE CallInv(d)'
  BY <1>1, <1>2, <1>3, <1>9, WorkerFrame
  DEF TypeOK, Generate, Goto, callerVars, Same
<1> QED BY <1>5, <1>6, <1>8, <1>9 DEF IInv

(* The iterator ends. *)
LEMMA ExhaustInv ==
  ASSUME IInv, Exhaust
  PROVE  IInv'
<1>1. /\ jobs # <<>> /\ jobs \in Seq(Callers) /\ JobsAreDistinct
      /\ Current \in Callers /\ HasJob(Current)
  BY CurrentHasJob DEF IInv, TypeOK, WorkerInv, Exhaust
<1>2. PICK c \in Callers : c = Current
  BY <1>1
<1>3. CallInv(c) /\ WorkerInv /\ TypeOK /\ HasJob(c)
  BY <1>1, <1>2 DEF IInv
<1>4. TypeOK'
  BY <1>1, <1>2, <1>3, JobEnds, ItemFacts, WorkerAssumption
  DEF TypeOK, Exhaust, Goto, WorkerPc, CallerPc, Slot, callerVars
<1>5. JobsAreDistinct' /\ WorkerInv'
  BY <1>1, <1>2, <1>3, JobEnds, SameJobs, ItemFacts
  DEF WorkerInv, TypeOK, Exhaust, Goto, callerVars
<1>6. CallInv(c)'
  BY <1>1, <1>2, <1>3, JobEnds, SameJobs, ItemFacts, SlotFacts, WorkerAssumption
  DEF CallInv, Live, NotStarted, Counted, Numbered, Marked, Prompt, Queued,
      Holding, Serves, WorkerInv, TypeOK, Exhaust, Goto, callerVars,
      InOrder, Slot
<1>7. ASSUME NEW d \in Callers, d # c PROVE CallInv(d)'
  BY <1>1, <1>2, <1>3, <1>7, WorkerFrame
  DEF TypeOK, Exhaust, Goto, callerVars, Same
<1> QED BY <1>4, <1>5, <1>6, <1>7 DEF IInv

(* The iterator raises. *)
LEMMA RaiseInv ==
  ASSUME IInv, Raise
  PROVE  IInv'
<1>1. /\ jobs # <<>> /\ jobs \in Seq(Callers) /\ JobsAreDistinct
      /\ Current \in Callers /\ HasJob(Current)
  BY CurrentHasJob DEF IInv, TypeOK, WorkerInv, Raise
<1>2. PICK c \in Callers : c = Current
  BY <1>1
<1>3. CallInv(c) /\ WorkerInv /\ TypeOK /\ HasJob(c)
  BY <1>1, <1>2 DEF IInv
<1>4. TypeOK'
  BY <1>1, <1>2, <1>3, JobEnds, ItemFacts, WorkerAssumption
  DEF TypeOK, Raise, Goto, WorkerPc, CallerPc, Slot, callerVars
<1>5. JobsAreDistinct' /\ WorkerInv'
  BY <1>1, <1>2, <1>3, JobEnds, SameJobs, ItemFacts
  DEF WorkerInv, TypeOK, Raise, Goto, callerVars
<1>6. CallInv(c)'
  BY <1>1, <1>2, <1>3, JobEnds, SameJobs, ItemFacts, SlotFacts, WorkerAssumption
  DEF CallInv, Live, NotStarted, Counted, Numbered, Marked, Prompt, Queued,
      Holding, Serves, WorkerInv, TypeOK, Raise, Goto, callerVars,
      InOrder, Slot
<1>7. ASSUME NEW d \in Callers, d # c PROVE CallInv(d)'
  BY <1>1, <1>2, <1>3, <1>7, WorkerFrame
  DEF TypeOK, Raise, Goto, callerVars, Same
<1> QED BY <1>4, <1>5, <1>6, <1>7 DEF IInv

(* The look at the stop event. *)
LEMMA CheckInv ==
  ASSUME IInv, Check
  PROVE  IInv'
<1>1. /\ jobs # <<>> /\ jobs \in Seq(Callers) /\ JobsAreDistinct
      /\ Current \in Callers /\ HasJob(Current)
  BY CurrentHasJob DEF IInv, TypeOK, WorkerInv, Check
<1>2. PICK c \in Callers : c = Current
  BY <1>1
<1>3. CallInv(c) /\ WorkerInv /\ TypeOK /\ HasJob(c)
  BY <1>1, <1>2 DEF IInv
<1>4. TypeOK'
  BY <1>1, <1>2, <1>3, JobEnds, ItemFacts, WorkerAssumption
  DEF TypeOK, Check, EndJob, Goto, WorkerPc, CallerPc, Slot, callerVars
<1>5. JobsAreDistinct' /\ WorkerInv'
  BY <1>1, <1>2, <1>3, JobEnds, SameJobs, ItemFacts
  DEF WorkerInv, TypeOK, Check, EndJob, Goto, callerVars
<1>6. CallInv(c)'
  BY <1>1, <1>2, <1>3, JobEnds, SameJobs, ItemFacts, SlotFacts, WorkerAssumption
  DEF CallInv, Live, NotStarted, Counted, Numbered, Marked, Prompt, Queued,
      Holding, Serves, WorkerInv, TypeOK, Check, EndJob, Goto, callerVars,
      InOrder, Slot
<1>7. ASSUME NEW d \in Callers, d # c PROVE CallInv(d)'
  BY <1>1, <1>2, <1>3, <1>7, WorkerFrame
  DEF TypeOK, Check, EndJob, Goto, callerVars, Same
<1> QED BY <1>4, <1>5, <1>6, <1>7 DEF IInv

(* The put is given up. *)
LEMMA PutStoppedInv ==
  ASSUME IInv, PutStopped
  PROVE  IInv'
<1>1. /\ jobs # <<>> /\ jobs \in Seq(Callers) /\ JobsAreDistinct
      /\ Current \in Callers /\ HasJob(Current)
  BY CurrentHasJob DEF IInv, TypeOK, WorkerInv, PutStopped
<1>2. PICK c \in Callers : c = Current
  BY <1>1
<1>3. CallInv(c) /\ WorkerInv /\ TypeOK /\ HasJob(c)
  BY <1>1, <1>2 DEF IInv
<1>4. TypeOK'
  BY <1>1, <1>2, <1>3, JobEnds, ItemFacts, WorkerAssumption
  DEF TypeOK, PutStopped, EndJob, Goto, WorkerPc, CallerPc, Slot, callerVars
<1>5. JobsAreDistinct' /\ WorkerInv'
  BY <1>1, <1>2, <1>3, JobEnds, SameJobs, ItemFacts
  DEF WorkerInv, TypeOK, PutStopped, EndJob, Goto, callerVars
<1>6. CallInv(c)'
  BY <1>1, <1>2, <1>3, JobEnds, SameJobs, ItemFacts, SlotFacts, WorkerAssumption
  DEF CallInv, Live, NotStarted, Counted, Numbered, Marked, Prompt, Queued,
      Holding, Serves, WorkerInv, TypeOK, PutStopped, EndJob, Goto, callerVars,
      InOrder, Slot
<1>7. ASSUME NEW d \in Callers, d # c PROVE CallInv(d)'
  BY <1>1, <1>2, <1>3, <1>7, WorkerFrame
  DEF TypeOK, PutStopped, EndJob, Goto, callerVars, Same
<1> QED BY <1>4, <1>5, <1>6, <1>7 DEF IInv

(* The put goes on. *)
LEMMA PutTryInv ==
  ASSUME IInv, PutTry
  PROVE  IInv'
<1>1. /\ jobs # <<>> /\ jobs \in Seq(Callers) /\ JobsAreDistinct
      /\ Current \in Callers /\ HasJob(Current)
  BY CurrentHasJob DEF IInv, TypeOK, WorkerInv, PutTry
<1>2. PICK c \in Callers : c = Current
  BY <1>1
<1>3. CallInv(c) /\ WorkerInv /\ TypeOK /\ HasJob(c)
  BY <1>1, <1>2 DEF IInv
<1>4. TypeOK'
  BY <1>1, <1>2, <1>3, JobEnds, ItemFacts, WorkerAssumption
  DEF TypeOK, PutTry, Goto, WorkerPc, CallerPc, Slot, callerVars
<1>5. JobsAreDistinct' /\ WorkerInv'
  BY <1>1, <1>2, <1>3, JobEnds, SameJobs, ItemFacts
  DEF WorkerInv, TypeOK, PutTry, Goto, callerVars
<1>6. CallInv(c)'
  BY <1>1, <1>2, <1>3, JobEnds, SameJobs, ItemFacts, SlotFacts, WorkerAssumption
  DEF CallInv, Live, NotStarted, Counted, Numbered, Marked, Prompt, Queued,
      Holding, Serves, WorkerInv, TypeOK, PutTry, Goto, callerVars,
      InOrder, Slot
<1>7. ASSUME NEW d \in Callers, d # c PROVE CallInv(d)'
  BY <1>1, <1>2, <1>3, <1>7, WorkerFrame
  DEF TypeOK, PutTry, Goto, callerVars, Same
<1> QED BY <1>4, <1>5, <1>6, <1>7 DEF IInv

(* The queue is full. *)
LEMMA PutFullInv ==
  ASSUME IInv, PutFull
  PROVE  IInv'
<1>1. /\ jobs # <<>> /\ jobs \in Seq(Callers) /\ JobsAreDistinct
      /\ Current \in Callers /\ HasJob(Current)
  BY CurrentHasJob DEF IInv, TypeOK, WorkerInv, PutFull
<1>2. PICK c \in Callers : c = Current
  BY <1>1
<1>3. CallInv(c) /\ WorkerInv /\ TypeOK /\ HasJob(c)
  BY <1>1, <1>2 DEF IInv
<1>4. TypeOK'
  BY <1>1, <1>2, <1>3, JobEnds, ItemFacts, WorkerAssumption
  DEF TypeOK, PutFull, Goto, WorkerPc, CallerPc, Slot, callerVars
<1>5. JobsAreDistinct' /\ WorkerInv'
  BY <1>1, <1>2, <1>3, JobEnds, SameJobs, ItemFacts
  DEF WorkerInv, TypeOK, PutFull, Goto, callerVars
<1>6. CallInv(c)'
  BY <1>1, <1>2, <1>3, JobEnds, SameJobs, ItemFacts, SlotFacts, WorkerAssumption
  DEF CallInv, Live, NotStarted, Counted, Numbered, Marked, Prompt, Queued,
      Holding, Serves, WorkerInv, TypeOK, PutFull, Goto, callerVars,
      InOrder, Slot
<1>7. ASSUME NEW d \in Callers, d # c PROVE CallInv(d)'
  BY <1>1, <1>2, <1>3, <1>7, WorkerFrame
  DEF TypeOK, PutFull, Goto, callerVars, Same
<1> QED BY <1>4, <1>5, <1>6, <1>7 DEF IInv

(* The item is put. *)
LEMMA PutItemInv ==
  ASSUME IInv, PutItem
  PROVE  IInv'
<1>1. /\ jobs # <<>> /\ jobs \in Seq(Callers) /\ JobsAreDistinct
      /\ Current \in Callers /\ HasJob(Current)
  BY CurrentHasJob DEF IInv, TypeOK, WorkerInv, PutItem
<1>2. PICK c \in Callers : c = Current
  BY <1>1
<1>3. CallInv(c) /\ WorkerInv /\ TypeOK /\ HasJob(c)
  BY <1>1, <1>2 DEF IInv
<1>4. /\ wpc = "putting" /\ queue[c] = <<>> /\ queue'[c] = <<held>> /\ held \in Items
      /\ \A d \in Callers : d # c => queue'[d] = queue[d]
      /\ UNCHANGED <<active, pc, stop, generated, got, late>>
  BY <1>2, <1>3 DEF PutItem, WorkerInv, TypeOK
<1>5. \/ IsValue(held) /\ wpc' = "next" /\ held' = None /\ UNCHANGED jobs
      \/ held = Error /\ wpc' = "closing" /\ held' = held /\ UNCHANGED jobs
      \/ held = Done /\ wpc' = "idle" /\ held' = None /\ jobs' = Tail(jobs)
  BY <1>4, ItemFacts DEF PutItem, EndJob
<1>6. TypeOK'
  <2>1. queue' \in [Callers -> Slot]
    BY <1>2, <1>3, <1>4 DEF PutItem, TypeOK, Slot
  <2> QED BY <1>1, <1>3, <1>4, <1>5, <2>1, JobEnds DEF TypeOK, Slot, WorkerPc
<1>7. JobsAreDistinct' /\ WorkerInv'
  BY <1>1, <1>2, <1>3, JobEnds, SameJobs, ItemFacts
  DEF WorkerInv, TypeOK, PutItem, EndJob, Goto, callerVars
<1>8. CallInv(c)'
  <2>1. /\ Serves(c) /\ got[c] \in Seq(1..MaxItems)
        /\ queue'[c] # <<>> /\ Head(queue'[c]) = held
    BY <1>1, <1>2, <1>3, <1>4 DEF Serves, TypeOK
  <2> USE <1>1, <1>2, <1>3, <1>4, <2>1, ItemFacts
      DEF CallInv, Live, NotStarted, Counted, Numbered, Marked, Prompt, Queued,
          Holding, Serves, InOrder
  <2>2. CASE IsValue(held) /\ wpc' = "next" /\ held' = None /\ UNCHANGED jobs
    BY <2>2, SameJobs
  <2>3. CASE held = Error /\ wpc' = "closing" /\ held' = held /\ UNCHANGED jobs
    BY <2>3, SameJobs
  <2>4. CASE held = Done /\ wpc' = "idle" /\ held' = None /\ jobs' = Tail(jobs)
    BY <2>4, JobEnds
  <2> QED BY <1>5, <2>2, <2>3, <2>4
<1>9. ASSUME NEW d \in Callers, d # c PROVE CallInv(d)'
  BY <1>1, <1>2, <1>3, <1>9, WorkerFrame
  DEF TypeOK, PutItem, EndJob, Goto, callerVars, Same
<1> QED BY <1>6, <1>7, <1>8, <1>9 DEF IInv

(* The finally block. *)
LEMMA CloseIteratorInv ==
  ASSUME IInv, CloseIterator
  PROVE  IInv'
<1>1. /\ jobs # <<>> /\ jobs \in Seq(Callers) /\ JobsAreDistinct
      /\ Current \in Callers /\ HasJob(Current)
  BY CurrentHasJob DEF IInv, TypeOK, WorkerInv, CloseIterator
<1>2. PICK c \in Callers : c = Current
  BY <1>1
<1>3. CallInv(c) /\ WorkerInv /\ TypeOK /\ HasJob(c)
  BY <1>1, <1>2 DEF IInv
<1>4. TypeOK'
  BY <1>1, <1>2, <1>3, JobEnds, ItemFacts, WorkerAssumption
  DEF TypeOK, CloseIterator, EndJob, Goto, WorkerPc, CallerPc, Slot, callerVars
<1>5. JobsAreDistinct' /\ WorkerInv'
  BY <1>1, <1>2, <1>3, JobEnds, SameJobs, ItemFacts
  DEF WorkerInv, TypeOK, CloseIterator, EndJob, Goto, callerVars
<1>6. CallInv(c)'
  BY <1>1, <1>2, <1>3, JobEnds, SameJobs, ItemFacts, SlotFacts, WorkerAssumption
  DEF CallInv, Live, NotStarted, Counted, Numbered, Marked, Prompt, Queued,
      Holding, Serves, WorkerInv, TypeOK, CloseIterator, EndJob, Goto, callerVars,
      InOrder, Slot
<1>7. ASSUME NEW d \in Callers, d # c PROVE CallInv(d)'
  BY <1>1, <1>2, <1>3, <1>7, WorkerFrame
  DEF TypeOK, CloseIterator, EndJob, Goto, callerVars, Same
<1> QED BY <1>4, <1>5, <1>6, <1>7 DEF IInv

(* A call of run(). *)
LEMMA RunInv ==
  ASSUME IInv, NEW c \in Callers, Run(c)
  PROVE  IInv'
<1>1. /\ CallInv(c) /\ WorkerInv /\ TypeOK /\ jobs \in Seq(Callers)
      /\ JobsAreDistinct
  BY DEF IInv, TypeOK
<1>2. TypeOK'
  BY <1>1, ItemFacts, SlotFacts, JobComes
  DEF TypeOK, Run, Goto, CallerPc, Slot, workerVars, CallInv, Live
<1>3. JobsAreDistinct' /\ WorkerInv'
  BY <1>1, JobComes, SameJobs DEF WorkerInv, TypeOK, Run, workerVars, CallInv, Live
<1>4. CallInv(c)'
  <2>1. /\ pc[c] = "idle" /\ ~HasJob(c) /\ HasJob(c)' /\ ~Serves(c)
        /\ pc'[c] = "running"
        /\ UNCHANGED <<wpc, held, queue, stop, generated, got, late>>
    <3>1. pc[c] = "idle" /\ ~HasJob(c)
      BY <1>1 DEF Run, CallInv, Live
    <3>2. HasJob(c)'
      BY <1>1, <3>1, JobComes DEF Run
    <3>3. ~Serves(c)
      BY <1>1, <3>1, CurrentHasJob DEF Serves, WorkerInv
    <3> QED BY <1>1, <3>1, <3>2, <3>3 DEF Run, Goto, workerVars, TypeOK
  <2>2. ~Serves(c)'
    BY <1>1, <2>1, JobComes DEF Run, Serves, WorkerInv, workerVars
  <2>3. Live(c)' /\ NotStarted(c)' /\ Prompt(c)' /\ Numbered(c)'
    BY <1>1, <2>1, <2>2
    DEF CallInv, Live, NotStarted, Numbered, Prompt, Queued, Holding, InOrder
  <2>4. queue[c] = <<>> /\ generated[c] = 0 /\ got[c] = <<>> /\ ~stop[c]
    BY <1>1, <2>1 DEF CallInv, NotStarted, Live
  <2>5. Counted(c)'
    BY <2>1, <2>2, <2>4, SlotsDiffer DEF Counted, Queued, Holding
  <2>6. Marked(c)'
    BY <2>1, <2>2, <2>4, SlotsDiffer, ItemFacts DEF Marked
  <2> QED BY <2>3, <2>5, <2>6 DEF CallInv
<1>5. ASSUME NEW d \in Callers, d # c PROVE CallInv(d)'
  BY <1>1, <1>5, CallerFrame DEF TypeOK, Run, Goto, Same, CallInv, Live
<1> QED BY <1>2, <1>3, <1>4, <1>5 DEF IInv

(* A call of iterate(). *)
LEMMA IterateInv ==
  ASSUME IInv, NEW c \in Callers, Iterate(c)
  PROVE  IInv'
<1>1. /\ CallInv(c) /\ WorkerInv /\ TypeOK /\ jobs \in Seq(Callers)
      /\ JobsAreDistinct
  BY DEF IInv, TypeOK
<1>2. TypeOK'
  BY <1>1, ItemFacts, SlotFacts, JobComes
  DEF TypeOK, Iterate, Goto, CallerPc, Slot, workerVars, CallInv, Live
<1>3. JobsAreDistinct' /\ WorkerInv'
  BY <1>1, JobComes, SameJobs DEF WorkerInv, TypeOK, Iterate, workerVars, CallInv, Live
<1>4. CallInv(c)'
  <2>1. /\ pc[c] = "idle" /\ ~HasJob(c) /\ HasJob(c)' /\ ~Serves(c)
        /\ pc'[c] = "getting"
        /\ UNCHANGED <<wpc, held, queue, stop, generated, got, late>>
    <3>1. pc[c] = "idle" /\ ~HasJob(c)
      BY <1>1 DEF Iterate, CallInv, Live
    <3>2. HasJob(c)'
      BY <1>1, <3>1, JobComes DEF Iterate
    <3>3. ~Serves(c)
      BY <1>1, <3>1, CurrentHasJob DEF Serves, WorkerInv
    <3> QED BY <1>1, <3>1, <3>2, <3>3 DEF Iterate, Goto, workerVars, TypeOK
  <2>2. ~Serves(c)'
    BY <1>1, <2>1, JobComes DEF Iterate, Serves, WorkerInv, workerVars
  <2>3. Live(c)' /\ NotStarted(c)' /\ Prompt(c)' /\ Numbered(c)'
    BY <1>1, <2>1, <2>2
    DEF CallInv, Live, NotStarted, Numbered, Prompt, Queued, Holding, InOrder
  <2>4. queue[c] = <<>> /\ generated[c] = 0 /\ got[c] = <<>> /\ ~stop[c]
    BY <1>1, <2>1 DEF CallInv, NotStarted, Live
  <2>5. Counted(c)'
    BY <2>1, <2>2, <2>4, SlotsDiffer DEF Counted, Queued, Holding
  <2>6. Marked(c)'
    BY <2>1, <2>2, <2>4, SlotsDiffer, ItemFacts DEF Marked
  <2> QED BY <2>3, <2>5, <2>6 DEF CallInv
<1>5. ASSUME NEW d \in Callers, d # c PROVE CallInv(d)'
  BY <1>1, <1>5, CallerFrame DEF TypeOK, Iterate, Goto, Same, CallInv, Live
<1> QED BY <1>2, <1>3, <1>4, <1>5 DEF IInv

(* An item is received. *)
LEMMA GetInv ==
  ASSUME IInv, NEW c \in Callers, Get(c)
  PROVE  IInv'
<1>1. /\ CallInv(c) /\ WorkerInv /\ TypeOK /\ jobs \in Seq(Callers)
      /\ JobsAreDistinct
  BY DEF IInv, TypeOK
<1>2. /\ queue[c] \in Slot /\ queue[c] # <<>>
      /\ pc[c] = "getting" /\ ~stop[c] /\ got[c] \in Seq(1..MaxItems)
      /\ \A d \in Callers : d # c => pc'[d] = pc[d] /\ got'[d] = got[d]
      /\ UNCHANGED <<jobs, wpc, held, active, stop, generated, late>>
  BY <1>1 DEF Get, Goto, TypeOK, Slot, CallInv, Live, workerVars
<1>3. PICK item \in Items : item = Head(queue[c]) /\ queue[c] = <<item>>
  BY <1>2, SlotFacts
<1>4. queue' = [queue EXCEPT ![c] = <<>>] /\ queue'[c] = <<>>
  BY <1>1, <1>2, SlotFacts DEF Get, TypeOK
<1>5. \/ /\ IsValue(item) /\ pc'[c] = "yielded"
         /\ got' = [got EXCEPT ![c] = Append(@, item.number)]
         /\ got'[c] = Append(got[c], item.number)
      \/ item = Done /\ pc'[c] = "joining_done" /\ UNCHANGED got
      \/ item = Error /\ pc'[c] = "joining_error" /\ UNCHANGED got
  BY <1>1, <1>3, ItemFacts DEF Get, Goto, TypeOK
<1>6. TypeOK'
  <2>1. queue' \in [Callers -> Slot]
    BY <1>1, <1>4 DEF TypeOK, Slot
  <2>2. pc' \in [Callers -> CallerPc]
    BY <1>1 DEF Get, Goto, TypeOK, CallerPc
  <2>3. got' \in [Callers -> Seq(1..MaxItems)]
    <3>1. got'[c] \in Seq(1..MaxItems)
      <4>1. IsValue(item) => item.number \in 1..MaxItems
        BY <1>3, ItemFacts
      <4>2. \A k \in 1..MaxItems : Append(got[c], k) \in Seq(1..MaxItems)
        BY <1>2
      <4> QED BY <1>2, <1>5, <4>1, <4>2
    <3> QED BY <1>1, <1>5, <3>1 DEF TypeOK
  <2> QED BY <1>1, <1>2, <2>1, <2>2, <2>3 DEF TypeOK, Slot
<1>7. JobsAreDistinct' /\ WorkerInv'
  BY <1>1, JobComes, SameJobs DEF WorkerInv, TypeOK, Get, workerVars, CallInv, Live
<1>8. CallInv(c)'
  <2>1. (HasJob(c)' <=> HasJob(c)) /\ (Serves(c)' <=> Serves(c))
    BY <1>2, SameJobs DEF Serves
  <2>2. Holding(c)' <=> Holding(c)
    BY <2>1, <1>2 DEF Holding
  <2>3. CASE IsValue(item)
    <3>1. /\ item = Value(Len(got[c]) + 1) /\ item.number = Len(got[c]) + 1
          /\ Len(got[c]) \in Nat
      <4>1. Queued(c) /\ item = Value(Len(got[c]) + 1) /\ Len(got[c]) \in Nat
        BY <1>1, <1>2, <1>3, <2>3 DEF CallInv, Numbered, Queued
      <4>2. Value(Len(got[c]) + 1).number = Len(got[c]) + 1
        BY DEF Value
      <4> QED BY <4>1, <4>2
    <3>2. /\ pc'[c] = "yielded" /\ Len(got'[c]) = Len(got[c]) + 1
          /\ got'[c] = Append(got[c], Len(got[c]) + 1)
      BY <1>5, <1>2, <2>3, <3>1, ItemFacts
    <3>3. InOrder(got'[c])
      BY <1>1, <1>2, <3>1, <3>2 DEF CallInv, Numbered, InOrder
    <3>4. Counted(c)'
      <4>1. Queued(c) /\ ~Queued(c)'
        BY <1>2, <1>3, <1>4, <2>3 DEF Queued
      <4>2. generated[c] = Len(got[c]) + 1 + (IF Holding(c) THEN 1 ELSE 0)
        BY <1>1, <1>2, <4>1 DEF CallInv, Counted
      <4> QED BY <1>1, <1>2, <2>2, <3>1, <3>2, <4>1, <4>2 DEF Counted, TypeOK
    <3>5. Live(c)' /\ NotStarted(c)' /\ Prompt(c)'
      BY <1>1, <1>2, <1>4, <2>1, <3>2
      DEF CallInv, Live, NotStarted, Prompt
    <3>6. Numbered(c)'
      BY <1>1, <1>2, <1>4, <2>2, <3>3 DEF CallInv, Numbered, Queued
    <3>7. Marked(c)'
      BY <1>1, <1>2, <1>4, <2>1, <3>2, SlotsDiffer, ItemFacts DEF CallInv, Marked
    <3> QED BY <3>4, <3>5, <3>6, <3>7 DEF CallInv
  <2>4. CASE item \in {Done, Error}
    <3>1. ~Queued(c) /\ ~Queued(c)' /\ UNCHANGED got /\ queue[c] = <<item>>
      BY <1>3, <1>4, <1>5, <2>4, ItemFacts DEF Queued
    <3>2. Counted(c)'
      BY <1>1, <1>2, <2>2, <3>1 DEF CallInv, Counted
    <3>3. Marked(c)'
      <4>1. item = Done => pc'[c] = "joining_done" /\ ~HasJob(c)
        BY <1>1, <1>5, <2>4, <3>1, ItemFacts DEF CallInv, Marked
      <4>2. item = Error =>
              /\ pc'[c] = "joining_error"
              /\ HasJob(c) => Serves(c) /\ wpc = "closing" /\ held = Error
        BY <1>1, <1>5, <2>4, <3>1, ItemFacts DEF CallInv, Marked
      <4>3. /\ queue'[c] = <<>> /\ <<>> # <<Done>> /\ <<>> # <<Error>>
            /\ stop'[c] = stop[c] /\ wpc' = wpc /\ held' = held
        BY <1>2, <1>4, SlotsDiffer, ItemFacts
      <4> QED BY <1>1, <2>1, <2>4, <4>1, <4>2, <4>3 DEF CallInv, Marked
    <3>4. Live(c)'
      <4>1. item = Done => ~HasJob(c)
        BY <1>1, <2>4, <3>1, ItemFacts DEF CallInv, Marked
      <4> QED BY <1>1, <1>2, <1>5, <2>1, <2>4, <4>1, ItemFacts DEF CallInv, Live
    <3>5. NotStarted(c)' /\ Prompt(c)'
      BY <1>1, <1>2, <1>5, <2>1, <2>4, ItemFacts
      DEF CallInv, NotStarted, Prompt
    <3>6. Numbered(c)'
      BY <1>1, <1>2, <2>2, <3>1 DEF CallInv, Numbered
    <3> QED BY <3>2, <3>3, <3>4, <3>5, <3>6 DEF CallInv
  <2> QED BY <1>5, <2>3, <2>4
<1>9. ASSUME NEW d \in Callers, d # c PROVE CallInv(d)'
  BY <1>1, <1>9, CallerFrame DEF TypeOK, Get, Goto, Same, CallInv, Live
<1> QED BY <1>6, <1>7, <1>8, <1>9 DEF IInv

(* The future of a stream that has ended. *)
LEMMA JoinInv ==
  ASSUME IInv, NEW c \in Callers, Join(c)
  PROVE  IInv'
<1>1. /\ CallInv(c) /\ WorkerInv /\ TypeOK /\ jobs \in Seq(Callers)
      /\ JobsAreDistinct
  BY DEF IInv, TypeOK
<1>2. TypeOK'
  BY <1>1, ItemFacts, SlotFacts, JobComes
  DEF TypeOK, Join, Goto, CallerPc, Slot, workerVars, CallInv, Live
<1>3. JobsAreDistinct' /\ WorkerInv'
  BY <1>1, JobComes, SameJobs DEF WorkerInv, TypeOK, Join, workerVars, CallInv, Live
<1>4. CallInv(c)'
  BY <1>1, JobComes, SameJobs, ItemFacts, SlotFacts
  DEF CallInv, Live, NotStarted, Counted, Numbered, Marked, Prompt, Queued,
      Holding, Serves, WorkerInv, TypeOK, Join, Goto, workerVars, InOrder, Slot
<1>5. ASSUME NEW d \in Callers, d # c PROVE CallInv(d)'
  BY <1>1, <1>5, CallerFrame DEF TypeOK, Join, Goto, Same, CallInv, Live
<1> QED BY <1>2, <1>3, <1>4, <1>5 DEF IInv

(* The consumer asks for more. *)
LEMMA ResumeInv ==
  ASSUME IInv, NEW c \in Callers, Resume(c)
  PROVE  IInv'
<1>1. /\ CallInv(c) /\ WorkerInv /\ TypeOK /\ jobs \in Seq(Callers)
      /\ JobsAreDistinct
  BY DEF IInv, TypeOK
<1>2. TypeOK'
  BY <1>1, ItemFacts, SlotFacts, JobComes
  DEF TypeOK, Resume, Goto, CallerPc, Slot, workerVars, CallInv, Live
<1>3. JobsAreDistinct' /\ WorkerInv'
  BY <1>1, JobComes, SameJobs DEF WorkerInv, TypeOK, Resume, workerVars, CallInv, Live
<1>4. CallInv(c)'
  BY <1>1, JobComes, SameJobs, ItemFacts, SlotFacts
  DEF CallInv, Live, NotStarted, Counted, Numbered, Marked, Prompt, Queued,
      Holding, Serves, WorkerInv, TypeOK, Resume, Goto, workerVars, InOrder, Slot
<1>5. ASSUME NEW d \in Callers, d # c PROVE CallInv(d)'
  BY <1>1, <1>5, CallerFrame DEF TypeOK, Resume, Goto, Same, CallInv, Live
<1> QED BY <1>2, <1>3, <1>4, <1>5 DEF IInv

(* The consumer closes. *)
LEMMA CloseInv ==
  ASSUME IInv, NEW c \in Callers, Close(c)
  PROVE  IInv'
<1>1. /\ CallInv(c) /\ WorkerInv /\ TypeOK /\ jobs \in Seq(Callers)
      /\ JobsAreDistinct
  BY DEF IInv, TypeOK
<1>2. TypeOK'
  BY <1>1, ItemFacts, SlotFacts, JobComes
  DEF TypeOK, Close, Goto, CallerPc, Slot, workerVars, CallInv, Live
<1>3. JobsAreDistinct' /\ WorkerInv'
  BY <1>1, JobComes, SameJobs DEF WorkerInv, TypeOK, Close, workerVars, CallInv, Live
<1>4. CallInv(c)'
  BY <1>1, JobComes, SameJobs, ItemFacts, SlotFacts
  DEF CallInv, Live, NotStarted, Counted, Numbered, Marked, Prompt, Queued,
      Holding, Serves, WorkerInv, TypeOK, Close, Goto, workerVars, InOrder, Slot
<1>5. ASSUME NEW d \in Callers, d # c PROVE CallInv(d)'
  BY <1>1, <1>5, CallerFrame DEF TypeOK, Close, Goto, Same, CallInv, Live
<1> QED BY <1>2, <1>3, <1>4, <1>5 DEF IInv

(* The future of a stopped stream. *)
LEMMA JoinStoppedInv ==
  ASSUME IInv, NEW c \in Callers, JoinStopped(c)
  PROVE  IInv'
<1>1. /\ CallInv(c) /\ WorkerInv /\ TypeOK /\ jobs \in Seq(Callers)
      /\ JobsAreDistinct
  BY DEF IInv, TypeOK
<1>2. TypeOK'
  BY <1>1, ItemFacts, SlotFacts, JobComes
  DEF TypeOK, JoinStopped, Goto, CallerPc, Slot, workerVars, CallInv, Live
<1>3. JobsAreDistinct' /\ WorkerInv'
  BY <1>1, JobComes, SameJobs DEF WorkerInv, TypeOK, JoinStopped, workerVars, CallInv, Live
<1>4. CallInv(c)'
  BY <1>1, JobComes, SameJobs, ItemFacts, SlotFacts
  DEF CallInv, Live, NotStarted, Counted, Numbered, Marked, Prompt, Queued,
      Holding, Serves, WorkerInv, TypeOK, JoinStopped, Goto, workerVars, InOrder, Slot
<1>5. ASSUME NEW d \in Callers, d # c PROVE CallInv(d)'
  BY <1>1, <1>5, CallerFrame DEF TypeOK, JoinStopped, Goto, Same, CallInv, Live
<1> QED BY <1>2, <1>3, <1>4, <1>5 DEF IInv
-----------------------------------------------------------------------------
(* Nothing is queued at first. *)
LEMMA InitInv == Init => IInv
<1> SUFFICES ASSUME Init PROVE IInv
  OBVIOUS
<1>1. TypeOK
  <2>1. jobs \in Seq(Callers) /\ 0 \in 0..MaxItems /\ <<>> \in Seq(1..MaxItems)
    BY WorkerAssumption DEF Init
  <2> QED BY <2>1 DEF Init, TypeOK, WorkerPc, CallerPc
<1>2. JobsAreDistinct /\ \A c \in Callers : ~HasJob(c)
  BY DEF Init, JobsAreDistinct, HasJob
<1>3. WorkerInv
  BY DEF Init, WorkerInv
<1>4. ASSUME NEW c \in Callers PROVE CallInv(c)
  <2>1. /\ queue[c] = <<>> /\ got[c] = <<>> /\ generated[c] = 0 /\ late[c] = 0
        /\ ~stop[c] /\ pc[c] = "idle" /\ ~Serves(c)
    BY DEF Init, Serves
  <2>2. Live(c) /\ NotStarted(c) /\ Marked(c) /\ Prompt(c)
    BY <1>2, <2>1, SlotsDiffer, ItemFacts DEF Live, NotStarted, Marked, Prompt
  <2>3. Counted(c) /\ Numbered(c)
    BY <2>1, SlotsDiffer DEF Counted, Numbered, Queued, Holding, InOrder
  <2> QED BY <2>2, <2>3 DEF CallInv
<1> QED BY <1>1, <1>2, <1>3, <1>4 DEF IInv

(* A nested run() finds the thread marked, and calls its function.          *)
LEMMA NestedRunIsCall ==
  ASSUME IInv, NestedRun
  PROVE  UNCHANGED vars
BY DEF IInv, WorkerInv, NestedRun, vars, workerVars

(* A step that changes nothing. *)
LEMMA StutterInv ==
  ASSUME IInv, UNCHANGED vars
  PROVE  IInv'
<1> USE DEF vars, workerVars, callerVars
<1>1. TypeOK' /\ WorkerInv' /\ JobsAreDistinct'
  BY SameJobs DEF IInv, TypeOK, WorkerInv
<1>2. ASSUME NEW c \in Callers PROVE CallInv(c)'
  BY <1>2, SameJobs, SameInv DEF IInv, Same, Serves
<1> QED BY <1>1, <1>2 DEF IInv

(* Every step preserves the invariant: one lemma per action above. *)
LEMMA NextInv == IInv /\ [Next]_vars => IInv'
<1> SUFFICES ASSUME IInv, [Next]_vars PROVE IInv'
  OBVIOUS
<1>1. ASSUME NEW c \in Callers,
             Run(c) \/ Iterate(c) \/ CallerStep(c) \/ ConsumerStep(c)
      PROVE  IInv'
  BY <1>1, RunInv, IterateInv, GetInv, JoinInv, JoinStoppedInv, ResumeInv,
     CloseInv
  DEF CallerStep, ConsumerStep
<1>2. CASE WorkerStep
  BY <1>2, TakeInv, EndRunInv, GenerateInv, ExhaustInv, RaiseInv, CheckInv,
     PutStoppedInv, PutTryInv, PutFullInv, PutItemInv, CloseIteratorInv
  DEF WorkerStep
<1>3. CASE NestedRun \/ UNCHANGED vars
  BY <1>3, NestedRunIsCall, StutterInv
<1> QED BY <1>1, <1>2, <1>3 DEF Next

(* The inductive invariant: where each item is, and whose job it belongs to. *)
THEOREM WorkerInvariant == Spec => []IInv
BY InitInv, NextInv, PTL DEF Spec
-----------------------------------------------------------------------------
(* Every variable has its type, and no queue holds more than one item.      *)
THEOREM TypeCorrect == Spec => []TypeOK
<1>1. IInv => TypeOK
  BY DEF IInv
<1> QED BY <1>1, WorkerInvariant, PTL

(* No call that has ended leaves its job to the executor.                   *)
THEOREM NoJobIsLeft == Spec => []NothingLeftBehind
<1>1. IInv => NothingLeftBehind
  BY DEF IInv, CallInv, Live, NothingLeftBehind, Ended
<1> QED BY <1>1, WorkerInvariant, PTL

(* At most one item is generated after a stream was told to stop.           *)
THEOREM StopIsPrompt == Spec => []StopsPromptly
<1>1. IInv => StopsPromptly
  <2> SUFFICES ASSUME IInv, NEW c \in Callers PROVE late[c] <= 1
    BY DEF StopsPromptly
  <2>1. late[c] = 0 \/ late[c] = 1
    BY DEF IInv, CallInv, Prompt
  <2> QED BY <2>1
<1> QED BY <1>1, WorkerInvariant, PTL

(* A nested run() never waits for the thread it is on.                      *)
THEOREM NoSelfWait == Spec => []NeverWaitsForItself
<1>1. IInv => NeverWaitsForItself
  BY DEF IInv, WorkerInv, NeverWaitsForItself
<1> QED BY <1>1, WorkerInvariant, PTL
-----------------------------------------------------------------------------
(* The refinement: in IInv got is the numbers from one on, so that what has *)
(* been delivered is its length.                                            *)
Status    == [c \in Callers |-> StatusOf(c)]
Delivered == [c \in Callers |-> IF InOrder(got[c]) THEN Len(got[c]) ELSE None]

(* What has been received is in order, so that its length is its last number. *)
LEMMA Mapping ==
  ASSUME IInv, NEW c \in Callers
  PROVE  Delivered[c] = Len(got[c])
BY DEF Delivered, IInv, CallInv, Numbered

(* The first state is one of OrderedStream. *)
LEMMA InitStream == Init => Stream!Init
<1> SUFFICES ASSUME Init PROVE Stream!Init
  OBVIOUS
<1>1. ASSUME NEW c \in Callers
      PROVE  /\ StatusOf(c) = "new"
             /\ (IF InOrder(got[c]) THEN Len(got[c]) ELSE None) = 0
  BY SlotsDiffer DEF Init, StatusOf, InOrder
<1>2. generated = [c \in Callers |-> 0]
  BY DEF Init
<1> QED BY <1>1, <1>2 DEF Stream!Init

(* A step that is not the stream's: nothing of it changes.                  *)
LEMMA StreamStutters ==
  ASSUME UNCHANGED <<got, generated>>,
         \A c \in Callers : StatusOf(c)' = StatusOf(c)
  PROVE  UNCHANGED <<Status, generated, Delivered>>
BY DEF Status, Delivered

(* A step that moves one call, and delivers or generates nothing.           *)
LEMMA StreamMoves ==
  ASSUME UNCHANGED <<got, generated>>, NEW c \in Callers, NEW to,
         StatusOf(c)' = to,
         \A d \in Callers : d # c => StatusOf(d)' = StatusOf(d)
  PROVE  /\ Status' = [Status EXCEPT ![c] = to] /\ Status[c] = StatusOf(c)
         /\ UNCHANGED <<generated, Delivered>>
BY DEF Status, Delivered

(* run() and iterate() open a call. *)
LEMMA OpenStream ==
  ASSUME IInv, NEW c \in Callers, Run(c) \/ Iterate(c)
  PROVE  Stream!Next
<1>1. /\ pc[c] = "idle" /\ ~stop[c] /\ pc'[c] \in {"running", "getting"}
      /\ \A d \in Callers : d # c => pc'[d] = pc[d]
      /\ UNCHANGED <<stop, got, generated>>
  BY DEF Run, Iterate, Goto, IInv, TypeOK, CallInv, Live
<1>2. /\ StatusOf(c) = "new" /\ StatusOf(c)' = "open"
      /\ \A d \in Callers : d # c => StatusOf(d)' = StatusOf(d)
  BY <1>1 DEF StatusOf, Ended
<1>3. Stream!Open(c)
  BY <1>1, <1>2, StreamMoves DEF Stream!Open, Stream!Move, Status, Delivered
<1> QED BY <1>3 DEF Stream!Next

(* A value is delivered; _Done and _Error deliver nothing.                  *)
LEMMA GetStream ==
  ASSUME IInv, IInv', NEW c \in Callers, Get(c)
  PROVE  Stream!Next \/ UNCHANGED Stream!streamVars
<1>1. /\ pc[c] = "getting" /\ ~stop[c] /\ queue[c] # <<>> /\ queue[c] \in Slot
      /\ got[c] \in Seq(1..MaxItems) /\ generated[c] \in Nat
      /\ UNCHANGED <<stop, generated>>
      /\ \A d \in Callers : d # c => pc'[d] = pc[d] /\ got'[d] = got[d]
  <2>1. TypeOK /\ pc[c] = "getting" /\ Live(c)
    BY DEF Get, IInv, CallInv
  <2> QED BY <2>1 DEF Get, Goto, TypeOK, Live, Slot
<1>2. Head(queue[c]) \in Items
  BY <1>1, SlotFacts
<1>3. CASE /\ IsValue(Head(queue[c])) /\ pc'[c] = "yielded"
           /\ got'[c] = Append(got[c], Head(queue[c]).number)
  <2>1. /\ Delivered[c] = Len(got[c]) /\ Delivered'[c] = Len(got'[c])
        /\ Len(got'[c]) = Len(got[c]) + 1 /\ Len(got[c]) \in Nat
    BY <1>1, <1>3, Mapping DEF Delivered, IInv, CallInv, Numbered
  <2>2. Len(got[c]) < generated[c]
    <3>1. Queued(c) /\ Counted(c)
      BY <1>1, <1>3 DEF Queued, IInv, CallInv
    <3>2. generated[c] = Len(got[c]) + 1 + (IF Holding(c) THEN 1 ELSE 0)
      BY <1>1, <2>1, <3>1 DEF Counted
    <3>3. generated[c] = Len(got[c]) + 1 \/ generated[c] = Len(got[c]) + 1 + 1
      <4>1. CASE Holding(c)
        BY <3>2, <4>1
      <4>2. CASE ~Holding(c)
        <5>1. generated[c] = Len(got[c]) + 1 + 0
          BY <3>2, <4>2
        <5> QED BY <2>1, <5>1
      <4> QED BY <4>1, <4>2
    <3> QED BY <1>1, <2>1, <3>3
  <2>3. Status' = Status /\ Status[c] = "open"
    BY <1>1, <1>3 DEF Status, StatusOf, Ended
  <2>4. Delivered' = [Delivered EXCEPT ![c] = Delivered[c] + 1]
    BY <1>1, <2>1 DEF Delivered
  <2>5. Stream!Deliver(c)
    BY <1>1, <2>1, <2>2, <2>3, <2>4 DEF Stream!Deliver, Status, Delivered
  <2> QED BY <2>5 DEF Stream!Next
<1>4. CASE pc'[c] \in {"joining_done", "joining_error"} /\ UNCHANGED got
  <2>1. \A d \in Callers : StatusOf(d)' = StatusOf(d)
    BY <1>1, <1>4 DEF StatusOf, Ended
  <2> QED
    BY <1>1, <1>4, <2>1, StreamStutters
    DEF Stream!streamVars, Status, Delivered
<1> QED
  BY <1>1, <1>2, <1>3, <1>4, ItemFacts DEF Get, Goto, IInv, TypeOK

(* A call that returns or raises has delivered all that was generated.      *)
LEMMA CompleteStream ==
  ASSUME IInv, NEW c \in Callers, pc[c] \in {"running", "joining_done", "joining_error"},
         ~HasJob(c) \/ pc[c] = "running",
         NEW to \in {"returned", "raised"}, Goto(c, to),
         UNCHANGED <<stop, got, generated>>
  PROVE  Stream!Next
<1>1. ~stop[c] /\ Len(got[c]) = generated[c] /\ pc'[c] = to
  <2>1. ~Queued(c) /\ ~Holding(c) /\ ~stop[c]
    <3>1. CallInv(c) /\ WorkerInv /\ TypeOK
      BY DEF IInv
    <3>2. queue[c] = <<>> /\ ~stop[c]
      BY <3>1 DEF CallInv, NotStarted, Marked, Live
    <3>3. CASE pc[c] = "running"
      BY <3>1, <3>2, <3>3 DEF CallInv, Live, Holding, Queued
    <3>4. CASE ~HasJob(c)
      <4>1. ~Serves(c)
        BY <3>1, <3>4, CurrentHasJob DEF Serves, WorkerInv, TypeOK
      <4> QED BY <3>2, <4>1 DEF Holding, Queued
    <3> QED BY <3>3, <3>4
  <2>2. generated[c] = Len(got[c]) + 0 + 0
    BY <2>1 DEF IInv, CallInv, Counted
  <2>3. Len(got[c]) \in Nat /\ pc'[c] = to
    BY DEF IInv, TypeOK, Goto
  <2> QED BY <2>1, <2>2, <2>3
<1>2. /\ StatusOf(c) = "open" /\ StatusOf(c)' = to
      /\ \A d \in Callers : d # c => StatusOf(d)' = StatusOf(d)
  BY <1>1 DEF StatusOf, Ended, IInv, TypeOK, Goto
<1>3. Stream!Complete(c)
  BY <1>1, <1>2, StreamMoves, Mapping
  DEF Stream!Complete, Stream!Move, Status, Delivered
<1> QED BY <1>3 DEF Stream!Next

(* A close, and its end. *)
LEMMA CloseStream ==
  ASSUME IInv, NEW c \in Callers, Close(c) \/ JoinStopped(c)
  PROVE  Stream!Next
<1>1. \/ StatusOf(c) = "open" /\ StatusOf(c)' = "closing"
      \/ StatusOf(c) = "closing" /\ StatusOf(c)' = "closed"
  BY DEF Close, JoinStopped, Goto, StatusOf, Ended, IInv, TypeOK, CallInv, Live
<1>2. /\ \A d \in Callers : d # c => StatusOf(d)' = StatusOf(d)
      /\ UNCHANGED <<got, generated>>
  BY DEF Close, JoinStopped, Goto, StatusOf, IInv, TypeOK
<1>3. Stream!Close(c)
  BY <1>1, <1>2, StreamMoves DEF Stream!Close, Stream!Move, Status, Delivered
<1> QED BY <1>3 DEF Stream!Next

(* An item is generated for an open call, or for one that closes. *)
LEMMA GenerateStream ==
  ASSUME IInv, Generate
  PROVE  Stream!Next
<1>1. PICK c \in Callers : c = Current /\ HasJob(c)
  BY CurrentHasJob DEF IInv, TypeOK, WorkerInv, Generate
<1>2. StatusOf(c) \in {"open", "closing"}
  BY <1>1 DEF StatusOf, Ended, IInv, CallInv, Live
<1>3. /\ generated[c] < MaxItems
      /\ generated' = [generated EXCEPT ![c] = generated[c] + 1]
      /\ UNCHANGED <<pc, stop, got>>
  BY <1>1 DEF Generate
<1>4. \A d \in Callers : StatusOf(d)' = StatusOf(d)
  BY <1>3 DEF StatusOf
<1>5. UNCHANGED <<Status, Delivered>> /\ Status[c] = StatusOf(c)
  BY <1>3, <1>4 DEF Status, Delivered
<1>6. Stream!Generate(c)
  BY <1>2, <1>3, <1>5 DEF Stream!Generate, Status, Delivered
<1> QED BY <1>6 DEF Stream!Next

(* Every step is one of OrderedStream, or leaves its state alone. *)
LEMMA NextStream ==
  IInv /\ IInv' /\ [Next]_vars => [Stream!Next]_(Stream!streamVars)
<1> SUFFICES ASSUME IInv, IInv', [Next]_vars
             PROVE  Stream!Next \/ UNCHANGED Stream!streamVars
  OBVIOUS
<1>1. ASSUME UNCHANGED <<stop, got, generated>>,
             \A c \in Callers : StatusOf(c)' = StatusOf(c)
      PROVE  UNCHANGED Stream!streamVars
  BY <1>1, StreamStutters DEF Stream!streamVars, Status, Delivered
<1>2. ASSUME NEW c \in Callers, Run(c) \/ Iterate(c)
      PROVE  Stream!Next
  BY <1>2, OpenStream
<1>3. ASSUME NEW c \in Callers, CallerStep(c)
      PROVE  Stream!Next \/ UNCHANGED Stream!streamVars
  <2>1. CASE Get(c)
    BY <2>1, GetStream
  <2>2. CASE Join(c)
    BY <2>2, CompleteStream DEF Join
  <2>3. CASE JoinStopped(c)
    BY <2>3, CloseStream
  <2> QED BY <1>3, <2>1, <2>2, <2>3 DEF CallerStep
<1>4. ASSUME NEW c \in Callers, ConsumerStep(c)
      PROVE  Stream!Next \/ UNCHANGED Stream!streamVars
  <2>1. CASE Resume(c)
    <3>1. \A d \in Callers : StatusOf(d)' = StatusOf(d)
      BY <2>1 DEF Resume, Goto, StatusOf, Ended, IInv, TypeOK
    <3> QED BY <1>1, <2>1, <3>1 DEF Resume
  <2>2. CASE Close(c)
    BY <2>2, CloseStream
  <2> QED BY <1>4, <2>1, <2>2 DEF ConsumerStep
<1>5. CASE WorkerStep
  <2>1. CASE EndRun
    <3>1. PICK c \in Callers : c = Current
      BY <2>1, CurrentHasJob DEF IInv, TypeOK, WorkerInv, EndRun
    <3>2. pc[c] = "running"
      BY <2>1, <3>1 DEF IInv, CallInv, Live, Serves, EndRun
    <3> QED BY <2>1, <3>1, <3>2, CompleteStream DEF EndRun
  <2>2. CASE Generate
    BY <2>2, GenerateStream
  <2>3. CASE ~EndRun /\ ~Generate
    <3>1. UNCHANGED <<pc, stop, got, generated>>
      BY <1>5, <2>3
      DEF WorkerStep, Take, Exhaust, Raise, Check, PutStopped, PutTry, PutFull,
          PutItem, CloseIterator, callerVars
    <3>2. \A d \in Callers : StatusOf(d)' = StatusOf(d)
      BY <3>1 DEF StatusOf
    <3> QED BY <1>1, <3>1, <3>2
  <2> QED BY <2>1, <2>2, <2>3
<1>6. CASE NestedRun \/ UNCHANGED vars
  <2>1. UNCHANGED <<pc, stop, got, generated>>
    BY <1>6, NestedRunIsCall DEF vars, callerVars
  <2>2. \A d \in Callers : StatusOf(d)' = StatusOf(d)
    BY <2>1 DEF StatusOf
  <2> QED BY <1>1, <2>1, <2>2
<1> QED BY <1>2, <1>3, <1>4, <1>5, <1>6 DEF Next

(* InferenceWorker implements OrderedStream: items arrive in order, without *)
(* a gap, only until the close, and all of them before the end.             *)
THEOREM ImplementsOrderedStream == Spec => DeliversInOrder
<1>1. Spec => Stream!Spec
  BY WorkerInvariant, InitStream, NextStream, PTL DEF Spec, Stream!Spec
<1> QED BY <1>1 DEF DeliversInOrder
=============================================================================
