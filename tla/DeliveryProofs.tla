--------------------------- MODULE DeliveryProofs ---------------------------
(***************************************************************************)
(* Theorems about Delivery, for any number of notifications, devices and   *)
(* workers, any retry and sweep limits and any number of faults: typing,   *)
(* that the sweeper never gives up early, and that Delivery's steps are    *)
(* those of NotificationPromise.                                           *)
(***************************************************************************)
EXTENDS Delivery, TLAPS

LEMMA LimitsType ==
    /\ MaxRetries \in Nat /\ SWEEP_MAX_ATTEMPTS \in Nat
    /\ Faults \in Nat /\ QueueBound \in Nat
    /\ 0 \in 0..MaxRetries
BY LimitsAssumption

LEMMA EnqueueType ==
    ASSUME TypeOK, NEW n \in Notifications, NEW retries \in 0..MaxRetries, Enqueue(n, retries)
    PROVE  /\ queue' \in [Notifications -> [0..MaxRetries -> Nat]]
           /\ faults' \in 0..Faults
<1>1. CASE /\ queue' = [queue EXCEPT ![n][retries] = IF @ < QueueBound THEN @ + 1 ELSE @]
           /\ UNCHANGED faults
  BY <1>1, LimitsType DEF TypeOK
<1>2. CASE faults < Faults /\ faults' = faults + 1 /\ UNCHANGED queue
  BY <1>2, LimitsType DEF TypeOK
<1>3. QED
  BY <1>1, <1>2 DEF Enqueue

\* A worker that is not idle holds a task.
LEMMA BusyWorker ==
    ASSUME TypeOK, NEW w \in Workers, worker[w].phase # "idle"
    PROVE  worker[w] \in Tasks
BY DEF TypeOK, Idle

LEMMA InitTypeOK == Init => TypeOK
<1> SUFFICES ASSUME Init PROVE TypeOK
  OBVIOUS
<1>1. row \in [Notifications -> Rows]
  BY DEF Init, Rows, Fresh, Statuses
<1>2. queue \in [Notifications -> [0..MaxRetries -> Nat]] /\ tries \in [Notifications -> Nat]
  BY DEF Init
<1>3. faults \in 0..Faults
  BY LimitsType DEF Init
<1>4. QED
  BY <1>1, <1>2, <1>3 DEF Init, TypeOK

LEMMA StartType ==
    ASSUME TypeOK, NEW w \in Workers, NEW n \in Notifications, NEW retries \in 0..MaxRetries,
           Start(w, n, retries)
    PROVE  TypeOK'
<1> DEFINE task == [phase |-> "loaded", n |-> n, retries |-> retries,
                    attempts |-> row[n].attempts + 1, outcome |-> "none"]
<1>1. task \in Tasks
  BY DEF Tasks, TypeOK, Rows
<1>2. worker' \in [Workers -> Tasks \cup {Idle}]
  BY <1>1 DEF Start, TypeOK
<1>3. queue' \in [Notifications -> [0..MaxRetries -> Nat]]
  <2>1. queue[n] \in [0..MaxRetries -> Nat] /\ queue[n][retries] \in Nat /\ queue[n][retries] > 0
    BY DEF TypeOK, Start
  <2>2. queue[n][retries] - 1 \in Nat
    BY <2>1
  <2>3. [queue[n] EXCEPT ![retries] = @ - 1] \in [0..MaxRetries -> Nat]
    BY <2>1, <2>2
  <2>4. queue' = [queue EXCEPT ![n] = [queue[n] EXCEPT ![retries] = @ - 1]]
    BY DEF Start
  <2>5. QED
    BY <2>3, <2>4 DEF TypeOK
<1>4. QED
  BY <1>2, <1>3 DEF Start, TypeOK

LEMMA SendType ==
    ASSUME TypeOK, NEW w \in Workers, Send(w)
    PROVE  TypeOK'
<1>1. worker[w] \in Tasks /\ worker[w].n \in Notifications
  BY BusyWorker DEF Send, Tasks
<1>2. PICK setting \in Initialised(w), told \in SUBSET active, dead \in SUBSET active :
        /\ fcm' = [fcm EXCEPT ![w] = setting]
        /\ active' = active \ dead
        /\ worker' = [worker EXCEPT ![w] =
                        [worker[w] EXCEPT !.phase = "answered",
                                          !.outcome = Outcome(setting, told, dead)]]
  BY DEF Send
<1>3. Outcome(setting, told, dead) \in {"none", "sent", "disabled", "retry"}
  BY DEF Outcome
<1>5. [worker[w] EXCEPT !.phase = "answered",
                        !.outcome = Outcome(setting, told, dead)] \in Tasks
  BY <1>1, <1>3 DEF Tasks
<1>6. worker' \in [Workers -> Tasks \cup {Idle}]
  BY <1>2, <1>5 DEF TypeOK
<1>7. fcm' \in [Workers -> FcmSettings \cup {"unknown"}]
  BY <1>2 DEF Initialised, TypeOK
<1>8. tries' \in [Notifications -> Nat]
  BY <1>1 DEF Send, TypeOK
<1>9. active' \subseteq Devices
  BY <1>1, <1>2 DEF TypeOK
<1>10. QED
  BY <1>6, <1>7, <1>8, <1>9 DEF Send, TypeOK

\* What _deliver saves is a well-formed row, with the task's own attempts.
LEMMA SavedType ==
    ASSUME NEW current \in Rows, NEW task \in Tasks
    PROVE  Saved(current, task) \in Rows /\ Saved(current, task).attempts = task.attempts
BY DEF Saved, Rows, Tasks, Statuses

LEMMA SaveType ==
    ASSUME TypeOK, NEW w \in Workers, Save(w)
    PROVE  TypeOK'
<1> DEFINE task == worker[w]
<1>1. task \in Tasks /\ task.n \in Notifications
  BY BusyWorker DEF Save, Tasks
<1>2. Saved(row[task.n], task) \in Rows
  BY <1>1, SavedType DEF TypeOK
<1>3. row' \in [Notifications -> Rows]
  BY <1>1, <1>2 DEF Save, TypeOK
<1>4. [task EXCEPT !.phase = "retrying"] \in Tasks
  BY <1>1 DEF Tasks
<1>5. worker' \in [Workers -> Tasks \cup {Idle}]
  BY <1>4 DEF Save, TypeOK
<1>6. QED
  BY <1>3, <1>5 DEF Save, TypeOK

LEMMA RetryType ==
    ASSUME TypeOK, NEW w \in Workers, Retry(w)
    PROVE  TypeOK'
<1> DEFINE task == worker[w]
<1>1. task \in Tasks /\ task.n \in Notifications /\ task.retries \in 0..MaxRetries
  BY BusyWorker DEF Retry, Tasks
<1>2. worker' \in [Workers -> Tasks \cup {Idle}]
  BY DEF Retry, TypeOK
<1>3. /\ queue' \in [Notifications -> [0..MaxRetries -> Nat]]
      /\ faults' \in 0..Faults
  <2>1. CASE task.retries < MaxRetries
    <3>1. task.retries + 1 \in 0..MaxRetries
      BY <1>1, <2>1, LimitsType
    <3>2. QED
      BY <1>1, <2>1, <3>1, EnqueueType DEF Retry
  <2>2. CASE ~(task.retries < MaxRetries)
    BY <2>2 DEF Retry, TypeOK
  <2>3. QED
    BY <2>1, <2>2
<1>4. QED
  BY <1>2, <1>3 DEF Retry, TypeOK

LEMMA SweepRowType ==
    ASSUME TypeOK, SweepRow
    PROVE  TypeOK'
<1>1. PICK s \in sweep :
        IF s.attempts >= SWEEP_MAX_ATTEMPTS
        THEN /\ row' = IF s.n \in stored THEN [row EXCEPT ![s.n].status = "FAILED"] ELSE row
             /\ abandoned' = IF s.n \in stored THEN abandoned \cup {s.n} ELSE abandoned
             /\ sweep' = IF s.n \in stored THEN sweep \ {s} ELSE {}
             /\ UNCHANGED <<queue, faults>>
        ELSE /\ Enqueue(s.n, 0)
             /\ sweep' = sweep \ {s}
             /\ UNCHANGED <<row, abandoned>>
  BY DEF SweepRow
<1>2. s.n \in Notifications
  BY DEF TypeOK, Snapshots
<1>3. row' \in [Notifications -> Rows]
  <2>1. [row[s.n] EXCEPT !.status = "FAILED"] \in Rows
    BY <1>2 DEF TypeOK, Rows, Statuses
  <2>2. QED
    BY <1>1, <1>2, <2>1 DEF TypeOK
<1>4. abandoned' \subseteq Notifications /\ sweep' \subseteq Snapshots
  BY <1>1, <1>2 DEF TypeOK
<1>5. /\ queue' \in [Notifications -> [0..MaxRetries -> Nat]]
      /\ faults' \in 0..Faults
  BY <1>1, <1>2, EnqueueType, LimitsType DEF TypeOK
<1>6. QED
  BY <1>3, <1>4, <1>5 DEF SweepRow, TypeOK

LEMMA NextTypeOK == TypeOK /\ [Next]_vars => TypeOK'
<1> SUFFICES ASSUME TypeOK, [Next]_vars PROVE TypeOK'
  OBVIOUS
<1>1. ASSUME NEW n \in Notifications, Raise(n) PROVE TypeOK'
  BY <1>1, EnqueueType, LimitsType DEF Raise, TypeOK
<1>2. ASSUME NEW n \in Notifications, Age(n) \/ Remove(n) PROVE TypeOK'
  BY <1>2 DEF Age, Remove, TypeOK
<1>3. ASSUME NEW d \in Devices, Register(d) PROVE TypeOK'
  BY <1>3 DEF Register, TypeOK
<1>4. ASSUME NEW w \in Workers, WorkerCrash(w) PROVE TypeOK'
  BY <1>4, LimitsType DEF WorkerCrash, TypeOK
<1>5. CASE SweepQuery
  <2>1. \A n \in Notifications : [n |-> n, attempts |-> row[n].attempts] \in Snapshots
    BY DEF TypeOK, Rows, Snapshots
  <2>2. Stuck \subseteq Notifications
    BY DEF Stuck, TypeOK
  <2>3. sweep' \subseteq Snapshots
    BY <1>5, <2>1, <2>2 DEF SweepQuery
  <2>4. QED
    BY <1>5, <2>3 DEF SweepQuery, TypeOK
<1>6. CASE SweeperCrash
  BY <1>6, LimitsType DEF SweeperCrash, TypeOK
<1>7. CASE UNCHANGED vars
  BY <1>7 DEF vars, TypeOK
<1>8. QED
  BY <1>1, <1>2, <1>3, <1>4, <1>5, <1>6, <1>7, StartType, SendType, SaveType, RetryType,
     SweepRowType DEF Next

\* Rows, messages, tasks and snapshots stay well formed whatever the workers,
\* the sweeper, the broker and crashes do.
THEOREM TypeCorrect == Spec => []TypeOK
<1>1. QED
  BY InitTypeOK, NextTypeOK, PTL DEF Spec

----------------------------------------------------------------------------
(* Counting attempts without a lock.                                       *)

\* The attempts a task will save are covered by calls of send_to_employee:
\* those made, or the one a loaded task is about to make.
Counted(task) == task.attempts <= tries[task.n] + (IF task.phase = "loaded" THEN 1 ELSE 0)

\* The inductive invariant behind GiveUpIsEarned: every copy of the attempts
\* column, in a row, in a worker's hands or in a sweep's snapshot, is covered.
AttemptsInv ==
    /\ AttemptsNeverOverstate
    /\ \A w \in Workers : worker[w] # Idle => Counted(worker[w])
    /\ \A s \in sweep : s.attempts <= tries[s.n]
    /\ GiveUpIsEarned

LEMMA StartAttempts ==
    ASSUME TypeOK, AttemptsInv, NEW w \in Workers, NEW n \in Notifications,
           NEW retries \in 0..MaxRetries, Start(w, n, retries)
    PROVE  AttemptsInv'
<1> DEFINE task == [phase |-> "loaded", n |-> n, retries |-> retries,
                    attempts |-> row[n].attempts + 1, outcome |-> "none"]
<1>1. UNCHANGED <<row, tries, sweep, abandoned>>
  BY DEF Start
<1>2. row[n].attempts \in Nat /\ tries[n] \in Nat /\ row[n].attempts <= tries[n]
  BY DEF TypeOK, Rows, AttemptsInv, AttemptsNeverOverstate
<1>3. Counted(task)
  BY <1>2 DEF Counted
<1>4. \A u \in Workers : worker'[u] = worker[u] \/ worker'[u] = task
  BY DEF Start, TypeOK
<1> HIDE DEF task
<1>5. \A u \in Workers : worker'[u] # Idle => Counted(worker'[u])
  BY <1>3, <1>4 DEF AttemptsInv
<1>6. QED
  BY <1>1, <1>5 DEF AttemptsInv, AttemptsNeverOverstate, GiveUpIsEarned, Counted

LEMMA SendAttempts ==
    ASSUME TypeOK, AttemptsInv, NEW w \in Workers, Send(w)
    PROVE  AttemptsInv'
<1> DEFINE n == worker[w].n
<1>1. worker[w] \in Tasks /\ n \in Notifications /\ worker[w] # Idle
  BY BusyWorker DEF Send, Tasks, Idle
<1>2. UNCHANGED <<row, sweep, abandoned>> /\ tries' = [tries EXCEPT ![n] = @ + 1]
  BY DEF Send
<1>3. \A m \in Notifications : tries[m] \in Nat /\ tries'[m] \in Nat /\ tries[m] <= tries'[m]
  BY <1>1, <1>2 DEF TypeOK
<1>4. tries'[n] = tries[n] + 1
  BY <1>1, <1>2 DEF TypeOK
<1>5. /\ \A u \in Workers \ {w} : worker'[u] = worker[u]
      /\ worker'[w].attempts = worker[w].attempts
      /\ worker'[w].n = n
      /\ worker'[w].phase = "answered"
  BY <1>1 DEF Send, TypeOK, Tasks
<1>6. worker[w].attempts \in Nat /\ worker[w].attempts <= tries[n] + 1
  BY <1>1 DEF AttemptsInv, Counted, Send, Tasks
<1>7. Counted(worker[w])'
  BY <1>3, <1>4, <1>5, <1>6, <1>1 DEF Counted
<1>8. ASSUME NEW u \in Workers \ {w}, worker[u] # Idle PROVE Counted(worker[u])'
  <2>1. worker[u] \in Tasks
    BY <1>8 DEF TypeOK
  <2>2. worker[u].attempts \in Nat /\ worker[u].n \in Notifications
    BY <2>1 DEF Tasks
  <2>3. worker[u].attempts <= tries[worker[u].n] + (IF worker[u].phase = "loaded" THEN 1 ELSE 0)
    BY <1>8 DEF AttemptsInv, Counted
  <2>4. QED
    BY <1>3, <1>5, <2>2, <2>3 DEF Counted
<1>9. AttemptsNeverOverstate'
  <2>1. \A m \in Notifications : row[m].attempts \in Nat
    BY DEF TypeOK, Rows
  <2>2. QED
    BY <1>2, <1>3, <2>1 DEF AttemptsInv, AttemptsNeverOverstate
<1>10. \A s \in sweep' : s.attempts <= tries'[s.n]
  BY <1>2, <1>3 DEF AttemptsInv, TypeOK, Snapshots
<1>11. GiveUpIsEarned'
  BY <1>2, <1>3, LimitsType DEF AttemptsInv, GiveUpIsEarned, TypeOK
<1>12. QED
  BY <1>5, <1>7, <1>8, <1>9, <1>10, <1>11 DEF AttemptsInv

LEMMA SaveAttempts ==
    ASSUME TypeOK, AttemptsInv, NEW w \in Workers, Save(w)
    PROVE  AttemptsInv'
<1> DEFINE task == worker[w]
<1>1. task \in Tasks /\ task.n \in Notifications /\ task # Idle /\ task.phase = "answered"
  BY BusyWorker DEF Save, Tasks, Idle
<1>2. UNCHANGED <<sweep, tries, abandoned>>
  BY DEF Save
<1>3. task.attempts \in Nat /\ tries[task.n] \in Nat /\ task.attempts <= tries[task.n]
  <2>1. Counted(task)
    BY <1>1 DEF AttemptsInv
  <2>2. task.attempts \in Nat /\ tries[task.n] \in Nat
    BY <1>1 DEF Tasks, TypeOK
  <2>3. QED
    BY <1>1, <2>1, <2>2 DEF Counted
<1>4. \A m \in Notifications : row'[m].attempts = row[m].attempts
                               \/ (m = task.n /\ row'[m].attempts = task.attempts)
  <2>1. Saved(row[task.n], task).attempts = task.attempts
    BY DEF Saved
  <2>2. QED
    BY <1>1, <2>1 DEF Save, TypeOK
<1>5. AttemptsNeverOverstate'
  BY <1>2, <1>3, <1>4 DEF AttemptsInv, AttemptsNeverOverstate
<1>6. \A u \in Workers : \/ worker'[u] = worker[u] \/ worker'[u] = Idle
                         \/ u = w /\ worker'[u] = [task EXCEPT !.phase = "retrying"]
  BY DEF Save, TypeOK
<1>7. Counted([task EXCEPT !.phase = "retrying"])
  <2>1. /\ [task EXCEPT !.phase = "retrying"].attempts = task.attempts
        /\ [task EXCEPT !.phase = "retrying"].n = task.n
        /\ [task EXCEPT !.phase = "retrying"].phase = "retrying"
    BY <1>1 DEF Tasks
  <2>2. QED
    BY <1>3, <2>1 DEF Counted
<1> HIDE DEF task
<1>8. \A u \in Workers : worker'[u] # Idle => Counted(worker'[u])
  BY <1>6, <1>7 DEF AttemptsInv
<1>9. QED
  BY <1>2, <1>5, <1>8 DEF AttemptsInv, GiveUpIsEarned, Counted

LEMMA SweepRowAttempts ==
    ASSUME TypeOK, AttemptsInv, SweepRow
    PROVE  AttemptsInv'
<1>1. UNCHANGED <<worker, tries>>
  BY DEF SweepRow
<1>2. PICK s \in sweep :
        IF s.attempts >= SWEEP_MAX_ATTEMPTS
        THEN /\ row' = IF s.n \in stored THEN [row EXCEPT ![s.n].status = "FAILED"] ELSE row
             /\ abandoned' = IF s.n \in stored THEN abandoned \cup {s.n} ELSE abandoned
             /\ sweep' = IF s.n \in stored THEN sweep \ {s} ELSE {}
             /\ UNCHANGED <<queue, faults>>
        ELSE /\ Enqueue(s.n, 0)
             /\ sweep' = sweep \ {s}
             /\ UNCHANGED <<row, abandoned>>
  BY DEF SweepRow
<1>3. s.n \in Notifications /\ s.attempts \in Nat /\ s.attempts <= tries[s.n] /\ tries[s.n] \in Nat
  BY DEF TypeOK, Snapshots, AttemptsInv
<1>4. \A m \in Notifications : row'[m].attempts = row[m].attempts
  <2>1. row[s.n] \in Rows /\ [row[s.n] EXCEPT !.status = "FAILED"].attempts = row[s.n].attempts
    BY <1>3 DEF TypeOK, Rows
  <2>2. QED
    BY <1>2, <1>3, <2>1 DEF TypeOK
<1>5. sweep' \subseteq sweep
  BY <1>2
<1>6. GiveUpIsEarned'
  <2>1. s.attempts >= SWEEP_MAX_ATTEMPTS => tries[s.n] >= SWEEP_MAX_ATTEMPTS
    BY <1>3, LimitsType
  <2>2. QED
    BY <1>1, <1>2, <2>1 DEF AttemptsInv, GiveUpIsEarned
<1>7. QED
  BY <1>1, <1>4, <1>5, <1>6 DEF AttemptsInv, AttemptsNeverOverstate, Counted

LEMMA NextAttempts == TypeOK /\ AttemptsInv /\ [Next]_vars => AttemptsInv'
<1> SUFFICES ASSUME TypeOK, AttemptsInv, [Next]_vars PROVE AttemptsInv'
  OBVIOUS
<1>1. ASSUME UNCHANGED <<row, tries, abandoned>>, sweep' \subseteq sweep,
             \A w \in Workers : worker'[w] = worker[w] \/ worker'[w] = Idle
      PROVE  AttemptsInv'
  BY <1>1 DEF AttemptsInv, AttemptsNeverOverstate, GiveUpIsEarned, Counted
<1>2. ASSUME NEW n \in Notifications, Raise(n) \/ Age(n) \/ Remove(n) PROVE AttemptsInv'
  BY <1>1, <1>2 DEF Raise, Age, Remove
<1>3. ASSUME NEW d \in Devices, Register(d) PROVE AttemptsInv'
  BY <1>1, <1>3 DEF Register
<1>4. ASSUME NEW w \in Workers, Retry(w) \/ WorkerCrash(w) PROVE AttemptsInv'
  <2>1. worker' = [worker EXCEPT ![w] = Idle] /\ UNCHANGED <<row, tries, abandoned, sweep>>
    BY <1>4 DEF Retry, WorkerCrash
  <2>2. \A u \in Workers : worker'[u] = worker[u] \/ worker'[u] = Idle
    BY <2>1 DEF TypeOK
  <2>3. QED
    BY <1>1, <2>1, <2>2
<1>5. CASE SweepQuery
  <2>1. \A s \in sweep' : \E n \in Notifications : s = [n |-> n, attempts |-> row[n].attempts]
    BY <1>5 DEF SweepQuery, Stuck, TypeOK
  <2>2. \A s \in sweep' : s.attempts <= tries[s.n]
    BY <2>1 DEF AttemptsInv, AttemptsNeverOverstate
  <2>3. UNCHANGED <<row, tries, worker, abandoned>>
    BY <1>5 DEF SweepQuery
  <2>4. QED
    BY <2>2, <2>3 DEF AttemptsInv, AttemptsNeverOverstate, GiveUpIsEarned, Counted
<1>6. CASE SweeperCrash \/ UNCHANGED vars
  BY <1>1, <1>6 DEF SweeperCrash, vars
<1>7. QED
  BY <1>2, <1>3, <1>4, <1>5, <1>6, StartAttempts, SendAttempts, SaveAttempts, SweepRowAttempts
     DEF Next

LEMMA InitAttempts == Init => AttemptsInv
BY DEF Init, AttemptsInv, AttemptsNeverOverstate, GiveUpIsEarned, Fresh, Idle

\* However many workers read, increment and save it at once, the attempts
\* column never claims more calls of send_to_employee than were made.
THEOREM AttemptsAreCovered == Spec => []AttemptsNeverOverstate
<1>1. AttemptsInv => AttemptsNeverOverstate
  BY DEF AttemptsInv
<1>2. QED
  BY <1>1, InitAttempts, NextAttempts, TypeCorrect, PTL DEF Spec

\* A notification is marked FAILED only after SWEEP_MAX_ATTEMPTS calls of
\* send_to_employee.
THEOREM GiveUpAlwaysEarned == Spec => []GiveUpIsEarned
<1>1. AttemptsInv => GiveUpIsEarned
  BY DEF AttemptsInv
<1>2. QED
  BY <1>1, InitAttempts, NextAttempts, TypeCorrect, PTL DEF Spec

----------------------------------------------------------------------------
(* Delivery's steps are those of NotificationPromise.                      *)

\* Rows, tasks and snapshots only speak of notifications that were raised, and
\* workers that agree about FCM leave no SENT row that could be taken back.
PromiseInv ==
    /\ \A n \in Notifications \ raised : row[n] = Fresh /\ n \notin abandoned
    /\ \A w \in Workers : worker[w] # Idle => worker[w].n \in raised
    /\ \A s \in sweep : s.n \in raised
    /\ FcmSettings = {"enabled"} =>
          /\ \A n \in Notifications : row[n].status = "SENT" => row[n].sent_at
          /\ \A w \in Workers : worker[w].phase = "answered" =>
                worker[w].outcome \in {"sent", "retry"}
    /\ FcmSettings = {"disabled"} =>
          \A w \in Workers : worker[w].phase = "answered" => worker[w].outcome = "disabled"

UniformFcm == FcmSettings = {"enabled"} \/ FcmSettings = {"disabled"}

LEMMA InitPromise == Init => PromiseInv
BY DEF Init, PromiseInv, Fresh, Idle

\* A step that leaves the rows alone and starts no task preserves it.
LEMMA QuietPromise ==
    ASSUME PromiseInv, UNCHANGED <<row, abandoned>>, raised \subseteq raised',
           \A w \in Workers : worker'[w] = worker[w] \/ worker'[w] = Idle,
           \A s \in sweep' : s.n \in raised'
    PROVE  PromiseInv'
BY DEF PromiseInv, Idle

LEMMA SendPromise ==
    ASSUME TypeOK, PromiseInv, NEW w \in Workers, Send(w)
    PROVE  PromiseInv'
<1>1. worker[w] \in Tasks /\ worker[w] # Idle
  BY BusyWorker DEF Send, Idle
<1>2. PICK setting \in Initialised(w), told \in SUBSET active, dead \in SUBSET active :
        worker' = [worker EXCEPT ![w] =
                     [worker[w] EXCEPT !.phase = "answered",
                                       !.outcome = Outcome(setting, told, dead)]]
  BY DEF Send
<1>3. UNCHANGED <<raised, row, sweep, abandoned>>
  BY DEF Send
<1>4. /\ \A u \in Workers \ {w} : worker'[u] = worker[u]
      /\ worker'[w].n = worker[w].n
      /\ worker'[w].outcome = Outcome(setting, told, dead)
  BY <1>1, <1>2 DEF TypeOK, Tasks
<1>5. setting \in FcmSettings
  BY DEF Initialised, TypeOK
<1>6. /\ setting = "enabled" => Outcome(setting, told, dead) \in {"sent", "retry"}
      /\ setting = "disabled" => Outcome(setting, told, dead) = "disabled"
  BY DEF Outcome
<1>7. \A u \in Workers : worker'[u] # Idle => worker'[u].n \in raised'
  BY <1>1, <1>3, <1>4 DEF PromiseInv
<1>8. FcmSettings = {"enabled"} =>
        \A u \in Workers : worker'[u].phase = "answered" => worker'[u].outcome \in {"sent", "retry"}
  BY <1>4, <1>5, <1>6 DEF PromiseInv
<1>9. FcmSettings = {"disabled"} =>
        \A u \in Workers : worker'[u].phase = "answered" => worker'[u].outcome = "disabled"
  BY <1>4, <1>5, <1>6 DEF PromiseInv
<1>10. QED
  BY <1>3, <1>7, <1>8, <1>9 DEF PromiseInv

LEMMA StartPromise ==
    ASSUME TypeOK, PromiseInv, NEW w \in Workers, NEW n \in Notifications,
           NEW retries \in 0..MaxRetries, Start(w, n, retries)
    PROVE  PromiseInv'
<1> DEFINE task == [phase |-> "loaded", n |-> n, retries |-> retries,
                    attempts |-> row[n].attempts + 1, outcome |-> "none"]
<1>1. UNCHANGED <<row, raised, sweep, abandoned>>
  BY DEF Start
<1>2. \A u \in Workers : worker'[u] = worker[u] \/ (worker'[u] = task /\ n \in raised)
  BY DEF Start, TypeOK
<1>3. task.n = n /\ task.phase = "loaded"
  OBVIOUS
<1> HIDE DEF task
<1>4. QED
  BY <1>1, <1>2, <1>3 DEF PromiseInv

LEMMA SavePromise ==
    ASSUME TypeOK, PromiseInv, NEW w \in Workers, Save(w)
    PROVE  PromiseInv'
<1> DEFINE task == worker[w]
<1>1. task \in Tasks /\ task.n \in Notifications /\ task # Idle /\ task.n \in raised
  BY BusyWorker DEF Save, Tasks, Idle, PromiseInv
<1>2. UNCHANGED <<raised, sweep, abandoned>>
  BY DEF Save
<1>3. \A m \in Notifications : row'[m] = row[m] \/ (m = task.n /\ row'[m] = Saved(row[m], task))
  BY <1>1 DEF Save, TypeOK
<1>4. \A u \in Workers : \/ worker'[u] = worker[u] \/ worker'[u] = Idle
                         \/ u = w /\ worker'[u] = [task EXCEPT !.phase = "retrying"]
  BY DEF Save, TypeOK
<1>5. /\ [task EXCEPT !.phase = "retrying"].n = task.n
      /\ [task EXCEPT !.phase = "retrying"].phase = "retrying"
  BY <1>1 DEF Tasks
<1>6. \A n \in Notifications \ raised' : row'[n] = Fresh /\ n \notin abandoned'
  BY <1>1, <1>2, <1>3 DEF PromiseInv
<1>7. FcmSettings = {"enabled"} =>
        \A n \in Notifications : row'[n].status = "SENT" => row'[n].sent_at
  <2> SUFFICES ASSUME FcmSettings = {"enabled"}, NEW n \in Notifications,
                      row'[n].status = "SENT"
               PROVE  row'[n].sent_at
    OBVIOUS
  <2>1. task.outcome \in {"sent", "retry"}
    BY DEF PromiseInv, Save
  <2>2. CASE row'[n] = row[n]
    BY <2>2 DEF PromiseInv
  <2>3. CASE n = task.n /\ row'[n] = Saved(row[n], task)
    <3>1. task.outcome = "sent"
      BY <2>1, <2>3 DEF Saved
    <3>2. Saved(row[n], task).sent_at = (row[n].sent_at \/ task.outcome = "sent")
      BY Zenon DEF Saved
    <3>3. Saved(row[n], task).sent_at
      BY <3>1, <3>2
    <3>4. QED
      BY <2>3, <3>3
  <2>4. QED
    BY <1>3, <2>2, <2>3
<1>8. \A u \in Workers : worker'[u] # Idle => worker'[u].n \in raised
  BY <1>1, <1>4, <1>5 DEF PromiseInv
<1>9. ASSUME NEW u \in Workers, worker'[u].phase = "answered" PROVE worker'[u] = worker[u]
  <2>1. worker'[u] # Idle
    BY <1>9 DEF Idle
  <2>2. worker'[u] # [task EXCEPT !.phase = "retrying"]
    BY <1>5, <1>9
  <2>3. QED
    BY <1>4, <2>1, <2>2
<1>10. QED
  BY <1>2, <1>6, <1>7, <1>8, <1>9 DEF PromiseInv

LEMMA SweepRowPromise ==
    ASSUME TypeOK, PromiseInv, SweepRow
    PROVE  PromiseInv'
<1>1. UNCHANGED <<worker, raised>>
  BY DEF SweepRow
<1>2. PICK s \in sweep :
        /\ sweep' \subseteq sweep
        /\ \/ UNCHANGED <<row, abandoned>>
           \/ /\ row' = [row EXCEPT ![s.n].status = "FAILED"]
              /\ abandoned' = abandoned \cup {s.n}
  BY DEF SweepRow
<1>3. s.n \in Notifications /\ s.n \in raised
  BY DEF TypeOK, Snapshots, PromiseInv
<1>4. CASE UNCHANGED <<row, abandoned>>
  BY <1>1, <1>2, <1>4 DEF PromiseInv
<1>5. CASE /\ row' = [row EXCEPT ![s.n].status = "FAILED"]
           /\ abandoned' = abandoned \cup {s.n}
  <2>1. [row[s.n] EXCEPT !.status = "FAILED"].status = "FAILED"
    BY <1>3 DEF TypeOK, Rows
  <2>2. /\ \A m \in Notifications \ {s.n} : row'[m] = row[m]
        /\ row'[s.n].status = "FAILED"
    BY <1>3, <1>5, <2>1 DEF TypeOK
  <2>3. QED
    BY <1>1, <1>2, <1>3, <1>5, <2>2 DEF PromiseInv
<1>6. QED
  BY <1>2, <1>4, <1>5

LEMMA NextPromise == TypeOK /\ PromiseInv /\ [Next]_vars => PromiseInv'
<1> SUFFICES ASSUME TypeOK, PromiseInv, [Next]_vars PROVE PromiseInv'
  OBVIOUS
<1>1. \A s \in sweep : s.n \in raised
  BY DEF PromiseInv
<1>2. ASSUME NEW n \in Notifications, Raise(n) \/ Age(n) \/ Remove(n) PROVE PromiseInv'
  BY <1>1, <1>2, QuietPromise DEF Raise, Age, Remove
<1>3. ASSUME NEW d \in Devices, Register(d) PROVE PromiseInv'
  BY <1>1, <1>3, QuietPromise DEF Register
<1>4. ASSUME NEW w \in Workers, Retry(w) \/ WorkerCrash(w) PROVE PromiseInv'
  <2>1. worker' = [worker EXCEPT ![w] = Idle] /\ UNCHANGED <<row, abandoned, sweep, raised>>
    BY <1>4 DEF Retry, WorkerCrash
  <2>2. \A u \in Workers : worker'[u] = worker[u] \/ worker'[u] = Idle
    BY <2>1 DEF TypeOK
  <2>3. QED
    BY <1>1, <2>1, <2>2, QuietPromise
<1>5. CASE SweepQuery
  <2>1. \A s \in sweep' : \E n \in raised : s = [n |-> n, attempts |-> row[n].attempts]
    BY <1>5 DEF SweepQuery, Stuck, TypeOK
  <2>2. \A s \in sweep' : s.n \in raised
    BY <2>1
  <2>3. QED
    BY <1>5, <2>2, QuietPromise DEF SweepQuery
<1>6. CASE SweeperCrash
  BY <1>6, QuietPromise DEF SweeperCrash
<1>7. CASE UNCHANGED vars
  BY <1>1, <1>7, QuietPromise DEF vars
<1>8. QED
  BY <1>2, <1>3, <1>4, <1>5, <1>6, <1>7, StartPromise, SendPromise, SavePromise,
     SweepRowPromise DEF Next

\* A step after which only n may be newly settled settles n or nothing.
LEMMA OneSettles ==
    ASSUME NEW n \in Notifications, n \in raised, UNCHANGED raised,
           Settled(n) => Settled(n)',
           \A m \in raised \ {n} : Settled(m)' <=> Settled(m)
    PROVE  Promise!Settle(n) \/ UNCHANGED <<raised, SettledSet>>
<1>1. CASE Settled(n) \/ ~Settled(n)'
  <2>1. SettledSet' = SettledSet
    BY <1>1 DEF SettledSet
  <2>2. QED
    BY <2>1
<1>2. CASE ~Settled(n) /\ Settled(n)'
  <2>1. SettledSet' = SettledSet \cup {n}
    BY <1>2 DEF SettledSet
  <2>2. n \in raised \ SettledSet
    BY <1>2 DEF SettledSet
  <2>3. QED
    BY <2>1, <2>2 DEF Promise!Settle
<1>3. QED
  BY <1>1, <1>2

LEMMA QuietSettles ==
    ASSUME UNCHANGED <<raised, stored, row, abandoned>>
    PROVE  UNCHANGED <<raised, SettledSet>>
BY DEF SettledSet, Settled

LEMMA RaiseSettles ==
    ASSUME TypeOK, PromiseInv, NEW n \in Notifications, Raise(n)
    PROVE  Promise!Raise(n)
<1>1. n \notin raised /\ raised' = raised \cup {n} /\ stored' = stored \cup {n}
      /\ UNCHANGED <<row, abandoned>>
  BY DEF Raise
<1>2. row[n] = Fresh /\ n \notin abandoned
  BY <1>1 DEF PromiseInv
<1>3. ~Settled(n)'
  BY <1>1, <1>2 DEF Settled, Fresh
<1>4. \A m \in raised : Settled(m)' <=> Settled(m)
  BY <1>1 DEF Settled
<1>5. SettledSet' = SettledSet
  BY <1>1, <1>3, <1>4 DEF SettledSet
<1>6. QED
  BY <1>1, <1>5 DEF Promise!Raise

LEMMA RemoveSettles ==
    ASSUME TypeOK, NEW n \in Notifications, Remove(n)
    PROVE  Promise!Settle(n) \/ UNCHANGED <<raised, SettledSet>>
<1>1. n \in stored /\ stored' = stored \ {n} /\ UNCHANGED <<raised, row, abandoned>>
  BY DEF Remove
<1>2. n \in raised
  BY <1>1 DEF TypeOK
<1>3. Settled(n)' /\ \A m \in raised \ {n} : Settled(m)' <=> Settled(m)
  BY <1>1 DEF Settled
<1>4. QED
  BY <1>1, <1>2, <1>3, OneSettles

LEMMA SettledKept ==
    ASSUME NEW n \in Notifications, UNCHANGED <<stored, abandoned>>,
           row[n].sent_at => row'[n].sent_at,
           row[n].status = "SENT" => row'[n].sent_at \/ row'[n].status = "SENT"
    PROVE  Settled(n) => Settled(n)'
<1>1. stored' = stored /\ abandoned' = abandoned
  OBVIOUS
<1>2. QED
  BY <1>1, Zenon DEF Settled

\* Whatever a stale task writes back, it cannot unsettle a notification when
\* the workers agree about FCM: sent_at is only ever set.
LEMMA SaveSettles ==
    ASSUME UniformFcm, TypeOK, PromiseInv, NEW w \in Workers, Save(w)
    PROVE  \E n \in Notifications : Promise!Settle(n) \/ UNCHANGED <<raised, SettledSet>>
<1> DEFINE task == worker[w]
<1>0. task \in Tasks /\ task.n \in Notifications /\ task # Idle /\ task.n \in raised
  BY BusyWorker DEF Save, Tasks, Idle, PromiseInv
<1> SUFFICES ASSUME NEW n \in Notifications, n = task.n, n \in raised
             PROVE  Promise!Settle(n) \/ UNCHANGED <<raised, SettledSet>>
  BY <1>0
<1>1. task \in Tasks /\ task # Idle
  BY <1>0
<1>2. task.phase = "answered" /\ UNCHANGED <<raised, stored, abandoned>>
  BY DEF Save
<1>3. \A m \in raised \ {n} : row'[m] = row[m]
  BY <1>1 DEF Save, TypeOK
<1>4. row'[n] = row[n] \/ row'[n] = Saved(row[n], task)
  BY <1>1 DEF Save, TypeOK
<1>5. \A m \in raised \ {n} : Settled(m)' <=> Settled(m)
  BY <1>2, <1>3 DEF Settled
<1>6. Settled(n) => Settled(n)'
  <2>1. CASE row'[n] = row[n]
    BY <1>2, <2>1, SettledKept
  <2>2. CASE row'[n] = Saved(row[n], task)
    <3>1. Saved(row[n], task).sent_at = (row[n].sent_at \/ task.outcome = "sent")
      BY Zenon DEF Saved
    <3>2. row[n].sent_at => row'[n].sent_at
      BY <2>2, <3>1
    <3>3. row[n].status = "SENT" => row'[n].sent_at \/ row'[n].status = "SENT"
      <4>1. CASE FcmSettings = {"enabled"}
        BY <1>1, <3>2, <4>1 DEF PromiseInv
      <4>2. CASE FcmSettings = {"disabled"}
        <5>1. task.outcome = "disabled"
          BY <1>2, <4>2 DEF PromiseInv
        <5>2. QED
          BY <2>2, <5>1 DEF Saved
      <4>3. QED
        BY <4>1, <4>2 DEF UniformFcm
    <3>4. QED
      BY <1>2, <3>2, <3>3, SettledKept
  <2>3. QED
    BY <1>4, <2>1, <2>2
<1>7. QED
  BY <1>2, <1>5, <1>6, OneSettles

LEMMA SweepRowSettles ==
    ASSUME TypeOK, PromiseInv, SweepRow
    PROVE  \E n \in Notifications : Promise!Settle(n) \/ UNCHANGED <<raised, SettledSet>>
<1>1. UNCHANGED <<stored, raised>>
  BY DEF SweepRow
<1>2. PICK s \in sweep :
        \/ UNCHANGED <<row, abandoned>>
        \/ /\ row' = [row EXCEPT ![s.n].status = "FAILED"]
           /\ abandoned' = abandoned \cup {s.n}
  BY DEF SweepRow
<1>3. s.n \in Notifications /\ s.n \in raised
  BY DEF TypeOK, Snapshots, PromiseInv
<1>4. CASE UNCHANGED <<row, abandoned>>
  BY <1>1, <1>3, <1>4, QuietSettles
<1>5. CASE /\ row' = [row EXCEPT ![s.n].status = "FAILED"]
           /\ abandoned' = abandoned \cup {s.n}
  <2>1. \A m \in raised \ {s.n} : row'[m] = row[m]
    BY <1>3, <1>5 DEF TypeOK
  <2>2. Settled(s.n)' /\ \A m \in raised \ {s.n} : Settled(m)' <=> Settled(m)
    BY <1>1, <1>5, <2>1 DEF Settled
  <2>3. QED
    BY <1>1, <1>3, <2>2, OneSettles
<1>6. QED
  BY <1>2, <1>4, <1>5

LEMMA NextSettles ==
    ASSUME UniformFcm, TypeOK, PromiseInv, [Next]_vars
    PROVE  [Promise!Next]_<<raised, SettledSet>>
<1>1. ASSUME NEW n \in Notifications, Raise(n) PROVE Promise!Next
  BY <1>1, RaiseSettles DEF Promise!Next
<1>2. ASSUME NEW n \in Notifications, Remove(n)
      PROVE  Promise!Next \/ UNCHANGED <<raised, SettledSet>>
  BY <1>2, RemoveSettles DEF Promise!Next
<1>3. ASSUME NEW w \in Workers, Save(w)
      PROVE  Promise!Next \/ UNCHANGED <<raised, SettledSet>>
  BY <1>3, SaveSettles DEF Promise!Next
<1>4. CASE SweepRow
  BY <1>4, SweepRowSettles DEF Promise!Next
<1>5. ASSUME UNCHANGED <<raised, stored, row, abandoned>>
      PROVE  UNCHANGED <<raised, SettledSet>>
  BY <1>5, QuietSettles
<1>6. ASSUME \/ \E n \in Notifications : Age(n)
             \/ \E d \in Devices : Register(d)
             \/ \E w \in Workers, n \in Notifications, retries \in 0..MaxRetries :
                   Start(w, n, retries)
             \/ \E w \in Workers : Send(w) \/ Retry(w) \/ WorkerCrash(w)
             \/ SweepQuery \/ SweeperCrash \/ UNCHANGED vars
      PROVE  UNCHANGED <<raised, SettledSet>>
  BY <1>5, <1>6 DEF Age, Register, Start, Send, Retry, WorkerCrash, SweepQuery,
     SweeperCrash, vars
<1>7. QED
  BY <1>1, <1>2, <1>3, <1>4, <1>6 DEF Next

\* The safety half of KeepsPromise, for any number of notifications, phones,
\* workers and faults: when the workers agree about FCM, every step of Delivery
\* raises one notification, settles one, or changes nothing the promise speaks
\* of - and so never takes back what was settled.
THEOREM StepsKeepPromise ==
    ASSUME UniformFcm
    PROVE  Spec => Promise!Init /\ [][Promise!Next]_<<raised, SettledSet>>
<1>1. Init => Promise!Init
  BY DEF Init, Promise!Init, SettledSet
<1>2. TypeOK /\ PromiseInv /\ [Next]_vars
        => [Promise!Next]_<<raised, SettledSet>>
  BY NextSettles
<1>3. QED
  BY <1>1, <1>2, InitPromise, NextPromise, TypeCorrect, PTL DEF Spec
=============================================================================
