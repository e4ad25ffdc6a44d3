------------------------------ MODULE Delivery ------------------------------
(***************************************************************************)
(* Delivery of notifications (apps/notifications): ingestion records a     *)
(* notification and enqueues a send; Celery workers take a message, load   *)
(* the row, push through FCM and save the outcome, each its own step since *)
(* nothing locks the row; a transient failure republishes the message; the *)
(* sweeper re-enqueues what is still PENDING.  Workers acknowledge a       *)
(* message when they take it, so a crash loses it; the broker may refuse   *)
(* a message.  The notifications are those of one employee, numbered in    *)
(* the order they were created.                                            *)
(***************************************************************************)
EXTENDS Integers, FiniteSets

CONSTANTS
    Notifications,      \* identifiers, ordered by created_at
    Devices,            \* the employee's FCM tokens
    Workers,            \* Celery worker processes
    FcmSettings,        \* how a worker's first use of firebase-admin may end
    MaxRetries,         \* max_retries of send_fcm_notification_task
    SWEEP_MAX_ATTEMPTS,
    SWEEP_BATCH,
    Faults,             \* bound: crashes and refused messages
    QueueBound          \* bound: copies of one message waiting at a time

ASSUME NotificationsAssumption == Notifications \subseteq Nat
ASSUME FcmAssumption == FcmSettings \subseteq {"enabled", "disabled"}
ASSUME LimitsAssumption ==
    {MaxRetries, SWEEP_MAX_ATTEMPTS, SWEEP_BATCH, Faults, QueueBound} \subseteq Nat

VARIABLES
    raised,    \* notifications ever recorded
    stored,    \* notifications whose row still exists
    aged,      \* rows older than SWEEP_MIN_AGE_SECONDS
    row,       \* status, sent_at (set or not) and attempts of each row
    queue,     \* number of messages in the broker, per notification and retry count
    worker,    \* what each worker is doing
    fcm,       \* each worker process's FCM setting, kept from its first send on
    sweep,     \* the rows a sweep in progress has read and not handled yet
    active,    \* devices whose token is active
    tries,     \* history: calls of send_to_employee for a notification
    abandoned, \* history: notifications ever marked FAILED
    faults     \* crashes and refused messages so far

vars == <<raised, stored, aged, row, queue, worker, fcm, sweep, active, tries,
          abandoned, faults>>

Statuses == {"PENDING", "SENT", "FAILED"}
Rows == [status: Statuses, sent_at: BOOLEAN, attempts: Nat]
Fresh == [status |-> "PENDING", sent_at |-> FALSE, attempts |-> 0]

\* A task is loaded, then answered by FCM, then saved; "retrying" is between
\* the save of a transient failure and the republished message.
Idle == [phase |-> "idle"]
Tasks == [phase: {"loaded", "answered", "retrying"}, n: Notifications, retries: 0..MaxRetries,
          attempts: Nat, outcome: {"none", "sent", "disabled", "retry"}]
Snapshots == [n: Notifications, attempts: Nat]

TypeOK ==
    /\ stored \subseteq raised /\ raised \subseteq Notifications
    /\ aged \subseteq Notifications
    /\ row \in [Notifications -> Rows]
    /\ queue \in [Notifications -> [0..MaxRetries -> Nat]]
    /\ worker \in [Workers -> Tasks \cup {Idle}]
    /\ fcm \in [Workers -> FcmSettings \cup {"unknown"}]
    /\ sweep \subseteq Snapshots
    /\ active \subseteq Devices
    /\ tries \in [Notifications -> Nat]
    /\ abandoned \subseteq Notifications
    /\ faults \in 0..Faults

Init ==
    /\ raised = {} /\ stored = {} /\ aged = {}
    /\ row = [n \in Notifications |-> Fresh]
    /\ queue = [n \in Notifications |-> [r \in 0..MaxRetries |-> 0]]
    /\ worker = [w \in Workers |-> Idle]
    /\ fcm = [w \in Workers |-> "unknown"]
    /\ sweep = {}
    /\ active = Devices
    /\ tries = [n \in Notifications |-> 0]
    /\ abandoned = {}
    /\ faults = 0

----------------------------------------------------------------------------
(* The broker.                                                             *)

\* send_fcm_notification_task.delay, or Celery's own republishing: the broker
\* takes the message, or refuses it and the caller only logs that.  A message
\* beyond QueueBound is folded into the copies already waiting.
Enqueue(n, retries) ==
    \/ /\ queue' = [queue EXCEPT ![n][retries] = IF @ < QueueBound THEN @ + 1 ELSE @]
       /\ UNCHANGED faults
    \/ /\ faults < Faults
       /\ faults' = faults + 1
       /\ UNCHANGED queue

----------------------------------------------------------------------------
(* Ingestion and the other writers.                                        *)

\* notify_for_log or raise_attendance_notification creates the row once and
\* enqueues the immediate send.
Raise(n) ==
    /\ n \notin raised
    /\ \A m \in Notifications : m < n => m \in raised
    /\ raised' = raised \cup {n}
    /\ stored' = stored \cup {n}
    /\ Enqueue(n, 0)
    /\ UNCHANGED <<aged, row, worker, fcm, sweep, active, tries, abandoned>>

Age(n) ==
    /\ n \in raised \ aged
    /\ aged' = aged \cup {n}
    /\ UNCHANGED <<raised, stored, row, queue, worker, fcm, sweep, active, tries,
                   abandoned, faults>>

\* Deleting the attendance log (regenerate_attendance) cascades to its row.
Remove(n) ==
    /\ n \in stored
    /\ stored' = stored \ {n}
    /\ UNCHANGED <<raised, aged, row, queue, worker, fcm, sweep, active, tries,
                   abandoned, faults>>

\* DeviceRegisterView: the app registers its token again.
Register(d) ==
    /\ d \in Devices \ active
    /\ active' = active \cup {d}
    /\ UNCHANGED <<raised, stored, aged, row, queue, worker, fcm, sweep, tries,
                   abandoned, faults>>

----------------------------------------------------------------------------
(* send_fcm_notification_task.                                             *)

\* A free worker takes (and thereby acknowledges) a message and loads the row;
\* a row that is gone ends the task.
Start(w, n, retries) ==
    /\ worker[w] = Idle
    /\ queue[n][retries] > 0
    /\ queue' = [queue EXCEPT ![n][retries] = @ - 1]
    /\ worker' = IF n \notin stored THEN worker
                 ELSE [worker EXCEPT ![w] =
                         [phase |-> "loaded", n |-> n, retries |-> retries,
                          attempts |-> row[n].attempts + 1, outcome |-> "none"]]
    /\ UNCHANGED <<raised, stored, aged, row, fcm, sweep, active, tries,
                   abandoned, faults>>

\* _ensure_initialized: the first send of a worker process decides for good.
Initialised(w) == IF fcm[w] = "unknown" THEN FcmSettings ELSE {fcm[w]}

\* _deliver's verdict: retry only what failed transiently for every device.
Outcome(setting, told, dead) ==
    IF setting = "disabled" THEN "disabled"
    ELSE IF told = {} /\ active \ dead # {} THEN "retry" ELSE "sent"

\* send_to_employee: every active token is told, found dead (and pruned), or
\* fails transiently.
Send(w) ==
    LET task == worker[w]
        n == task.n
    IN  /\ task.phase = "loaded"
        /\ tries' = [tries EXCEPT ![n] = @ + 1]
        /\ \E setting \in Initialised(w) :
           \E told \in SUBSET active : \E dead \in SUBSET (active \ told) :
              /\ setting = "disabled" => told = {} /\ dead = {}
              /\ fcm' = [fcm EXCEPT ![w] = setting]
              /\ active' = active \ dead
              /\ worker' = [worker EXCEPT ![w] =
                              [task EXCEPT !.phase = "answered",
                                           !.outcome = Outcome(setting, told, dead)]]
        /\ UNCHANGED <<raised, stored, aged, row, queue, sweep, abandoned, faults>>

\* Seeded fault: the outcome is saved as the status.
SavedOutcome(current, task) ==
    [status |-> task.outcome, sent_at |-> current.sent_at \/ task.outcome = "sent",
     attempts |-> task.attempts]

\* Seeded fault: the attempt is counted when loaded and again when saved.
SavedTwice(current, task) ==
    [status |-> IF task.outcome = "retry" THEN "PENDING" ELSE "SENT",
     sent_at |-> current.sent_at \/ task.outcome = "sent",
     attempts |-> task.attempts + 1]

\* Seeded fault: a transient failure clears sent_at.
SavedClearing(current, task) ==
    [status |-> IF task.outcome = "retry" THEN "PENDING" ELSE "SENT",
     sent_at |-> task.outcome = "sent",
     attempts |-> task.attempts]

\* The fields _deliver saves for an outcome, over whatever the row holds now.
Saved(current, task) ==
    [status |-> IF task.outcome = "retry" THEN "PENDING" ELSE "SENT",
     sent_at |-> current.sent_at \/ task.outcome = "sent",
     attempts |-> task.attempts]

\* notification.save(update_fields=...); saving a deleted row fails the task,
\* and a transient failure goes on to Celery's autoretry.
Save(w) ==
    LET task == worker[w]
    IN  /\ task.phase = "answered"
        /\ row' = IF task.n \in stored
                  THEN [row EXCEPT ![task.n] = Saved(@, task)] ELSE row
        /\ worker' = [worker EXCEPT ![w] =
                        IF task.n \in stored /\ task.outcome = "retry"
                        THEN [task EXCEPT !.phase = "retrying"] ELSE Idle]
        /\ UNCHANGED <<raised, stored, aged, queue, fcm, sweep, active, tries,
                       abandoned, faults>>

\* autoretry_for: republish with one more retry, until there are none left.
Retry(w) ==
    LET task == worker[w]
    IN  /\ task.phase = "retrying"
        /\ worker' = [worker EXCEPT ![w] = Idle]
        /\ IF task.retries < MaxRetries THEN Enqueue(task.n, task.retries + 1)
           ELSE UNCHANGED <<queue, faults>>
        /\ UNCHANGED <<raised, stored, aged, row, fcm, sweep, active, tries,
                       abandoned>>

\* A worker dies with the task it had already acknowledged; its successor will
\* initialise FCM anew.
WorkerCrash(w) ==
    /\ worker[w] # Idle
    /\ faults < Faults
    /\ faults' = faults + 1
    /\ worker' = [worker EXCEPT ![w] = Idle]
    /\ fcm' = [fcm EXCEPT ![w] = "unknown"]
    /\ UNCHANGED <<raised, stored, aged, row, queue, sweep, active, tries, abandoned>>

----------------------------------------------------------------------------
(* retry_pending_notifications_task.                                       *)

Stuck == {n \in stored \cap aged : row[n].status = "PENDING" /\ ~row[n].sent_at}

\* The query: the oldest SWEEP_BATCH pending rows, read once.
SweepQuery ==
    /\ sweep = {}
    /\ Stuck # {}
    /\ sweep' = {[n |-> n, attempts |-> row[n].attempts] :
                   n \in {m \in Stuck : Cardinality({k \in Stuck : k < m}) < SWEEP_BATCH}}
    /\ UNCHANGED <<raised, stored, aged, row, queue, worker, fcm, active, tries,
                   abandoned, faults>>

\* Seeded fault: the sweeper gives up one attempt early.
SweepRowEarly ==
    \E s \in sweep :
        /\ \A u \in sweep : s.n <= u.n
        /\ IF s.attempts + 1 >= SWEEP_MAX_ATTEMPTS
           THEN /\ row' = IF s.n \in stored THEN [row EXCEPT ![s.n].status = "FAILED"] ELSE row
                /\ abandoned' = IF s.n \in stored THEN abandoned \cup {s.n} ELSE abandoned
                /\ sweep' = IF s.n \in stored THEN sweep \ {s} ELSE {}
                /\ UNCHANGED <<queue, faults>>
           ELSE /\ Enqueue(s.n, 0)
                /\ sweep' = sweep \ {s}
                /\ UNCHANGED <<row, abandoned>>
        /\ UNCHANGED <<raised, stored, aged, worker, fcm, active, tries>>

\* One row of the loop, as it was when it was read: give up or re-enqueue.
\* Giving up on a row deleted meanwhile fails the whole run.
SweepRow ==
    \E s \in sweep :
        /\ \A u \in sweep : s.n <= u.n
        /\ IF s.attempts >= SWEEP_MAX_ATTEMPTS
           THEN /\ row' = IF s.n \in stored THEN [row EXCEPT ![s.n].status = "FAILED"] ELSE row
                /\ abandoned' = IF s.n \in stored THEN abandoned \cup {s.n} ELSE abandoned
                /\ sweep' = IF s.n \in stored THEN sweep \ {s} ELSE {}
                /\ UNCHANGED <<queue, faults>>
           ELSE /\ Enqueue(s.n, 0)
                /\ sweep' = sweep \ {s}
                /\ UNCHANGED <<row, abandoned>>
        /\ UNCHANGED <<raised, stored, aged, worker, fcm, active, tries>>

SweeperCrash ==
    /\ sweep # {}
    /\ faults < Faults
    /\ faults' = faults + 1
    /\ sweep' = {}
    /\ UNCHANGED <<raised, stored, aged, row, queue, worker, fcm, active, tries,
                   abandoned>>

Next ==
    \/ \E n \in Notifications : Raise(n) \/ Age(n) \/ Remove(n)
    \/ \E d \in Devices : Register(d)
    \/ \E w \in Workers, n \in Notifications, retries \in 0..MaxRetries : Start(w, n, retries)
    \/ \E w \in Workers : Send(w) \/ Save(w) \/ Retry(w) \/ WorkerCrash(w)
    \/ SweepQuery
    \/ SweepRow
    \/ SweeperCrash

Spec == Init /\ [][Next]_vars

\* The worker and beat containers keep running (they restart when they die):
\* messages are consumed, tasks finish, rows age and the sweeper comes round.
Fairness ==
    /\ WF_vars(\E w \in Workers, n \in Notifications, retries \in 0..MaxRetries :
                  Start(w, n, retries))
    /\ \A w \in Workers : WF_vars(Send(w)) /\ WF_vars(Save(w)) /\ WF_vars(Retry(w))
    /\ \A n \in Notifications : WF_vars(Age(n))
    /\ WF_vars(SweepQuery)
    /\ WF_vars(SweepRow)

FairSpec == Spec /\ Fairness

----------------------------------------------------------------------------
(* Properties.                                                             *)

\* The sweeper never gives up early: a notification marked FAILED really had
\* SWEEP_MAX_ATTEMPTS calls of send_to_employee (each an attempt, also where FCM
\* is disabled or no token is active), although attempts is read, incremented
\* and saved without a lock and the sweeper decides on a row it read earlier.
GiveUpIsEarned == \A n \in abandoned : tries[n] >= SWEEP_MAX_ATTEMPTS

\* The attempts column may lose updates but never overstates: it is at most
\* the number of calls of send_to_employee.
AttemptsNeverOverstate == \A n \in Notifications : row[n].attempts <= tries[n]

\* Nothing more is owed for n: sent_at is set or the row says SENT, the sweeper
\* gave up, or the row is gone with its log.
Settled(n) == row[n].sent_at \/ row[n].status = "SENT" \/ n \in abandoned \/ n \notin stored

SettledSet == {n \in raised : Settled(n)}
Promise == INSTANCE NotificationPromise WITH settled <- SettledSet

\* Delivery implements NotificationPromise: whatever crashes, refused messages,
\* overlapping copies and retries do, a notification that is settled stays so
\* (even though its status may not), and every raised one is settled in the
\* end ("so nothing is lost").
KeepsPromise == Promise!Spec
=============================================================================
