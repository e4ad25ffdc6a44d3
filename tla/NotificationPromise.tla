------------------------- MODULE NotificationPromise -------------------------
(***************************************************************************)
(* What apps/notifications promises of a notification once ingestion has   *)
(* recorded it: it is settled - handed to the employee's phones, found to  *)
(* have nobody to go to, given up after the last attempt, or gone with the *)
(* log it announced - and what is settled stays settled.  How that happens *)
(* (queue, retries, sweeper) is Delivery's.                                *)
(***************************************************************************)
CONSTANT Notifications

VARIABLES raised, settled

Init == raised = {} /\ settled = {}

Raise(n) ==
    /\ n \notin raised
    /\ raised' = raised \cup {n}
    /\ UNCHANGED settled

Settle(n) ==
    /\ n \in raised \ settled
    /\ settled' = settled \cup {n}
    /\ UNCHANGED raised

Next == \E n \in Notifications : Raise(n) \/ Settle(n)

\* Nothing is lost: what is raised does not wait for ever.
Spec == /\ Init /\ [][Next]_<<raised, settled>>
        /\ \A n \in Notifications : WF_<<raised, settled>>(Settle(n))
=============================================================================
