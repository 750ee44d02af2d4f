----------------------------- MODULE EventQueue -----------------------------
(***************************************************************************)
(* The clock and the delayed jobs of one event: QueueEventSchedulingAdapter *)
(* over BullQueueService or CloudTasksQueueService.  A job's id is made of *)
(* the event and the job's name, so there is at most one job of each name. *)
(*                                                                         *)
(* The queues are services outside src/.  They are modelled from what the  *)
(* two drivers rely on: adding an id that exists is ignored by BullMQ and  *)
(* refused by Cloud Tasks; removing an id that is missing, or a job that   *)
(* is running, throws in the BullMQ driver and is ignored by the Cloud     *)
(* Tasks driver; a job is delivered no earlier than its time, and again    *)
(* when its handler failed or its acknowledgement was lost.                *)
(***************************************************************************)
EXTENDS Naturals

CONSTANT Driver \* QUEUE_DRIVER: "bullmq" or "cloud-tasks"

ASSUME DriverIsKnown == Driver \in {"bullmq", "cloud-tasks"}

VARIABLES
  now,  \* the clock
  jobs  \* the jobs in the queue

JobName == {"PARTICIPANT_CHECK", "LOCATION_SHARING_START", "END"}
Job     == [name : JobName, at : Nat, active : BOOLEAN]

QueueInit == now = 0 /\ jobs = {}

Scheduled(name) == \E j \in jobs : j.name = name

\* scheduleJobAt refuses an instant that has passed, with a different
\* comparison in each driver.
CanSchedule(name, at) ==
  IF Driver = "bullmq" THEN at >= now
  ELSE at > now /\ ~Scheduled(name)

WithJob(name, at) ==
  IF Scheduled(name) THEN jobs
  ELSE jobs \cup {[name |-> name, at |-> at, active |-> FALSE]}

\* removeJob.
CanRemove(name) ==
  Driver = "bullmq" => \E j \in jobs : j.name = name /\ ~j.active

WithoutJob(name) == {j \in jobs : j.name # name}

Due(j)         == j.at <= now /\ ~j.active
Activated(j)   == (jobs \ {j}) \cup {[j EXCEPT !.active = TRUE]}

\* A running job is done, or goes back to the queue to be delivered again.
Finished(name, at) == {j \in jobs : ~(j.name = name /\ j.at = at /\ j.active)}
Deactivated(name) ==
  {[j EXCEPT !.active = IF j.name = name THEN FALSE ELSE @] : j \in jobs}

\* The process stops while jobs run: Cloud Tasks sees the request fail and
\* retries; the BullMQ worker is configured with skipStalledCheck, so the job
\* it was running stays active and nobody takes it again.
Orphaned ==
  IF Driver = "bullmq" THEN jobs
  ELSE {[j EXCEPT !.active = FALSE] : j \in jobs}
=============================================================================
