---------------------------- MODULE Notification ----------------------------
(***************************************************************************)
(* A notification from the service call that makes it to the mail: the     *)
(* record in MongoDB, the job in BullMQ, and the worker that runs the job, *)
(* in the same process as the API.                                         *)
(*                                                                         *)
(* BullMQ is external: a job is handed out, comes back when its processor  *)
(* throws until its attempts are used up, and comes back without using one *)
(* when the process that held it is gone (a stall), MaxStalls times.       *)
(***************************************************************************)
EXTENDS Integers, FiniteSets

CONSTANTS
  Notices,
  Addressed,    \* those whose recipient has an e-mail address
  Attempts,     \* 3: defaultJobOptions.attempts
  Concurrency,  \* 5: jobs a worker runs at a time
  MaxStalls,    \* 1: BullMQ's maxStalledCount
  Failing,      \* the steps whose call may throw
  MaxCrashes    \* bound: crashes in a behaviour

MakerSteps  == {"resolve", "create", "enqueue"}
WorkerSteps == {"find", "send", "saveSent", "saveError", "finish", "fail"}
\* The worker's calls to BullMQ itself are retried by BullMQ and not among them.
MayThrow    == MakerSteps \cup {"find", "send", "saveSent", "saveError"}

ASSUME NotificationAssumption ==
  /\ IsFiniteSet(Notices) /\ Addressed \subseteq Notices
  /\ Attempts \in Nat \ {0} /\ Concurrency \in Nat \ {0}
  /\ MaxStalls \in Nat /\ MaxCrashes \in Nat
  /\ Failing \subseteq MayThrow

VARIABLES
  maker,     \* notice -> the next step of the createNotification that makes it
  status,    \* notice -> notification_email.status, "absent" before the record exists
  attempts,  \* notice -> notification_email.attempts
  isRead,    \* notice -> notification_isRead
  job,       \* notice -> its job in BullMQ
  made,      \* notice -> the job's attemptsMade
  stalls,    \* notice -> how often the job was found stalled
  worker,    \* notice -> the next step of the processor holding the job
  mails,     \* notice -> mails the SMTP server has accepted
  crashes

record == <<status, attempts, isRead>>
queue  == <<job, made, stalls>>
vars   == <<maker, record, queue, worker, mails, crashes>>

JobEnds == {"completed", "failed", "abandoned"}

Init ==
  /\ maker = [n \in Notices |-> "resolve"]
  /\ status = [n \in Notices |-> "absent"]
  /\ attempts = [n \in Notices |-> 0]
  /\ isRead = [n \in Notices |-> FALSE]
  /\ job = [n \in Notices |-> "none"]
  /\ made = [n \in Notices |-> 0]
  /\ stalls = [n \in Notices |-> 0]
  /\ worker = [n \in Notices |-> "none"]
  /\ mails = [n \in Notices |-> 0]
  /\ crashes = 0

-----------------------------------------------------------------------------
(* createNotification.                                                      *)
Making(n, step) == maker' = [maker EXCEPT ![n] = step]

ResolveRecipient(n) ==
  /\ maker[n] = "resolve"
  /\ Making(n, "create")
  /\ UNCHANGED <<record, queue, worker, mails, crashes>>

CreateRecord(n) ==
  /\ maker[n] = "create"
  /\ \/ /\ n \in Addressed
        /\ status' = [status EXCEPT ![n] = "queued"]
        /\ Making(n, "enqueue")
     \/ /\ n \notin Addressed
        /\ status' = [status EXCEPT ![n] = "not_requested"]
        /\ Making(n, "done")
  /\ UNCHANGED <<attempts, isRead, queue, worker, mails, crashes>>

AddJob(n) ==
  /\ maker[n] = "enqueue"
  /\ job' = [job EXCEPT ![n] = "waiting"]
  /\ Making(n, "done")
  /\ UNCHANGED <<record, made, stalls, worker, mails, crashes>>

\* The error reaches the service that notifies; the record, if there is one, stays.
MakerThrows(n) ==
  /\ maker[n] \in Failing
  /\ Making(n, "refused")
  /\ UNCHANGED <<record, queue, worker, mails, crashes>>

\* markAsRead: nobody else writes the two fields it saves.
MarkAsRead(n) ==
  /\ status[n] # "absent" /\ ~isRead[n]
  /\ isRead' = [isRead EXCEPT ![n] = TRUE]
  /\ UNCHANGED <<maker, status, attempts, queue, worker, mails, crashes>>

-----------------------------------------------------------------------------
(* processNotificationEmailJob.  Nothing deletes a notification, so the     *)
(* lookup finds it.                                                         *)
Working(n, step) == worker' = [worker EXCEPT ![n] = step]

AttemptNumber(n) == made[n] + 1

Active == {n \in Notices : job[n] = "active"}

TakeJob(n) ==
  /\ job[n] = "waiting" /\ Cardinality(Active) < Concurrency
  /\ job' = [job EXCEPT ![n] = "active"]
  /\ Working(n, "find")
  /\ UNCHANGED <<maker, record, made, stalls, mails, crashes>>

Find_MarksSent(n) ==
  /\ worker[n] = "find"
  /\ status' = [status EXCEPT ![n] = "sent"]
  /\ Working(n, "send")
  /\ UNCHANGED <<maker, attempts, isRead, queue, mails, crashes>>

Find(n) ==
  /\ worker[n] = "find"
  /\ Working(n, "send")
  /\ UNCHANGED <<maker, record, queue, mails, crashes>>

SendMail(n) ==
  /\ worker[n] = "send"
  /\ mails' = [mails EXCEPT ![n] = @ + 1]
  /\ Working(n, "saveSent")
  /\ UNCHANGED <<maker, record, queue, crashes>>

SaveSent(n) ==
  /\ worker[n] = "saveSent"
  /\ status' = [status EXCEPT ![n] = "sent"]
  /\ attempts' = [attempts EXCEPT ![n] = AttemptNumber(n)]
  /\ Working(n, "finish")
  /\ UNCHANGED <<maker, isRead, queue, mails, crashes>>

StatusAfterError_Late(n) == IF AttemptNumber(n) > Attempts THEN "failed" ELSE "queued"

StatusAfterError(n) == IF AttemptNumber(n) >= Attempts THEN "failed" ELSE "queued"

\* The catch block, entered from the mail or from the save after it.
SaveError(n) ==
  /\ worker[n] = "saveError"
  /\ status' = [status EXCEPT ![n] = StatusAfterError(n)]
  /\ attempts' = [attempts EXCEPT ![n] = AttemptNumber(n)]
  /\ Working(n, "fail")
  /\ UNCHANGED <<maker, isRead, queue, mails, crashes>>

\* Where an error goes: the catch block for what is inside the try.
AfterThrow(step) == IF step \in {"send", "saveSent"} THEN "saveError" ELSE "fail"

WorkerThrows(n) ==
  /\ worker[n] \in Failing
  /\ Working(n, AfterThrow(worker[n]))
  /\ UNCHANGED <<maker, record, queue, mails, crashes>>

-----------------------------------------------------------------------------
(* BullMQ.                                                                  *)
FinishJob(n) ==
  /\ worker[n] = "finish"
  /\ job' = [job EXCEPT ![n] = "completed"]
  /\ Working(n, "none")
  /\ UNCHANGED <<maker, record, made, stalls, mails, crashes>>

NextTry_OneMore(n) == IF AttemptNumber(n) <= Attempts THEN "waiting" ELSE "failed"

NextTry(n) == IF AttemptNumber(n) < Attempts THEN "waiting" ELSE "failed"

FailJob(n) ==
  /\ worker[n] = "fail"
  /\ job' = [job EXCEPT ![n] = NextTry(n)]
  /\ made' = [made EXCEPT ![n] = @ + 1]
  /\ Working(n, "none")
  /\ UNCHANGED <<maker, record, stalls, mails, crashes>>

Stalled_Never(n) == FALSE /\ UNCHANGED vars

\* A job whose processor is gone is found by the stalled check.
Stalled(n) ==
  /\ worker[n] = "lost"
  /\ \/ /\ stalls[n] < MaxStalls
        /\ job' = [job EXCEPT ![n] = "waiting"]
        /\ stalls' = [stalls EXCEPT ![n] = @ + 1]
     \/ /\ stalls[n] >= MaxStalls
        /\ job' = [job EXCEPT ![n] = "abandoned"]
        /\ UNCHANGED stalls
  /\ Working(n, "none")
  /\ UNCHANGED <<maker, record, made, mails, crashes>>

Crash ==
  /\ crashes < MaxCrashes
  /\ \E n \in Notices : maker[n] \in {"create", "enqueue"} \/ worker[n] \in WorkerSteps
  /\ maker' = [n \in Notices |-> IF maker[n] \in {"create", "enqueue"} THEN "lost" ELSE maker[n]]
  /\ worker' = [n \in Notices |-> IF worker[n] \in WorkerSteps THEN "lost" ELSE worker[n]]
  /\ crashes' = crashes + 1
  /\ UNCHANGED <<record, queue, mails>>

\* Every notice is made or given up, and its job has ended.
Quiet ==
  /\ \A n \in Notices : maker[n] \in {"done", "refused", "lost"}
  /\ \A n \in Notices : job[n] \in JobEnds \cup {"none"}
  /\ UNCHANGED vars

Make(n) == ResolveRecipient(n) \/ CreateRecord(n) \/ AddJob(n) \/ MakerThrows(n)

Work(n) ==
  \/ TakeJob(n) \/ Find(n) \/ SendMail(n) \/ SaveSent(n) \/ SaveError(n)
  \/ WorkerThrows(n) \/ FinishJob(n) \/ FailJob(n) \/ Stalled(n)

Next ==
  \/ \E n \in Notices : Make(n) \/ MarkAsRead(n) \/ Work(n)
  \/ Crash
  \/ Quiet

\* BullMQ polls and retries for as long as the process runs or is started again; a call
\* of createNotification that has begun goes on, because every awaited call settles.
Fairness ==
  \A n \in Notices : WF_vars(Work(n)) /\ WF_vars(maker[n] # "resolve" /\ Make(n))

Spec == Init /\ [][Next]_vars /\ Fairness

-----------------------------------------------------------------------------
(* Properties.                                                              *)

\* "failed email delivery is recorded on the notification record"
\* (docs/notification-payment-architecture.md:104): a record says "sent" only if a mail
\* has gone out, and when BullMQ has done with a job the record says how it ended, as
\* long as the lookup and the save of the catch block work.
RecordIsTrue ==
  /\ \A n \in Notices : status[n] = "sent" => mails[n] > 0
  /\ Failing \cap {"find", "saveError"} = {} =>
       \A n \in Notices :
         /\ job[n] = "completed" => status[n] = "sent"
         /\ job[n] = "failed" => status[n] = "failed"

\* "worker retries email jobs a limited number of times" (the same document, line 105):
\* no reader gets more mails than there are attempts and stalls.
MailsBounded == \A n \in Notices : mails[n] <= Attempts + stalls[n]

\* A notification once recorded as sent is not taken back to queued or failed, and its
\* reader gets no second mail, unless the process stopped before BullMQ learnt of it.
SentIsFinal ==
  [][\A n \in Notices :
       status[n] = "sent" /\ stalls[n] = 0 => status'[n] = "sent" /\ mails'[n] = mails[n]]_vars

\* The service call that made the record broke off before it added the job (line 69 of
\* the service): nothing ever looks for such records.
NeverQueued(n) == job[n] = "none" /\ maker[n] \in {"refused", "lost"}

\* A notification that is recorded as queued, or whose job waits, does not stay so: its
\* job ends and the record says how, unless BullMQ gives it up as stalled or no job was
\* ever added.
QueuedIsSettled ==
  Failing \cap {"find", "saveError"} = {} =>
    \A n \in Notices :
      (status[n] = "queued" \/ job[n] = "waiting") ~>
        \/ job[n] \in {"completed", "failed"} /\ status[n] \in {"sent", "failed"}
        \/ job[n] = "abandoned"
        \/ NeverQueued(n)
=============================================================================
