-------------------------- MODULE NotificationProofs --------------------------
(***************************************************************************)
(* What Notification promises, for every set of notices, any number of     *)
(* attempts, workers, stalls and crashes, and whichever steps fail: the    *)
(* record tells how the mail went, a reader is not flooded, and a          *)
(* notification recorded as sent is done with.                             *)
(***************************************************************************)
EXTENDS Notification, TLAPS

TypeOK ==
  /\ maker \in [Notices -> MakerSteps \cup {"done", "refused", "lost"}]
  /\ status \in [Notices -> {"absent", "queued", "not_requested", "sent", "failed"}]
  /\ attempts \in [Notices -> Nat]
  /\ isRead \in [Notices -> BOOLEAN]
  /\ job \in [Notices -> {"none", "waiting", "active"} \cup JobEnds]
  /\ made \in [Notices -> Nat]
  /\ stalls \in [Notices -> Nat]
  /\ worker \in [Notices -> WorkerSteps \cup {"none", "lost"}]
  /\ mails \in [Notices -> Nat]

\* A processor holds a job, and only one that was added when the record was there.
HeldOK(n) ==
  /\ worker[n] # "none" <=> job[n] = "active"
  /\ job[n] # "none" => maker[n] = "done"
  /\ maker[n] \in {"resolve", "create"} => status[n] = "absent"
  /\ status[n] = "sent" => job[n] # "none"

\* The attempt under way may have sent its mail already.
MayHaveSent(n) ==
  worker[n] \notin {"none", "find", "send"} \/ job[n] \in {"completed", "abandoned"}

\* Every mail is paid for by an attempt that is over, by a stall, or by the attempt under way.
MailsPaid(n) ==
  /\ made[n] <= Attempts
  /\ job[n] # "failed" => made[n] < Attempts
  /\ mails[n] <= made[n] + stalls[n] + (IF MayHaveSent(n) THEN 1 ELSE 0)

\* What the record says while the processor goes through its steps.
RecordOK(n) ==
  /\ status[n] = "sent" \/ worker[n] \in {"saveSent", "finish"} => mails[n] > 0
  /\ worker[n] = "finish" \/ job[n] = "completed" => status[n] = "sent"
  /\ Failing \cap {"find", "saveError"} = {} =>
       /\ worker[n] = "fail" => status[n] = StatusAfterError(n)
       /\ job[n] = "failed" => status[n] = "failed"

\* With no stall, a notification recorded as sent is out of its processor's hands.
SentOK(n) ==
  status[n] = "sent" /\ stalls[n] = 0 =>
    worker[n] \in {"finish", "lost"} \/ job[n] \in {"completed", "abandoned"}

NoticeOK(n) == HeldOK(n) /\ MailsPaid(n) /\ RecordOK(n) /\ SentOK(n)

IInv == TypeOK /\ \A n \in Notices : NoticeOK(n)

USE NotificationAssumption DEF Making, Working, record, queue, JobEnds, MakerSteps, WorkerSteps, AttemptNumber

-----------------------------------------------------------------------------
LEMMA FirstState == Init => IInv
BY DEF Init, IInv, TypeOK, NoticeOK, HeldOK, MailsPaid, RecordOK, SentOK, MayHaveSent

\* A step for one notice leaves the others alone.
LEMMA OthersUntouched ==
  ASSUME TypeOK, NEW n \in Notices, Make(n) \/ MarkAsRead(n) \/ Work(n), NEW m \in Notices, m # n
  PROVE  /\ maker'[m] = maker[m] /\ status'[m] = status[m] /\ job'[m] = job[m] /\ made'[m] = made[m]
         /\ stalls'[m] = stalls[m] /\ worker'[m] = worker[m] /\ mails'[m] = mails[m]
<1>1. CASE Make(n) \/ MarkAsRead(n)
  BY <1>1 DEF TypeOK, Make, MarkAsRead, ResolveRecipient, CreateRecord, AddJob, MakerThrows
<1>2. CASE TakeJob(n) \/ Find(n) \/ SendMail(n) \/ SaveSent(n) \/ SaveError(n)
  BY <1>2 DEF TypeOK, TakeJob, Find, SendMail, SaveSent, SaveError
<1>3. CASE WorkerThrows(n) \/ FinishJob(n) \/ FailJob(n) \/ Stalled(n)
  BY <1>3 DEF TypeOK, WorkerThrows, FinishJob, FailJob, Stalled
<1> QED
  BY <1>1, <1>2, <1>3 DEF Work

\* What holds of a notice that a step leaves alone stays true of it.
LEMMA NoticeRests ==
  ASSUME NEW m \in Notices, NoticeOK(m),
         maker'[m] = maker[m], status'[m] = status[m], job'[m] = job[m], made'[m] = made[m],
         stalls'[m] = stalls[m], worker'[m] = worker[m], mails'[m] = mails[m]
  PROVE  NoticeOK(m)'
BY DEF NoticeOK, HeldOK, MailsPaid, RecordOK, SentOK, MayHaveSent, StatusAfterError

LEMMA TypeStep ==
  ASSUME TypeOK, [Next]_vars
  PROVE  TypeOK'
<1>1. ASSUME NEW n \in Notices, Make(n) PROVE TypeOK'
  BY <1>1 DEF TypeOK, Make, ResolveRecipient, CreateRecord, AddJob, MakerThrows
<1>2. ASSUME NEW n \in Notices, TakeJob(n) \/ Find(n) \/ SendMail(n) PROVE TypeOK'
  BY <1>2 DEF TypeOK, TakeJob, Find, SendMail
<1>3. ASSUME NEW n \in Notices, SaveSent(n) \/ SaveError(n) \/ WorkerThrows(n) PROVE TypeOK'
  BY <1>3 DEF TypeOK, SaveSent, SaveError, WorkerThrows, AfterThrow, StatusAfterError
<1>4. ASSUME NEW n \in Notices, FinishJob(n) \/ FailJob(n) \/ Stalled(n) PROVE TypeOK'
  BY <1>4 DEF TypeOK, FinishJob, FailJob, NextTry, Stalled
<1>5. CASE Crash
  BY <1>5 DEF TypeOK, Crash
<1>6. CASE UNCHANGED vars
  BY <1>6 DEF TypeOK, vars
<1>7. ASSUME NEW n \in Notices, MarkAsRead(n) PROVE TypeOK'
  <2>1. isRead' \in [Notices -> BOOLEAN]
    BY <1>7 DEF TypeOK, MarkAsRead
  <2> QED
    BY <1>7, <2>1 DEF TypeOK, MarkAsRead
<1> QED
  BY <1>1, <1>2, <1>3, <1>4, <1>5, <1>6, <1>7 DEF Next, Work, Quiet

\* The steps of createNotification and markAsRead.
LEMMA MakeStep ==
  ASSUME IInv, NEW n \in Notices, Make(n) \/ MarkAsRead(n)
  PROVE  NoticeOK(n)'
<1> USE DEF IInv, TypeOK, NoticeOK, HeldOK, MailsPaid, RecordOK, SentOK, MayHaveSent, StatusAfterError
<1>1. CASE ResolveRecipient(n) \/ MakerThrows(n) \/ MarkAsRead(n)
  BY <1>1 DEF ResolveRecipient, MakerThrows, MarkAsRead, MayThrow
<1>2. CASE CreateRecord(n)
  BY <1>2 DEF CreateRecord
<1>3. CASE AddJob(n)
  BY <1>3 DEF AddJob
<1> QED
  BY <1>1, <1>2, <1>3 DEF Make

\* The steps of the processor and of BullMQ.
LEMMA WorkStep ==
  ASSUME IInv, NEW n \in Notices, Work(n)
  PROVE  NoticeOK(n)'
<1> USE DEF IInv, TypeOK, NoticeOK
<1>1. HeldOK(n)'
  BY DEF HeldOK, Work, TakeJob, Find, SendMail, SaveSent, SaveError, StatusAfterError, WorkerThrows, AfterThrow,
     MayThrow, FinishJob, FailJob, NextTry, Stalled
<1>2. MailsPaid(n)'
  <2>1. CASE TakeJob(n) \/ Find(n) \/ SaveSent(n) \/ SaveError(n) \/ FinishJob(n)
    BY <2>1 DEF HeldOK, MailsPaid, MayHaveSent, TakeJob, Find, SaveSent, SaveError, FinishJob
  <2>2. CASE SendMail(n)
    BY <2>2 DEF HeldOK, MailsPaid, MayHaveSent, SendMail
  <2>3. CASE WorkerThrows(n)
    BY <2>3 DEF HeldOK, MailsPaid, MayHaveSent, WorkerThrows, AfterThrow, MayThrow
  <2>4. CASE FailJob(n)
    BY <2>4 DEF HeldOK, MailsPaid, MayHaveSent, FailJob, NextTry
  <2>5. CASE Stalled(n)
    BY <2>5 DEF HeldOK, MailsPaid, MayHaveSent, Stalled
  <2> QED
    BY <2>1, <2>2, <2>3, <2>4, <2>5 DEF Work
<1>3. RecordOK(n)'
  <2>1. CASE TakeJob(n) \/ Find(n) \/ SendMail(n)
    BY <2>1 DEF HeldOK, RecordOK, StatusAfterError, TakeJob, Find, SendMail
  <2>2. CASE SaveSent(n) \/ SaveError(n)
    BY <2>2 DEF HeldOK, RecordOK, StatusAfterError, SaveSent, SaveError
  <2>3. CASE WorkerThrows(n)
    BY <2>3 DEF HeldOK, RecordOK, StatusAfterError, WorkerThrows, AfterThrow, MayThrow
  <2>4. CASE FinishJob(n) \/ FailJob(n) \/ Stalled(n)
    BY <2>4 DEF HeldOK, MailsPaid, RecordOK, StatusAfterError, FinishJob, FailJob, NextTry, Stalled
  <2> QED
    BY <2>1, <2>2, <2>3, <2>4 DEF Work
<1>4. SentOK(n)'
  BY DEF HeldOK, SentOK, Work, TakeJob, Find, SendMail, SaveSent, SaveError, StatusAfterError, WorkerThrows,
     AfterThrow, MayThrow, FinishJob, FailJob, NextTry, Stalled
<1> QED
  BY <1>1, <1>2, <1>3, <1>4

LEMMA Invariance == Spec => []IInv
<1>1. IInv /\ [Next]_vars => IInv'
  <2> SUFFICES ASSUME IInv, [Next]_vars, NEW m \in Notices PROVE NoticeOK(m)'
    BY TypeStep DEF IInv
  <2>1. ASSUME NEW n \in Notices, Make(n) \/ MarkAsRead(n) \/ Work(n) PROVE NoticeOK(m)'
    <3>1. CASE n = m
      BY <2>1, <3>1, MakeStep, WorkStep
    <3>2. CASE n # m
      BY <2>1, <3>2, OthersUntouched, NoticeRests DEF IInv
    <3> QED
      BY <3>1, <3>2
  <2>2. CASE Crash
    BY <2>2 DEF IInv, TypeOK, NoticeOK, HeldOK, MailsPaid, RecordOK, SentOK, MayHaveSent, StatusAfterError, Crash
  <2>3. CASE UNCHANGED vars
    BY <2>3, NoticeRests DEF IInv, vars
  <2> QED
    BY <2>1, <2>2, <2>3 DEF Next, Quiet
<1> QED
  BY <1>1, FirstState, PTL DEF Spec

\* The record says "sent" only when a mail has gone out, and how the job ended when it has
\* (createNotification, processNotificationEmailJob).
THEOREM RecordsAreTrue == Spec => []RecordIsTrue
<1>1. IInv => RecordIsTrue
  BY DEF IInv, NoticeOK, RecordOK, RecordIsTrue
<1> QED
  BY <1>1, Invariance, PTL

\* A reader gets no more mails than there are attempts and stalls (the job options of
\* notification.queue.js).
THEOREM MailsAreBounded == Spec => []MailsBounded
<1>1. IInv => MailsBounded
  <2> SUFFICES ASSUME IInv, NEW n \in Notices PROVE mails[n] <= Attempts + stalls[n]
    BY DEF MailsBounded
  <2>1. HeldOK(n) /\ MailsPaid(n)
    BY DEF IInv, NoticeOK
  <2>2. MayHaveSent(n) => made[n] < Attempts
    BY <2>1 DEF HeldOK, MailsPaid, MayHaveSent
  <2> QED
    BY <2>1, <2>2 DEF IInv, TypeOK, MailsPaid
<1> QED
  BY <1>1, Invariance, PTL

\* No step takes back a record of "sent" or sends its mail again, unless the job stalled.
THEOREM SentStaysSent == Spec => SentIsFinal
<1>1. IInv /\ [Next]_vars =>
        [\A n \in Notices :
           status[n] = "sent" /\ stalls[n] = 0 => status'[n] = "sent" /\ mails'[n] = mails[n]]_vars
  <2> SUFFICES ASSUME IInv, Next, NEW n \in Notices, status[n] = "sent", stalls[n] = 0
               PROVE  status'[n] = "sent" /\ mails'[n] = mails[n]
    OBVIOUS
  <2>1. HeldOK(n) /\ SentOK(n) /\ TypeOK
    BY DEF IInv, NoticeOK
  <2>2. CASE Make(n) \/ MarkAsRead(n)
    BY <2>1, <2>2 DEF HeldOK, Make, MarkAsRead, ResolveRecipient, CreateRecord, AddJob, MakerThrows
  <2>3. CASE Work(n)
    BY <2>1, <2>3 DEF TypeOK, HeldOK, SentOK, Work, TakeJob, Find, SendMail, SaveSent, SaveError, WorkerThrows,
       FinishJob, FailJob, Stalled
  <2>4. ASSUME NEW m \in Notices, m # n, Make(m) \/ MarkAsRead(m) \/ Work(m)
        PROVE  status'[n] = status[n] /\ mails'[n] = mails[n]
    BY <2>1, <2>4, OthersUntouched
  <2>5. CASE Crash \/ Quiet
    BY <2>5 DEF Crash, Quiet, vars
  <2> QED
    BY <2>2, <2>3, <2>4, <2>5 DEF Next
<1> QED
  BY <1>1, Invariance, PTL DEF Spec, SentIsFinal
===============================================================================
