------------------------- MODULE YouTubeIngestProofs -------------------------
(***************************************************************************)
(* Theorems about YouTubeIngest for every live chat, every set of targets  *)
(* and all bounds.                                                         *)
(***************************************************************************)
EXTENDS YouTubeIngest, TLAPS

----------------------------------------------------------------------------
(* The mailbox *)

LEMMA AppendIs ==
  ASSUME NEW S, NEW m \in Seq(S), NEW c \in S, NEW n, n = Append(m, c)
  PROVE  /\ n \in Seq(S) /\ Len(n) = Len(m) + 1 /\ Len(m) \in Nat
         /\ DOMAIN m = 1..Len(m) /\ DOMAIN n = 1..Len(m) + 1
         /\ n[Len(m) + 1] = c /\ \A i \in 1..Len(m) : n[i] = m[i]
OBVIOUS

LEMMA TailIs ==
  ASSUME NEW S, NEW m \in Seq(S), m # << >>, NEW n, n = Tail(m)
  PROVE  /\ n \in Seq(S) /\ Len(m) \in Nat \ {0} /\ Len(n) = Len(m) - 1
         /\ DOMAIN m = 1..Len(m) /\ DOMAIN n = 1..Len(m) - 1
         /\ Head(m) = m[1] /\ Head(m) \in S
         /\ \A i \in 1..Len(m) - 1 : n[i] = m[i + 1] /\ i + 1 \in 1..Len(m)
OBVIOUS

LEMMA CommandKinds ==
  ASSUME NEW c \in Command
  PROVE  /\ c.type \in {"other", "set", "enqueue", "status"}
         /\ c.type = "set" => c.setting \in Setting
         /\ c.type = "enqueue" => c.message \in 1..Messages /\ c.gen \in Nat
         /\ c.type = "status" => c.state \in State /\ c.received \in 0..PageSize /\ c.gen \in Nat
BY DEF Command

LEMMA MessagesType == Messages \in Nat
BY ChatAssumption DEF Messages

----------------------------------------------------------------------------
(* The inductive invariant of the task and its mailbox *)

\* Tasks are numbered in the order they are spawned; no command comes from one yet to
\* be, and the actor waits exactly for a task it has aborted.
Numbered ==
  /\ task # NoTask => task.gen = spawned /\ (task.aborted <=> actor # "idle")
  /\ \A i \in DOMAIN mailbox :
       mailbox[i].type \in {"enqueue", "status"} => mailbox[i].gen \in 1..spawned

\* What is left of the page, and how much of it may still be counted.
WithinPage(t) ==
  IF t.stage \in {"enqueueing", "answer"}
  THEN /\ t.next <= t.token + 1
       /\ t.accepted + (t.token - t.next + 1) <= PageSize
       /\ t.stage = "answer" => t.next <= t.token
  ELSE t.accepted = 0 /\ t.next = t.token + 1

PageInv == task # NoTask => WithinPage(task)

\* A task has one message in the mailbox at most: the one it waits for an answer to.
Mine(c) == c.type = "enqueue" /\ c.gen = task.gen

OneQuestion ==
  actor = "idle" /\ task # NoTask =>
    /\ \A i \in DOMAIN mailbox :
         Mine(mailbox[i]) => task.stage = "answer" /\ mailbox[i].message = task.next
    /\ \A i, j \in DOMAIN mailbox : Mine(mailbox[i]) /\ Mine(mailbox[j]) => i = j

IInv == TypeOK /\ Numbered /\ PageInv /\ OneQuestion

LEMMA TaskIsSome == ASSUME NEW t \in Task PROVE t # NoTask
BY DEF Task, NoTask

----------------------------------------------------------------------------
(* The steps of the task *)

\* A task at another place, the fields that a step may change all given.
Moved(t, stage, token, next, count) ==
  [t EXCEPT !.stage = stage, !.token = token, !.next = next, !.accepted = count]

LEMMA TaskMoved ==
  ASSUME NEW t \in Task, NEW stage \in Stage, NEW token \in 0..Messages,
         NEW next \in 1..Messages + 1, NEW count \in 0..PageSize
  PROVE  /\ Moved(t, stage, token, next, count) \in Task
         /\ Moved(t, stage, token, next, count).gen = t.gen
         /\ Moved(t, stage, token, next, count).aborted = t.aborted
         /\ Moved(t, stage, token, next, count).stage = stage
         /\ Moved(t, stage, token, next, count).token = token
         /\ Moved(t, stage, token, next, count).next = next
         /\ Moved(t, stage, token, next, count).accepted = count
BY DEF Task, Moved

\* A command the task sends about itself.
Report(c) == c \in Command /\ c.type = "status" /\ c.gen = task.gen

LEMMA UpdateStatusIs ==
  ASSUME TypeOK, task # NoTask, NEW state \in State, NEW received \in 0..PageSize,
         UpdateStatus(state, received)
  PROVE  \/ mailbox' = mailbox
         \/ Room /\ \E c : Report(c) /\ c.received = received /\ mailbox' = Append(mailbox, c)
<1> DEFINE c == [type |-> "status", state |-> state, received |-> received, gen |-> task.gen]
<1>1. task \in Task
  BY DEF TypeOK
<1>2. Report(c) /\ c.received = received
  BY <1>1 DEF Report, Command, Task
<1> QED BY <1>2 DEF UpdateStatus

\* Whatever the task does, it goes on within its page, and it sends either a status or
\* the message at hand.
Silent    == mailbox' = mailbox
Reporting == Room /\ \E c : /\ Report(c) /\ mailbox' = Append(mailbox, c)
                            /\ c.received + task'.accepted <= task.accepted
Asking    == /\ Room /\ task'.stage = "answer"
             /\ \E c \in Command : /\ c.type = "enqueue" /\ c.gen = task.gen
                                   /\ c.message = task'.next /\ mailbox' = Append(mailbox, c)

LEMMA TaskStepIs ==
  ASSUME TypeOK, PageInv, TaskStep
  PROVE  /\ task # NoTask /\ ~task.aborted /\ task.stage # "answer" /\ UNCHANGED TaskOnly
         /\ task' \in Task /\ task'.gen = task.gen /\ ~task'.aborted /\ WithinPage(task')
         /\ task'.accepted <= task.accepted
         /\ ((Silent \/ Reporting) /\ task'.stage # "answer") \/ Asking
<1>1. Running /\ task \in Task /\ task # NoTask /\ UNCHANGED TaskOnly
  BY DEF TaskStep, Resolve, Resolved, ResolveFails, FetchPage, FetchFails, SessionExpired,
     Reresolved, EnqueueMessage, PageDone, Running, TypeOK
<1>2. WithinPage(task) /\ ~task.aborted
  BY <1>1 DEF PageInv, Running
<1>3. task.stage # "answer"
  BY DEF TaskStep, Resolve, Resolved, ResolveFails, FetchPage, FetchFails, SessionExpired,
     Reresolved, EnqueueMessage, PageDone
<1>4. /\ task.gen \in Nat /\ task.token \in 0..Messages /\ task.next \in 1..Messages + 1
      /\ task.accepted \in 0..PageSize /\ Messages \in Nat /\ PageSize \in Nat
      /\ task.target \in Targets
  BY <1>1, MessagesType, BoundsAssumption, ChatAssumption DEF Task
<1> DEFINE Same(t) == t.gen = task.gen /\ t.aborted = task.aborted
           Goes(t) == /\ t \in Task /\ Same(t) /\ WithinPage(t) /\ t.accepted <= task.accepted
                      /\ t.stage # "answer"
\* Steps that go on with the page as it is.
<1>5. ASSUME NEW stage \in {"starting", "resolving", "polling", "expired"},
             task.stage \in {"starting", "resolving", "polling", "expired"}
      PROVE  Goes([task EXCEPT !.stage = stage])
  BY <1>1, <1>2, <1>4, <1>5 DEF Task, Stage, WithinPage
<1>6. ASSUME NEW state \in State, UpdateStatus(state, 0), Goes(task'), task'.accepted = task.accepted
      PROVE  Silent \/ Reporting
  <2>1. 0 \in 0..PageSize /\ 0 + task'.accepted <= task.accepted
    BY <1>4, <1>6
  <2> QED BY <1>1, <1>6, <2>1, UpdateStatusIs DEF Silent, Reporting
<1>7. CASE Resolve \/ ResolveFails \/ SessionExpired
  <2>1. PICK stage \in {"starting", "resolving", "expired"}, state \in State :
          task' = [task EXCEPT !.stage = stage] /\ UpdateStatus(state, 0)
    BY <1>7 DEF Resolve, ResolveFails, SessionExpired, State
  <2>2. Goes(task') /\ task'.accepted = task.accepted
    BY <1>1, <1>5, <1>7, <2>1 DEF Resolve, ResolveFails, SessionExpired, Task
  <2> QED BY <1>1, <1>2, <1>3, <1>6, <2>1, <2>2
<1>8. ASSUME NEW t \in 0..Messages, task.stage \in {"resolving", "expired"}
      PROVE  Goes(NewSession(t)) /\ NewSession(t).accepted = task.accepted
  <2>1. task.accepted = 0 /\ t + 1 \in 1..Messages + 1 /\ "polling" \in Stage
    BY <1>2, <1>4, <1>8 DEF WithinPage, Stage
  <2>2. NewSession(t) = Moved(task, "polling", t, t + 1, task.accepted)
    BY <1>1 DEF NewSession, Moved, Task
  <2>3. /\ NewSession(t) \in Task /\ Same(NewSession(t))
        /\ NewSession(t).stage = "polling" /\ NewSession(t).token = t
        /\ NewSession(t).next = t + 1 /\ NewSession(t).accepted = task.accepted
    <3>1. task.accepted \in 0..PageSize
      BY <1>4
    <3> QED BY <1>1, <2>1, <2>2, <3>1, TaskMoved
  <2> QED BY <1>4, <2>1, <2>3 DEF WithinPage
<1>9. Continuation(task.target) \subseteq 0..Messages
  BY <1>4 DEF Continuation, Targets
<1>10. CASE Resolved
  <2>1. PICK t \in 0..Messages : task' = NewSession(t) /\ UpdateStatus("Connected", 0)
    BY <1>9, <1>10 DEF Resolved
  <2>2. Goes(task') /\ task'.accepted = task.accepted
    BY <1>8, <1>10, <2>1 DEF Resolved
  <2> QED BY <1>1, <1>2, <1>3, <1>6, <2>1, <2>2 DEF State
<1>11. CASE Reresolved
  <2>1. CASE \E t \in Continuation(task.target) : task' = NewSession(t) /\ Silent
    <3>1. PICK t \in 0..Messages : task' = NewSession(t) /\ Silent
      BY <1>9, <2>1
    <3> QED BY <1>1, <1>2, <1>3, <1>8, <1>11, <3>1 DEF Reresolved
  <2>2. CASE task' = [task EXCEPT !.stage = "polling"] /\ UpdateStatus("Error", 0)
    <3>1. Goes(task') /\ task'.accepted = task.accepted
      BY <1>1, <1>5, <1>11, <2>2 DEF Reresolved, Task
    <3> QED BY <1>1, <1>2, <1>3, <1>6, <2>2, <3>1 DEF State
  <2> QED BY <1>11, <2>1, <2>2 DEF Reresolved, Silent
<1>12. CASE FetchFails
  <2>1. Goes(task') /\ task'.accepted = task.accepted
    BY <1>1, <1>2, <1>3, <1>4, <1>12 DEF FetchFails
  <2>2. UpdateStatus("Error", 0)
    BY <1>12 DEF FetchFails
  <2> QED BY <1>1, <1>2, <1>3, <1>6, <2>1, <2>2 DEF State
<1>13. CASE FetchPage
  <2>1. PICK n \in PageLength : task' = [task EXCEPT !.stage = "enqueueing", !.token = @ + n,
                                                     !.next = task.token + 1]
    BY <1>13 DEF FetchPage
  <2>2. n \in 0..PageSize /\ task.token + n <= Messages
    BY <2>1 DEF PageLength
  <2>3. Goes(task')
    <3>1. /\ task.accepted = 0 /\ task.token + n \in 0..Messages
          /\ task.token + 1 \in 1..Messages + 1 /\ "enqueueing" \in Stage
      BY <1>2, <1>4, <1>13, <2>2 DEF FetchPage, WithinPage, Stage
    <3>2. task' = Moved(task, "enqueueing", task.token + n, task.token + 1, task.accepted)
      BY <1>1, <2>1 DEF Moved, Task
    <3>3. /\ task' \in Task /\ Same(task') /\ task'.stage = "enqueueing"
          /\ task'.token = task.token + n /\ task'.next = task.token + 1
          /\ task'.accepted = task.accepted
      BY <1>1, <1>4, <3>1, <3>2, TaskMoved
    <3> QED BY <1>4, <2>2, <3>1, <3>3 DEF WithinPage
  <2> QED BY <1>1, <1>2, <1>3, <1>13, <2>3 DEF FetchPage, Silent
<1>14. CASE PageDone
  <2>1. task' = [task EXCEPT !.stage = "polling", !.accepted = 0]
        /\ task.stage = "enqueueing" /\ task.next > task.token
    BY <1>14 DEF PageDone
  <2>2. Goes(task') /\ task'.accepted = 0
    <3>1. /\ task.token \in 0..Messages /\ task.next \in 1..Messages + 1 /\ 0 \in 0..PageSize
          /\ task.next = task.token + 1 /\ "polling" \in Stage
      BY <1>2, <1>4, <2>1 DEF WithinPage, Stage
    <3>2. task' = Moved(task, "polling", task.token, task.next, 0)
        BY <1>1, <2>1 DEF Moved, Task
    <3>3. /\ task' \in Task /\ Same(task') /\ task'.stage = "polling"
          /\ task'.token = task.token /\ task'.next = task.next /\ task'.accepted = 0
      BY <1>1, <3>1, <3>2, TaskMoved
    <3> QED BY <1>4, <3>1, <3>3 DEF WithinPage
  <2>3. task.accepted + task'.accepted <= task.accepted
    BY <1>4, <2>2
  <2>4. UpdateStatus("Polling", task.accepted)
    BY <1>14 DEF PageDone
  <2>5. Silent \/ Reporting
    BY <1>1, <1>4, <2>3, <2>4, UpdateStatusIs DEF Silent, Reporting, State
  <2> QED BY <1>1, <1>2, <1>3, <2>2, <2>5
<1>15. CASE EnqueueMessage
  <2>1. task.stage = "enqueueing" /\ task.next <= task.token
    BY <1>15 DEF EnqueueMessage
  <2>2. CASE task' = [task EXCEPT !.next = @ + 1] /\ Silent
    <3>1. Goes(task')
      <4>1. /\ task.token \in 0..Messages /\ task.next + 1 \in 1..Messages + 1
            /\ task.accepted \in 0..PageSize /\ task.stage \in Stage
        BY <1>4, <2>1 DEF Stage
      <4>2. task' = Moved(task, task.stage, task.token, task.next + 1, task.accepted)
        BY <1>1, <2>2 DEF Moved, Task
      <4>3. /\ task' \in Task /\ Same(task') /\ task'.stage = "enqueueing"
            /\ task'.token = task.token /\ task'.next = task.next + 1
            /\ task'.accepted = task.accepted
        BY <1>1, <2>1, <4>1, <4>2, TaskMoved
      <4> QED BY <1>2, <1>4, <2>1, <4>3 DEF WithinPage
    <3> QED BY <1>1, <1>2, <1>3, <2>2, <3>1
  <2>3. CASE /\ Room /\ task' = [task EXCEPT !.stage = "answer"]
             /\ mailbox' = Append(mailbox, [type |-> "enqueue", message |-> task.next,
                                            gen |-> task.gen])
    <3> DEFINE c == [type |-> "enqueue", message |-> task.next, gen |-> task.gen]
    <3>1. task' \in Task /\ Same(task') /\ WithinPage(task') /\ task'.accepted <= task.accepted
          /\ task'.stage = "answer" /\ task'.next = task.next
      <4>1. task' = Moved(task, "answer", task.token, task.next, task.accepted)
        BY <1>1, <2>3 DEF Moved, Task
      <4>2. /\ task' \in Task /\ Same(task') /\ task'.stage = "answer"
            /\ task'.token = task.token /\ task'.next = task.next
            /\ task'.accepted = task.accepted
        <5>1. /\ task.token \in 0..Messages /\ task.next \in 1..Messages + 1
              /\ task.accepted \in 0..PageSize /\ "answer" \in Stage
          BY <1>4 DEF Stage
        <5> QED BY <1>1, <4>1, <5>1, TaskMoved
      <4> QED BY <1>2, <1>4, <2>1, <4>2 DEF WithinPage
    <3>2. c \in Command /\ c.type = "enqueue" /\ c.gen = task.gen /\ c.message = task.next
      BY <1>4, <2>1 DEF Command
    <3> QED BY <1>1, <1>2, <1>3, <2>3, <3>1, <3>2 DEF Asking
  <2> QED BY <1>15, <2>2, <2>3 DEF EnqueueMessage, Silent
<1> QED BY <1>7, <1>10, <1>11, <1>12, <1>13, <1>14, <1>15 DEF TaskStep

----------------------------------------------------------------------------
(* The steps of the actor *)

\* An answer either finds its task waiting for it, or changes no task.
Served(c, t) ==
  /\ task # NoTask /\ c.gen = task.gen /\ task.stage = "answer" /\ c.message = task.next
  /\ t \in Task /\ t.gen = task.gen /\ ~t.aborted /\ t.stage = "enqueueing"
  /\ t.token = task.token /\ t.next = task.next + 1 /\ WithinPage(t)

LEMMA AnsweredIs ==
  ASSUME IInv, actor = "idle", mailbox # << >>, NEW c, c = Head(mailbox), c.type = "enqueue",
         NEW outcome, NEW t, t = Answered(c, outcome)
  PROVE  \/ t = task /\ ~(task # NoTask /\ c.gen = task.gen)
         \/ /\ Served(c, t)
            /\ t.accepted = IF outcome = "Accepted" THEN task.accepted + 1 ELSE task.accepted
<1>1. mailbox \in Seq(Command) /\ 1 \in DOMAIN mailbox /\ c = mailbox[1]
  BY TailIs DEF IInv, TypeOK
<1>2. task # NoTask => ~task.aborted /\ task \in Task
  BY DEF IInv, Numbered, TypeOK
<1>3. CASE ~(task # NoTask /\ c.gen = task.gen)
  BY <1>3 DEF Answered, Running
<1>4. CASE task # NoTask /\ c.gen = task.gen
  <2>1. task.stage = "answer" /\ c.message = task.next
    BY <1>1, <1>4 DEF IInv, OneQuestion, Mine
  <2>2. task.next <= task.token /\ task.accepted + (task.token - task.next + 1) <= PageSize
    BY <1>4, <2>1 DEF IInv, PageInv, WithinPage
  <2>3. /\ task.token \in 0..Messages /\ task.next \in 1..Messages + 1
        /\ task.accepted \in 0..PageSize /\ Messages \in Nat /\ PageSize \in Nat
    BY <1>2, <1>4, MessagesType, BoundsAssumption DEF Task
  <2>4. PICK n : n = IF outcome = "Accepted" THEN task.accepted + 1 ELSE task.accepted
    OBVIOUS
  <2>5. (n = task.accepted \/ n = task.accepted + 1) /\ "enqueueing" \in Stage
    BY <2>4 DEF Stage
  <2>6. task.next + 1 \in 1..Messages + 1 /\ task.next + 1 <= task.token + 1
    BY <2>2, <2>3
  <2>a. n \in 0..PageSize
    <3>1. task.accepted + 1 <= PageSize
      <4>1. task.token - task.next + 1 \in Nat \ {0}
        BY <2>2, <2>3
      <4> QED BY <2>2, <2>3, <4>1
    <3> QED BY <2>3, <2>5, <3>1
  <2>b. n + (task.token - (task.next + 1) + 1) <= PageSize
    <3>1. task.accepted + (task.token - task.next) + 1 <= PageSize
      BY <2>2, <2>3
    <3>2. task.token - (task.next + 1) + 1 = task.token - task.next
      BY <2>3
    <3> QED BY <2>3, <2>5, <3>1, <3>2
  <2>7. t = Moved(task, "enqueueing", task.token, task.next + 1, n)
    BY <1>2, <1>4, <2>4 DEF Answered, Running, Moved, Task
  <2>8. /\ t \in Task /\ t.gen = task.gen /\ t.aborted = task.aborted /\ t.stage = "enqueueing"
        /\ t.token = task.token /\ t.next = task.next + 1 /\ t.accepted = n
    <3>1. task \in Task /\ task.token \in 0..Messages /\ "enqueueing" \in Stage
      BY <1>2, <1>4, <2>3, <2>5
    <3> QED BY <2>6, <2>7, <2>a, <3>1, TaskMoved
  <2>9. WithinPage(t)
    BY <2>6, <2>8, <2>b DEF WithinPage
  <2> QED BY <1>2, <1>4, <2>1, <2>4, <2>8, <2>9 DEF Served
<1> QED BY <1>3, <1>4

\* An answer the actor gives, or a failure.
Answers(c) ==
  /\ mailbox' = Tail(mailbox) /\ UNCHANGED <<actor, status, spawned, settings>>
  /\ \/ task' = task /\ ~(task # NoTask /\ c.gen = task.gen)
     \/ Served(c, task')
  /\ c.message \in 1..Messages

LEMMA EnqueueIs ==
  ASSUME IInv, actor = "idle", mailbox # << >>, mailbox' = Tail(mailbox),
         UNCHANGED <<spawned, settings>>, Head(mailbox).type = "enqueue",
         Enqueue(Head(mailbox)) \/ EnqueueFails(Head(mailbox))
  PROVE  Answers(Head(mailbox))
<1> DEFINE c == Head(mailbox)
<1>1. mailbox \in Seq(Command) /\ c \in Command
  BY TailIs DEF IInv, TypeOK
<1>2. c.message \in 1..Messages
  BY <1>1, CommandKinds
<1>3. PICK outcome : task' = Answered(c, outcome)
  BY DEF Enqueue, EnqueueFails
<1>4. UNCHANGED <<actor, status>>
  BY DEF Enqueue, EnqueueFails
<1> QED BY <1>2, <1>3, <1>4, AnsweredIs DEF Answers

----------------------------------------------------------------------------
(* The invariant is inductive *)

\* A command is added to the mailbox.
LEMMA Added ==
  ASSUME TypeOK, Room, NEW c \in Command, mailbox' = Append(mailbox, c)
  PROVE  /\ mailbox' \in Seq(Command) /\ Len(mailbox') <= MailboxSize
         /\ DOMAIN mailbox' = DOMAIN mailbox \cup {Len(mailbox) + 1}
         /\ Len(mailbox) + 1 \notin DOMAIN mailbox
         /\ mailbox'[Len(mailbox) + 1] = c
         /\ \A i \in DOMAIN mailbox : mailbox'[i] = mailbox[i]
<1>1. mailbox \in Seq(Command) /\ MailboxSize \in Nat
  BY BoundsAssumption DEF TypeOK
<1>2. Len(mailbox) < MailboxSize
  BY DEF Room
<1>3. PICK n : n = mailbox'
  OBVIOUS
<1>4. /\ n \in Seq(Command) /\ Len(n) = Len(mailbox) + 1 /\ Len(mailbox) \in Nat
      /\ DOMAIN mailbox = 1..Len(mailbox) /\ DOMAIN n = 1..Len(mailbox) + 1
      /\ n[Len(mailbox) + 1] = c /\ \A i \in 1..Len(mailbox) : n[i] = mailbox[i]
  BY <1>1, <1>3, AppendIs
<1> QED BY <1>1, <1>2, <1>3, <1>4

\* The first command is taken out of the mailbox.
LEMMA Taken ==
  ASSUME TypeOK, mailbox # << >>, mailbox' = Tail(mailbox)
  PROVE  /\ mailbox' \in Seq(Command) /\ Len(mailbox') <= MailboxSize
         /\ 1 \in DOMAIN mailbox /\ Head(mailbox) = mailbox[1] /\ Head(mailbox) \in Command
         /\ \A i \in DOMAIN mailbox' : /\ i \in Nat \ {0} /\ i + 1 \in DOMAIN mailbox
                                       /\ mailbox'[i] = mailbox[i + 1]
<1>1. mailbox \in Seq(Command) /\ MailboxSize \in Nat /\ Len(mailbox) <= MailboxSize
  BY BoundsAssumption DEF TypeOK
<1>2. PICK n : n = mailbox'
  OBVIOUS
<1>3. /\ n \in Seq(Command) /\ Len(mailbox) \in Nat \ {0} /\ Len(n) = Len(mailbox) - 1
      /\ DOMAIN mailbox = 1..Len(mailbox) /\ DOMAIN n = 1..Len(mailbox) - 1
      /\ Head(mailbox) = mailbox[1] /\ Head(mailbox) \in Command
      /\ \A i \in 1..Len(mailbox) - 1 : n[i] = mailbox[i + 1] /\ i + 1 \in 1..Len(mailbox)
  BY <1>1, <1>2, TailIs
<1> QED BY <1>1, <1>2, <1>3

\* Somebody else's command changes nothing for the task.
LEMMA OthersStep ==
  ASSUME IInv, OtherCommand \/ SetYouTubePolling
  PROVE  IInv'
<1>1. PICK c \in Command : /\ Room /\ mailbox' = Append(mailbox, c) /\ c.type \in {"other", "set"}
  <2>1. CASE OtherCommand
    BY <2>1 DEF OtherCommand, Command
  <2>2. CASE SetYouTubePolling
    <3>1. PICK s \in Setting : Room /\ mailbox' = Append(mailbox, [type |-> "set", setting |-> s])
      BY <2>2 DEF SetYouTubePolling
    <3>2. [type |-> "set", setting |-> s] \in Command
      BY <3>1 DEF Command
    <3> QED BY <3>1, <3>2
  <2> QED BY <2>1, <2>2
<1>2. UNCHANGED <<actor, task, status, spawned, answered, accepted, refused, faults>>
      /\ settings' \in Nat
  BY DEF OtherCommand, SetYouTubePolling, IInv, TypeOK
<1>3. /\ mailbox' \in Seq(Command) /\ Len(mailbox') <= MailboxSize
      /\ DOMAIN mailbox' = DOMAIN mailbox \cup {Len(mailbox) + 1}
      /\ mailbox'[Len(mailbox) + 1] = c
      /\ \A i \in DOMAIN mailbox : mailbox'[i] = mailbox[i]
  BY <1>1, Added DEF IInv
<1>4. TypeOK'
  BY <1>2, <1>3 DEF IInv, TypeOK
<1>5. Numbered'
  BY <1>1, <1>2, <1>3 DEF IInv, Numbered
<1>6. PageInv'
  BY <1>2 DEF IInv, PageInv, WithinPage
<1>7. OneQuestion'
  BY <1>1, <1>2, <1>3 DEF IInv, OneQuestion, Mine
<1> QED BY <1>4, <1>5, <1>6, <1>7 DEF IInv

LEMMA IngestStep ==
  ASSUME IInv, TaskStep
  PROVE  IInv'
<1>1. /\ task # NoTask /\ ~task.aborted /\ task.stage # "answer" /\ UNCHANGED TaskOnly
      /\ task' \in Task /\ task'.gen = task.gen /\ ~task'.aborted /\ WithinPage(task')
      /\ ((Silent \/ Reporting) /\ task'.stage # "answer") \/ Asking
  BY TaskStepIs DEF IInv
<1>2. /\ task'# NoTask /\ task.gen \in Nat \ {0} /\ task.gen = spawned /\ actor = "idle"
      /\ \A i \in DOMAIN mailbox : ~Mine(mailbox[i])
  BY <1>1, TaskIsSome DEF IInv, Numbered, OneQuestion, Task
<1>3. UNCHANGED <<actor, status, spawned, answered, accepted, refused, settings, faults>>
  BY <1>1 DEF TaskOnly
<1>4. PageInv'
  BY <1>1 DEF PageInv, WithinPage
<1>5. CASE Silent
  <2>1. mailbox' = mailbox
    BY <1>5 DEF Silent
  <2>2. TypeOK'
    BY <1>1, <1>3, <2>1 DEF IInv, TypeOK
  <2>3. Numbered'
    BY <1>1, <1>2, <1>3, <2>1 DEF IInv, Numbered
  <2>4. OneQuestion'
    BY <1>1, <1>2, <2>1 DEF OneQuestion, Mine
  <2> QED BY <1>4, <2>2, <2>3, <2>4 DEF IInv
<1>6. CASE ~Silent
  <2>1. PICK c \in Command :
          /\ Room /\ mailbox' = Append(mailbox, c) /\ c.gen = task.gen
          /\ \/ c.type = "status" /\ task'.stage # "answer"
             \/ c.type = "enqueue" /\ task'.stage = "answer" /\ c.message = task'.next
    BY <1>1, <1>6 DEF Reporting, Report, Asking
  <2>2. /\ mailbox' \in Seq(Command) /\ Len(mailbox') <= MailboxSize
        /\ DOMAIN mailbox' = DOMAIN mailbox \cup {Len(mailbox) + 1}
        /\ mailbox'[Len(mailbox) + 1] = c
        /\ \A i \in DOMAIN mailbox : mailbox'[i] = mailbox[i]
    BY <2>1, Added DEF IInv
  <2>3. TypeOK'
    BY <1>1, <1>3, <2>2 DEF IInv, TypeOK
  <2>4. Numbered'
    <3>1. task'.gen = spawned' /\ (task'.aborted <=> actor' # "idle")
      BY <1>1, <1>2, <1>3
    <3>2. c.gen \in 1..spawned
      BY <1>2, <2>1
    <3> QED BY <1>3, <2>2, <3>1, <3>2 DEF IInv, Numbered
  <2>5. OneQuestion'
    <3>1. \A i \in DOMAIN mailbox' :
            mailbox'[i].type = "enqueue" /\ mailbox'[i].gen = task'.gen =>
              i = Len(mailbox) + 1 /\ task'.stage = "answer" /\ mailbox'[i].message = task'.next
      BY <1>1, <1>2, <2>1, <2>2 DEF Mine
    <3> QED BY <3>1 DEF OneQuestion, Mine
  <2> QED BY <1>4, <2>3, <2>4, <2>5 DEF IInv
<1> QED BY <1>5, <1>6

\* The mailbox loses its first command, and the task of the others is as before.
LEMMA ReceiveKeepsNumbered ==
  ASSUME IInv, actor = "idle", mailbox # << >>, mailbox' = Tail(mailbox), spawned' = spawned,
         task' # NoTask => /\ task # NoTask /\ task'.gen = task.gen
                           /\ task'.aborted <=> actor' # "idle"
  PROVE  Numbered'
<1>1. \A i \in DOMAIN mailbox' : i + 1 \in DOMAIN mailbox /\ mailbox'[i] = mailbox[i + 1]
  BY Taken DEF IInv
<1>2. \A i \in DOMAIN mailbox : mailbox[i].type \in {"enqueue", "status"} => mailbox[i].gen \in 1..spawned
  BY DEF IInv, Numbered
<1>3. \A i \in DOMAIN mailbox' :
        mailbox'[i].type \in {"enqueue", "status"} => mailbox'[i].gen \in 1..spawned'
  BY <1>1, <1>2
<1>4. task # NoTask => task.gen = spawned
  BY DEF IInv, Numbered
<1> QED BY <1>3, <1>4 DEF Numbered

LEMMA AnswersStep ==
  ASSUME IInv, actor = "idle", mailbox # << >>, Head(mailbox).type = "enqueue",
         Answers(Head(mailbox))
  PROVE  Numbered' /\ PageInv' /\ OneQuestion' /\ task' \in {NoTask} \cup Task
<1> DEFINE c == Head(mailbox)
<1>1. /\ 1 \in DOMAIN mailbox /\ c = mailbox[1]
      /\ \A i \in DOMAIN mailbox' : /\ i \in Nat \ {0} /\ i + 1 \in DOMAIN mailbox
                                    /\ mailbox'[i] = mailbox[i + 1]
  BY Taken DEF IInv, Answers
<1>2. /\ task # NoTask => ~task.aborted /\ task \in Task
      /\ UNCHANGED <<actor, spawned>> /\ mailbox' = Tail(mailbox)
  BY DEF Answers, IInv, Numbered, TypeOK
<1>3. CASE task' = task /\ ~(task # NoTask /\ c.gen = task.gen)
  <2>1. Numbered'
    BY <1>2, <1>3, ReceiveKeepsNumbered
  <2>2. PageInv'
    BY <1>3 DEF IInv, PageInv, WithinPage
  <2>3. OneQuestion'
    <3>1. SUFFICES ASSUME task # NoTask
                   PROVE  /\ \A i \in DOMAIN mailbox' : Mine(mailbox'[i]) =>
                               task.stage = "answer" /\ mailbox'[i].message = task.next
                          /\ \A i, j \in DOMAIN mailbox' :
                               Mine(mailbox'[i]) /\ Mine(mailbox'[j]) => i = j
      BY <1>3 DEF OneQuestion, Mine
    <3>2. /\ \A i \in DOMAIN mailbox : Mine(mailbox[i]) =>
               task.stage = "answer" /\ mailbox[i].message = task.next
          /\ \A i, j \in DOMAIN mailbox : Mine(mailbox[i]) /\ Mine(mailbox[j]) => i = j
      BY <3>1 DEF IInv, OneQuestion
    <3> QED BY <1>1, <3>2
  <2>4. task' \in {NoTask} \cup Task
    BY <1>2, <1>3
  <2> QED BY <2>1, <2>2, <2>3, <2>4
<1>4. CASE Served(c, task')
  <2>1. /\ task # NoTask /\ c.gen = task.gen /\ task' \in Task /\ task'.gen = task.gen
        /\ ~task'.aborted /\ task'.stage = "enqueueing" /\ WithinPage(task')
    BY <1>4 DEF Served
  <2>2. Numbered'
    BY <1>2, <2>1, ReceiveKeepsNumbered
  <2>3. PageInv'
    BY <2>1 DEF PageInv, WithinPage
  <2>4. OneQuestion'
    <3>1. Mine(mailbox[1]) /\ \A i, j \in DOMAIN mailbox : Mine(mailbox[i]) /\ Mine(mailbox[j]) => i = j
      BY <1>1, <2>1 DEF IInv, OneQuestion, Mine
    <3>2. \A i \in DOMAIN mailbox' : ~Mine(mailbox'[i])
      BY <1>1, <3>1
    <3> QED BY <2>1, <3>2 DEF OneQuestion, Mine
  <2> QED BY <2>1, <2>2, <2>3, <2>4
<1> QED BY <1>3, <1>4 DEF Answers

LEMMA StatusIs ==
  ASSUME NEW s \in Status
  PROVE  s.received \in Nat /\ s.writer \in Nat
BY DEF Status, NoStatus

\* The task, its number, and what may be left of it in the mailbox once a command of
\* another kind was received.
LEMMA ReceiveKeepsQuestion ==
  ASSUME IInv, actor = "idle", mailbox # << >>, mailbox' = Tail(mailbox), task' = task
  PROVE  PageInv' /\ OneQuestion'
<1>1. \A i \in DOMAIN mailbox' : /\ i \in Nat \ {0} /\ i + 1 \in DOMAIN mailbox
                                 /\ mailbox'[i] = mailbox[i + 1]
  BY Taken DEF IInv
<1>2. PageInv'
  BY DEF IInv, PageInv, WithinPage
<1>3. SUFFICES ASSUME task # NoTask
               PROVE  /\ \A i \in DOMAIN mailbox' : Mine(mailbox'[i]) =>
                           task.stage = "answer" /\ mailbox'[i].message = task.next
                      /\ \A i, j \in DOMAIN mailbox' :
                           Mine(mailbox'[i]) /\ Mine(mailbox'[j]) => i = j
  BY <1>2 DEF OneQuestion, Mine
<1>4. /\ \A i \in DOMAIN mailbox : Mine(mailbox[i]) =>
           task.stage = "answer" /\ mailbox[i].message = task.next
      /\ \A i, j \in DOMAIN mailbox : Mine(mailbox[i]) /\ Mine(mailbox[j]) => i = j
  BY <1>3 DEF IInv, OneQuestion
<1> QED BY <1>1, <1>4

LEMMA ReceiveStep ==
  ASSUME IInv, Receive
  PROVE  IInv'
<1> DEFINE c == Head(mailbox)
<1>1. /\ actor = "idle" /\ mailbox # << >> /\ mailbox' = Tail(mailbox)
      /\ UNCHANGED <<spawned, settings>>
  BY DEF Receive
<1>2. mailbox' \in Seq(Command) /\ Len(mailbox') <= MailboxSize /\ c \in Command
  BY <1>1, Taken DEF IInv
<1>3. TypeOK /\ (task # NoTask => ~task.aborted /\ task \in Task)
  BY <1>1 DEF IInv, Numbered, TypeOK
<1>4. CASE c.type = "enqueue" /\ (Enqueue(c) \/ EnqueueFails(c))
  <2>1. Answers(c)
    BY <1>1, <1>4, EnqueueIs
  <2>2. Numbered' /\ PageInv' /\ OneQuestion' /\ task' \in {NoTask} \cup Task
    BY <1>1, <1>4, <2>1, AnswersStep
  <2>3. c.message \in 1..Messages /\ UNCHANGED <<actor, status>>
    BY <2>1 DEF Answers
  <2>4. CASE Enqueue(c)
    <3>1. /\ answered' = answered \cup {c.message} /\ UNCHANGED refused
          /\ accepted' = accepted \/ accepted' = accepted + 1
          /\ faults' = faults \/ faults' = faults + 1
      BY <2>4 DEF Enqueue, Fault
    <3>2. answered' \subseteq 1..Messages
      BY <1>3, <2>3, <3>1 DEF TypeOK
    <3>3. accepted \in Nat /\ faults \in Nat
      BY <1>3 DEF TypeOK
    <3>4. accepted' \in Nat /\ faults' \in Nat
      BY <3>1, <3>3
    <3> QED BY <3>4, <1>1, <1>2, <1>3, <2>2, <2>3, <3>1, <3>2 DEF IInv, TypeOK
  <2>5. CASE EnqueueFails(c)
    <3>1. /\ refused' = refused \cup {c.message} /\ UNCHANGED <<answered, accepted>>
          /\ faults' = faults + 1
      BY <2>5 DEF EnqueueFails, Fault
    <3>2. refused' \subseteq 1..Messages
      BY <1>3, <2>3, <3>1 DEF TypeOK
    <3> QED BY <1>1, <1>2, <1>3, <2>2, <2>3, <3>1, <3>2 DEF IInv, TypeOK
  <2> QED BY <1>4, <2>4, <2>5
<1>5. CASE c.type = "status" /\ UpdateYouTubeStatus(c)
  <2>1. /\ UNCHANGED <<actor, task, answered, accepted, refused, faults>>
        /\ \/ status' = status
           \/ status' = [state |-> c.state, writer |-> c.gen,
                         received |-> status.received + c.received]
    BY <1>5 DEF UpdateYouTubeStatus
  <2>2. /\ c.state \in State /\ c.received \in 0..PageSize /\ c.gen \in Nat /\ PageSize \in Nat
        /\ status.received \in Nat
    BY <1>2, <1>3, <1>5, CommandKinds, StatusIs, BoundsAssumption DEF TypeOK
  <2>3. status' \in Status
    <3>1. status.received + c.received \in Nat
      BY <2>2
    <3> QED BY <1>3, <2>1, <2>2, <3>1 DEF TypeOK, Status
  <2>4. TypeOK'
    BY <1>1, <1>2, <1>3, <2>1, <2>3 DEF TypeOK
  <2>5. Numbered'
    BY <1>1, <1>3, <2>1, ReceiveKeepsNumbered
  <2> QED BY <1>1, <2>1, <2>4, <2>5, ReceiveKeepsQuestion DEF IInv
<1>6. CASE c.type = "set" /\ Configure(c.setting)
  <2>1. /\ actor' = c.setting /\ UNCHANGED <<status, answered, accepted, refused, faults>>
        /\ task' = IF task = NoTask THEN NoTask ELSE [task EXCEPT !.aborted = TRUE]
    BY <1>6 DEF Configure
  <2>2. actor' \in Setting /\ actor' # "idle"
    BY <1>2, <1>6, <2>1, CommandKinds, ChatAssumption DEF Setting, Targets
  <2>3. CASE task = NoTask
    <3>1. task' = NoTask
      BY <2>1, <2>3
    <3>2. TypeOK'
      BY <1>1, <1>2, <1>3, <2>1, <2>2, <3>1 DEF TypeOK
    <3>3. Numbered'
      BY <1>1, <3>1, ReceiveKeepsNumbered
    <3> QED BY <3>1, <3>2, <3>3 DEF IInv, PageInv, OneQuestion
  <2>4. CASE task # NoTask
    <3>1. task' = [task EXCEPT !.aborted = TRUE] /\ task \in Task
      BY <1>3, <2>1, <2>4
    <3>2. /\ task' \in Task /\ task'.gen = task.gen /\ task'.aborted = TRUE
          /\ task'.stage = task.stage /\ task'.token = task.token /\ task'.next = task.next
          /\ task'.accepted = task.accepted
      BY <3>1 DEF Task
    <3>3. TypeOK'
      BY <1>1, <1>2, <1>3, <2>1, <2>2, <3>2 DEF TypeOK
    <3>4. Numbered'
      BY <1>1, <2>2, <2>4, <3>2, ReceiveKeepsNumbered
    <3>5. PageInv'
      BY <2>4, <3>2 DEF IInv, PageInv, WithinPage
    <3> QED BY <2>2, <3>3, <3>4, <3>5 DEF IInv, OneQuestion
  <2> QED BY <2>3, <2>4
<1>7. CASE /\ c.type = "other"
           /\ UNCHANGED <<actor, task, status, answered, accepted, refused, faults>>
  <2>1. TypeOK'
    BY <1>1, <1>2, <1>3, <1>7 DEF TypeOK
  <2>2. Numbered'
    BY <1>1, <1>3, <1>7, ReceiveKeepsNumbered
  <2> QED BY <1>1, <1>7, <2>1, <2>2, ReceiveKeepsQuestion DEF IInv
<1> QED BY <1>4, <1>5, <1>6, <1>7 DEF Receive

LEMMA TaskStopsStep ==
  ASSUME IInv, TaskStops
  PROVE  IInv'
<1>1. task' = NoTask /\ UNCHANGED <<mailbox, actor, status, spawned, answered, accepted,
                                    refused, settings, faults>>
  BY DEF TaskStops, TaskOnly
<1> QED BY <1>1 DEF IInv, TypeOK, Numbered, PageInv, OneQuestion

\* A new task: nothing in the mailbox has its number.
LEMMA Spawned ==
  ASSUME TypeOK, Configured, actor \in Target
  PROVE  /\ spawned' = spawned + 1 /\ task' \in Task /\ task'.gen = spawned + 1
         /\ ~task'.aborted /\ task'.accepted = 0 /\ task'.stage = "starting"
         /\ WithinPage(task')
<1>1. /\ spawned' = spawned + 1 /\ spawned \in Nat /\ Messages \in Nat /\ PageSize \in Nat
      /\ task' = [gen |-> spawned + 1, target |-> actor, stage |-> "starting",
                  aborted |-> FALSE, token |-> 0, next |-> 1, accepted |-> 0]
  BY MessagesType, BoundsAssumption DEF Configured, TypeOK
<1>2. task' \in Task
  <2>1. /\ spawned + 1 \in Nat \ {0} /\ 0 \in 0..Messages /\ 1 \in 1..Messages + 1
        /\ 0 \in 0..PageSize /\ "starting" \in Stage
    BY <1>1 DEF Stage
  <2> QED BY <1>1, <2>1 DEF Task
<1> QED BY <1>1, <1>2 DEF WithinPage

LEMMA ConfiguredStep ==
  ASSUME IInv, Configured
  PROVE  IInv'
<1>1. /\ actor # "idle" /\ task = NoTask /\ actor' = "idle"
      /\ UNCHANGED <<mailbox, answered, accepted, refused, settings, faults>>
      /\ status' \in {[state |-> "Off", received |-> 0, writer |-> 0], NoStatus}
  BY DEF Configured
<1>2. status' \in Status
  <2>1. [state |-> "Off", received |-> 0, writer |-> 0] \in Status /\ NoStatus \in Status
    BY DEF Status, State
  <2> QED BY <1>1, <2>1
<1>3. CASE actor \in Target
  <2>1. /\ spawned' = spawned + 1 /\ task' \in Task /\ task'.gen = spawned + 1
        /\ ~task'.aborted /\ task'.stage = "starting" /\ WithinPage(task')
    BY <1>3, Spawned DEF IInv
  <2>2. spawned \in Nat /\ spawned' \in Nat
    BY <2>1 DEF IInv, TypeOK
  <2>3. TypeOK'
    BY <1>1, <1>2, <2>1, <2>2 DEF IInv, TypeOK
  <2>4. Numbered'
    BY <1>1, <2>1, <2>2 DEF IInv, Numbered
  <2>5. PageInv'
    BY <2>1 DEF PageInv, WithinPage
  <2>6. OneQuestion'
    <3>1. \A i \in DOMAIN mailbox :
            mailbox[i].type \in {"enqueue", "status"} => mailbox[i].gen # spawned + 1
      BY <2>2 DEF IInv, Numbered
    <3> QED BY <1>1, <2>1, <3>1 DEF OneQuestion, Mine
  <2> QED BY <2>3, <2>4, <2>5, <2>6 DEF IInv
<1>4. CASE actor \notin Target
  <2>1. UNCHANGED <<spawned, task>>
    BY <1>4 DEF Configured
  <2> QED BY <1>1, <1>2, <2>1 DEF IInv, TypeOK, Numbered, PageInv, OneQuestion
<1> QED BY <1>3, <1>4

LEMMA IInvStarts ==
  ASSUME Init
  PROVE  IInv
<1>1. mailbox \in Seq(Command) /\ Len(mailbox) = 0 /\ DOMAIN mailbox = {} /\ MailboxSize \in Nat
  BY BoundsAssumption DEF Init
<1>2. TypeOK
  BY <1>1 DEF Init, TypeOK, Status
<1> QED BY <1>1, <1>2 DEF Init, IInv, Numbered, PageInv, OneQuestion

LEMMA IInvStep ==
  ASSUME IInv, [Next]_vars
  PROVE  IInv'
<1>1. CASE UNCHANGED vars
  BY <1>1 DEF vars, IInv, TypeOK, Numbered, PageInv, WithinPage, OneQuestion, Mine
<1> QED BY <1>1, OthersStep, IngestStep, TaskStopsStep, ReceiveStep, ConfiguredStep DEF Next

LEMMA AlwaysIInv == Spec => []IInv
BY IInvStarts, IInvStep, PTL DEF Spec

\* The state is what it is taken to be: the fields of a task and of the commands about it
\* stay within the chat and within one page, and nothing was accepted that was not
\* answered.
THEOREM SourceTypeCorrect == Spec => []TypeOK
<1>1. IInv => TypeOK
  BY DEF IInv
<1> QED BY <1>1, AlwaysIInv, PTL

----------------------------------------------------------------------------
(* No message of a page is left out *)

\* What NothingSkipped says of a step.
Kept ==
  /\ \A i \in task.next..task.token :
       \/ i \in Skipped \cup answered' \cup refused' \cup InMailbox'
       \/ i \in task'.next..task'.token
  /\ task'.token # task.token =>
       task'.next = task.token + 1 \/ (task.stage \in {"resolving", "expired"})

LEMMA SamePage ==
  ASSUME task'.next = task.next, task'.token = task.token
  PROVE  Kept
BY DEF Kept

\* The next message of the page is done with.
LEMMA OneFurther ==
  ASSUME task \in Task, task'.next = task.next + 1, task'.token = task.token,
         task.next \in Skipped \cup answered' \cup refused'
  PROVE  Kept
<1>1. task.next \in Nat /\ task.token \in Nat
  BY MessagesType DEF Task
<1>2. \A i \in task.next..task.token : i = task.next \/ i \in task.next + 1..task.token
  BY <1>1
<1> QED BY <1>2 DEF Kept

LEMMA TaskKeeps ==
  ASSUME IInv, TaskStep
  PROVE  Kept
<1>1. task # NoTask /\ task \in Task /\ task.stage # "answer"
  BY TaskStepIs DEF IInv, TypeOK
<1>2. WithinPage(task) /\ task.token \in Nat /\ task.next \in Nat
  BY <1>1, MessagesType DEF IInv, PageInv, Task
<1>3. CASE Resolve \/ ResolveFails \/ FetchFails \/ SessionExpired \/ PageDone
  <2>1. task'.next = task.next /\ task'.token = task.token
    BY <1>1, <1>3 DEF Resolve, ResolveFails, FetchFails, SessionExpired, PageDone, Task
  <2> QED BY <2>1, SamePage
<1>4. ASSUME task.stage \notin {"enqueueing", "answer"}
      PROVE  task.next..task.token = {}
  BY <1>2, <1>4 DEF WithinPage
<1>5. CASE Resolved \/ Reresolved
  <2>1. task.stage \in {"resolving", "expired"}
    BY <1>5 DEF Resolved, Reresolved
  <2> QED BY <1>4, <2>1 DEF Kept
<1>6. CASE FetchPage
  <2>1. task.stage = "polling"
    BY <1>6 DEF FetchPage
  <2>2. task'.next = task.token + 1
    <3>1. PICK n : task' = [task EXCEPT !.stage = "enqueueing", !.token = @ + n,
                                        !.next = task.token + 1]
      BY <1>6 DEF FetchPage
    <3> QED BY <1>1, <3>1 DEF Task
  <2> QED BY <1>4, <2>1, <2>2 DEF Kept
<1>7. CASE EnqueueMessage
  <2>1. CASE task.next \in Skipped
    <3>1. task'.next = task.next + 1 /\ task'.token = task.token
      BY <1>1, <1>7, <2>1 DEF EnqueueMessage, Task
    <3> QED BY <1>1, <2>1, <3>1, OneFurther
  <2>2. CASE task.next \notin Skipped
    <3>1. task'.next = task.next /\ task'.token = task.token
      BY <1>1, <1>7, <2>2 DEF EnqueueMessage, Task
    <3> QED BY <3>1, SamePage
  <2> QED BY <2>1, <2>2
<1> QED BY <1>3, <1>5, <1>6, <1>7 DEF TaskStep

LEMMA ReceiveKeeps ==
  ASSUME IInv, Receive, task # NoTask
  PROVE  Kept
<1> DEFINE c == Head(mailbox)
<1>1. /\ actor = "idle" /\ mailbox # << >> /\ mailbox' = Tail(mailbox)
      /\ UNCHANGED <<spawned, settings>> /\ task \in Task
  BY DEF Receive, IInv, TypeOK
<1>2. CASE c.type = "enqueue" /\ (Enqueue(c) \/ EnqueueFails(c))
  <2>1. Answers(c) /\ c.message \in answered' \cup refused'
    BY <1>1, <1>2, EnqueueIs DEF Enqueue, EnqueueFails
  <2>2. CASE task' = task
    BY <2>2, SamePage
  <2>3. CASE Served(c, task')
    BY <1>1, <2>1, <2>3, OneFurther DEF Served
  <2> QED BY <2>1, <2>2, <2>3 DEF Answers
<1>3. CASE UpdateYouTubeStatus(c) \/ UNCHANGED task
  BY <1>3, SamePage DEF UpdateYouTubeStatus
<1>4. CASE Configure(c.setting)
  <2>1. task'.next = task.next /\ task'.token = task.token
    BY <1>1, <1>4 DEF Configure, Task
  <2> QED BY <2>1, SamePage
<1> QED BY <1>2, <1>3, <1>4 DEF Receive

\* Between a page and the inbox no message gets lost: the token runs ahead of what was
\* enqueued, and every item of a page is no message, or answered or refused by the actor,
\* or still to be sent, whatever happens to the mailbox, the session or the polls.
THEOREM NothingIsSkipped == Spec => NothingSkipped
<1> DEFINE Step == [task # NoTask /\ task'.gen = task.gen => Kept]_vars
<1>1. ASSUME IInv, [Next]_vars PROVE Step
  <2>1. SUFFICES ASSUME task # NoTask, task'.gen = task.gen, ~UNCHANGED vars PROVE Kept
    OBVIOUS
  <2>2. CASE OtherCommand \/ SetYouTubePolling
    BY <2>2, SamePage DEF OtherCommand, SetYouTubePolling
  <2>3. CASE TaskStep
    BY <1>1, <2>3, TaskKeeps
  <2>4. CASE TaskStops
    <3>1. task \in Task
      BY <1>1, <2>1 DEF IInv, TypeOK
    <3> QED BY <2>1, <2>4, <3>1 DEF TaskStops, Task, NoTask
  <2>5. CASE Receive
    BY <1>1, <2>1, <2>5, ReceiveKeeps
  <2>6. CASE Configured
    BY <2>1, <2>6 DEF Configured
  <2> QED BY <1>1, <2>1, <2>2, <2>3, <2>4, <2>5, <2>6 DEF Next
<1>2. ASSUME Step
      PROVE  [task # NoTask /\ task'.gen = task.gen =>
                /\ \A i \in task.next..task.token :
                     \/ i \in Skipped \cup answered' \cup refused' \cup InMailbox'
                     \/ i \in task'.next..task'.token
                /\ task'.token # task.token =>
                     task'.next = task.token + 1 \/ (task.stage \in {"resolving", "expired"})]_vars
  BY <1>2 DEF Kept
<1> QED BY <1>1, <1>2, AlwaysIInv, PTL DEF Spec, NothingSkipped

----------------------------------------------------------------------------
(* The status *)

\* Updates are applied in the order of the tasks that sent them.
InOrder ==
  /\ status.writer <= spawned
  /\ \A i \in DOMAIN mailbox : mailbox[i].type = "status" => status.writer <= mailbox[i].gen
  /\ \A i, j \in DOMAIN mailbox :
       i < j /\ mailbox[i].type = "status" /\ mailbox[j].type = "status" =>
         mailbox[i].gen <= mailbox[j].gen

\* What a command adds to the counter of the status, and what the task has counted and
\* not yet reported.
Counted(c) == IF c.type = "status" THEN c.received ELSE 0

Pending == IF task = NoTask THEN 0 ELSE task.accepted

\* An account of the updates under way: g[i] is at least what the counter may show once
\* i commands of the mailbox were received, and no more was accepted in the end.
Account(g) ==
  /\ g \in [0..Len(mailbox) -> Nat]
  /\ status.received <= g[0]
  /\ \A i, j \in 0..Len(mailbox) : i < j => g[i] + Counted(mailbox[j]) <= g[j]
  /\ g[Len(mailbox)] + Pending <= accepted

Ledger == \E g : Account(g)

SInv == IInv /\ InOrder /\ Ledger

LEMMA CountedIsNat == ASSUME NEW c \in Command PROVE Counted(c) \in Nat
<1>1. PageSize \in Nat
  BY BoundsAssumption
<1> QED BY <1>1, CommandKinds DEF Counted

\* The quantities of the account are numbers, before a step and after it.
LEMMA PendingIsNat ==
  ASSUME NEW t \in {NoTask} \cup Task
  PROVE  (IF t = NoTask THEN 0 ELSE t.accepted) \in Nat
<1>1. PageSize \in Nat
  BY BoundsAssumption
<1> QED BY <1>1 DEF Task

LEMMA QuantitiesBefore ==
  ASSUME TypeOK
  PROVE  Pending \in Nat /\ accepted \in Nat /\ status.received \in Nat
<1>1. task \in {NoTask} \cup Task /\ accepted \in Nat /\ status \in Status
  BY DEF TypeOK
<1> QED BY <1>1, PendingIsNat, StatusIs DEF Pending

LEMMA QuantitiesAfter ==
  ASSUME TypeOK'
  PROVE  Pending' \in Nat /\ accepted' \in Nat /\ status'.received \in Nat
<1>1. task' \in {NoTask} \cup Task /\ accepted' \in Nat /\ status' \in Status
  BY DEF TypeOK
<1> QED BY <1>1, PendingIsNat, StatusIs DEF Pending

\* A command is put into the mailbox, with what it will add set aside.
LEMMA LedgerAppends ==
  ASSUME TypeOK, Ledger, Room, NEW c \in Command, mailbox' = Append(mailbox, c),
         status' = status, accepted' = accepted, Counted(c) + Pending' <= Pending,
         Pending' \in Nat
  PROVE  Ledger'
<1>1. PICK g : Account(g)
  BY DEF Ledger
<1>2. PICK n : n = Len(mailbox)
  OBVIOUS
<1>3. /\ n \in Nat /\ Len(mailbox') = n + 1 /\ mailbox'[n + 1] = c
      /\ \A i \in 1..n : mailbox'[i] = mailbox[i]
      /\ Counted(c) \in Nat /\ Pending \in Nat /\ accepted \in Nat
      /\ \A i \in 1..n : Counted(mailbox[i]) \in Nat
  <2>1. PICK m : m = mailbox'
    OBVIOUS
  <2>2. mailbox \in Seq(Command)
    BY DEF TypeOK
  <2>3. /\ n \in Nat /\ Len(m) = n + 1 /\ m[n + 1] = c
        /\ \A i \in 1..n : m[i] = mailbox[i] /\ mailbox[i] \in Command
    BY <1>2, <2>1, <2>2, AppendIs
  <2> QED BY <2>1, <2>3, CountedIsNat, QuantitiesBefore
<1>4. /\ \A i \in 0..n : g[i] \in Nat
      /\ status.received <= g[0]
      /\ \A i, j \in 0..n : i < j => g[i] + Counted(mailbox[j]) <= g[j]
      /\ g[n] + Pending <= accepted
  BY <1>1, <1>2 DEF Account
<1> DEFINE h == [i \in 0..n + 1 |-> IF i = n + 1 THEN g[n] + Counted(c) ELSE g[i]]
<1>5. h \in [0..n + 1 -> Nat]
  <2>1. g[n] + Counted(c) \in Nat
    <3>1. n \in 0..n /\ Counted(c) \in Nat
      BY <1>3
    <3>2. g[n] \in Nat
      BY <1>4, <3>1
    <3> QED BY <3>1, <3>2
  <2>2. \A i \in 0..n + 1 : i # n + 1 => i \in 0..n
    BY <1>3
  <2> QED BY <1>4, <2>1, <2>2
<1>6. h[0] = g[0] /\ h[n + 1] = g[n] + Counted(c) /\ \A i \in 0..n : h[i] = g[i]
  BY <1>3
<1> HIDE DEF h
<1>7. \A i \in 0..n : g[i] <= g[n]
  <2>1. SUFFICES ASSUME NEW i \in 0..n, i < n PROVE g[i] <= g[n]
    BY <1>3, <1>4
  <2>2. n \in 0..n /\ n \in 1..n
    BY <1>3, <2>1
  <2>3. Counted(mailbox[n]) \in Nat
    BY <1>3, <2>2
  <2>4. g[i] + Counted(mailbox[n]) <= g[n]
    BY <1>4, <2>1, <2>2
  <2>5. g[i] \in Nat /\ g[n] \in Nat
    BY <1>4, <2>2
  <2> QED BY <2>3, <2>4, <2>5
<1>8. ASSUME NEW i \in 0..n + 1, NEW j \in 0..n + 1, i < j
      PROVE  h[i] + Counted(mailbox'[j]) <= h[j]
  <2>1. i \in 0..n
    BY <1>3, <1>8
  <2>2. CASE j = n + 1
    <3>1. g[i] <= g[n] /\ g[i] \in Nat /\ g[n] \in Nat
      BY <1>3, <1>4, <1>7, <2>1
    <3> QED BY <1>3, <1>6, <2>1, <2>2, <3>1
  <2>3. CASE j # n + 1
    <3>1. j \in 1..n /\ j \in 0..n
      BY <1>3, <1>8, <2>3
    <3>2. mailbox'[j] = mailbox[j]
      BY <1>3, <3>1
    <3>3. h[i] = g[i] /\ h[j] = g[j]
      BY <1>6, <2>1, <3>1
    <3>4. g[i] + Counted(mailbox[j]) <= g[j]
      BY <1>4, <1>8, <2>1, <3>1
    <3> QED BY <3>2, <3>3, <3>4
  <2> QED BY <2>2, <2>3
<1>9. h[n + 1] + Pending' <= accepted
  <2>1. n \in 0..n
    BY <1>3
  <2>2. g[n] \in Nat
    BY <1>4, <2>1
  <2> QED BY <1>3, <1>4, <1>6, <2>2
<1>10. /\ h \in [0..Len(mailbox') -> Nat] /\ status'.received <= h[0]
       /\ \A i, j \in 0..Len(mailbox') : i < j => h[i] + Counted(mailbox'[j]) <= h[j]
       /\ h[Len(mailbox')] + Pending' <= accepted'
  BY <1>3, <1>4, <1>5, <1>6, <1>8, <1>9
<1> QED BY <1>10 DEF Ledger, Account, Counted

\* The first command is received: it adds no more to the counter than it was worth.
LEMMA LedgerTakes ==
  ASSUME TypeOK, TypeOK', Ledger, mailbox # << >>, mailbox' = Tail(mailbox),
         status'.received <= status.received + Counted(Head(mailbox)),
         accepted + Pending' <= accepted' + Pending
  PROVE  Ledger'
<1>1. PICK g : Account(g)
  BY DEF Ledger
<1>2. PICK n : n = Len(mailbox')
  OBVIOUS
<1>3. /\ n \in Nat /\ Len(mailbox) = n + 1 /\ Head(mailbox) = mailbox[1]
      /\ \A i \in 1..n : mailbox'[i] = mailbox[i + 1]
      /\ \A i \in 1..n + 1 : Counted(mailbox[i]) \in Nat
  <2>1. PICK m : m = mailbox'
    OBVIOUS
  <2>2. mailbox \in Seq(Command)
    BY DEF TypeOK
  <2>3. /\ Len(mailbox) = n + 1 /\ n \in Nat /\ Head(mailbox) = mailbox[1]
        /\ \A i \in 1..n : m[i] = mailbox[i + 1]
    BY <1>2, <2>1, <2>2, TailIs
  <2>4. \A i \in 1..n + 1 : mailbox[i] \in Command
    BY <2>2, <2>3
  <2> QED BY <2>1, <2>3, <2>4, CountedIsNat
<1>4. /\ Pending \in Nat /\ Pending' \in Nat /\ status.received \in Nat /\ status'.received \in Nat
      /\ accepted \in Nat /\ accepted' \in Nat
  BY QuantitiesBefore, QuantitiesAfter
<1>5. /\ \A i \in 0..n + 1 : g[i] \in Nat
      /\ status.received <= g[0]
      /\ \A i, j \in 0..n + 1 : i < j => g[i] + Counted(mailbox[j]) <= g[j]
      /\ g[n + 1] + Pending <= accepted
  BY <1>1, <1>3 DEF Account
<1> DEFINE h == [i \in 0..n |-> g[i + 1]]
<1>6. h \in [0..n -> Nat] /\ \A i \in 0..n : h[i] = g[i + 1]
  BY <1>3, <1>5
<1> HIDE DEF h
<1>7. status'.received <= h[0]
  <2>1. g[0] + Counted(mailbox[1]) <= g[1] /\ g[0] \in Nat /\ g[1] \in Nat /\ h[0] = g[1]
        /\ Counted(mailbox[1]) \in Nat
    BY <1>3, <1>5, <1>6
  <2>2. /\ status'.received <= status.received + Counted(mailbox[1])
        /\ status.received <= g[0] /\ status.received \in Nat /\ status'.received \in Nat
    BY <1>3, <1>4, <1>5
  <2> QED BY <2>1, <2>2
<1>8. ASSUME NEW i \in 0..n, NEW j \in 0..n, i < j
      PROVE  h[i] + Counted(mailbox'[j]) <= h[j]
  <2>1. /\ i + 1 \in 0..n + 1 /\ j + 1 \in 0..n + 1 /\ i + 1 < j + 1 /\ j \in 1..n
    BY <1>3, <1>8
  <2> QED BY <1>3, <1>5, <1>6, <2>1
<1>9. h[n] + Pending' <= accepted'
  <2>1. h[n] = g[n + 1] /\ g[n + 1] \in Nat
    BY <1>3, <1>5, <1>6
  <2>2. g[n + 1] + Pending <= accepted
    BY <1>5
  <2>3. g[n + 1] + Pending' <= accepted'
    <3>1. ASSUME NEW a \in Nat, NEW b \in Nat, NEW x \in Nat, NEW y \in Nat, NEW z \in Nat,
                 x + b <= a, a + z <= y + b
          PROVE  x + z <= y
      BY <3>1
    <3>2. accepted + Pending' <= accepted' + Pending
      OBVIOUS
    <3> QED BY <1>4, <2>1, <2>2, <3>1, <3>2
  <2> QED BY <2>1, <2>3
<1>10. /\ h \in [0..Len(mailbox') -> Nat] /\ status'.received <= h[0]
       /\ \A i, j \in 0..Len(mailbox') : i < j => h[i] + Counted(mailbox'[j]) <= h[j]
       /\ h[Len(mailbox')] + Pending' <= accepted'
  BY <1>2, <1>6, <1>7, <1>8, <1>9
<1> QED BY <1>10 DEF Ledger, Account, Counted

\* The mailbox stays, and the task or the status starts again.
LEMMA LedgerStays ==
  ASSUME TypeOK, TypeOK', Ledger, mailbox' = mailbox, accepted' = accepted,
         status'.received <= status.received, Pending' <= Pending
  PROVE  Ledger'
<1>1. PICK g : Account(g)
  BY DEF Ledger
<1>2. /\ Pending \in Nat /\ Pending' \in Nat /\ status.received \in Nat /\ status'.received \in Nat
      /\ accepted \in Nat /\ Len(mailbox) \in Nat
  <2>1. Len(mailbox) \in Nat
    BY DEF TypeOK
  <2> QED BY <2>1, QuantitiesBefore, QuantitiesAfter
<1>3. g[0] \in Nat /\ g[Len(mailbox)] \in Nat
  BY <1>1, <1>2 DEF Account
<1>4. status'.received <= g[0] /\ g[Len(mailbox)] + Pending' <= accepted
  BY <1>1, <1>2, <1>3 DEF Account
<1> QED BY <1>1, <1>4 DEF Ledger, Account, Counted

LEMMA OrderAppends ==
  ASSUME IInv, InOrder, Room, NEW c \in Command, mailbox' = Append(mailbox, c),
         status' = status, spawned' = spawned, c.type = "status" => c.gen = spawned
  PROVE  InOrder'
<1>1. /\ DOMAIN mailbox' = DOMAIN mailbox \cup {Len(mailbox) + 1}
      /\ mailbox'[Len(mailbox) + 1] = c
      /\ \A i \in DOMAIN mailbox : mailbox'[i] = mailbox[i] /\ i <= Len(mailbox) /\ i \in Nat
      /\ Len(mailbox) \in Nat
  BY Added DEF IInv, TypeOK
<1>2. \A i \in DOMAIN mailbox :
        mailbox[i].type = "status" => /\ mailbox[i].gen \in 1..spawned
                                      /\ status.writer <= mailbox[i].gen
  BY DEF IInv, Numbered, InOrder
<1>3. spawned \in Nat /\ status.writer <= spawned
  BY DEF IInv, TypeOK, InOrder
<1>4. \A i \in DOMAIN mailbox' : mailbox'[i].type = "status" =>
        status.writer <= mailbox'[i].gen /\ mailbox'[i].gen <= spawned
  BY <1>1, <1>2, <1>3
<1>5. ASSUME NEW i \in DOMAIN mailbox', NEW j \in DOMAIN mailbox', i < j,
             mailbox'[i].type = "status", mailbox'[j].type = "status"
      PROVE  mailbox'[i].gen <= mailbox'[j].gen
  <2>1. CASE j = Len(mailbox) + 1
    BY <1>1, <1>4, <1>5, <2>1
  <2>2. CASE j # Len(mailbox) + 1
    <3>1. i \in DOMAIN mailbox /\ j \in DOMAIN mailbox
      BY <1>1, <1>5, <2>2
    <3> QED BY <1>1, <1>5, <3>1 DEF InOrder
  <2> QED BY <2>1, <2>2
<1> QED BY <1>3, <1>4, <1>5 DEF InOrder

LEMMA OrderTakes ==
  ASSUME IInv, InOrder, mailbox # << >>, mailbox' = Tail(mailbox), spawned' = spawned,
         \/ status' = status
         \/ Head(mailbox).type = "status" /\ status'.writer = Head(mailbox).gen
  PROVE  InOrder'
<1>1. /\ 1 \in DOMAIN mailbox /\ Head(mailbox) = mailbox[1]
      /\ \A i \in DOMAIN mailbox' : /\ i \in Nat \ {0} /\ i + 1 \in DOMAIN mailbox
                                    /\ mailbox'[i] = mailbox[i + 1]
  BY Taken DEF IInv
<1>2. \A i, j \in DOMAIN mailbox' :
        i < j /\ mailbox'[i].type = "status" /\ mailbox'[j].type = "status" =>
          mailbox'[i].gen <= mailbox'[j].gen
  <2>1. SUFFICES ASSUME NEW i \in DOMAIN mailbox', NEW j \in DOMAIN mailbox', i < j,
                        mailbox'[i].type = "status", mailbox'[j].type = "status"
                 PROVE  mailbox'[i].gen <= mailbox'[j].gen
    OBVIOUS
  <2>2. i + 1 < j + 1
    BY <1>1, <2>1
  <2> QED BY <1>1, <2>1, <2>2 DEF InOrder
<1>3. CASE status' = status
  BY <1>1, <1>2, <1>3 DEF InOrder
<1>4. CASE Head(mailbox).type = "status" /\ status'.writer = Head(mailbox).gen
  <2>1. mailbox[1].type = "status" /\ status'.writer = mailbox[1].gen
    BY <1>1, <1>4
  <2>2. status'.writer <= spawned
    BY <1>1, <2>1 DEF IInv, Numbered
  <2>3. ASSUME NEW i \in DOMAIN mailbox', mailbox'[i].type = "status"
        PROVE  status'.writer <= mailbox'[i].gen
    <3>1. 1 < i + 1 /\ i + 1 \in DOMAIN mailbox
      BY <1>1, <2>3
    <3> QED BY <1>1, <2>1, <2>3, <3>1 DEF InOrder
  <2> QED BY <1>2, <2>2, <2>3 DEF InOrder
<1> QED BY <1>3, <1>4

LEMMA OrderStays ==
  ASSUME IInv, InOrder, mailbox' = mailbox, spawned' \in Nat, spawned <= spawned',
         status'.writer = status.writer \/ status'.writer = 0
  PROVE  InOrder'
<1>1. spawned \in Nat /\ status.writer \in Nat
  BY StatusIs DEF IInv, TypeOK
<1>2. \A i \in DOMAIN mailbox : mailbox[i].type = "status" =>
        mailbox[i].gen \in Nat /\ status'.writer <= mailbox[i].gen
  BY <1>1 DEF IInv, Numbered, InOrder
<1>3. status'.writer <= spawned'
  BY <1>1 DEF InOrder
<1> QED BY <1>2, <1>3 DEF InOrder

\* An answer: what is accepted is counted by its task at most once.
LEMMA AcceptedOnce ==
  ASSUME IInv, actor = "idle", mailbox # << >>, Head(mailbox).type = "enqueue",
         Enqueue(Head(mailbox)) \/ EnqueueFails(Head(mailbox))
  PROVE  accepted + Pending' <= accepted' + Pending
<1> DEFINE c == Head(mailbox)
<1>1. Pending \in Nat /\ accepted \in Nat
  BY QuantitiesBefore DEF IInv
<1>2. ASSUME NEW outcome, task' = Answered(c, outcome)
      PROVE  \/ Pending' = Pending
             \/ outcome = "Accepted" /\ Pending' = Pending + 1
  <2>1. CASE task' = task
    BY <2>1 DEF Pending
  <2>2. CASE /\ Served(c, task')
             /\ task'.accepted = IF outcome = "Accepted" THEN task.accepted + 1
                                                         ELSE task.accepted
    <3>1. task # NoTask /\ task' # NoTask
      BY <2>2, TaskIsSome DEF Served
    <3> QED BY <2>2, <3>1 DEF Pending
  <2> QED BY <1>2, <2>1, <2>2, AnsweredIs
<1>3. CASE Enqueue(c)
  <2>1. PICK outcome :
          /\ task' = Answered(c, outcome)
          /\ accepted' = IF outcome = "Accepted" THEN accepted + 1 ELSE accepted
    BY <1>3 DEF Enqueue
  <2>2. CASE outcome = "Accepted"
    <3>1. Pending' = Pending \/ Pending' = Pending + 1
      BY <1>2, <2>1
    <3> QED BY <1>1, <2>1, <2>2, <3>1
  <2>3. CASE outcome # "Accepted"
    <3>1. accepted' = accepted /\ Pending' = Pending
      BY <1>2, <2>1, <2>3
    <3> QED BY <1>1, <3>1
  <2> QED BY <2>2, <2>3
<1>4. CASE EnqueueFails(c)
  <2>1. task' = Answered(c, "Error") /\ accepted' = accepted
    BY <1>4 DEF EnqueueFails
  <2>2. Pending' = Pending
    BY <1>2, <2>1
  <2> QED BY <1>1, <2>1, <2>2
<1> QED BY <1>3, <1>4

LEMMA SInvStarts ==
  ASSUME Init
  PROVE  SInv
<1>1. IInv
  BY IInvStarts
<1>2. InOrder
  <2>1. DOMAIN mailbox = {} /\ status.writer = 0 /\ spawned = 0
    BY DEF Init, NoStatus
  <2> QED BY <2>1 DEF InOrder
<1>3. Ledger
  <2>1. Len(mailbox) = 0 /\ status.received = 0 /\ Pending = 0 /\ accepted = 0
    BY DEF Init, NoStatus, Pending
  <2>2. Account([i \in 0..0 |-> 0])
    BY <2>1 DEF Account
  <2> QED BY <2>2 DEF Ledger
<1> QED BY <1>1, <1>2, <1>3 DEF SInv

LEMMA SInvTaskStep ==
  ASSUME SInv, IInv', TaskStep
  PROVE  InOrder' /\ Ledger'
<1>1. /\ task # NoTask /\ UNCHANGED TaskOnly /\ task' \in Task /\ task'.gen = task.gen
      /\ task'.accepted <= task.accepted /\ (Silent \/ Reporting \/ Asking)
  BY TaskStepIs DEF SInv, IInv
<1>2. UNCHANGED <<status, spawned, accepted>> /\ TypeOK /\ TypeOK' /\ IInv
  BY <1>1 DEF TaskOnly, SInv, IInv
<1>3. Pending = task.accepted /\ Pending' = task'.accepted /\ task.gen = spawned
  BY <1>1, TaskIsSome DEF Pending, SInv, IInv, Numbered
<1>4. Pending \in Nat /\ Pending' \in Nat /\ status.received \in Nat /\ spawned \in Nat
  BY <1>2, QuantitiesBefore, QuantitiesAfter DEF TypeOK
<1>5. CASE Silent
  <2>1. mailbox' = mailbox /\ status'.received <= status.received /\ Pending' <= Pending
    BY <1>1, <1>2, <1>3, <1>4, <1>5 DEF Silent
  <2> QED BY <1>2, <1>4, <2>1, LedgerStays, OrderStays DEF SInv
<1>6. CASE Reporting
  <2>1. PICK c \in Command :
          /\ Room /\ mailbox' = Append(mailbox, c) /\ c.type = "status" /\ c.gen = task.gen
          /\ c.received + task'.accepted <= task.accepted
    BY <1>6 DEF Reporting, Report
  <2>2. Counted(c) + Pending' <= Pending
    BY <1>3, <2>1 DEF Counted
  <2> QED BY <1>2, <1>3, <1>4, <2>1, <2>2, LedgerAppends, OrderAppends DEF SInv
<1>7. CASE Asking
  <2>1. PICK c \in Command : /\ Room /\ mailbox' = Append(mailbox, c) /\ c.type = "enqueue"
    BY <1>7 DEF Asking
  <2>2. Counted(c) + Pending' <= Pending
    BY <1>1, <1>3, <1>4, <2>1 DEF Counted
  <2> QED BY <1>2, <1>3, <1>4, <2>1, <2>2, LedgerAppends, OrderAppends DEF SInv
<1> QED BY <1>1, <1>5, <1>6, <1>7

LEMMA SInvReceive ==
  ASSUME SInv, IInv', Receive
  PROVE  InOrder' /\ Ledger'
<1> DEFINE c == Head(mailbox)
<1>1. /\ actor = "idle" /\ mailbox # << >> /\ mailbox' = Tail(mailbox) /\ spawned' = spawned
      /\ TypeOK /\ TypeOK' /\ IInv /\ InOrder /\ Ledger
  BY DEF Receive, SInv, IInv
<1>2. c \in Command /\ Counted(c) \in Nat
  BY <1>1, Taken, CountedIsNat
<1>3. /\ Pending \in Nat /\ Pending' \in Nat /\ status.received \in Nat
      /\ accepted \in Nat
  BY <1>1, QuantitiesBefore, QuantitiesAfter
<1>4. CASE c.type = "enqueue" /\ (Enqueue(c) \/ EnqueueFails(c))
  <2>1. status' = status
    BY <1>4 DEF Enqueue, EnqueueFails
  <2>2. accepted + Pending' <= accepted' + Pending
    BY <1>1, <1>4, AcceptedOnce
  <2>3. status'.received <= status.received + Counted(c)
    BY <1>2, <1>3, <2>1
  <2> QED BY <1>1, <2>1, <2>2, <2>3, LedgerTakes, OrderTakes
<1>5. CASE c.type = "status" /\ UpdateYouTubeStatus(c)
  <2>1. task' = task /\ accepted' = accepted
    BY <1>5 DEF UpdateYouTubeStatus
  <2>2. accepted + Pending' <= accepted' + Pending
    BY <1>3, <2>1 DEF Pending
  <2>3. /\ \/ status' = status
           \/ c.type = "status" /\ status'.writer = c.gen
        /\ status'.received <= status.received + Counted(c)
    <3>1. CASE status' = status
      BY <1>2, <1>3, <3>1
    <3>2. CASE status' = [state |-> c.state, writer |-> c.gen,
                          received |-> status.received + c.received]
      <4>1. c.received \in Nat /\ Counted(c) = c.received
        BY <1>2, <1>5 DEF Counted
      <4> QED BY <1>3, <1>5, <3>2, <4>1
    <3> QED BY <1>5, <3>1, <3>2 DEF UpdateYouTubeStatus
  <2> QED BY <1>1, <2>2, <2>3, LedgerTakes, OrderTakes
<1>6. CASE Configure(c.setting) \/ UNCHANGED <<actor, task, status, answered, accepted, refused, faults>>
  <2>1. status' = status /\ accepted' = accepted /\ Pending' = Pending
    <3>1. CASE task = NoTask \/ task' = task
      BY <1>6, <3>1 DEF Configure, Pending
    <3>2. CASE task # NoTask /\ task' = [task EXCEPT !.aborted = TRUE]
      <4>1. task \in Task
        BY <1>1, <3>2 DEF TypeOK
      <4>2. task' \in Task /\ task'.accepted = task.accepted
        BY <3>2, <4>1 DEF Task
      <4> QED BY <1>6, <3>2, <4>2, TaskIsSome DEF Configure, Pending
    <3> QED BY <1>6, <3>1, <3>2 DEF Configure
  <2>2. accepted + Pending' <= accepted' + Pending
    BY <1>3, <2>1
  <2>3. status'.received <= status.received + Counted(c)
    BY <1>2, <1>3, <2>1
  <2> QED BY <1>1, <2>1, <2>2, <2>3, LedgerTakes, OrderTakes
<1> QED BY <1>4, <1>5, <1>6 DEF Receive

LEMMA SInvStep ==
  ASSUME SInv, [Next]_vars
  PROVE  SInv'
<1>1. IInv' /\ TypeOK /\ TypeOK' /\ IInv /\ InOrder /\ Ledger
  <2>1. IInv'
    BY IInvStep DEF SInv
  <2> QED BY <2>1 DEF SInv, IInv
<1>2. /\ Pending \in Nat /\ Pending' \in Nat /\ status.received \in Nat /\ spawned \in Nat
      /\ spawned' \in Nat
  BY <1>1, QuantitiesBefore, QuantitiesAfter DEF TypeOK
<1>3. CASE OtherCommand \/ SetYouTubePolling
  <2>1. PICK c : /\ Room /\ mailbox' = Append(mailbox, c) /\ c.type \in {"other", "set"}
                 /\ c \in Command
    <3>1. CASE OtherCommand
      BY <3>1 DEF OtherCommand, Command
    <3>2. CASE SetYouTubePolling
      <4>1. PICK s \in Setting : Room /\ mailbox' = Append(mailbox, [type |-> "set", setting |-> s])
        BY <3>2 DEF SetYouTubePolling
      <4>2. [type |-> "set", setting |-> s] \in Command
        BY <4>1 DEF Command
      <4> QED BY <4>1, <4>2
    <3> QED BY <1>3, <3>1, <3>2
  <2>2. UNCHANGED <<task, status, spawned, accepted>>
    BY <1>3 DEF OtherCommand, SetYouTubePolling
  <2>3. Counted(c) + Pending' <= Pending
    BY <1>2, <2>1, <2>2 DEF Counted, Pending
  <2>4. InOrder' /\ Ledger'
    BY <1>1, <1>2, <2>1, <2>2, <2>3, LedgerAppends, OrderAppends
  <2> QED BY <1>1, <2>4 DEF SInv
<1>4. CASE TaskStep
  BY <1>1, <1>4, SInvTaskStep DEF SInv
<1>5. CASE TaskStops
  <2>1. UNCHANGED <<mailbox, status, spawned, accepted>> /\ task' = NoTask
    BY <1>5 DEF TaskStops, TaskOnly
  <2>2. Pending' <= Pending /\ status'.received <= status.received
    BY <1>2, <2>1 DEF Pending
  <2> QED BY <1>1, <1>2, <2>1, <2>2, LedgerStays, OrderStays DEF SInv
<1>6. CASE Receive
  BY <1>1, <1>6, SInvReceive DEF SInv
<1>7. CASE Configured
  <2>1. /\ UNCHANGED <<mailbox, accepted>> /\ task = NoTask
        /\ status'.received = 0 /\ status'.writer = 0
    BY <1>7 DEF Configured, NoStatus
  <2>2. Pending' = 0 /\ spawned <= spawned'
    <3>1. CASE actor \in Target
      <4>1. task' \in Task /\ task'.accepted = 0 /\ spawned' = spawned + 1
        BY <1>1, <1>7, <3>1, Spawned
      <4> QED BY <1>2, <4>1, TaskIsSome DEF Pending
    <3>2. CASE actor \notin Target
      BY <1>2, <1>7, <2>1, <3>2 DEF Configured, Pending
    <3> QED BY <3>1, <3>2
  <2>3. Pending' <= Pending /\ status'.received <= status.received
    BY <1>2, <2>1, <2>2
  <2> QED BY <1>1, <1>2, <2>1, <2>2, <2>3, LedgerStays, OrderStays DEF SInv
<1>8. CASE UNCHANGED vars
  <2>1. UNCHANGED <<mailbox, task, status, spawned, accepted>>
    BY <1>8 DEF vars
  <2>2. /\ Pending' <= Pending /\ status'.received <= status.received /\ spawned <= spawned'
        /\ status'.writer = status.writer
    BY <1>2, <2>1 DEF Pending
  <2> QED BY <1>1, <1>2, <2>1, <2>2, LedgerStays, OrderStays DEF SInv
<1> QED BY <1>3, <1>4, <1>5, <1>6, <1>7, <1>8 DEF Next

LEMMA AlwaysSInv == Spec => []SInv
BY SInvStarts, SInvStep, PTL DEF Spec

LEMMA NotOverstated == ASSUME SInv PROVE ReceivedNotOverstated
<1>1. PICK g : Account(g)
  BY DEF SInv, Ledger
<1>2. mailbox \in Seq(Command) /\ Len(mailbox) \in Nat
  BY DEF SInv, IInv, TypeOK
<1>3. PICK n : n = Len(mailbox)
  OBVIOUS
<1>4. /\ n \in Nat /\ Pending \in Nat /\ status.received \in Nat /\ accepted \in Nat
      /\ n # 0 => Counted(mailbox[n]) \in Nat
  <2>1. n # 0 => mailbox[n] \in Command
    BY <1>2, <1>3
  <2> QED BY <1>2, <1>3, <2>1, CountedIsNat, QuantitiesBefore DEF SInv, IInv
<1>5. /\ g[0] \in Nat /\ g[n] \in Nat /\ status.received <= g[0]
      /\ n # 0 => g[0] + Counted(mailbox[n]) <= g[n]
      /\ g[n] + Pending <= accepted
  BY <1>1, <1>3, <1>4 DEF Account
<1>6. g[0] <= g[n]
  BY <1>4, <1>5
<1> QED BY <1>4, <1>5, <1>6 DEF ReceivedNotOverstated

\* An update changes the status only while a task polls, and never after one of a later
\* task.
StaleDies ==
  status' # status =>
    \/ actor # "idle"
    \/ task # NoTask /\ status'.writer >= status.writer

LEMMA StaleUpdatesDie ==
  ASSUME SInv, [Next]_vars
  PROVE  StaleDies
<1>1. SUFFICES ASSUME status' # status, actor = "idle"
               PROVE  task # NoTask /\ status'.writer >= status.writer
  BY DEF StaleDies
<1>2. Receive
  BY <1>1 DEF Next, vars, OtherCommand, SetYouTubePolling, TaskStops, Configured, TaskOnly, TaskStep,
     Resolve, Resolved, ResolveFails, FetchPage, FetchFails, SessionExpired, Reresolved,
     EnqueueMessage, PageDone
<1> DEFINE c == Head(mailbox)
<1>3. c.type = "status" /\ UpdateYouTubeStatus(c)
  BY <1>1, <1>2 DEF Receive, Enqueue, EnqueueFails, Configure
<1>4. task # NoTask /\ status'.writer = c.gen
  BY <1>1, <1>3 DEF UpdateYouTubeStatus
<1>5. 1 \in DOMAIN mailbox /\ c = mailbox[1]
  BY <1>2, Taken DEF Receive, SInv, IInv
<1>6. status.writer <= c.gen /\ c.gen \in 1..spawned /\ status.writer \in Nat /\ spawned \in Nat
  BY <1>3, <1>5, StatusIs DEF SInv, IInv, InOrder, Numbered, TypeOK
<1> QED BY <1>4, <1>6

\* Although updates are lost when the mailbox is full, and those of a former task arrive
\* when it is gone, the dashboard never shows more messages than the inbox accepted, no
\* update is shown when nothing polls, and none of a former task after one of the present.
THEOREM StatusIsTruthful == Spec => StatusTruthful
<1>1. SInv => ReceivedNotOverstated
  BY NotOverstated
<1>2. SInv /\ [Next]_vars =>
        [status' # status =>
           \/ actor # "idle"
           \/ task # NoTask /\ status'.writer >= status.writer]_vars
  BY StaleUpdatesDie DEF StaleDies
<1> QED BY <1>1, <1>2, AlwaysSInv, PTL DEF Spec, StatusTruthful, StaleStatusDiesOut
==============================================================================
