-------------------------- MODULE StreamActorProofs --------------------------
(***************************************************************************)
(* Theorems about StreamActor for every set of keys, targets and callers,  *)
(* every mailbox capacity and every restart limit.                         *)
(***************************************************************************)
EXTENDS StreamActor, SequenceTheorems, TLAPS

----------------------------------------------------------------------------
(* The mailbox *)

\* Taking the head of the mailbox leaves a mailbox, and the head is a command.
LEMMA ReceiveType ==
  ASSUME TypeOK, NEW type, Receive(type)
  PROVE  /\ mailbox' \in Seq(Command) /\ Len(mailbox') <= MailboxCapacity
         /\ Head(mailbox) \in Command /\ Head(mailbox).type = type
<1>1. mailbox \in Seq(Command) /\ mailbox # <<>> /\ mailbox' = Tail(mailbox)
  BY DEF TypeOK, Receive
<1>2. Head(mailbox) \in Command /\ Tail(mailbox) \in Seq(Command)
  BY <1>1
<1>3. Len(Tail(mailbox)) = Len(mailbox) - 1 /\ Len(mailbox) \in Nat
  BY <1>1
<1> QED
  BY <1>1, <1>2, <1>3, BoundsAssumption DEF TypeOK, Receive

\* The commands the handlers take apart.
LEMMA CommandFields ==
  ASSUME NEW command \in Command
  PROVE  /\ command.type = "stage" =>
              command.key \in Key /\ command.session \in Session /\ command.open \in BOOLEAN
         /\ command.type = "end" => command.key \in Key
BY DEF Command

LEMMA SendType ==
  ASSUME TypeOK, NEW command \in Command, Send(command)
  PROVE  mailbox' \in Seq(Command) /\ Len(mailbox') <= MailboxCapacity
<1>1. mailbox \in Seq(Command) /\ Len(mailbox) < MailboxCapacity
  BY DEF TypeOK, Send, CanSend
<1>2. mailbox' = Append(mailbox, command)
  BY DEF Send
<1> QED
  BY <1>1, <1>2, BoundsAssumption

LEMMA GiveUpType ==
  ASSUME TypeOK, NEW s \in Session, GiveUp(s)
  PROVE  mailbox' \in Seq(Command) /\ Len(mailbox') <= MailboxCapacity
<1>1. mailbox \in Seq(Command) /\ Len(mailbox) \in Nat /\ Len(mailbox) <= MailboxCapacity
  BY DEF TypeOK
<1>2. DOMAIN mailbox = 1 .. Len(mailbox) /\ \A i \in 1 .. Len(mailbox) : mailbox[i] \in Command
  BY <1>1
<1>3. \A command \in Command :
        command.type = "stage" => [command EXCEPT !.open = FALSE] \in Command
  BY DEF Command
<1>4. mailbox' \in [1 .. Len(mailbox) -> Command]
  BY <1>2, <1>3 DEF GiveUp
<1>5. mailbox' \in Seq(Command) /\ Len(mailbox') = Len(mailbox)
  BY <1>1, <1>4
<1> QED
  BY <1>1, <1>5

LEMMA StatusType ==
  ASSUME NEW stream, NEW ready
  PROVE  ComputeStatus(stream, ready) \in State
BY DEF ComputeStatus, State

\* A respawn that fails changes two fields of the staged stream.
LEMMA FailedRespawn ==
  ASSUME TypeOK, HealthRespawnFails
  PROVE  /\ staged \in Staged /\ staged # NoStream
         /\ staged' \in Staged /\ staged' # NoStream
         /\ staged'.key = staged.key /\ staged'.owner = staged.owner
         /\ staged'.published = staged.published /\ ~staged'.alive
         /\ staged'.failed /\ staged'.failures = staged.failures + 1
<1> DEFINE more == staged.failures + 1
<1>1. staged \in Staged /\ staged # NoStream /\ ~staged.alive
  BY DEF HealthRespawnFails, PreviewDead, TypeOK
<1>2. more \in Nat
  BY <1>1 DEF Staged
<1>3. staged' = [staged EXCEPT !.failed = TRUE, !.failures = more]
  BY DEF HealthRespawnFails
<1>4. more = staged.failures + 1
  OBVIOUS
<1> HIDE DEF more
<1>5. /\ staged' \in Staged
      /\ staged'.key = staged.key /\ staged'.owner = staged.owner
      /\ staged'.published = staged.published /\ ~staged'.alive
      /\ staged'.failed /\ staged'.failures = more
  BY <1>1, <1>2, <1>3 DEF Staged
<1>6. NoStream \notin Staged
  BY NoStreamAssumption DEF Staged
<1> QED
  BY <1>1, <1>4, <1>5, <1>6

----------------------------------------------------------------------------
(* Type correctness *)

LEMMA TypeStep == TypeOK /\ [Next]_vars => TypeOK'
<1> SUFFICES ASSUME TypeOK, [Next]_vars PROVE TypeOK'
  OBVIOUS
<1> USE DEF actorVars
<1>0. NoStream \notin Staged
  BY NoStreamAssumption DEF Staged
<1>1. CASE Stage
  <2>1. /\ mailbox' \in Seq(Command) /\ Len(mailbox') <= MailboxCapacity
        /\ Head(mailbox).key \in Key /\ Head(mailbox).session \in Session
    BY <1>1, ReceiveType, CommandFields DEF Stage
  <2>2. staged' \in Staged
    BY <1>1, <2>1 DEF Stage, Staged
  <2>3. replies' \in [Session -> {"none", "ok", "err"}]
    BY <1>1 DEF Stage, Reply, TypeOK
  <2>4. status' \in State
    BY <1>1, StatusType DEF Stage, UpdateStatus
  <2> QED
    BY <1>1, <2>1, <2>2, <2>3, <2>4 DEF Stage, TypeOK
<1>2. CASE StageFails
  <2>1. mailbox' \in Seq(Command) /\ Len(mailbox') <= MailboxCapacity
    BY <1>2, ReceiveType DEF StageFails
  <2>2. replies' \in [Session -> {"none", "ok", "err"}]
    BY <1>2 DEF StageFails, Reply, TypeOK
  <2> QED
    BY <1>2, <2>1, <2>2 DEF StageFails, TypeOK
<1>3. ASSUME NEW targets \in SUBSET Target, Publish(targets) PROVE TypeOK'
  <2>1. mailbox' \in Seq(Command) /\ Len(mailbox') <= MailboxCapacity
    BY <1>3, ReceiveType DEF Publish
  <2>2. staged' \in Staged
    BY <1>0, <1>3 DEF Publish, TypeOK, Staged
  <2>3. active_relays' \in [Key -> SUBSET Target]
    BY <1>3 DEF Publish, TypeOK
  <2>4. status' \in State
    BY <1>3, StatusType DEF Publish, UpdateStatus
  <2> QED
    BY <1>3, <2>1, <2>2, <2>3, <2>4 DEF Publish, TypeOK
<1>4. CASE Refuse
  <2>1. mailbox' \in Seq(Command) /\ Len(mailbox') <= MailboxCapacity
    BY <1>4, ReceiveType DEF Refuse
  <2> QED
    BY <1>4, <2>1 DEF Refuse, TypeOK
<1>5. CASE StopBegin
  <2>1. mailbox' \in Seq(Command) /\ Len(mailbox') <= MailboxCapacity
    BY <1>5, ReceiveType DEF StopBegin
  <2>2. staged \in Staged /\ staged' \in Staged /\ staged.key \in Key
    BY <1>0, <1>5 DEF StopBegin, TypeOK, Staged
  <2>3. active_relays' \in [Key -> SUBSET Target] /\ cancelling' \subseteq Target
    BY <1>5, <2>2 DEF StopBegin, TakeRelays, TypeOK
  <2> QED
    BY <1>5, <2>1, <2>2, <2>3 DEF StopBegin, TypeOK
<1>6. CASE StopFinish
  <2>1. status' \in State
    BY <1>6, StatusType DEF StopFinish, UpdateStatus
  <2> QED
    BY <1>6, <2>1 DEF StopFinish, TypeOK
<1>7. CASE EndBegin
  <2>1. mailbox' \in Seq(Command) /\ Len(mailbox') <= MailboxCapacity
    BY <1>7, ReceiveType DEF EndBegin
  <2> QED
    BY <1>7, <2>1 DEF EndBegin, TypeOK
<1>16. CASE EndRelays
  <2>1. ending.key \in Key
    BY <1>16 DEF EndRelays, TypeOK, Staged
  <2>2. active_relays' \in [Key -> SUBSET Target] /\ cancelling' \subseteq Target
    BY <1>16, <2>1 DEF EndRelays, TakeRelays, TypeOK
  <2> QED
    BY <1>16, <2>2 DEF EndRelays, TypeOK
<1>8. CASE EndFinish
  <2>1. status' \in State
    BY <1>8, StatusType DEF EndFinish, UpdateStatus
  <2> QED
    BY <1>8, <2>1 DEF EndFinish, TypeOK
<1>9. CASE EndOther
  <2>1. mailbox' \in Seq(Command) /\ Len(mailbox') <= MailboxCapacity
    BY <1>9, ReceiveType DEF EndOther
  <2>2. active_relays' \in [Key -> SUBSET Target]
    BY <1>9 DEF EndOther, TypeOK
  <2> QED
    BY <1>9, <2>1, <2>2 DEF EndOther, TypeOK
<1>10. CASE HealthCheck
  <2>1. CASE HealthRefresh
    <3>1. status' \in State
      BY <2>1, StatusType DEF HealthRefresh, UpdateStatus
    <3> QED
      BY <2>1, <3>1 DEF HealthRefresh, TypeOK
  <2>2. CASE HealthRespawn
    <3>1. status' \in State
      BY <2>2, StatusType DEF HealthRespawn, UpdateStatus
    <3>2. staged \in Staged
      BY <2>2 DEF HealthRespawn, PreviewDead, TypeOK
    <3>3. staged' \in Staged
      BY <2>2, <3>2 DEF HealthRespawn, Staged
    <3>4. fruitless' \in Nat
      BY <2>2 DEF HealthRespawn, TypeOK
    <3> QED
      BY <2>2, <3>1, <3>3, <3>4 DEF HealthRespawn, TypeOK
  <2>3. CASE HealthRespawnFails
    <3>1. status' \in State
      BY <2>3, StatusType DEF HealthRespawnFails, UpdateStatus
    <3>2. staged' \in Staged
      BY <2>3, FailedRespawn
    <3> QED
      BY <2>3, <3>1, <3>2 DEF HealthRespawnFails, TypeOK
  <2>4. CASE HealthGiveUp
    <3>1. status' \in State
      BY <2>4, StatusType DEF HealthGiveUp, UpdateStatus
    <3>2. staged \in Staged
      BY <2>4 DEF HealthGiveUp, PreviewDead, TypeOK
    <3>3. staged' \in Staged
      BY <2>4, <3>2 DEF HealthGiveUp, Staged
    <3> QED
      BY <2>4, <3>1, <3>3 DEF HealthGiveUp, TypeOK
  <2> QED
    BY <1>10, <2>1, <2>2, <2>3, <2>4 DEF HealthCheck
<1>11. CASE Processes
  <2>1. staged' \in Staged \cup {NoStream}
    BY <1>0, <1>11 DEF Processes, PreviewExits, PreviewWritesPlaylist, TypeOK, Staged
  <2> QED
    BY <1>11, <2>1 DEF Processes, PreviewExits, PreviewWritesPlaylist, TypeOK
<1>12. ASSUME NEW command \in Command, Send(command) /\ UNCHANGED <<replies, actorVars>>
       PROVE  TypeOK'
  BY <1>12, SendType DEF TypeOK
<1>13. ASSUME NEW s \in Session, TakeReply(s) PROVE TypeOK'
  BY <1>13 DEF TakeReply, TypeOK
<1>14. ASSUME NEW s \in Session, GiveUp(s) PROVE TypeOK'
  <2>1. mailbox' \in Seq(Command) /\ Len(mailbox') <= MailboxCapacity
    BY <1>14, GiveUpType
  <2> QED
    BY <1>14, <2>1 DEF GiveUp, TypeOK
<1>15. CASE UNCHANGED vars
  BY <1>15 DEF vars, TypeOK
<1> QED
  BY <1>1, <1>2, <1>3, <1>4, <1>5, <1>6, <1>7, <1>8, <1>9, <1>10, <1>11, <1>12, <1>13,
     <1>14, <1>15, <1>16
     DEF Next, HandleCommand, Callers

LEMMA InitType == Init => TypeOK
<1> SUFFICES ASSUME Init PROVE TypeOK
  OBVIOUS
<1>1. mailbox \in Seq(Command) /\ Len(mailbox) <= MailboxCapacity
  <2>1. mailbox = <<>>
    BY DEF Init
  <2>2. mailbox \in Seq(Command) /\ Len(mailbox) = 0
    BY <2>1
  <2> QED
    BY <2>2, BoundsAssumption
<1>2. /\ replies \in [Session -> {"none", "ok", "err"}]
      /\ active_relays \in [Key -> SUBSET Target]
  BY DEF Init
<1> QED
  BY <1>1, <1>2 DEF Init, TypeOK, State

\* Every handler, health check and caller keeps the actor's state well typed.
THEOREM ActorTypeCorrect == Spec => []TypeOK
  BY InitType, TypeStep, PTL DEF Spec

----------------------------------------------------------------------------
(* Relays and publication *)

\* No command, in any order and from any caller, leaves relays running for a
\* stream that is not published, except for the wait for the preview of the
\* published stream that is being ended.  That the actor handles nothing else
\* meanwhile is needed: a stop or a publish would find the relays in its way.
EndingBusy == ending # NoStream => busy = "ending" /\ staged = NoStream

RelaysInv == EndingBusy /\ RelaysFollowPublication

LEMMA RelaysStep == TypeOK /\ RelaysInv /\ [Next]_vars => RelaysInv'
<1> SUFFICES ASSUME TypeOK, RelaysInv, [Next]_vars PROVE RelaysInv'
  OBVIOUS
<1> USE DEF actorVars
<1>0. /\ active_relays \in [Key -> SUBSET Target]
      /\ staged # NoStream => staged \in Staged
      /\ ending # NoStream => ending \in Staged
      /\ NoStream \notin Staged
      /\ \A k \in Key : active_relays[k] # {} =>
           \/ staged # NoStream /\ staged.key = k /\ staged.published
           \/ ending # NoStream /\ ending.key = k /\ ending.published
      /\ ending # NoStream => busy = "ending" /\ staged = NoStream
  BY NoStreamAssumption
     DEF TypeOK, Staged, RelaysInv, EndingBusy, RelaysFollowPublication, IsCurrent
<1>1. CASE Stage
  <2>1. busy = "idle" /\ staged = NoStream
    BY <1>1 DEF Stage, Receive
  <2>2. ending = NoStream /\ \A k \in Key : active_relays[k] = {}
    BY <1>0, <2>1
  <2> QED
    BY <1>1, <2>2 DEF Stage, RelaysInv, EndingBusy, RelaysFollowPublication
<1>2. ASSUME NEW targets \in SUBSET Target, Publish(targets) PROVE RelaysInv'
  <2>1. busy = "idle" /\ ending = NoStream /\ UNCHANGED <<busy, ending>>
    BY <1>0, <1>2 DEF Publish, Receive
  <2>2. staged \in Staged /\ staged' = [staged EXCEPT !.published = TRUE]
    BY <1>0, <1>2 DEF Publish
  <2>3. staged'.key = staged.key /\ staged'.published /\ staged' # NoStream
    BY <1>0, <2>2 DEF Staged
  <2>4. \A k \in Key : active_relays'[k] # {} => k = staged.key
    BY <1>0, <1>2, <2>1 DEF Publish
  <2> QED
    BY <2>1, <2>3, <2>4 DEF RelaysInv, EndingBusy, RelaysFollowPublication, IsCurrent
<1>3. CASE StopBegin
  <2>1. ending = NoStream /\ ending' = NoStream
    BY <1>0, <1>3 DEF StopBegin, Receive
  <2>2. \A k \in Key : active_relays'[k] = {}
    BY <1>0, <1>3, <2>1 DEF StopBegin, TakeRelays
  <2> QED
    BY <2>1, <2>2 DEF RelaysInv, EndingBusy, RelaysFollowPublication
<1>4. CASE EndBegin
  <2>1. /\ ending = NoStream /\ staged # NoStream
        /\ ending' = staged /\ staged' = NoStream /\ busy' = "ending"
        /\ UNCHANGED active_relays
    BY <1>0, <1>4 DEF EndBegin, IsCurrent, Receive
  <2>2. \A k \in Key : active_relays'[k] # {} => ending'.key = k /\ ending'.published
    BY <1>0, <2>1
  <2> QED
    BY <2>1, <2>2 DEF RelaysInv, EndingBusy, RelaysFollowPublication
<1>5. CASE EndRelays
  <2>1. staged = NoStream /\ ending' = NoStream
    BY <1>0, <1>5 DEF EndRelays
  <2>2. \A k \in Key : active_relays'[k] = {}
    BY <1>0, <1>5, <2>1 DEF EndRelays, TakeRelays
  <2> QED
    BY <2>1, <2>2 DEF RelaysInv, EndingBusy, RelaysFollowPublication
<1>6. CASE EndOther
  BY <1>0, <1>6
     DEF EndOther, Receive, RelaysInv, EndingBusy, RelaysFollowPublication, IsCurrent
<1>7. ASSUME UNCHANGED <<active_relays, busy, ending>>, staged # NoStream, staged' # NoStream,
             staged'.key = staged.key, staged'.published = staged.published
      PROVE  RelaysInv'
  BY <1>0, <1>7 DEF RelaysInv, EndingBusy, RelaysFollowPublication, IsCurrent
<1>8. CASE HealthRespawn
  <2>1. /\ staged \in Staged /\ staged # NoStream
        /\ staged' = [staged EXCEPT !.alive = TRUE, !.failed = FALSE, !.failures = 0]
        /\ UNCHANGED <<active_relays, busy, ending>>
    BY <1>0, <1>8 DEF HealthRespawn, PreviewDead
  <2>2. /\ staged' \in Staged /\ staged'.key = staged.key
        /\ staged'.published = staged.published
    BY <2>1 DEF Staged
  <2> QED
    BY <1>0, <1>7, <2>1, <2>2
<1>9. CASE HealthRespawnFails
  <2>1. UNCHANGED <<active_relays, busy, ending>>
    BY <1>9 DEF HealthRespawnFails
  <2> QED
    BY <1>7, <1>9, <2>1, FailedRespawn
<1>10. CASE HealthGiveUp
  BY <1>0, <1>7, <1>10 DEF HealthGiveUp, PreviewDead, Staged
<1>11. CASE PreviewExits
  BY <1>0, <1>7, <1>11 DEF PreviewExits, Staged
<1>12. ASSUME UNCHANGED <<staged, active_relays, ending>>, UNCHANGED busy \/ ending = NoStream
       PROVE  RelaysInv'
  BY <1>0, <1>12 DEF RelaysInv, EndingBusy, RelaysFollowPublication, IsCurrent
<1>13. CASE StopFinish
  BY <1>0, <1>12, <1>13 DEF StopFinish
<1> QED
  BY <1>1, <1>2, <1>3, <1>4, <1>5, <1>6, <1>8, <1>9, <1>10, <1>11, <1>12, <1>13
     DEF Next, HandleCommand, HealthCheck, Processes, Callers, StageFails, Refuse,
         EndFinish, HealthRefresh, PreviewWritesPlaylist, TakeReply, GiveUp, vars

THEOREM RelaysAlwaysFollowPublication == Spec => []RelaysFollowPublication
<1>1. Init => RelaysInv
  BY DEF Init, RelaysInv, EndingBusy, RelaysFollowPublication
<1>2. RelaysInv => RelaysFollowPublication
  BY DEF RelaysInv
<1> QED
  BY <1>1, <1>2, RelaysStep, ActorTypeCorrect, PTL DEF Spec

----------------------------------------------------------------------------
(* The status *)

\* Between two commands the watch channel shows the state the actor is in.
THEOREM StatusAlwaysCurrent == Spec => []StatusCurrent
<1>1. Init => StatusCurrent
  BY DEF Init, StatusCurrent, ComputeStatus
<1>2. TypeOK /\ StatusCurrent /\ [Next]_vars => StatusCurrent'
  <2> SUFFICES ASSUME TypeOK, StatusCurrent, [Next]_vars PROVE StatusCurrent'
    OBVIOUS
  <2> USE DEF actorVars
  <2>1. ASSUME UpdateStatus PROVE StatusCurrent'
    BY <2>1 DEF UpdateStatus, StatusCurrent, ComputeStatus
  <2>2. CASE busy' # "idle"
    BY <2>2 DEF StatusCurrent
  <2>3. CASE UNCHANGED <<staged, preview_playlist_ready, status, busy>>
    BY <2>3 DEF StatusCurrent, ComputeStatus
  <2>4. CASE PreviewExits
    <3>1. /\ staged \in Staged /\ staged # NoStream /\ NoStream \notin Staged
          /\ staged' = [staged EXCEPT !.alive = FALSE]
      BY <2>4, NoStreamAssumption DEF PreviewExits, TypeOK, Staged
    <3>2. /\ staged' # NoStream
          /\ staged'.failed = staged.failed /\ staged'.published = staged.published
      BY <3>1 DEF Staged
    <3> QED
      BY <2>4, <3>1, <3>2 DEF PreviewExits, StatusCurrent, ComputeStatus
  <2> QED
    BY <2>1, <2>2, <2>3, <2>4
       DEF Next, HandleCommand, HealthCheck, Processes, Callers, Stage, StageFails, Refuse,
           Publish, StopBegin, StopFinish, EndBegin, EndRelays, EndFinish, EndOther, HealthRefresh,
           HealthRespawn, HealthRespawnFails, HealthGiveUp, PreviewWritesPlaylist, TakeReply,
           GiveUp, vars
<1> QED
  BY <1>1, <1>2, ActorTypeCorrect, PTL DEF Spec

----------------------------------------------------------------------------
(* The circuit breaker *)

\* What stays true once the breaker is open.
GivenUp ==
  (staged # NoStream /\ staged.failures >= RestartLimit)
    => staged.failed /\ ~staged.alive /\ status = "preview_failed"

LEMMA GivenUpStep ==
  ASSUME TypeOK, GivenUp, [Next]_vars
  PROVE  /\ GivenUp'
         /\ (staged # NoStream /\ staged.failures >= RestartLimit)
              => \/ staged' = NoStream
                 \/ staged'.failures >= RestartLimit /\ status' = "preview_failed"
<1> USE DEF actorVars
<1>0. /\ staged # NoStream => staged \in Staged
      /\ NoStream \notin Staged
  BY NoStreamAssumption DEF TypeOK, Staged
<1>1. ASSUME staged' = NoStream
      PROVE  GivenUp'
  BY <1>1 DEF GivenUp
<1>2. CASE Stage
  <2>1. staged = NoStream /\ staged'.failures = 0
    BY <1>2 DEF Stage
  <2> QED
    BY <2>1, BoundsAssumption DEF GivenUp
<1>3. ASSUME staged' # NoStream, staged # NoStream, staged'.failures = staged.failures,
             staged'.failed = staged.failed, ~staged.alive => ~staged'.alive,
             UpdateStatus \/ UNCHANGED status
      PROVE  /\ GivenUp'
             /\ staged.failures >= RestartLimit
                  => staged'.failures >= RestartLimit /\ status' = "preview_failed"
  BY <1>3 DEF GivenUp, UpdateStatus, ComputeStatus
<1>4. ASSUME NEW targets \in SUBSET Target, Publish(targets)
      PROVE  /\ staged' # NoStream /\ staged # NoStream
             /\ staged'.failures = staged.failures /\ staged'.failed = staged.failed
             /\ staged'.alive = staged.alive /\ UpdateStatus
  BY <1>0, <1>4 DEF Publish, Staged
<1>5. ASSUME StopBegin
      PROVE  /\ staged' # NoStream /\ staged # NoStream
             /\ staged'.failures = staged.failures /\ staged'.failed = staged.failed
             /\ staged'.alive = staged.alive /\ UNCHANGED status
  BY <1>0, <1>5 DEF StopBegin, Staged
<1>6. ASSUME PreviewExits
      PROVE  /\ staged' # NoStream /\ staged # NoStream
             /\ staged'.failures = staged.failures /\ staged'.failed = staged.failed
             /\ ~staged'.alive /\ UNCHANGED status
  BY <1>0, <1>6 DEF PreviewExits, Staged
<1>7. CASE HealthRespawn
  <2>1. /\ staged \in Staged /\ staged.failures < RestartLimit
        /\ staged' = [staged EXCEPT !.alive = TRUE, !.failed = FALSE, !.failures = 0]
    BY <1>0, <1>7 DEF HealthRespawn, PreviewDead
  <2>2. staged'.failures = 0 /\ staged.failures \in Nat
    BY <2>1 DEF Staged
  <2> QED
    BY <2>1, <2>2, BoundsAssumption DEF GivenUp
<1>8. CASE HealthRespawnFails
  <2>1. /\ staged.failures \in Nat /\ staged.failures < RestartLimit
    BY <1>8, FailedRespawn DEF HealthRespawnFails, Staged
  <2>2. status' = "preview_failed"
    BY <1>8, FailedRespawn DEF HealthRespawnFails, UpdateStatus, ComputeStatus
  <2> QED
    BY <1>8, <2>1, <2>2, FailedRespawn, BoundsAssumption DEF GivenUp
<1>9. CASE HealthGiveUp
  <2>1. /\ staged \in Staged /\ ~staged.alive
        /\ staged' = [staged EXCEPT !.failed = TRUE]
    BY <1>0, <1>9 DEF HealthGiveUp, PreviewDead
  <2>2. /\ staged' \in Staged /\ staged'.failures = staged.failures
        /\ staged'.failed /\ ~staged'.alive
    BY <2>1 DEF Staged
  <2>3. status' = "preview_failed"
    BY <1>0, <1>9, <2>2 DEF HealthGiveUp, UpdateStatus, ComputeStatus
  <2> QED
    BY <2>2, <2>3 DEF GivenUp
<1>10. ASSUME UNCHANGED staged, UpdateStatus \/ UNCHANGED status
       PROVE  /\ GivenUp'
              /\ (staged # NoStream /\ staged.failures >= RestartLimit)
                   => staged'.failures >= RestartLimit /\ status' = "preview_failed"
  BY <1>10 DEF GivenUp, UpdateStatus, ComputeStatus
<1>11. ASSUME NEW targets \in SUBSET Target, Publish(targets)
       PROVE  GivenUp'
  BY <1>3, <1>4, <1>11
<1> QED
  BY <1>1, <1>2, <1>3, <1>4, <1>5, <1>6, <1>7, <1>8, <1>9, <1>10
     DEF Next, HandleCommand, HealthCheck, Processes, Callers, StageFails, Refuse,
         StopFinish, EndBegin, EndRelays, EndFinish, EndOther, HealthRefresh, PreviewWritesPlaylist,
         TakeReply, GiveUp, vars

\* Only the end of the stream closes the circuit breaker again.
THEOREM BreakerStaysOpen == Spec => GivenUpUntilNextStage
<1>1. Init => GivenUp
  BY DEF Init, GivenUp
<1> QED
  BY <1>1, GivenUpStep, ActorTypeCorrect, PTL DEF Spec, GivenUpUntilNextStage
=============================================================================
