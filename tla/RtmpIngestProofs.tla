-------------------------- MODULE RtmpIngestProofs --------------------------
(***************************************************************************)
(* Theorems about RtmpIngest for any number of sessions and keys and every *)
(* mailbox capacity: the composed system is a behaviour of the actor, an   *)
(* accepted publisher owns the stage, and teardown is complete.            *)
(*                                                                         *)
(* The argument: a session that was told "ok" has a claim on the stage     *)
(* until it sends its EndStream.  Only the owner of the staged stream can  *)
(* have a claim, and an EndStream in the mailbox means that the owner gave *)
(* its claim up, so no EndStream ever meets somebody else's stream.        *)
(***************************************************************************)
EXTENDS RtmpIngest, StreamActorProofs

PCs == {"connected", "staging", "waiting", "publishing", "rejected", "ending"}

----------------------------------------------------------------------------
(* Types, and the actor inside *)

\* Every step of the sessions and the operator is one the actor allows its
\* callers.
LEMMA IngestStepIsActorStep == IngestTypeOK /\ [IngestNext]_allVars => [Next]_vars
<1> SUFFICES ASSUME IngestTypeOK, [IngestNext]_allVars PROVE [Next]_vars
  OBVIOUS
<1>0. sessionKey \in [Session -> Key]
  BY DEF IngestTypeOK
<1>1. CASE (HandleCommand \/ HealthCheck \/ Processes) /\ UNCHANGED ingestVars
  BY <1>1 DEF Next
<1>2. ASSUME NEW s \in Session, SendStage(s) PROVE [Next]_vars
  <2>1. [type |-> "stage", key |-> sessionKey[s], session |-> s, open |-> TRUE] \in Command
    BY <1>0 DEF Command
  <2> QED
    BY <1>2, <2>1 DEF SendStage, Next, Callers
<1>3. ASSUME NEW s \in Session, SendEnd(s) PROVE [Next]_vars
  <2>1. [type |-> "end", key |-> sessionKey[s]] \in Command
    BY <1>0 DEF Command
  <2> QED
    BY <1>3, <2>1 DEF SendEnd, Next, Callers
<1>4. ASSUME NEW s \in Session, Accept(s) \/ Reject(s) \/ StageTimeout(s) PROVE [Next]_vars
  BY <1>4 DEF Accept, Reject, StageTimeout, Next, Callers
<1>5. ASSUME NEW s \in Session,
             OnPublish(s) \/ OnUnpublish(s) \/ OnDisconnect(s) \/ DisconnectRejected(s)
               \/ EndTimeout(s)
      PROVE  UNCHANGED vars
  BY <1>5 DEF OnPublish, OnUnpublish, OnDisconnect, DisconnectRejected, EndTimeout
<1>6. ASSUME NEW type \in {"publish", "stop"}, Operator(type) PROVE [Next]_vars
  <2>1. [type |-> type] \in Command
    BY DEF Command
  <2> QED
    BY <1>6, <2>1 DEF Operator, Next, Callers
<1>7. ASSUME NEW k \in Key, RotateKey(k) PROVE UNCHANGED vars
  BY <1>7 DEF RotateKey
<1>8. CASE UNCHANGED allVars
  BY <1>8 DEF allVars
<1> QED
  BY <1>1, <1>2, <1>3, <1>4, <1>5, <1>6, <1>7, <1>8 DEF IngestNext, SessionStep

LEMMA IngestTypeStep == IngestTypeOK /\ [IngestNext]_allVars => IngestTypeOK'
<1> SUFFICES ASSUME IngestTypeOK, [IngestNext]_allVars PROVE IngestTypeOK'
  OBVIOUS
<1>1. TypeOK'
  BY IngestStepIsActorStep, TypeStep DEF IngestTypeOK
<1> USE DEF IngestTypeOK
<1>2. CASE UNCHANGED ingestVars
  BY <1>1, <1>2 DEF ingestVars
<1>3. ASSUME NEW s \in Session, SessionStep(s) PROVE IngestTypeOK'
  BY <1>1, <1>3 DEF SessionStep, SendStage, SendEnd, Accept, Reject, StageTimeout, OnPublish,
     OnUnpublish, OnDisconnect, DisconnectRejected, EndTimeout
<1>4. ASSUME NEW k \in Key, RotateKey(k) PROVE IngestTypeOK'
  BY <1>1, <1>4 DEF RotateKey
<1> QED
  BY <1>2, <1>3, <1>4 DEF IngestNext, Operator, allVars

LEMMA InitialTypes == IngestInit => IngestTypeOK
<1> SUFFICES ASSUME IngestInit PROVE IngestTypeOK
  OBVIOUS
<1>1. TypeOK
  BY InitType DEF IngestInit
<1> QED
  BY <1>1 DEF IngestInit, IngestTypeOK

\* The types of the sessions, and with them those of the actor, are invariant.
THEOREM IngestTypeCorrect == IngestSpec => []IngestTypeOK
BY InitialTypes, IngestTypeStep, PTL DEF IngestSpec

\* RTMP sessions and operator are callers like any others: what is proved of
\* the actor under arbitrary callers holds in the composed system.
THEOREM IngestImplementsActor == IngestSpec => Spec
<1>1. IngestInit => Init
  BY DEF IngestInit
<1> QED
  BY <1>1, IngestStepIsActorStep, IngestTypeCorrect, PTL DEF IngestSpec, Spec

----------------------------------------------------------------------------
(* The inductive invariant *)

IsEnd(command) == command.type = "end"
IsStage(command) == command.type = "stage"
IsAwaited(command) == command.type = "stage" /\ command.open

\* A session the actor told "ok" that has not sent its EndStream yet.
Claims(s) ==
  \/ pc[s] \in {"publishing", "ending"}
  \/ pc[s] = "waiting" /\ replies[s] = "ok"

ClaimsOwn ==
  \A s \in Session :
    Claims(s) => staged # NoStream /\ staged.owner = s /\ staged.key = sessionKey[s]

\* An EndStream on its way was sent by the owner, who has no claim any more,
\* and there is one at most.
EndIsOwners ==
  \A i \in 1 .. Len(mailbox) :
    IsEnd(mailbox[i]) =>
      /\ staged # NoStream
      /\ mailbox[i].key = staged.key
      /\ ~Claims(staged.owner)
      /\ \A j \in 1 .. Len(mailbox) : IsEnd(mailbox[j]) => j = i

\* A stage command somebody waits for is the only one of its session.
AwaitedIsOnly ==
  \A i \in 1 .. Len(mailbox) :
    IsAwaited(mailbox[i]) =>
      /\ pc[mailbox[i].session] = "waiting"
      /\ replies[mailbox[i].session] = "none"
      /\ mailbox[i].key = sessionKey[mailbox[i].session]
      /\ \A j \in 1 .. Len(mailbox) :
           (IsAwaited(mailbox[j]) /\ mailbox[j].session = mailbox[i].session) => j = i

RepliesAwaited == \A s \in Session : replies[s] # "none" => pc[s] = "waiting"

MapExact == \A s \in Session : s \in sessions <=> pc[s] = "publishing"

\* As long as no call gave up, commands are awaited and streams have an end.
NothingAbandoned ==
  ~gaveUp =>
    /\ \A i \in 1 .. Len(mailbox) : IsStage(mailbox[i]) => mailbox[i].open
    /\ staged # NoStream =>
         \/ Claims(staged.owner)
         \/ \E i \in 1 .. Len(mailbox) : IsEnd(mailbox[i])

Ownership ==
  /\ ClaimsOwn /\ EndIsOwners /\ AwaitedIsOnly /\ RepliesAwaited /\ MapExact
  /\ NothingAbandoned

----------------------------------------------------------------------------
(* Mailbox steps *)

\* Facts about the mailbox that the type invariant provides.
LEMMA MailboxType ==
  ASSUME IngestTypeOK
  PROVE  /\ mailbox \in Seq(Command) /\ Len(mailbox) \in Nat
         /\ DOMAIN mailbox = 1 .. Len(mailbox)
         /\ \A i \in 1 .. Len(mailbox) :
              /\ mailbox[i] \in Command
              /\ IsStage(mailbox[i]) =>
                   /\ mailbox[i].session \in Session /\ mailbox[i].key \in Key
                   /\ mailbox[i].open \in BOOLEAN
              /\ IsEnd(mailbox[i]) => mailbox[i].key \in Key
<1>1. mailbox \in Seq(Command)
  BY DEF IngestTypeOK, TypeOK
<1>2. /\ Len(mailbox) \in Nat /\ DOMAIN mailbox = 1 .. Len(mailbox)
      /\ \A i \in 1 .. Len(mailbox) : mailbox[i] \in Command
  BY <1>1
<1> QED
  BY <1>1, <1>2, CommandFields DEF IsStage, IsEnd

\* Receiving moves every command but the first one place forward.
LEMMA ReceiveShifts ==
  ASSUME IngestTypeOK, NEW type, Receive(type)
  PROVE  /\ Len(mailbox) >= 1 /\ Len(mailbox') = Len(mailbox) - 1
         /\ mailbox[1] = Head(mailbox) /\ mailbox[1].type = type
         /\ \A i \in 1 .. Len(mailbox') :
              i + 1 \in 1 .. Len(mailbox) /\ mailbox'[i] = mailbox[i + 1]
         /\ \A i \in 1 .. Len(mailbox) :
              i # 1 => i - 1 \in 1 .. Len(mailbox') /\ mailbox'[i - 1] = mailbox[i]
<1>1. mailbox \in Seq(Command) /\ mailbox # <<>> /\ mailbox' = Tail(mailbox)
  BY DEF IngestTypeOK, TypeOK, Receive
<1>2. Head(mailbox).type = type
  BY DEF Receive
<1>3. /\ Len(mailbox) \in Nat /\ Len(mailbox) >= 1 /\ Head(mailbox) = mailbox[1]
      /\ Len(Tail(mailbox)) = Len(mailbox) - 1
      /\ \A i \in 1 .. Len(mailbox) - 1 : Tail(mailbox)[i] = mailbox[i + 1]
  BY <1>1
<1> QED
  BY <1>1, <1>2, <1>3

LEMMA SendAppends ==
  ASSUME IngestTypeOK, NEW command \in Command, Send(command)
  PROVE  /\ Len(mailbox') = Len(mailbox) + 1
         /\ mailbox'[Len(mailbox')] = command
         /\ \A i \in 1 .. Len(mailbox) : mailbox'[i] = mailbox[i]
<1>1. mailbox \in Seq(Command) /\ mailbox' = Append(mailbox, command)
  BY DEF IngestTypeOK, TypeOK, Send
<1> QED
  BY <1>1

----------------------------------------------------------------------------
(* Steps of the actor *)

\* The stream the actor has staged stays the same one.
SameStream ==
  \/ UNCHANGED staged
  \/ /\ staged # NoStream /\ staged' # NoStream
     /\ staged'.key = staged.key /\ staged'.owner = staged.owner

LEMMA OwnerType == ASSUME IngestTypeOK, staged # NoStream PROVE staged.owner \in Session
BY DEF IngestTypeOK, TypeOK, Staged

\* Receiving a command keeps AwaitedIsOnly, if no other session is answered.
LEMMA AwaitedAfterReceive ==
  ASSUME IngestTypeOK, AwaitedIsOnly, NEW type, Receive(type), UNCHANGED <<pc, sessionKey>>,
         \A i \in 1 .. Len(mailbox) :
           (i # 1 /\ IsAwaited(mailbox[i])) =>
             replies'[mailbox[i].session] = replies[mailbox[i].session]
  PROVE  AwaitedIsOnly'
<1> SUFFICES ASSUME NEW i \in 1 .. Len(mailbox'), IsAwaited(mailbox'[i])
             PROVE  /\ pc'[mailbox'[i].session] = "waiting"
                    /\ replies'[mailbox'[i].session] = "none"
                    /\ mailbox'[i].key = sessionKey'[mailbox'[i].session]
                    /\ \A j \in 1 .. Len(mailbox') :
                         (IsAwaited(mailbox'[j])
                           /\ mailbox'[j].session = mailbox'[i].session) => j = i
  BY DEF AwaitedIsOnly, IsAwaited
<1>0. Len(mailbox) \in Nat /\ Len(mailbox') = Len(mailbox) - 1
  BY MailboxType, ReceiveShifts
<1>1. \A j \in 1 .. Len(mailbox') :
        j + 1 \in 1 .. Len(mailbox) /\ mailbox'[j] = mailbox[j + 1]
  BY ReceiveShifts
<1>2. i + 1 \in 1 .. Len(mailbox) /\ mailbox'[i] = mailbox[i + 1] /\ i + 1 # 1
  BY <1>0, <1>1
<1>3. /\ pc[mailbox[i + 1].session] = "waiting"
      /\ replies[mailbox[i + 1].session] = "none"
      /\ mailbox[i + 1].key = sessionKey[mailbox[i + 1].session]
      /\ \A j \in 1 .. Len(mailbox) :
           (IsAwaited(mailbox[j]) /\ mailbox[j].session = mailbox[i + 1].session)
             => j = i + 1
  BY <1>2 DEF AwaitedIsOnly
<1>4. replies'[mailbox[i + 1].session] = replies[mailbox[i + 1].session]
  BY <1>2
<1>5. \A j \in 1 .. Len(mailbox') :
        (IsAwaited(mailbox'[j]) /\ mailbox'[j].session = mailbox'[i].session)
          => j + 1 = i + 1
  BY <1>1, <1>2, <1>3
<1>6. \A j \in 1 .. Len(mailbox') :
        (IsAwaited(mailbox'[j]) /\ mailbox'[j].session = mailbox'[i].session) => j = i
  BY <1>0, <1>5
<1> QED
  BY <1>2, <1>3, <1>4, <1>6

\* Receiving another command keeps the EndStream that is on its way.
LEMMA EndsAfterReceive ==
  ASSUME IngestTypeOK, EndIsOwners, NothingAbandoned, SameStream,
         NEW type, type # "end", Receive(type),
         \A s \in Session : Claims(s)' <=> Claims(s),
         UNCHANGED gaveUp
  PROVE  EndIsOwners' /\ NothingAbandoned'
<1>0. /\ Len(mailbox) \in Nat /\ Len(mailbox') = Len(mailbox) - 1
      /\ ~IsEnd(mailbox[1])
  BY MailboxType, ReceiveShifts DEF IsEnd
<1>1. \A j \in 1 .. Len(mailbox') :
        j + 1 \in 1 .. Len(mailbox) /\ mailbox'[j] = mailbox[j + 1]
  BY ReceiveShifts
<1>2. \A j \in 1 .. Len(mailbox) :
        j # 1 => j - 1 \in 1 .. Len(mailbox') /\ mailbox'[j - 1] = mailbox[j]
  BY ReceiveShifts
<1>3. staged' # NoStream =>
        staged # NoStream /\ staged'.key = staged.key /\ staged'.owner = staged.owner
  BY DEF SameStream
<1>4. staged' # NoStream => (Claims(staged.owner)' <=> Claims(staged.owner))
  BY <1>3, OwnerType DEF Claims
<1>5. EndIsOwners'
  <2> SUFFICES ASSUME NEW i \in 1 .. Len(mailbox'), IsEnd(mailbox'[i])
               PROVE  /\ staged' # NoStream
                      /\ mailbox'[i].key = staged'.key
                      /\ ~Claims(staged.owner)'
                      /\ \A j \in 1 .. Len(mailbox') : IsEnd(mailbox'[j]) => j = i
    BY DEF EndIsOwners, IsEnd
  <2>1. /\ staged # NoStream
        /\ mailbox[i + 1].key = staged.key
        /\ ~Claims(staged.owner)
        /\ \A j \in 1 .. Len(mailbox) : IsEnd(mailbox[j]) => j = i + 1
    BY <1>1 DEF EndIsOwners
  <2>2. \A j \in 1 .. Len(mailbox') : IsEnd(mailbox'[j]) => j + 1 = i + 1
    BY <1>1, <2>1
  <2>3. \A j \in 1 .. Len(mailbox') : IsEnd(mailbox'[j]) => j = i
    BY <1>0, <2>2
  <2>4. staged' # NoStream
    BY <2>1 DEF SameStream
  <2> QED
    BY <1>1, <1>3, <1>4, <2>1, <2>3, <2>4
<1>6. NothingAbandoned'
  <2> SUFFICES ASSUME ~gaveUp
               PROVE  /\ \A i \in 1 .. Len(mailbox') :
                           IsStage(mailbox'[i]) => mailbox'[i].open
                      /\ staged' # NoStream =>
                           \/ Claims(staged.owner)'
                           \/ \E i \in 1 .. Len(mailbox') : IsEnd(mailbox'[i])
    BY DEF NothingAbandoned, IsEnd, IsStage
  <2>1. \A i \in 1 .. Len(mailbox') : IsStage(mailbox'[i]) => mailbox'[i].open
    BY <1>1 DEF NothingAbandoned
  <2>2. ASSUME staged' # NoStream, ~Claims(staged.owner)'
        PROVE  \E i \in 1 .. Len(mailbox') : IsEnd(mailbox'[i])
    <3>1. PICK j \in 1 .. Len(mailbox) : IsEnd(mailbox[j])
      BY <1>3, <1>4, <2>2 DEF NothingAbandoned
    <3>2. j # 1
      BY <1>0, <3>1
    <3> QED
      BY <1>2, <3>1, <3>2
  <2> QED
    BY <2>1, <2>2
<1> QED
  BY <1>5, <1>6

\* Steps that neither end a stream nor answer a session.
LEMMA QuietStep ==
  ASSUME IngestTypeOK, Ownership, SameStream, UNCHANGED <<replies, ingestVars>>,
         \/ UNCHANGED mailbox
         \/ Receive("publish")
         \/ Receive("stop")
  PROVE  Ownership'
<1> USE DEF ingestVars, Ownership
<1>1. \A s \in Session : Claims(s)' <=> Claims(s)
  BY DEF Claims
<1>2. ClaimsOwn'
  BY <1>1 DEF ClaimsOwn, SameStream
<1>3. RepliesAwaited' /\ MapExact'
  BY DEF RepliesAwaited, MapExact
<1>4. CASE UNCHANGED mailbox
  <2>1. EndIsOwners'
    BY <1>1, <1>4, OwnerType DEF EndIsOwners, SameStream
  <2>2. AwaitedIsOnly'
    BY <1>4 DEF AwaitedIsOnly
  <2>3. NothingAbandoned'
    BY <1>1, <1>4, OwnerType DEF NothingAbandoned, SameStream
  <2> QED
    BY <1>2, <1>3, <2>1, <2>2, <2>3
<1>5. ASSUME NEW type \in {"publish", "stop"}, Receive(type) PROVE Ownership'
  <2>1. EndIsOwners' /\ NothingAbandoned'
    BY <1>1, <1>5, EndsAfterReceive
  <2>2. AwaitedIsOnly'
    BY <1>5, AwaitedAfterReceive
  <2> QED
    BY <1>2, <1>3, <2>1, <2>2
<1> QED
  BY <1>4, <1>5

\* A stream is staged only when nobody has a claim, for the session that is
\* told so, if it still waits.
LEMMA StageStep ==
  ASSUME IngestTypeOK, Ownership, Stage, UNCHANGED ingestVars
  PROVE  Ownership'
<1> USE DEF ingestVars, Ownership
<1> DEFINE command == mailbox[1]
<1>0. /\ Len(mailbox) \in Nat /\ Len(mailbox) >= 1
      /\ command = Head(mailbox) /\ IsStage(command) /\ Receive("stage")
  BY MailboxType, ReceiveShifts DEF Stage, IsStage
<1>1. command.session \in Session /\ command.key \in Key /\ command.open \in BOOLEAN
  BY <1>0, MailboxType
<1>2. /\ staged = NoStream /\ staged' # NoStream
      /\ staged'.key = command.key /\ staged'.owner = command.session
  <2>1. staged' = [key |-> command.key, owner |-> command.session, alive |-> TRUE,
                   failed |-> FALSE, published |-> FALSE, failures |-> 0]
    BY <1>0 DEF Stage
  <2>2. staged' \in Staged /\ NoStream \notin Staged
    BY <1>1, <2>1, NoStreamAssumption DEF Staged
  <2>3. staged = NoStream
    BY DEF Stage
  <2> QED
    BY <2>1, <2>2, <2>3
<1>3. /\ \A s \in Session : ~Claims(s)
      /\ \A i \in 1 .. Len(mailbox) : ~IsEnd(mailbox[i])
  BY <1>2 DEF ClaimsOwn, EndIsOwners
<1>4. replies' = IF command.open THEN [replies EXCEPT ![command.session] = "ok"] ELSE replies
  BY <1>0 DEF Stage, Reply
<1>5. replies \in [Session -> {"none", "ok", "err"}]
  BY DEF IngestTypeOK, TypeOK
<1>6. command.open =>
        /\ pc[command.session] = "waiting"
        /\ command.key = sessionKey[command.session]
        /\ \A j \in 1 .. Len(mailbox) :
             (IsAwaited(mailbox[j]) /\ mailbox[j].session = command.session) => j = 1
  BY <1>0 DEF AwaitedIsOnly, IsAwaited, IsStage
<1> HIDE DEF command
<1>7. ClaimsOwn'
  <2> SUFFICES ASSUME NEW s \in Session, Claims(s)'
               PROVE  staged' # NoStream /\ staged'.owner = s /\ staged'.key = sessionKey'[s]
    BY DEF ClaimsOwn
  <2>1. command.open /\ s = command.session
    BY <1>1, <1>3, <1>4, <1>5 DEF Claims
  <2> QED
    BY <1>2, <1>6, <2>1
<1>8. EndIsOwners'
  <2>1. \A i \in 1 .. Len(mailbox') :
          i + 1 \in 1 .. Len(mailbox) /\ mailbox'[i] = mailbox[i + 1]
    BY <1>0, ReceiveShifts
  <2> QED
    BY <1>3, <2>1 DEF EndIsOwners
<1>9. AwaitedIsOnly'
  <2>1. \A i \in 1 .. Len(mailbox) :
          (i # 1 /\ IsAwaited(mailbox[i])) =>
            replies'[mailbox[i].session] = replies[mailbox[i].session]
    BY <1>1, <1>4, <1>5, <1>6, MailboxType
  <2> QED
    BY <1>0, <2>1, AwaitedAfterReceive
<1>10. RepliesAwaited' /\ MapExact'
  BY <1>1, <1>4, <1>5, <1>6 DEF RepliesAwaited, MapExact
<1>11. NothingAbandoned'
  <2>1. \A i \in 1 .. Len(mailbox') :
          i + 1 \in 1 .. Len(mailbox) /\ mailbox'[i] = mailbox[i + 1]
    BY <1>0, ReceiveShifts
  <2>2. ~gaveUp => command.open
    BY <1>0 DEF NothingAbandoned, command
  <2>3. command.open => Claims(staged.owner)'
    BY <1>1, <1>2, <1>4, <1>5, <1>6 DEF Claims
  <2> QED
    BY <2>1, <2>2, <2>3 DEF NothingAbandoned
<1> QED
  BY <1>7, <1>8, <1>9, <1>10, <1>11

\* A refused session has no claim.
LEMMA StageFailsStep ==
  ASSUME IngestTypeOK, Ownership, StageFails, UNCHANGED ingestVars
  PROVE  Ownership'
<1> USE DEF ingestVars, Ownership
<1> DEFINE command == mailbox[1]
<1>0. /\ Len(mailbox) \in Nat /\ Len(mailbox) >= 1
      /\ command = Head(mailbox) /\ IsStage(command) /\ Receive("stage")
  BY MailboxType, ReceiveShifts DEF StageFails, IsStage
<1>1. command.session \in Session /\ command.open \in BOOLEAN
  BY <1>0, MailboxType
<1>2. UNCHANGED staged
  BY DEF StageFails, actorVars
<1>3. replies' = IF command.open THEN [replies EXCEPT ![command.session] = "err"] ELSE replies
  BY <1>0 DEF StageFails, Reply
<1>4. replies \in [Session -> {"none", "ok", "err"}]
  BY DEF IngestTypeOK, TypeOK
<1>5. command.open =>
        /\ pc[command.session] = "waiting" /\ replies[command.session] = "none"
        /\ \A j \in 1 .. Len(mailbox) :
             (IsAwaited(mailbox[j]) /\ mailbox[j].session = command.session) => j = 1
  BY <1>0 DEF AwaitedIsOnly, IsAwaited, IsStage
<1> HIDE DEF command
<1>6. \A s \in Session : Claims(s)' <=> Claims(s)
  BY <1>1, <1>3, <1>4, <1>5 DEF Claims
<1>7. ClaimsOwn'
  BY <1>2, <1>6 DEF ClaimsOwn
<1>8. EndIsOwners' /\ NothingAbandoned'
  BY <1>0, <1>2, <1>6, EndsAfterReceive DEF SameStream
<1>9. AwaitedIsOnly'
  <2>1. \A i \in 1 .. Len(mailbox) :
          (i # 1 /\ IsAwaited(mailbox[i])) =>
            replies'[mailbox[i].session] = replies[mailbox[i].session]
    BY <1>1, <1>3, <1>4, <1>5, MailboxType
  <2> QED
    BY <1>0, <2>1, AwaitedAfterReceive
<1>10. RepliesAwaited' /\ MapExact'
  BY <1>1, <1>3, <1>4, <1>5 DEF RepliesAwaited, MapExact
<1> QED
  BY <1>7, <1>8, <1>9, <1>10

\* An EndStream meets the stream of the session that sent it, and nobody has a
\* claim on it any more.
LEMMA EndIsCurrent ==
  ASSUME IngestTypeOK, Ownership, Receive("end")
  PROVE  /\ IsCurrent(Head(mailbox).key)
         /\ \A s \in Session : ~Claims(s)
         /\ \A i \in 1 .. Len(mailbox') : ~IsEnd(mailbox'[i])
<1>1. /\ Len(mailbox) \in Nat /\ Len(mailbox) >= 1
      /\ mailbox[1] = Head(mailbox) /\ IsEnd(mailbox[1])
  BY MailboxType, ReceiveShifts DEF IsEnd
<1>2. /\ staged # NoStream /\ mailbox[1].key = staged.key /\ ~Claims(staged.owner)
      /\ \A j \in 1 .. Len(mailbox) : IsEnd(mailbox[j]) => j = 1
  BY <1>1 DEF Ownership, EndIsOwners
<1>3. \A s \in Session : ~Claims(s)
  BY <1>2 DEF Ownership, ClaimsOwn
<1>4. \A i \in 1 .. Len(mailbox') :
        i + 1 \in 1 .. Len(mailbox) /\ mailbox'[i] = mailbox[i + 1]
  BY ReceiveShifts
<1>5. \A i \in 1 .. Len(mailbox') : ~IsEnd(mailbox'[i])
  <2> SUFFICES ASSUME NEW i \in 1 .. Len(mailbox'), IsEnd(mailbox'[i]) PROVE FALSE
    OBVIOUS
  <2>1. i + 1 = 1
    BY <1>2, <1>4
  <2> QED
    BY <2>1
<1> QED
  BY <1>1, <1>2, <1>3, <1>5 DEF IsCurrent

LEMMA EndBeginStep ==
  ASSUME IngestTypeOK, Ownership, EndBegin, UNCHANGED ingestVars
  PROVE  Ownership'
<1> USE DEF ingestVars, Ownership
<1>0. Receive("end") /\ staged' = NoStream /\ UNCHANGED replies
  BY DEF EndBegin
<1>1. /\ \A s \in Session : ~Claims(s)
      /\ \A i \in 1 .. Len(mailbox') : ~IsEnd(mailbox'[i])
  BY <1>0, EndIsCurrent
<1>2. ClaimsOwn'
  BY <1>0, <1>1 DEF ClaimsOwn, Claims
<1>3. EndIsOwners'
  BY <1>1 DEF EndIsOwners, IsEnd
<1>4. AwaitedIsOnly'
  BY <1>0, AwaitedAfterReceive
<1>5. RepliesAwaited' /\ MapExact'
  BY <1>0 DEF RepliesAwaited, MapExact
<1>6. NothingAbandoned'
  <2>1. \A i \in 1 .. Len(mailbox') :
          i + 1 \in 1 .. Len(mailbox) /\ mailbox'[i] = mailbox[i + 1]
    BY <1>0, ReceiveShifts
  <2> QED
    BY <1>0, <2>1 DEF NothingAbandoned
<1> QED
  BY <1>2, <1>3, <1>4, <1>5, <1>6

\* Every step of the actor and its processes.
LEMMA ActorKeepsOwnership ==
  ASSUME IngestTypeOK, Ownership, HandleCommand \/ HealthCheck \/ Processes,
         UNCHANGED ingestVars
  PROVE  Ownership'
<1>0. /\ staged # NoStream => staged \in Staged
      /\ NoStream \notin Staged
  BY NoStreamAssumption DEF IngestTypeOK, TypeOK, Staged
<1>1. CASE Stage
  BY <1>1, StageStep
<1>2. CASE StageFails
  BY <1>2, StageFailsStep
<1>3. CASE EndBegin
  BY <1>3, EndBeginStep
<1>4. CASE EndOther
  BY <1>4, EndIsCurrent DEF EndOther
<1>5. CASE Refuse
  BY <1>5, QuietStep DEF Refuse, SameStream, actorVars
<1>6. ASSUME NEW targets \in SUBSET Target, Publish(targets) PROVE Ownership'
  <2>1. SameStream
    BY <1>0, <1>6 DEF Publish, SameStream, Staged
  <2> QED
    BY <1>6, <2>1, QuietStep DEF Publish
<1>7. CASE StopBegin
  <2>1. SameStream
    BY <1>0, <1>7 DEF StopBegin, SameStream, Staged
  <2> QED
    BY <1>7, <2>1, QuietStep DEF StopBegin
<1>8. CASE StopFinish \/ EndRelays \/ EndFinish \/ HealthRefresh \/ PreviewWritesPlaylist
  BY <1>8, QuietStep DEF StopFinish, EndRelays, EndFinish, HealthRefresh, PreviewWritesPlaylist, SameStream
<1>9. CASE HealthRespawn \/ HealthGiveUp \/ PreviewExits
  <2>1. /\ staged # NoStream
        /\ \/ staged' = [staged EXCEPT !.alive = TRUE, !.failed = FALSE, !.failures = 0]
           \/ staged' = [staged EXCEPT !.failed = TRUE]
           \/ staged' = [staged EXCEPT !.alive = FALSE]
    BY <1>9 DEF HealthRespawn, HealthGiveUp, PreviewExits, PreviewDead
  <2>2. staged \in Staged
    BY <1>0, <2>1
  <2>3. staged' \in Staged /\ staged'.key = staged.key /\ staged'.owner = staged.owner
    <3>1. CASE staged' = [staged EXCEPT !.alive = TRUE, !.failed = FALSE, !.failures = 0]
      BY <2>2, <3>1 DEF Staged
    <3>2. CASE staged' = [staged EXCEPT !.failed = TRUE]
      BY <2>2, <3>2 DEF Staged
    <3>3. CASE staged' = [staged EXCEPT !.alive = FALSE]
      BY <2>2, <3>3 DEF Staged
    <3> QED
      BY <2>1, <3>1, <3>2, <3>3
  <2>4. SameStream
    BY <1>0, <2>1, <2>3 DEF SameStream
  <2> QED
    BY <1>9, <2>4, QuietStep DEF HealthRespawn, HealthGiveUp, PreviewExits
<1>10. CASE HealthRespawnFails
  <2>1. SameStream
    BY <1>10, FailedRespawn DEF SameStream, IngestTypeOK
  <2> QED
    BY <1>10, <2>1, QuietStep DEF HealthRespawnFails
<1> QED
  BY <1>1, <1>2, <1>3, <1>4, <1>5, <1>6, <1>7, <1>8, <1>9, <1>10
     DEF HandleCommand, HealthCheck, Processes

----------------------------------------------------------------------------
(* Steps of the sessions and the operator *)

\* Nobody waits for a command of a session that is not waiting itself.
LEMMA AwaitedWaits ==
  ASSUME IngestTypeOK, Ownership, NEW i \in 1 .. Len(mailbox), IsAwaited(mailbox[i])
  PROVE  /\ mailbox[i].session \in Session
         /\ pc[mailbox[i].session] = "waiting" /\ replies[mailbox[i].session] = "none"
BY MailboxType DEF Ownership, AwaitedIsOnly, IsAwaited, IsStage

\* A callback of s that leaves the mailbox and the stage alone: s may lose its
\* claim only by giving up, and no command of s is awaited.
LEMMA CallbackStep ==
  ASSUME IngestTypeOK, Ownership, NEW s \in Session,
         UNCHANGED <<mailbox, staged>>,
         pc[s] # "waiting" \/ replies[s] # "none",
         pc' = [pc EXCEPT ![s] = pc'[s]],
         replies' = [replies EXCEPT ![s] = replies'[s]],
         sessionKey' = [sessionKey EXCEPT ![s] = sessionKey'[s]],
         Claims(s)' => Claims(s) /\ sessionKey'[s] = sessionKey[s],
         ~gaveUp' => ~gaveUp /\ (Claims(s) => Claims(s)')
  PROVE  ClaimsOwn' /\ EndIsOwners' /\ AwaitedIsOnly' /\ NothingAbandoned'
<1>0. /\ pc \in [Session -> PCs] /\ sessionKey \in [Session -> Key]
      /\ replies \in [Session -> {"none", "ok", "err"}]
  BY DEF IngestTypeOK, TypeOK, PCs
<1>1. \A t \in Session \ {s} :
        pc'[t] = pc[t] /\ replies'[t] = replies[t] /\ sessionKey'[t] = sessionKey[t]
  BY <1>0
<1>2. \A t \in Session : Claims(t)' => Claims(t) /\ sessionKey'[t] = sessionKey[t]
  BY <1>1 DEF Claims
<1>3. \A t \in Session : ~gaveUp' => (Claims(t) => Claims(t)')
  BY <1>1 DEF Claims
<1>4. ClaimsOwn'
  BY <1>2 DEF Ownership, ClaimsOwn
<1>5. staged # NoStream => (Claims(staged.owner)' => Claims(staged.owner))
  BY <1>2, OwnerType DEF Claims
<1>6. EndIsOwners'
  BY <1>5 DEF Ownership, EndIsOwners
<1>7. staged # NoStream /\ ~gaveUp' => (Claims(staged.owner) => Claims(staged.owner)')
  BY <1>3, OwnerType DEF Claims
<1>8. NothingAbandoned'
  BY <1>7 DEF Ownership, NothingAbandoned
<1>9. AwaitedIsOnly'
  <2>1. \A i \in 1 .. Len(mailbox) :
          IsAwaited(mailbox[i]) => mailbox[i].session \in Session \ {s}
    BY AwaitedWaits
  <2> QED
    BY <1>1, <2>1 DEF Ownership, AwaitedIsOnly, IsAwaited
<1> QED
  BY <1>4, <1>6, <1>8, <1>9

LEMMA CallbacksKeepOwnership ==
  ASSUME IngestTypeOK, Ownership, NEW s \in Session,
         \/ OnPublish(s) \/ Accept(s) \/ Reject(s) \/ OnUnpublish(s)
         \/ OnDisconnect(s) \/ DisconnectRejected(s) \/ EndTimeout(s)
  PROVE  Ownership'
<1>0. /\ pc \in [Session -> PCs] /\ sessionKey \in [Session -> Key]
      /\ replies \in [Session -> {"none", "ok", "err"}] /\ sessions \subseteq Session
  BY DEF IngestTypeOK, TypeOK, PCs
<1>1. RepliesAwaited /\ MapExact
  BY DEF Ownership
<1>2. /\ UNCHANGED <<mailbox, staged>>
      /\ pc[s] # "waiting" \/ replies[s] # "none"
      /\ pc' = [pc EXCEPT ![s] = pc'[s]]
      /\ replies' = [replies EXCEPT ![s] = replies'[s]]
      /\ sessionKey' = [sessionKey EXCEPT ![s] = sessionKey'[s]]
  BY <1>0 DEF OnPublish, Accept, Reject, OnUnpublish, OnDisconnect, DisconnectRejected,
     EndTimeout, TakeReply, vars, actorVars
<1>3. CASE OnPublish(s) \/ DisconnectRejected(s)
  <2>1. ~Claims(s)' /\ ~Claims(s) /\ UNCHANGED gaveUp
    BY <1>0, <1>3 DEF OnPublish, DisconnectRejected, Claims, vars
  <2>2. RepliesAwaited' /\ MapExact'
    BY <1>0, <1>1, <1>3 DEF OnPublish, DisconnectRejected, RepliesAwaited, MapExact, vars
  <2> QED
    BY <1>2, <2>1, <2>2, CallbackStep DEF Ownership
<1>4. CASE Accept(s)
  <2>1. Claims(s) /\ Claims(s)' /\ UNCHANGED <<gaveUp, sessionKey>>
    BY <1>0, <1>4 DEF Accept, Claims
  <2>2. RepliesAwaited' /\ MapExact'
    BY <1>0, <1>1, <1>4 DEF Accept, TakeReply, RepliesAwaited, MapExact
  <2> QED
    BY <1>2, <2>1, <2>2, CallbackStep DEF Ownership
<1>5. CASE Reject(s)
  <2>1. ~Claims(s) /\ ~Claims(s)' /\ UNCHANGED gaveUp
    BY <1>0, <1>5 DEF Reject, Claims
  <2>2. RepliesAwaited' /\ MapExact'
    BY <1>0, <1>1, <1>5 DEF Reject, TakeReply, RepliesAwaited, MapExact
  <2> QED
    BY <1>2, <2>1, <2>2, CallbackStep DEF Ownership
<1>6. CASE OnUnpublish(s) \/ OnDisconnect(s)
  <2>1. /\ pc[s] = "publishing" /\ pc' = [pc EXCEPT ![s] = "ending"]
        /\ sessions' = sessions \ {s} /\ UNCHANGED <<sessionKey, gaveUp, replies>>
    BY <1>1, <1>6 DEF OnUnpublish, OnDisconnect, MapExact, vars
  <2>2. Claims(s) /\ Claims(s)'
    BY <1>0, <2>1 DEF Claims
  <2>3. RepliesAwaited' /\ MapExact'
    BY <1>0, <1>1, <2>1 DEF RepliesAwaited, MapExact
  <2> QED
    BY <1>2, <2>1, <2>2, <2>3, CallbackStep DEF Ownership
<1>7. CASE EndTimeout(s)
  <2>1. ~Claims(s)' /\ gaveUp'
    BY <1>0, <1>7 DEF EndTimeout, Claims
  <2>2. RepliesAwaited' /\ MapExact'
    BY <1>0, <1>1, <1>7 DEF EndTimeout, RepliesAwaited, MapExact, vars
  <2> QED
    BY <1>2, <2>1, <2>2, CallbackStep DEF Ownership
<1> QED
  BY <1>3, <1>4, <1>5, <1>6, <1>7

\* A session without a claim asks for the stage.
LEMMA SendStageStep ==
  ASSUME IngestTypeOK, Ownership, NEW s \in Session, SendStage(s)
  PROVE  Ownership'
<1> DEFINE command == [type |-> "stage", key |-> sessionKey[s], session |-> s, open |-> TRUE]
<1>0. /\ pc \in [Session -> PCs] /\ sessionKey \in [Session -> Key]
      /\ Len(mailbox) \in Nat
  BY MailboxType DEF IngestTypeOK, PCs
<1>1. /\ UNCHANGED <<staged, replies, sessionKey, sessions, gaveUp>>
      /\ pc[s] = "staging" /\ pc' = [pc EXCEPT ![s] = "waiting"] /\ Send(command)
  BY DEF SendStage, actorVars
<1>2. command \in Command /\ command.open /\ command.session = s
      /\ command.key = sessionKey[s] /\ IsAwaited(command) /\ ~IsEnd(command)
  BY <1>0 DEF Command, IsAwaited, IsEnd
<1> HIDE DEF command
<1>3. /\ Len(mailbox') = Len(mailbox) + 1 /\ mailbox'[Len(mailbox')] = command
      /\ \A i \in 1 .. Len(mailbox) : mailbox'[i] = mailbox[i]
  BY <1>1, <1>2, SendAppends
<1>4. \A i \in 1 .. Len(mailbox') :
        \/ i \in 1 .. Len(mailbox) /\ mailbox'[i] = mailbox[i]
        \/ i = Len(mailbox') /\ mailbox'[i] = command
  BY <1>0, <1>3
<1>5. 1 .. Len(mailbox) \subseteq 1 .. Len(mailbox')
  BY <1>0, <1>3
<1>6. replies[s] = "none"
  BY <1>1 DEF Ownership, RepliesAwaited
<1>7. \A t \in Session : Claims(t)' <=> Claims(t)
  BY <1>0, <1>1, <1>6 DEF Claims
<1>8. ClaimsOwn'
  BY <1>1, <1>7 DEF Ownership, ClaimsOwn
<1>9. staged # NoStream => (Claims(staged.owner)' <=> Claims(staged.owner))
  BY <1>1, <1>7, OwnerType DEF Claims
<1>10. EndIsOwners'
  BY <1>1, <1>2, <1>4, <1>9 DEF Ownership, EndIsOwners
<1>11. NothingAbandoned'
  <2>1. ~gaveUp => \A i \in 1 .. Len(mailbox') : IsStage(mailbox'[i]) => mailbox'[i].open
    BY <1>2, <1>4 DEF Ownership, NothingAbandoned
  <2>2. ~gaveUp /\ staged # NoStream =>
          \/ Claims(staged.owner)'
          \/ \E i \in 1 .. Len(mailbox') : IsEnd(mailbox'[i])
    BY <1>3, <1>5, <1>9 DEF Ownership, NothingAbandoned
  <2> QED
    BY <1>1, <2>1, <2>2 DEF NothingAbandoned, IsStage, IsEnd
<1>12. AwaitedIsOnly'
  <2>1. \A i \in 1 .. Len(mailbox) :
          IsAwaited(mailbox[i]) => mailbox[i].session \in Session \ {s}
    BY <1>1, AwaitedWaits
  <2>2. ASSUME NEW i \in 1 .. Len(mailbox'), IsAwaited(mailbox'[i]),
               i \in 1 .. Len(mailbox), mailbox'[i] = mailbox[i]
        PROVE  /\ pc'[mailbox'[i].session] = "waiting"
               /\ replies'[mailbox'[i].session] = "none"
               /\ mailbox'[i].key = sessionKey'[mailbox'[i].session]
               /\ \A j \in 1 .. Len(mailbox') :
                    (IsAwaited(mailbox'[j]) /\ mailbox'[j].session = mailbox'[i].session)
                      => j = i
    BY <1>0, <1>1, <1>2, <1>4, <2>1, <2>2 DEF Ownership, AwaitedIsOnly
  <2>3. ASSUME NEW i \in 1 .. Len(mailbox'), i = Len(mailbox'), mailbox'[i] = command
        PROVE  /\ pc'[mailbox'[i].session] = "waiting"
               /\ replies'[mailbox'[i].session] = "none"
               /\ mailbox'[i].key = sessionKey'[mailbox'[i].session]
               /\ \A j \in 1 .. Len(mailbox') :
                    (IsAwaited(mailbox'[j]) /\ mailbox'[j].session = mailbox'[i].session)
                      => j = i
    BY <1>0, <1>1, <1>2, <1>4, <1>6, <2>1, <2>3
  <2> QED
    BY <1>4, <2>2, <2>3 DEF AwaitedIsOnly, IsAwaited
<1>13. RepliesAwaited' /\ MapExact'
  BY <1>0, <1>1 DEF Ownership, RepliesAwaited, MapExact
<1> QED
  BY <1>8, <1>10, <1>11, <1>12, <1>13 DEF Ownership

\* A command that is no stage command leaves the awaited ones alone.
LEMMA AwaitedAfterSend ==
  ASSUME IngestTypeOK, AwaitedIsOnly, NEW command \in Command, Send(command),
         ~IsStage(command), UNCHANGED <<replies, sessionKey>>,
         \A t \in Session : pc[t] = "waiting" => pc'[t] = "waiting"
  PROVE  AwaitedIsOnly'
<1>1. /\ Len(mailbox) \in Nat /\ Len(mailbox') = Len(mailbox) + 1
      /\ mailbox'[Len(mailbox')] = command
      /\ \A i \in 1 .. Len(mailbox) : mailbox'[i] = mailbox[i]
  BY SendAppends, MailboxType
<1>2. \A i \in 1 .. Len(mailbox') :
        IsAwaited(mailbox'[i]) =>
          i \in 1 .. Len(mailbox) /\ mailbox'[i] = mailbox[i] /\ IsAwaited(mailbox[i])
  BY <1>1 DEF IsAwaited, IsStage
<1>3. \A i \in 1 .. Len(mailbox) : IsAwaited(mailbox[i]) => mailbox[i].session \in Session
  BY MailboxType DEF IsAwaited, IsStage
<1> QED
  BY <1>2, <1>3 DEF AwaitedIsOnly, IsAwaited

\* The owner gives its claim up with its EndStream, the only one there is.
LEMMA SendEndStep ==
  ASSUME IngestTypeOK, Ownership, NEW s \in Session, SendEnd(s)
  PROVE  Ownership'
<1> DEFINE command == [type |-> "end", key |-> sessionKey[s]]
<1>0. /\ pc \in [Session -> PCs] /\ sessionKey \in [Session -> Key]
      /\ Len(mailbox) \in Nat
  BY MailboxType DEF IngestTypeOK, PCs
<1>1. /\ UNCHANGED <<staged, replies, sessionKey, sessions, gaveUp>>
      /\ pc[s] = "ending" /\ pc' = [pc EXCEPT ![s] = "connected"] /\ Send(command)
  BY DEF SendEnd, actorVars
<1>2. command \in Command /\ command.key = sessionKey[s]
      /\ IsEnd(command) /\ ~IsStage(command)
  BY <1>0 DEF Command, IsStage, IsEnd
<1> HIDE DEF command
<1>3. /\ Len(mailbox') = Len(mailbox) + 1 /\ mailbox'[Len(mailbox')] = command
      /\ \A i \in 1 .. Len(mailbox) : mailbox'[i] = mailbox[i]
  BY <1>1, <1>2, SendAppends
<1>4. \A i \in 1 .. Len(mailbox') :
        \/ i \in 1 .. Len(mailbox) /\ mailbox'[i] = mailbox[i]
        \/ i = Len(mailbox') /\ mailbox'[i] = command
  BY <1>0, <1>3
<1>5. /\ staged # NoStream /\ staged.owner = s /\ staged.key = sessionKey[s]
      /\ Claims(s) /\ ~Claims(s)'
  BY <1>0, <1>1 DEF Ownership, ClaimsOwn, Claims
<1>6. ClaimsOwn'
  BY <1>0, <1>1, <1>5 DEF Ownership, ClaimsOwn, Claims
<1>7. \A i \in 1 .. Len(mailbox) : ~IsEnd(mailbox[i])
  BY <1>5 DEF Ownership, EndIsOwners
<1>8. \A i \in 1 .. Len(mailbox') : IsEnd(mailbox'[i]) => i = Len(mailbox')
  BY <1>4, <1>7
<1>9. EndIsOwners'
  <2> SUFFICES ASSUME NEW i \in 1 .. Len(mailbox'), IsEnd(mailbox'[i])
               PROVE  /\ staged' # NoStream /\ mailbox'[i].key = staged'.key
                      /\ ~Claims(staged.owner)'
                      /\ \A j \in 1 .. Len(mailbox') : IsEnd(mailbox'[j]) => j = i
    BY DEF EndIsOwners, IsEnd
  <2>1. mailbox'[i] = command
    BY <1>3, <1>8
  <2>2. ~Claims(staged.owner)'
    BY <1>1, <1>5 DEF Claims
  <2> QED
    BY <1>1, <1>2, <1>5, <1>8, <2>1, <2>2
<1>10. NothingAbandoned'
  <2>1. ~gaveUp => \A i \in 1 .. Len(mailbox') : IsStage(mailbox'[i]) => mailbox'[i].open
    BY <1>2, <1>4 DEF Ownership, NothingAbandoned
  <2>2. Len(mailbox') \in 1 .. Len(mailbox') /\ IsEnd(mailbox'[Len(mailbox')])
    BY <1>0, <1>2, <1>3
  <2> QED
    BY <1>1, <2>1, <2>2 DEF NothingAbandoned, IsStage, IsEnd
<1>11. AwaitedIsOnly'
  BY <1>0, <1>1, <1>2, AwaitedAfterSend DEF Ownership
<1>12. RepliesAwaited' /\ MapExact'
  BY <1>0, <1>1 DEF Ownership, RepliesAwaited, MapExact
<1> QED
  BY <1>6, <1>9, <1>10, <1>11, <1>12 DEF Ownership

\* publish_stream and stop_publishing touch nobody's claim.
LEMMA OperatorStep ==
  ASSUME IngestTypeOK, Ownership, NEW type \in {"publish", "stop"}, Operator(type)
  PROVE  Ownership'
<1> DEFINE command == [type |-> type]
<1>1. /\ UNCHANGED <<staged, replies, pc, sessionKey, sessions, gaveUp>> /\ Send(command)
  BY DEF Operator, actorVars, ingestVars
<1>2. command \in Command /\ ~IsEnd(command) /\ ~IsStage(command)
  BY DEF Command, IsStage, IsEnd
<1> HIDE DEF command
<1>3. /\ Len(mailbox) \in Nat /\ Len(mailbox') = Len(mailbox) + 1
      /\ mailbox'[Len(mailbox')] = command
      /\ \A i \in 1 .. Len(mailbox) : mailbox'[i] = mailbox[i]
  BY <1>1, <1>2, SendAppends, MailboxType
<1>4. \A i \in 1 .. Len(mailbox') :
        \/ i \in 1 .. Len(mailbox) /\ mailbox'[i] = mailbox[i]
        \/ ~IsEnd(mailbox'[i]) /\ ~IsStage(mailbox'[i])
  BY <1>2, <1>3
<1>5. 1 .. Len(mailbox) \subseteq 1 .. Len(mailbox')
  BY <1>3
<1>6. ClaimsOwn' /\ RepliesAwaited' /\ MapExact'
  BY <1>1 DEF Ownership, ClaimsOwn, Claims, RepliesAwaited, MapExact
<1>7. Claims(staged.owner)' <=> Claims(staged.owner)
  BY <1>1 DEF Claims
<1>8. EndIsOwners'
  BY <1>1, <1>4, <1>7 DEF Ownership, EndIsOwners
<1>9. NothingAbandoned'
  <2>1. ~gaveUp => \A i \in 1 .. Len(mailbox') : IsStage(mailbox'[i]) => mailbox'[i].open
    BY <1>4 DEF Ownership, NothingAbandoned
  <2>2. ~gaveUp /\ staged # NoStream =>
          \/ Claims(staged.owner)'
          \/ \E i \in 1 .. Len(mailbox') : IsEnd(mailbox'[i])
    BY <1>3, <1>5, <1>7 DEF Ownership, NothingAbandoned
  <2> QED
    BY <1>1, <2>1, <2>2 DEF NothingAbandoned, IsStage, IsEnd
<1>10. AwaitedIsOnly'
  BY <1>1, <1>2, AwaitedAfterSend DEF Ownership
<1> QED
  BY <1>6, <1>8, <1>9, <1>10 DEF Ownership

\* Giving up closes the command of the session, wherever it is by then.
LEMMA StageTimeoutStep ==
  ASSUME IngestTypeOK, Ownership, NEW s \in Session, StageTimeout(s)
  PROVE  Ownership'
<1>0. /\ pc \in [Session -> PCs]
      /\ mailbox \in Seq(Command) /\ Len(mailbox) \in Nat /\ DOMAIN mailbox = 1 .. Len(mailbox)
  BY MailboxType DEF IngestTypeOK, PCs
<1>1. /\ UNCHANGED <<staged, replies, sessionKey, sessions>> /\ gaveUp' = TRUE
      /\ pc[s] = "waiting" /\ pc' = [pc EXCEPT ![s] = "rejected"] /\ replies[s] = "none"
      /\ mailbox' = [i \in DOMAIN mailbox |->
                       IF mailbox[i].type = "stage" /\ mailbox[i].session = s
                       THEN [mailbox[i] EXCEPT !.open = FALSE]
                       ELSE mailbox[i]]
  BY DEF StageTimeout, GiveUp, actorVars
<1>2. mailbox' \in Seq(Command)
  BY IngestTypeStep DEF IngestNext, SessionStep, IngestTypeOK, TypeOK
<1>3. 1 .. Len(mailbox') = 1 .. Len(mailbox)
  <2>1. DOMAIN mailbox' = DOMAIN mailbox
    BY <1>1
  <2> QED
    BY <1>0, <1>2, <2>1
<1>4. \A i \in 1 .. Len(mailbox) :
        \/ mailbox'[i] = mailbox[i] /\ ~(IsStage(mailbox[i]) /\ mailbox[i].session = s)
        \/ IsStage(mailbox[i]) /\ mailbox'[i] = [mailbox[i] EXCEPT !.open = FALSE]
  BY <1>0, <1>1 DEF IsStage
<1>5. \A i \in 1 .. Len(mailbox) :
        IsStage(mailbox[i]) /\ mailbox'[i] = [mailbox[i] EXCEPT !.open = FALSE] =>
          IsStage(mailbox'[i]) /\ ~mailbox'[i].open
  BY <1>0 DEF IsStage, Command
<1>6. \A i \in 1 .. Len(mailbox') :
        /\ IsEnd(mailbox'[i]) => mailbox'[i] = mailbox[i] /\ i \in 1 .. Len(mailbox)
        /\ IsAwaited(mailbox'[i]) =>
             mailbox'[i] = mailbox[i] /\ i \in 1 .. Len(mailbox) /\ mailbox[i].session # s
  BY <1>3, <1>4, <1>5 DEF IsEnd, IsStage, IsAwaited
<1>7. \A t \in Session : Claims(t)' <=> Claims(t)
  BY <1>0, <1>1 DEF Claims
<1>8. ClaimsOwn'
  BY <1>1, <1>7 DEF Ownership, ClaimsOwn
<1>9. staged # NoStream => (Claims(staged.owner)' <=> Claims(staged.owner))
  BY <1>1, <1>7, OwnerType DEF Claims
<1>10. EndIsOwners'
  BY <1>1, <1>6, <1>9, ZenonT(30) DEF Ownership, EndIsOwners
<1>11. NothingAbandoned'
  BY <1>1 DEF NothingAbandoned
<1>12. AwaitedIsOnly'
  <2>1. \A i \in 1 .. Len(mailbox) : IsAwaited(mailbox[i]) => mailbox[i].session \in Session
    BY AwaitedWaits
  <2> QED
    BY <1>0, <1>1, <1>6, <2>1 DEF Ownership, AwaitedIsOnly, IsAwaited
<1>13. RepliesAwaited' /\ MapExact'
  BY <1>0, <1>1 DEF Ownership, RepliesAwaited, MapExact
<1> QED
  BY <1>8, <1>10, <1>11, <1>12, <1>13 DEF Ownership

----------------------------------------------------------------------------
(* The theorems *)

LEMMA OwnershipStep == IngestTypeOK /\ Ownership /\ [IngestNext]_allVars => Ownership'
<1> SUFFICES ASSUME IngestTypeOK, Ownership, [IngestNext]_allVars PROVE Ownership'
  OBVIOUS
<1>1. CASE (HandleCommand \/ HealthCheck \/ Processes) /\ UNCHANGED ingestVars
  BY <1>1, ActorKeepsOwnership
<1>2. ASSUME NEW s \in Session, SessionStep(s) PROVE Ownership'
  BY <1>2, CallbacksKeepOwnership, SendStageStep, SendEndStep, StageTimeoutStep DEF SessionStep
<1>3. ASSUME NEW type \in {"publish", "stop"}, Operator(type) PROVE Ownership'
  BY <1>3, OperatorStep
<1>4. ASSUME NEW k \in Key, RotateKey(k) PROVE Ownership'
  <2>1. UNCHANGED <<mailbox, staged, replies, pc, sessionKey, sessions, gaveUp>>
    BY <1>4 DEF RotateKey, vars, actorVars
  <2> QED
    BY <2>1 DEF Ownership, ClaimsOwn, EndIsOwners, AwaitedIsOnly, RepliesAwaited, MapExact,
       NothingAbandoned, Claims, IsEnd, IsStage, IsAwaited
<1>5. CASE UNCHANGED allVars
  BY <1>5 DEF allVars, vars, actorVars, ingestVars, Ownership, ClaimsOwn, EndIsOwners,
     AwaitedIsOnly, RepliesAwaited, MapExact, NothingAbandoned, Claims, IsEnd, IsStage, IsAwaited
<1> QED
  BY <1>1, <1>2, <1>3, <1>4, <1>5 DEF IngestNext

LEMMA OwnershipInit == IngestInit => Ownership
<1> SUFFICES ASSUME IngestInit PROVE Ownership
  OBVIOUS
<1>1. Len(mailbox) = 0 /\ 1 .. Len(mailbox) = {}
  BY DEF IngestInit, Init
<1>2. \A s \in Session : pc[s] = "connected" /\ replies[s] = "none" /\ ~Claims(s)
  BY DEF IngestInit, Init, Claims
<1> QED
  BY <1>1, <1>2 DEF IngestInit, Init, Ownership, ClaimsOwn, EndIsOwners, AwaitedIsOnly,
     RepliesAwaited, MapExact, NothingAbandoned

LEMMA OwnershipInvariant == IngestSpec => [](IngestTypeOK /\ Ownership)
<1>1. IngestInit => IngestTypeOK
  BY InitialTypes
<1> QED
  BY <1>1, OwnershipInit, OwnershipStep, IngestTypeStep, PTL DEF IngestSpec

\* For any number of publishers, keys and mailbox places: while an accepted
\* publisher publishes, the staged stream is its own and it is the only session
\* in the map; nothing that happens to other sessions, to their late commands,
\* to the key or on the dashboard takes the stage from it.
THEOREM PublisherAlwaysOwnsStage == IngestSpec => []PublisherOwnsStage
<1>1. IngestTypeOK /\ Ownership => PublisherOwnsStage
  <2> SUFFICES ASSUME IngestTypeOK, Ownership, NEW s \in Session, pc[s] = "publishing"
               PROVE  /\ staged # NoStream
                      /\ staged.owner = s /\ staged.key = sessionKey[s]
                      /\ sessions = {s}
    BY DEF PublisherOwnsStage
  <2>1. /\ staged # NoStream /\ staged.owner = s /\ staged.key = sessionKey[s]
    BY DEF Ownership, ClaimsOwn, Claims
  <2>2. s \in sessions /\ sessions \subseteq Session
    BY DEF Ownership, MapExact, IngestTypeOK
  <2>3. \A t \in sessions : t = s
    BY <2>1, <2>2 DEF Ownership, MapExact, ClaimsOwn, Claims
  <2> QED
    BY <2>1, <2>2, <2>3
<1> QED
  BY <1>1, OwnershipInvariant, PTL

\* For any number of publishers, keys and mailbox places: as long as no call
\* gave up, a staged stream has a session that will end it, or its EndStream
\* is in the mailbox.
THEOREM TeardownComplete == IngestSpec => []StagedStreamHasOwner
<1>1. IngestTypeOK /\ Ownership => StagedStreamHasOwner
  <2> SUFFICES ASSUME IngestTypeOK, Ownership, staged # NoStream, ~gaveUp
               PROVE  \/ pc[staged.owner] = "waiting" /\ replies[staged.owner] = "ok"
                      \/ staged.owner \in sessions
                      \/ pc[staged.owner] = "ending"
                      \/ \E i \in DOMAIN mailbox :
                           mailbox[i].type = "end" /\ mailbox[i].key = staged.key
    BY DEF StagedStreamHasOwner
  <2>1. CASE Claims(staged.owner)
    BY <2>1, OwnerType DEF Claims, Ownership, MapExact
  <2>2. CASE \E i \in 1 .. Len(mailbox) : IsEnd(mailbox[i])
    BY <2>2, MailboxType DEF IsEnd, Ownership, EndIsOwners
  <2> QED
    BY <2>1, <2>2 DEF Ownership, NothingAbandoned
<1> QED
  BY <1>1, OwnershipInvariant, PTL
=============================================================================
