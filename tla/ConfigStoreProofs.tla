--------------------------- MODULE ConfigStoreProofs ---------------------------
(***************************************************************************)
(* Theorems about ConfigStore for every set of requests, forms, stored     *)
(* configurations, values and targets.                                     *)
(***************************************************************************)
EXTENDS ConfigStore, TLAPS, WellFoundedInduction, FiniteSetTheorems

----------------------------------------------------------------------------
(* Of the configurations no more is needed than their fields.               *)

ChatFields ==
  {"flags", "capacity", "adaptive", "selectors", "apiKey", "client", "secret", "channel"}

ChatShaped(chat) == DOMAIN chat = ChatFields /\ DOMAIN chat.flags = Flag

Shaped(c) == DOMAIN c = Sections /\ ChatShaped(c.chat)

OperationTypes == {"flag", "kick", "form", "switch", "import"}

\* An operation of a request: a toggle changes a flag there is, that of the webhook its
\* own, and a complete file has the fields of a configuration.
Sound(op) ==
  /\ op.type \in OperationTypes
  /\ op.type = "kick" => op.flag = "kick"
  /\ op.type = "flag" => op.flag \in Flag
  /\ op.type = "import" /\ Complete(op.config) => Shaped(op.config)

LEMMA ConfigShaped == \A c \in Config \cup {Default} : Shaped(c)
BY DEF Config, Default, ChatSettings, Shaped, ChatShaped, ChatFields, Sections

LEMMA RedactedShaped ==
  ASSUME NEW c, Shaped(c)
  PROVE  Shaped(Redacted(c))
<1>1. DOMAIN Redacted(c) = DOMAIN c
  BY DEF Redacted
<1>2. Redacted(c).chat = [c.chat EXCEPT !.apiKey = None, !.client = None, !.secret = None]
  BY DEF Redacted, Shaped, Sections
<1> QED BY <1>1, <1>2 DEF Shaped, ChatShaped, ChatFields

----------------------------------------------------------------------------
(* What an update makes of a configuration *)

\* An update changes what its operation is there to change.
ChangedAsMeant(c, u, op) ==
  /\ \A s \in Sections : u[s] # c[s] => Writes(op, s)
  /\ \A f \in Flag : u.chat.flags[f] # c.chat.flags[f] => Sets(op, f)

LEMMA FlagUpdate ==
  ASSUME NEW c, Shaped(c), NEW flag, NEW value, NEW u, u = SetFlag(c, flag, value)
  PROVE  /\ Shaped(u)
         /\ \A s \in Sections : s # "chat" => u[s] = c[s]
         /\ \A f \in ChatFields : f # "flags" => u.chat[f] = c.chat[f]
         /\ \A f \in Flag : f # flag => u.chat.flags[f] = c.chat.flags[f]
<1>1. DOMAIN u = Sections /\ \A s \in Sections : s # "chat" => u[s] = c[s]
  BY DEF SetFlag, Shaped, Sections
<1>2. u.chat = [c.chat EXCEPT !.flags = [c.chat.flags EXCEPT ![flag] = value]]
  BY DEF SetFlag, Shaped, Sections
<1>3. u.chat.flags = [c.chat.flags EXCEPT ![flag] = value]
  BY <1>2 DEF Shaped, ChatShaped, ChatFields
<1> QED BY <1>1, <1>2, <1>3 DEF Shaped, ChatShaped, ChatFields

LEMMA FormUpdate ==
  ASSUME NEW c, Shaped(c), NEW form, NEW u, u = MergeForm(c, form)
  PROVE  /\ Shaped(u)
         /\ \A s \in Sections : s \notin DOMAIN form => u[s] = c[s]
         /\ "chat" \in DOMAIN form =>
              \A f \in Flag : f \notin DOMAIN form.chat.flags => u.chat.flags[f] = c.chat.flags[f]
<1>1. DOMAIN u = Sections
  BY DEF MergeForm, Sections
<1>2. u.chat = IF "chat" \in DOMAIN form THEN MergeChat(c.chat, form.chat) ELSE c.chat
  BY DEF MergeForm
<1>3. ChatShaped(MergeChat(c.chat, form.chat))
  BY DEF MergeChat, ChatShaped, ChatFields
<1>4. \A f \in Flag : f \notin DOMAIN form.chat.flags
        => MergeChat(c.chat, form.chat).flags[f] = c.chat.flags[f]
  BY DEF MergeChat
<1>5. \A s \in Sections : s \notin DOMAIN form => u[s] = c[s]
  BY DEF MergeForm, Sections
<1> QED BY <1>1, <1>2, <1>3, <1>4, <1>5 DEF Shaped

LEMMA ImportUpdate ==
  ASSUME NEW c, NEW imported, Shaped(imported), NEW u, u = RestoreSecrets(c, imported)
  PROVE  Shaped(u)
<1>1. DOMAIN u = Sections
  BY DEF RestoreSecrets, Shaped
<1>2. u.chat = [imported.chat EXCEPT !.apiKey = Kept(@, c.chat.apiKey),
                                     !.client = Kept(@, c.chat.client),
                                     !.secret = Kept(@, c.chat.secret)]
  BY DEF RestoreSecrets, Shaped, Sections
<1> QED BY <1>1, <1>2 DEF Shaped, ChatShaped, ChatFields

LEMMA SwitchUpdate ==
  ASSUME NEW c, Shaped(c), NEW ts, NEW u, u = [c EXCEPT !.targets = ts]
  PROVE  Shaped(u) /\ \A s \in Sections : s # "targets" => u[s] = c[s]
BY DEF Shaped, Sections

LEMMA UpdatesShaped ==
  ASSUME NEW c, Shaped(c), NEW op, Sound(op), NEW u \in Updated(c, op)
  PROVE  Shaped(u) /\ ChangedAsMeant(c, u, op)
<1>1. CASE op.type \in {"flag", "kick"}
  <2>1. u = SetFlag(c, op.flag, op.value)
    BY <1>1 DEF Updated
  <2>2. Writes(op, "chat") /\ (\A f \in Flag : f = op.flag => Sets(op, f))
    BY <1>1 DEF Writes, Sets
  <2> QED BY <2>1, <2>2, FlagUpdate DEF ChangedAsMeant
<1>2. CASE op.type = "form"
  <2>1. u = MergeForm(c, op.form)
    BY <1>2 DEF Updated
  <2>2. /\ \A s \in DOMAIN op.form : Writes(op, s)
        /\ "chat" \in DOMAIN op.form => \A f \in DOMAIN op.form.chat.flags : Sets(op, f)
    BY <1>2 DEF Writes, Sets
  <2>3. "chat" \notin DOMAIN op.form => u.chat = c.chat
    BY <2>1, FormUpdate DEF Sections
  <2> QED BY <2>1, <2>2, <2>3, FormUpdate DEF ChangedAsMeant
<1>3. CASE op.type = "switch"
  <2>1. u = [c EXCEPT !.targets = SetTargetEnabled(@, op.index, op.name, op.value)]
    BY <1>3 DEF Updated
  <2>2. u = [c EXCEPT !.targets = SetTargetEnabled(c.targets, op.index, op.name, op.value)]
    BY <2>1 DEF Shaped, Sections
  <2>3. Shaped(u) /\ \A s \in Sections : s # "targets" => u[s] = c[s]
    BY <2>2, SwitchUpdate
  <2>4. Writes(op, "targets") /\ u.chat = c.chat
    BY <1>3, <2>3 DEF Writes, Sections
  <2> QED BY <2>3, <2>4 DEF ChangedAsMeant
<1>4. CASE op.type = "import"
  <2>1. u = RestoreSecrets(c, op.config) /\ Complete(op.config)
    BY <1>4 DEF Updated
  <2>2. Shaped(u)
    BY <1>4, <2>1, ImportUpdate DEF Sound
  <2>3. (\A s : Writes(op, s)) /\ (\A f : Sets(op, f))
    BY <1>4 DEF Writes, Sets
  <2> QED BY <2>2, <2>3 DEF ChangedAsMeant
<1> QED BY <1>1, <1>2, <1>3, <1>4 DEF Sound, OperationTypes

----------------------------------------------------------------------------
(* The inductive invariant *)

Updating == {"saving", "saved", "emptied"}

\* update_lock is held by the one request that is updating.
LockHeld ==
  /\ DOMAIN request = Caller
  /\ lock \in Request \cup {"free"}
  /\ \A r \in Caller : request[r].stage \in Updating <=> lock = r
  /\ \A r \in Caller : request[r].stage \in Updating
                         => DOMAIN request[r] = {"stage", "op", "updated"}

LEMMA FreeIsNoCaller == "free" \notin Caller
BY CallerAssumption DEF Caller, Boot

\* The fields of whatever may become the configuration.
AllShaped ==
  /\ Shaped(saved) /\ Shaped(current) /\ ChatShaped(actorChat)
  /\ cache = NoFile \/ Shaped(cache)
  /\ file = NoFile \/ Shaped(file)
  /\ \A r \in Caller :
       /\ request[r].stage \in Updating \cup {"lock"} => Sound(request[r].op)
       /\ request[r].stage = "rendered" => Shaped(request[r].json)
       /\ request[r].stage = "apply" => ChatShaped(request[r].chat)

\* What the holder of the lock is about to make of the configuration, and how far it is.
UnderTheLock ==
  /\ lock = "free" => current = saved
  /\ lock # "free" =>
       /\ request[lock].updated \in Updated(current, request[lock].op)
       /\ saved = IF request[lock].stage = "saving" THEN current ELSE request[lock].updated
       /\ request[lock].stage = "emptied" => cache = NoFile \/ lateExport

\* The requests that have not sent their update to the actor yet hold the only update
\* it misses.
OnTheWay(r) ==
  /\ request[r].stage = "apply" => request[r].chat = current.chat
  /\ request[r].stage = "apply" /\ request[r].how # "all" =>
       /\ request[r].how = "youtube" /\ "polling" \in Flag
       /\ actorChat.capacity = current.chat.capacity
       /\ "queueMode" \in Flag => actorChat.flags["queueMode"] = current.chat.flags["queueMode"]

ActorInformed ==
  ~applyUpset =>
    /\ Applying = {} => UsedByActor(actorChat) = UsedByActor(current.chat)
    /\ \A r \in Applying : Applying = {r} /\ OnTheWay(r)

IInv ==
  /\ LockHeld /\ AllShaped /\ UnderTheLock /\ ActorInformed /\ ExportStaleOnlyByOverlap

----------------------------------------------------------------------------
(* Requests that neither hold the lock nor apply anything *)

\* A step of one request that touches nothing the invariant speaks of.
Private(r, local) ==
  /\ request' = [request EXCEPT ![r] = local]
  /\ request[r].stage \notin Updating \cup {"reread", "apply"}
  /\ local.stage \notin Updating \cup {"reread", "apply"}
  /\ UNCHANGED <<saved, current, lock, actorChat, applyUpset>>

LEMMA PrivateKeepsLock ==
  ASSUME LockHeld, NEW r \in Caller, NEW local, Private(r, local)
  PROVE  LockHeld'
BY DEF LockHeld, Private

LEMMA PrivateKeepsApplying ==
  ASSUME LockHeld, ActorInformed, NEW r \in Caller, NEW local, Private(r, local)
  PROVE  ActorInformed'
<1>1. Applying' = Applying
  BY DEF Applying, Private, LockHeld, Caller
<1>2. \A q \in Applying : request'[q] = request[q]
  BY DEF Applying, Private, LockHeld, Caller
<1> QED BY <1>1, <1>2 DEF ActorInformed, OnTheWay, Private

LEMMA PrivateKeepsUnderTheLock ==
  ASSUME LockHeld, UnderTheLock, NEW r \in Caller, NEW local, Private(r, local),
         lock # "free" => lateExport' \/ (UNCHANGED <<cache, lateExport>>)
  PROVE  UnderTheLock'
<1>1. lock # "free" => lock \in Caller /\ lock # r /\ request'[lock] = request[lock]
  BY DEF LockHeld, Private, Caller
<1> QED BY <1>1 DEF UnderTheLock, Private

LEMMA PrivateKeepsShapes ==
  ASSUME LockHeld, AllShaped, NEW r \in Caller, NEW local, Private(r, local),
         cache' = NoFile \/ Shaped(cache'), file' = NoFile \/ Shaped(file'),
         local.stage = "lock" => Sound(local.op),
         local.stage = "rendered" => Shaped(local.json)
  PROVE  AllShaped'
<1>1. /\ Shaped(saved') /\ Shaped(current') /\ ChatShaped(actorChat')
  BY DEF AllShaped, Private
<1>2. \A q \in Caller : request'[q] = IF q = r THEN local ELSE request[q]
  BY DEF LockHeld, Private
<1>3. local.stage # "apply" /\ (local.stage \in Updating \cup {"lock"} => Sound(local.op))
  BY DEF Private
<1> QED BY <1>1, <1>2, <1>3 DEF AllShaped

LEMMA PrivateKeepsInvariant ==
  ASSUME IInv, NEW r \in Caller, NEW local, Private(r, local),
         UNCHANGED <<cache, lateExport>>, file' = file \/ file' = cache,
         local.stage = "lock" => Sound(local.op),
         local.stage = "rendered" => Shaped(local.json)
  PROVE  IInv'
<1>1. (cache' = NoFile \/ Shaped(cache')) /\ (file' = NoFile \/ Shaped(file'))
  BY DEF IInv, AllShaped
<1>2. LockHeld' /\ AllShaped' /\ UnderTheLock' /\ ActorInformed'
  BY <1>1, PrivateKeepsLock, PrivateKeepsShapes, PrivateKeepsUnderTheLock,
     PrivateKeepsApplying DEF IInv
<1>3. ExportStaleOnlyByOverlap'
  BY DEF IInv, ExportStaleOnlyByOverlap, Private
<1> QED BY <1>2, <1>3 DEF IInv

----------------------------------------------------------------------------
(* What a request begins with *)

LEMMA BeginIsPrivate ==
  ASSUME NEW r \in Caller, NEW local, Begin(r, local),
         local.stage \notin Updating \cup {"reread", "apply"},
         UNCHANGED <<saved, current, lock, actorChat, applyUpset>>
  PROVE  Private(r, local)
BY DEF Begin, Private, Idle, Updating

Submission(r) ==
  \/ ToggleFlag(r) \/ SaveSettings(r) \/ OpenTargets(r) \/ SubmitTargets(r)
  \/ SwitchTarget(r) \/ ImportFile(r) \/ ToggleKick(r) \/ Export(r) \/ RenderExport(r)

\* A file that is complete again has kept the chat section of an export.
LEMMA ImportSound ==
  ASSUME IInv, NEW r \in Request, ImportFile(r)
  PROVE  \E op : Sound(op) /\ Private(r, Waiting(op)) /\ UNCHANGED <<cache, file, lateExport>>
<1>1. PICK config \in FilesFrom(file) :
        Begin(r, Waiting([type |-> "import", config |-> config]))
  BY DEF ImportFile
<1> DEFINE op == [type |-> "import", config |-> config]
<1>2. Complete(config) => Shaped(config)
  <2>1. CASE config = [s \in Sections \ {"chat"} |-> file[s]]
    BY <2>1 DEF Complete, Sections
  <2>2. ASSUME NEW ts, config = [file EXCEPT !.targets = ts] PROVE Shaped(config)
    <3>1. Shaped(file)
      BY DEF ImportFile, IInv, AllShaped
    <3>2. DOMAIN config = Sections /\ config.chat = file.chat
      BY <2>2, <3>1 DEF Shaped, Sections
    <3> QED BY <3>1, <3>2 DEF Shaped
  <2> QED BY <2>1, <2>2 DEF FilesFrom
<1>3. Sound(op)
  BY <1>2 DEF Sound, OperationTypes
<1>4. Private(r, Waiting(op))
  BY <1>1, BeginIsPrivate DEF Waiting, Updating, ImportFile, shared, history, Caller
<1> QED BY <1>3, <1>4 DEF ImportFile, shared, history

LEMMA SubmissionStep ==
  ASSUME IInv, NEW r \in Request, Submission(r)
  PROVE  IInv'
<1> USE DEF shared, history, Caller
<1>1. CASE ToggleFlag(r)
  <2>1. PICK f \in Flag, v \in BOOLEAN : Begin(r, Waiting([type |-> "flag", flag |-> f, value |-> v]))
    BY <1>1 DEF ToggleFlag
  <2> DEFINE op == [type |-> "flag", flag |-> f, value |-> v]
  <2>2. Sound(op) /\ Private(r, Waiting(op))
    BY <1>1, <2>1, BeginIsPrivate DEF ToggleFlag, Waiting, Updating, Sound, OperationTypes
  <2> QED BY <1>1, <2>2, PrivateKeepsInvariant DEF ToggleFlag, Waiting
<1>2. CASE SaveSettings(r)
  <2>1. PICK form : Begin(r, Waiting([type |-> "form", form |-> form]))
    BY <1>2 DEF SaveSettings
  <2> DEFINE op == [type |-> "form", form |-> form]
  <2>2. Sound(op) /\ Private(r, Waiting(op))
    BY <1>2, <2>1, BeginIsPrivate DEF SaveSettings, Waiting, Updating, Sound, OperationTypes
  <2> QED BY <1>2, <2>2, PrivateKeepsInvariant DEF SaveSettings, Waiting
<1>3. CASE OpenTargets(r)
  <2> DEFINE local == [stage |-> "page", page |-> Redacted(current).targets]
  <2>1. Private(r, local)
    BY <1>3, BeginIsPrivate DEF OpenTargets, Updating
  <2> QED BY <1>3, <2>1, PrivateKeepsInvariant DEF OpenTargets
<1>4. ASSUME NEW op, Submit(r, op), op.type \in {"form", "switch"} PROVE IInv'
  <2>1. Sound(op) /\ Private(r, Waiting(op))
    BY <1>4 DEF Submit, Waiting, Private, Updating, Sound, OperationTypes
  <2> QED BY <1>4, <2>1, PrivateKeepsInvariant DEF Submit, Waiting
<1>5. CASE SubmitTargets(r)
  <2>1. \E page, action : Submit(r, TargetsForm(page, action))
    BY <1>5 DEF SubmitTargets
  <2> QED BY <1>4, <2>1 DEF TargetsForm
<1>6. CASE SwitchTarget(r)
  <2>1. \E i, n, v : Submit(r, [type |-> "switch", index |-> i, name |-> n, value |-> v])
    BY <1>6 DEF SwitchTarget
  <2> QED BY <1>4, <2>1
<1>7. CASE ImportFile(r)
  BY <1>7, ImportSound, PrivateKeepsInvariant DEF Waiting
<1>8. CASE ToggleKick(r)
  <2>1. PICK v : Begin(r, CallKick(v, current.chat))
    BY <1>8 DEF ToggleKick
  <2>2. Private(r, CallKick(v, current.chat))
    BY <1>8, <2>1, BeginIsPrivate DEF ToggleKick, CallKick, Updating
  <2> QED BY <1>8, <2>2, PrivateKeepsInvariant DEF ToggleKick, CallKick
<1>9. CASE Export(r)
  <2>1. Private(r, Idle)
    BY <1>9, BeginIsPrivate DEF Export, Idle, Updating
  <2> QED BY <1>9, <2>1, PrivateKeepsInvariant DEF Export, Idle
<1>10. CASE RenderExport(r)
  <2> DEFINE local == [stage |-> "rendered", json |-> Redacted(current)]
  <2>1. Private(r, local)
    BY <1>10, BeginIsPrivate DEF RenderExport, Updating
  <2>2. Shaped(local.json)
    BY RedactedShaped DEF IInv, AllShaped
  <2> QED BY <1>10, <2>1, <2>2, PrivateKeepsInvariant DEF RenderExport
<1> QED BY <1>1, <1>2, <1>3, <1>5, <1>6, <1>7, <1>8, <1>9, <1>10 DEF Submission

----------------------------------------------------------------------------
(* Requests that end, the cache, and Kick *)

LEMMA GiveUpStep ==
  ASSUME IInv, NEW r \in Request,
         request[r].stage = "lock", request' = [request EXCEPT ![r] = Idle],
         UNCHANGED <<shared, lateExport, applyUpset>>
  PROVE  IInv'
<1>1. Private(r, Idle) /\ r \in Caller
  BY DEF Private, Idle, Updating, shared, Caller
<1> QED BY <1>1, PrivateKeepsInvariant DEF Idle, shared

LEMMA CacheExportStep ==
  ASSUME IInv, NEW r \in Request, CacheExport(r)
  PROVE  IInv'
<1>1. Private(r, Idle) /\ r \in Caller
  BY DEF CacheExport, Private, Idle, Updating, Caller
<1>2. Shaped(request[r].json)
  BY <1>1 DEF CacheExport, IInv, AllShaped
<1>3. (cache' = NoFile \/ Shaped(cache')) /\ (file' = NoFile \/ Shaped(file'))
  BY <1>2 DEF CacheExport, IInv, AllShaped
<1>4. lock # "free" => lateExport'
  BY DEF CacheExport
<1>5. LockHeld' /\ AllShaped' /\ UnderTheLock' /\ ActorInformed'
  BY <1>1, <1>3, <1>4, PrivateKeepsLock, PrivateKeepsShapes, PrivateKeepsUnderTheLock,
     PrivateKeepsApplying DEF IInv, Idle
<1>6. ExportStaleOnlyByOverlap'
  <2>1. ~lateExport' => ~lateExport /\ request[r].json = Redacted(current)
    BY DEF CacheExport
  <2> QED BY <2>1 DEF CacheExport, IInv, ExportStaleOnlyByOverlap
<1> QED BY <1>5, <1>6 DEF IInv

KickStep(r) ==
  ListSubscriptions(r) \/ CreateSubscription(r) \/ DeleteSubscriptions(r) \/ KickFails(r)

LEMMA KickStepIsPrivate ==
  ASSUME NEW r \in Caller, KickStep(r)
  PROVE  \E local : /\ Private(r, local) /\ UNCHANGED <<cache, file, lateExport>>
                    /\ local.stage = "lock" => Sound(local.op)
                    /\ local.stage # "rendered"
<1> DEFINE Fine(local) == /\ local.stage \in {"idle", "lock", "create", "delete"}
                          /\ local.stage = "lock" => Sound(local.op)
<1>1. \A v : Fine(KickDone(r, v))
  BY DEF KickDone, Idle, Waiting, Sound, OperationTypes
<1>2. request[r].stage \in AtKick /\ UNCHANGED <<cache, file, lateExport>>
      /\ UNCHANGED <<saved, current, lock, actorChat, applyUpset>>
  BY DEF KickStep, ListSubscriptions, CreateSubscription, DeleteSubscriptions, KickFails,
     shared, history, AtKick
<1>3. \E local : Fine(local) /\ request' = [request EXCEPT ![r] = local]
  <2>1. CASE ListSubscriptions(r)
    BY <1>1, <2>1 DEF ListSubscriptions
  <2>2. CASE CreateSubscription(r) \/ DeleteSubscriptions(r)
    BY <1>1, <2>2 DEF CreateSubscription, DeleteSubscriptions
  <2>3. CASE KickFails(r)
    <3>1. Fine(Idle)
      BY DEF Idle
    <3> QED BY <2>3, <3>1 DEF KickFails
  <2> QED BY <2>1, <2>2, <2>3 DEF KickStep
<1> QED BY <1>2, <1>3 DEF Private, AtKick, Updating

----------------------------------------------------------------------------
(* The holder of the lock *)

LEMMA SameFields ==
  ASSUME NEW f, NEW stage, NEW g, g = [f EXCEPT !.stage = stage], "stage" \in DOMAIN f
  PROVE  g.stage = stage /\ g.op = f.op /\ g.updated = f.updated /\ DOMAIN g = DOMAIN f
OBVIOUS

LEMMA LockStep ==
  ASSUME IInv, NEW r \in Request, Lock(r)
  PROVE  IInv'
<1> USE DEF Caller
<1>1. CASE request' = [request EXCEPT ![r] = Idle] /\ UNCHANGED lock
  BY <1>1, GiveUpStep DEF Lock, shared
<1>2. ASSUME NEW u \in Updated(current, request[r].op), lock' = r,
             request' = [request EXCEPT ![r] = [stage |-> "saving", op |-> @.op, updated |-> u]]
      PROVE  IInv'
  <2>1. /\ request[r].stage = "lock" /\ lock = "free" /\ current = saved
        /\ UNCHANGED <<saved, current, cache, file, actorChat, lateExport, applyUpset>>
    BY DEF Lock, IInv, UnderTheLock
  <2>2. \A q \in Caller : request'[q] = IF q = r THEN [stage |-> "saving", op |-> request[r].op,
                                                      updated |-> u]
                                        ELSE request[q]
    BY <1>2 DEF IInv, LockHeld
  <2>3. LockHeld'
    <3>1. \A q \in Caller : request[q].stage \notin Updating
      BY <2>1, FreeIsNoCaller DEF IInv, LockHeld
    <3> QED BY <1>2, <2>2, <3>1 DEF IInv, LockHeld, Updating
  <2>4. AllShaped'
    BY <2>1, <2>2 DEF IInv, AllShaped, Updating
  <2>5. r # "free"
    BY FreeIsNoCaller
  <2>6. UnderTheLock'
    BY <1>2, <2>1, <2>2, <2>5 DEF UnderTheLock
  <2>7. ActorInformed'
    <3>1. Applying' = Applying /\ r \notin Applying
      BY <2>1, <2>2 DEF Applying
    <3> QED BY <2>1, <2>2, <3>1 DEF IInv, ActorInformed, OnTheWay, Applying
  <2>8. ExportStaleOnlyByOverlap'
    BY <2>1 DEF IInv, ExportStaleOnlyByOverlap
  <2> QED BY <2>3, <2>4, <2>6, <2>7, <2>8 DEF IInv
<1> QED BY <1>1, <1>2 DEF Lock

\* The holder of the lock goes on, or gives up, before anything is published.
LEMMA SaveStep ==
  ASSUME IInv, NEW r \in Request, Save(r) \/ EmptyCache(r)
  PROVE  IInv'
<1> USE DEF Caller
<1>1. r # "free"
  BY FreeIsNoCaller
<1>2. lock = r
  BY DEF Save, EmptyCache, IInv, LockHeld, Updating
<1>3. \A q \in Caller : q # r => request'[q] = request[q]
  BY DEF Save, EmptyCache, IInv, LockHeld
<1>4. /\ request[r].stage \in Updating
      /\ request'[r].stage = IF request[r].stage = "saving" THEN "saved" ELSE "emptied"
      /\ request'[r].op = request[r].op /\ request'[r].updated = request[r].updated
      /\ DOMAIN request'[r] = DOMAIN request[r]
  <2>1. request[r].stage \in Updating /\ "stage" \in DOMAIN request[r]
    BY DEF Save, EmptyCache, Updating, IInv, LockHeld
  <2>2. CASE Save(r)
    <3>1. request'[r] = [request[r] EXCEPT !.stage = "saved"] /\ request[r].stage = "saving"
      BY <2>2 DEF Save, IInv, LockHeld
    <3> QED BY <2>1, <3>1, SameFields
  <2>3. CASE EmptyCache(r)
    <3>1. request'[r] = [request[r] EXCEPT !.stage = "emptied"] /\ request[r].stage = "saved"
      BY <2>3 DEF EmptyCache, IInv, LockHeld
    <3> QED BY <2>1, <3>1, SameFields
  <2> QED BY <2>2, <2>3
<1>5. UNCHANGED <<current, lock, actorChat, file, applyUpset>> /\ DOMAIN request' = DOMAIN request
  BY DEF Save, EmptyCache
<1>6. LockHeld'
  BY <1>2, <1>3, <1>4, <1>5 DEF IInv, LockHeld, Updating
<1>7. saved' = request[r].updated /\ Shaped(saved')
  <2>1. request[r].updated \in Updated(current, request[r].op) /\ Sound(request[r].op)
        /\ Shaped(current)
    BY <1>1, <1>2, <1>4 DEF IInv, UnderTheLock, AllShaped
  <2>2. saved' = request[r].updated
    BY <1>1, <1>2 DEF Save, EmptyCache, IInv, UnderTheLock
  <2> QED BY <2>1, <2>2, UpdatesShaped
<1>8. (cache' = cache /\ lateExport' = lateExport) \/ cache' = NoFile
  BY DEF Save, EmptyCache
<1>9. AllShaped'
  BY <1>3, <1>4, <1>5, <1>7, <1>8 DEF IInv, AllShaped, Updating, Save, EmptyCache
<1>10. UnderTheLock'
  BY <1>1, <1>2, <1>4, <1>5, <1>7 DEF IInv, UnderTheLock, Save, EmptyCache, Updating
<1>11. ActorInformed'
  <2>1. Applying' = Applying /\ r \notin Applying
    BY <1>3, <1>4 DEF Applying, Updating
  <2> QED BY <1>3, <1>5, <2>1 DEF IInv, ActorInformed, OnTheWay, Applying
<1>12. ExportStaleOnlyByOverlap'
  BY <1>5 DEF Save, EmptyCache, IInv, ExportStaleOnlyByOverlap
<1> QED BY <1>6, <1>9, <1>10, <1>11, <1>12 DEF IInv

LEMMA SaveFailsStep ==
  ASSUME IInv, NEW r \in Request, SaveFails(r)
  PROVE  IInv'
<1> USE DEF Caller
<1>1. /\ lock = r /\ lock # "free" /\ request[r].stage = "saving" /\ saved = current
      /\ UNCHANGED <<saved, current, cache, file, actorChat, lateExport, applyUpset>>
  BY FreeIsNoCaller DEF SaveFails, IInv, LockHeld, UnderTheLock, Updating
<1>2. \A q \in Caller : request'[q] = IF q = r THEN Idle ELSE request[q]
  BY DEF SaveFails, IInv, LockHeld
<1>3. LockHeld'
  BY <1>1, <1>2, FreeIsNoCaller DEF SaveFails, IInv, LockHeld, Updating, Idle
<1>4. AllShaped'
  BY <1>1, <1>2 DEF IInv, AllShaped, Updating, Idle
<1>5. UnderTheLock'
  BY <1>1 DEF SaveFails, UnderTheLock
<1>6. ActorInformed'
  <2>1. Applying' = Applying /\ r \notin Applying
    BY <1>1, <1>2 DEF Applying, Idle
  <2> QED BY <1>1, <1>2, <2>1 DEF IInv, ActorInformed, OnTheWay, Applying
<1>7. ExportStaleOnlyByOverlap'
  BY <1>1 DEF IInv, ExportStaleOnlyByOverlap
<1> QED BY <1>3, <1>4, <1>5, <1>6, <1>7 DEF IInv

----------------------------------------------------------------------------
(* The chat actor *)

LEMMA SameUse ==
  ASSUME NEW a, NEW b, a.capacity = b.capacity, a.selectors = b.selectors,
         a.adaptive = b.adaptive,
         \A f \in Flag \cap {"queueMode", "polling"} : a.flags[f] = b.flags[f]
  PROVE  UsedByActor(a) = UsedByActor(b)
BY DEF UsedByActor

LEMMA UseOf ==
  ASSUME NEW a, NEW b, UsedByActor(a) = UsedByActor(b)
  PROVE  /\ a.capacity = b.capacity /\ a.selectors = b.selectors /\ a.adaptive = b.adaptive
         /\ \A f \in Flag \cap {"queueMode", "polling"} : a.flags[f] = b.flags[f]
<1> DEFINE Flags(chat) == [f \in Flag \cap {"queueMode", "polling"} |-> chat.flags[f]]
<1>1. /\ a.capacity = b.capacity /\ a.selectors = b.selectors /\ a.adaptive = b.adaptive
      /\ Flags(a) = Flags(b)
  BY DEF UsedByActor
<1>2. \A f \in Flag \cap {"queueMode", "polling"} :
        Flags(a)[f] = a.flags[f] /\ Flags(b)[f] = b.flags[f]
  OBVIOUS
<1> QED BY <1>1, <1>2

\* An update after which the request is done has nothing for the actor; the others
\* are sent to it, in whole or as far as the YouTube chat is concerned.
LEMMA AfterUpdateIs ==
  ASSUME Shaped(current), NEW op, Sound(op), NEW u \in Updated(current, op),
         NEW local, local = AfterUpdate(op, u)
  PROVE  \/ local = [stage |-> "reread"]
         \/ local = [stage |-> "apply", how |-> "all", chat |-> u.chat]
         \/ /\ local = [stage |-> "apply", how |-> "youtube", chat |-> u.chat]
            /\ "polling" \in Flag
            /\ u.chat.capacity = current.chat.capacity
            /\ "queueMode" \in Flag
                 => u.chat.flags["queueMode"] = current.chat.flags["queueMode"]
         \/ local = Idle /\ UsedByActor(u.chat) = UsedByActor(current.chat)
<1>1. CASE op.type = "flag" /\ op.flag = "queueMode"
  BY <1>1 DEF AfterUpdate
<1>2. CASE op.type = "flag" /\ op.flag = "polling"
  <2>1. local = [stage |-> "apply", how |-> "youtube", chat |-> u.chat]
    BY <1>2 DEF AfterUpdate
  <2>2. u = SetFlag(current, "polling", op.value) /\ "polling" \in Flag
    BY <1>2 DEF Updated, Sound
  <2> QED BY <2>1, <2>2, FlagUpdate DEF ChatFields
<1>3. CASE op.type \in {"form", "import"}
  <2>1. CASE u.chat = current.chat
    BY <1>3, <2>1 DEF AfterUpdate
  <2>2. CASE u.chat # current.chat
    BY <1>3, <2>2 DEF AfterUpdate
  <2> QED BY <2>1, <2>2
<1>4. CASE op.type \in {"flag", "kick"} /\ op.flag \notin {"queueMode", "polling"}
  <2>1. local = Idle /\ u = SetFlag(current, op.flag, op.value)
    BY <1>4 DEF AfterUpdate, Updated
  <2>2. UsedByActor(u.chat) = UsedByActor(current.chat)
    BY <1>4, <2>1, FlagUpdate, SameUse DEF ChatFields
  <2> QED BY <2>1, <2>2
<1>5. CASE op.type = "switch"
  <2>1. local = Idle
    BY <1>5 DEF AfterUpdate
  <2>2. u.chat = current.chat
    BY <1>5 DEF Updated, Shaped, Sections
  <2> QED BY <2>1, <2>2
<1> QED BY <1>1, <1>2, <1>3, <1>4, <1>5 DEF Sound, OperationTypes

LEMMA PublishStep ==
  ASSUME IInv, NEW r \in Request, PublishConfig(r)
  PROVE  IInv'
<1> USE DEF Caller
<1> DEFINE op == request[r].op
           u  == request[r].updated
<1>1. /\ lock = r /\ lock # "free" /\ saved = u /\ u \in Updated(current, op)
      /\ cache = NoFile \/ lateExport
      /\ Sound(op) /\ Shaped(current) /\ r \in Caller
  BY FreeIsNoCaller
     DEF PublishConfig, IInv, LockHeld, UnderTheLock, AllShaped, Updating
<1>2. /\ current' = u /\ lock' = "free"
      /\ UNCHANGED <<saved, cache, file, actorChat, lateExport>>
      /\ DOMAIN request' = Caller
      /\ \A q \in Caller : request'[q] = IF q = r THEN AfterUpdate(op, u) ELSE request[q]
  BY DEF PublishConfig, IInv, LockHeld
<1>3. PICK local : local = AfterUpdate(op, u)
  OBVIOUS
<1> HIDE DEF op, u
<1>4. local.stage \in {"idle", "reread", "apply"}
  BY <1>1, <1>3, AfterUpdateIs DEF Idle
<1>5. LockHeld'
  BY <1>1, <1>2, <1>3, <1>4, FreeIsNoCaller DEF IInv, LockHeld, Updating
<1>6. AllShaped'
  <2>1. Shaped(current') /\ Shaped(u)
    BY <1>1, <1>2, UpdatesShaped
  <2>2. local.stage = "apply" => ChatShaped(local.chat)
    BY <1>1, <1>3, <2>1, AfterUpdateIs DEF Shaped, Idle
  <2> QED BY <1>2, <1>3, <1>4, <2>1, <2>2 DEF IInv, AllShaped, Updating
<1>7. UnderTheLock'
  BY <1>1, <1>2 DEF UnderTheLock
<1>8. ExportStaleOnlyByOverlap'
  BY <1>1, <1>2 DEF ExportStaleOnlyByOverlap
<1>9. ASSUME ~applyUpset' PROVE ActorInformed'
  <2>1. ~applyUpset /\ Applying = {}
    BY <1>9 DEF PublishConfig
  <2>2. UsedByActor(actorChat) = UsedByActor(current.chat)
    BY <2>1 DEF IInv, ActorInformed
  <2>3. Applying' = IF local.stage = "idle" THEN {} ELSE {r}
    BY <1>2, <1>3, <1>4, <2>1 DEF Applying
  <2>4. CASE local = Idle /\ UsedByActor(u.chat) = UsedByActor(current.chat)
    <3>1. Applying' = {}
      BY <2>3, <2>4 DEF Idle
    <3>2. UsedByActor(actorChat)' = UsedByActor(current.chat)'
      BY <1>2, <2>2, <2>4 DEF UsedByActor
    <3> QED BY <3>1, <3>2 DEF ActorInformed
  <2>5. CASE local.stage # "idle" /\ OnTheWay(r)'
    BY <2>3, <2>5 DEF ActorInformed
  <2>6. CASE local = [stage |-> "reread"] \/ local = [stage |-> "apply", how |-> "all", chat |-> u.chat]
    <3>1. OnTheWay(r)'
      BY <1>1, <1>2, <1>3, <2>6 DEF OnTheWay
    <3> QED BY <2>5, <2>6, <3>1
  <2>7. CASE /\ local = [stage |-> "apply", how |-> "youtube", chat |-> u.chat]
             /\ "polling" \in Flag
             /\ u.chat.capacity = current.chat.capacity
             /\ "queueMode" \in Flag
                  => u.chat.flags["queueMode"] = current.chat.flags["queueMode"]
    <3>1. /\ actorChat.capacity = current.chat.capacity
          /\ "queueMode" \in Flag => actorChat.flags["queueMode"] = current.chat.flags["queueMode"]
      BY <2>2, UseOf
    <3>2. request'[r] = local /\ local.stage = "apply" /\ local.how = "youtube"
          /\ local.chat = u.chat
      BY <1>1, <1>2, <1>3, <2>7
    <3>3. OnTheWay(r)'
      BY <1>2, <2>7, <3>1, <3>2 DEF OnTheWay
    <3> QED BY <2>5, <3>2, <3>3
  <2> QED BY <1>1, <1>3, <2>4, <2>6, <2>7, AfterUpdateIs
<1>10. ActorInformed'
  BY <1>9 DEF ActorInformed
<1> QED BY <1>5, <1>6, <1>7, <1>8, <1>10 DEF IInv

\* What the steps of an applying request leave alone.
LEMMA ApplyingKeeps ==
  ASSUME IInv, NEW r \in Caller, NEW local, request' = [request EXCEPT ![r] = local],
         request[r].stage \in {"reread", "apply"}, local.stage \in {"apply", "idle"},
         ChatShaped(actorChat'), local.stage = "apply" => ChatShaped(local.chat),
         UNCHANGED <<saved, current, lock, cache, file, lateExport>>
  PROVE  LockHeld' /\ AllShaped' /\ UnderTheLock' /\ ExportStaleOnlyByOverlap'
         /\ DOMAIN request' = Caller
         /\ \A q \in Caller : request'[q] = IF q = r THEN local ELSE request[q]
<1>1. DOMAIN request' = Caller
      /\ \A q \in Caller : request'[q] = IF q = r THEN local ELSE request[q]
  BY DEF IInv, LockHeld
<1>2. LockHeld'
  BY <1>1 DEF IInv, LockHeld, Updating
<1>3. AllShaped'
  BY <1>1 DEF IInv, AllShaped, Updating
<1>4. lock # "free" => lock \in Caller /\ lock # r
  BY DEF IInv, LockHeld, Updating, Caller
<1>5. UnderTheLock'
  BY <1>1, <1>4 DEF IInv, UnderTheLock
<1>6. ExportStaleOnlyByOverlap'
  BY DEF IInv, ExportStaleOnlyByOverlap
<1> QED BY <1>1, <1>2, <1>3, <1>5, <1>6

LEMMA RereadStep ==
  ASSUME IInv, NEW r \in Request, Reread(r)
  PROVE  IInv'
<1> USE DEF Caller
<1> DEFINE local == [stage |-> "apply", how |-> "all", chat |-> current.chat]
<1>1. LockHeld' /\ AllShaped' /\ UnderTheLock' /\ ExportStaleOnlyByOverlap'
      /\ \A q \in Caller : request'[q] = IF q = r THEN local ELSE request[q]
  BY ApplyingKeeps DEF Reread, shared, history, IInv, AllShaped, Shaped
<1>2. Applying' = Applying /\ r \in Applying
  BY <1>1 DEF Applying, Reread
<1>3. ActorInformed'
  BY <1>1, <1>2 DEF IInv, ActorInformed, OnTheWay, Applying, Reread, shared, history
<1> QED BY <1>1, <1>3 DEF IInv

LEMMA ApplyStep ==
  ASSUME IInv, NEW r \in Request, Apply(r)
  PROVE  IInv'
<1> USE DEF Caller
<1>1. UNCHANGED <<saved, current, lock, cache, file, lateExport, applyUpset>> /\ r \in Applying
  BY DEF Apply, history, Applying
<1> DEFINE chat == request[r].chat
           merged == [actorChat EXCEPT !.selectors = chat.selectors, !.adaptive = chat.adaptive,
                                       !.flags["polling"] = chat.flags["polling"]]
<1>2. actorChat' = IF request[r].how = "all" THEN chat ELSE merged
  BY DEF Apply
<1>3. ChatShaped(actorChat)
  BY DEF IInv, AllShaped
<1>4. /\ DOMAIN merged = ChatFields /\ DOMAIN merged.flags = Flag
      /\ merged.capacity = actorChat.capacity
      /\ merged.selectors = chat.selectors /\ merged.adaptive = chat.adaptive
      /\ merged.flags = [actorChat.flags EXCEPT !["polling"] = chat.flags["polling"]]
  BY <1>3 DEF ChatShaped, ChatFields
<1> HIDE DEF merged
<1>5. ChatShaped(chat) /\ ChatShaped(merged)
  <2>1. request[r].stage = "apply"
    BY DEF Apply
  <2>2. ChatShaped(chat)
    BY <2>1 DEF IInv, AllShaped
  <2> QED BY <1>4, <2>2 DEF ChatShaped
<1>6. LockHeld' /\ AllShaped' /\ UnderTheLock' /\ ExportStaleOnlyByOverlap'
      /\ \A q \in Caller : request'[q] = IF q = r THEN Idle ELSE request[q]
  BY <1>1, <1>2, <1>5, ApplyingKeeps DEF Apply, Idle
<1>7. Applying' = Applying \ {r}
  BY <1>6 DEF Applying, Idle
<1>8. ASSUME ~applyUpset
      PROVE  Applying' = {} /\ UsedByActor(actorChat') = UsedByActor(current.chat)
  <2>1. Applying = {r} /\ OnTheWay(r)
    BY <1>1, <1>8 DEF IInv, ActorInformed
  <2>2. request[r].stage = "apply" /\ chat = current.chat
    BY <2>1 DEF Apply, OnTheWay
  <2>3. CASE request[r].how = "all"
    BY <1>2, <1>7, <2>1, <2>2, <2>3
  <2>4. CASE request[r].how # "all"
    <3>1. /\ actorChat.capacity = current.chat.capacity
          /\ "queueMode" \in Flag => actorChat.flags["queueMode"] = current.chat.flags["queueMode"]
      BY <2>1, <2>2, <2>4 DEF OnTheWay
    <3>2. \A f \in Flag \cap {"queueMode", "polling"} : merged.flags[f] = current.chat.flags[f]
      BY <1>3, <1>4, <2>2, <3>1 DEF ChatShaped
    <3>3. /\ merged.capacity = current.chat.capacity /\ merged.selectors = current.chat.selectors
          /\ merged.adaptive = current.chat.adaptive
      BY <1>4, <2>2, <3>1
    <3>4. UsedByActor(merged) = UsedByActor(current.chat)
      BY <3>2, <3>3, SameUse
    <3> QED BY <1>2, <1>7, <2>1, <2>4, <3>4
  <2> QED BY <2>3, <2>4
<1>9. ActorInformed'
  <2>1. UNCHANGED <<applyUpset, current>>
    BY <1>1
  <2>2. UsedByActor(actorChat)' = UsedByActor(actorChat')
    BY DEF UsedByActor
  <2>3. UsedByActor(current.chat)' = UsedByActor(current'.chat)
    BY DEF UsedByActor
  <2> QED BY <1>8, <2>1, <2>2, <2>3 DEF ActorInformed
<1> QED BY <1>6, <1>9 DEF IInv

LEMMA ApplyFailsStep ==
  ASSUME IInv, NEW r \in Request, ApplyFails(r)
  PROVE  IInv'
<1>1. LockHeld' /\ AllShaped' /\ UnderTheLock' /\ ExportStaleOnlyByOverlap'
  BY ApplyingKeeps DEF ApplyFails, shared, IInv, AllShaped, Idle, Caller
<1>2. ActorInformed'
  BY DEF ApplyFails, ActorInformed
<1> QED BY <1>1, <1>2 DEF IInv

----------------------------------------------------------------------------
(* Start-up *)

LEMMA StartedIs ==
  ASSUME NEW c
  PROVE  /\ DOMAIN Started(c) = Caller
         /\ \A r \in Caller : Started(c)[r].stage \in {"idle", "list"}
BY DEF Started, CallKick, Idle

LEMMA FreshInvariant ==
  ASSUME Shaped(saved), current = saved, lock = "free", cache = NoFile,
         file = NoFile \/ Shaped(file), actorChat = saved.chat, request = Started(saved)
  PROVE  IInv
<1>1. DOMAIN request = Caller /\ \A r \in Caller : request[r].stage \in {"idle", "list"}
  BY StartedIs
<1>2. LockHeld
  BY <1>1, FreeIsNoCaller DEF LockHeld, Updating
<1>3. AllShaped
  BY <1>1 DEF AllShaped, Shaped, Updating
<1>4. UnderTheLock
  BY DEF UnderTheLock
<1>5. ActorInformed
  <2>1. Applying = {}
    BY <1>1 DEF Applying, Caller
  <2> QED BY <2>1 DEF ActorInformed
<1>6. ExportStaleOnlyByOverlap
  BY DEF ExportStaleOnlyByOverlap
<1> QED BY <1>2, <1>3, <1>4, <1>5, <1>6 DEF IInv

LEMMA InitialInvariant == Init => IInv
<1> SUFFICES ASSUME Init PROVE IInv
  OBVIOUS
<1>1. Shaped(saved)
  BY StoredAssumption, ConfigShaped DEF Init
<1> QED BY <1>1, FreshInvariant DEF Init

LEMMA RestartStep ==
  ASSUME IInv, Restart
  PROVE  IInv'
<1>1. /\ Shaped(saved)' /\ current' = saved' /\ lock' = "free" /\ cache' = NoFile
      /\ (file' = NoFile \/ Shaped(file)') /\ actorChat' = saved'.chat
      /\ request' = Started(saved')
  BY DEF Restart, IInv, AllShaped, Shaped
<1>2. DOMAIN request' = Caller /\ \A r \in Caller : request'[r].stage \in {"idle", "list"}
  BY <1>1, StartedIs
<1>3. LockHeld'
  BY <1>1, <1>2, FreeIsNoCaller DEF LockHeld, Updating
<1>4. AllShaped'
  BY <1>1, <1>2 DEF AllShaped, Shaped, Updating
<1>5. UnderTheLock'
  BY <1>1 DEF UnderTheLock
<1>6. ActorInformed'
  <2>1. Applying' = {}
    BY <1>2 DEF Applying, Caller
  <2>2. UsedByActor(actorChat)' = UsedByActor(current.chat)'
    BY <1>1 DEF UsedByActor
  <2> QED BY <2>1, <2>2 DEF ActorInformed
<1>7. ExportStaleOnlyByOverlap'
  BY <1>1 DEF ExportStaleOnlyByOverlap
<1> QED BY <1>3, <1>4, <1>5, <1>6, <1>7 DEF IInv

----------------------------------------------------------------------------
(* The theorems *)

LEMMA InductiveInvariant == IInv /\ [Next]_vars => IInv'
<1> SUFFICES ASSUME IInv, [Next]_vars PROVE IInv'
  OBVIOUS
<1>1. ASSUME NEW r \in Request, Submission(r) PROVE IInv'
  BY <1>1, SubmissionStep
<1>2. ASSUME NEW r \in Request, Lock(r) \/ LookupFails(r) PROVE IInv'
  BY <1>2, LockStep, GiveUpStep DEF LookupFails
<1>3. ASSUME NEW r \in Request,
             Save(r) \/ EmptyCache(r) \/ SaveFails(r) \/ PublishConfig(r) \/ CacheExport(r)
      PROVE  IInv'
  BY <1>3, SaveStep, SaveFailsStep, PublishStep, CacheExportStep
<1>4. ASSUME NEW r \in Request, Reread(r) \/ Apply(r) \/ ApplyFails(r) PROVE IInv'
  BY <1>4, RereadStep, ApplyStep, ApplyFailsStep
<1>5. ASSUME NEW r \in Caller, KickStep(r) PROVE IInv'
  <2>1. PICK local : /\ Private(r, local) /\ UNCHANGED <<cache, file, lateExport>>
                     /\ local.stage = "lock" => Sound(local.op)
                     /\ local.stage # "rendered"
    BY <1>5, KickStepIsPrivate
  <2> QED BY <2>1, PrivateKeepsInvariant
<1>6. CASE Restart
  BY <1>6, RestartStep
<1>7. CASE UNCHANGED vars
  <2>1. UNCHANGED <<saved, current, lock, cache, file, actorChat, request, lateExport, applyUpset>>
    BY <1>7 DEF vars, shared, history
  <2>2. LockHeld' /\ AllShaped' /\ UnderTheLock'
    BY <2>1 DEF IInv, LockHeld, AllShaped, UnderTheLock
  <2>3. ActorInformed' /\ ExportStaleOnlyByOverlap'
    BY <2>1 DEF IInv, ActorInformed, Applying, OnTheWay, UsedByActor, ExportStaleOnlyByOverlap
  <2> QED BY <2>2, <2>3 DEF IInv
<1> QED BY <1>1, <1>2, <1>3, <1>4, <1>5, <1>6, <1>7 DEF Next, Submission, KickStep

THEOREM AlwaysIInv == Spec => []IInv
BY InitialInvariant, InductiveInvariant, PTL DEF Spec

\* Readers, the database and the chat actor agree whenever no update is under way
\* (ConfigHandle::update, AppHandle).
THEOREM UpdatesAreAllOrNothing == Spec => []UpdateAllOrNothing
<1>1. IInv => UpdateAllOrNothing
  BY DEF IInv, UnderTheLock, ActorInformed, UpdateAllOrNothing
<1> QED BY <1>1, AlwaysIInv, PTL

\* A cached export is out of date only when its request overlapped with an update
\* (export_json).
THEOREM ExportsStaleOnlyByOverlap == Spec => []ExportStaleOnlyByOverlap
<1>1. IInv => ExportStaleOnlyByOverlap
  BY DEF IInv
<1> QED BY <1>1, AlwaysIInv, PTL

LEMMA OnlySaveWrites ==
  ASSUME IInv, [Next]_vars, saved' # saved
  PROVE  \E r \in Request : Save(r)
BY DEF Next, vars, shared, history, ToggleFlag, SaveSettings, OpenTargets, SubmitTargets,
       Submit, SwitchTarget, ImportFile, Lock, LookupFails, SaveFails, EmptyCache, PublishConfig,
       Reread, Apply, ApplyFails, Export, RenderExport, CacheExport, ToggleKick,
       ListSubscriptions, CreateSubscription, DeleteSubscriptions, KickFails, Restart

\* However updates overlap, each writes the part of the configuration it was made for
\* and leaves the others as they are in the database (ConfigHandle::update).
THEOREM UpdatesAreSerialised == Spec => UpdatesSerialised
<1>1. ASSUME IInv, [Next]_vars, saved' # saved
      PROVE  \E r \in Request :
               LET op == request[r].op
               IN  /\ request[r].stage = "saving"
                   /\ \A s \in Sections : saved'[s] # saved[s] => Writes(op, s)
                   /\ \A f \in Flag : saved'.chat.flags[f] # saved.chat.flags[f] => Sets(op, f)
  <2>1. PICK r \in Request : Save(r)
    BY <1>1, OnlySaveWrites
  <2>2. r \in Caller /\ request[r].stage = "saving" /\ saved' = request[r].updated
    BY <2>1 DEF Save, Caller
  <2>3. lock = r /\ lock # "free"
    BY <1>1, <2>2, FreeIsNoCaller DEF IInv, LockHeld, Updating
  <2>4. saved = current /\ saved' \in Updated(saved, request[r].op)
    BY <1>1, <2>2, <2>3 DEF IInv, UnderTheLock
  <2>5. Shaped(saved) /\ Sound(request[r].op)
    BY <1>1, <2>2 DEF IInv, AllShaped, Updating
  <2>6. ChangedAsMeant(saved, saved', request[r].op)
    BY <2>4, <2>5, UpdatesShaped
  <2> QED BY <2>2, <2>6 DEF ChangedAsMeant
<1>2. IInv /\ [Next]_vars =>
        [saved' # saved =>
           \E r \in Request :
             LET op == request[r].op
             IN  /\ request[r].stage = "saving"
                 /\ \A s \in Sections : saved'[s] # saved[s] => Writes(op, s)
                 /\ \A f \in Flag : saved'.chat.flags[f] # saved.chat.flags[f] => Sets(op, f)]_vars
  BY <1>1
<1> QED BY <1>2, AlwaysIInv, PTL DEF Spec, UpdatesSerialised

----------------------------------------------------------------------------
(* Targets *)

\* The first of some positions is one of them.
LEMMA FirstPosition ==
  ASSUME NEW S \in SUBSET Nat, S # {}
  PROVE  (CHOOSE i \in S : \A j \in S : i <= j) \in S
<1>1. PICK x \in S : \A y \in S : <<y, x>> \notin OpToRel(<, Nat)
  BY WFMin, NatLessThanWellFounded
<1>2. \A y \in S : ~ (y < x)
  BY <1>1 DEF OpToRel
<1>3. \A y \in S : x <= y
  BY <1>2
<1> QED BY <1>3

LEMMA TargetsAre == \A ts : ts \in Targets <=> ts \in Seq(Target) /\ Len(ts) <= MaxTargets
<1>1. ASSUME NEW ts \in Targets PROVE ts \in Seq(Target) /\ Len(ts) <= MaxTargets
  <2>1. PICK n \in 0..MaxTargets : ts \in [1..n -> Target]
    BY DEF Targets
  <2> QED BY <2>1, BoundsAssumption
<1>2. ASSUME NEW ts \in Seq(Target), Len(ts) <= MaxTargets PROVE ts \in Targets
  <2>1. Len(ts) \in 0..MaxTargets /\ ts \in [1..Len(ts) -> Target]
    BY <1>2, BoundsAssumption
  <2> QED BY <2>1 DEF Targets
<1> QED BY <1>1, <1>2

LEMMA RedactedTargets ==
  ASSUME NEW ts \in Targets, NEW hidden, hidden = [i \in DOMAIN ts |-> [ts[i] EXCEPT !.key = None]]
  PROVE  hidden \in Targets
<1>1. PICK n \in 0..MaxTargets : ts \in [1..n -> Target]
  BY DEF Targets
<1>2. \A t \in Target : [t EXCEPT !.key = None] \in Target
  BY DEF Target
<1>3. hidden \in [1..n -> Target]
  BY <1>1, <1>2
<1> QED BY <1>1, <1>3 DEF Targets

LEMMA MergedTargets ==
  ASSUME NEW ts \in Targets, NEW form \in Targets, Len(form) <= Len(ts)
  PROVE  MergeTargets(ts, form) \in Targets /\ Len(MergeTargets(ts, form)) = Len(form)
<1>1. PICK n \in 0..MaxTargets : form \in [1..n -> Target]
  BY DEF Targets
<1>2. ts \in Seq(Target) /\ form \in Seq(Target) /\ Len(form) = n
  BY <1>1, TargetsAre, BoundsAssumption
<1>3. \A i \in 1..n : form[i] \in Target /\ ts[i] \in Target
  BY <1>1, <1>2
<1>4. \A t \in Target, k \in Target : [t EXCEPT !.key = k.key] \in Target
  BY DEF Target
<1>5. MergeTargets(ts, form) \in [1..n -> Target]
  BY <1>1, <1>3, <1>4 DEF MergeTargets
<1>6. MergeTargets(ts, form) \in Targets
  BY <1>5, <1>1 DEF Targets
<1> QED BY <1>2, <1>5, <1>6

Action == [type : {"save", "add"}] \cup [type : {"remove"}, index : 1..MaxTargets]

LEMMA AppliedAction ==
  ASSUME NEW ts \in Targets, NEW action \in Action,
         action.type = "remove" => action.index <= Len(ts)
  PROVE  ApplyAction(ts, action) \in Seq(Target)
<1>0. ts \in Seq(Target) /\ Len(ts) \in Nat
  BY TargetsAre
<1>1. CASE action.type = "add"
  <2>1. [name |-> Blank, key |-> None, enabled |-> FALSE] \in Target
    BY DEF Target
  <2>2. ApplyAction(ts, action) = Append(ts, [name |-> Blank, key |-> None, enabled |-> FALSE])
    BY <1>1 DEF ApplyAction
  <2> QED BY <1>0, <2>1, <2>2
<1>2. CASE action.type = "remove"
  <2> DEFINE left == [i \in 1..Len(ts) - 1 |-> ts[IF i < action.index THEN i ELSE i + 1]]
  <2>1. ApplyAction(ts, action) = left
    BY <1>2 DEF ApplyAction
  <2>2. Len(ts) - 1 \in Nat
    BY <1>0, <1>2 DEF Action
  <2>3. \A i \in 1..Len(ts) - 1 : left[i] \in Target
    BY <1>0
  <2>4. left \in [1..Len(ts) - 1 -> Target]
    BY <2>3
  <2> HIDE DEF left
  <2>5. left \in Seq(Target)
    BY <2>2, <2>4
  <2> QED BY <2>1, <2>5
<1>3. CASE action.type = "save"
  BY <1>0, <1>3 DEF ApplyAction
<1> QED BY <1>1, <1>2, <1>3 DEF Action

LEMMA SwitchedTargets ==
  ASSUME NEW ts \in Targets, NEW index, NEW name, NEW value \in BOOLEAN
  PROVE  SetTargetEnabled(ts, index, name, value) \in Targets
<1>1. PICK n \in 0..MaxTargets : ts \in [1..n -> Target]
  BY DEF Targets
<1>2. \A t \in Target : [t EXCEPT !.enabled = value] \in Target
  BY DEF Target
<1>3. \A hit : [ts EXCEPT ![hit].enabled = value] \in [1..n -> Target]
  BY <1>1, <1>2
<1>4. SetTargetEnabled(ts, index, name, value) \in [1..n -> Target]
  BY <1>3 DEF SetTargetEnabled
<1> QED BY <1>1, <1>4 DEF Targets

LEMMA RestoredKeys ==
  ASSUME NEW ts \in Targets, NEW imported \in Seq(Target)
  PROVE  /\ RestoreKeys(ts, imported) \in Seq(Target)
         /\ KeysRestored(ts, imported, RestoreKeys(ts, imported))
<1> DEFINE new == RestoreKeys(ts, imported)
           Same(i) == {j \in DOMAIN ts : ts[j].name = imported[i].name}
           first(i) == CHOOSE j \in Same(i) : \A k \in Same(i) : j <= k
<1>1. ts \in Seq(Target)
  BY TargetsAre
<1>2. \A i \in DOMAIN imported : Same(i) # {} => first(i) \in Same(i)
  <2>1. \A i \in DOMAIN imported : Same(i) \in SUBSET Nat
    BY <1>1
  <2> QED BY <2>1, FirstPosition
<1>3. \A i \in DOMAIN imported :
        new[i] = IF imported[i].key # None \/ Same(i) = {} THEN imported[i]
                 ELSE [imported[i] EXCEPT !.key = ts[first(i)].key]
  BY DEF RestoreKeys
<1>8. DOMAIN new = DOMAIN imported /\ new = [i \in DOMAIN imported |-> new[i]]
  BY DEF RestoreKeys
<1> HIDE DEF first, Same, new
<1>4. \A t \in Target, k \in Target :
        /\ [t EXCEPT !.key = k.key] \in Target
        /\ [t EXCEPT !.key = k.key].name = t.name
        /\ [t EXCEPT !.key = k.key].key = k.key
  BY DEF Target
<1>5. \A i \in DOMAIN imported : imported[i] \in Target
  OBVIOUS
<1>6. \A i \in DOMAIN imported : \A j \in Same(i) : ts[j] \in Target
  BY <1>1 DEF Same
<1>7. ASSUME NEW i \in DOMAIN imported
      PROVE  /\ new[i] \in Target /\ new[i].name = imported[i].name
             /\ imported[i].key # None \/ Same(i) = {} => new[i].key = imported[i].key
             /\ imported[i].key = None /\ Same(i) # {} => new[i].key = ts[first(i)].key
  <2>1. CASE imported[i].key # None \/ Same(i) = {}
    BY <1>3, <1>5, <2>1
  <2>2. CASE imported[i].key = None /\ Same(i) # {}
    <3>1. first(i) \in Same(i) /\ ts[first(i)] \in Target
      BY <1>2, <1>6, <2>2
    <3> DEFINE t == imported[i]
               k == ts[first(i)]
    <3>2. t \in Target /\ k \in Target /\ new[i] = [t EXCEPT !.key = k.key]
      BY <1>3, <1>5, <2>2, <3>1
    <3> HIDE DEF t, k
    <3>3. new[i] \in Target /\ new[i].name = t.name /\ new[i].key = k.key
      BY <1>4, <3>2
    <3> QED BY <2>2, <3>3 DEF t, k
  <2> QED BY <2>1, <2>2
<1>9. new \in Seq(Target)
  <2>1. new \in [1..Len(imported) -> Target]
    BY <1>7, <1>8
  <2> QED BY <2>1
<1>10. KeysRestored(ts, imported, new)
  BY <1>2, <1>7, <1>8 DEF KeysRestored, Same
<1> QED BY <1>9, <1>10 DEF new

----------------------------------------------------------------------------
(* Configurations *)

\* A complete file: whatever a configuration may hold, and any number of targets.
Edition ==
  [server : ServerSettings, notifications : NotificationSettings,
   webAuth : WebAuthSettings, chat : ChatSettings, targets : Seq(Target)]

LEMMA EditionsAre ==
  /\ \A c \in Config : c \in Edition
  /\ \A c \in Edition : Valid(c) => c \in Config
BY TargetsAre DEF Config, Edition, Valid, ValidTargets

LEMMA FieldsTyped ==
  ASSUME NEW c, c = [s \in Sections |-> c[s]], c.server \in ServerSettings,
         c.notifications \in NotificationSettings, c.webAuth \in WebAuthSettings,
         c.chat \in ChatSettings
  PROVE  /\ c.targets \in Targets => c \in Config
         /\ c.targets \in Seq(Target) => c \in Edition
BY DEF Config, Edition, Sections

LEMMA RedactedTyped ==
  ASSUME NEW c \in Config
  PROVE  Redacted(c) \in Config
<1> DEFINE hidden == [i \in DOMAIN c.targets |-> [c.targets[i] EXCEPT !.key = None]]
<1>1. hidden \in Targets
  BY RedactedTargets DEF Config
<1>2. /\ DOMAIN Redacted(c) = Sections
      /\ Redacted(c).server = [c.server EXCEPT !.key = None]
      /\ Redacted(c).notifications = [c.notifications EXCEPT !.webhook = None]
      /\ Redacted(c).webAuth = [c.webAuth EXCEPT !.password = None, !.overlay = None]
      /\ Redacted(c).chat = [c.chat EXCEPT !.apiKey = None, !.client = None, !.secret = None]
      /\ Redacted(c).targets = hidden
  BY DEF Redacted, Config, Sections
<1>7. Redacted(c) = [s \in Sections |-> Redacted(c)[s]]
  BY ZenonT(30) DEF Redacted, Config, Sections
<1> HIDE DEF hidden
<1>3. [c.server EXCEPT !.key = None] \in ServerSettings
  BY DEF Config, ServerSettings, Entered
<1>4. [c.notifications EXCEPT !.webhook = None] \in NotificationSettings
  BY DEF Config, NotificationSettings, Entered
<1>5. [c.webAuth EXCEPT !.password = None, !.overlay = None] \in WebAuthSettings
  BY DEF Config, WebAuthSettings, Entered
<1>6. [c.chat EXCEPT !.apiKey = None, !.client = None, !.secret = None] \in ChatSettings
  BY DEF Config, ChatSettings, Entered
<1> QED BY <1>1, <1>2, <1>3, <1>4, <1>5, <1>6, <1>7, FieldsTyped

LEMMA DefaultTyped == Default \in Config /\ Valid(Default)
<1>1. <<>> \in Targets
  <2> DEFINE empty == <<>>
  <2>1. empty \in Seq(Target) /\ Len(empty) = 0
    OBVIOUS
  <2> HIDE DEF empty
  <2>2. Len(empty) <= MaxTargets
    BY <2>1, BoundsAssumption
  <2>3. empty \in Targets
    BY <2>1, <2>2, TargetsAre
  <2> QED BY <2>3 DEF empty
<1>2. Default.server \in ServerSettings /\ Default.notifications \in NotificationSettings
      /\ Default.webAuth \in WebAuthSettings
  BY DEF Default, ServerSettings, NotificationSettings, WebAuthSettings, Entered, Setting
<1>3. Default.chat \in ChatSettings
  BY DEF Default, ChatSettings, Entered, Setting
<1>4. Default \in Config
  BY <1>1, <1>2, <1>3 DEF Default, Config
<1>5. ValidServer(Default.server) /\ ValidNotifications(Default.notifications)
      /\ ValidWebAuth(Default.webAuth)
  BY ValueAssumption DEF Default, ValidServer, ValidNotifications, ValidWebAuth, Acceptable
<1>6. ValidChat(Default.chat)
  <2>1. Default.chat.selectors = {} /\ Cardinality({}) = 0
    BY FS_EmptySet DEF Default
  <2>2. "kick" \in Flag => ~Default.chat.flags["kick"]
    BY DEF Default
  <2>3. Default.chat.capacity = Standard /\ Default.chat.channel = None
    BY DEF Default
  <2> QED BY <2>1, <2>2, <2>3, ValueAssumption DEF ValidChat, Acceptable
<1>7. ValidTargets(Default.targets)
  BY BoundsAssumption DEF Default, ValidTargets
<1> QED BY <1>4, <1>5, <1>6, <1>7 DEF Valid

LEMMA FlagTyped ==
  ASSUME NEW c \in Config, NEW flag, NEW value \in BOOLEAN
  PROVE  SetFlag(c, flag, value) \in Config /\ SecretsOf(SetFlag(c, flag, value)) = SecretsOf(c)
<1>1. SetFlag(c, flag, value) = [c EXCEPT !.chat = [c.chat EXCEPT !.flags = [c.chat.flags EXCEPT ![flag] = value]]]
  BY DEF SetFlag, Config, ChatSettings
<1>2. [c.chat.flags EXCEPT ![flag] = value] \in [Flag -> BOOLEAN]
  BY DEF Config, ChatSettings
<1>3. [c.chat EXCEPT !.flags = [c.chat.flags EXCEPT ![flag] = value]] \in ChatSettings
  BY <1>2 DEF Config, ChatSettings
<1>4. SetFlag(c, flag, value) \in Config
  BY <1>1, <1>3 DEF Config
<1>5. SecretsOf(SetFlag(c, flag, value)) = SecretsOf(c)
  BY <1>1 DEF SecretsOf, Config, ChatSettings
<1> QED BY <1>4, <1>5

SecretNames == {"key", "webhook", "password", "overlay", "apiKey", "client", "secret"}

\* No secret gets lost on the way from c to u, but for those cleared.
NoSecretLost(c, u, cleared) ==
  \A s \in SecretNames : SecretsOf(c)[s] # None /\ SecretsOf(u)[s] = None => s \in cleared

IsForm(form) ==
  \/ form \in Forms
  \/ form \in [targets : Targets, action : Action]

LEMMA FormTyped ==
  ASSUME NEW c \in Config, NEW form, IsForm(form), Mergeable(c, form)
  PROVE  MergeForm(c, form) \in Edition /\ NoSecretLost(c, MergeForm(c, form), Cleared(form))
<1> DEFINE u == MergeForm(c, form)
<1>1. /\ u.server = IF "server" \in DOMAIN form THEN MergeServer(c.server, form.server) ELSE c.server
      /\ u.notifications = IF "notifications" \in DOMAIN form
                           THEN MergeNotifications(c.notifications, form.notifications)
                           ELSE c.notifications
      /\ u.webAuth = IF "webAuth" \in DOMAIN form THEN MergeWebAuth(c.webAuth, form.webAuth) ELSE c.webAuth
      /\ u.chat = IF "chat" \in DOMAIN form THEN MergeChat(c.chat, form.chat) ELSE c.chat
      /\ u.targets = IF "targets" \in DOMAIN form
                     THEN ApplyAction(MergeTargets(c.targets, form.targets), form.action)
                     ELSE c.targets
      /\ u = [server |-> u.server, notifications |-> u.notifications, webAuth |-> u.webAuth,
              chat |-> u.chat, targets |-> u.targets]
  BY DEF MergeForm
<1> HIDE DEF u
<1>2. /\ "server" \in DOMAIN form => form.server \in ServerForm
      /\ "notifications" \in DOMAIN form => form.notifications \in NotificationsForm
      /\ "webAuth" \in DOMAIN form => form.webAuth \in WebAuthForm
      /\ "chat" \in DOMAIN form => form.chat \in ChatForm
      /\ "targets" \in DOMAIN form => form.targets \in Targets /\ form.action \in Action
  BY FormsAssumption DEF IsForm, Sections
<1>3. u.server \in ServerSettings /\ (c.server.key # None => u.server.key # None)
  BY <1>1, <1>2 DEF Config, MergeServer, Kept, ServerForm, ServerSettings, Entered, Setting
<1>4. /\ u.notifications \in NotificationSettings
      /\ c.notifications.webhook # None /\ u.notifications.webhook = None => "webhook" \in Cleared(form)
  <2>1. CASE "notifications" \in DOMAIN form
    BY <1>1, <1>2, <2>1
       DEF Config, MergeNotifications, Kept, UpdatedSecret, NotificationsForm,
           NotificationSettings, Entered, Setting, Cleared
  <2>2. CASE "notifications" \notin DOMAIN form
    BY <1>1, <2>2 DEF Config
  <2> QED BY <2>1, <2>2
<1>5. /\ u.webAuth \in WebAuthSettings
      /\ c.webAuth.password # None => u.webAuth.password # None
      /\ c.webAuth.overlay # None => u.webAuth.overlay # None
  BY <1>1, <1>2 DEF Config, MergeWebAuth, Kept, WebAuthForm, WebAuthSettings, Entered
<1>6. /\ u.chat \in ChatSettings
      /\ c.chat.apiKey # None /\ u.chat.apiKey = None => "apiKey" \in Cleared(form)
      /\ c.chat.client # None /\ u.chat.client = None => "client" \in Cleared(form)
      /\ c.chat.secret # None /\ u.chat.secret = None => "secret" \in Cleared(form)
  <2>1. CASE "chat" \in DOMAIN form
    <3>1. u.chat = MergeChat(c.chat, form.chat) /\ form.chat \in ChatForm /\ c.chat \in ChatSettings
      BY <1>1, <1>2, <2>1 DEF Config
    <3>2. u.chat.flags \in [Flag -> BOOLEAN]
      BY <3>1 DEF MergeChat, ChatForm, ChatSettings
    <3>3. u.chat \in ChatSettings
      BY <3>1, <3>2 DEF MergeChat, ChatForm, ChatSettings, Kept, UpdatedSecret, Entered, Setting
    <3>4. /\ c.chat.apiKey # None /\ u.chat.apiKey = None => form.chat.clearApiKey
          /\ c.chat.secret # None /\ u.chat.secret = None => form.chat.clearSecret
          /\ u.chat.client = form.chat.client
      BY <3>1 DEF MergeChat, Kept, UpdatedSecret
    <3> QED BY <2>1, <3>3, <3>4 DEF Cleared
  <2>2. CASE "chat" \notin DOMAIN form
    BY <1>1, <2>2 DEF Config
  <2> QED BY <2>1, <2>2
<1>7. u.targets \in Seq(Target)
  <2>1. CASE "targets" \in DOMAIN form
    <3>1. /\ MergeTargets(c.targets, form.targets) \in Targets
          /\ Len(MergeTargets(c.targets, form.targets)) = Len(form.targets)
      BY <1>2, <2>1, MergedTargets DEF Mergeable, Config
    <3>2. form.action.type = "remove" => form.action.index <= Len(form.targets)
      BY <2>1 DEF Mergeable
    <3> QED BY <1>1, <1>2, <2>1, <3>1, <3>2, AppliedAction
  <2>2. CASE "targets" \notin DOMAIN form
    BY <1>1, <2>2, TargetsAre DEF Config
  <2> QED BY <2>1, <2>2
<1>8. u \in Edition
  BY <1>1, <1>3, <1>4, <1>5, <1>6, <1>7 DEF Edition
<1>9. NoSecretLost(c, u, Cleared(form))
  BY <1>3, <1>4, <1>5, <1>6 DEF NoSecretLost, SecretsOf, SecretNames
<1> QED BY <1>8, <1>9 DEF u

LEMMA ImportTyped ==
  ASSUME NEW c \in Config, NEW imported \in Edition
  PROVE  /\ RestoreSecrets(c, imported) \in Edition
         /\ NoSecretLost(c, RestoreSecrets(c, imported), {})
         /\ KeysRestored(c.targets, imported.targets, RestoreSecrets(c, imported).targets)
<1> DEFINE u == RestoreSecrets(c, imported)
<1>1. /\ u.server = [imported.server EXCEPT !.key = Kept(@, c.server.key)]
      /\ u.notifications = [imported.notifications EXCEPT !.webhook = Kept(@, c.notifications.webhook)]
      /\ u.webAuth = [imported.webAuth EXCEPT !.password = Kept(@, c.webAuth.password),
                                             !.overlay = Kept(@, c.webAuth.overlay)]
      /\ u.chat = [imported.chat EXCEPT !.apiKey = Kept(@, c.chat.apiKey),
                                       !.client = Kept(@, c.chat.client),
                                       !.secret = Kept(@, c.chat.secret)]
      /\ u.targets = RestoreKeys(c.targets, imported.targets)
  BY DEF RestoreSecrets, Edition
<1>9. u = [s \in Sections |-> u[s]]
  BY ZenonT(30) DEF RestoreSecrets, Edition, Sections
<1> HIDE DEF u
<1>2. u.server \in ServerSettings /\ (c.server.key # None => u.server.key # None)
  BY <1>1 DEF Config, Edition, Kept, ServerSettings, Entered
<1>3. u.notifications \in NotificationSettings
      /\ (c.notifications.webhook # None => u.notifications.webhook # None)
  BY <1>1 DEF Config, Edition, Kept, NotificationSettings, Entered
<1>4. /\ u.webAuth \in WebAuthSettings
      /\ c.webAuth.password # None => u.webAuth.password # None
      /\ c.webAuth.overlay # None => u.webAuth.overlay # None
  BY <1>1 DEF Config, Edition, Kept, WebAuthSettings, Entered
<1>5. /\ u.chat \in ChatSettings
      /\ c.chat.apiKey # None => u.chat.apiKey # None
      /\ c.chat.client # None => u.chat.client # None
      /\ c.chat.secret # None => u.chat.secret # None
  BY <1>1 DEF Config, Edition, Kept, ChatSettings, Entered
<1>6. u.targets \in Seq(Target) /\ KeysRestored(c.targets, imported.targets, u.targets)
  BY <1>1, RestoredKeys DEF Config, Edition
<1>7. u \in Edition
  BY <1>2, <1>3, <1>4, <1>5, <1>6, <1>9, FieldsTyped
<1>8. NoSecretLost(c, u, {})
  BY <1>2, <1>3, <1>4, <1>5 DEF NoSecretLost, SecretsOf, SecretNames
<1> QED BY <1>6, <1>7, <1>8 DEF u

----------------------------------------------------------------------------
(* Operations *)

LEMMA OperationKinds ==
  ASSUME NEW op \in Operation
  PROVE  \/ op.type \in {"flag", "kick"} /\ op.flag \in Flag /\ op.value \in BOOLEAN
         \/ op.type = "form" /\ IsForm(op.form)
         \/ op.type = "switch" /\ op.value \in BOOLEAN
BY DEF Operation, IsForm, Action

\* A file with all its sections holds what a configuration may hold.
ImportComplete(op) == op.type = "import" /\ Complete(op.config) => op.config \in Edition

ClearedBy(op) == IF op.type = "form" THEN Cleared(op.form) ELSE {}

LEMMA SameSecrets ==
  ASSUME NEW c, NEW u, SecretsOf(u) = SecretsOf(c), NEW cleared
  PROVE  NoSecretLost(c, u, cleared)
BY DEF NoSecretLost

\* What an update makes of a configuration is one when it is valid; it has every secret
\* that the operation does not clear, and the keys of the targets by their names.
LEMMA UpdatesTyped ==
  ASSUME NEW c \in Config, NEW op, IsOperation(op), ImportComplete(op), NEW u \in Updated(c, op)
  PROVE  /\ Valid(u) => u \in Config
         /\ NoSecretLost(c, u, ClearedBy(op))
         /\ op.type = "import" => KeysRestored(c.targets, op.config.targets, u.targets)
<1>1. CASE op.type = "import"
  <2>1. u = RestoreSecrets(c, op.config) /\ Complete(op.config)
    BY <1>1 DEF Updated
  <2>2. /\ u \in Edition /\ NoSecretLost(c, u, {})
        /\ KeysRestored(c.targets, op.config.targets, u.targets)
    BY <1>1, <2>1, ImportTyped DEF ImportComplete
  <2> QED BY <1>1, <2>2, EditionsAre DEF ClearedBy
<1>2. CASE op.type # "import"
  <2>1. op \in Operation
    BY <1>2 DEF IsOperation
  <2>2. CASE op.type \in {"flag", "kick"} /\ op.flag \in Flag /\ op.value \in BOOLEAN
    <3>1. u = SetFlag(c, op.flag, op.value)
      BY <2>2 DEF Updated
    <3> QED BY <1>2, <2>2, <3>1, FlagTyped, SameSecrets
  <2>3. CASE op.type = "form" /\ IsForm(op.form)
    <3>1. u = MergeForm(c, op.form) /\ Mergeable(c, op.form)
      BY <2>3 DEF Updated
    <3>2. u \in Edition /\ NoSecretLost(c, u, Cleared(op.form))
      BY <2>3, <3>1, FormTyped
    <3> QED BY <1>2, <2>3, <3>2, EditionsAre DEF ClearedBy
  <2>4. CASE op.type = "switch" /\ op.value \in BOOLEAN
    <3>1. u = [c EXCEPT !.targets = SetTargetEnabled(c.targets, op.index, op.name, op.value)]
      BY <2>4 DEF Updated, Config
    <3>2. SetTargetEnabled(c.targets, op.index, op.name, op.value) \in Targets
      BY <2>4, SwitchedTargets DEF Config
    <3>3. u \in Config /\ SecretsOf(u) = SecretsOf(c)
      BY <3>1, <3>2 DEF Config, SecretsOf
    <3> QED BY <1>2, <3>3, SameSecrets
  <2> QED BY <2>1, <2>2, <2>3, <2>4, OperationKinds
<1> QED BY <1>1, <1>2

----------------------------------------------------------------------------
(* Types *)

LocalComplete(local) ==
  /\ local.stage \in Updating \cup {"lock"} => ImportComplete(local.op)
  /\ local.stage \in AtKick => "kick" \in Flag

\* Types as an inductive invariant: the database holds a valid configuration.
TInv == TypeOK /\ Valid(saved) /\ \A r \in Caller : LocalComplete(request[r])

Fits(local) == IsLocal(local) /\ LocalComplete(local)

LEMMA IdleFits == Fits(Idle)
BY DEF Fits, IsLocal, LocalComplete, Idle, Updating, AtKick

LEMMA WaitingFits ==
  ASSUME NEW op, IsOperation(op), ImportComplete(op)
  PROVE  Fits(Waiting(op))
BY DEF Fits, IsLocal, LocalComplete, Waiting, Updating, AtKick

\* A request does a step of its own.
LEMMA OwnStep ==
  ASSUME TInv, NEW r \in Caller, NEW local, Fits(local),
         request' = [request EXCEPT ![r] = local],
         UNCHANGED <<saved, current, cache, file, actorChat, remote>>,
         lock' \in Request \cup {"free"},
         lateExport' \in BOOLEAN, kickUpset' \in BOOLEAN, applyUpset' \in BOOLEAN,
         requests' \in Nat, faults' \in Nat
  PROVE  TInv'
<1>1. DOMAIN request' = Caller
      /\ \A q \in Caller : request'[q] = IF q = r THEN local ELSE request[q]
  BY DEF TInv, TypeOK
<1>2. \A q \in Caller : Fits(request'[q])
  BY <1>1 DEF TInv, TypeOK, Fits
<1>3. TypeOK'
  BY <1>1, <1>2 DEF TInv, TypeOK, Fits
<1> QED BY <1>2, <1>3 DEF TInv, Fits

LEMMA SubmitTypes ==
  ASSUME TInv, NEW r \in Request, NEW op, IsOperation(op), op.type # "import",
         \/ Begin(r, Waiting(op)) /\ UNCHANGED faults
         \/ Submit(r, op),
         UNCHANGED <<shared, history>>
  PROVE  TInv'
<1>1. Fits(Waiting(op)) /\ r \in Caller
  BY WaitingFits DEF ImportComplete, Caller
<1>2. request' = [request EXCEPT ![r] = Waiting(op)] /\ requests' \in Nat /\ faults' \in Nat
  BY DEF Begin, Submit, TInv, TypeOK
<1> QED BY <1>1, <1>2, OwnStep DEF shared, history, TInv, TypeOK

\* A position on a page.
LEMMA PagePosition ==
  ASSUME NEW page \in Targets, NEW i \in DOMAIN page
  PROVE  i \in 1..MaxTargets /\ page[i] \in Target
<1>1. page \in Seq(Target) /\ Len(page) <= MaxTargets
  BY TargetsAre
<1> QED BY <1>1, BoundsAssumption

LEMMA ToggleFlagTypes ==
  ASSUME TInv, NEW r \in Request, ToggleFlag(r)
  PROVE  TInv'
<1>1. PICK f \in Flag, v \in BOOLEAN : Begin(r, Waiting([type |-> "flag", flag |-> f, value |-> v]))
  BY DEF ToggleFlag
<1>2. IsOperation([type |-> "flag", flag |-> f, value |-> v])
  BY DEF IsOperation, Operation
<1> QED BY <1>1, <1>2, SubmitTypes DEF ToggleFlag

LEMMA SaveSettingsTypes ==
  ASSUME TInv, NEW r \in Request, SaveSettings(r)
  PROVE  TInv'
<1>1. PICK form \in Forms : Begin(r, Waiting([type |-> "form", form |-> form]))
  BY DEF SaveSettings
<1>2. IsOperation([type |-> "form", form |-> form])
  BY DEF IsOperation, Operation
<1> QED BY <1>1, <1>2, SubmitTypes DEF SaveSettings

LEMMA SubmitTargetsTypes ==
  ASSUME TInv, NEW r \in Request, SubmitTargets(r)
  PROVE  TInv'
<1> DEFINE page == request[r].page
<1>1. page \in Targets
  <2>1. r \in Caller /\ request[r].stage = "page"
    BY DEF SubmitTargets, Caller
  <2> QED BY <2>1 DEF TInv, TypeOK, IsLocal
<1> HIDE DEF page
<1>2. ASSUME NEW new \in Targets, NEW a \in Action, Submit(r, TargetsForm(new, a)) PROVE TInv'
  <2>1. TargetsForm(new, a) \in Operation
    BY DEF TargetsForm, Operation, Action
  <2>2. IsOperation(TargetsForm(new, a)) /\ TargetsForm(new, a).type # "import"
    BY <2>1 DEF IsOperation, TargetsForm
  <2> QED BY <1>2, <2>2, SubmitTypes DEF Submit
<1>3. ASSUME NEW a, a \in {[type |-> "save"], [type |-> "add"]}
                         \cup {[type |-> "remove", index |-> i] : i \in DOMAIN page}
      PROVE  a \in Action
  BY <1>1, <1>3, PagePosition DEF Action
<1>4. ASSUME NEW i \in DOMAIN page, NEW n \in Name
      PROVE  [page EXCEPT ![i] = [name |-> n, key |-> n, enabled |-> TRUE]] \in Targets
  <2>1. PICK k \in 0..MaxTargets : page \in [1..k -> Target]
    BY <1>1 DEF Targets
  <2>2. [name |-> n, key |-> n, enabled |-> TRUE] \in Target
    BY DEF Target
  <2>3. [page EXCEPT ![i] = [name |-> n, key |-> n, enabled |-> TRUE]] \in [1..k -> Target]
    BY <2>1, <2>2
  <2> QED BY <2>1, <2>3 DEF Targets
<1>5. \/ \E a \in {[type |-> "save"], [type |-> "add"]}
                    \cup {[type |-> "remove", index |-> i] : i \in DOMAIN page} :
           Submit(r, TargetsForm(page, a))
      \/ \E i \in DOMAIN page, n \in Name :
           Submit(r, TargetsForm([page EXCEPT ![i] = [name |-> n, key |-> n, enabled |-> TRUE]],
                                 [type |-> "save"]))
  BY DEF SubmitTargets, page
<1>6. [type |-> "save"] \in Action
  BY DEF Action
<1> QED BY <1>1, <1>2, <1>3, <1>4, <1>5, <1>6

LEMMA SwitchTargetTypes ==
  ASSUME TInv, NEW r \in Request, SwitchTarget(r)
  PROVE  TInv'
<1> DEFINE page == request[r].page
<1>1. page \in Targets
  <2>1. r \in Caller /\ request[r].stage = "page"
    BY DEF SwitchTarget, Caller
  <2> QED BY <2>1 DEF TInv, TypeOK, IsLocal
<1> HIDE DEF page
<1>2. PICK i \in DOMAIN page :
        Submit(r, [type |-> "switch", index |-> i, name |-> page[i].name, value |-> ~page[i].enabled])
  BY DEF SwitchTarget, page
<1> DEFINE op == [type |-> "switch", index |-> i, name |-> page[i].name, value |-> ~page[i].enabled]
<1>3. IsOperation(op)
  <2>1. i \in 1..MaxTargets /\ page[i].name \in Name \cup {Blank} /\ (~page[i].enabled) \in BOOLEAN
    BY <1>1, PagePosition DEF Target
  <2> QED BY <2>1 DEF IsOperation, Operation
<1> QED BY <1>2, <1>3, SubmitTypes DEF Submit

LEMMA ImportFileTypes ==
  ASSUME TInv, NEW r \in Request, ImportFile(r)
  PROVE  TInv'
<1>1. PICK config \in FilesFrom(file) : Begin(r, Waiting([type |-> "import", config |-> config]))
  BY DEF ImportFile
<1> DEFINE op == [type |-> "import", config |-> config]
<1>2. file \in Config
  BY DEF ImportFile, TInv, TypeOK, Files
<1>3. file.targets \in Seq(Target)
  BY <1>2, TargetsAre DEF Config
<1>4. ASSUME NEW ts \in Edited(file.targets) PROVE ts \in Seq(Target)
  <2>1. CASE ts = file.targets
    BY <1>3, <2>1
  <2>2. ASSUME NEW n \in Name, ts = <<[name |-> n, key |-> None, enabled |-> TRUE]>>
        PROVE  ts \in Seq(Target)
    <3>1. [name |-> n, key |-> None, enabled |-> TRUE] \in Target
      BY DEF Target
    <3> QED BY <2>2, <3>1
  <2>3. ASSUME NEW i \in DOMAIN file.targets, NEW j \in DOMAIN file.targets,
               ts = <<file.targets[i], file.targets[j]>>
        PROVE  ts \in Seq(Target)
    <3>1. file.targets[i] \in Target /\ file.targets[j] \in Target
      BY <1>3
    <3> QED BY <2>3, <3>1
  <2>4. ASSUME NEW i \in DOMAIN file.targets, ts = [file.targets EXCEPT ![i].key = FileKey]
        PROVE  ts \in Seq(Target)
    <3>1. \A t \in Target : [t EXCEPT !.key = FileKey] \in Target
      BY DEF Target
    <3>2. ts \in [1..Len(file.targets) -> Target]
      BY <1>3, <2>4, <3>1
    <3> QED BY <1>3, <3>2
  <2> QED BY <2>1, <2>2, <2>3, <2>4 DEF Edited
<1>5. config.targets \in Seq(Target)
      /\ (Complete(config) => config \in Edition)
  <2>1. CASE config = [s \in Sections \ {"chat"} |-> file[s]]
    <3>1. config.targets = file.targets /\ ~Complete(config)
      BY <2>1 DEF Sections, Complete
    <3> QED BY <1>2, <1>3, <3>1
  <2>2. ASSUME NEW ts \in Edited(file.targets), config = [file EXCEPT !.targets = ts]
        PROVE  config \in Edition /\ config.targets = ts
    BY <1>2, <1>4, <2>2 DEF Config, Edition
  <2> QED BY <1>4, <2>1, <2>2 DEF FilesFrom
<1>6. Fits(Waiting(op)) /\ r \in Caller
  BY <1>5, WaitingFits DEF IsOperation, ImportComplete, Caller
<1>7. request' = [request EXCEPT ![r] = Waiting(op)] /\ requests' \in Nat
  BY <1>1 DEF Begin, TInv, TypeOK
<1> QED BY <1>6, <1>7, OwnStep DEF ImportFile, shared, history, TInv, TypeOK

LEMMA OpenTargetsTypes ==
  ASSUME TInv, NEW r \in Request, OpenTargets(r)
  PROVE  TInv'
<1> DEFINE local == [stage |-> "page", page |-> Redacted(current).targets]
<1>1. Redacted(current).targets \in Targets
  BY RedactedTyped DEF TInv, TypeOK, Config
<1>2. Fits(local) /\ r \in Caller
  BY <1>1 DEF Fits, IsLocal, LocalComplete, Updating, AtKick, Caller
<1>3. request' = [request EXCEPT ![r] = local] /\ requests' \in Nat
  BY DEF OpenTargets, Begin, TInv, TypeOK
<1> HIDE DEF local
<1> QED BY <1>2, <1>3, OwnStep DEF OpenTargets, shared, history, TInv, TypeOK

LEMMA ToggleKickTypes ==
  ASSUME TInv, NEW r \in Request, ToggleKick(r)
  PROVE  TInv'
<1>1. PICK v \in BOOLEAN : Begin(r, CallKick(v, current.chat))
  BY DEF ToggleKick
<1>2. current.chat.channel \in Value
  BY DEF ToggleKick, Credentials, TInv, TypeOK, Config, ChatSettings, Entered
<1>3. Fits(CallKick(v, current.chat)) /\ r \in Caller
  BY <1>2 DEF ToggleKick, CallKick, Fits, IsLocal, LocalComplete, Updating, Caller
<1>4. request' = [request EXCEPT ![r] = CallKick(v, current.chat)] /\ requests' \in Nat
  BY <1>1 DEF Begin, TInv, TypeOK
<1>5. kickUpset' \in BOOLEAN
  BY DEF ToggleKick, TInv, TypeOK
<1> QED BY <1>3, <1>4, <1>5, OwnStep DEF ToggleKick, shared, TInv, TypeOK

\* What the variables other than those of the requests hold.
SharedTyped ==
  /\ saved \in Config /\ current \in Config /\ Valid(saved)
  /\ lock \in Request \cup {"free"}
  /\ cache \in Files /\ file \in Files
  /\ actorChat \in ChatSettings
  /\ remote \subseteq Subscription

CountersTyped ==
  /\ lateExport \in BOOLEAN /\ kickUpset \in BOOLEAN /\ applyUpset \in BOOLEAN
  /\ requests \in Nat /\ faults \in Nat

LEMMA TInvIs ==
  TInv <=> /\ SharedTyped /\ CountersTyped
           /\ DOMAIN request = Caller /\ \A r \in Caller : Fits(request[r])
BY DEF TInv, TypeOK, SharedTyped, CountersTyped, Fits

\* A step of a request that changes more than its own state.
LEMMA CommonStep ==
  ASSUME TInv, NEW r \in Caller, NEW local, Fits(local),
         request' = [request EXCEPT ![r] = local], SharedTyped', CountersTyped'
  PROVE  TInv'
<1>1. DOMAIN request' = Caller
      /\ \A q \in Caller : request'[q] = IF q = r THEN local ELSE request[q]
  BY DEF TInv, TypeOK
<1>2. \A q \in Caller : Fits(request'[q])
  BY <1>1, TInvIs
<1>3. TInv' <=> /\ SharedTyped' /\ CountersTyped'
                /\ DOMAIN request' = Caller /\ \A q \in Caller : Fits(request'[q])
  BY DEF TInv, TypeOK, SharedTyped, CountersTyped, Fits
<1> QED BY <1>1, <1>2, <1>3

LEMMA ExportTypes ==
  ASSUME TInv, NEW r \in Request, Export(r) \/ RenderExport(r) \/ CacheExport(r)
  PROVE  TInv'
<1> USE DEF Caller
<1>1. SharedTyped /\ CountersTyped /\ Fits(request[r])
  BY TInvIs
<1>2. CASE Export(r)
  <2>1. SharedTyped'
    BY <1>1, <1>2 DEF Export, SharedTyped
  <2>2. CountersTyped' /\ request' = [request EXCEPT ![r] = Idle]
    BY <1>1, <1>2 DEF Export, Begin, history, CountersTyped
  <2> QED BY <2>1, <2>2, CommonStep, IdleFits
<1>3. CASE RenderExport(r)
  <2> DEFINE local == [stage |-> "rendered", json |-> Redacted(current)]
  <2>1. Redacted(current) \in Config
    BY <1>1, RedactedTyped DEF SharedTyped
  <2>2. Fits(local)
    BY <2>1 DEF Fits, IsLocal, LocalComplete, Updating, AtKick
  <2>3. request' = [request EXCEPT ![r] = local]
    BY <1>3 DEF RenderExport, Begin
  <2>4. SharedTyped' /\ CountersTyped'
    BY <1>1, <1>3 DEF RenderExport, Begin, shared, history, SharedTyped, CountersTyped
  <2> QED BY <2>2, <2>3, <2>4, CommonStep
<1>4. CASE CacheExport(r)
  <2>1. request[r].json \in Config
    BY <1>1, <1>4 DEF CacheExport, Fits, IsLocal, LocalComplete
  <2>2. SharedTyped'
    BY <1>1, <1>4, <2>1 DEF CacheExport, SharedTyped, Files
  <2>3. CountersTyped' /\ request' = [request EXCEPT ![r] = Idle]
    BY <1>1, <1>4 DEF CacheExport, CountersTyped
  <2> QED BY <2>2, <2>3, CommonStep, IdleFits
<1> QED BY <1>2, <1>3, <1>4

LEMMA EndTypes ==
  ASSUME TInv, NEW r \in Request, LookupFails(r) \/ SaveFails(r) \/ ApplyFails(r)
  PROVE  TInv'
<1>1. SharedTyped /\ CountersTyped
  BY TInvIs
<1>2. SharedTyped' /\ request' = [request EXCEPT ![r] = Idle]
  BY <1>1 DEF LookupFails, SaveFails, ApplyFails, shared, SharedTyped
<1>3. CountersTyped'
  <2>1. faults' \in Nat /\ requests' \in Nat
    BY <1>1 DEF LookupFails, SaveFails, ApplyFails, Fault, CountersTyped
  <2>2. lateExport' \in BOOLEAN /\ kickUpset' \in BOOLEAN /\ applyUpset' \in BOOLEAN
    BY <1>1 DEF LookupFails, SaveFails, ApplyFails, CountersTyped
  <2> QED BY <2>1, <2>2 DEF CountersTyped
<1> QED BY <1>2, <1>3, CommonStep, IdleFits DEF Caller

LEMMA LockTypes ==
  ASSUME TInv, NEW r \in Request, Lock(r)
  PROVE  TInv'
<1> USE DEF Caller
<1>1. SharedTyped /\ CountersTyped /\ Fits(request[r])
  BY TInvIs
<1>2. lock' = r \/ lock' = lock
  BY DEF Lock
<1>3. SharedTyped' /\ CountersTyped'
  BY <1>1, <1>2 DEF Lock, SharedTyped, CountersTyped
<1>4. IsOperation(request[r].op) /\ ImportComplete(request[r].op)
  BY <1>1 DEF Lock, Fits, IsLocal, LocalComplete
<1>5. CASE request' = [request EXCEPT ![r] = Idle]
  BY <1>3, <1>5, CommonStep, IdleFits
<1>6. ASSUME NEW u \in Updated(current, request[r].op), Valid(u),
             request' = [request EXCEPT ![r] = [stage |-> "saving", op |-> @.op, updated |-> u]]
      PROVE  TInv'
  <2> DEFINE local == [stage |-> "saving", op |-> request[r].op, updated |-> u]
  <2>1. u \in Config
    BY <1>1, <1>4, <1>6, UpdatesTyped DEF SharedTyped
  <2>2. Fits(local)
    BY <1>4, <1>6, <2>1 DEF Fits, IsLocal, LocalComplete, Updating, AtKick
  <2>3. request' = [request EXCEPT ![r] = local]
    BY <1>6
  <2> HIDE DEF local
  <2> QED BY <1>3, <2>2, <2>3, CommonStep
<1> QED BY <1>5, <1>6 DEF Lock

LEMMA HolderTypes ==
  ASSUME IInv, TInv, NEW r \in Request, Save(r) \/ EmptyCache(r)
  PROVE  TInv'
<1> USE DEF Caller
<1>1. SharedTyped /\ CountersTyped /\ Fits(request[r]) /\ DOMAIN request = Caller
  BY TInvIs
<1>2. PICK stage \in {"saved", "emptied"} : request' = [request EXCEPT ![r].stage = stage]
  BY DEF Save, EmptyCache
<1> DEFINE local == [request[r] EXCEPT !.stage = stage]
<1>3. request[r].stage \in Updating /\ "stage" \in DOMAIN request[r]
  BY DEF Save, EmptyCache, Updating, IInv, LockHeld
<1>4. local.stage = stage /\ local.op = request[r].op /\ local.updated = request[r].updated
  BY <1>3, SameFields
<1>5. request' = [request EXCEPT ![r] = local]
  BY <1>2
<1> HIDE DEF local
<1>6. IsOperation(request[r].op) /\ ImportComplete(request[r].op)
      /\ request[r].updated \in Config /\ Valid(request[r].updated)
  BY <1>1, <1>3 DEF Fits, IsLocal, LocalComplete, Updating
<1>7. Fits(local)
  BY <1>4, <1>6 DEF Fits, IsLocal, LocalComplete, Updating, AtKick
<1>8. SharedTyped'
  BY <1>1, <1>6 DEF Save, EmptyCache, SharedTyped, Files
<1>9. CountersTyped'
  BY <1>1 DEF Save, EmptyCache, CountersTyped
<1> QED BY <1>5, <1>7, <1>8, <1>9, CommonStep

LEMMA PublishTypes ==
  ASSUME TInv, NEW r \in Request, PublishConfig(r)
  PROVE  TInv'
<1> USE DEF Caller
<1>1. SharedTyped /\ CountersTyped /\ Fits(request[r])
  BY TInvIs
<1> DEFINE op == request[r].op
           u  == request[r].updated
<1>2. u \in Config
  BY <1>1 DEF PublishConfig, Fits, IsLocal
<1>3. Fits(AfterUpdate(op, u))
  <2>1. \A how \in {"all", "youtube"} : Fits([stage |-> "apply", how |-> how, chat |-> u.chat])
    BY <1>2 DEF Fits, IsLocal, LocalComplete, Updating, AtKick, Config
  <2>2. Fits([stage |-> "reread"])
    BY DEF Fits, IsLocal, LocalComplete, Updating, AtKick
  <2> HIDE DEF op, u
  <2>3. AfterUpdate(op, u) \in {[stage |-> "apply", how |-> how, chat |-> u.chat] : how \in {"all", "youtube"}}
                               \cup {[stage |-> "reread"], Idle}
    BY DEF AfterUpdate
  <2> QED BY <2>1, <2>2, <2>3, IdleFits
<1>4. request' = [request EXCEPT ![r] = AfterUpdate(op, u)]
  BY DEF PublishConfig
<1>5. SharedTyped'
  BY <1>1, <1>2 DEF PublishConfig, SharedTyped
<1>6. CountersTyped'
  BY <1>1 DEF PublishConfig, CountersTyped
<1> HIDE DEF op, u
<1> QED BY <1>3, <1>4, <1>5, <1>6, CommonStep

LEMMA ActorTypes ==
  ASSUME TInv, NEW r \in Request, Reread(r) \/ Apply(r)
  PROVE  TInv'
<1> USE DEF Caller
<1>1. SharedTyped /\ CountersTyped /\ Fits(request[r])
  BY TInvIs
<1>2. CountersTyped'
  BY <1>1 DEF Reread, Apply, history, CountersTyped
<1>3. CASE Reread(r)
  <2> DEFINE local == [stage |-> "apply", how |-> "all", chat |-> current.chat]
  <2>1. Fits(local)
    BY <1>1 DEF SharedTyped, Fits, IsLocal, LocalComplete, Updating, AtKick, Config
  <2>2. request' = [request EXCEPT ![r] = local] /\ SharedTyped'
    BY <1>1, <1>3 DEF Reread, shared, SharedTyped
  <2> HIDE DEF local
  <2> QED BY <1>2, <2>1, <2>2, CommonStep
<1>4. CASE Apply(r)
  <2> DEFINE chat == request[r].chat
             merged == [actorChat EXCEPT !.selectors = chat.selectors, !.adaptive = chat.adaptive,
                                         !.flags["polling"] = chat.flags["polling"]]
  <2>1. chat \in ChatSettings /\ actorChat \in ChatSettings
    BY <1>1, <1>4 DEF Apply, Fits, IsLocal, SharedTyped
  <2>2. "polling" \in Flag => chat.flags["polling"] \in BOOLEAN
    BY <2>1 DEF ChatSettings
  <2>3. [actorChat.flags EXCEPT !["polling"] = chat.flags["polling"]] \in [Flag -> BOOLEAN]
    BY <2>1, <2>2 DEF ChatSettings
  <2>4. merged \in ChatSettings
    BY <2>1, <2>3 DEF ChatSettings
  <2>5. actorChat' = chat \/ actorChat' = merged
    BY <1>4 DEF Apply
  <2> HIDE DEF merged, chat
  <2>6. SharedTyped'
    BY <1>1, <1>4, <2>1, <2>4, <2>5 DEF Apply, SharedTyped
  <2> QED BY <1>2, <1>4, <2>6, CommonStep, IdleFits DEF Apply
<1> QED BY <1>3, <1>4

LEMMA KickTypes ==
  ASSUME TInv, NEW r \in Caller, KickStep(r)
  PROVE  TInv'
<1>1. SharedTyped /\ CountersTyped /\ Fits(request[r])
  BY TInvIs
<1>2. request[r].stage \in AtKick /\ "kick" \in Flag
  BY <1>1 DEF KickStep, ListSubscriptions, CreateSubscription, DeleteSubscriptions, KickFails,
     AtKick, Fits, LocalComplete
<1>3. \A v \in BOOLEAN : Fits(KickDone(r, v))
  <2>1. ASSUME NEW v \in BOOLEAN PROVE IsOperation([type |-> "kick", flag |-> "kick", value |-> v])
    BY <1>2 DEF IsOperation, Operation
  <2> QED BY <2>1, WaitingFits, IdleFits DEF KickDone, ImportComplete
<1>4. \A ch \in Value : [channel |-> ch, id |-> r] \in Subscription
  BY DEF Subscription
<1>5. CountersTyped'
  <2>1. faults' \in Nat /\ requests' \in Nat
    <3>1. CASE KickFails(r)
      <4>1. faults' = faults + 1 /\ UNCHANGED requests
        BY <3>1 DEF KickFails, Fault
      <4> QED BY <1>1, <4>1 DEF CountersTyped
    <3>2. CASE ListSubscriptions(r) \/ CreateSubscription(r) \/ DeleteSubscriptions(r)
      BY <1>1, <3>2 DEF ListSubscriptions, CreateSubscription, DeleteSubscriptions, CountersTyped
    <3> QED BY <3>1, <3>2 DEF KickStep
  <2>2. lateExport' \in BOOLEAN /\ kickUpset' \in BOOLEAN /\ applyUpset' \in BOOLEAN
    <3>1. CASE KickFails(r)
      <4>1. kickUpset' = (kickUpset \/ (r # Boot /\ remote' # remote))
            /\ UNCHANGED <<lateExport, applyUpset>>
        BY <3>1 DEF KickFails
      <4> QED BY <1>1, <4>1 DEF CountersTyped
    <3>2. CASE ListSubscriptions(r) \/ CreateSubscription(r) \/ DeleteSubscriptions(r)
      BY <1>1, <3>2 DEF ListSubscriptions, CreateSubscription, DeleteSubscriptions, CountersTyped, history
    <3> QED BY <3>1, <3>2 DEF KickStep
  <2> QED BY <2>1, <2>2 DEF CountersTyped
<1>6. request[r].stage = "create" => request[r].channel \in Value
  BY <1>1 DEF Fits, IsLocal
<1>7. SharedTyped'
  <2>1. remote' \subseteq Subscription
    BY <1>1, <1>2, <1>4, <1>6 DEF KickStep, ListSubscriptions, CreateSubscription,
       DeleteSubscriptions, KickFails, SharedTyped, AtKick, shared
  <2>2. UNCHANGED <<saved, current, lock, cache, file, actorChat>>
    BY DEF KickStep, ListSubscriptions, CreateSubscription, DeleteSubscriptions, KickFails, shared
  <2> QED BY <1>1, <2>1, <2>2 DEF SharedTyped
<1>8. \E local : Fits(local) /\ request' = [request EXCEPT ![r] = local]
  <2>1. CASE ListSubscriptions(r)
    <3>1. request[r].value \in BOOLEAN /\ request[r].channel \in Value
      BY <1>1, <2>1 DEF ListSubscriptions, Fits, IsLocal
    <3> DEFINE found == Subscriptions(request[r].channel)
    <3>2. found \subseteq Subscription
      BY <1>1 DEF Subscriptions, SharedTyped
    <3> HIDE DEF found
    <3>3. Fits([stage |-> "create", channel |-> request[r].channel])
      BY <1>2, <3>1 DEF Fits, IsLocal, LocalComplete, Updating
    <3>4. Fits([stage |-> "delete", found |-> found])
      BY <1>2, <3>2 DEF Fits, IsLocal, LocalComplete, Updating
    <3>5. \E local \in {[stage |-> "create", channel |-> request[r].channel],
                        [stage |-> "delete", found |-> found], KickDone(r, request[r].value)} :
            request' = [request EXCEPT ![r] = local]
      BY <2>1 DEF ListSubscriptions, found
    <3> QED BY <1>3, <3>1, <3>3, <3>4, <3>5
  <2>2. CASE CreateSubscription(r) \/ DeleteSubscriptions(r)
    BY <1>3, <2>2 DEF CreateSubscription, DeleteSubscriptions
  <2>3. CASE KickFails(r)
    BY <2>3, IdleFits DEF KickFails
  <2> QED BY <2>1, <2>2, <2>3 DEF KickStep
<1> QED BY <1>5, <1>7, <1>8, CommonStep

----------------------------------------------------------------------------
(* Types at start-up *)

LEMMA StartedFits ==
  ASSUME NEW c \in Config, Valid(c)
  PROVE  DOMAIN Started(c) = Caller /\ \A r \in Caller : Fits(Started(c)[r])
<1>1. ASSUME "kick" \in Flag, c.chat.flags["kick"] PROVE Fits(CallKick(TRUE, c.chat))
  <2>1. c.chat.channel \in Value
    BY <1>1 DEF Valid, ValidChat, Config, ChatSettings, Entered
  <2> QED BY <1>1, <2>1 DEF CallKick, Fits, IsLocal, LocalComplete, Updating
<1> QED BY <1>1, IdleFits DEF Started

LEMMA FreshTypes ==
  ASSUME saved \in Config, Valid(saved), current = saved, lock = "free", cache = NoFile,
         file \in Files, actorChat = saved.chat, request = Started(saved),
         remote \subseteq Subscription, CountersTyped
  PROVE  TInv
<1>1. SharedTyped
  BY DEF SharedTyped, Files, Config
<1> QED BY <1>1, StartedFits, TInvIs

LEMMA InitialTypes == Init => TInv
<1> SUFFICES ASSUME Init PROVE TInv
  OBVIOUS
<1>1. saved \in Config /\ Valid(saved)
  BY StoredAssumption, DefaultTyped DEF Init
<1>2. remote \subseteq Subscription
  BY <1>1 DEF Init, Subscription, Caller, Valid, ValidChat, Config, ChatSettings, Entered
<1>3. file \in Files /\ CountersTyped
  BY DEF Init, Files, CountersTyped
<1> QED BY <1>1, <1>2, <1>3, FreshTypes DEF Init

LEMMA RestartTypes ==
  ASSUME TInv, Restart
  PROVE  TInv'
<1>1. SharedTyped /\ CountersTyped
  BY TInvIs
<1>2. SharedTyped'
  BY <1>1 DEF Restart, SharedTyped, Files, Config
<1>3. CountersTyped'
  <2>1. faults' \in Nat /\ requests' \in Nat
    BY <1>1 DEF Restart, Fault, CountersTyped
  <2>2. lateExport' \in BOOLEAN /\ kickUpset' \in BOOLEAN /\ applyUpset' \in BOOLEAN
    BY <1>1 DEF Restart, CountersTyped
  <2> QED BY <2>1, <2>2 DEF CountersTyped
<1>4. DOMAIN request' = Caller /\ \A r \in Caller : Fits(request'[r])
  BY <1>1, StartedFits DEF Restart, SharedTyped
<1>5. TInv' <=> /\ SharedTyped' /\ CountersTyped'
                /\ DOMAIN request' = Caller /\ \A q \in Caller : Fits(request'[q])
  BY DEF TInv, TypeOK, SharedTyped, CountersTyped, Fits
<1> QED BY <1>2, <1>3, <1>4, <1>5

LEMMA TypesAreInductive == IInv /\ TInv /\ [Next]_vars => TInv'
<1> SUFFICES ASSUME IInv, TInv, [Next]_vars PROVE TInv'
  OBVIOUS
<1>1. ASSUME NEW r \in Request, Submission(r) PROVE TInv'
  BY <1>1, ToggleFlagTypes, SaveSettingsTypes, OpenTargetsTypes, SubmitTargetsTypes,
     SwitchTargetTypes, ImportFileTypes, ToggleKickTypes, ExportTypes DEF Submission
<1>2. ASSUME NEW r \in Request,
             \/ Lock(r) \/ LookupFails(r) \/ Save(r) \/ SaveFails(r) \/ EmptyCache(r)
             \/ PublishConfig(r) \/ Reread(r) \/ Apply(r) \/ ApplyFails(r) \/ CacheExport(r)
      PROVE  TInv'
  BY <1>2, LockTypes, EndTypes, HolderTypes, PublishTypes, ActorTypes, ExportTypes
<1>3. ASSUME NEW r \in Caller, KickStep(r) PROVE TInv'
  BY <1>3, KickTypes
<1>4. CASE Restart
  BY <1>4, RestartTypes
<1>5. CASE UNCHANGED vars
  BY <1>5 DEF vars, shared, history, TInv, TypeOK
<1> QED BY <1>1, <1>2, <1>3, <1>4, <1>5 DEF Next, Submission, KickStep

LEMMA AlwaysTInv == Spec => []TInv
BY InitialTypes, TypesAreInductive, InitialInvariant, InductiveInvariant, PTL DEF Spec

\* The database, the channel, the requests and the exports hold what their types in the
\* code say, and what is saved has been validated (ConfigHandle::update).
THEOREM ConfigTypeCorrect == Spec => []TypeOK
<1>1. TInv => TypeOK
  BY DEF TInv
<1> QED BY <1>1, AlwaysTInv, PTL

\* No update loses a secret it was not asked to clear, and an imported file gives every
\* target without a key in it that of the target with its name, and no key to one that
\* has its own (merge_form, restore_redacted_secrets).
THEOREM SecretsAreKept == Spec => SecretsKept
<1> DEFINE Kept_(r) ==
             LET op == request[r].op
                 before == SecretsOf(saved)
                 after  == SecretsOf(saved')
             IN  /\ request[r].stage = "saving"
                 /\ \A s \in DOMAIN before : before[s] # None /\ after[s] = None
                                             => op.type = "form" /\ s \in Cleared(op.form)
                 /\ op.type = "import" => KeysRestored(saved.targets, op.config.targets, saved'.targets)
<1>1. ASSUME IInv, TInv, [Next]_vars, saved' # saved
      PROVE  \E r \in Request : Kept_(r)
  <2>1. PICK r \in Request : Save(r)
    BY <1>1, OnlySaveWrites
  <2>2. r \in Caller /\ request[r].stage = "saving" /\ saved' = request[r].updated
    BY <2>1 DEF Save, Caller
  <2>3. lock = r /\ lock # "free"
    BY <1>1, <2>2, FreeIsNoCaller DEF IInv, LockHeld, Updating
  <2>4. saved = current /\ saved' \in Updated(saved, request[r].op)
    BY <1>1, <2>2, <2>3 DEF IInv, UnderTheLock
  <2>5. Fits(request[r]) /\ saved \in Config
    BY <1>1, <2>2, TInvIs DEF SharedTyped
  <2>6. IsOperation(request[r].op) /\ ImportComplete(request[r].op)
    BY <2>2, <2>5 DEF Fits, IsLocal, LocalComplete, Updating
  <2>7. /\ NoSecretLost(saved, saved', ClearedBy(request[r].op))
        /\ request[r].op.type = "import" => KeysRestored(saved.targets, request[r].op.config.targets, saved'.targets)
    BY <2>4, <2>5, <2>6, UpdatesTyped
  <2>8. DOMAIN SecretsOf(saved) = SecretNames
    BY DEF SecretsOf, SecretNames
  <2> QED BY <2>2, <2>7, <2>8 DEF NoSecretLost, ClearedBy
<1>2. IInv /\ TInv /\ [Next]_vars => [saved' # saved => \E r \in Request : Kept_(r)]_vars
  BY <1>1
<1> QED BY <1>2, AlwaysIInv, AlwaysTInv, PTL DEF Spec, SecretsKept

----------------------------------------------------------------------------
(* The subscription at Kick and the flag *)

UnderWay == {"lock"} \cup Updating

IsToggling(local) ==
  \/ local.stage \in AtKick
  \/ local.stage \in UnderWay /\ local.op.type = "kick"

LEMMA TogglingIs == \A r : r \in TogglingKick <=> r \in Caller /\ IsToggling(request[r])
BY DEF TogglingKick, IsToggling, UnderWay, Updating

FlagOn    == current.chat.flags["kick"]
Delivered == Subscriptions(current.chat.channel) # {}

\* How far the toggle of r has come, and what that says of Kick: until it has called
\* Kick the subscription goes with the flag; after that, with the value the toggle is
\* about to save.  The task of AppHandle::new finds the subscription it looks for.
Told(r, local) ==
  /\ local.stage = "list" => /\ local.channel = current.chat.channel
                             /\ Delivered <=> FlagOn
                             /\ local.value <=> (IF r = Boot THEN FlagOn ELSE ~FlagOn)
                             /\ r = Boot => FlagOn
  /\ local.stage = "create" => /\ r # Boot /\ ~FlagOn /\ ~Delivered
                               /\ local.channel = current.chat.channel
  /\ local.stage = "delete" => /\ r # Boot /\ FlagOn /\ Delivered
                               /\ local.found = Subscriptions(current.chat.channel)
  /\ local.stage \in UnderWay => r # Boot /\ (Delivered <=> local.op.value)

OneToggle ==
  /\ TogglingKick = {} => (Delivered <=> FlagOn)
  /\ \A r \in TogglingKick : TogglingKick = {r} /\ Told(r, request[r])

\* A save other than that of a toggle has not touched what decides on the delivery.
SavedAsRead ==
  \A r \in Caller :
    request[r].stage \in {"saved", "emptied"} /\ request[r].op.type # "kick"
      => KickSettings(saved.chat) = KickSettings(current.chat)

KInv == "kick" \in Flag /\ ~kickUpset => OneToggle /\ SavedAsRead

LEMMA SameKickSettings ==
  ASSUME NEW a, NEW b, KickSettings(a) = KickSettings(b), "kick" \in Flag
  PROVE  a.channel = b.channel /\ (a.flags["kick"] <=> b.flags["kick"])
BY DEF KickSettings

\* A step between two states of one and the same operation, or one that has to do with
\* no toggle at all.
Continues(before, after) ==
  \/ ~IsToggling(before) /\ ~IsToggling(after)
  \/ before.stage \in UnderWay /\ after.stage \in UnderWay /\ after.op = before.op

LEMMA ToggleGoesOn ==
  ASSUME "kick" \in Flag, OneToggle, DOMAIN request = Caller, NEW r \in Caller, NEW local,
         request' = [request EXCEPT ![r] = local], Continues(request[r], local),
         UNCHANGED remote, KickSettings(current'.chat) = KickSettings(current.chat)
  PROVE  OneToggle'
<1>1. \A q \in Caller : request'[q] = IF q = r THEN local ELSE request[q]
  OBVIOUS
<1>2. \A q : q \in TogglingKick' <=> q \in Caller /\ IsToggling(request'[q])
  BY DEF TogglingKick, IsToggling, UnderWay, Updating
<1>3. IsToggling(request[r]) <=> IsToggling(local)
  BY DEF Continues, IsToggling, UnderWay, Updating, AtKick
<1>4. TogglingKick' = TogglingKick
  BY <1>1, <1>2, <1>3, TogglingIs
<1>5. current'.chat.channel = current.chat.channel
      /\ (current'.chat.flags["kick"] <=> current.chat.flags["kick"])
  BY SameKickSettings
<1>6. (FlagOn' <=> FlagOn) /\ (Delivered' <=> Delivered)
      /\ Subscriptions(current.chat.channel)' = Subscriptions(current.chat.channel)
  BY <1>5 DEF FlagOn, Delivered, Subscriptions
<1>7. ASSUME NEW q \in TogglingKick PROVE Told(q, request[q])'
  <2>1. Told(q, request[q]) /\ q \in Caller /\ IsToggling(request[q])
    BY <1>7, TogglingIs DEF OneToggle
  <2>2. CASE q # r \/ request[q] = local
    BY <1>1, <1>5, <1>6, <2>1, <2>2 DEF Told
  <2>3. CASE q = r /\ request[q] # local
    <3>1. request[q].stage \in UnderWay /\ local.stage \in UnderWay /\ local.op = request[q].op
      BY <2>1, <2>3 DEF Continues
    <3>2. local.stage \notin AtKick
      BY <3>1 DEF UnderWay, Updating, AtKick
    <3>3. q # Boot /\ (Delivered' <=> local.op.value)
      BY <1>6, <2>1, <3>1 DEF Told
    <3> QED BY <1>1, <2>3, <3>2, <3>3 DEF Told, AtKick
  <2> QED BY <2>2, <2>3
<1> QED BY <1>4, <1>6, <1>7 DEF OneToggle

\* A step that leaves the configuration and the subscriptions alone.
LEMMA QuietStep ==
  ASSUME KInv, DOMAIN request = Caller, NEW r \in Caller, NEW local,
         request' = [request EXCEPT ![r] = local],
         UNCHANGED <<saved, current, remote>>,
         ~kickUpset' => ~kickUpset /\ Continues(request[r], local),
         local.stage \in {"saved", "emptied"} =>
           request[r].stage \in {"saved", "emptied"} /\ local.op = request[r].op
  PROVE  KInv'
<1> SUFFICES ASSUME "kick" \in Flag, ~kickUpset' PROVE OneToggle' /\ SavedAsRead'
  BY DEF KInv
<1>1. OneToggle /\ SavedAsRead
  BY DEF KInv
<1>2. OneToggle'
  BY <1>1, ToggleGoesOn
<1>3. SavedAsRead'
  BY <1>1 DEF SavedAsRead
<1> QED BY <1>2, <1>3

\* Requests that have nothing to do with Kick.
LEMMA OtherStep ==
  ASSUME IInv, KInv, NEW r \in Request,
         \/ ToggleFlag(r) \/ SaveSettings(r) \/ OpenTargets(r) \/ SubmitTargets(r)
         \/ SwitchTarget(r) \/ ImportFile(r) \/ Export(r) \/ RenderExport(r) \/ CacheExport(r)
         \/ Reread(r) \/ Apply(r) \/ ApplyFails(r)
  PROVE  KInv'
<1>1. UNCHANGED <<saved, current, remote, kickUpset>>
  BY DEF ToggleFlag, SaveSettings, OpenTargets, SubmitTargets, SwitchTarget, Submit, ImportFile,
     Export, RenderExport, CacheExport, Reread, Apply, ApplyFails, shared, history
<1>2. request[r].stage \notin UnderWay \cup AtKick
  <2>1. request[r].stage \in {"idle", "page", "rendered", "reread", "apply"}
    <3>1. CASE ToggleFlag(r) \/ SaveSettings(r) \/ OpenTargets(r) \/ ImportFile(r)
               \/ Export(r) \/ RenderExport(r)
      <4>1. request[r] = Idle
        BY <3>1 DEF ToggleFlag, SaveSettings, OpenTargets, ImportFile, Export, RenderExport, Begin
      <4> QED BY <4>1 DEF Idle
    <3>2. CASE SubmitTargets(r) \/ SwitchTarget(r)
      BY <3>2 DEF SubmitTargets, SwitchTarget
    <3>3. CASE CacheExport(r) \/ Reread(r) \/ Apply(r) \/ ApplyFails(r)
      BY <3>3 DEF CacheExport, Reread, Apply, ApplyFails
    <3> QED BY <3>1, <3>2, <3>3
  <2> QED BY <2>1 DEF UnderWay, Updating, AtKick
<1> DEFINE Innocent(local) == ~IsToggling(local) /\ local.stage \notin {"saved", "emptied"}
<1>3. ASSUME NEW op, op.type # "kick" PROVE Innocent(Waiting(op))
  BY <1>3 DEF Waiting, IsToggling, AtKick
<1>4. \E local : Innocent(local) /\ request' = [request EXCEPT ![r] = local]
  <2>1. CASE ToggleFlag(r)
    <3>1. PICK op : op.type = "flag" /\ Begin(r, Waiting(op))
      BY <2>1 DEF ToggleFlag
    <3> QED BY <1>3, <3>1 DEF Begin
  <2>2. CASE SaveSettings(r)
    <3>1. PICK op : op.type = "form" /\ Begin(r, Waiting(op))
      BY <2>2 DEF SaveSettings
    <3> QED BY <1>3, <3>1 DEF Begin
  <2>3. CASE ImportFile(r)
    <3>1. PICK op : op.type = "import" /\ Begin(r, Waiting(op))
      BY <2>3 DEF ImportFile
    <3> QED BY <1>3, <3>1 DEF Begin
  <2>4. CASE SubmitTargets(r) \/ SwitchTarget(r)
    <3>1. \A page, action : TargetsForm(page, action).type # "kick"
      BY DEF TargetsForm
    <3>2. \E op : op.type # "kick" /\ Submit(r, op)
      <4>1. CASE SubmitTargets(r)
        <5>1. \E page, action : Submit(r, TargetsForm(page, action))
          BY <4>1 DEF SubmitTargets
        <5> QED BY <3>1, <5>1
      <4>2. CASE SwitchTarget(r)
        <5>1. \E i, n, v : Submit(r, [type |-> "switch", index |-> i, name |-> n, value |-> v])
          BY <4>2 DEF SwitchTarget
        <5> QED BY <5>1
      <4> QED BY <2>4, <4>1, <4>2
    <3> QED BY <1>3, <3>2 DEF Submit
  <2>5. CASE OpenTargets(r) \/ RenderExport(r) \/ Reread(r)
    BY <2>5 DEF OpenTargets, RenderExport, Reread, Begin, IsToggling, UnderWay, Updating, AtKick
  <2>6. CASE Export(r) \/ CacheExport(r) \/ Apply(r) \/ ApplyFails(r)
    BY <2>6 DEF Export, CacheExport, Apply, ApplyFails, Begin, Idle, IsToggling, UnderWay,
       Updating, AtKick
  <2> QED BY <2>1, <2>2, <2>3, <2>4, <2>5, <2>6
<1>5. PICK local : Innocent(local) /\ request' = [request EXCEPT ![r] = local]
  BY <1>4
<1>6. Continues(request[r], local)
  BY <1>2, <1>5 DEF Continues, IsToggling
<1>7. DOMAIN request = Caller /\ r \in Caller
  BY DEF IInv, LockHeld, Caller
<1> QED BY <1>1, <1>5, <1>6, <1>7, QuietStep

\* An update that is refused or fails.
LEMMA GivenUp ==
  ASSUME IInv, KInv, NEW r \in Request, request[r].stage \in UnderWay,
         request' = [request EXCEPT ![r] = Idle], UNCHANGED <<saved, current, remote>>,
         ~kickUpset' => ~kickUpset /\ request[r].op.type # "kick"
  PROVE  KInv'
<1>1. ~kickUpset' => Continues(request[r], Idle)
  BY DEF Continues, IsToggling, Idle, UnderWay, Updating, AtKick
<1>2. DOMAIN request = Caller /\ r \in Caller
  BY DEF IInv, LockHeld, Caller
<1> QED BY <1>1, <1>2, QuietStep DEF Idle

LEMMA LockKeepsKick ==
  ASSUME IInv, KInv, NEW r \in Request, Lock(r)
  PROVE  KInv'
<1>1. UNCHANGED <<saved, current, remote>> /\ request[r].stage = "lock"
  BY DEF Lock
<1>2. CASE request' = [request EXCEPT ![r] = Idle] /\ kickUpset' = (kickUpset \/ request[r].op.type = "kick")
  BY <1>1, <1>2, GivenUp DEF UnderWay
<1>3. ASSUME NEW u, UNCHANGED kickUpset,
             request' = [request EXCEPT ![r] = [stage |-> "saving", op |-> @.op, updated |-> u]]
      PROVE  KInv'
  <2> DEFINE local == [stage |-> "saving", op |-> request[r].op, updated |-> u]
  <2>1. Continues(request[r], local) /\ local.stage = "saving"
    BY <1>1 DEF Continues, UnderWay, Updating
  <2>2. request' = [request EXCEPT ![r] = local]
    BY <1>3
  <2> HIDE DEF local
  <2>3. DOMAIN request = Caller /\ r \in Caller
    BY DEF IInv, LockHeld, Caller
  <2> QED BY <1>1, <1>3, <2>1, <2>2, <2>3, QuietStep
<1> QED BY <1>2, <1>3 DEF Lock

LEMMA HolderKeepsKick ==
  ASSUME IInv, KInv, NEW r \in Request, Save(r) \/ EmptyCache(r)
  PROVE  KInv'
<1> USE DEF Caller
<1>1. DOMAIN request = Caller /\ lock = r /\ lock # "free"
  BY FreeIsNoCaller DEF Save, EmptyCache, IInv, LockHeld, Updating
<1>2. PICK stage \in {"saved", "emptied"} : request' = [request EXCEPT ![r].stage = stage]
  BY DEF Save, EmptyCache
<1> DEFINE local == [request[r] EXCEPT !.stage = stage]
<1>3. request[r].stage \in Updating /\ "stage" \in DOMAIN request[r]
  BY DEF Save, EmptyCache, Updating, IInv, LockHeld
<1>4. local.stage = stage /\ local.op = request[r].op
  BY <1>3, SameFields
<1>5. request' = [request EXCEPT ![r] = local]
  BY <1>2
<1> HIDE DEF local
<1>6. Continues(request[r], local)
  BY <1>3, <1>4 DEF Continues, UnderWay, Updating
<1>7. CASE EmptyCache(r)
  <2>1. UNCHANGED <<saved, current, remote, kickUpset>> /\ request[r].stage = "saved"
    BY <1>7 DEF EmptyCache
  <2> QED BY <1>1, <1>4, <1>5, <1>6, <2>1, QuietStep
<1>8. CASE Save(r)
  <2> SUFFICES ASSUME "kick" \in Flag, ~kickUpset' PROVE OneToggle' /\ SavedAsRead'
    BY DEF KInv
  <2>1. ~kickUpset /\ (request[r].op.type # "kick" => KickSettings(saved'.chat) = KickSettings(saved.chat))
    BY <1>8 DEF Save
  <2>2. OneToggle /\ SavedAsRead
    BY <2>1 DEF KInv
  <2>3. OneToggle'
    BY <1>1, <1>5, <1>6, <1>8, <2>2, ToggleGoesOn DEF Save
  <2>4. saved = current /\ UNCHANGED current
    BY <1>1, <1>8 DEF Save, IInv, UnderTheLock
  <2>5. \A q \in Caller : request'[q].stage \in {"saved", "emptied"} => q = r
    <3>1. \A q \in Caller : q # r => request'[q] = request[q] /\ request[q].stage \notin Updating
      BY <1>1, <1>5 DEF IInv, LockHeld
    <3> QED BY <3>1 DEF Updating
  <2>6. request'[r].op = request[r].op
    BY <1>1, <1>4, <1>5
  <2>7. SavedAsRead'
    BY <2>1, <2>4, <2>5, <2>6 DEF SavedAsRead
  <2> QED BY <2>3, <2>7
<1> QED BY <1>7, <1>8

LEMMA PublishKeepsKick ==
  ASSUME IInv, KInv, NEW r \in Request, PublishConfig(r)
  PROVE  KInv'
<1> USE DEF Caller
<1> DEFINE op == request[r].op
           u  == request[r].updated
           local == AfterUpdate(op, u)
<1>1. /\ lock = r /\ lock # "free" /\ saved = u /\ u \in Updated(current, op)
      /\ Sound(op) /\ Shaped(current) /\ DOMAIN request = Caller
      /\ request[r].stage = "emptied"
  BY FreeIsNoCaller
     DEF PublishConfig, IInv, LockHeld, UnderTheLock, AllShaped, Updating
<1>2. /\ current' = u /\ UNCHANGED <<saved, remote, kickUpset>>
      /\ request' = [request EXCEPT ![r] = local]
  BY DEF PublishConfig
<1>3. local.stage \in {"idle", "reread", "apply"}
  BY <1>1, AfterUpdateIs DEF Idle
<1> HIDE DEF local
<1>4. ~IsToggling(local)
  BY <1>3 DEF IsToggling, UnderWay, Updating, AtKick
<1> SUFFICES ASSUME "kick" \in Flag, ~kickUpset' PROVE OneToggle' /\ SavedAsRead'
  BY DEF KInv
<1>5. OneToggle /\ SavedAsRead
  BY <1>2 DEF KInv
<1>6. \A q \in Caller : request'[q] = IF q = r THEN local ELSE request[q]
  BY <1>1, <1>2
<1>7. SavedAsRead'
  <2>1. \A q \in Caller : q # r => request[q].stage \notin Updating
    BY <1>1 DEF IInv, LockHeld
  <2>2. \A q \in Caller : request'[q].stage \notin {"saved", "emptied"}
    BY <1>3, <1>6, <2>1 DEF Updating
  <2> QED BY <2>2 DEF SavedAsRead
<1>8. CASE op.type # "kick"
  <2>1. Continues(request[r], local)
    BY <1>1, <1>4, <1>8 DEF Continues, IsToggling, AtKick
  <2>2. KickSettings(current'.chat) = KickSettings(current.chat)
    BY <1>1, <1>2, <1>5, <1>8 DEF SavedAsRead
  <2>3. OneToggle'
    BY <1>1, <1>2, <1>5, <2>1, <2>2, ToggleGoesOn
  <2> QED BY <1>7, <2>3
<1>9. CASE op.type = "kick"
  <2>1. u = SetFlag(current, "kick", op.value)
    BY <1>1, <1>9 DEF Updated, Sound
  <2>2. u.chat.channel = current.chat.channel /\ u.chat.flags["kick"] = op.value
    <3>1. u.chat.channel = current.chat.channel
      BY <1>1, <2>1, FlagUpdate DEF ChatFields
    <3>2. u.chat.flags["kick"] = op.value
      BY <1>1, <2>1 DEF SetFlag, Shaped, ChatShaped, ChatFields, Sections
    <3> QED BY <3>1, <3>2
  <2>3. r \in TogglingKick
    BY <1>1, <1>9, TogglingIs DEF IsToggling, UnderWay, Updating
  <2>4. TogglingKick = {r} /\ (Delivered <=> op.value)
    <3>1. Told(r, request[r]) /\ TogglingKick = {r}
      BY <1>5, <2>3 DEF OneToggle
    <3> QED BY <1>1, <3>1 DEF Told, UnderWay, Updating
  <2>5. TogglingKick' = {}
    <3>1. \A q : q \in TogglingKick' <=> q \in Caller /\ IsToggling(request'[q])
      BY DEF TogglingKick, IsToggling, UnderWay, Updating
    <3> QED BY <1>4, <1>6, <2>4, <3>1, TogglingIs
  <2>6. (Delivered' <=> Delivered) /\ (FlagOn' <=> op.value)
    BY <1>2, <2>2 DEF Delivered, FlagOn, Subscriptions
  <2> QED BY <1>7, <2>4, <2>5, <2>6 DEF OneToggle
<1> QED BY <1>8, <1>9

\* A toggle begins, or calls Kick.
LEMMA ToggleKickKeepsKick ==
  ASSUME IInv, TInv, KInv, NEW r \in Request, ToggleKick(r)
  PROVE  KInv'
<1> SUFFICES ASSUME "kick" \in Flag, ~kickUpset' PROVE OneToggle' /\ SavedAsRead'
  BY DEF KInv
<1>1. ~kickUpset /\ TogglingKick = {}
  BY DEF ToggleKick
<1>2. OneToggle /\ SavedAsRead
  BY <1>1 DEF KInv
<1>3. PICK v : (FlagOn # v) /\ v \in BOOLEAN /\ request' = [request EXCEPT ![r] = CallKick(v, current.chat)]
  BY DEF ToggleKick, Begin, FlagOn
<1>13. PICK local : local = CallKick(v, current.chat)
  OBVIOUS
<1>4. \A q \in Caller : request'[q] = IF q = r THEN local ELSE request[q]
  BY <1>3, <1>13 DEF IInv, LockHeld
<1>5. r \in Caller /\ r # Boot /\ UNCHANGED <<saved, current, remote>>
  BY CallerAssumption DEF ToggleKick, shared, Caller
<1>6. local.stage = "list" /\ local.channel = current.chat.channel /\ local.value = v
  BY <1>13 DEF CallKick
<1>7. TogglingKick' = {r}
  <2>1. \A q : q \in TogglingKick' <=> q \in Caller /\ IsToggling(request'[q])
    BY DEF TogglingKick, IsToggling, UnderWay, Updating
  <2>2. IsToggling(local)
    BY <1>6 DEF IsToggling, AtKick
  <2> QED BY <1>1, <1>4, <1>5, <2>1, <2>2, TogglingIs
<1>8. (Delivered' <=> Delivered) /\ (FlagOn' <=> FlagOn)
  BY <1>5 DEF Delivered, FlagOn, Subscriptions
<1>9. local.value <=> ~FlagOn
  <2>1. FlagOn \in BOOLEAN
    BY DEF FlagOn, TInv, TypeOK, Config, ChatSettings
  <2> QED BY <1>3, <1>6, <2>1
<1>10. Told(r, local)'
  BY <1>1, <1>2, <1>5, <1>6, <1>8, <1>9 DEF Told, OneToggle, UnderWay, Updating
<1>11. OneToggle'
  BY <1>4, <1>5, <1>7, <1>10 DEF OneToggle
<1>12. SavedAsRead'
  BY <1>2, <1>4, <1>5, <1>6 DEF SavedAsRead
<1> QED BY <1>11, <1>12

LEMMA KickStepKeepsKick ==
  ASSUME IInv, KInv, NEW r \in Caller, KickStep(r)
  PROVE  KInv'
<1> SUFFICES ASSUME "kick" \in Flag, ~kickUpset' PROVE OneToggle' /\ SavedAsRead'
  BY DEF KInv
<1>1. request[r].stage \in AtKick /\ UNCHANGED <<saved, current>>
  BY DEF KickStep, ListSubscriptions, CreateSubscription, DeleteSubscriptions, KickFails,
     shared, history, AtKick
<1>2. ~kickUpset /\ (KickFails(r) => r = Boot \/ UNCHANGED remote)
  <2>1. CASE KickFails(r)
    <3>1. kickUpset' = (kickUpset \/ (r # Boot /\ remote' # remote))
      BY <2>1 DEF KickFails
    <3> QED BY <3>1
  <2>2. CASE UNCHANGED kickUpset /\ ~KickFails(r)
    BY <2>2
  <2> QED BY <2>1, <2>2 DEF KickStep, ListSubscriptions, CreateSubscription, DeleteSubscriptions, history
<1>3. OneToggle /\ SavedAsRead
  BY <1>2 DEF KInv
<1>4. TogglingKick = {r} /\ Told(r, request[r])
  <2>1. r \in TogglingKick
    BY <1>1, TogglingIs DEF IsToggling
  <2> QED BY <1>3, <2>1 DEF OneToggle
<1> DEFINE channel == current.chat.channel
<1>5. FlagOn' <=> FlagOn
  BY <1>1 DEF FlagOn
\* What the step makes of the toggle, and what is to be shown of it.
<1>6. ASSUME NEW local, request' = [request EXCEPT ![r] = local],
             local.stage \in AtKick \cup {"idle", "lock"},
             local.stage = "lock" => local.op.type = "kick",
             local.stage = "idle" => (Delivered' <=> FlagOn),
             local.stage # "idle" => Told(r, local)'
      PROVE  OneToggle' /\ SavedAsRead'
  <2>1. \A q \in Caller : request'[q] = IF q = r THEN local ELSE request[q]
    BY <1>6 DEF IInv, LockHeld
  <2>2. \A q : q \in TogglingKick' <=> q \in Caller /\ IsToggling(request'[q])
    BY DEF TogglingKick, IsToggling, UnderWay, Updating
  <2>3. IsToggling(local) <=> local.stage # "idle"
    BY <1>6 DEF IsToggling, UnderWay, Updating, AtKick
  <2>4. TogglingKick' = IF local.stage = "idle" THEN {} ELSE {r}
    BY <1>4, <2>1, <2>2, <2>3, TogglingIs
  <2>5. OneToggle'
    BY <1>5, <1>6, <2>1, <2>4 DEF OneToggle
  <2>6. SavedAsRead'
    BY <1>1, <1>3, <1>6, <2>1 DEF SavedAsRead, AtKick
  <2> QED BY <2>5, <2>6
<1>7. ASSUME UNCHANGED remote PROVE (Delivered' <=> Delivered)
      /\ Subscriptions(channel)' = Subscriptions(channel)
  BY <1>1, <1>7 DEF Delivered, Subscriptions
<1>8. CASE ListSubscriptions(r)
  <2>1. UNCHANGED remote /\ request[r].stage = "list"
    BY <1>8 DEF ListSubscriptions, shared
  <2>2. /\ request[r].channel = channel /\ (Delivered <=> FlagOn)
        /\ request[r].value <=> (IF r = Boot THEN FlagOn ELSE ~FlagOn)
        /\ r = Boot => FlagOn
    BY <1>4, <2>1 DEF Told
  <2>3. Delivered <=> Subscriptions(request[r].channel) # {}
    BY <2>2 DEF Delivered
  <2>4. CASE r = Boot
    <3>1. request' = [request EXCEPT ![r] = Idle]
      BY <1>8, <2>2, <2>3, <2>4 DEF ListSubscriptions, KickDone
    <3> QED BY <1>6, <1>7, <2>1, <2>2, <3>1 DEF Idle
  <2>5. CASE r # Boot /\ FlagOn
    <3>1. PICK local : local = [stage |-> "delete", found |-> Subscriptions(request[r].channel)]
      OBVIOUS
    <3>3. request' = [request EXCEPT ![r] = local]
      BY <1>8, <2>2, <2>3, <2>5, <3>1 DEF ListSubscriptions
    <3>2. Told(r, local)'
      BY <1>1, <1>5, <1>7, <2>1, <2>2, <2>5, <3>1 DEF Told, UnderWay, Updating
    <3> QED BY <1>6, <3>1, <3>2, <3>3 DEF AtKick
  <2>6. CASE r # Boot /\ ~FlagOn
    <3>1. PICK local : local = [stage |-> "create", channel |-> request[r].channel]
      OBVIOUS
    <3>3. request' = [request EXCEPT ![r] = local]
      BY <1>8, <2>2, <2>3, <2>6, <3>1 DEF ListSubscriptions
    <3>2. Told(r, local)'
      BY <1>1, <1>5, <1>7, <2>1, <2>2, <2>6, <3>1 DEF Told, UnderWay, Updating
    <3> QED BY <1>6, <3>1, <3>2, <3>3 DEF AtKick
  <2> QED BY <2>4, <2>5, <2>6
<1>9. ASSUME NEW v, r # Boot, request' = [request EXCEPT ![r] = KickDone(r, v)], Delivered' <=> v
      PROVE  OneToggle' /\ SavedAsRead'
  <2> DEFINE local == Waiting([type |-> "kick", flag |-> "kick", value |-> v])
  <2>1. request' = [request EXCEPT ![r] = local]
    BY <1>9 DEF KickDone
  <2>2. local.stage = "lock" /\ local.op.type = "kick" /\ local.op.value = v
    BY DEF Waiting
  <2> HIDE DEF local
  <2>3. Told(r, local)'
    BY <1>9, <2>2 DEF Told
  <2> QED BY <1>6, <2>1, <2>2, <2>3
<1>10. CASE CreateSubscription(r)
  <2>1. r # Boot /\ request[r].channel = channel
    BY <1>4, <1>10 DEF CreateSubscription, Told
  <2>2. [channel |-> channel, id |-> r] \in remote'
    BY <1>10, <2>1 DEF CreateSubscription
  <2>3. Delivered'
    BY <1>1, <2>2 DEF Delivered, Subscriptions
  <2> QED BY <1>9, <1>10, <2>1, <2>3 DEF CreateSubscription
<1>11. CASE DeleteSubscriptions(r)
  <2>1. r # Boot /\ request[r].found = Subscriptions(channel)
    BY <1>4, <1>11 DEF DeleteSubscriptions, Told
  <2>2. remote' = remote \ Subscriptions(channel)
    BY <1>11, <2>1 DEF DeleteSubscriptions
  <2>3. ~Delivered'
    BY <1>1, <2>2 DEF Delivered, Subscriptions
  <2> QED BY <1>9, <1>11, <2>1, <2>3 DEF DeleteSubscriptions
<1>12. CASE KickFails(r)
  <2>1. request' = [request EXCEPT ![r] = Idle]
    BY <1>12 DEF KickFails
  <2>2. UNCHANGED remote
    <3>1. r = Boot => request[r].stage = "list"
      BY <1>1, <1>4 DEF Told, AtKick
    <3> QED BY <1>2, <1>12, <3>1 DEF KickFails
  <2>3. Delivered <=> FlagOn
    BY <1>1, <1>4 DEF Told, AtKick
  <2> QED BY <1>6, <1>7, <2>1, <2>2, <2>3 DEF Idle
<1> QED BY <1>8, <1>10, <1>11, <1>12 DEF KickStep

\* The process starts, or starts again: the task of AppHandle::new looks for the
\* subscription of a flag that is on.
LEMMA StartedTold ==
  ASSUME "kick" \in Flag, current = saved, request = Started(saved), Delivered <=> FlagOn
  PROVE  OneToggle /\ SavedAsRead
<1>1. DOMAIN request = Caller
      /\ \A r \in Caller : request[r] = IF r = Boot /\ FlagOn THEN CallKick(TRUE, current.chat) ELSE Idle
  BY DEF Started, FlagOn
<1>2. IsToggling(CallKick(TRUE, current.chat)) /\ ~IsToggling(Idle)
  BY DEF IsToggling, CallKick, Idle, AtKick, UnderWay, Updating
<1>3. FlagOn => Told(Boot, CallKick(TRUE, current.chat))
  BY DEF Told, CallKick, UnderWay, Updating
<1>4. TogglingKick = IF FlagOn THEN {Boot} ELSE {}
  BY <1>1, <1>2, TogglingIs DEF Caller
<1>5. OneToggle
  BY <1>1, <1>3, <1>4 DEF OneToggle, Caller
<1>6. SavedAsRead
  BY DEF SavedAsRead
<1> QED BY <1>5, <1>6

LEMMA InitialKick == Init => KInv
<1> SUFFICES ASSUME Init, "kick" \in Flag PROVE OneToggle /\ SavedAsRead
  BY DEF KInv
<1>1. Delivered <=> FlagOn
  <2> DEFINE subscription == [channel |-> saved.chat.channel, id |-> Boot]
  <2>1. remote = (IF FlagOn THEN {subscription} ELSE {}) /\ current = saved
    BY DEF Init, FlagOn
  <2>2. subscription.channel = saved.chat.channel
    OBVIOUS
  <2> HIDE DEF subscription
  <2> QED BY <2>1, <2>2 DEF Delivered, Subscriptions
<1> QED BY <1>1, StartedTold DEF Init

LEMMA RestartKeepsKick ==
  ASSUME IInv, KInv, Restart
  PROVE  KInv'
<1> SUFFICES ASSUME "kick" \in Flag, ~kickUpset' PROVE OneToggle' /\ SavedAsRead'
  BY DEF KInv
<1>1. ~kickUpset /\ TogglingKick \subseteq {Boot}
  BY DEF Restart
<1>2. OneToggle /\ SavedAsRead
  BY <1>1 DEF KInv
<1>3. Delivered <=> FlagOn
  <2>1. CASE TogglingKick = {}
    BY <1>2, <2>1 DEF OneToggle
  <2>2. CASE Boot \in TogglingKick
    <3>1. Told(Boot, request[Boot]) /\ IsToggling(request[Boot])
      BY <1>2, <2>2, TogglingIs DEF OneToggle
    <3> QED BY <3>1 DEF Told, IsToggling, AtKick
  <2> QED BY <1>1, <2>1, <2>2
<1>4. KickSettings(saved.chat) = KickSettings(current.chat)
  <2>1. CASE lock = "free" \/ request[lock].stage = "saving"
    BY <2>1 DEF IInv, UnderTheLock
  <2>2. CASE lock # "free" /\ request[lock].stage # "saving"
    <3>1. lock \in Request /\ lock \in Caller /\ request[lock].stage \in {"saved", "emptied"}
      BY <2>2 DEF IInv, LockHeld, Updating, Caller
    <3>2. request[lock].op.type # "kick"
      <4>1. lock \notin TogglingKick
        BY <1>1, <3>1, CallerAssumption
      <4> QED BY <3>1, <4>1, TogglingIs DEF IsToggling, UnderWay, Updating
    <3> QED BY <1>2, <3>1, <3>2 DEF SavedAsRead
  <2> QED BY <2>1, <2>2
<1>5. /\ current' = saved /\ saved' = saved /\ remote' = remote /\ request' = Started(saved)
  BY DEF Restart
<1>6. saved.chat.channel = current.chat.channel
      /\ (saved.chat.flags["kick"] <=> current.chat.flags["kick"])
  BY <1>4, SameKickSettings
<1>7. Delivered' <=> FlagOn'
  BY <1>3, <1>5, <1>6 DEF Delivered, FlagOn, Subscriptions
<1>8. DOMAIN request' = Caller
      /\ \A r \in Caller : request'[r] = IF r = Boot /\ FlagOn' THEN CallKick(TRUE, current'.chat) ELSE Idle
  BY <1>5 DEF Started, FlagOn
<1>9. IsToggling(CallKick(TRUE, current'.chat)) /\ ~IsToggling(Idle)
  BY DEF IsToggling, CallKick, Idle, AtKick, UnderWay, Updating
<1>10. \A q : q \in TogglingKick' <=> q \in Caller /\ IsToggling(request'[q])
  BY DEF TogglingKick, IsToggling, UnderWay, Updating
<1>11. TogglingKick' = IF FlagOn' THEN {Boot} ELSE {}
  BY <1>8, <1>9, <1>10 DEF Caller
<1>12. FlagOn' => Told(Boot, CallKick(TRUE, current.chat))'
  BY <1>7 DEF Told, CallKick, UnderWay, Updating
<1>13. OneToggle'
  BY <1>7, <1>8, <1>11, <1>12 DEF OneToggle, Caller
<1>14. SavedAsRead'
  BY <1>5 DEF SavedAsRead
<1> QED BY <1>13, <1>14

LEMMA KickIsInductive == IInv /\ TInv /\ KInv /\ [Next]_vars => KInv'
<1> SUFFICES ASSUME IInv, TInv, KInv, [Next]_vars PROVE KInv'
  OBVIOUS
<1>1. ASSUME NEW r \in Request,
             \/ ToggleFlag(r) \/ SaveSettings(r) \/ OpenTargets(r) \/ SubmitTargets(r)
             \/ SwitchTarget(r) \/ ImportFile(r) \/ Export(r) \/ RenderExport(r) \/ CacheExport(r)
             \/ Reread(r) \/ Apply(r) \/ ApplyFails(r)
      PROVE  KInv'
  BY <1>1, OtherStep
<1>2. ASSUME NEW r \in Request, LookupFails(r) \/ SaveFails(r) PROVE KInv'
  <2>1. /\ request[r].stage \in UnderWay /\ request' = [request EXCEPT ![r] = Idle]
        /\ UNCHANGED <<saved, current, remote>>
        /\ kickUpset' = (kickUpset \/ request[r].op.type = "kick")
    BY <1>2 DEF LookupFails, SaveFails, shared, UnderWay, Updating
  <2> QED BY <2>1, GivenUp
<1>3. ASSUME NEW r \in Request, Lock(r) \/ Save(r) \/ EmptyCache(r) \/ PublishConfig(r) \/ ToggleKick(r)
      PROVE  KInv'
  BY <1>3, LockKeepsKick, HolderKeepsKick, PublishKeepsKick, ToggleKickKeepsKick
<1>4. ASSUME NEW r \in Caller, KickStep(r) PROVE KInv'
  BY <1>4, KickStepKeepsKick
<1>5. CASE Restart
  BY <1>5, RestartKeepsKick
<1>6. CASE UNCHANGED vars
  BY <1>6 DEF vars, shared, history, KInv, OneToggle, SavedAsRead, TogglingKick, Told, Delivered,
     FlagOn, Subscriptions
<1> QED BY <1>1, <1>2, <1>3, <1>4, <1>5, <1>6 DEF Next, KickStep

\* As long as nothing has gone wrong between them, Kick delivers the chat of the channel
\* exactly when the flag says so (set_kick_webhook, AppHandle::new).
THEOREM KickFlagIsTrue == Spec => []KickFlagTrue
<1>1. KInv => KickFlagTrue
  BY DEF KInv, OneToggle, Delivered, FlagOn, KickFlagTrue
<1>2. Spec => []KInv
  BY InitialKick, KickIsInductive, AlwaysIInv, AlwaysTInv, PTL DEF Spec
<1> QED BY <1>1, <1>2, PTL
================================================================================
