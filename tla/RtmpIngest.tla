----------------------------- MODULE RtmpIngest -----------------------------
(***************************************************************************)
(* The RTMP sessions (src/src/server/handler.rs, ProxyHandler) and the     *)
(* dashboard's operator on top of the stream actor, through the calls of   *)
(* StreamHandle: stage_stream waits ten seconds for an answer, end_stream  *)
(* five seconds for room in the mailbox, and both give up after that.      *)
(*                                                                         *)
(* rtmp_rs, an external library, runs the callbacks of one session one     *)
(* after the other.  After on_unpublish the session is no longer in the    *)
(* map, and its on_disconnect has nothing left to do.                      *)
(***************************************************************************)
EXTENDS StreamActor

VARIABLES
  pc,           \* per session: the point its callbacks have reached
  sessionKey,   \* per session: the key it publishes under
  sessions,     \* ProxyHandler.sessions: sessions whose publish was accepted
  ingestKey,    \* config.server.ingest_stream_key
  gaveUp        \* history: some call gave up before the actor had its command

ingestVars == <<pc, sessionKey, sessions, ingestKey, gaveUp>>
allVars == <<vars, ingestVars>>

----------------------------------------------------------------------------
(* Callbacks of a session *)

\* on_publish: the key is compared with the configuration of this moment.
OnPublish(s) ==
  /\ pc[s] = "connected"
  /\ sessionKey' = [sessionKey EXCEPT ![s] = ingestKey]
  /\ pc' = [pc EXCEPT ![s] = "staging"]
  /\ UNCHANGED <<vars, sessions, ingestKey, gaveUp>>

SendStage(s) ==
  /\ pc[s] = "staging"
  /\ Send([type |-> "stage", key |-> sessionKey[s], session |-> s, open |-> TRUE])
  /\ pc' = [pc EXCEPT ![s] = "waiting"]
  /\ UNCHANGED <<replies, actorVars, sessionKey, sessions, ingestKey, gaveUp>>

\* Mutant: the accepted session is not entered into the map.
AcceptUnmapped(s) ==
  /\ pc[s] = "waiting" /\ replies[s] = "ok"
  /\ TakeReply(s)
  /\ pc' = [pc EXCEPT ![s] = "publishing"]
  /\ UNCHANGED <<sessionKey, sessions, ingestKey, gaveUp>>

\* stage_stream answered Ok: the publish is accepted.
Accept(s) ==
  /\ pc[s] = "waiting" /\ replies[s] = "ok"
  /\ TakeReply(s)
  /\ sessions' = sessions \cup {s}
  /\ pc' = [pc EXCEPT ![s] = "publishing"]
  /\ UNCHANGED <<sessionKey, ingestKey, gaveUp>>

\* stage_stream answered Err: the publish is rejected.
Reject(s) ==
  /\ pc[s] = "waiting" /\ replies[s] = "err"
  /\ TakeReply(s)
  /\ pc' = [pc EXCEPT ![s] = "rejected"]
  /\ UNCHANGED <<sessionKey, sessions, ingestKey, gaveUp>>

\* No answer in ten seconds: rejected too, with the command still queued.
StageTimeout(s) ==
  /\ pc[s] = "waiting"
  /\ GiveUp(s)
  /\ pc' = [pc EXCEPT ![s] = "rejected"]
  /\ gaveUp' = TRUE
  /\ UNCHANGED <<sessionKey, sessions, ingestKey>>

\* on_unpublish: the stream of the session is ended, whatever the map says.
OnUnpublish(s) ==
  /\ pc[s] = "publishing"
  /\ sessions' = sessions \ {s}
  /\ pc' = [pc EXCEPT ![s] = "ending"]
  /\ UNCHANGED <<vars, sessionKey, ingestKey, gaveUp>>

\* on_disconnect without on_unpublish: the map knows what to end.
OnDisconnect(s) ==
  /\ pc[s] = "publishing"
  /\ sessions' = sessions \ {s}
  /\ pc' = [pc EXCEPT ![s] = IF s \in sessions THEN "ending" ELSE "connected"]
  /\ UNCHANGED <<vars, sessionKey, ingestKey, gaveUp>>

\* on_disconnect of a session that is not in the map.
DisconnectRejected(s) ==
  /\ pc[s] = "rejected"
  /\ pc' = [pc EXCEPT ![s] = "connected"]
  /\ UNCHANGED <<vars, sessionKey, sessions, ingestKey, gaveUp>>

SendEnd(s) ==
  /\ pc[s] = "ending"
  /\ Send([type |-> "end", key |-> sessionKey[s]])
  /\ pc' = [pc EXCEPT ![s] = "connected"]
  /\ UNCHANGED <<replies, actorVars, sessionKey, sessions, ingestKey, gaveUp>>

\* The mailbox stays full for five seconds: EndStream is never sent.
EndTimeout(s) ==
  /\ pc[s] = "ending"
  /\ ~CanSend
  /\ pc' = [pc EXCEPT ![s] = "connected"]
  /\ gaveUp' = TRUE
  /\ UNCHANGED <<vars, sessionKey, sessions, ingestKey>>

----------------------------------------------------------------------------
(* The dashboard *)

Operator(type) ==
  /\ Send([type |-> type])
  /\ UNCHANGED <<replies, actorVars, ingestVars>>

RotateKey(k) ==
  /\ ingestKey # k
  /\ ingestKey' = k
  /\ UNCHANGED <<vars, pc, sessionKey, sessions, gaveUp>>

----------------------------------------------------------------------------
IngestInit ==
  /\ Init
  /\ pc = [s \in Session |-> "connected"]
  /\ ingestKey \in Key
  /\ sessionKey = [s \in Session |-> ingestKey]
  /\ sessions = {}
  /\ gaveUp = FALSE

SessionStep(s) ==
  \/ SendStage(s) \/ Accept(s) \/ Reject(s) \/ SendEnd(s)
  \/ OnPublish(s) \/ OnUnpublish(s) \/ OnDisconnect(s) \/ DisconnectRejected(s)
  \/ StageTimeout(s) \/ EndTimeout(s)

IngestNext ==
  \/ (HandleCommand \/ HealthCheck \/ Processes) /\ UNCHANGED ingestVars
  \/ \E s \in Session : SessionStep(s)
  \/ \E type \in {"publish", "stop"} : Operator(type)
  \/ \E k \in Key : RotateKey(k)

IngestSpec == IngestInit /\ [][IngestNext]_allVars

\* The runtime keeps polling the actor and the session tasks.  A sender blocked
\* on the full mailbox is served in order of arrival, although others fill it
\* again and again: strong fairness.  Nothing makes a publisher leave.
Fairness ==
  /\ WF_allVars(HandleCommand /\ UNCHANGED ingestVars)
  /\ \A s \in Session :
       /\ WF_allVars(Accept(s)) /\ WF_allVars(Reject(s))
       /\ SF_allVars(SendStage(s)) /\ SF_allVars(SendEnd(s))

FairIngestSpec == IngestSpec /\ Fairness

----------------------------------------------------------------------------
(* Properties *)

\* Type invariant of the sessions.
IngestTypeOK ==
  /\ TypeOK
  /\ pc \in [Session -> {"connected", "staging", "waiting", "publishing", "rejected",
                         "ending"}]
  /\ sessionKey \in [Session -> Key]
  /\ sessions \subseteq Session
  /\ ingestKey \in Key
  /\ gaveUp \in BOOLEAN

\* A publisher that was accepted has the stage to itself for as long as it
\* publishes: no other session, late command, rotated key or operator ends its
\* stream, and no second publisher is accepted (on_publish, on_unpublish,
\* on_disconnect, handle_stage_stream, handle_end_stream).
PublisherOwnsStage ==
  \A s \in Session :
    pc[s] = "publishing" =>
      /\ staged # NoStream
      /\ staged.owner = s /\ staged.key = sessionKey[s]
      /\ sessions = {s}

\* As long as no call gave up, a staged stream has a session that will end it
\* or an EndStream on its way: teardown by the session map is complete.
StagedStreamHasOwner ==
  (staged # NoStream /\ ~gaveUp) =>
    \/ pc[staged.owner] = "waiting" /\ replies[staged.owner] = "ok"
    \/ staged.owner \in sessions
    \/ pc[staged.owner] = "ending"
    \/ \E i \in DOMAIN mailbox :
         mailbox[i].type = "end" /\ mailbox[i].key = staged.key

\* Output to the targets stops after the publisher left, if no call gave up:
\* its EndStream gets through a contended mailbox and past a busy actor.
OutputEndsAfterPublisher ==
  \A s \in Session :
    (pc[s] = "ending")
      ~> (gaveUp \/ (cancelling = {} /\ \A k \in Key : active_relays[k] = {}))

\* A stream without a publisher is torn down, even if the session ended
\* abruptly (handler.rs:84).  It does not hold: a session whose stage_stream
\* timed out is not in the map when the actor stages its stream after all.
AbandonedStreamEnds ==
  [](staged # NoStream /\ sessions = {} => <>(staged = NoStream \/ sessions # {}))
=============================================================================
