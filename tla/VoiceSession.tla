---------------------------- MODULE VoiceSession ----------------------------
(***************************************************************************)
(* One realtime voice session of a prepaid workspace: createSession and    *)
(* closeSession of voice.service.ts.  Create calls with one client session *)
(* id share the row.  A close call meters the minutes of an active session *)
(* with recordMeteredUsage and marks the session afterwards.  Calls race   *)
(* and are repeated; each may fail or die at any await, and a statement    *)
(* that throws may have been committed.  Sessions of the browser fallback  *)
(* cost nothing and are left out.                                          *)
(***************************************************************************)
EXTENDS Naturals

CONSTANTS
  Creators,    \* calls of createSession, with the same client session id
  Closers,     \* calls of closeSession
  MaxMinutes   \* bounds the clock of the model

ASSUME VoiceAssumption == MaxMinutes \in Nat \ {0}

VARIABLES
  session,   \* the ai_voice_sessions row; ended stands for completed and failed
  minutes,   \* time since started_at, which is the cost
  metered,   \* cost of the ai_usage_ledger row of this session, 0 if none
  debited,   \* there is a USAGE_DEBIT ledger row for it
  creator,   \* creator[k]: the await at which the call stands
  closer     \* closer[c]: the same, and the cost it computed

voiceVars == <<session, minutes, metered, debited, creator, closer>>

CreateStages == {"start", "asking", "storing", "failing", "answered", "failed"}

CloseStages == {"start", "metering", "settling", "finishing", "closed", "refused", "failed"}

VoiceInit ==
  /\ session = "none"
  /\ minutes = 1
  /\ metered = 0
  /\ debited = FALSE
  /\ creator = [k \in Creators |-> "start"]
  /\ closer = [c \in Closers |-> [at |-> "start", cost |-> 0]]

\* An UPDATE finds the row unless it was deleted.
SetSession(status) == session' = IF session = "deleted" THEN session ELSE status

TimePasses ==
  /\ session # "none"
  /\ minutes < MaxMinutes
  /\ minutes' = minutes + 1
  /\ UNCHANGED <<session, metered, debited, creator, closer>>

-----------------------------------------------------------------------------
\* createSession.

CreateGoto(k, stage) ==
  /\ creator' = [creator EXCEPT ![k] = stage]
  /\ UNCHANGED <<minutes, metered, debited, closer>>

\* ON CONFLICT DO NOTHING: a repeated call finds the row of the first.  (After
\* a deletion it would insert another session.)
InsertSession(k) ==
  /\ creator[k] = "start" /\ session # "deleted"
  /\ session' = IF session = "none" THEN "starting" ELSE session
  /\ CreateGoto(k, "asking") \/ CreateGoto(k, "failed")

OpenAiRealtimeAnswer(k) ==
  /\ creator[k] = "asking"
  /\ CreateGoto(k, "storing") \/ CreateGoto(k, "failing")
  /\ UNCHANGED session

StoreActive(k) ==
  /\ creator[k] = "storing"
  /\ \/ SetSession("active") /\ (CreateGoto(k, "answered") \/ CreateGoto(k, "failing"))
     \/ UNCHANGED session /\ CreateGoto(k, "failing")

\* The catch block; its own error is swallowed.
StoreFailed(k) ==
  /\ creator[k] = "failing"
  /\ SetSession("ended") \/ UNCHANGED session
  /\ CreateGoto(k, "failed")

CreateDies(k) ==
  /\ creator[k] \notin {"answered", "failed"}
  /\ CreateGoto(k, "failed")
  /\ UNCHANGED session

-----------------------------------------------------------------------------
\* closeSession.

\* The client learns the id of the session from an answered create call.
Started == \E k \in Creators : creator[k] = "answered"

CloseGoto(c, stage) ==
  /\ closer' = [closer EXCEPT ![c].at = stage]
  /\ UNCHANGED <<minutes, creator>>

\* Variant: the session is ended as soon as it is found.
FindAndEnd(c) ==
  /\ closer[c].at = "start" /\ Started
  /\ session = "active"
  /\ session' = "ended"
  /\ closer' = [closer EXCEPT ![c] = [at |-> "metering", cost |-> minutes]]
  /\ UNCHANGED <<minutes, metered, debited, creator>>

\* Only an active session is metered, by the minutes up to this call.
FindSession(c) ==
  /\ closer[c].at = "start" /\ Started
  /\ closer' = [closer EXCEPT ![c] =
       CASE session = "active" -> [at |-> "metering", cost |-> minutes]
         [] session \in {"starting", "ended"} -> [at |-> "finishing", cost |-> 0]
         [] session = "deleted" -> [at |-> "failed", cost |-> 0]]
  /\ UNCHANGED <<session, minutes, metered, debited, creator>>

\* recordMeteredUsage with the response id voice-session:<id>: the first insert
\* wins, and a replay must report the same cost (assertUsageReplayMatches).
RecordSessionUsage(c) ==
  /\ closer[c].at = "metering"
  /\ \/ metered = 0 /\ metered' = closer[c].cost /\ CloseGoto(c, "settling")
     \/ metered = closer[c].cost /\ UNCHANGED metered /\ CloseGoto(c, "settling")
     \/ metered \notin {0, closer[c].cost} /\ UNCHANGED metered /\ CloseGoto(c, "refused")
  /\ UNCHANGED <<session, debited>>

\* settlePrepaidUsage: debitApiWallet, by idempotency key.
SettleSessionUsage(c) ==
  /\ closer[c].at = "settling"
  /\ debited' = TRUE
  /\ CloseGoto(c, "finishing")
  /\ UNCHANGED <<session, metered>>

FinishSession(c) ==
  /\ closer[c].at = "finishing"
  /\ SetSession("ended")
  /\ CloseGoto(c, "closed")
  /\ UNCHANGED <<metered, debited>>

\* The call dies, or its statement throws; committed or not.
Fails(c) ==
  /\ closer[c].at \notin {"closed", "refused", "failed"}
  /\ CloseGoto(c, "failed")
  /\ \/ UNCHANGED <<session, metered, debited>>
     \/ /\ closer[c].at = "metering" /\ metered = 0
        /\ metered' = closer[c].cost
        /\ UNCHANGED <<session, debited>>
     \/ /\ closer[c].at = "settling"
        /\ debited' = TRUE
        /\ UNCHANGED <<session, metered>>
     \/ /\ closer[c].at = "finishing"
        /\ SetSession("ended")
        /\ UNCHANGED <<metered, debited>>

-----------------------------------------------------------------------------
DeleteSession ==
  /\ Started
  /\ session' = "deleted"
  /\ UNCHANGED <<minutes, metered, debited, creator, closer>>

\* reconcileUnsettledApiUsage, the scan of the billing worker.
ReconcileSessionUsage ==
  /\ metered > 0
  /\ debited' = TRUE
  /\ UNCHANGED <<session, minutes, metered, creator, closer>>

VoiceNext ==
  \/ \E k \in Creators : \/ InsertSession(k) \/ OpenAiRealtimeAnswer(k) \/ StoreActive(k)
                         \/ StoreFailed(k) \/ CreateDies(k)
  \/ \E c \in Closers : \/ FindSession(c) \/ RecordSessionUsage(c) \/ SettleSessionUsage(c)
                        \/ FinishSession(c) \/ Fails(c)
  \/ TimePasses \/ DeleteSession \/ ReconcileSessionUsage

VoiceSpec == VoiceInit /\ [][VoiceNext]_voiceVars

-----------------------------------------------------------------------------
\* Types of the rows and calls; the cost of a session never exceeds its minutes.
VoiceTypeOK ==
  /\ session \in {"none", "starting", "active", "ended", "deleted"}
  /\ minutes \in 1 .. MaxMinutes
  /\ metered \in 0 .. minutes
  /\ debited \in BOOLEAN
  /\ creator \in [Creators -> CreateStages]
  /\ closer \in [Closers -> [at : CloseStages, cost : 0 .. minutes]]

\* A session that was handed to the client and is marked ended has its usage row
\* and its debit, whatever calls raced, failed or died before.
EndedIsCharged == Started /\ session = "ended" => metered > 0 /\ debited

\* "The stable response ID makes a later close request safe": a close call is not
\* refused when the session is still active and every earlier close call failed.
CloseIsRepeatable ==
  [][\A c \in Closers :
       /\ closer'[c].at = "refused" /\ closer[c].at # "refused"
       /\ \A d \in Closers \ {c} : closer[d].at \in {"start", "failed"}
       => session # "active"]_voiceVars
=============================================================================
