----------------------------- MODULE DeliveryRelay -----------------------------
(***************************************************************************)
(* One API replica listening for what the worker announces                 *)
(* (message-delivery-relay.ts over platform/db/listen.ts), next to the     *)
(* delivery it depends on.                                                 *)
(*                                                                         *)
(* The time lostAt is modelled by what it selects: late holds the events   *)
(* marked delivered since, and a replay query the ones since the lostAt it *)
(* was asked with.                                                         *)
(***************************************************************************)
EXTENDS MessageDelivery

CONSTANT LateDetection   \* a broken connection may stay unnoticed for a while

ASSUME RelayAssumption == LateDetection \in BOOLEAN

VARIABLES
  conn,      \* the LISTEN connection
  lost,      \* lostAt is set
  late,      \* events delivered since lostAt
  replays,   \* for each replay query under way, what was delivered since its lostAt
  inbox,     \* events notified or listed, and not dispatched yet
  shown,     \* events fanned out to the sockets
  dropped    \* events whose relay failed, which is only logged

relayVars == <<conn, lost, late, replays, inbox, shown, dropped>>
vars == <<deliveryVars, relayVars>>

RelayInit ==
  /\ conn = "up" /\ lost = FALSE
  /\ late = {} /\ replays = {} /\ inbox = {} /\ shown = {} /\ dropped = {}

\* onPayload, for a notification that arrives; and what delivered_at selects.
Announces(e) == announced'[e] > announced[e]
Delivers(e) == out[e].status # "delivered" /\ out'[e].status = "delivered"
Follows ==
  LET new == {e \in Events : Delivers(e)} IN
  /\ inbox' = inbox \cup {e \in Events : conn = "up" /\ Announces(e)}
  /\ late' = IF lost THEN late \cup new ELSE late
  /\ replays' = {since \cup new : since \in replays}
  /\ UNCHANGED <<conn, lost, shown, dropped>>

\* lose: a loss that was not replayed yet keeps its time.
Loses ==
  /\ conn' = "down" /\ lost' = TRUE
  /\ late' = IF lost THEN late ELSE {}

\* The connection fails; the relay hears of it at once, or only later (Lose).
Break ==
  /\ conn = "up" /\ Fault
  /\ \/ LateDetection /\ conn' = "broken" /\ UNCHANGED <<lost, late>>
     \/ ~LateDetection /\ Loses
  /\ UNCHANGED <<row, worker, out, announced, replays, inbox, shown, dropped>>
Lose ==
  /\ conn = "broken" /\ Loses
  /\ UNCHANGED <<deliveryVars, replays, inbox, shown, dropped>>

\* Faulty: lostAt is cleared before it is read.
Reconnect_Forgets ==
  /\ conn = "down"
  /\ conn' = "up" /\ lost' = FALSE /\ late' = {}
  /\ UNCHANGED <<deliveryVars, replays, inbox, shown, dropped>>

\* listen by the retry timer, LISTEN succeeded: replayMissed takes lostAt and asks
\* for the events delivered since.  A retry that fails only schedules the next.
Reconnect ==
  /\ conn = "down"
  /\ conn' = "up" /\ lost' = FALSE /\ late' = {}
  /\ replays' = IF lost THEN replays \cup {late} ELSE replays
  /\ UNCHANGED <<deliveryVars, inbox, shown, dropped>>

\* listDeliveredSince answers, or fails: lostAt is gone by then.
Replay ==
  /\ \E since \in replays :
       /\ replays' = replays \ {since}
       /\ \/ inbox' = inbox \cup since /\ UNCHANGED <<faults, dropped>>
          \/ Fault /\ dropped' = dropped \cup since /\ UNCHANGED inbox
  /\ UNCHANGED <<row, worker, out, announced, conn, lost, late, shown>>

\* getEvent and dispatchMessageDeliveryEvent.
Relay(e) ==
  /\ e \in inbox
  /\ inbox' = inbox \ {e}
  /\ \/ shown' = shown \cup {e} /\ UNCHANGED <<faults, dropped>>
     \/ Fault /\ dropped' = dropped \cup {e} /\ UNCHANGED shown
  /\ UNCHANGED <<row, worker, out, announced, conn, lost, late, replays>>

RelayStep == Break \/ Lose \/ Reconnect \/ Replay \/ \E e \in Events : Relay(e)

Init == DeliveryInit /\ RelayInit
Next == (DeliveryNext /\ Follows) \/ RelayStep

\* The replica keeps retrying, the database answers in the end.
RelayFairness ==
  WF_vars(Lose) /\ WF_vars(Reconnect) /\ WF_vars(Replay) /\ \A e \in Events : WF_vars(Relay(e))
Spec == Init /\ [][Next]_vars /\ DeliveryFairness /\ RelayFairness

-----------------------------------------------------------------------------
(* Properties. *)

Relayed(e) == e \in shown \cup dropped

\* An event that is marked delivered while the relay knows that it lost its
\* connection reaches the sockets in the end, or fails in the log: however often
\* the connection is lost again meanwhile.
LateIsReplayed == \A e \in Events : (e \in late) ~> Relayed(e)

\* What the comment of message-delivery-relay.ts says: with the connection back and
\* the replay done, nothing delivered meanwhile is missing.  It does not hold: an event
\* announced while the connection was down may be marked only after the replay.
Quiet == conn = "up" /\ replays = {} /\ inbox = {}
NothingMissed ==
  Quiet => \A e \in Events : out[e].status = "delivered" => Relayed(e)
=============================================================================
