------------------------- MODULE TelemetryConnection -------------------------
(***************************************************************************)
(* One candidate's page and the server over a WebSocket: the client        *)
(* (client/src/ws-client.ts, kill-switch.ts) connects, reconnects, answers *)
(* pings and handles kill-switches; the server (websocket/routes.py and    *)
(* DeliveryService of websocket/server.py) runs one handler per connection *)
(* attempt, so a handler may outlive the client's interest in it.  The     *)
(* gateway forwards bytes and closes both ways and keeps no state.         *)
(*                                                                         *)
(* A connection carries one FIFO each way.  When the transport breaks,     *)
(* what is in flight is lost and each end notices in its own time.         *)
(***************************************************************************)
EXTENDS Integers, Sequences, FiniteSets

CONSTANTS Flags,           \* flags that may trigger the kill-switch
          MaxConnects,     \* bounds of the model: connection attempts,
          MaxTelemetry,    \*   telemetry messages,
          MaxServerPings,  \*   server heartbeats,
          MaxClientPings,  \*   client heartbeats,
          MaxLosses        \*   broken transports

ASSUME ConnectionAssumption ==
    /\ MaxConnects \in Nat \ {0}
    /\ {MaxTelemetry, MaxServerPings, MaxClientPings, MaxLosses} \subseteq Nat

NoFlag == "no_flag"
ASSUME FlagAssumption == NoFlag \notin Flags

Attempts == 1 .. MaxConnects

VARIABLES
    (* the client *)
    ws,          \* this.ws: the attempt in use, 0 for null
    ready,       \* its readyState
    wsStatus,    \* status shown to the page
    isTerminal,
    heartbeat,   \* pingTimer is running
    timer,       \* reconnectTimer is running
    handled,     \* handledFlagIds: the flags the page is locked for
    ackLog,      \* history: ack sequence numbers received
    (* the transports *)
    up, c2s, s2c,
    (* the server, per attempt *)
    handler, pending, acked, seq, kills,
    (* the rest of the system *)
    ended,       \* the session's status is no longer connectable
    raised,      \* flags whose kill-switch callback has run
    attempts, sent, serverPings, clientPings, losses

clientVars == <<ws, ready, wsStatus, isTerminal, heartbeat, timer, handled, ackLog>>
netVars == <<up, c2s, s2c>>
serverVars == <<handler, pending, acked, seq, kills>>
counters == <<sent, serverPings, clientPings, losses>>
connVars == <<clientVars, netVars, serverVars, ended, raised, attempts, counters>>

Msg(t) == [t |-> t]
Ack(n) == [t |-> "ack", seq |-> n]
KillSwitch(f) == [t |-> "kill_switch", flag |-> f]
KillSwitchAck(f) == [t |-> "kill_switch_ack", flag |-> f]

ConnInit ==
    /\ ws = 0 /\ ready = "none" /\ wsStatus = "disconnected_terminal"
    /\ isTerminal = FALSE /\ heartbeat = FALSE
    /\ timer = FALSE /\ handled = {} /\ ackLog = <<>>
    /\ up = [k \in Attempts |-> FALSE]
    /\ c2s = [k \in Attempts |-> <<>>]
    /\ s2c = [k \in Attempts |-> <<>>]
    /\ handler = [k \in Attempts |-> "none"]
    /\ pending = [k \in Attempts |-> NoFlag]
    /\ acked = [k \in Attempts |-> FALSE]
    /\ seq = [k \in Attempts |-> 0]
    /\ kills = [k \in Attempts |-> <<>>]
    /\ ended = FALSE /\ raised = {}
    /\ attempts = 0 /\ sent = 0 /\ serverPings = 0 /\ clientPings = 0
    /\ losses = 0

-----------------------------------------------------------------------------
(* The client. *)

(* connect, called at boot and by the reconnect timer.                     *)
Connect ==
    /\ attempts < MaxConnects
    /\ attempts = 0 \/ timer
    /\ timer' = FALSE
    /\ IF isTerminal
       THEN UNCHANGED <<ws, ready, wsStatus, up, attempts>>
       ELSE /\ attempts' = attempts + 1
            /\ ws' = attempts + 1
            /\ ready' = "connecting"
            /\ wsStatus' = "connecting"
            /\ up' = [up EXCEPT ![attempts + 1] = TRUE]
    /\ UNCHANGED <<isTerminal, heartbeat, handled, ackLog, c2s, s2c, serverVars,
                   ended, raised, counters>>

(* send, for telemetry: dropped unless the socket is open.  The capture    *)
(* loop goes on after a kill-switch.                                       *)
Send ==
    /\ ready = "open"
    /\ sent < MaxTelemetry
    /\ sent' = sent + 1
    /\ c2s' = [c2s EXCEPT ![ws] = Append(@, Msg("telemetry"))]
    /\ UNCHANGED <<clientVars, up, s2c, serverVars, ended, raised, attempts,
                   serverPings, clientPings, losses>>

(* The interval callback of startHeartbeat.                                *)
ClientPing ==
    /\ heartbeat /\ ready = "open"
    /\ clientPings < MaxClientPings
    /\ clientPings' = clientPings + 1
    /\ c2s' = [c2s EXCEPT ![ws] = Append(@, Msg("ping"))]
    /\ UNCHANGED <<clientVars, up, s2c, serverVars, ended, raised, attempts,
                   sent, serverPings, losses>>

HandleOpen ==
    /\ ready' = "open"
    /\ wsStatus' = "connected"
    /\ heartbeat' = TRUE
    /\ UNCHANGED <<ws, isTerminal, timer, handled, ackLog, c2s>>

(* A server ping is answered; other messages but the kill-switch are only  *)
(* parsed.                                                                 *)
HandlePing ==
    /\ c2s' = [c2s EXCEPT ![ws] = Append(@, Msg("pong"))]
    /\ UNCHANGED clientVars

HandleAck(n) ==
    /\ ackLog' = Append(ackLog, n)
    /\ UNCHANGED <<ws, ready, wsStatus, isTerminal, heartbeat, timer, handled, c2s>>

(* Mutant: the client is not marked terminal.                              *)
HandleKillSwitchNotTerminal(f) ==
    /\ handled' = handled \cup {f}
    /\ c2s' = [c2s EXCEPT ![ws] = Append(@, KillSwitchAck(f))]
    /\ UNCHANGED <<ws, ready, wsStatus, isTerminal, heartbeat, timer, ackLog>>

(* Mutant: a client that is already terminal does not look at the flag id. *)
HandleKillSwitchOncePerPage(f) ==
    /\ isTerminal' = TRUE
    /\ handled' = IF isTerminal THEN handled ELSE handled \cup {f}
    /\ c2s' = [c2s EXCEPT ![ws] = Append(@, KillSwitchAck(f))]
    /\ UNCHANGED <<ws, ready, wsStatus, heartbeat, timer, ackLog>>

(* handleMessage and handleKillSwitch: the page is locked once per flag id *)
(* and every delivery is acknowledged.                                     *)
HandleKillSwitch(f) ==
    /\ isTerminal' = TRUE
    /\ handled' = handled \cup {f}
    /\ c2s' = [c2s EXCEPT ![ws] = Append(@, KillSwitchAck(f))]
    /\ UNCHANGED <<ws, ready, wsStatus, heartbeat, timer, ackLog>>

(* Mutant: the reconnect is announced but never scheduled.                 *)
HandleCloseUnscheduled(code) ==
    /\ heartbeat' = FALSE /\ ws' = 0 /\ ready' = "none"
    /\ isTerminal' = (isTerminal \/ code = "app")
    /\ wsStatus' = IF isTerminal' THEN "disconnected_terminal" ELSE "reconnecting"
    /\ UNCHANGED <<timer, handled, ackLog>>

(* handleClose: terminal if already so or for a 4000-4999 code, otherwise  *)
(* scheduleReconnect.                                                      *)
HandleClose(code) ==
    /\ heartbeat' = FALSE /\ ws' = 0 /\ ready' = "none"
    /\ isTerminal' = (isTerminal \/ code = "app")
    /\ wsStatus' = IF isTerminal' THEN "disconnected_terminal" ELSE "reconnecting"
    /\ timer' = ~isTerminal'
    /\ UNCHANGED <<handled, ackLog>>

(* handleOpen, handleMessage and handleClose for the next thing the server *)
(* sent.                                                                   *)
ClientReceive ==
    /\ ws # 0
    /\ s2c[ws] # <<>>
    /\ LET m == Head(s2c[ws]) IN
          \/ m.t = "accept" /\ HandleOpen
          \/ m.t = "ping" /\ HandlePing
          \/ m.t = "ack" /\ HandleAck(m.seq)
          \/ m.t = "kill_switch" /\ HandleKillSwitch(m.flag)
          \/ m.t = "close" /\ HandleClose("app") /\ UNCHANGED c2s
    /\ s2c' = [s2c EXCEPT ![ws] = Tail(@)]
    /\ UNCHANGED <<up, serverVars, ended, raised, attempts, counters>>

(* The browser reports a broken transport: close code 1006.                *)
ClientNoticesLoss ==
    /\ ws # 0
    /\ ~up[ws]
    /\ HandleClose("abnormal")
    /\ UNCHANGED <<netVars, serverVars, ended, raised, attempts, counters>>

-----------------------------------------------------------------------------
(* The server. *)

(* What a send on connection k leaves in the transport.                    *)
Sent(k, m) == IF up[k] THEN [s2c EXCEPT ![k] = Append(@, m)] ELSE s2c

(* websocket_endpoint: the handshake is accepted first; a session that is  *)
(* not connectable is then closed with a 4000-range code.                  *)
Accept(k) ==
    /\ up[k] /\ handler[k] = "none"
    /\ IF ended
       THEN /\ handler' = [handler EXCEPT ![k] = "closed"]
            /\ s2c' = [s2c EXCEPT ![k] = <<Msg("accept"), Msg("close")>>]
       ELSE /\ handler' = [handler EXCEPT ![k] = "open"]
            /\ s2c' = [s2c EXCEPT ![k] = <<Msg("accept")>>]
    /\ UNCHANGED <<clientVars, up, c2s, pending, acked, seq, kills,
                   ended, raised, attempts, counters>>

(* next_ack numbers from zero.                                             *)
NextAck(k) == Ack(seq[k])

(* record_kill_switch_ack: whether the ack matches the pending one.        *)
RecordKillSwitchAck(k, f) == pending[k] # NoFlag /\ pending[k] = f

(* _message_loop for the next message.                                     *)
Receive(k) ==
    /\ handler[k] = "open"
    /\ c2s[k] # <<>>
    /\ c2s' = [c2s EXCEPT ![k] = Tail(@)]
    /\ LET m == Head(c2s[k]) IN
          \/ /\ m.t = "pong"
             /\ UNCHANGED <<handler, acked, seq, kills, s2c>>
          \/ /\ m.t = "ping"  \* parse_client_message: unknown type
             /\ handler' = [handler EXCEPT ![k] = "closed"]
             /\ kills' = [kills EXCEPT ![k] = <<>>]
             /\ s2c' = Sent(k, Msg("close"))
             /\ UNCHANGED <<acked, seq>>
          \/ /\ m.t \in {"telemetry", "kill_switch_ack"}
             /\ acked' = [acked EXCEPT ![k] =
                             @ \/ (m.t = "kill_switch_ack" /\
                                   RecordKillSwitchAck(k, m.flag))]
             /\ seq' = [seq EXCEPT ![k] = @ + 1]
             /\ s2c' = Sent(k, NextAck(k))
             /\ UNCHANGED <<handler, kills>>
    /\ UNCHANGED <<clientVars, up, pending, ended, raised, attempts, counters>>

(* _heartbeat_loop; nothing compares pings with pongs.                     *)
ServerPing(k) ==
    /\ handler[k] = "open"
    /\ serverPings < MaxServerPings
    /\ serverPings' = serverPings + 1
    /\ s2c' = Sent(k, Msg("ping"))
    /\ UNCHANGED <<clientVars, up, c2s, handler, pending, acked, seq, kills,
                   ended, raised, attempts, sent, clientPings, losses>>

(* The heartbeat's send does not complete within the timeout (the page     *)
(* does not read, or a break has not been noticed): the loop closes the    *)
(* connection with 4007, and with it the handler and its queue end.        *)
HeartbeatTimeout(k) ==
    /\ handler[k] = "open"
    /\ serverPings < MaxServerPings
    /\ serverPings' = serverPings + 1
    /\ handler' = [handler EXCEPT ![k] = "closed"]
    /\ kills' = [kills EXCEPT ![k] = <<>>]
    /\ s2c' = Sent(k, Msg("close"))
    /\ UNCHANGED <<clientVars, up, c2s, pending, acked, seq, ended, raised,
                   attempts, sent, clientPings, losses>>

(* _on_kill_switch, called by the persistence worker of handler k.         *)
OnKillSwitch(k, f) ==
    /\ handler[k] = "open"
    /\ f \notin raised
    /\ raised' = raised \cup {f}
    /\ kills' = [kills EXCEPT ![k] = Append(@, f)]
    /\ UNCHANGED <<clientVars, netVars, handler, pending, acked, seq,
                   ended, attempts, counters>>

(* Mutant: a second kill-switch replaces the one in flight.                *)
CanPrepareAlways(k) == TRUE

(* prepare_kill_switch raises while one is pending and not acknowledged.   *)
CanPrepare(k) == pending[k] = NoFlag \/ acked[k]

(* _drain: register the flag as pending and send it; if that raises, the   *)
(* flag is logged and dropped.                                             *)
DrainKillSwitch(k) ==
    /\ handler[k] = "open"
    /\ kills[k] # <<>>
    /\ kills' = [kills EXCEPT ![k] = Tail(@)]
    /\ IF CanPrepare(k)
       THEN /\ pending' = [pending EXCEPT ![k] = Head(kills[k])]
            /\ acked' = [acked EXCEPT ![k] = FALSE]
            /\ s2c' = Sent(k, KillSwitch(Head(kills[k])))
       ELSE UNCHANGED <<pending, acked, s2c>>
    /\ UNCHANGED <<clientVars, up, c2s, handler, seq, ended, raised,
                   attempts, counters>>

(* WebSocketDisconnect ends the handler and with it the kill-switch queue. *)
ServerNoticesLoss(k) ==
    /\ handler[k] = "open"
    /\ ~up[k]
    /\ handler' = [handler EXCEPT ![k] = "closed"]
    /\ kills' = [kills EXCEPT ![k] = <<>>]
    /\ UNCHANGED <<clientVars, netVars, pending, acked, seq, ended,
                   raised, attempts, counters>>

-----------------------------------------------------------------------------
(* The environment: broken transports, and POST /terminate.                *)
LoseTransport(k) ==
    /\ up[k]
    /\ losses < MaxLosses
    /\ losses' = losses + 1
    /\ up' = [up EXCEPT ![k] = FALSE]
    /\ c2s' = [c2s EXCEPT ![k] = <<>>]
    /\ s2c' = [s2c EXCEPT ![k] = <<>>]
    /\ UNCHANGED <<clientVars, serverVars, ended, raised, attempts, sent,
                   serverPings, clientPings>>

EndSession ==
    /\ ~ended
    /\ ended' = TRUE
    /\ UNCHANGED <<clientVars, netVars, serverVars, raised, attempts, counters>>

ClientStep == Connect \/ ClientReceive \/ ClientNoticesLoss
ServerStep(k) == Accept(k) \/ Receive(k) \/ DrainKillSwitch(k)

ConnNext ==
    \/ ClientStep \/ Send \/ ClientPing \/ EndSession
    \/ \E k \in Attempts :
          \/ ServerStep(k) \/ ServerPing(k) \/ HeartbeatTimeout(k)
          \/ ServerNoticesLoss(k) \/ LoseTransport(k)
          \/ \E f \in Flags : OnKillSwitch(k, f)

(* The browser's and the server's event loops run: timers fire, delivered  *)
(* messages, queued kill-switches and broken sockets are handled.  Clients *)
(* need not send, flags need not be raised, transports need not break, and *)
(* the server need not learn of a break.                                   *)
ConnFairness ==
    /\ WF_connVars(Connect) /\ WF_connVars(ClientReceive)
    /\ WF_connVars(ClientNoticesLoss)
    /\ \A k \in Attempts : /\ WF_connVars(Accept(k)) /\ WF_connVars(Receive(k))
                           /\ WF_connVars(DrainKillSwitch(k))

ConnSpec == ConnInit /\ [][ConnNext]_connVars
FairConnSpec == ConnSpec /\ ConnFairness

-----------------------------------------------------------------------------
(* Every variable has its type.                                            *)
ConnTypeOK ==
    /\ ws \in 0 .. attempts
    /\ ready \in {"none", "connecting", "open"}
    /\ wsStatus \in {"connecting", "connected", "reconnecting",
                     "disconnected_terminal"}
    /\ {isTerminal, heartbeat, timer, ended} \subseteq BOOLEAN
    /\ handled \subseteq raised /\ raised \subseteq Flags
    /\ ackLog \in Seq(Nat)
    /\ handler \in [Attempts -> {"none", "open", "closed"}]
    /\ pending \in [Attempts -> Flags \cup {NoFlag}]
    /\ seq \in [Attempts -> Nat]
    /\ \A k \in Attempts : up[k] \in BOOLEAN /\ kills[k] \in Seq(Flags)
    /\ attempts \in 0 .. MaxConnects

(* A kill-switch the server counts as acknowledged has locked the page for *)
(* that very flag, however acks, losses and reconnects interleave          *)
(* (DeliveryService.record_kill_switch_ack, handleKillSwitch).             *)
AckMeansLocked == \A k \in Attempts : acked[k] => pending[k] \in handled

(* At most one kill-switch is on its way to the client or its              *)
(* acknowledgement on its way back (prepare_kill_switch, "only one can be  *)
(* in-flight at a time").                                                  *)
OneKillSwitchInFlight ==
    \A k \in Attempts :
        Cardinality({i \in 1 .. Len(s2c[k]) : s2c[k][i].t = "kill_switch"})
        + Cardinality({i \in 1 .. Len(c2s[k]) : c2s[k][i].t = "kill_switch_ack"})
            =< 1

(* A page that has handled a kill-switch never opens another connection,   *)
(* whatever closes the current one and whichever timer is still running    *)
(* (ws-client.ts handleMessage, "This is structurally terminal").          *)
KilledClientStaysDown == [][handled # {} => attempts' = attempts]_connVars

(* The status a page shows does not stay connecting or reconnecting for    *)
(* ever: it connects, or it is told that it is disconnected.               *)
ClientSettles ==
    wsStatus \in {"connecting", "reconnecting"}
        ~> wsStatus \in {"connected", "disconnected_terminal"}
=============================================================================
