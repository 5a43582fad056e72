---------------------------- MODULE RelayClient ----------------------------
(***************************************************************************)
(* The device side of the relay (intercom_test/src/relay_client.c).  The   *)
(* device keeps one TCP connection to the relay server, registers on it,   *)
(* and waits for a BRIDGE line; the connection then belongs to the RTSP    *)
(* server and a new one is opened after a pause.                           *)
(*                                                                         *)
(* The device is single threaded (a libre event loop), so every handler is *)
(* one step.  TCP is a byte stream: the lines the relay sends sit in wire  *)
(* as units (a word or a line end) and reach relay_recv_handler cut into   *)
(* segments at any unit boundary, up to the size of one receive.           *)
(***************************************************************************)
EXTENDS Naturals, Sequences

CONSTANTS
    RECONNECT_INTERVAL_MS,  \* first reconnect delay
    MAX_RECONNECT_MS,       \* largest reconnect delay
    MAX_RBUF_SIZE,          \* units the line buffer may hold
    RXSZ,                   \* units one receive delivers at most
    MaxWire                 \* bound: units in flight on one connection

ASSUME RelayClientAssumption ==
    /\ RECONNECT_INTERVAL_MS \in Nat \ {0}
    /\ MAX_RECONNECT_MS \in Nat
    /\ RECONNECT_INTERVAL_MS <= MAX_RECONNECT_MS
    /\ MAX_RBUF_SIZE \in Nat \ {0}
    /\ RXSZ \in Nat \ {0}
    /\ MaxWire \in Nat

VARIABLES
    life,        \* "init", "up" (g_relay.running) or "stopped"
    tc,          \* g_relay.tc: "none", "connecting" or "open"
    tmr,         \* tmr_reconnect: 0 when not armed, else its delay in ms
    rbuf,        \* units buffered by relay_recv_handler
    registered,  \* g_relay.registered
    backoff,     \* g_relay.backoff_count, saturated at the 6 it is cut to
    wire,        \* units the relay sent on tc that were not received yet
    peer,        \* what the relay said last on tc
    lost         \* history: client bytes discarded at a hand-off

vars == <<life, tc, tmr, rbuf, registered, backoff, wire, peer, lost>>

Unit == {"OK", "ERROR", "BRIDGE", "DATA", "NL"}

Init ==
    /\ life = "init"
    /\ tc = "none"
    /\ tmr = 0
    /\ rbuf = <<>>
    /\ registered = FALSE
    /\ backoff = 0
    /\ wire = <<>>
    /\ peer = "silent"
    /\ lost = <<>>
----------------------------------------------------------------------------
(* Connecting and reconnecting.                                            *)

\* RECONNECT_INTERVAL_MS << k for k up to 6, cut at MAX_RECONNECT_MS.
Delay(k) ==
    LET d == RECONNECT_INTERVAL_MS * <<1, 2, 4, 8, 16, 32, 64>>[k + 1]
    IN  IF d > MAX_RECONNECT_MS THEN MAX_RECONNECT_MS ELSE d

\* Arms the timer and counts the attempt.  Its callers run while the client
\* does, so its test of g_relay.running always passes.
relay_schedule_reconnect ==
    /\ tmr' = Delay(backoff)
    /\ backoff' = IF backoff < 6 THEN backoff + 1 ELSE 6

\* Mutant of FreshConnection: the registered flag is not reset.
FreshButRegistered(t) ==
    /\ tc' = t
    /\ rbuf' = <<>>
    /\ UNCHANGED registered
    /\ wire' = <<>>
    /\ peer' = "silent"

\* A connection object that is released, or not there yet: no buffer, no
\* registration, nothing in flight.
FreshConnection(t) ==
    /\ tc' = t
    /\ rbuf' = <<>>
    /\ registered' = FALSE
    /\ wire' = <<>>
    /\ peer' = "silent"

\* Name resolution or tcp_connect fails at once, or the connect is under way.
relay_do_connect ==
    \/ /\ FreshConnection("none")
       /\ relay_schedule_reconnect
    \/ /\ FreshConnection("connecting")
       /\ tmr' = 0
       /\ UNCHANGED backoff

relay_client_start ==
    /\ life = "init"
    /\ life' = "up"
    /\ relay_do_connect
    /\ UNCHANGED lost

\* Mutant of relay_reconnect: from the sixth failure on the handler only arms
\* the timer again.
ReconnectGivesUp ==
    /\ tmr > 0
    /\ IF backoff < 6 THEN relay_do_connect
       ELSE tmr' = MAX_RECONNECT_MS
            /\ UNCHANGED <<tc, rbuf, registered, backoff, wire, peer>>
    /\ UNCHANGED <<life, lost>>

\* The timer fires: libre unlinks it before it calls the handler.
relay_reconnect ==
    /\ tmr > 0
    /\ relay_do_connect
    /\ UNCHANGED <<life, lost>>

\* The connect succeeded: REGISTER goes out.
relay_estab_handler ==
    /\ tc = "connecting"
    /\ tc' = "open"
    /\ backoff' = 0
    /\ peer' = "asked"
    /\ UNCHANGED <<life, tmr, rbuf, registered, wire, lost>>

\* The connect failed or the connection ended: everything of it is released
\* and, the client running and no bridge callback active, a retry scheduled.
CloseBody ==
    /\ FreshConnection("none")
    /\ relay_schedule_reconnect
    /\ UNCHANGED <<life, lost>>

relay_close_handler ==
    /\ tc # "none"
    /\ peer # "gone"
    /\ CloseBody

relay_client_stop ==
    /\ life = "up"
    /\ life' = "stopped"
    /\ tmr' = 0
    /\ FreshConnection("none")
    /\ UNCHANGED <<backoff, lost>>
----------------------------------------------------------------------------
(* Receiving.                                                              *)

LineEnds(buf) == {i \in DOMAIN buf : buf[i] = "NL"}

\* The line that ends at i consists of the word w alone.
IsLine(buf, i, w) ==
    /\ i \in LineEnds(buf)
    /\ i > 1
    /\ buf[i-1] = w
    /\ i > 2 => buf[i-2] = "NL"

\* Mutant of HandOff: no timer for the next connection.
HandOffUnarmed(buf, i) ==
    /\ lost' = SubSeq(buf, i + 1, Len(buf))
    /\ FreshConnection("none")
    /\ backoff' = 0
    /\ tmr' = 0

\* Mutant of HandOff: what is in flight is not left to the new owner.
HandOffDrained(buf, i) ==
    /\ lost' = SubSeq(buf, i + 1, Len(buf)) \o wire
    /\ FreshConnection("none")
    /\ backoff' = 0
    /\ tmr' = RECONNECT_INTERVAL_MS

\* Hand the connection to the RTSP server and plan the next one.  Whatever
\* follows the BRIDGE line in the buffer is freed with it.
HandOff(buf, i) ==
    /\ lost' = SubSeq(buf, i + 1, Len(buf))
    /\ FreshConnection("none")
    /\ backoff' = 0
    /\ tmr' = RECONNECT_INTERVAL_MS

\* All complete lines are read up to the first BRIDGE; ERROR is only logged.
\* What follows the last line end stays in the buffer.
ReadLines(buf) ==
    \/ \E i \in DOMAIN buf :
          /\ IsLine(buf, i, "BRIDGE")
          /\ \A j \in 1..(i-1) : ~IsLine(buf, j, "BRIDGE")
          /\ HandOff(buf, i)
    \/ /\ \A i \in DOMAIN buf : ~IsLine(buf, i, "BRIDGE")
       /\ \E last \in {0} \cup LineEnds(buf) :
             /\ \A j \in LineEnds(buf) : j <= last
             /\ rbuf' = SubSeq(buf, last + 1, Len(buf))
       /\ registered' = (registered \/ \E i \in DOMAIN buf : IsLine(buf, i, "OK"))
       /\ UNCHANGED <<tc, tmr, backoff, peer, lost>>

\* One receive of the first n units in flight.
relay_recv_handler ==
    /\ tc = "open"
    /\ \E n \in 1..RXSZ :
          /\ n <= Len(wire)
          /\ IF Len(rbuf) + n > MAX_RBUF_SIZE
             THEN CloseBody
             ELSE /\ ReadLines(rbuf \o SubSeq(wire, 1, n))
                  /\ wire' = IF tc' = "open" THEN SubSeq(wire, n + 1, Len(wire))
                             ELSE <<>>
                  /\ UNCHANGED life
----------------------------------------------------------------------------
(* The relay server, as seen on this connection: it answers REGISTER with  *)
(* OK or ERROR, may later send BRIDGE, and from then on forwards the       *)
(* client's bytes.  OK and BRIDGE come from two threads of the relay, the  *)
(* first after its lock is released, so BRIDGE may overtake OK.            *)

RelaySends(units, from, to) ==
    /\ tc = "open"
    /\ peer = from
    /\ Len(wire) + Len(units) <= MaxWire
    /\ wire' = wire \o units
    /\ peer' = to
    /\ UNCHANGED <<life, tc, tmr, rbuf, registered, backoff, lost>>

RelayAccepts  == RelaySends(<<"OK", "NL">>, "asked", "registered")
RelayRefuses  == RelaySends(<<"ERROR", "NL">>, "asked", "refused")
RelayBridges  == RelaySends(<<"BRIDGE", "NL">>, "registered", "bridged")
RelayOvertakes == RelaySends(<<"BRIDGE", "NL">>, "asked", "overtaken")
RelayCatchesUp == RelaySends(<<"OK", "NL">>, "overtaken", "bridged")
RelayForwards == RelaySends(<<"DATA">>, "bridged", "bridged")

\* The relay's host, or a NAT on the way, forgets the connection without a
\* FIN or RST reaching the device.  The device sends nothing after REGISTER
\* and sets no TCP keepalive, so its own TCP never finds out.
RelayVanishes ==
    /\ tc = "open"
    /\ peer # "gone"
    /\ wire = <<>>
    /\ peer' = "gone"
    /\ UNCHANGED <<life, tc, tmr, rbuf, registered, backoff, wire, lost>>

Relay ==
    \/ RelayAccepts
    \/ RelayRefuses
    \/ RelayBridges
    \/ RelayOvertakes
    \/ RelayCatchesUp
    \/ RelayForwards
    \/ RelayVanishes

Device ==
    \/ relay_client_start
    \/ relay_reconnect
    \/ relay_estab_handler
    \/ relay_close_handler
    \/ relay_recv_handler
    \/ relay_client_stop

Next == Device \/ Relay

Spec == Init /\ [][Next]_vars

\* The event loop runs every timer that is due, and a connect that is tried
\* again and again succeeds in the end.
FairSpec ==
    /\ Spec
    /\ WF_vars(relay_reconnect)
    /\ SF_vars(relay_reconnect /\ tc' = "connecting")
    /\ WF_vars(relay_estab_handler \/ (tc = "connecting" /\ relay_close_handler))
    /\ SF_vars(relay_estab_handler)
----------------------------------------------------------------------------
(* Properties.                                                             *)

\* The variables stay in the ranges the handlers of relay_client.c rely on.
TypeOK ==
    /\ life \in {"init", "up", "stopped"}
    /\ tc \in {"none", "connecting", "open"}
    /\ tmr \in Nat
    /\ rbuf \in Seq(Unit)
    /\ registered \in BOOLEAN
    /\ backoff \in 0..6
    /\ wire \in Seq(Unit)
    /\ peer \in {"silent", "asked", "registered", "refused", "overtaken",
                "bridged", "gone"}
    /\ lost \in Seq(Unit)

\* A running client either has a connection object or an armed reconnect
\* timer, never neither (it would stay offline for good) and never both (the
\* timer would tear down a working connection, relay_client.c:257); a client
\* that does not run has neither.
NeverStranded ==
    IF life = "up" THEN (tc # "none") # (tmr > 0)
    ELSE tc = "none" /\ tmr = 0

\* relay_client_is_connected tells the truth as far as the device can know:
\* registered is set only while the connection is open and the relay accepted
\* REGISTER on this very connection, whatever came before on earlier ones.
RegisteredIsCurrent ==
    registered => tc = "open" /\ peer \in {"registered", "bridged", "gone"}

\* Every armed delay lies between the first interval and the cap of
\* relay_backoff_delay, for any number of failures in a row.
DelayInRange ==
    tmr > 0 => RECONNECT_INTERVAL_MS <= tmr /\ tmr <= MAX_RECONNECT_MS

\* However a connection ended and however many failed before it, there is one
\* retry under way, and it comes neither at once nor later than the cap
\* (relay_client.c:53-62, 160-262).
AlwaysRetries == NeverStranded /\ DelayInRange

\* "Auto-reconnects if connection drops" (relay_client.c:8): a running client
\* that knows it has no open connection gets one, unless it is stopped. A
\* connection that vanished silently still counts as open here.
Reconnects ==
    (life = "up" /\ tc # "open") ~> (tc = "open" \/ life = "stopped")

\* "Once bridged, raw bytes flow transparently" (relay_server.c:19), except for
\* what came in the same receive as the BRIDGE line: the buffer that is freed with
\* the line (relay_client.c:149) holds no older line, and nothing later.
HandOffLosesOneReceive == Len(lost) < RXSZ
=============================================================================
