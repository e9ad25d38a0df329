----------------------------- MODULE KeepAlive -----------------------------
(***************************************************************************)
(* The keep-alive logic: terraqtt/keep_aliver.hpp and the operations of    *)
(* terraqtt/client.hpp that use it (connect, ping, update_state and the    *)
(* handling of PINGRESP), driven by a caller that polls like               *)
(* examples/lightweight.cpp does: update_state at least once per unit of   *)
(* time (a second, the unit of every duration in the code).  The caller    *)
(* may or may not go on after an error.                                    *)
(***************************************************************************)
EXTENDS Integers

CONSTANTS
  Timeouts,     \* the keep_alive values passed to connect, in seconds
  MaxTime,      \* bound on the clock
  MaxPings,     \* bound on the pings waiting for an answer
  ManualPings,  \* whether the caller also calls ping() itself
  Traffic,      \* the times at which other packets may be sent
  Persists      \* the errors after which the caller goes on

ASSUME TimeoutsAssumption ==
  \A timeout \in Timeouts : timeout \in Nat /\ timeout < 65536

ASSUME BoundsAssumption ==
  /\ MaxTime \in Nat /\ MaxPings \in Nat
  /\ ManualPings \in BOOLEAN /\ Traffic \subseteq Nat
  /\ Persists \subseteq {"io_error", "connection_timed_out"}

VARIABLES
  now,         \* Clock::now()
  polled,      \* whether update_state has been called since the last tick
  connected,   \* whether connect has been called
  keep_alive,  \* the Keep_aliver
  ec,          \* the error_code of the last call
  waiting,     \* PINGREQs sent for which no PINGRESP has been processed
  sentAt,      \* when the client last wrote a packet
  pingedAt,    \* when it last wrote a PINGREQ
  heardAt,     \* when it last processed a PINGRESP (or connected)
  excusedAt    \* when a call last reported an error to the caller, or the
               \* caller last pinged by hand

keepAliveVars == <<now, polled, connected, keep_alive, ec, waiting, sentAt,
                   pingedAt, heardAt, excusedAt>>

-----------------------------------------------------------------------------
(* class Keep_aliver: operations map the object to the object.  The clock  *)
(* starts at 1: 0 is the epoch, a value-initialised time_point.            *)
MutantReset(k) ==   \* the next ping is due in the past
  [timeout |-> k.timeout, next_ping |-> now - k.timeout, ping_timeout |-> 0]

Reset(k) ==
  [timeout |-> k.timeout, next_ping |-> now + k.timeout, ping_timeout |-> 0]

KeepAliver(timeout) == Reset([timeout |-> timeout])

MutantComplete(k) == k   \* an answer does not stop the timeout

Complete(k) == [k EXCEPT !.ping_timeout = 0]

MutantStartPingTimeout(k) == k   \* the timeout never runs

StartPingTimeout(k) == [k EXCEPT !.ping_timeout = now + 15]

MutantNeedsPing(k) == k.timeout # 0 /\ now > k.next_ping   \* too late

NeedsPing(k) == k.timeout # 0 /\ now >= k.next_ping

TimedOut(k) ==
  k.timeout # 0 /\ k.ping_timeout # 0 /\ k.ping_timeout < now

-----------------------------------------------------------------------------
(* Writing a packet either succeeds or reports io_error. *)
WriteResult == {"none", "io_error"}

Wrote(result) == sentAt' = IF result = "none" THEN now ELSE sentAt

(* The error_code a call hands back. *)
Reports(result) ==
  /\ ec' = result
  /\ excusedAt' = IF result = "none" THEN excusedAt ELSE now

WrotePing(result) ==
  /\ Wrote(result)
  /\ pingedAt' = IF result = "none" THEN now ELSE pingedAt
  /\ waiting' = IF result = "none" THEN waiting + 1 ELSE waiting

(* connect() sets the timer, and ping() resets it, whether or not the      *)
(* packet could be written.                                                *)
Connect(timeout, result) ==
  /\ ~connected /\ connected' = TRUE
  /\ keep_alive' = KeepAliver(timeout)
  /\ Reports(result)
  /\ Wrote(result)
  /\ heardAt' = now
  /\ UNCHANGED <<now, polled, waiting, pingedAt>>

Ping(result) ==
  /\ ManualPings /\ connected /\ waiting < MaxPings
  /\ WrotePing(result)
  /\ keep_alive' = Reset(keep_alive)
  /\ ec' = result
  /\ excusedAt' = now
  /\ UNCHANGED <<now, polled, connected, heardAt>>

(* publish, subscribe and unsubscribe. *)
Send(result) ==
  /\ now \in Traffic /\ connected
  /\ Wrote(result)
  /\ Reports(result)
  /\ UNCHANGED <<now, polled, connected, keep_alive, waiting, pingedAt,
                 heardAt>>

UpdateStatePings(result) ==
  /\ NeedsPing(keep_alive)
  /\ WrotePing(result)
  /\ keep_alive' = IF result = "none" THEN StartPingTimeout(Reset(keep_alive))
                   ELSE Reset(keep_alive)
  /\ Reports(result)

UpdateStateTimesOut ==
  /\ ~NeedsPing(keep_alive) /\ TimedOut(keep_alive)
  /\ Reports("connection_timed_out")
  /\ UNCHANGED <<keep_alive, waiting, sentAt, pingedAt>>

UpdateStateIdles ==
  /\ ~NeedsPing(keep_alive) /\ ~TimedOut(keep_alive)
  /\ Reports("none")
  /\ UNCHANGED <<keep_alive, waiting, sentAt, pingedAt>>

UpdateState(result) ==
  /\ UpdateStatePings(result) \/ UpdateStateTimesOut \/ UpdateStateIdles
  /\ polled' = TRUE
  /\ UNCHANGED <<now, connected, heardAt>>

(* process_one delivers a PINGRESP; no other packet touches the timers. *)
Pingresp ==
  /\ waiting > 0 /\ waiting' = waiting - 1
  /\ keep_alive' = Complete(keep_alive)
  /\ heardAt' = now
  /\ Reports("none")
  /\ UNCHANGED <<now, polled, connected, sentAt, pingedAt>>

Tick ==
  /\ polled /\ now < MaxTime
  /\ now' = now + 1 /\ polled' = FALSE
  /\ UNCHANGED <<connected, keep_alive, ec, waiting, sentAt, pingedAt,
                 heardAt, excusedAt>>

KeepAliveInit ==
  /\ now = 1 /\ polled = FALSE /\ connected = FALSE
  /\ keep_alive = KeepAliver(0)
  /\ ec = "none" /\ waiting = 0
  /\ sentAt = 1 /\ pingedAt = 0 /\ heardAt = 1 /\ excusedAt = 0

KeepAliveNext ==
  /\ ec \in Persists \cup {"none"}
  /\ \/ \E result \in WriteResult :
          \/ \E timeout \in Timeouts : Connect(timeout, result)
          \/ Ping(result) \/ Send(result) \/ UpdateState(result)
     \/ Pingresp \/ Tick

KeepAliveSpec == KeepAliveInit /\ [][KeepAliveNext]_keepAliveVars
-----------------------------------------------------------------------------
Latest(a, b) == IF a < b THEN b ELSE a

KeepAliveTypeOK ==
  /\ now \in Nat /\ now > 0
  /\ polled \in BOOLEAN /\ connected \in BOOLEAN
  /\ keep_alive \in [timeout: Nat, next_ping: Nat, ping_timeout: Nat]
  /\ ec \in {"none", "io_error", "connection_timed_out"}
  /\ waiting \in Nat
  /\ sentAt \in Nat /\ sentAt <= now
  /\ pingedAt \in Nat /\ pingedAt <= now
  /\ heardAt \in Nat /\ heardAt <= now
  /\ excusedAt \in Nat /\ excusedAt <= now

KeepsAlive == connected /\ keep_alive.timeout # 0

(* In every keep-alive interval the broker hears from the client, or the   *)
(* caller hears of an error, whatever pings were answered, sent by hand or *)
(* are still waiting.  That ping() resets the timer when it could not      *)
(* write (client.hpp:212) does not hide a broken stream from a caller who  *)
(* goes on: the failure is reported again in every interval.               *)
PingsInTime ==
  KeepsAlive => now <= Latest(sentAt, excusedAt) + keep_alive.timeout

(* The connection is given up only for a PINGREQ that stayed unanswered    *)
(* for more than fifteen seconds: an answer processed in time, even in the *)
(* same second, always wins over the timeout.                              *)
NoFalseTimeout ==
  ec = "connection_timed_out" =>
    /\ waiting > 0
    /\ heardAt <= pingedAt
    /\ now - pingedAt > 15

(* A broker that has fallen silent is found out: the client never goes on  *)
(* for longer than a keep-alive interval and the ping timeout without a    *)
(* PINGRESP or an error (keep_aliver.hpp:39-43), unless the caller stops   *)
(* the timeout by a ping of its own.                                       *)
Silence == now - Latest(heardAt, excusedAt)

DetectsAnySilence == KeepsAlive => Silence <= keep_alive.timeout + 16

(* It holds for the intervals that leave the ping timeout time to expire.  *)
DetectsSilence ==
  KeepsAlive /\ keep_alive.timeout > 16 =>
    Silence <= keep_alive.timeout + 16
=============================================================================
