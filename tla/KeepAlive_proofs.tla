-------------------------- MODULE KeepAlive_proofs --------------------------
(***************************************************************************)
(* The safety properties of KeepAlive hold for every keep-alive interval,  *)
(* every bound on the clock and every number of outstanding pings.         *)
(***************************************************************************)
EXTENDS KeepAlive, TLAPS

(* What relates the timer to the packets: a reset went with a write, or    *)
(* with an error, and polling has not let the ping be overdue.             *)
TimerInv ==
  KeepsAlive =>
    /\ keep_alive.next_ping <= Latest(sentAt, excusedAt) + keep_alive.timeout
    /\ IF polled THEN now < keep_alive.next_ping
       ELSE now <= keep_alive.next_ping

(* The timer invariant and the types it needs are inductive. *)
LEMMA TimerInductive ==
  ASSUME KeepAliveTypeOK, TimerInv, [KeepAliveNext]_keepAliveVars
  PROVE  KeepAliveTypeOK' /\ TimerInv'
<1>1. CASE UNCHANGED keepAliveVars
  BY <1>1 DEF keepAliveVars, KeepAliveTypeOK, TimerInv, KeepsAlive
<1>2. ASSUME NEW result \in WriteResult, NEW timeout \in Timeouts,
             Connect(timeout, result)
      PROVE  KeepAliveTypeOK' /\ TimerInv'
  <2>1. timeout \in Nat
    BY TimeoutsAssumption DEF TimeoutsAssumption
  <2> QED
    BY <1>2, <2>1 DEF WriteResult, Connect, KeepAliver, Reset, Wrote,
                      Reports, Latest, KeepAliveTypeOK, TimerInv, KeepsAlive
<1>3. ASSUME NEW result \in WriteResult, Ping(result)
      PROVE  KeepAliveTypeOK' /\ TimerInv'
  BY <1>3 DEF WriteResult, Ping, WrotePing, Wrote, Reset, Latest,
              KeepAliveTypeOK, TimerInv, KeepsAlive
<1>4. ASSUME NEW result \in WriteResult, Send(result)
      PROVE  KeepAliveTypeOK' /\ TimerInv'
  BY <1>4 DEF WriteResult, Send, Wrote, Reports, Latest, KeepAliveTypeOK,
              TimerInv, KeepsAlive
<1>5. ASSUME NEW result \in WriteResult, UpdateState(result)
      PROVE  KeepAliveTypeOK' /\ TimerInv'
  <2>1. CASE UpdateStatePings(result)
    BY <1>5, <2>1 DEF WriteResult, UpdateState, UpdateStatePings, WrotePing,
                      Wrote, Reports, Latest, Reset, StartPingTimeout,
                      NeedsPing, KeepAliveTypeOK, TimerInv, KeepsAlive
  <2>2. CASE UpdateStateTimesOut
    BY <1>5, <2>2 DEF UpdateState, UpdateStateTimesOut, NeedsPing, Reports,
                      Latest, KeepAliveTypeOK, TimerInv, KeepsAlive
  <2>3. CASE UpdateStateIdles
    BY <1>5, <2>3 DEF UpdateState, UpdateStateIdles, NeedsPing, Reports,
                      KeepAliveTypeOK, TimerInv, KeepsAlive
  <2> QED BY <1>5, <2>1, <2>2, <2>3 DEF UpdateState
<1>6. CASE Pingresp
  BY <1>6 DEF Pingresp, Complete, Reports, KeepAliveTypeOK, TimerInv, KeepsAlive
<1>7. CASE Tick
  <2>1. now' = now + 1 /\ now \in Nat /\ now > 0
    BY <1>7 DEF Tick, KeepAliveTypeOK
  <2>2. UNCHANGED <<connected, keep_alive, ec, waiting, sentAt, pingedAt,
                    heardAt, excusedAt>>
    BY <1>7 DEF Tick
  <2>3. (polled \in BOOLEAN)' /\ polled /\ ~polled'
    BY <1>7 DEF Tick
  <2>4. TimerInv'
    BY <2>1, <2>2, <2>3 DEF KeepAliveTypeOK, TimerInv, KeepsAlive, Latest
  <2>5. KeepAliveTypeOK'
    BY <2>1, <2>2, <2>3 DEF KeepAliveTypeOK
  <2> QED BY <2>4, <2>5
<1> QED
  BY <1>1, <1>2, <1>3, <1>4, <1>5, <1>6, <1>7 DEF KeepAliveNext

(* Everything the timer invariant needs holds in every reachable state. *)
THEOREM TimerInvariant == KeepAliveSpec => [](KeepAliveTypeOK /\ TimerInv)
<1>1. KeepAliveInit => KeepAliveTypeOK
  <2>1. KeepAliveInit => polled \in BOOLEAN /\ connected \in BOOLEAN
    BY DEF KeepAliveInit
  <2>2. KeepAliveInit =>
          keep_alive \in [timeout: Nat, next_ping: Nat, ping_timeout: Nat]
    BY DEF KeepAliveInit, KeepAliver, Reset
  <2> QED BY <2>1, <2>2 DEF KeepAliveInit, KeepAliveTypeOK
<1>2. KeepAliveInit => TimerInv
  BY DEF KeepAliveInit, TimerInv, KeepsAlive
<1> QED BY <1>1, <1>2, TimerInductive, PTL DEF KeepAliveSpec

(* The broker hears from the client in every keep-alive interval. *)
THEOREM PingsInTimeTheorem == KeepAliveSpec => []PingsInTime
<1>1. KeepAliveTypeOK /\ TimerInv => PingsInTime
  BY DEF KeepAliveTypeOK, TimerInv, PingsInTime, KeepsAlive, Latest
<1> QED BY <1>1, TimerInvariant, PTL
-----------------------------------------------------------------------------
(* While a ping timeout runs, the ping that started it is the last one and *)
(* has not been answered.                                                  *)
TimeoutInv ==
  /\ keep_alive.ping_timeout # 0 =>
       /\ keep_alive.ping_timeout = pingedAt + 15
       /\ waiting > 0
       /\ heardAt <= pingedAt
  /\ NoFalseTimeout

(* Every action keeps it: a ping by hand stops the timeout.                *)
LEMMA TimeoutInductive ==
  ASSUME KeepAliveTypeOK, TimeoutInv, [KeepAliveNext]_keepAliveVars
  PROVE  TimeoutInv'
<1>1. CASE UNCHANGED keepAliveVars
  BY <1>1 DEF keepAliveVars, TimeoutInv, NoFalseTimeout
<1>2. ASSUME NEW result \in WriteResult, NEW timeout \in Timeouts,
             Connect(timeout, result)
      PROVE  TimeoutInv'
  BY <1>2 DEF WriteResult, Connect, KeepAliver, Reset, Reports, TimeoutInv,
              NoFalseTimeout
<1>3. ASSUME NEW result \in WriteResult, Ping(result)
      PROVE  TimeoutInv'
  BY <1>3 DEF WriteResult, Ping, Reset, TimeoutInv, NoFalseTimeout
<1>4. ASSUME NEW result \in WriteResult, Send(result)
      PROVE  TimeoutInv'
  BY <1>4 DEF WriteResult, Send, Reports, TimeoutInv, NoFalseTimeout
<1>5. ASSUME NEW result \in WriteResult, UpdateState(result)
      PROVE  TimeoutInv'
  <2>1. CASE UpdateStatePings(result)
    BY <1>5, <2>1 DEF WriteResult, UpdateState, UpdateStatePings, WrotePing,
                      Reports, Reset, StartPingTimeout, KeepAliveTypeOK,
                      TimeoutInv, NoFalseTimeout
  <2>2. CASE UpdateStateTimesOut
    BY <1>5, <2>2 DEF UpdateState, UpdateStateTimesOut, TimedOut, Reports,
                      KeepAliveTypeOK, TimeoutInv, NoFalseTimeout
  <2>3. CASE UpdateStateIdles
    BY <1>5, <2>3 DEF UpdateState, UpdateStateIdles, Reports, TimeoutInv,
                      NoFalseTimeout
  <2> QED BY <1>5, <2>1, <2>2, <2>3 DEF UpdateState
<1>6. CASE Pingresp
  BY <1>6 DEF Pingresp, Complete, Reports, KeepAliveTypeOK, TimeoutInv,
              NoFalseTimeout
<1>7. CASE Tick
  BY <1>7 DEF Tick, KeepAliveTypeOK, TimeoutInv, NoFalseTimeout
<1> QED
  BY <1>1, <1>2, <1>3, <1>4, <1>5, <1>6, <1>7 DEF KeepAliveNext

(* The connection is given up only for a PINGREQ that stayed unanswered    *)
(* for more than fifteen seconds.                                          *)
THEOREM NoFalseTimeoutTheorem == KeepAliveSpec => []NoFalseTimeout
<1>1. KeepAliveInit => TimeoutInv
  BY DEF KeepAliveInit, TimeoutInv, NoFalseTimeout, KeepAliver, Reset
<1>2. TimeoutInv => NoFalseTimeout
  BY DEF TimeoutInv
<1> QED BY <1>1, <1>2, TimerInvariant, TimeoutInductive, PTL DEF KeepAliveSpec
-----------------------------------------------------------------------------
(* Seen from the last PINGRESP, error or ping by hand the next ping is due *)
(* within the keep-alive interval; once it has been sent, its timeout is   *)
(* noticed by the first poll after it, because the following ping is not   *)
(* yet due then.                                                           *)
SilenceInv ==
  KeepsAlive /\ keep_alive.timeout > 16 =>
    /\ keep_alive.next_ping <= now + keep_alive.timeout
    /\ keep_alive.ping_timeout = 0 =>
         keep_alive.next_ping <=
           Latest(heardAt, excusedAt) + keep_alive.timeout
    /\ keep_alive.ping_timeout # 0 =>
         /\ keep_alive.next_ping =
              keep_alive.ping_timeout - 15 + keep_alive.timeout
         /\ keep_alive.ping_timeout <=
              Latest(heardAt, excusedAt) + keep_alive.timeout + 15
         /\ IF polled THEN now <= keep_alive.ping_timeout \/ now = excusedAt
            ELSE now <= keep_alive.ping_timeout + 1 \/ now <= excusedAt + 1

(* Every action keeps it, a failed ping by the error it reports.           *)
LEMMA SilenceInductive ==
  ASSUME KeepAliveTypeOK, TimerInv, SilenceInv, [KeepAliveNext]_keepAliveVars
  PROVE  SilenceInv'
<1>1. CASE UNCHANGED keepAliveVars
  BY <1>1 DEF keepAliveVars, SilenceInv, KeepsAlive
<1>2. ASSUME NEW result \in WriteResult, NEW timeout \in Timeouts,
             Connect(timeout, result)
      PROVE  SilenceInv'
  <2>1. timeout \in Nat
    BY TimeoutsAssumption DEF TimeoutsAssumption
  <2> QED
    BY <1>2, <2>1 DEF WriteResult, Connect, KeepAliver, Reset, Reports,
                      Latest, KeepAliveTypeOK, SilenceInv, KeepsAlive
<1>3. ASSUME NEW result \in WriteResult, Ping(result)
      PROVE  SilenceInv'
  BY <1>3 DEF WriteResult, Ping, Reset, Latest, KeepAliveTypeOK, SilenceInv,
              KeepsAlive
<1>4. ASSUME NEW result \in WriteResult, Send(result)
      PROVE  SilenceInv'
  BY <1>4 DEF WriteResult, Send, Reports, Latest, KeepAliveTypeOK, SilenceInv,
              KeepsAlive
<1>5. ASSUME NEW result \in WriteResult, UpdateState(result)
      PROVE  SilenceInv'
  <2>1. CASE UpdateStatePings(result)
    BY <1>5, <2>1 DEF WriteResult, UpdateState, UpdateStatePings, Reports,
                      Reset, StartPingTimeout, NeedsPing, Latest,
                      KeepAliveTypeOK, TimerInv, SilenceInv, KeepsAlive
  <2>2. CASE UpdateStateTimesOut
    BY <1>5, <2>2 DEF UpdateState, UpdateStateTimesOut, Reports, Latest,
                      KeepAliveTypeOK, SilenceInv, KeepsAlive
  <2>3. CASE UpdateStateIdles
    BY <1>5, <2>3 DEF UpdateState, UpdateStateIdles, NeedsPing, TimedOut,
                      Reports, KeepAliveTypeOK, SilenceInv, KeepsAlive
  <2> QED BY <1>5, <2>1, <2>2, <2>3 DEF UpdateState
<1>6. CASE Pingresp
  BY <1>6 DEF Pingresp, Complete, Reports, Latest, KeepAliveTypeOK,
              SilenceInv, KeepsAlive
<1>7. CASE Tick
  BY <1>7 DEF Tick, KeepAliveTypeOK, SilenceInv, KeepsAlive
<1> QED
  BY <1>1, <1>2, <1>3, <1>4, <1>5, <1>6, <1>7 DEF KeepAliveNext

(* A silent broker is found out, with every keep-alive interval that is    *)
(* longer than the ping timeout.                                           *)
THEOREM DetectsSilenceTheorem == KeepAliveSpec => []DetectsSilence
<1>1. KeepAliveInit => SilenceInv
  BY DEF KeepAliveInit, SilenceInv, KeepsAlive
<1>2. KeepAliveTypeOK /\ TimerInv /\ SilenceInv => DetectsSilence
  BY DEF KeepAliveTypeOK, TimerInv, SilenceInv, DetectsSilence, Silence,
         KeepsAlive, Latest
<1>3. KeepAliveTypeOK /\ TimerInv /\ SilenceInv /\ [KeepAliveNext]_keepAliveVars
        => SilenceInv'
  BY SilenceInductive
<1> QED BY <1>1, <1>2, <1>3, TimerInvariant, PTL DEF KeepAliveSpec
=============================================================================
