----------------------- MODULE PeerSupervisionProofs -----------------------
(***************************************************************************)
(* What PeerSupervision guarantees for every tick range, timeout, boot     *)
(* time and lag.  A loss is reported once because the report and the state *)
(* TIMED_OUT go together (ReportedIsTimedOut), and readiness is earned     *)
(* because the master knows of no state of the peer before it has heard    *)
(* one (KnownIsHeard).  In time, HbClock and BootClock bound how far the   *)
(* silence and the master's own clocks can be apart, and Truth how far     *)
(* they cannot; Pending is about the heartbeat in between, and Restarted   *)
(* about a master that no pass has judged yet.  They hold until the node   *)
(* is Dead: latched, with no pass left in it (TimedInv).                   *)
(***************************************************************************)
EXTENDS PeerSupervision, Integers, TLAPS

ReportedIsTimedOut == timeouts > 0 => timeouts = 1 /\ master.state[Peer] = "TIMED_OUT"

KnownIsHeard == master.state[Peer] \in {"PREOP", "OPERATIONAL", "STOPPED"} => heard

PeerInv == TypeOK /\ ReportedIsTimedOut /\ KnownIsHeard /\ ReadinessEarned

\* The clocks, all read now.
SinceTick == Since(now, tick)
SinceLast == Since(now, lastTick)
SinceHeard == Since(now, master.last[Peer])
SinceStart == Since(now, master.startedAt)

Watching == master.running /\ master.state[Peer] # "TIMED_OUT"

Booting == master.running /\ ~master.bootReported /\ ~heard

\* What a clock may have gained since the master judged it.
Slack == IF pc = "loop" THEN 0 ELSE MaxLag

\* The tick is fresh, the last tick is it or, after a rebuild, a later one, the
\* master is off and CAN down during a rebuild, and a silence is remembered only
\* after CO_process.
Sampled ==
  /\ SinceTick <= MaxLag
  /\ pc = "loop" => SinceLast <= SinceTick
  /\ pc \in {"pre", "co", "master", "reset"} => lastTick = tick
  /\ pc = "rebuild" => ~master.running /\ ~canUp
  /\ pc = "built" => rxNew = "none" /\ ~canUp
  /\ pc # "master" => before = 0

\* A master that no pass has judged was started in this one.
Restarted ==
  master.running /\ (pc = "built" \/ (pc = "loop" /\ lastTick # tick)) =>
    master.last[Peer] = master.startedAt /\ silence <= SinceStart /\ SinceStart <= SinceTick

\* A heartbeat that waits for the master is at most one pass old.
Pending ==
  master.running /\ rxNew # "none" =>
    silence <= CASE pc = "loop" -> SinceLast
                 [] pc \in {"pre", "co"} -> SinceTick + MaxLag
                 [] OTHER -> SinceTick

\* A peer that is not timed out was heard recently, by the master's clock, or
\* the master was started recently; this clock starts no earlier than the tick,
\* or with the master.
HbClock ==
  Watching =>
    /\ silence <= SinceHeard + MaxLag
    /\ \/ SinceHeard <= HbTimeoutMs + Slack + SinceTick
       \/ /\ master.last[Peer] = master.startedAt
          /\ silence <= SinceHeard /\ SinceHeard <= MaxLag + Slack + SinceTick
    /\ master.last[Peer] = master.startedAt \/ SinceHeard >= SinceTick

\* An absence that is not reported has not lasted longer than the boot time, or
\* the master was started recently.
BootClock ==
  Booting =>
    /\ silence <= SinceStart
    /\ \/ SinceStart <= BootTimeMs + Slack + SinceTick
       \/ SinceStart <= MaxLag + Slack + SinceTick

\* Nor does the master's clock run ahead of the silence, or of the one that a
\* heartbeat after CO_process has ended, unless a heartbeat was not received.
Truth ==
  Watching /\ ~unheard =>
    /\ rxNew = "none" \/ (pc = "co" /\ ~late) => SinceHeard <= silence + MaxLag
    /\ pc = "master" => IF rxNew = "none" THEN before = 0
                        ELSE SinceHeard <= before + MaxLag + SinceTick

Clocks == Sampled /\ Restarted /\ Pending /\ HbClock /\ BootClock /\ Truth

\* The guard of every pass is closed; nothing happens but interrupts.
Dead == pc = "loop" /\ latched

TimedInv == Dead \/ Clocks

-----------------------------------------------------------------------------
(* The clock and the master *)

\* Adding to a tick and subtracting two ticks stay within the tick's range.
LEMMA TickArithmetic ==
  /\ \A t \in Ticks, ms \in Nat : After(t, ms) \in Ticks
  /\ 0 \in Ticks
<1>1. \A n \in Nat : n % TickMod \in Ticks
  BY TickModAssumption DEF Ticks
<1>2. \A t \in Ticks, ms \in Nat : t + ms \in Nat
  BY DEF Ticks
<1> QED
  BY <1>1, <1>2, TickModAssumption DEF After, Ticks

\* Below twice the range the remainder is a subtraction.
LEMMA WrapOnce ==
  ASSUME NEW x \in Nat, x < 2 * TickMod
  PROVE  x % TickMod = IF x < TickMod THEN x ELSE x - TickMod
<1> USE TickModAssumption
<1>1. CASE x < TickMod
  BY <1>1
<1>2. CASE ~(x < TickMod)
  <2>1. x - TickMod \in Nat /\ x - TickMod < TickMod
    BY <1>2
  <2>2. (x - TickMod) % TickMod = x - TickMod
    BY <2>1
  <2>3. x % TickMod = (x - TickMod) % TickMod
    BY <1>2, <2>1
  <2> QED
    BY <1>2, <2>2, <2>3
<1> QED
  BY <1>1, <1>2

\* What Since is, without the remainder.
LEMMA SinceValue ==
  ASSUME NEW t \in Ticks, NEW e \in Ticks
  PROVE  /\ Since(t, e) = IF t >= e THEN t - e ELSE t + TickMod - e
         /\ Since(t, e) \in Ticks
<1>1. t + TickMod - e \in Nat /\ t + TickMod - e < 2 * TickMod
  BY TickModAssumption DEF Ticks
<1>2. Since(t, e) = IF t >= e THEN t - e ELSE t + TickMod - e
  BY <1>1, WrapOnce, TickModAssumption DEF Since, Ticks
<1>3. t \in 0 .. TickMod - 1 /\ e \in 0 .. TickMod - 1 /\ TickMod \in Nat
  BY TickModAssumption DEF Ticks
<1>4. (IF t >= e THEN t - e ELSE t + TickMod - e) \in 0 .. TickMod - 1
  BY <1>3
<1> QED
  BY <1>2, <1>4 DEF Ticks

\* A millisecond adds one to the time since, until that wraps.
LEMMA OneMore ==
  ASSUME NEW t \in Ticks, NEW e \in Ticks, Since(t, e) + 1 < TickMod
  PROVE  Since(After(t, 1), e) = Since(t, e) + 1
<1>1. TickMod \in Nat \ {0} /\ t \in 0 .. TickMod - 1 /\ e \in 0 .. TickMod - 1
  BY TickModAssumption DEF Ticks
<1>2. After(t, 1) = IF t + 1 < TickMod THEN t + 1 ELSE 0
  <2>1. t + 1 \in Nat /\ t + 1 < 2 * TickMod
    BY <1>1
  <2> QED
    BY <1>1, <2>1, WrapOnce DEF After
<1>3. After(t, 1) \in Ticks
  BY <1>1, <1>2 DEF Ticks
<1>4. Since(t, e) = IF t >= e THEN t - e ELSE t + TickMod - e
  BY SinceValue
<1>5. Since(After(t, 1), e) =
        IF After(t, 1) >= e THEN After(t, 1) - e ELSE After(t, 1) + TickMod - e
  BY <1>3, SinceValue
<1> QED
  BY <1>1, <1>2, <1>4, <1>5

\* No time has passed since now.
LEMMA SinceNow ==
  ASSUME NEW t \in Ticks
  PROVE  Since(t, t) = 0
<1>1. t \in Nat
  BY TickModAssumption DEF Ticks
<1> QED
  BY <1>1, SinceValue

\* The time from one tick to another, by a third one: if e is the later of the
\* two, the difference wraps.
LEMMA TimeBetween ==
  ASSUME NEW n \in Ticks, NEW t \in Ticks, NEW e \in Ticks
  PROVE  Since(t, e) = IF Since(n, e) >= Since(n, t) THEN Since(n, e) - Since(n, t)
                       ELSE Since(n, e) + TickMod - Since(n, t)
<1>1. /\ TickMod \in Nat
      /\ n \in 0 .. TickMod - 1 /\ t \in 0 .. TickMod - 1 /\ e \in 0 .. TickMod - 1
  BY TickModAssumption DEF Ticks
<1>2. /\ Since(t, e) = IF t >= e THEN t - e ELSE t + TickMod - e
      /\ Since(n, e) = IF n >= e THEN n - e ELSE n + TickMod - e
      /\ Since(n, t) = IF n >= t THEN n - t ELSE n + TickMod - t
  BY SinceValue
<1> QED
  BY <1>1, <1>2

\* There is one node, the peer, and it is mandatory.
LEMMA OnePeer == Nodes = {Peer} /\ Mandatory = {Peer} /\ Peer \in Nodes
BY PeerAssumption

\* A counter with a top stays below it.
LEMMA UpToBounds ==
  ASSUME NEW top \in Nat, NEW count \in 0 .. top
  PROVE  UpTo(count, top) \in 0 .. top
BY DEF UpTo

\* A master that is stopped or started has heard nothing and is not ready.
LEMMA MasterStarts ==
  ASSUME NEW t \in Ticks,
         NEW m \in {MasterStopped, MasterStarted(t)}
  PROVE  /\ m \in Masters
         /\ ~m.ready /\ m.state[Peer] = "WAITING_BOOTUP"
         /\ ~MasterStopped.running
         /\ MasterStarted(t).startedAt = t /\ MasterStarted(t).last[Peer] = t
<1>1. 0 \in Ticks
  BY TickArithmetic
<1>2. MasterStopped \in Masters
  BY <1>1 DEF MasterStopped, Masters, NodeStates
<1>3. MasterStarted(t) \in Masters
  BY DEF MasterStarted, Masters, NodeStates
<1>4. ~m.ready /\ m.state = [n \in Nodes |-> "WAITING_BOOTUP"]
  BY DEF MasterStopped, MasterStarted
<1>5. ~MasterStopped.running
  BY DEF MasterStopped
<1>6. MasterStarted(t).startedAt = t /\ MasterStarted(t).last = [n \in Nodes |-> t]
  BY DEF MasterStarted
<1> QED
  BY <1>2, <1>3, <1>4, <1>5, <1>6, OnePeer

\* A byte is taken for a state only if it stands for one.
LEMMA HeardStates ==
  ASSUME NEW b \in Bytes, NEW s \in NodeStates
  PROVE  /\ HeardState(b, s) \in NodeStates
         /\ b = "invalid" => HeardState(b, s) = s
BY MasterAssumption DEF HeardState, NodeStates

\* What a received byte does to the master.
LEMMA ReceiveStep ==
  ASSUME master \in Masters, NEW b \in Bytes, NEW t \in Ticks, Receive(Peer, b, t)
  PROVE  /\ master' \in Masters
         /\ master'.ready = master.ready
         /\ b = "invalid" => master'.state[Peer] = master.state[Peer]
         /\ master'.last[Peer] = t
         /\ master'.running = master.running /\ master'.startedAt = master.startedAt
         /\ master'.bootReported = master.bootReported
<1>1. master.state[Peer] \in NodeStates
  BY OnePeer DEF Masters
<1>2. HeardState(b, master.state[Peer]) \in NodeStates
  BY <1>1, HeardStates
<1> DEFINE states == [master.state EXCEPT ![Peer] = HeardState(b, master.state[Peer])]
           lasts == [master.last EXCEPT ![Peer] = t]
<1>3. master' = [master EXCEPT !.state = states, !.last = lasts]
  BY DEF Receive, Masters
<1>4. /\ states \in [Nodes -> NodeStates]
      /\ states[Peer] = HeardState(b, master.state[Peer])
  BY <1>2, OnePeer DEF Masters
<1>5. lasts \in [Nodes -> Ticks] /\ lasts[Peer] = t
  BY OnePeer DEF Masters
<1> HIDE DEF states, lasts
<1>6. /\ master' \in Masters /\ master'.ready = master.ready
      /\ master'.state[Peer] = HeardState(b, master.state[Peer])
      /\ master'.last[Peer] = t
      /\ master'.running = master.running /\ master'.startedAt = master.startedAt
      /\ master'.bootReported = master.bootReported
  BY <1>3, <1>4, <1>5 DEF Masters
<1> QED
  BY <1>1, <1>6, HeardStates

\* What the master's judgement does: a peer that expires is timed out and was
\* not, any other keeps its state, and the network becomes ready only if the
\* peer's state is known.
LEMMA MasterProcessStep ==
  ASSUME master \in Masters, NEW t \in Ticks, MasterProcess(t)
  PROVE  /\ master' \in Masters
         /\ Peer \in Expiring(t) => /\ master.state[Peer] # "TIMED_OUT"
                                    /\ master'.state[Peer] = "TIMED_OUT"
         /\ Peer \notin Expiring(t) => master'.state[Peer] = master.state[Peer]
         /\ BecomesReady(t) =>
              /\ ~master.ready
              /\ master.state[Peer] \in {"PREOP", "OPERATIONAL", "STOPPED"}
         /\ master'.ready = (master.ready \/ BecomesReady(t))
         /\ master'.running = master.running /\ master'.startedAt = master.startedAt
         /\ master'.last = master.last
         /\ master.bootReported => master'.bootReported
         /\ /\ master'.state[Peer] \in {"WAITING_BOOTUP", "TIMED_OUT"}
            /\ Since(t, master.startedAt) > BootTimeMs
            => master'.bootReported
<1>1. StateAfter(t) \in [Nodes -> NodeStates]
  BY DEF StateAfter, Masters, NodeStates
<1>2. BootTimesOut(t) \in BOOLEAN /\ BecomesReady(t) \in BOOLEAN
  BY DEF BootTimesOut, BecomesReady
<1>3. /\ master' \in Masters
      /\ master'.state = StateAfter(t)
      /\ master'.ready = (master.ready \/ BecomesReady(t))
      /\ master'.running = master.running /\ master'.startedAt = master.startedAt
      /\ master'.last = master.last
      /\ master'.bootReported = (master.bootReported \/ BootTimesOut(t))
  BY <1>1, <1>2 DEF MasterProcess, Masters
<1>4. StateAfter(t)[Peer] = IF Peer \in Expiring(t) THEN "TIMED_OUT" ELSE master.state[Peer]
  BY OnePeer DEF StateAfter
<1>5. BecomesReady(t) => ~master.ready /\ StateAfter(t)[Peer] \notin {"WAITING_BOOTUP", "TIMED_OUT"}
  BY OnePeer DEF BecomesReady, Missing
<1>6. master.state[Peer] \in NodeStates
  BY OnePeer DEF Masters
<1>7. Peer \in Expiring(t) => master.state[Peer] # "TIMED_OUT"
  BY DEF Expiring
<1>8. StateAfter(t)[Peer] \in {"WAITING_BOOTUP", "TIMED_OUT"} =>
        Missing(t) # {}
  BY OnePeer DEF Missing
<1>9. /\ StateAfter(t)[Peer] \in {"WAITING_BOOTUP", "TIMED_OUT"}
      /\ Since(t, master.startedAt) > BootTimeMs
      => master'.bootReported
  BY <1>3, <1>8 DEF BootTimesOut
<1> QED
  BY <1>3, <1>4, <1>5, <1>6, <1>7, <1>9 DEF NodeStates

-----------------------------------------------------------------------------
(* The invariant *)

\* The node starts with a peer that it has not heard.
LEMMA PeerStarts == Init => PeerInv
<1> SUFFICES ASSUME Init PROVE PeerInv
  OBVIOUS
<1>1. 0 \in Ticks
  BY TickArithmetic
<1>2. master \in Masters /\ ~master.ready /\ master.state[Peer] = "WAITING_BOOTUP"
  BY <1>1, MasterStarts DEF Init
<1>3. 0 \in 0 .. MaxSilence /\ 0 \in 0 .. 2
  BY MasterAssumption, PeerAssumption DEF MaxSilence
<1>4. TypeOK
  BY <1>1, <1>2, <1>3 DEF Init, TypeOK
<1>5. timeouts = 0 /\ starts = 0
  BY DEF Init
<1> QED
  BY <1>2, <1>4, <1>5 DEF PeerInv, ReportedIsTimedOut, KnownIsHeard, ReadinessEarned

\* Only PreProcess, Process and a rebuild touch what the invariant speaks of.
LEMMA PeerStep == PeerInv /\ [Next]_vars => PeerInv'
<1> SUFFICES ASSUME PeerInv, [Next]_vars PROVE PeerInv'
  OBVIOUS
<1> USE DEF PeerInv
<1>0. /\ master \in Masters /\ master.state[Peer] \in NodeStates
      /\ now \in Ticks /\ tick \in Ticks /\ lastTick \in Ticks /\ 0 \in 0 .. MaxSilence
      /\ MaxSilence \in Nat
  BY OnePeer, MasterAssumption, PeerAssumption DEF TypeOK, Masters, MaxSilence
<1>zero. 0 \in 0 .. 2
  OBVIOUS
<1>1. CASE SysTick
  <2>1. now' \in Ticks /\ silence' \in 0 .. MaxSilence
    BY <1>0, <1>1, TickArithmetic, UpToBounds DEF TypeOK, SysTick
  <2> QED
    BY <1>1, <2>1
    DEF TypeOK, ReportedIsTimedOut, KnownIsHeard, ReadinessEarned, SysTick, ghostVars,
        nodeVars
<1>2. ASSUME NEW b \in Bytes, Heartbeat(b) PROVE PeerInv'
  <2>1. rxNew' \in Bytes \cup {"none"} /\ late' \in BOOLEAN /\ unheard' \in BOOLEAN
    BY <1>2 DEF TypeOK, Heartbeat
  <2>2. silence' \in 0 .. MaxSilence /\ before' \in 0 .. MaxSilence
    BY <1>0, <1>2 DEF TypeOK, Heartbeat
  <2> QED
    BY <1>2, <2>1, <2>2
    DEF TypeOK, ReportedIsTimedOut, KnownIsHeard, ReadinessEarned, Heartbeat, nodeVars
<1>3. CASE PassStart
  BY <1>3
  DEF TypeOK, ReportedIsTimedOut, KnownIsHeard, ReadinessEarned, PassStart, PassGoesOn,
      nodeVars, silenceVars, ghostVars
<1>4. CASE PreProcess
  <2>1. CASE rxNew # "none" /\ master.running
    <3>1. /\ Receive(Peer, rxNew, tick) /\ heard' = (heard \/ rxNew # "invalid")
          /\ unheard' = FALSE /\ timeouts' = 0
      BY <1>4, <2>1 DEF PreProcess
    <3>2. /\ master' \in Masters /\ master'.ready = master.ready
          /\ rxNew = "invalid" => master'.state[Peer] = master.state[Peer]
      BY <1>0, <2>1, <3>1, ReceiveStep DEF TypeOK
    <3>3. TypeOK'
      BY <1>zero, <1>4, <3>1, <3>2 DEF TypeOK, PreProcess, nodeVars, silenceVars
    <3>4. starts' = starts /\ (heard => heard')
      BY <1>4, <3>1 DEF PreProcess
    <3>5. ReportedIsTimedOut'
      BY <3>1 DEF ReportedIsTimedOut
    <3> QED
      BY <3>1, <3>2, <3>3, <3>4, <3>5 DEF KnownIsHeard, ReadinessEarned
  <2>2. CASE ~(rxNew # "none" /\ master.running)
    BY <1>4, <2>2
    DEF TypeOK, ReportedIsTimedOut, KnownIsHeard, ReadinessEarned, PreProcess, nodeVars,
        silenceVars
  <2> QED
    BY <2>1, <2>2
<1>5. CASE CoProcess
  BY <1>5
  DEF TypeOK, ReportedIsTimedOut, KnownIsHeard, ReadinessEarned, CoProcess, nodeVars, silenceVars
<1>6. CASE Process
  <2>1. CASE master.running
    <3>1. /\ MasterProcess(tick)
          /\ timeouts' = IF Peer \in Expiring(tick) THEN UpTo(timeouts, 2) ELSE timeouts
          /\ \/ starts' = starts
             \/ BecomesReady(tick) /\ starts' = UpTo(starts, 2)
          /\ heard' = heard
      BY <1>6, <2>1 DEF Process
    <3>2. /\ master' \in Masters
          /\ Peer \in Expiring(tick) => /\ master.state[Peer] # "TIMED_OUT"
                                        /\ master'.state[Peer] = "TIMED_OUT"
          /\ Peer \notin Expiring(tick) => master'.state[Peer] = master.state[Peer]
          /\ BecomesReady(tick) =>
               /\ ~master.ready
               /\ master.state[Peer] \in {"PREOP", "OPERATIONAL", "STOPPED"}
          /\ master'.ready = (master.ready \/ BecomesReady(tick))
      BY <1>0, <3>1, MasterProcessStep
    <3>3. timeouts' \in 0 .. 2 /\ ReportedIsTimedOut'
      BY <3>1, <3>2 DEF TypeOK, ReportedIsTimedOut, UpTo
    <3>4. KnownIsHeard'
      BY <3>1, <3>2 DEF KnownIsHeard
    <3>5. starts' \in 0 .. 2 /\ ReadinessEarned'
      <4>1. master'.ready => heard'
        BY <3>1, <3>2 DEF KnownIsHeard, ReadinessEarned
      <4>2. CASE starts' = starts
        BY <3>2, <4>1, <4>2 DEF TypeOK, ReadinessEarned
      <4>3. CASE BecomesReady(tick) /\ starts' = UpTo(starts, 2)
        <5>1. starts = 0
          BY <3>2, <4>3 DEF TypeOK, ReadinessEarned
        <5>2. starts' = 1
          BY <4>3, <5>1 DEF UpTo
        <5>3. master'.ready
          BY <3>2, <4>3
        <5> QED
          BY <4>1, <5>2, <5>3 DEF ReadinessEarned
      <4> QED
        BY <3>1, <4>2, <4>3
    <3>6. TypeOK'
      BY <1>0, <1>6, <3>2, <3>3, <3>5 DEF TypeOK, Process, nodeVars
    <3> QED
      BY <3>3, <3>4, <3>5, <3>6
  <2>2. CASE ~master.running
    BY <1>0, <1>6, <2>2
    DEF TypeOK, ReportedIsTimedOut, KnownIsHeard, ReadinessEarned, Process, nodeVars
  <2> QED
    BY <2>1, <2>2
<1>7. CASE RecoverStart \/ ResetStart
  <2>1. TakeDown /\ tick' \in Ticks /\ latched' \in BOOLEAN /\ recovering' \in BOOLEAN
    BY <1>0, <1>7 DEF TypeOK, RecoverStart, ResetStart
  <2>2. master' \in Masters /\ ~master'.ready /\ master'.state[Peer] = "WAITING_BOOTUP"
    BY <1>0, <2>1, MasterStarts DEF TakeDown
  <2>3. TypeOK'
    BY <1>0, <1>zero, <2>1, <2>2 DEF TypeOK, TakeDown, Forgotten, silenceVars
  <2>4. timeouts' = 0 /\ starts' = 0
    BY <2>1 DEF TakeDown, Forgotten
  <2> QED
    BY <2>2, <2>3, <2>4
    DEF ReportedIsTimedOut, KnownIsHeard, ReadinessEarned
<1>8. CASE ResetFindsNoMemory
  BY <1>8
  DEF TypeOK, ReportedIsTimedOut, KnownIsHeard, ReadinessEarned, ResetFindsNoMemory,
      silenceVars, ghostVars
<1>9. CASE RebuildMaster
  <2>1. master' \in Masters /\ ~master'.ready /\ master'.state[Peer] = "WAITING_BOOTUP"
    BY <1>0, <1>9, MasterStarts DEF RebuildMaster
  <2>2. TypeOK'
    BY <1>0, <1>zero, <1>9, <2>1 DEF TypeOK, RebuildMaster, Forgotten, nodeVars
  <2>3. timeouts' = 0 /\ starts' = 0
    BY <1>9 DEF RebuildMaster, Forgotten
  <2> QED
    BY <2>1, <2>2, <2>3
    DEF ReportedIsTimedOut, KnownIsHeard, ReadinessEarned
<1>10. CASE RebuildEnd \/ RebuildFails
  <2>1. /\ pc' \in {"loop", "pre"} /\ lastTick' \in Ticks
        /\ canUp' \in BOOLEAN /\ latched' \in BOOLEAN /\ recovering' \in BOOLEAN
    BY <1>0, <1>10 DEF TypeOK, RebuildEnd, RebuildFails, PassGoesOn
  <2>2. UNCHANGED <<master, now, tick, rxNew, silenceVars, late, ghostVars>>
    BY <1>10 DEF RebuildEnd, RebuildFails
  <2> QED
    BY <2>1, <2>2
    DEF TypeOK, ReportedIsTimedOut, KnownIsHeard, ReadinessEarned, silenceVars, ghostVars
<1>11. CASE UNCHANGED vars
  BY <1>11
  DEF TypeOK, ReportedIsTimedOut, KnownIsHeard, ReadinessEarned, vars, nodeVars,
      silenceVars, ghostVars
<1> QED
  BY <1>1, <1>2, <1>3, <1>4, <1>5, <1>6, <1>7, <1>8, <1>9, <1>10, <1>11 DEF Next

-----------------------------------------------------------------------------
(* The clocks *)

\* What the types and the constants give, for the steps below.
LEMMA TimedTypes ==
  ASSUME PeerInv
  PROVE  /\ now \in Ticks /\ tick \in Ticks /\ lastTick \in Ticks /\ 0 \in Ticks
         /\ master.last[Peer] \in Ticks /\ master.startedAt \in Ticks
         /\ SinceTick \in Nat /\ SinceLast \in Nat /\ SinceHeard \in Nat /\ SinceStart \in Nat
         /\ silence \in Nat /\ silence <= MaxSilence /\ before \in Nat
<1>1. /\ now \in Ticks /\ tick \in Ticks /\ lastTick \in Ticks
      /\ silence \in Nat /\ silence <= MaxSilence /\ before \in Nat
  <2>1. silence \in 0 .. MaxSilence /\ before \in 0 .. MaxSilence
    BY DEF PeerInv, TypeOK
  <2> QED
    BY <2>1 DEF PeerInv, TypeOK
<1>2. master.last[Peer] \in Ticks /\ master.startedAt \in Ticks
  BY OnePeer DEF PeerInv, TypeOK, Masters
<1>3. \A t \in Ticks : t \in Nat
  BY TickModAssumption DEF Ticks
<1> QED
  BY <1>1, <1>2, <1>3, SinceValue, TickArithmetic
  DEF SinceTick, SinceLast, SinceHeard, SinceStart

\* What the constants give.
LEMMA TimedConstants ==
  /\ HbTimeoutMs \in Nat /\ BootTimeMs \in Nat /\ MaxLag \in Nat /\ TickMod \in Nat
  /\ HbTimeoutMs + 2 * MaxLag < TickMod /\ BootTimeMs + 2 * MaxLag < TickMod
  /\ 3 * MaxLag < TickMod
  /\ MaxSilence \in Nat
  /\ HbTimeoutMs + 2 * MaxLag < MaxSilence /\ BootTimeMs + 2 * MaxLag < MaxSilence
BY MasterAssumption, PeerAssumption, TimingAssumption, TickModAssumption DEF MaxSilence

\* The node starts with all clocks at zero.
LEMMA ClocksStart == Init => TimedInv
<1> SUFFICES ASSUME Init PROVE Clocks
  BY DEF TimedInv
<1>1. 0 \in Ticks
  BY TickArithmetic
<1>2. master.startedAt = 0 /\ master.last[Peer] = 0
  BY <1>1, MasterStarts DEF Init
<1>3. SinceTick = 0 /\ SinceLast = 0 /\ SinceHeard = 0 /\ SinceStart = 0
  BY <1>1, <1>2, SinceNow DEF Init, SinceTick, SinceLast, SinceHeard, SinceStart
<1>4. silence = 0 /\ before = 0 /\ pc = "loop" /\ rxNew = "none" /\ lastTick = tick
  BY DEF Init
<1> QED
  BY <1>2, <1>3, <1>4, TimedConstants
  DEF Clocks, Sampled, Restarted, Pending, HbClock, BootClock, Truth, Slack

\* A millisecond passes: every clock that is not judged yet gains it, as the
\* silence does.
LEMMA ClocksTick == PeerInv /\ Clocks /\ ~Dead /\ SysTick => Clocks'
<1> SUFFICES ASSUME PeerInv, Clocks, ~Dead, SysTick PROVE Clocks'
  OBVIOUS
<1>1. /\ now' = After(now, 1) /\ silence' = UpTo(silence, MaxSilence) /\ SinceTick < MaxLag
      /\ tick' = tick /\ lastTick' = lastTick /\ master' = master /\ pc' = pc
      /\ canUp' = canUp /\ rxNew' = rxNew /\ before' = before
      /\ late' = late /\ unheard' = unheard /\ heard' = heard
  BY DEF SysTick, ghostVars, SinceTick, Dead
<1>2. Slack' = Slack /\ Slack \in Nat /\ Slack <= MaxLag
  BY <1>1, TimedConstants DEF Slack
<1>3. /\ silence \in Nat /\ silence' \in Nat
      /\ silence <= silence' /\ silence' <= silence + 1
      /\ silence' = silence + 1 \/ silence' >= MaxSilence
  BY <1>1, TimedTypes, TimedConstants DEF UpTo
<1>4. SinceTick' = SinceTick + 1
  BY <1>1, TimedTypes, TimedConstants, OneMore DEF SinceTick
<1>5. Watching => SinceHeard' = SinceHeard + 1
  <2> SUFFICES ASSUME Watching PROVE SinceHeard' = SinceHeard + 1
    OBVIOUS
  <2>1. \/ SinceHeard <= HbTimeoutMs + Slack + SinceTick
        \/ SinceHeard <= MaxLag + Slack + SinceTick
    BY DEF Clocks, HbClock
  <2>2. SinceHeard + 1 < TickMod
    BY <1>1, <1>2, <2>1, TimedTypes, TimedConstants
  <2> QED
    BY <1>1, <2>2, TimedTypes, OneMore DEF SinceHeard
<1>6. Booting => SinceStart' = SinceStart + 1
  <2> SUFFICES ASSUME Booting PROVE SinceStart' = SinceStart + 1
    OBVIOUS
  <2>1. \/ SinceStart <= BootTimeMs + Slack + SinceTick
        \/ SinceStart <= MaxLag + Slack + SinceTick
    BY DEF Clocks, BootClock
  <2>2. SinceStart + 1 < TickMod
    BY <1>1, <1>2, <2>1, TimedTypes, TimedConstants
  <2> QED
    BY <1>1, <2>2, TimedTypes, OneMore DEF SinceStart
<1>7. (Watching' <=> Watching) /\ (Booting' <=> Booting)
  BY <1>1 DEF Watching, Booting
<1>8. pc = "loop" => SinceLast <= SinceTick /\ SinceLast' = SinceLast + 1
  <2> SUFFICES ASSUME pc = "loop" PROVE SinceLast <= SinceTick /\ SinceLast' = SinceLast + 1
    OBVIOUS
  <2>1. SinceLast <= SinceTick
    BY DEF Clocks, Sampled
  <2>2. SinceLast + 1 < TickMod
    BY <1>1, <2>1, TimedTypes, TimedConstants
  <2> QED
    BY <1>1, <2>1, <2>2, TimedTypes, OneMore DEF SinceLast
<1>9. Sampled'
  <2>1. SinceTick' <= MaxLag
    BY <1>1, <1>4, TimedTypes, TimedConstants
  <2>2. pc = "loop" => SinceLast' <= SinceTick'
    BY <1>4, <1>8, TimedTypes
  <2> QED
    BY <1>1, <2>1, <2>2 DEF Clocks, Sampled
<1>10. Restarted'
  <2> SUFFICES ASSUME master.running, pc = "built" \/ (pc = "loop" /\ lastTick # tick)
               PROVE  /\ master.last[Peer] = master.startedAt
                      /\ silence' <= SinceStart' /\ SinceStart' <= SinceTick'
    BY <1>1 DEF Restarted
  <2>1. /\ master.last[Peer] = master.startedAt
        /\ silence <= SinceStart /\ SinceStart <= SinceTick
    BY DEF Clocks, Restarted
  <2>2. SinceStart + 1 < TickMod
    BY <1>1, <2>1, TimedTypes, TimedConstants
  <2>3. SinceStart' = SinceStart + 1
    BY <1>1, <2>2, TimedTypes, OneMore DEF SinceStart
  <2> QED
    BY <1>3, <1>4, <2>1, <2>3, TimedTypes
<1>11. Pending'
  BY <1>1, <1>3, <1>4, <1>8, TimedTypes, TimedConstants DEF Clocks, Pending
<1>12. HbClock'
  BY <1>1, <1>2, <1>3, <1>4, <1>5, <1>7, TimedTypes, TimedConstants
  DEF Clocks, HbClock
<1>13. BootClock'
  BY <1>1, <1>2, <1>3, <1>4, <1>6, <1>7, TimedTypes, TimedConstants
  DEF Clocks, BootClock
<1>14. Truth'
  <2> SUFFICES ASSUME Watching, ~unheard PROVE Truth'
    BY <1>1, <1>7 DEF Truth
  <2>1. \/ SinceHeard <= HbTimeoutMs + Slack + SinceTick
        \/ silence <= SinceHeard /\ SinceHeard <= MaxLag + Slack + SinceTick
    BY DEF Clocks, HbClock
  <2>2. SinceHeard <= silence + MaxLag => SinceHeard' <= silence' + MaxLag
    <3>1. CASE silence' = silence + 1
      BY <1>3, <1>5, <3>1, TimedTypes, TimedConstants
    <3>2. CASE silence' >= MaxSilence
      <4>1. MaxSilence >= HbTimeoutMs + 2 * MaxLag + 1 /\ MaxSilence >= 2 * MaxLag + 1
        BY TimedConstants
      <4> QED
        BY <1>1, <1>2, <1>3, <1>5, <2>1, <3>2, <4>1, TimedTypes, TimedConstants
    <3> QED
      BY <1>3, <3>1, <3>2
  <2>3. SinceHeard <= before + MaxLag + SinceTick =>
          SinceHeard' <= before' + MaxLag + SinceTick'
    BY <1>1, <1>4, <1>5, TimedTypes, TimedConstants
  <2> QED
    BY <1>1, <2>2, <2>3 DEF Clocks, Truth
<1> QED
  BY <1>9, <1>10, <1>11, <1>12, <1>13, <1>14 DEF Clocks

\* A heartbeat ends the silence; one that is received after CO_process leaves a
\* note of how long that was.
LEMMA ClocksHeartbeat ==
  ASSUME PeerInv, Clocks, NEW b \in Bytes, Heartbeat(b)
  PROVE  Clocks'
<1>1. /\ rxNew' = IF canUp THEN b ELSE rxNew
      /\ late' = (pc = "co") /\ unheard' = (unheard \/ ~canUp) /\ silence' = 0
      /\ before' = IF pc = "master" /\ before = 0 THEN silence ELSE before
      /\ now' = now /\ tick' = tick /\ lastTick' = lastTick /\ master' = master
      /\ canUp' = canUp /\ pc' = pc /\ heard' = heard
  BY DEF Heartbeat
<1>2. /\ Slack' = Slack /\ SinceTick' = SinceTick /\ SinceLast' = SinceLast
      /\ SinceHeard' = SinceHeard /\ SinceStart' = SinceStart
  BY <1>1 DEF Slack, SinceTick, SinceLast, SinceHeard, SinceStart
<1>3. (Watching' <=> Watching) /\ (Booting' <=> Booting)
  BY <1>1 DEF Watching, Booting
<1>4. Sampled'
  BY <1>1, <1>2 DEF Clocks, Sampled
<1>5. Restarted' /\ Pending'
  BY <1>1, <1>2, TimedTypes, TimedConstants DEF Clocks, Restarted, Pending
<1>6. HbClock' /\ BootClock'
  BY <1>1, <1>2, <1>3, TimedTypes, TimedConstants DEF Clocks, HbClock, BootClock
<1>7. Truth'
  <2> SUFFICES ASSUME Watching, ~unheard, canUp PROVE Truth'
    BY <1>1, <1>3 DEF Truth
  <2>1. rxNew' = b /\ b # "none"
    BY <1>1, MasterAssumption
  <2>2. CASE pc = "master"
    <3>1. SinceHeard' <= before' + MaxLag + SinceTick'
      <4>1. CASE rxNew = "none"
        <5>1. before = 0 /\ SinceHeard <= silence + MaxLag
          BY <2>2, <4>1 DEF Clocks, Truth
        <5> QED
          BY <1>1, <1>2, <2>2, <5>1, TimedTypes, TimedConstants
      <4>2. CASE rxNew # "none"
        <5>1. SinceHeard <= before + MaxLag + SinceTick
          BY <2>2, <4>2 DEF Clocks, Truth
        <5> QED
          BY <1>1, <1>2, <2>2, <5>1, TimedTypes, TimedConstants
      <4> QED
        BY <4>1, <4>2
    <3> QED
      BY <1>1, <2>1, <2>2, <3>1 DEF Truth
  <2>3. CASE pc # "master"
    BY <1>1, <2>1, <2>3 DEF Truth
  <2> QED
    BY <2>2, <2>3
<1> QED
  BY <1>4, <1>5, <1>6, <1>7 DEF Clocks

\* The sample of the tick is what the clocks gain over the last judgement, unless
\* it is the last tick: then the pass ends, and only a master that was started
\* since the sample before notices.
LEMMA ClocksSample == PeerInv /\ Clocks /\ PassStart => Clocks'
<1> SUFFICES ASSUME PeerInv, Clocks, PassStart PROVE Clocks'
  OBVIOUS
<1>1. /\ pc = "loop" /\ pc' = (IF now = lastTick THEN "loop" ELSE "pre")
      /\ tick' = now /\ lastTick' = now
      /\ now' = now /\ master' = master /\ canUp' = canUp /\ rxNew' = rxNew
      /\ silence' = silence
      /\ before' = before /\ unheard' = unheard /\ heard' = heard
  BY DEF PassStart, PassGoesOn, silenceVars, ghostVars
<1>2. /\ SinceTick' = 0 /\ SinceLast' = 0
      /\ SinceHeard' = SinceHeard /\ SinceStart' = SinceStart
  BY <1>1, TimedTypes, SinceNow DEF SinceTick, SinceLast, SinceHeard, SinceStart
<1>3. Slack = 0 /\ Slack' = (IF now = lastTick THEN 0 ELSE MaxLag)
  BY <1>1 DEF Slack
<1>4. (Watching' <=> Watching) /\ (Booting' <=> Booting)
  BY <1>1 DEF Watching, Booting
<1>5. SinceTick <= MaxLag /\ SinceLast <= SinceTick /\ before = 0
  BY <1>1 DEF Clocks, Sampled
<1>6. Sampled' /\ Restarted'
  BY <1>1, <1>2, <1>5, TimedConstants DEF Sampled, Restarted
<1>7. Pending'
  <2> SUFFICES ASSUME master.running, rxNew # "none"
               PROVE  silence <= IF now = lastTick THEN 0 ELSE MaxLag
    BY <1>1, <1>2, TimedConstants DEF Pending
  <2>1. silence <= SinceLast
    BY <1>1 DEF Clocks, Pending
  <2>2. now = lastTick => SinceLast = 0
    BY TimedTypes, SinceNow DEF SinceLast
  <2> QED
    BY <1>5, <2>1, <2>2, TimedTypes, TimedConstants
<1>8. Truth'
  BY <1>1, <1>2, <1>4 DEF Clocks, Truth
<1>9. CASE now # lastTick
  <2>1. HbClock'
    BY <1>1, <1>2, <1>3, <1>4, <1>5, <1>9, TimedTypes, TimedConstants
    DEF Clocks, HbClock
  <2>2. BootClock'
    BY <1>1, <1>2, <1>3, <1>4, <1>5, <1>9, TimedTypes, TimedConstants
    DEF Clocks, BootClock
  <2> QED
    BY <1>6, <1>7, <1>8, <2>1, <2>2 DEF Clocks
<1>10. CASE now = lastTick /\ lastTick = tick
  <2>1. SinceTick = 0 /\ Slack' = Slack
    BY <1>3, <1>10, TimedTypes, SinceNow DEF SinceTick
  <2>2. HbClock' /\ BootClock'
    BY <1>1, <1>2, <1>4, <2>1 DEF Clocks, HbClock, BootClock
  <2> QED
    BY <1>6, <1>7, <1>8, <2>2 DEF Clocks
<1>11. CASE lastTick # tick
  <2>1. master.running =>
          /\ master.last[Peer] = master.startedAt
          /\ silence <= SinceStart /\ SinceStart <= MaxLag
    BY <1>1, <1>5, <1>11, TimedTypes, TimedConstants DEF Clocks, Restarted
  <2>2. master.last[Peer] = master.startedAt => SinceHeard = SinceStart
    BY DEF SinceHeard, SinceStart
  <2>3. Slack' \in Nat
    BY <1>3, TimedConstants
  <2>4. HbClock' /\ BootClock'
    BY <1>1, <1>2, <1>4, <2>1, <2>2, <2>3, TimedTypes, TimedConstants
    DEF HbClock, BootClock, Watching, Booting
  <2> QED
    BY <1>6, <1>7, <1>8, <2>4 DEF Clocks
<1> QED
  BY <1>9, <1>10, <1>11

\* What the master receives is stamped with the tick, at most a pass after the
\* heartbeat itself.
LEMMA ClocksPreProcess == PeerInv /\ Clocks /\ PreProcess => Clocks'
<1> SUFFICES ASSUME PeerInv, Clocks, PreProcess PROVE Clocks'
  OBVIOUS
<1>1. /\ pc = "pre" /\ pc' = "co" /\ late' = FALSE
      /\ now' = now /\ tick' = tick /\ lastTick' = lastTick /\ canUp' = canUp
      /\ rxNew' = rxNew /\ silence' = silence /\ before' = before
  BY DEF PreProcess, silenceVars
<1>2. /\ SinceTick' = SinceTick /\ SinceLast' = SinceLast
      /\ Slack' = Slack /\ Slack = MaxLag
  BY <1>1 DEF SinceTick, SinceLast, Slack
<1>3. Sampled' /\ Restarted'
  BY <1>1, <1>2 DEF Clocks, Sampled, Restarted
<1>4. CASE rxNew # "none" /\ master.running
  <2>1. /\ Receive(Peer, rxNew, tick) /\ heard' = (heard \/ rxNew # "invalid")
        /\ rxNew \in Bytes
    BY <1>4 DEF PreProcess, PeerInv, TypeOK
  <2>2. /\ master'.last[Peer] = tick /\ master'.running
        /\ master'.startedAt = master.startedAt
        /\ master'.bootReported = master.bootReported
    BY <1>4, <2>1, TimedTypes, ReceiveStep DEF PeerInv, TypeOK
  <2>3. SinceHeard' = SinceTick /\ SinceStart' = SinceStart
    BY <1>1, <2>2 DEF SinceHeard, SinceStart, SinceTick
  <2>4. silence <= SinceTick + MaxLag
    BY <1>1, <1>4 DEF Clocks, Pending
  <2>5. Pending'
    BY <1>1, <1>2, <2>4 DEF Pending
  <2>6. HbClock'
    BY <1>1, <1>2, <2>3, <2>4, TimedTypes, TimedConstants DEF HbClock
  <2>7. BootClock'
    <3>1. Booting' => Booting
      BY <1>4, <2>1, <2>2 DEF Booting
    <3> QED
      BY <1>1, <1>2, <2>3, <3>1 DEF Clocks, BootClock
  <2>8. Truth'
    BY <1>1, <2>3, TimedTypes, TimedConstants DEF Clocks, Sampled, Truth
  <2> QED
    BY <1>3, <2>5, <2>6, <2>7, <2>8 DEF Clocks
<1>5. CASE ~(rxNew # "none" /\ master.running)
  <2>1. master' = master /\ heard' = heard /\ unheard' = unheard
    BY <1>5 DEF PreProcess
  <2>2. SinceHeard' = SinceHeard /\ SinceStart' = SinceStart
    BY <1>1, <2>1 DEF SinceHeard, SinceStart
  <2>3. (Watching' <=> Watching) /\ (Booting' <=> Booting)
    BY <2>1 DEF Watching, Booting
  <2>4. Watching => rxNew = "none"
    BY <1>5 DEF Watching
  <2>5. Pending'
    BY <1>1, <1>5, <2>1 DEF Pending
  <2>6. HbClock' /\ BootClock'
    BY <1>2, <2>1, <2>2, <2>3, <1>1 DEF Clocks, HbClock, BootClock
  <2>7. Truth'
    BY <1>1, <1>2, <2>1, <2>2, <2>3, <2>4 DEF Clocks, Truth
  <2> QED
    BY <1>3, <2>5, <2>6, <2>7 DEF Clocks
<1> QED
  BY <1>4, <1>5

\* Nothing is left for the master, and what came late it never hears.
LEMMA ClocksCoProcess == PeerInv /\ Clocks /\ CoProcess => Clocks'
<1> SUFFICES ASSUME PeerInv, Clocks, CoProcess PROVE Clocks'
  OBVIOUS
<1>1. /\ pc = "co" /\ pc' = "master" /\ rxNew' = "none" /\ unheard' = (unheard \/ late)
      /\ now' = now /\ tick' = tick /\ lastTick' = lastTick /\ canUp' = canUp
      /\ master' = master /\ silence' = silence
      /\ before' = before /\ heard' = heard
  BY DEF CoProcess, silenceVars
<1>2. /\ SinceTick' = SinceTick /\ SinceLast' = SinceLast
      /\ SinceHeard' = SinceHeard /\ SinceStart' = SinceStart
      /\ Slack' = Slack
  BY <1>1 DEF SinceTick, SinceLast, SinceHeard, SinceStart, Slack
<1>3. (Watching' <=> Watching) /\ (Booting' <=> Booting)
  BY <1>1 DEF Watching, Booting
<1>4. before = 0
  BY <1>1 DEF Clocks, Sampled
<1>5. Sampled' /\ Restarted' /\ Pending'
  BY <1>1, <1>2, <1>4 DEF Clocks, Sampled, Restarted, Pending
<1>6. HbClock' /\ BootClock'
  BY <1>1, <1>2, <1>3 DEF Clocks, HbClock, BootClock
<1>7. Truth'
  BY <1>1, <1>2, <1>3, <1>4 DEF Clocks, Truth
<1> QED
  BY <1>5, <1>6, <1>7 DEF Clocks

\* The judgement: what it leaves is within the timeout, by the tick.
LEMMA ClocksProcess == PeerInv /\ PeerInv' /\ Clocks /\ Process => Clocks'
<1> SUFFICES ASSUME PeerInv, PeerInv', Clocks, Process PROVE Clocks'
  OBVIOUS
<1>1. /\ pc = "master" /\ pc' \in {"loop", "reset"} /\ before' = 0
      /\ now' = now /\ tick' = tick /\ lastTick' = lastTick /\ canUp' = canUp
      /\ rxNew' = rxNew /\ silence' = silence
      /\ unheard' = unheard /\ heard' = heard
  BY DEF Process
<1>2. SinceTick' = SinceTick /\ SinceLast' = SinceLast /\ Slack' \in Nat
  BY <1>1, TimedConstants DEF SinceTick, SinceLast, Slack
<1>3. lastTick = tick /\ SinceTick <= MaxLag
  BY <1>1 DEF Clocks, Sampled
<1>4. SinceLast = SinceTick
  BY <1>3 DEF SinceLast, SinceTick
<1>5. Sampled'
  BY <1>1, <1>2, <1>3, <1>4, TimedTypes DEF Sampled
<1>6. Restarted'
  BY <1>1, <1>3 DEF Restarted
<1>7. CASE master.running
  <2>1. MasterProcess(tick)
    BY <1>7 DEF Process
  <2>2. /\ Peer \in Expiring(tick) => master'.state[Peer] = "TIMED_OUT"
        /\ Peer \notin Expiring(tick) => master'.state[Peer] = master.state[Peer]
        /\ master'.running = master.running /\ master'.startedAt = master.startedAt
        /\ master'.last = master.last
        /\ master.bootReported => master'.bootReported
        /\ /\ master'.state[Peer] \in {"WAITING_BOOTUP", "TIMED_OUT"}
           /\ Since(tick, master.startedAt) > BootTimeMs
           => master'.bootReported
    BY <2>1, TimedTypes, MasterProcessStep DEF PeerInv, TypeOK
  <2>3. SinceHeard' = SinceHeard /\ SinceStart' = SinceStart
    BY <1>1, <2>2 DEF SinceHeard, SinceStart
  <2>4. Watching' => Watching /\ SinceHeard <= HbTimeoutMs + SinceTick
    <3> SUFFICES ASSUME Watching' PROVE Watching /\ SinceHeard <= HbTimeoutMs + SinceTick
      OBVIOUS
    <3>1. Peer \notin Expiring(tick) /\ Watching
      BY <2>2 DEF Watching
    <3>2. ~(Since(tick, master.last[Peer]) > HbTimeoutMs)
      BY <3>1, OnePeer DEF Expiring, Watching
    <3>3. Since(tick, master.last[Peer]) =
            IF SinceHeard >= SinceTick THEN SinceHeard - SinceTick
            ELSE SinceHeard + TickMod - SinceTick
      BY TimedTypes, TimeBetween DEF SinceHeard, SinceTick
    <3> QED
      BY <3>1, <3>2, <3>3, TimedTypes, TimedConstants
  <2>5. Booting' => Booting /\ SinceStart <= BootTimeMs + SinceTick
    <3> SUFFICES ASSUME Booting' PROVE Booting /\ SinceStart <= BootTimeMs + SinceTick
      OBVIOUS
    <3>1. Booting /\ ~heard' /\ ~master'.bootReported
      BY <1>1, <2>2 DEF Booting
    <3>2. master'.state[Peer] \in {"WAITING_BOOTUP", "TIMED_OUT"}
      <4>1. master'.state[Peer] \in NodeStates
        BY OnePeer DEF PeerInv, TypeOK, Masters
      <4> QED
        BY <3>1, <4>1 DEF PeerInv, KnownIsHeard, NodeStates
    <3>3. ~(Since(tick, master.startedAt) > BootTimeMs)
      BY <2>2, <3>1, <3>2
    <3>4. Since(tick, master.startedAt) =
            IF SinceStart >= SinceTick THEN SinceStart - SinceTick
            ELSE SinceStart + TickMod - SinceTick
      BY TimedTypes, TimeBetween DEF SinceStart, SinceTick
    <3> QED
      BY <3>1, <3>3, <3>4, TimedTypes, TimedConstants
  <2>6. Pending'
    BY <1>1, <1>2, <1>4, <2>2 DEF Clocks, Pending
  <2>7. HbClock'
    BY <1>1, <1>2, <2>2, <2>3, <2>4, TimedTypes, TimedConstants DEF Clocks, HbClock
  <2>8. BootClock'
    BY <1>1, <1>2, <2>3, <2>5, TimedTypes, TimedConstants DEF Clocks, BootClock
  <2>9. Truth'
    BY <1>1, <2>3, <2>4 DEF Clocks, Truth
  <2> QED
    BY <1>5, <1>6, <2>6, <2>7, <2>8, <2>9 DEF Clocks
<1>8. CASE ~master.running
  <2>1. ~master'.running
    BY <1>8 DEF Process
  <2> QED
    BY <1>5, <1>6, <2>1
    DEF Clocks, Pending, HbClock, BootClock, Truth, Watching, Booting
<1> QED
  BY <1>7, <1>8

\* A rebuild begins with no master, and with a fresh tick in a recovery.
LEMMA ClocksTakeDown ==
  ASSUME PeerInv, PeerInv', Clocks, RecoverStart \/ ResetStart
  PROVE  Clocks'
<1>1. /\ pc \in {"loop", "reset"} /\ pc' = "rebuild" /\ tick' \in {tick, now} /\ now' = now
      /\ master' = MasterStopped /\ canUp' = FALSE /\ before' = before
  BY DEF RecoverStart, ResetStart, TakeDown, silenceVars
<1>2. ~master'.running
  BY <1>1, TimedTypes, MasterStarts
<1>3. SinceTick <= MaxLag /\ before = 0
  BY <1>1 DEF Clocks, Sampled
<1>4. SinceTick' \in {SinceTick, 0}
  BY <1>1, TimedTypes, SinceNow DEF SinceTick
<1>5. SinceTick' <= MaxLag
  BY <1>3, <1>4, TimedConstants
<1>6. Sampled'
  BY <1>1, <1>2, <1>3, <1>5 DEF Sampled
<1> QED
  BY <1>2, <1>6
  DEF Clocks, Restarted, Pending, HbClock, BootClock, Truth, Watching, Booting

\* Cia302_Init starts the master's clocks now, with no silence and nothing
\* pending.
LEMMA ClocksMaster == PeerInv /\ Clocks /\ RebuildMaster => Clocks'
<1> SUFFICES ASSUME PeerInv, Clocks, RebuildMaster PROVE Clocks'
  OBVIOUS
<1>1. /\ pc = "rebuild" /\ pc' = "built"
      /\ master' = MasterStarted(now) /\ rxNew' = "none" /\ silence' = 0
      /\ now' = now /\ tick' = tick /\ canUp' = canUp /\ before' = before
  BY DEF RebuildMaster
<1>2. master'.startedAt = now /\ master'.last[Peer] = now
  BY <1>1, TimedTypes, MasterStarts
<1>3. SinceHeard' = 0 /\ SinceStart' = 0 /\ SinceTick' = SinceTick
  BY <1>1, <1>2, TimedTypes, SinceNow DEF SinceHeard, SinceStart, SinceTick
<1>4. Slack' \in Nat
  BY TimedConstants DEF Slack
<1>5. SinceTick <= MaxLag /\ before = 0 /\ ~canUp
  BY <1>1 DEF Clocks, Sampled
<1>6. Sampled'
  BY <1>1, <1>3, <1>5 DEF Sampled
<1>7. Restarted' /\ Pending' /\ Truth'
  BY <1>1, <1>2, <1>3, TimedTypes, TimedConstants DEF Restarted, Pending, Truth
<1>8. HbClock' /\ BootClock'
  BY <1>1, <1>2, <1>3, <1>4, TimedTypes, TimedConstants DEF HbClock, BootClock
<1> QED
  BY <1>6, <1>7, <1>8 DEF Clocks

\* The rebuild ends one way or another: the pass goes on with a master that was
\* started after the sample of its tick, or with none, or the node is dead.
LEMMA ClocksRebuilt ==
  ASSUME PeerInv, Clocks, RebuildEnd \/ RebuildFails
  PROVE  TimedInv'
<1>1. /\ pc \in {"rebuild", "built"} /\ pc' \in {"loop", "pre"}
      /\ master' = master /\ now' = now /\ tick' = tick
      /\ rxNew' = rxNew /\ silence' = silence /\ before' = before
      /\ unheard' = unheard /\ heard' = heard
  BY DEF RebuildEnd, RebuildFails, PassGoesOn, silenceVars, ghostVars
<1>2. \/ lastTick' = tick
      \/ pc = "built" /\ pc' = "loop" /\ lastTick' = now
      \/ Dead'
  BY DEF RebuildEnd, RebuildFails, PassGoesOn, Dead
<1>3. /\ SinceTick' = SinceTick /\ SinceHeard' = SinceHeard /\ SinceStart' = SinceStart
      /\ Slack' \in Nat
  BY <1>1, TimedConstants DEF SinceTick, SinceHeard, SinceStart, Slack
<1>4. (Watching' <=> Watching) /\ (Booting' <=> Booting)
  BY <1>1 DEF Watching, Booting
<1>5. SinceTick <= MaxLag /\ before = 0
  BY <1>1 DEF Clocks, Sampled
<1>6. lastTick' = tick => SinceLast' = SinceTick
  BY <1>1 DEF SinceLast, SinceTick
<1>7. lastTick' = now => SinceLast' = 0
  BY <1>1, TimedTypes, SinceNow DEF SinceLast
<1>8. CASE Dead'
  BY <1>8 DEF TimedInv
<1>9. CASE ~Dead'
  <2>1. \/ lastTick' = tick
        \/ pc = "built" /\ pc' = "loop" /\ lastTick' = now
    BY <1>2, <1>9
  <2>2. SinceLast' <= SinceTick
    BY <1>6, <1>7, <2>1, TimedTypes
  <2>3. pc' = "pre" => lastTick' = tick
    BY <2>1
  <2>4. Sampled'
    BY <1>1, <1>3, <1>5, <2>2, <2>3 DEF Sampled
  <2>5. CASE ~master.running
    BY <1>1, <2>4, <2>5
    DEF TimedInv, Clocks, Restarted, Pending, HbClock, BootClock, Truth, Watching, Booting
  <2>6. CASE master.running
    <3>1. pc = "built" /\ rxNew = "none"
      BY <1>1, <2>6 DEF Clocks, Sampled
    <3>2. /\ master.last[Peer] = master.startedAt
          /\ silence <= SinceStart /\ SinceStart <= SinceTick
      BY <2>6, <3>1 DEF Clocks, Restarted
    <3>3. SinceHeard = SinceStart
      BY <3>2 DEF SinceHeard, SinceStart
    <3>4. Restarted' /\ Pending'
      BY <1>1, <1>3, <3>1, <3>2 DEF Restarted, Pending
    <3>5. HbClock'
      BY <1>1, <1>3, <3>2, <3>3, TimedTypes, TimedConstants DEF HbClock
    <3>6. BootClock'
      BY <1>1, <1>3, <3>2, TimedTypes, TimedConstants DEF BootClock
    <3>7. SinceHeard <= silence + MaxLag
      BY <1>5, <3>2, <3>3, TimedTypes, TimedConstants
    <3>8. Truth'
      BY <1>1, <1>3, <3>7 DEF Truth
    <3> QED
      BY <2>4, <3>4, <3>5, <3>6, <3>8 DEF TimedInv, Clocks
  <2> QED
    BY <2>5, <2>6
<1> QED
  BY <1>8, <1>9

\* No CO, no more passes.
LEMMA ClocksNoMemory == ResetFindsNoMemory => Dead'
BY DEF ResetFindsNoMemory, Dead

\* A dead node stays dead: every action of the superloop begins elsewhere, or at
\* a guard that is closed.
LEMMA DeadStays == PeerInv /\ Dead /\ [Next]_vars => Dead'
BY DEF Dead, Next, SysTick, Heartbeat, PassStart, PreProcess, CoProcess, Process,
       RecoverStart, ResetStart, ResetFindsNoMemory, RebuildMaster, RebuildEnd,
       RebuildFails, nodeVars, vars

\* Every step keeps the clocks true, or kills the node.
LEMMA ClocksStep == PeerInv /\ TimedInv /\ [Next]_vars => TimedInv'
<1> SUFFICES ASSUME PeerInv, TimedInv, [Next]_vars PROVE TimedInv'
  OBVIOUS
<1>1. PeerInv'
  BY PeerStep
<1>2. CASE Dead
  BY <1>2, DeadStays DEF TimedInv
<1>3. CASE ~Dead
  <2>1. Clocks
    BY <1>3 DEF TimedInv
  <2>2. CASE UNCHANGED vars
    <3>1. Clocks'
      BY <2>1, <2>2
      DEF Clocks, Sampled, Restarted, Pending, HbClock, BootClock, Truth, Watching,
          Booting, Slack, SinceTick, SinceLast, SinceHeard, SinceStart, vars, nodeVars,
          silenceVars, ghostVars
    <3> QED
      BY <3>1 DEF TimedInv
  <2>3. CASE RebuildEnd \/ RebuildFails
    BY <2>1, <2>3, ClocksRebuilt
  <2>4. CASE ResetFindsNoMemory
    BY <2>4, ClocksNoMemory DEF TimedInv
  <2>5. CASE /\ Next
             /\ ~(RebuildEnd \/ RebuildFails \/ ResetFindsNoMemory)
    <3>1. Clocks'
      BY <1>1, <1>3, <2>1, <2>5, ClocksTick, ClocksHeartbeat, ClocksSample,
         ClocksPreProcess, ClocksCoProcess, ClocksProcess, ClocksTakeDown, ClocksMaster
      DEF Next
    <3> QED
      BY <3>1 DEF TimedInv
  <2> QED
    BY <2>2, <2>3, <2>4, <2>5
<1> QED
  BY <1>2, <1>3

-----------------------------------------------------------------------------
(* The theorems *)

\* PeerInv holds in every reachable state.
THEOREM PeerInvariant == Spec => []PeerInv
BY PeerStarts, PeerStep, PTL DEF Spec

\* Everything keeps its type; the ticks stay in their range over the wrap.
THEOREM PeerTyping == Spec => []TypeOK
<1>1. PeerInv => TypeOK
  BY DEF PeerInv
<1> QED
  BY <1>1, PeerInvariant, PTL

\* A loss of the peer is reported once until it is heard again.
THEOREM LossIsReportedOnce == Spec => []TimeoutOnce
<1>1. PeerInv => TimeoutOnce
  BY DEF PeerInv, TypeOK, ReportedIsTimedOut, TimeoutOnce
<1> QED
  BY <1>1, PeerInvariant, PTL

\* The network is ready and the peer started only after it has been heard, and
\* the peer is started at most once.
THEOREM ReadinessIsEarned == Spec => []ReadinessEarned
<1>1. PeerInv => ReadinessEarned
  BY DEF PeerInv
<1> QED
  BY <1>1, PeerInvariant, PTL

\* TimedInv holds in every reachable state.
THEOREM TimedInvariant == Spec => []TimedInv
BY PeerInvariant, ClocksStart, ClocksStep, PTL DEF Spec

\* A peer that stops is found out two lags after its timeout at the latest, as
\* long as the node is not latched.
THEOREM LossIsFound == Spec => []LossIsDetected
<1>1. PeerInv /\ TimedInv => LossIsDetected
  BY TimedTypes, TimedConstants
  DEF TimedInv, Dead, Clocks, Sampled, HbClock, Watching, Slack, LossIsDetected
<1> QED
  BY <1>1, PeerInvariant, TimedInvariant, PTL

\* A peer that is never heard is reported when the boot time is over, as long as
\* the node is not latched.
THEOREM AbsenceIsReported == Spec => []AbsentPeerReported
<1>1. PeerInv /\ TimedInv => AbsentPeerReported
  BY TimedTypes, TimedConstants
  DEF TimedInv, Dead, Clocks, Sampled, BootClock, Booting, Slack, AbsentPeerReported
<1> QED
  BY <1>1, PeerInvariant, TimedInvariant, PTL

\* A timeout means a silence, a heartbeat that the master did not get, or a
\* master that was started after the tick was sampled.
THEOREM TimeoutsAreTrue == Spec => TimeoutIsTrue
<1>1. ASSUME PeerInv, TimedInv, Process, timeouts' > timeouts
      PROVE  silence + MaxLag > HbTimeoutMs \/ before + MaxLag > HbTimeoutMs \/ unheard
               \/ Since(tick, master.startedAt) >= TickMod - MaxLag
  <2>1. timeouts \in 0 .. 2
    BY <1>1 DEF PeerInv, TypeOK
  <2>2. master.running /\ Peer \in Expiring(tick)
    BY <1>1, <2>1 DEF Process
  <2>3. Watching /\ Since(tick, master.last[Peer]) > HbTimeoutMs
    BY <2>2 DEF Expiring, Watching
  <2>4. Since(tick, master.last[Peer]) =
          IF SinceHeard >= SinceTick THEN SinceHeard - SinceTick
          ELSE SinceHeard + TickMod - SinceTick
    BY <1>1, TimedTypes, TimeBetween DEF SinceHeard, SinceTick
  <2>5. pc = "master" /\ Clocks /\ SinceTick <= MaxLag
    BY <1>1 DEF Process, TimedInv, Dead, Clocks, Sampled
  <2>6. CASE SinceHeard >= SinceTick
    <3>1. SinceHeard - SinceTick > HbTimeoutMs
      BY <2>3, <2>4, <2>6
    <3>2. CASE unheard
      BY <3>2
    <3>3. CASE ~unheard /\ rxNew = "none"
      <4>1. SinceHeard <= silence + MaxLag
        BY <2>3, <2>5, <3>3 DEF Clocks, Truth
      <4> QED
        BY <1>1, <3>1, <4>1, TimedTypes, TimedConstants
    <3>4. CASE ~unheard /\ rxNew # "none"
      <4>1. SinceHeard <= before + MaxLag + SinceTick
        BY <2>3, <2>5, <3>4 DEF Clocks, Truth
      <4> QED
        BY <1>1, <3>1, <4>1, TimedTypes, TimedConstants
    <3> QED
      BY <3>2, <3>3, <3>4
  <2>7. CASE ~(SinceHeard >= SinceTick)
    <3>1. master.last[Peer] = master.startedAt
      BY <2>3, <2>5, <2>7 DEF Clocks, HbClock
    <3>2. Since(tick, master.startedAt) = SinceHeard + TickMod - SinceTick
      BY <2>4, <2>7, <3>1
    <3> QED
      BY <1>1, <2>5, <3>2, TimedTypes, TimedConstants
  <2> QED
    BY <2>6, <2>7
<1>2. PeerInv /\ TimedInv /\ [Next]_vars =>
        [Process /\ timeouts' > timeouts =>
           silence + MaxLag > HbTimeoutMs \/ before + MaxLag > HbTimeoutMs \/ unheard
             \/ Since(tick, master.startedAt) >= TickMod - MaxLag]_vars
  BY <1>1
<1> QED
  BY <1>2, PeerInvariant, TimedInvariant, PTL DEF Spec, TimeoutIsTrue
=============================================================================
