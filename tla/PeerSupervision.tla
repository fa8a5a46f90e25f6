-------------------------- MODULE PeerSupervision --------------------------
(***************************************************************************)
(* The CiA 302 personality (canopen_reference_cia302.c) inside the pass of *)
(* canopen_app_process: the receive interrupt stores a heartbeat of the    *)
(* one peer in CANopenNode's heartbeat consumer, PreProcess shows it to    *)
(* the master, CO_process takes it, and Process lets the master judge.     *)
(* Between any two of these an interrupt may come in.  A recovery from     *)
(* bus-off rebuilds all of it in the middle of a pass, which then goes on, *)
(* and a communication reset at its end.  Either may fail on the way, and  *)
(* the last attempt of a recovery, like a reset, latches the safe fault.   *)
(***************************************************************************)
EXTENDS Cia302Master

CONSTANT MaxLag  \* longest time from one sample of the tick to the next

Peer == CHOOSE n \in Nodes : TRUE

\* CANopenReferenceCia302_Init configures one node, and it is mandatory.
ASSUME PeerAssumption == Nodes = {Peer} /\ Mandatory = Nodes /\ MaxLag \in Nat \ {0}

\* 1.5 s and 10 s, against a tick of 2^32 ms: no wait lasts a whole round of it,
\* nor do three passes.
ASSUME TimingAssumption ==
  /\ HbTimeoutMs + 2 * MaxLag < TickMod /\ BootTimeMs + 2 * MaxLag < TickMod
  /\ 3 * MaxLag < TickMod

VARIABLES
  now,       \* HAL_GetTick()
  tick,      \* the local `now' of canopen_app_process
  lastTick,  \* canopenReferenceLastTick
  pc,        \* where the superloop is
  latched,   \* canopenReferenceSafeFault, or no CO: no pass gets beyond its guard
  recovering, \* canopenReferenceRecoveryAttemptActive: the rebuild is a recovery
  canUp,     \* CANnormal: frames are received
  rxNew,     \* CANrxNew of the consumer's only node: its NMTstate, or "none"
  silence,   \* ms since the peer's last heartbeat or the start, up to MaxSilence
  before,    \* the silence that a heartbeat ended after CO_process
  late,      \* a heartbeat came in after PreProcess looked
  unheard,   \* a heartbeat was not received since the last one that was
  heard,     \* the master has received a valid one since its start
  timeouts,  \* HEARTBEAT_TIMEOUT events since it last received one, up to 2
  starts     \* START commands since its start, up to 2

nodeVars == <<latched, recovering>>
silenceVars == <<silence, before>>
ghostVars == <<unheard, heard, timeouts, starts>>
vars ==
  <<master, now, tick, lastTick, pc, nodeVars, canUp, rxNew, silenceVars, late, ghostVars>>

MaxSilence == (IF HbTimeoutMs > BootTimeMs THEN HbTimeoutMs ELSE BootTimeMs) + 2 * MaxLag + 1

UpTo(count, top) == IF count < top THEN count + 1 ELSE top

\* canopen_app_resetCommunication has been through once.
Init ==
  /\ now = 0 /\ tick = 0 /\ lastTick = 0 /\ pc = "loop" /\ canUp = TRUE
  /\ latched = FALSE /\ recovering = FALSE
  /\ master = MasterStarted(0)
  /\ rxNew = "none"
  /\ silence = 0 /\ before = 0 /\ late = FALSE /\ unheard = FALSE /\ heard = FALSE
  /\ timeouts = 0 /\ starts = 0

-----------------------------------------------------------------------------
(* Interrupts *)

\* The superloop samples the tick every MaxLag ms at the latest, until it is
\* latched.
SysTick ==
  /\ (pc = "loop" /\ latched) \/ Since(now, tick) < MaxLag
  /\ now' = After(now, 1) /\ silence' = UpTo(silence, MaxSilence)
  /\ UNCHANGED <<master, tick, lastTick, pc, nodeVars, canUp, rxNew, before, late, ghostVars>>

\* CO_HBcons_receive, if CAN is up; the peer sends what it likes when it likes.
Heartbeat(b) ==
  /\ rxNew' = IF canUp THEN b ELSE rxNew
  /\ late' = (pc = "co") /\ unheard' = (unheard \/ ~canUp)
  /\ silence' = 0
  /\ before' = IF pc = "master" /\ before = 0 THEN silence ELSE before
  /\ UNCHANGED <<master, now, tick, lastTick, pc, nodeVars, canUp, heard, timeouts, starts>>

-----------------------------------------------------------------------------
(* canopen_app_process *)

\* There is something to do if the sampled tick differs from the last one.
PassGoesOn(sample, last) ==
  lastTick' = sample /\ pc' = IF sample = last THEN "loop" ELSE "pre"

PassStart ==
  /\ pc = "loop" /\ ~latched
  /\ tick' = now /\ PassGoesOn(now, lastTick)
  /\ UNCHANGED <<master, now, nodeVars, canUp, rxNew, silenceVars, late, ghostVars>>

\* CANopenReferenceCia302_PreProcess
PreProcess ==
  /\ pc = "pre" /\ pc' = "co" /\ late' = FALSE
  /\ IF rxNew # "none" /\ master.running
     THEN /\ Receive(Peer, rxNew, tick)
          /\ heard' = (heard \/ rxNew # "invalid")
          /\ unheard' = FALSE /\ timeouts' = 0
     ELSE UNCHANGED <<master, heard, unheard, timeouts>>
  /\ UNCHANGED <<now, tick, lastTick, nodeVars, canUp, rxNew, silenceVars, starts>>

\* Mutant of CoProcess: the heartbeat stays new.
CoProcessKeepsFlag ==
  /\ pc = "co" /\ pc' = "master"
  /\ late' = FALSE /\ unheard' = (unheard \/ late)
  /\ UNCHANGED <<master, now, tick, lastTick, nodeVars, canUp, rxNew, silenceVars>>
  /\ UNCHANGED <<heard, timeouts, starts>>

\* CO_process: CO_HBconsumer_process takes every new heartbeat.
CoProcess ==
  /\ pc = "co" /\ pc' = "master"
  /\ rxNew' = "none"
  /\ late' = FALSE /\ unheard' = (unheard \/ late)
  /\ UNCHANGED <<master, now, tick, lastTick, nodeVars, canUp, silenceVars>>
  /\ UNCHANGED <<heard, timeouts, starts>>

\* CANopenReferenceCia302_Process.  CO_NMT_sendCommand may fail, which the
\* master ignores.  The pass ends, or goes on to the communication reset that
\* CO_process has asked for.
Process ==
  /\ pc = "master" /\ pc' \in {"loop", "reset"} /\ before' = 0
  /\ IF master.running
     THEN /\ MasterProcess(tick)
          /\ timeouts' = IF Peer \in Expiring(tick) THEN UpTo(timeouts, 2) ELSE timeouts
          /\ \/ UNCHANGED starts
             \/ BecomesReady(tick) /\ Peer \in AutoStart /\ starts' = UpTo(starts, 2)
     ELSE UNCHANGED <<master, timeouts, starts>>
  /\ UNCHANGED <<now, tick, lastTick, nodeVars, canUp, rxNew, silence, late, unheard, heard>>

-----------------------------------------------------------------------------
(* canopen_app_resetCommunication, called by ProcessCanRecovery right after *)
(* the tick is sampled and by canopen_app_init at the end of the pass       *)

Forgotten == unheard' = FALSE /\ heard' = FALSE /\ timeouts' = 0 /\ starts' = 0

\* Cia302_Deinit, and CAN down.
TakeDown ==
  /\ pc' = "rebuild"
  /\ canUp' = FALSE /\ master' = MasterStopped /\ Forgotten
  /\ UNCHANGED <<now, lastTick, rxNew, silenceVars, late>>

RecoverStart ==
  /\ pc = "loop" /\ ~latched
  /\ tick' = now /\ recovering' = TRUE
  /\ TakeDown /\ UNCHANGED latched

ResetStart ==
  /\ pc = "reset" /\ latched' = FALSE
  /\ TakeDown /\ UNCHANGED <<tick, recovering>>

\* CO_new finds no memory: there is no CO, and nobody stops the master.
ResetFindsNoMemory ==
  /\ pc = "reset" /\ pc' = "loop"
  /\ latched' = TRUE /\ canUp' = FALSE
  /\ UNCHANGED <<master, now, tick, lastTick, recovering, rxNew, silenceVars, late, ghostVars>>

\* CO_CANopenInit and Cia302_Init, by the tick of the moment.
RebuildMaster ==
  /\ pc = "rebuild" /\ pc' = "built"
  /\ master' = MasterStarted(now)
  /\ rxNew' = "none"
  /\ silence' = 0 /\ Forgotten
  /\ UNCHANGED <<now, tick, lastTick, nodeVars, canUp, before, late>>

\* A recovery leaves the pass to go on, with the tick that it sampled.
RebuildEnd ==
  /\ pc = "built" /\ canUp' = TRUE
  /\ latched' = FALSE /\ recovering' = FALSE
  /\ \/ recovering /\ PassGoesOn(tick, now)
     \/ ~recovering /\ lastTick' = now /\ pc' = "loop"
  /\ UNCHANGED <<master, now, tick, rxNew, silenceVars, late, ghostVars>>

\* A step before Cia302_Init fails, or one after it, which leaves the master
\* started on a node that is off.  The pass goes on even so: the last attempt
\* and a reset latch the fault, which only the next pass looks at.
RebuildFails ==
  /\ pc \in {"rebuild", "built"}
  /\ recovering' = FALSE
  /\ \/ recovering /\ latched' \in BOOLEAN /\ PassGoesOn(tick, lastTick)
     \/ ~recovering /\ latched' = TRUE /\ pc' = "loop" /\ UNCHANGED lastTick
  /\ UNCHANGED <<master, now, tick, canUp, rxNew, silenceVars, late, ghostVars>>

Next ==
  \/ SysTick \/ \E b \in Bytes : Heartbeat(b)
  \/ PassStart \/ PreProcess \/ CoProcess \/ Process
  \/ RecoverStart \/ ResetStart \/ ResetFindsNoMemory
  \/ RebuildMaster \/ RebuildEnd \/ RebuildFails

Spec == Init /\ [][Next]_vars

-----------------------------------------------------------------------------
(* Properties *)

\* The types of everything, the bounds on the counters included.
TypeOK ==
  /\ now \in Ticks /\ tick \in Ticks /\ lastTick \in Ticks
  /\ pc \in {"loop", "pre", "co", "master", "reset", "rebuild", "built"}
  /\ latched \in BOOLEAN /\ recovering \in BOOLEAN
  /\ master \in Masters
  /\ rxNew \in Bytes \cup {"none"}
  /\ canUp \in BOOLEAN /\ late \in BOOLEAN /\ unheard \in BOOLEAN /\ heard \in BOOLEAN
  /\ silence \in 0 .. MaxSilence /\ before \in 0 .. MaxSilence
  /\ timeouts \in 0 .. 2 /\ starts \in 0 .. 2

\* A peer that stops is found out: whatever the timing of its last heartbeat
\* against the pass and of the rebuilds, those that fail included, two lags
\* after the timeout the master has seen it.  A latched node is excepted: its
\* passes end at their guard, with the master running if the step that failed
\* came after Cia302_Init, and what it says of the peer stays as it was.
LossIsDetected ==
  pc = "loop" /\ ~latched /\ master.running /\ silence > HbTimeoutMs + 2 * MaxLag =>
    master.state[Peer] = "TIMED_OUT"

\* A peer that does not stop is not taken for lost, with two exceptions that
\* the code has: a heartbeat that CO_process took before the master could see
\* it, and a rebuild in this pass, complete or not, after which the tick is
\* older than the start
\* (cia302_peer_supervision_qualification.md, "No false peer timeout").
TimeoutIsTrue ==
  [][Process /\ timeouts' > timeouts =>
       silence + MaxLag > HbTimeoutMs \/ before + MaxLag > HbTimeoutMs \/ unheard
         \/ Since(tick, master.startedAt) >= TickMod - MaxLag]_vars

\* However long the peer is away, its loss is reported once
\* (uds_cia302_test_procedure.md, "no repeated event flood").
TimeoutOnce == timeouts <= 1

\* The network is ready, and the peer is started, only after a valid heartbeat
\* since the start, and it is started at most once
\* (uds_cia302_test_procedure.md, "emitted exactly once").
ReadinessEarned ==
  /\ master.ready => heard
  /\ starts > 0 => master.ready
  /\ starts <= 1

\* A peer that never comes up is reported when the boot time is over, although
\* it has been reported as lost before that, and except by a latched node
\* (uds_cia302_test_procedure.md, "Mandatory boot timeout").
AbsentPeerReported ==
  pc = "loop" /\ ~latched /\ master.running /\ ~heard /\ silence > BootTimeMs + 2 * MaxLag =>
    master.bootReported
=============================================================================
