---------------------------- MODULE Cia302Master ----------------------------
(***************************************************************************)
(* The transport-neutral NMT master of cia302_nmt_master.c: which of its   *)
(* nodes it has heard, when it calls the network ready, and what it        *)
(* reports.  Nodes are the assigned ones; all have one heartbeat timeout.  *)
(* The events are what an action says it emits; who counts them is up to   *)
(* the module that extends this one.                                       *)
(***************************************************************************)
EXTENDS TickClock

CONSTANTS
  Nodes,        \* the nodes configured
  Mandatory,    \* those the network is not ready without
  AutoStart,    \* those that are sent a START when it is
  HbTimeoutMs,  \* heartbeat_timeout_ms
  BootTimeMs,   \* boot_time_ms
  Bytes         \* state bytes that heartbeats carry

ASSUME MasterAssumption ==
  /\ Nodes # {} /\ Mandatory \subseteq Nodes /\ AutoStart \subseteq Nodes
  /\ HbTimeoutMs \in Nat \ {0} /\ BootTimeMs \in Nat \ {0}
  /\ HbTimeoutMs < TickMod /\ BootTimeMs < TickMod
  /\ Bytes \subseteq {"BOOTUP", "PREOP", "OPERATIONAL", "STOPPED", "invalid"}

VARIABLE master

NodeStates == {"WAITING_BOOTUP", "PREOP", "OPERATIONAL", "STOPPED", "TIMED_OUT"}

Masters ==
  [running : BOOLEAN, ready : BOOLEAN, bootReported : BOOLEAN, startedAt : Ticks,
   state : [Nodes -> NodeStates], last : [Nodes -> Ticks]]

\* cia302_nmt_master_init and _configure, or the memset of Deinit.
MasterStopped ==
  [running |-> FALSE, ready |-> FALSE, bootReported |-> FALSE, startedAt |-> 0,
   state |-> [n \in Nodes |-> "WAITING_BOOTUP"], last |-> [n \in Nodes |-> 0]]

\* cia302_nmt_master_start, with bit 0 of nmt_startup set.
MasterStarted(now) ==
  [running |-> TRUE, ready |-> FALSE, bootReported |-> FALSE, startedAt |-> now,
   state |-> [n \in Nodes |-> "WAITING_BOOTUP"], last |-> [n \in Nodes |-> now]]

-----------------------------------------------------------------------------
(* cia302_nmt_master_receive *)

\* Mutant of HeardState: the byte of a boot-up is taken for a state.
HeardStateRaw(byte, state) == IF byte = "invalid" THEN state ELSE byte

\* An invalid byte leaves the node's state alone.
HeardState(byte, state) ==
  CASE byte = "BOOTUP" -> "PREOP" [] byte = "invalid" -> state [] OTHER -> byte

\* Mutant of Receive: a boot-up is no heartbeat.
ReceiveBootupUnstamped(n, byte, now) ==
  master' = [master EXCEPT !.state[n] = HeardState(byte, @),
                           !.last[n] = IF byte = "BOOTUP" THEN @ ELSE now]

Receive(n, byte, now) ==
  master' = [master EXCEPT !.state[n] = HeardState(byte, @), !.last[n] = now]

-----------------------------------------------------------------------------
(* cia302_nmt_master_process *)

\* Mutant of Expiring: a node that timed out does so again.
ExpiringAgain(now) == {n \in Nodes : Since(now, master.last[n]) > HbTimeoutMs}

\* The nodes that time out now.
Expiring(now) ==
  {n \in Nodes : /\ Since(now, master.last[n]) > HbTimeoutMs
                 /\ master.state[n] # "TIMED_OUT"}

StateAfter(now) ==
  [n \in Nodes |-> IF n \in Expiring(now) THEN "TIMED_OUT" ELSE master.state[n]]

\* Mutants of Missing: one kind of missing node is forgotten.
MissingTimedOut(now) == {n \in Mandatory : StateAfter(now)[n] = "TIMED_OUT"}
MissingWaiting(now) == {n \in Mandatory : StateAfter(now)[n] = "WAITING_BOOTUP"}

\* The mandatory nodes that keep the network from being ready.
Missing(now) ==
  {n \in Mandatory : StateAfter(now)[n] \in {"WAITING_BOOTUP", "TIMED_OUT"}}

\* Mutant of BootTimesOut: a node that timed out is not looked for.
BootTimesOutWaiting(now) ==
  /\ MissingWaiting(now) # {} /\ ~master.bootReported
  /\ Since(now, master.startedAt) > BootTimeMs

\* Reported once, for the first node that is missing.
BootTimesOut(now) ==
  /\ Missing(now) # {} /\ ~master.bootReported
  /\ Since(now, master.startedAt) > BootTimeMs

BecomesReady(now) == Missing(now) = {} /\ ~master.ready

MasterProcess(now) ==
  master' = [master EXCEPT !.state = StateAfter(now),
                           !.bootReported = @ \/ BootTimesOut(now),
                           !.ready = @ \/ BecomesReady(now)]
=============================================================================
