----------------------------- MODULE UdsServer -----------------------------
(***************************************************************************)
(* The diagnostic server of uds.c with the callbacks that                  *)
(* canopen_reference_uds.c gives it: the security provider and the         *)
(* download.  CANopenReference_UDS_Process ticks the server and the        *)
(* download and then hands over every request that has arrived.  The       *)
(* tester asks for anything at any time; of a request only what the server *)
(* makes of it counts, and of a response nothing.                          *)
(***************************************************************************)
EXTENDS UdsDownload, UdsSecurity, FiniteSets

CONSTANTS
  Builds,      \* sets of services: the UDS_ENABLE_* switches of a build
  S3Ms,        \* s3_server_timeout_ms
  MaxLevel,    \* the highest security level asked for
  Images,      \* the <<address, length>> of RequestDownload
  MaxStallMs   \* bound on the time between two passes

ASSUME ServerAssumption ==
  /\ \A b \in Builds : b \subseteq {"10", "11", "27", "34", "36", "37", "85"}
  /\ S3Ms \in Nat \ {0} /\ MaxLevel \in Nat \ {0} /\ MaxStallMs \in Nat \ {0}
  /\ S3Ms + MaxStallMs <= TickMod \div 2
  /\ Images \subseteq Addresses \X Nat

Sessions == {"default", "programming", "extended"}

Servers ==
  [session : Sessions, level : 0 .. MaxLevel, active : BOOLEAN, next : 0 .. BlockMod - 1,
   last : Ticks, resetPending : BOOLEAN, dtcSetting : BOOLEAN]

VARIABLES
  now,
  srv,        \* UdsServer
  services,   \* what this build has
  quiet,      \* ms since the last request, up to S3Ms
  sinceLock,  \* ms since the provider locked, up to LockoutMs
  claimed     \* the image whose CRC this download was finished with, or NoCrc

vars == <<now, srv, services, sec, dl, flash, quiet, sinceLock, claimed>>

\* uds_server_init
SrvInit(tick) ==
  [session |-> "default", level |-> 0, active |-> FALSE, next |-> 1, last |-> tick,
   resetPending |-> FALSE, dtcSetting |-> TRUE]

Init ==
  /\ now = 0 /\ srv = SrvInit(0) /\ services \in Builds
  /\ sec = SecInit /\ dl = DlInit /\ flash = [a \in Addresses |-> "kept"]
  /\ quiet = 0 /\ sinceLock = LockoutMs /\ claimed = NoCrc

-----------------------------------------------------------------------------
(* uds_server_handle: every request keeps the session alive *)

\* Mutant of Heard: the time of the request is not kept.
HeardUnstamped(s) == srv' = s /\ quiet' = 0

Heard(s) == srv' = [s EXCEPT !.last = now] /\ quiet' = 0

\* A service that is read-only, unknown, not in this build or without effect in
\* the reference application (0x19, 0x22, 0x28, 0x2F, 0x31, 0x3E), and any
\* request that is refused for its length, its subfunction or its block counter.
OtherRequest ==
  /\ Heard(srv)
  /\ UNCHANGED <<now, services, sec, dl, flash, sinceLock, claimed>>

SessionControl(session) ==
  /\ "10" \in services
  /\ Heard([srv EXCEPT !.session = session, !.level = 0])
  /\ UNCHANGED <<now, services, sec, dl, flash, sinceLock, claimed>>

\* The reference callback asks for a security level, of any session.
EcuReset ==
  /\ "11" \in services /\ srv.level > 0
  /\ Heard([srv EXCEPT !.resetPending = TRUE])
  /\ UNCHANGED <<now, services, sec, dl, flash, sinceLock, claimed>>

ControlDtcSetting(on) ==
  /\ "85" \in services
  /\ Heard([srv EXCEPT !.dtcSetting = on])
  /\ UNCHANGED <<now, services, sec, dl, flash, sinceLock, claimed>>

SecuritySeed ==
  /\ "27" \in services
  /\ SecSeedDelayed(now) \/ SecSeed(now)
  /\ Heard(srv)
  /\ UNCHANGED <<now, services, dl, flash, sinceLock, claimed>>

SecurityKeyRefused ==
  /\ "27" \in services
  /\ \/ (SecKeyRefused(now) \/ SecKeyOutOfSequence(now) \/ SecKeyWrong(now))
        /\ UNCHANGED sinceLock
     \/ SecKeyLocks(now) /\ sinceLock' = 0
  /\ Heard(srv)
  /\ UNCHANGED <<now, services, dl, flash, claimed>>

SecurityKey(level) ==
  /\ "27" \in services
  /\ SecKeyRight(now)
  /\ Heard([srv EXCEPT !.level = level])
  /\ UNCHANGED <<now, services, dl, flash, sinceLock, claimed>>

\* Mutant of RequestDownload: the server counts on from the last download.
RequestDownloadCountsOn(address, length) ==
  /\ "34" \in services
  /\ \/ DlBeginRefused /\ Heard(srv) /\ UNCHANGED claimed
     \/ DlBegin(address, length, now) /\ Heard([srv EXCEPT !.active = TRUE])
        /\ claimed' = NoCrc
  /\ UNCHANGED <<now, services, sec, sinceLock>>

RequestDownload(address, length) ==
  /\ "34" \in services
  /\ \/ DlBeginRefused /\ Heard(srv) /\ UNCHANGED claimed
     \/ DlBegin(address, length, now) /\ Heard([srv EXCEPT !.active = TRUE, !.next = 1])
        /\ claimed' = NoCrc
  /\ UNCHANGED <<now, services, sec, sinceLock>>

\* The server's own checks come first; what they refuse is an OtherRequest.
TransferData(data) ==
  /\ "36" \in services /\ srv.active
  /\ LET block == srv.next IN
     \/ /\ \/ DlWriteNotReady \/ DlWriteTimeout(now) \/ DlWriteRefused(block, data, now)
           \/ DlWriteFails(block, data, now)
        /\ Heard(srv)
     \/ DlWrite(block, data, now) /\ Heard([srv EXCEPT !.next = (@ + 1) % BlockMod])
  /\ UNCHANGED <<now, services, sec, sinceLock, claimed>>

\* A transfer parameter record of one byte, or of one byte and a CRC32.
TransferExit(crc) ==
  /\ "37" \in services /\ srv.active
  /\ \/ (DlFinishNotReady \/ DlFinishAborts) /\ Heard(srv) /\ UNCHANGED claimed
     \/ DlFinish(crc, now) /\ Heard([srv EXCEPT !.active = FALSE]) /\ claimed' = crc
  /\ UNCHANGED <<now, services, sec, sinceLock>>

-----------------------------------------------------------------------------
(* The passes *)

Later(count, ms, top) == IF count + ms > top THEN top ELSE count + ms

\* Mutant of SrvTicked: the security level survives the session.
SrvTickedKeepsLevel(tick) ==
  IF Expired(tick, After(srv.last, S3Ms))
  THEN [srv EXCEPT !.session = "default", !.active = FALSE, !.next = 1]
  ELSE srv

\* uds_server_tick
SrvTicked(tick) ==
  IF Expired(tick, After(srv.last, S3Ms))
  THEN [srv EXCEPT !.session = "default", !.level = 0, !.active = FALSE, !.next = 1]
  ELSE srv

\* CANopenReference_UDS_Process up to its loop over the frames.  The reset that
\* was asked for is taken before the next pass.
PassStart ==
  \E ms \in 1 .. MaxStallMs :
    /\ ~srv.resetPending
    /\ now' = After(now, ms)
    /\ srv' = SrvTicked(now')
    /\ DlTick(now')
    /\ quiet' = Later(quiet, ms, S3Ms) /\ sinceLock' = Later(sinceLock, ms, LockoutMs)
    /\ UNCHANGED <<services, sec, claimed>>

\* The product polls the erase between two passes.
PollErase ==
  /\ DlPollTimeout(now) \/ DlPollErased(now)
  /\ UNCHANGED <<now, srv, services, sec, quiet, sinceLock, claimed>>

\* CANopenReference_UDS_Init.
Initialise(tick) ==
  /\ now' = tick /\ srv' = SrvInit(tick) /\ sec' = SecInit /\ dl' = DlInit
  /\ quiet' = 0 /\ sinceLock' = LockoutMs /\ claimed' = NoCrc
  /\ UNCHANGED <<services, flash>>

\* A communication reset or a rebuild after bus-off.
Reinit == ~srv.resetPending /\ Initialise(now)

\* canopen_app_process finds the reset pending: HAL_NVIC_SystemReset.
Restart == srv.resetPending /\ Initialise(0)

Blocks == {<<>>} \cup {<<u>> : u \in Units} \cup
          (IF MaxChunk > 1 THEN Units \X Units ELSE {})

Crcs == Blocks

Next ==
  \/ OtherRequest \/ EcuReset \/ SecuritySeed \/ SecurityKeyRefused
  \/ \E s \in Sessions : SessionControl(s)
  \/ \E on \in BOOLEAN : ControlDtcSetting(on)
  \/ \E l \in 1 .. MaxLevel : SecurityKey(l)
  \/ \E i \in Images : RequestDownload(i[1], i[2])
  \/ \E data \in Blocks : TransferData(data)
  \/ \E crc \in Crcs : TransferExit(crc)
  \/ PassStart \/ PollErase \/ Reinit \/ Restart

\* The superloop goes round, and takes a reset that was asked for.
Fairness == WF_vars(PassStart) /\ WF_vars(Restart)

Spec == Init /\ [][Next]_vars /\ Fairness

-----------------------------------------------------------------------------
(* Properties *)

\* The types of everything, the bounds on the counters included.
TypeOK ==
  /\ now \in Ticks /\ services \in Builds
  /\ srv \in Servers /\ sec \in Securities /\ dl \in Downloads /\ flash \in Flashes
  /\ quiet \in 0 .. S3Ms /\ sinceLock \in 0 .. LockoutMs /\ claimed \in Seq(Units)

\* A session, a security level or a download that the server still lets
\* continue has had a request within the S3 time (uds_server_tick), at whatever
\* point of the tick's wrap and however irregular the passes are.
SessionNeedsActivity ==
  srv.session # "default" \/ srv.level > 0 \/ srv.active => quiet < S3Ms

\* And only the S3 time takes a session away from a tester: until it is over, a
\* pass leaves the session as it is.
SessionIsKept ==
  [][PassStart /\ srv'.session # srv.session => quiet' = S3Ms]_vars

\* The server and the download each keep the counter of the next block.  While
\* the server accepts blocks for a download that receives them, they are equal,
\* so that no block the one accepts is out of sequence for the other.
CountersAgree ==
  srv.active /\ dl.state = "RECEIVING" => srv.next = dl.block

\* What the tester was told it wrote is what is in the flash.
FlashHolds(image) ==
  \A i \in 1 .. Len(image) : flash[dl.address + i - 1] = image[i]

\* An image that is marked for activation is whole, is still in the flash, and
\* is the one whose CRC the tester gave: the mark does not outlive the image,
\* whatever downloads are begun, aborted or refused after it
\* (docs/uds/flash_programming.md: a failed, timed-out, interrupted or
\* CRC-invalid transfer must clear activation-pending state).
PendingImageIsWhole ==
  dl.pending =>
    /\ dl.state = "COMPLETE" /\ Len(dl.stream) = dl.length /\ FlashHolds(dl.stream)
    /\ claimed # NoCrc => FlashHolds(claimed) /\ Len(claimed) = dl.length

\* Nothing of the bootloader, the active application, the parameters or the
\* diagnostic storage is erased or programmed (docs/uds/flash_programming.md: it
\* must never overwrite them), although range_inside compares with a difference
\* that wraps.
ProtectedUntouched ==
  [][\A r \in Protected : \A a \in r[1] .. r[2] - 1 : flash'[a] = flash[a]]_vars

\* Once too many keys were wrong, the provider neither hands out a seed nor
\* looks at a key for the lockout time: a new session, the S3 timeout and the
\* wrap of the tick do not shorten it.
LockoutHolds ==
  [][sinceLock < LockoutMs /\ ~Reinit /\ ~Restart => sec' = sec]_vars

\* A download does not stay half received: blocks come in until it is whole, or
\* it is given up, even if the tester says nothing more or keeps the session
\* alive with other requests.
ReceivingEnds == dl.state = "RECEIVING" ~> dl.state # "RECEIVING"
=============================================================================
