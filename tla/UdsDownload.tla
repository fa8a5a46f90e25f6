---------------------------- MODULE UdsDownload ----------------------------
(***************************************************************************)
(* The download of uds_download.c: one record, and one action for each way *)
(* through each function.  Memory is counted in units of the program (and  *)
(* erase) alignment; data is a sequence of units, and an address or length *)
(* that is not a whole number of units is written 0 or <<>>.  The product  *)
(* callbacks erase_start, erase_poll, program and verify_image are         *)
(* external: each may fail whenever it is called.  The CRC32 over what was *)
(* programmed is represented by the data itself.                           *)
(***************************************************************************)
EXTENDS TickClock, Sequences

CONSTANTS
  Units,        \* what a unit of flash may be programmed to
  MemMod,       \* addresses are unsigned and wrap: 2^32 in the code
  StagingStart, StagingEnd,  \* memory.staging_image, the end exclusive
  Protected,    \* the four other regions, each a pair <<start, end>>
  MaxChunk,     \* the longest block
  BlockMod,     \* block counters are of 8 bits
  DlTimeoutMs   \* UDS_DOWNLOAD_TIMEOUT_MS

ASSUME DownloadAssumption ==
  /\ MemMod \in Nat /\ MaxChunk \in Nat \ {0} /\ BlockMod \in Nat \ {0, 1}
  /\ StagingStart \in 0 .. MemMod - 1 /\ StagingEnd \in StagingStart .. MemMod - 1
  /\ \A r \in Protected : r \in (0 .. MemMod - 1) \X (0 .. MemMod - 1)
  /\ DlTimeoutMs \in Nat \ {0} /\ DlTimeoutMs < TickMod \div 2

VARIABLES
  dl,      \* UdsDownload and its metadata
  flash    \* external: what each unit of the memory holds

Addresses == 0 .. MemMod - 1

Flashes == [Addresses -> Units \cup {"kept", "erased"}]

DlStates == {"IDLE", "ERASING", "RECEIVING", "COMPLETE", "ABORTED"}

Downloads ==
  [state : DlStates, address : Nat, length : Nat, received : Nat,
   block : 0 .. BlockMod - 1, deadline : Ticks, stream : Seq(Units), pending : BOOLEAN]

ImageRange(address, length) == address .. address + length - 1

DlInit ==
  [state |-> "IDLE", address |-> 0, length |-> 0, received |-> 0, block |-> 1,
   deadline |-> 0, stream |-> <<>>, pending |-> FALSE]

DlExpired(now) == Expired(now, dl.deadline)

DlAbort == dl' = [dl EXCEPT !.state = "ABORTED", !.pending = FALSE]

-----------------------------------------------------------------------------
(* uds_download_begin *)

\* range_inside of the staging region.  The length is compared with an
\* unsigned difference, which wraps for an address beyond the region.
RangeInside(address, length) ==
  /\ length > 0 /\ address >= StagingStart
  /\ length <= (StagingEnd + MemMod - address) % MemMod

Overlaps(address, length, region) ==
  address < region[2] /\ region[1] < address + length

\* Mutant of BeginAccepts: only the staging region is looked at.
BeginAcceptsStaging(address, length) ==
  address + length < MemMod /\ RangeInside(address, length)

BeginAccepts(address, length) ==
  /\ address + length < MemMod
  /\ RangeInside(address, length)
  /\ \A r \in Protected : ~Overlaps(address, length, r)

\* Out of range, or unaligned, or erase_start fails and leaves the flash alone:
\* the download in progress, if there is one, goes on.
DlBeginRefused == UNCHANGED <<dl, flash>>

\* Mutant of DlBegin: the mark of the previous image stays.
DlBeginKeepsPending(address, length, now) ==
  /\ BeginAccepts(address, length)
  /\ dl' = [DlInit EXCEPT !.state = "ERASING", !.address = address, !.length = length,
                          !.deadline = After(now, DlTimeoutMs), !.pending = dl.pending]
  /\ flash' = [a \in Addresses |->
                 IF a \in ImageRange(address, length) THEN "erased" ELSE flash[a]]

\* Whatever state the download was in.  From erase_start on, the range no
\* longer holds what it held.
DlBegin(address, length, now) ==
  /\ BeginAccepts(address, length)
  /\ dl' = [DlInit EXCEPT !.state = "ERASING", !.address = address, !.length = length,
                          !.deadline = After(now, DlTimeoutMs)]
  /\ flash' = [a \in Addresses |->
                 IF a \in ImageRange(address, length) THEN "erased" ELSE flash[a]]

-----------------------------------------------------------------------------
(* uds_download_poll_erase, which the product's superloop calls *)

DlPollTimeout(now) ==
  dl.state = "ERASING" /\ DlExpired(now) /\ DlAbort /\ UNCHANGED flash

DlPollErased(now) ==
  /\ dl.state = "ERASING" /\ ~DlExpired(now)
  /\ dl' = [dl EXCEPT !.state = "RECEIVING", !.deadline = After(now, DlTimeoutMs)]
  /\ UNCHANGED flash

-----------------------------------------------------------------------------
(* uds_download_write *)

WriteFits(block, data) ==
  /\ block = dl.block
  /\ data # <<>> /\ Len(data) <= dl.length - dl.received

DlWriteNotReady == dl.state # "RECEIVING" /\ UNCHANGED <<dl, flash>>

DlWriteTimeout(now) ==
  dl.state = "RECEIVING" /\ DlExpired(now) /\ DlAbort /\ UNCHANGED flash

DlWriteRefused(block, data, now) ==
  /\ dl.state = "RECEIVING" /\ ~DlExpired(now) /\ ~WriteFits(block, data)
  /\ UNCHANGED <<dl, flash>>

DlMayWrite(block, data, now) ==
  dl.state = "RECEIVING" /\ ~DlExpired(now) /\ WriteFits(block, data)

Programmed(data) ==
  [a \in Addresses |->
     IF a \in ImageRange(dl.address + dl.received, Len(data))
     THEN data[a - (dl.address + dl.received) + 1] ELSE flash[a]]

\* program fails, perhaps after some of the data; nothing else happens.
DlWriteFails(block, data, now) ==
  /\ DlMayWrite(block, data, now)
  /\ \E n \in 0 .. Len(data) : flash' = Programmed(SubSeq(data, 1, n))
  /\ UNCHANGED dl

DlWrite(block, data, now) ==
  /\ DlMayWrite(block, data, now)
  /\ flash' = Programmed(data)
  /\ dl' = [dl EXCEPT !.received = @ + Len(data), !.stream = @ \o data,
                      !.block = (@ + 1) % BlockMod, !.deadline = After(now, DlTimeoutMs)]

-----------------------------------------------------------------------------
(* uds_download_finish.  The CRC, when one is given, is that of an image.  *)

NoCrc == <<>>

DlMayFinish == dl.state = "RECEIVING" /\ dl.received = dl.length

DlFinishNotReady == ~DlMayFinish /\ UNCHANGED <<dl, flash>>

\* Too late, the wrong CRC, or verify_image fails.
DlFinishAborts == DlMayFinish /\ DlAbort /\ UNCHANGED flash

\* activation_supported is FALSE in the reference's memory map.
DlFinish(crc, now) ==
  /\ DlMayFinish /\ ~DlExpired(now)
  /\ crc # NoCrc => crc = dl.stream
  /\ dl' = [dl EXCEPT !.state = "COMPLETE", !.pending = TRUE]
  /\ UNCHANGED flash

-----------------------------------------------------------------------------
(* uds_download_tick *)

\* Mutant of DlTickExpires: only the erase is timed.
DlTickExpiresErasing(now) == dl.state = "ERASING" /\ DlExpired(now)

DlTickExpires(now) == dl.state \in {"ERASING", "RECEIVING"} /\ DlExpired(now)

DlTick(now) ==
  /\ IF DlTickExpires(now) THEN DlAbort ELSE UNCHANGED dl
  /\ UNCHANGED flash
=============================================================================
