---------------------------- MODULE DriverReports ----------------------------
(***************************************************************************)
(* What each driver callback may log before it returns: its message ids,   *)
(* in order.  An error ends the callback.  DEBUG frames and the byte by    *)
(* byte progress are compiled out on the boards this is about.             *)
(***************************************************************************)
EXTENDS Naturals, Sequences

(* include/messages.h: the id says how severe the message is. *)
IsError(id) == id \in \hA0..\hDF

SKIPPING_ERASE == \h58
SKIPPING_ERASE_MEM == \h59
SDP_UNLOCK == \h5E
SDP_UNLOCK_DONE_US == \h5F
SDP_LOCK == \h60
SDP_LOCK_DONE_US == \h61
REV0_VPP_UNSUPPORTED == \h80
WARN_CHIP_ID == \h83
WARN_MEM_SIZE == \h84
SDP_UNLOCK_SKIPPED == \h86
SDP_TBLC_EXCEEDED == \h87
NOT_CALIBRATED == \h89
VPP_LOW_MV == \h8A
WARN_VPP_HIGH_MV == \h8B
ERR_VPP_HIGH_MV == \hC4
ERR_VERIFY == \hAF
ERR_NOT_BLANK == \hB0
ERR_EEPROM_TIMEOUT == \hB2
ERR_FL4_VERIFY_TIMEOUT == \hB3
ERR_INTEL_VPP == \hB4
ERR_INTEL_PROGRAM == \hB5
ERR_INTEL_SR_TIMEOUT == \hB6
ERR_OP_TIMEOUT == \hB7
ERR_CHIP_ID == \hB9
ERR_MEM_SIZE == \hBA
ERR_MAX_PULSES == \hBD
ERR_ENERGY_CAP == \hBE
ERR_FL4_PAGE_SIZE == \hBF
ERR_FL4_PAGE_ALIGN == \hC0
ERR_CALIBRATION == \hC1
ERR_CMD == \hAD
ERR_OUT_OF_RANGE == \hA7
PROTECTION_STATUS == \hE1

-----------------------------------------------------------------------------
None == <<>>
OneOf(ids) == {<<id>> : id \in ids}
Maybe(ids) == {None} \cup OneOf(ids)
Failed(a) == a # None /\ IsError(a[Len(a)])

(* One part of a callback, then the other unless the first failed. *)
Then(A, B) == {a \in A : Failed(a)} \cup {a \o b : a \in {x \in A : ~Failed(x)}, b \in B}

(* mem_util_check_vpp_window: in the window, low, or high and forced or refused. *)
VppWindow == Maybe({VPP_LOW_MV, WARN_VPP_HIGH_MV, ERR_VPP_HIGH_MV})

(* mem_util_report_chip_id: a match, or a mismatch forced or refused. *)
ChipId == Maybe({WARN_CHIP_ID, ERR_CHIP_ID})

(* The range test of memory_read_execute, memory_write_execute. *)
RangeFits == Maybe({ERR_OUT_OF_RANGE})

(* eprom_check_vpp, flash_intel_vpp_up: no reading on Rev 0, a calibration that cannot
   be used, or the reading, with a warning if it was never calibrated. *)
CheckVpp ==
  OneOf({REV0_VPP_UNSUPPORTED, ERR_CALIBRATION}) \cup Then(Maybe({NOT_CALIBRATED}), VppWindow)

EpromInit == Then(CheckVpp, ChipId)
EpromWriteInit == Then(EpromInit, Maybe({SKIPPING_ERASE}))
EpromWrite == Maybe({ERR_MAX_PULSES, ERR_ENERGY_CAP, ERR_VERIFY})

(* flash_intel_poll_sr *)
IntelPoll == Maybe({ERR_INTEL_VPP, ERR_INTEL_PROGRAM, ERR_INTEL_SR_TIMEOUT, ERR_CMD})
IntelWriteInit == Then(Then(CheckVpp, ChipId), IntelPoll)

(* eeprom28c_check_chip_id: Rev 0 skips the reading. *)
Eeprom28cId ==
  OneOf({WARN_MEM_SIZE, ERR_MEM_SIZE, ERR_CALIBRATION}) \cup Then(VppWindow, ChipId)

(* eeprom28c_emit_sdp_sequence_timed *)
SdpSequence(started, ended) ==
  Then({<<started, ended>>}, Maybe({SDP_TBLC_EXCEEDED}))
SdpUnlock == SdpSequence(SDP_UNLOCK, SDP_UNLOCK_DONE_US)
SdpLock == SdpSequence(SDP_LOCK, SDP_LOCK_DONE_US)

Eeprom28cWriteInit ==
  Then(Eeprom28cId \cup {None}, SdpUnlock \cup OneOf({SDP_UNLOCK_SKIPPED}))
Eeprom28cWrite == Maybe({ERR_EEPROM_TIMEOUT, ERR_VERIFY})

(* flash_util_wait_erase, flash_util_wait_program *)
NorErase == Maybe({ERR_OP_TIMEOUT, ERR_NOT_BLANK})
NorWriteInit == Then(ChipId, NorErase \cup OneOf({SKIPPING_ERASE_MEM}))
NorWrite == Maybe({ERR_OP_TIMEOUT})

Page5vWrite == Maybe({ERR_FL4_PAGE_SIZE, ERR_FL4_PAGE_ALIGN, ERR_FL4_VERIFY_TIMEOUT})
LockStatus == OneOf({PROTECTION_STATUS})

AllReports ==
  RangeFits \cup EpromWriteInit \cup EpromInit \cup CheckVpp \cup ChipId \cup EpromWrite
    \cup IntelWriteInit \cup IntelPoll
    \cup Eeprom28cWriteInit \cup Eeprom28cWrite \cup SdpUnlock \cup SdpLock
    \cup NorWriteInit \cup NorErase \cup NorWrite \cup Page5vWrite \cup LockStatus
===============================================================================
