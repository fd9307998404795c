------------------------------ MODULE MCSession ------------------------------
(* Small command frames for the model-checking runs of Session. *)
EXTENDS Session

Frame(c, p, from, size, end) ==
  [cmd |-> c, protocol |-> p, address |-> from, memSize |-> size, regionEnd |-> end,
   chipId |-> TRUE, canErase |-> TRUE, pulseOk |-> TRUE]

\* Transfers: driver with an init (NOR 6), with init and end (Intel 16), with a
\* rail left on by MAIN (EPROM 7), with neither (SRAM 14); a region inside the
\* device, none, one past the device's end, a read past its region.
ReadFrames == {Frame("READ", 6, 0, 3, 2), Frame("READ", 16, 0, 3, 0),
               Frame("READ", 14, 3, 4, 2)}
WriteFrames == {Frame("WRITE", 7, 0, 3, 3), Frame("WRITE", 16, 1, 3, 0),
                Frame("WRITE", 14, 0, 2, 9), Frame("WRITE", 14, 2, 3, 1)}

\* The other commands: one per handler, and each reason to be refused.
OtherFrames ==
  {Frame("ERASE", 16, 0, 2, 0), [Frame("ERASE", 16, 0, 2, 0) EXCEPT !.canErase = FALSE],
   Frame("CHIP_ID", 7, 0, 2, 0), [Frame("CHIP_ID", 6, 0, 2, 0) EXCEPT !.chipId = FALSE],
   Frame("SDP_LOCK", 13, 0, 2, 0), Frame("SDP_UNLOCK", 6, 0, 2, 0),
   Frame("READ", 17, 0, 2, 0), [Frame("WRITE", 8, 0, 2, 0) EXCEPT !.pulseOk = FALSE],
   Frame("READ_VPP", 0, 0, 0, 0), Frame("FW_VERSION", 0, 0, 0, 0),
   Frame("UNKNOWN", 0, 0, 0, 0), Frame("IDLE", 0, 0, 0, 0)}

TransferFrames ==
  ReadFrames \cup WriteFrames \cup {Frame("ERASE", 16, 0, 2, 0), Frame("READ_VPE", 0, 0, 0, 0)}
AllFrames == TransferFrames \cup OtherFrames
===============================================================================
