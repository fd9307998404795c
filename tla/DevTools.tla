-------------------------------- MODULE DevTools --------------------------------
(***************************************************************************)
(* The commands of a DEV_TOOLS build (dev_tools.cpp) on the control        *)
(* register and the rail of HvRail: a register set by hand, an address set *)
(* by hand, a sweep of the rail.  Each makes its writes in one call, holds *)
(* them while the operator looks (at most DT_BUTTON_WAIT_MS, with neither  *)
(* the host nor the watchdog heard), and ends in command_done.             *)
(***************************************************************************)
EXTENDS HvRail

DevCmds == {"DEV_REGISTER", "DEV_ADDRESS", "DEV_ADC"}

Write(bits) == [t |-> "set", bits |-> bits]
WriteRaw(bits) == [t |-> "raw", bits |-> bits]

\* The latch's outputs; an unrecognised board has them, too.
Outputs == IF revision \in {"r0", "r1"} THEN Bits \ {"DROP"} ELSE Bits \ {"A18"}

Start(command, writes) ==
  /\ cmd = "IDLE"
  /\ cmd' = command /\ chip' \in Chips
  /\ phase' = 2 /\ todo' \in writes
  /\ UNCHANGED <<revision, rail, strobe>>

(* dt_set_registers, with the host's ninth bit set: the write that every other part of
   the firmware makes. *)
SetRegisters == Start("DEV_REGISTER", {<<>>} \cup {<<Write(bits)>> : bits \in SUBSET Bits})

(* Without it: the board's latch, and not the copy. *)
SetRegistersRaw ==
  Start("DEV_REGISTER", {<<>>} \cup {<<WriteRaw(bits)>> : bits \in SUBSET Outputs})

(* dt_set_address: FLAG_OUTPUT_ENABLE makes it a read.  configure_memory, and with it
   the wait for the rail to fall, is not called. *)
SetDevAddress == Start("DEV_ADDRESS", {<<Strobe("read")>>, <<Strobe("write")>>})

(* dt_read_adc; Rev 0 has no divider to read. *)
Sweep ==
  IF revision = "r0" THEN <<>>
  ELSE <<Write({}), Write({"REG", "DROP"}), Write({"REG"}), Write({})>>

ReadAdc == Start("DEV_ADC", {Sweep})

WriteRegister ==
  /\ Step({"set"}) /\ WriteControl(Head(todo).bits)
  /\ strobe' = "none" /\ Same

(* rurp_internal_write_to_register. *)
WriteLatch ==
  /\ Step({"raw"})
  /\ latch' = Head(todo).bits
  /\ charge' = IF "REG" \in latch' THEN Discharge ELSE charge
  /\ strobe' = "none" /\ UNCHANGED <<cache, off>> /\ Same

DevNext == RailNext \/ SetRegisters \/ SetDevAddress \/ ReadAdc \/ WriteRegister

DevSpec == RailInit /\ [][DevNext]_railVars

\* With registers set as the default view of `dev reg` gives them.
RawSpec == RailInit /\ [][DevNext \/ SetRegistersRaw \/ WriteLatch]_railVars
=================================================================================
