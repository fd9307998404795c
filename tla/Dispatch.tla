------------------------------- MODULE Dispatch -------------------------------
(***************************************************************************)
(* Command admission tables and driver selection.                          *)
(*                                                                         *)
(* include/firestarter.h names the commands; configure_memory() clears the *)
(* three operation callbacks of the handle and lets the protocol's         *)
(* configure_*() install them.  What the operation engine sees of a driver *)
(* is only which callbacks are non-NULL for a (protocol, command) pair and *)
(* which of them return with a programming voltage still applied.          *)
(***************************************************************************)
EXTENDS Naturals

MemoryCmds == {"READ", "WRITE", "ERASE", "CHIP_ID", "SDP_UNLOCK", "SDP_LOCK",
               "LOCK_STATUS"}
VoltageCmds == {"READ_VPP", "READ_VPE"}
QueryCmds == {"FW_VERSION", "HW_VERSION", "CONFIG"}

\* A frame may carry any command byte without a payload: 0 is CMD_IDLE itself,
\* a retired or unassigned value reaches the default arm of loop().
Cmds == MemoryCmds \cup VoltageCmds \cup QueryCmds \cup {"IDLE", "UNKNOWN"}

(* Protocol numbers of the wire frame, grouped by the configure function
   configure_memory() picks; every other value is refused. *)
Family(protocol) ==
  CASE protocol = 16                -> "intel"
    [] protocol = 13                -> "eeprom28c"
    [] protocol = 6                 -> "nor"
    [] protocol \in {5, 53, 57}     -> "page5v"
    [] protocol \in {7, 8, 11}      -> "eprom"
    [] protocol \in {14, 39, 40, 41} -> "sram"
    [] OTHER                        -> "none"

(* firestarter_operation_main # NULL: the generic transfer mains, kept or
   replaced by the driver, and the mains only some drivers have. *)
HasMain(protocol, cmd) ==
  \/ Family(protocol) # "none" /\ cmd \in {"READ", "WRITE"}
  \/ Family(protocol) \in {"eprom", "eeprom28c", "page5v", "intel", "nor"}
     /\ cmd = "ERASE"
  \/ Family(protocol) \in {"eprom", "page5v", "intel", "nor"} /\ cmd = "CHIP_ID"
  \/ Family(protocol) \in {"page5v", "nor"} /\ cmd = "LOCK_STATUS"
  \/ Family(protocol) = "eeprom28c" /\ cmd \in {"SDP_UNLOCK", "SDP_LOCK"}

(* firestarter_operation_init # NULL.  The NOR driver installs the chip-id
   check before its switch, so it also guards READ. *)
HasInit(protocol, cmd) ==
  \/ Family(protocol) = "eprom" /\ cmd \in {"WRITE", "ERASE", "CHIP_ID"}
  \/ Family(protocol) = "eeprom28c" /\ cmd = "WRITE"
  \/ Family(protocol) \in {"page5v", "intel"} /\ cmd \in {"WRITE", "ERASE"}
  \/ Family(protocol) = "nor" /\ cmd \notin {"CHIP_ID", "LOCK_STATUS"}

(* firestarter_operation_end # NULL: only flash_intel_cleanup. *)
HasEnd(protocol, cmd) == Family(protocol) = "intel" /\ cmd # "CHIP_ID"

(* flash_intel_vpp_up() leaves the rail up for MAIN; every EPROM init callback
   clears the rail again before it returns. *)
InitRaisesHv(protocol, cmd) == Family(protocol) = "intel" /\ cmd \in {"WRITE", "ERASE"}

(* An EPROM write block leaves the regulator on for the next one. *)
MainRaisesHv(protocol, cmd) == Family(protocol) = "eprom" /\ cmd = "WRITE"
===============================================================================
