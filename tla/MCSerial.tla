-------------------------------- MODULE MCSerial --------------------------------
(***************************************************************************)
(* The serial line on two levels: what the loop receives (Link), over a    *)
(* small alphabet, and the PY32's port (UsbCdc).  Either runs, for itself. *)
(***************************************************************************)
EXTENDS Link, UsbCdc

VARIABLE level  \* "link" or "usb"

\* For Link, O..Hash are data bytes and run codes as well, as the letters are in the
\* code; a full run holds two bytes.
SmallCrc(c, b) == (2 * c + b) % 3

\* A command frame with a zero in it; a data frame that fills the buffer, with a full
\* run, data behind it and checksum 0 (in idle it is too long); the words.
MCPayloads == {<<0, 2>>, <<1, 2, 1>>}
MCMessages ==
  {Encode(<<0, 2>>), <<Hash>> \o Encode(<<1, 2, 1>>), <<O, K>>, <<D, O, N, E>>}

SerialInit == Init /\ UsbInit /\ level \in {"link", "usb"}

SerialNext ==
  /\ \/ level = "link" /\ Next /\ UNCHANGED usbVars
     \/ level = "usb" /\ UsbNext /\ UNCHANGED vars
  /\ UNCHANGED level

SerialSpec ==
  /\ SerialInit /\ [][SerialNext]_<<vars, usbVars, level>>
  /\ WF_vars(MainLoop) /\ WF_vars(Tick) /\ UsbFairness

\* Link alone.
LinkSpec == SerialInit /\ level = "link" /\ [][SerialNext]_<<vars, usbVars, level>>
              /\ WF_vars(MainLoop) /\ WF_vars(Tick)
=================================================================================
