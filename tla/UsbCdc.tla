--------------------------------- MODULE UsbCdc ---------------------------------
(***************************************************************************)
(* The PY32's USB serial port (usb_cdc.c): a receive ring that the USB     *)
(* interrupt fills and the main loop empties, and a transmit ring the main *)
(* loop fills and the interrupt empties a packet at a time.  The two share *)
(* no lock: an interrupt comes between any two steps of the main loop.     *)
(*                                                                         *)
(* The driver below is external: it delivers packets, says when ours has   *)
(* gone out, and after a bus reset does neither until the host configures  *)
(* the device again.  What is read and written is the caller's business:   *)
(* here any byte, at any time.                                             *)
(***************************************************************************)
EXTENDS Integers, Sequences, SequencesExt

CONSTANTS
  Values,        \* byte values
  RxCapacity,    \* FIRESTARTER_USB_RX_CAPACITY
  TxCapacity,    \* FIRESTARTER_USB_TX_CAPACITY
  MaxPacket,     \* FIRESTARTER_CDC_MAX_PACKET_SIZE
  WriteTimeout   \* FIRESTARTER_USB_TIMEOUT_MS, in ticks

ASSUME UsbAssumption ==
  /\ RxCapacity \in Nat /\ RxCapacity > 1
  /\ TxCapacity \in Nat /\ TxCapacity > 1
  /\ MaxPacket \in Nat \ {0}
  /\ WriteTimeout \in Nat

VARIABLES
  rx_buffer, rx_head, rx_tail,  \* the receive ring
  tx_buffer, tx_head, tx_tail,  \* the transmit ring
  tx_busy,                      \* a packet is on its way, as far as we know
  cdc_in_packet,                \* that packet
  inFlight,                     \* what the driver has of ours: "none", "packet", "zlp",
                                \* or "taken": the interrupt is due
  configured,                   \* usb_device_is_configured()
  orphaned,                     \* ghost: a reset took a packet that tx_busy waits for
  upc, value, elapsed            \* the main loop: its place, its byte, its timer

rxVars == <<rx_buffer, rx_head, rx_tail>>
txRing == <<tx_buffer, tx_head, tx_tail>>
txOut == <<tx_busy, cdc_in_packet, inFlight>>
callVars == <<upc, value, elapsed>>
busVars == <<configured, orphaned>>
usbVars == <<rxVars, txRing, txOut, callVars, busVars>>

ring_next(i, capacity) == IF i + 1 = capacity THEN 0 ELSE i + 1

(* py32_usb_available *)
InRing(head, tail, capacity) ==
  IF head >= tail THEN head - tail ELSE capacity - tail + head

\* The bytes of a ring, oldest first.
Contents(buffer, head, tail, capacity) ==
  [i \in 1..InRing(head, tail, capacity) |-> buffer[(tail + i - 1) % capacity]]

Least(m, n) == IF m < n THEN m ELSE n

-----------------------------------------------------------------------------
Return == upc' = "free" /\ value' = 0 /\ elapsed' = 0

(* Receiving. *)
RxContents == Contents(rx_buffer, rx_head, rx_tail, RxCapacity)

Fits(packet) == Least(Len(packet), RxCapacity - 1 - Len(RxContents))

(* firestarter_cdc_bulk_out: the packet's bytes until the ring is full; the rest of
   the packet is lost, and the endpoint is armed again. *)
BulkOut(packet) ==
  LET place(k) == ((k - rx_head + RxCapacity) % RxCapacity) + 1
      kept == Fits(packet)
  IN  /\ configured
      /\ rx_buffer' = [k \in 0..(RxCapacity - 1) |->
                         IF place(k) \in 1..kept THEN packet[place(k)] ELSE rx_buffer[k]]
      /\ rx_head' = (rx_head + kept) % RxCapacity
      /\ UNCHANGED <<rx_tail, txRing, txOut, callVars, busVars>>

(* py32_usb_read: the byte, then the index.  (Slots, packets and locals nobody will
   read again are set to 0 or <<>> throughout.) *)
Fetch ==
  /\ upc = "free" /\ rx_tail # rx_head
  /\ value' = rx_buffer[rx_tail] /\ upc' = "fetched"
  /\ UNCHANGED <<rxVars, txRing, txOut, elapsed, busVars>>

Advance ==
  /\ upc = "fetched"
  /\ rx_tail' = ring_next(rx_tail, RxCapacity)
  /\ rx_buffer' = [rx_buffer EXCEPT ![rx_tail] = 0]
  /\ Return
  /\ UNCHANGED <<rx_head, txRing, txOut, busVars>>

-----------------------------------------------------------------------------
(* Transmitting. *)
TxContents == Contents(tx_buffer, tx_head, tx_tail, TxCapacity)

\* Slip: the packet on its way is not waited for.
StartOverBusy(busy, flight) ==
  LET n == Least(Len(TxContents), MaxPacket)
  IN  IF n = 0 \/ ~configured'
      THEN /\ tx_busy' = busy /\ inFlight' = flight
           /\ cdc_in_packet' = IF flight = "none" THEN <<>> ELSE cdc_in_packet
           /\ UNCHANGED <<tx_buffer, tx_tail>>
      ELSE /\ cdc_in_packet' = SubSeq(TxContents, 1, n)
           /\ tx_tail' = (tx_tail + n) % TxCapacity
           /\ tx_buffer' = [k \in DOMAIN tx_buffer |->
                 IF (k - tx_tail + TxCapacity) % TxCapacity < n THEN 0 ELSE tx_buffer[k]]
           /\ tx_busy' = TRUE /\ inFlight' = "packet"

(* usb_start_next_transmit, with tx_busy = busy and flight at the endpoint: up to a
   packet goes from the ring to the endpoint.  The main loop turns interrupts off. *)
StartNext(busy, flight) ==
  LET n == Least(Len(TxContents), MaxPacket)
  IN  IF busy \/ n = 0 \/ ~configured'
      THEN /\ tx_busy' = busy /\ inFlight' = flight
           /\ cdc_in_packet' = IF flight = "none" THEN <<>> ELSE cdc_in_packet
           /\ UNCHANGED <<tx_buffer, tx_tail>>
      ELSE /\ cdc_in_packet' = SubSeq(TxContents, 1, n)
           /\ tx_tail' = (tx_tail + n) % TxCapacity
           /\ tx_buffer' = [k \in DOMAIN tx_buffer |->
                 IF (k - tx_tail + TxCapacity) % TxCapacity < n THEN 0 ELSE tx_buffer[k]]
           /\ tx_busy' = TRUE /\ inFlight' = "packet"

StartNextSafe ==
  /\ UNCHANGED busVars
  /\ StartNext(tx_busy, inFlight)
  /\ UNCHANGED <<rxVars, tx_head>>

(* py32_usb_write of one byte, as every caller uses it: the slot, the index, the
   transmitter.  Without a host it returns at once. *)
TxFull == ring_next(tx_head, TxCapacity) = tx_tail

Write(b) ==
  /\ upc = "free" /\ configured
  /\ upc' = "write" /\ value' = b /\ elapsed' = 0
  /\ UNCHANGED <<rxVars, txRing, txOut, busVars>>

Store ==
  /\ upc = "write" /\ ~TxFull
  /\ tx_buffer' = [tx_buffer EXCEPT ![tx_head] = value]
  /\ upc' = "stored"
  /\ UNCHANGED <<rxVars, tx_head, tx_tail, txOut, value, elapsed, busVars>>

Publish ==
  /\ upc = "stored"
  /\ tx_head' = ring_next(tx_head, TxCapacity)
  /\ upc' = "published"
  /\ UNCHANGED <<rxVars, tx_buffer, tx_tail, txOut, value, elapsed, busVars>>

Start ==
  /\ upc = "published"
  /\ StartNextSafe
  /\ Return

\* Slip: a full ring is waited for as long as it takes.
WriteWaits ==
  /\ upc = "write" /\ TxFull /\ ~tx_busy
  /\ StartNextSafe
  /\ Return

(* The ring has stayed full for the deadline: the byte is given up. *)
WriteTimesOut ==
  /\ upc = "write" /\ TxFull /\ elapsed >= WriteTimeout
  /\ StartNextSafe
  /\ Return

(* py32_usb_flush *)
Flush ==
  /\ upc = "free"
  /\ StartNextSafe
  /\ upc' = "flush" /\ elapsed' = 0 /\ UNCHANGED value

FlushReturns ==
  /\ upc = "flush"
  /\ (tx_head = tx_tail /\ ~tx_busy) \/ elapsed >= WriteTimeout
  /\ Return
  /\ UNCHANGED <<rxVars, txRing, txOut, busVars>>

TimePasses ==
  /\ (upc = "write" /\ TxFull) \/ (upc = "flush" /\ (tx_head # tx_tail \/ tx_busy))
  /\ elapsed < WriteTimeout /\ elapsed' = elapsed + 1
  /\ UNCHANGED <<rxVars, txRing, txOut, upc, value, busVars>>

\* The host has taken the packet, or the empty one; the interrupt is due.
HostTakes ==
  /\ configured /\ inFlight \in {"packet", "zlp"}
  /\ inFlight' = "taken"
  /\ UNCHANGED <<rxVars, txRing, tx_busy, cdc_in_packet, callVars, busVars>>

\* Slip: the empty packet is armed and nothing waits for it.
BulkInForgetsZlp ==
  /\ inFlight = "taken"
  /\ IF Len(cdc_in_packet) = MaxPacket
     THEN inFlight' = "none" /\ cdc_in_packet' = <<>>
          /\ UNCHANGED <<tx_busy, tx_buffer, tx_tail, busVars>>
     ELSE UNCHANGED busVars /\ StartNext(FALSE, "none")
  /\ UNCHANGED <<rxVars, tx_head, callVars>>

(* firestarter_cdc_bulk_in.  An empty packet follows a full one, so that the host
   sees where the transfer ends. *)
BulkIn ==
  /\ inFlight = "taken"
  /\ IF Len(cdc_in_packet) = MaxPacket
     THEN inFlight' = "zlp" /\ cdc_in_packet' = <<>>
          /\ UNCHANGED <<tx_busy, tx_buffer, tx_tail, busVars>>
     ELSE UNCHANGED busVars /\ StartNext(FALSE, "none")
  /\ UNCHANGED <<rxVars, tx_head, callVars>>

-----------------------------------------------------------------------------
(* The bus.  A reset ends what is in flight without a callback, so that tx_busy is
   nobody's to clear. *)
BusReset ==
  /\ configured
  /\ configured' = FALSE
  /\ inFlight' = "none" /\ cdc_in_packet' = <<>>
  /\ orphaned' = (orphaned \/ tx_busy)
  /\ UNCHANGED <<rxVars, txRing, tx_busy, callVars>>

(* usbd_configure_done_callback *)
Configure ==
  /\ ~configured
  /\ configured' = TRUE /\ UNCHANGED orphaned
  /\ StartNext(tx_busy, inFlight)
  /\ UNCHANGED <<rxVars, tx_head, callVars>>

(* rurp_communication_begin, before the first configuration. *)
UsbInit ==
  /\ rx_buffer = [k \in 0..(RxCapacity - 1) |-> 0] /\ rx_head = 0 /\ rx_tail = 0
  /\ tx_buffer = [k \in 0..(TxCapacity - 1) |-> 0] /\ tx_head = 0 /\ tx_tail = 0
  /\ tx_busy = FALSE /\ cdc_in_packet = <<>> /\ inFlight = "none"
  /\ configured = FALSE /\ orphaned = FALSE
  /\ upc = "free" /\ value = 0 /\ elapsed = 0

\* What the main loop does once it has begun a call.
Call == Advance \/ Store \/ Publish \/ Start \/ WriteTimesOut \/ FlushReturns

UsbNext ==
  \/ Fetch \/ Flush \/ \E b \in Values : Write(b)
  \/ Call \/ TimePasses
  \/ \E n \in 1..MaxPacket : \E packet \in [1..n -> Values] : BulkOut(packet)
  \/ HostTakes \/ BulkIn \/ BusReset \/ Configure

UsbSpec == UsbInit /\ [][UsbNext]_usbVars

(* Calls run on, time passes, and a configured host takes what it is sent. *)
UsbFairness == WF_usbVars(Call) /\ WF_usbVars(TimePasses) /\ WF_usbVars(HostTakes) /\ WF_usbVars(BulkIn)

-----------------------------------------------------------------------------
RxPipe == INSTANCE BytePipe WITH
  Limit <- RxCapacity - 1, up <- configured,
  queue <- IF upc = "fetched" THEN Tail(RxContents) ELSE RxContents,
  out <- IF upc = "fetched" THEN <<value>> ELSE <<>>

TxPipe == INSTANCE BytePipe WITH
  Limit <- TxCapacity - 1, up <- configured,
  queue <- TxContents,
  out <- IF inFlight = "packet" THEN cdc_in_packet ELSE <<>>

(* bulk_out against py32_usb_read, py32_usb_write against bulk_in: each ring passes on
   what was put into it, in order and once, packets arriving between a read's two
   stores and interrupts between a write's.  Only the packet that is on its way when
   the bus is reset goes with it. *)
PortIsTwoPipes == RxPipe!Spec /\ TxPipe!Spec

(* py32_usb_write and py32_usb_flush return, with the transmitter stuck and without. *)
CallsReturn == []<>(upc = "free")

(* As long as no reset has orphaned a packet, a device that stays configured goes on
   sending what is in its ring.  (After such a reset it never sends again.) *)
TransmitterRuns ==
  <>[](configured /\ ~orphaned) =>
     []<>(tx_head = tx_tail /\ ~tx_busy) \/ []<><<HostTakes>>_usbVars
=================================================================================
