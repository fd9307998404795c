------------------------------ MODULE VoltageMath ------------------------------
(***************************************************************************)
(* The measurement of the programming voltage on an AVR board: ADC counts  *)
(* to millivolts in unsigned arithmetic modulo Wrap (rurp_voltage_math.c), *)
(* refused before it when the calibration cannot be used, and the window   *)
(* the result is held against (mem_util_check_vpp_window).                 *)
(***************************************************************************)
EXTENDS Integers

CONSTANTS
  UintWrap,      \* 2^32
  FullScale,     \* RURP_ADC_FULL_SCALE
  BandgapMin, BandgapMax,
  Saturation,    \* 0xFFFF
  HeadroomPct, HeadroomFloor, LowPct,
  Targets        \* the voltages the frames ask for

ASSUME VoltageAssumption ==
  /\ UintWrap \in Nat /\ FullScale \in Nat /\ FullScale > 1 /\ Saturation \in Nat
  /\ FullScale * FullScale <= UintWrap
  /\ BandgapMin \in Nat \ {0} /\ BandgapMax \in Nat /\ BandgapMin <= BandgapMax
  /\ HeadroomPct \in Nat /\ HeadroomFloor \in Nat /\ LowPct \in 0..100
  /\ Targets \subseteq Nat

VARIABLES
  r1, r2, bandgap,  \* the calibration in rurp_config
  target,           \* handle->vpp_mv
  adc, ref,         \* the divider's count and the bandgap's
  mv, verdict       \* the reading, and what is said of it

given == <<r1, r2, bandgap, target>>
voltageVars == <<r1, r2, bandgap, target, adc, ref, mv, verdict>>

Uint == 0..(UintWrap - 1)
Counts == 0..(FullScale - 1)

-----------------------------------------------------------------------------
Plus(a, b) == (a + b) % UintWrap
Times(a, b) == (a * b) % UintWrap
SumMax == (UintWrap - 1) \div BandgapMax   \* RURP_DIVIDER_SUM_MAX
ScaleMax == (UintWrap - 1) \div FullScale  \* RURP_SCALE_K_MAX

\* Slip: a sum that has wrapped is taken for a small one.
PlausibleWrapped ==
  /\ r2 # 0
  /\ bandgap >= BandgapMin /\ bandgap <= BandgapMax
  /\ Plus(r1, r2) <= SumMax
  /\ Times(bandgap, Plus(r1, r2)) \div r2 <= ScaleMax

(* rurp_calibration_is_plausible *)
Plausible ==
  /\ r2 # 0
  /\ bandgap >= BandgapMin /\ bandgap <= BandgapMax
  /\ Plus(r1, r2) >= r1 /\ Plus(r1, r2) <= SumMax
  /\ Times(bandgap, Plus(r1, r2)) \div r2 <= ScaleMax

Saturated(v) == IF v > Saturation THEN Saturation ELSE v

Factor == Times(bandgap, Plus(r1, r2)) \div r2

(* rurp_scale_voltage_mv, with the plausibility test passed. *)
Scaled(a, b) == IF b = 0 THEN 0 ELSE Saturated(Plus(Times(a, Factor), b \div 2) \div b)

Headroom ==
  LET share == (target * HeadroomPct) \div 100
  IN  IF share < HeadroomFloor THEN HeadroomFloor ELSE share

(* mem_util_check_vpp_window *)
Window(reading) ==
  CASE reading > target + Headroom -> "high"
    [] reading < (target * (100 - LowPct)) \div 100 -> "low"
    [] OTHER -> "ok"

(* eprom_check_vpp, flash_intel_vpp_up, eeprom28c_check_chip_id: the pre-flight, then
   a sample of each channel. *)
Refuse ==
  /\ ~Plausible
  /\ verdict' = "refused" /\ mv' = 0
  /\ UNCHANGED <<given, adc, ref>>

Measure ==
  /\ Plausible
  /\ adc' \in Counts /\ ref' \in Counts
  /\ mv' = Scaled(adc', ref')
  /\ verdict' = Window(mv')
  /\ UNCHANGED given

\* Any calibration, as the unit takes it; the configuration's bands are narrower.
VoltageInit ==
  /\ r1 \in Uint /\ r2 \in Uint /\ bandgap \in 0..(BandgapMax + 1)
  /\ target \in Targets
  /\ adc = 0 /\ ref = 0 /\ mv = 0 /\ verdict = "none"

VoltageNext == Refuse \/ Measure

VoltageSpec == VoltageInit /\ [][VoltageNext]_voltageVars

-----------------------------------------------------------------------------
Measured == verdict \in {"high", "low", "ok"}

(* rurp_voltage_math.h: a calibration that passes the pre-flight is evaluated "without
   any product overflowing uint32".  A reading made is the documented formula's, over
   the integers: no calibration and no counts turn a high rail into a low number. *)
ReadingIsExact ==
  Measured /\ ref # 0 =>
    mv = Saturated((adc * ((bandgap * (r1 + r2)) \div r2) + ref \div 2) \div ref)

\* What the 64-bit form the header compares itself with would read.
Ideal == Saturated((2 * adc * bandgap * (r1 + r2) + r2 * ref) \div (2 * r2 * ref))

(* rurp_voltage_math.h: the folded form only ever under-reads, and "therefore cannot
   suppress a high-side VPP error".  A reading the 64-bit form puts above the limit
   is refused. *)
HighSideErrorKept ==
  Measured /\ ref # 0 /\ Ideal > target + Headroom => verdict = "high"
=================================================================================
