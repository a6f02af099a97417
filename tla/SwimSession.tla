----------------------------- MODULE SwimSession -----------------------------
(***************************************************************************)
(* The probe's SWIM session: what the command loop of main.c, the routines *)
(* of swim_link.c that walk a target through ENTER_SWIM or SET_SPEED, and  *)
(* the session state of swim_phy.c (g_phy, g_debug) keep between and       *)
(* during commands, together with the pads the probe drives and the        *)
(* target on the other end of the wire.                                    *)
(*                                                                         *)
(* The firmware runs one command at a time; a command that talks to the    *)
(* target or sleeps is cut at those points, so that the target can lose    *)
(* power, or a transaction can be lost, between any two steps.  One        *)
(* transaction (ROTF or WOTF of one register) is one step here.            *)
(***************************************************************************)
EXTENDS Naturals, FiniteSets

CONSTANTS
  Pins,           \* pin numbers a host may name in SET_PINS
  Bank0Pins,      \* those below NUM_BANK0_GPIOS: PIO can own them
  DefaultSwim, DefaultNrst,   \* board_rp2040_zero.h
  WiredSwim, WiredNrst,       \* where the target really is
  NoPin,          \* PIO waveform engine not initialised yet
  StallAttempts,  \* retries of swim_link_stall_target
  MaxFaults       \* bound: transactions lost and power cycles per behaviour

ASSUME PinAssumption ==
  /\ Bank0Pins \subseteq Pins /\ NoPin \notin Pins
  /\ {DefaultSwim, DefaultNrst, WiredSwim, WiredNrst} \subseteq Bank0Pins
  /\ WiredSwim # WiredNrst
ASSUME BoundAssumption == StallAttempts \in Nat \ {0} /\ MaxFaults \in Nat

VARIABLES
  cfg,        \* g_phy.swim_pin, g_phy.nrst_pin
  pioPin,     \* g_pio.swim_pin (= g_rx_pin), NoPin until initialised
  pads,       \* pio: pads whose function is PIO; low: SIO output-low pads
  speed,      \* g_phy.speed (g_debug.speed is always assigned with it)
  synced,     \* g_debug.synced
  tswim,      \* where g_debug.derived_tswim_ns comes from
  stage,      \* g_debug.enter_stage
  second,     \* g_debug.second_sync_seen
  csr,        \* g_debug.swim_csr and swim_csr_valid, as far as SWIM_DM
  pc,         \* the point the running command has reached
  attempt,    \* loop counter of swim_link_stall_target
  target,     \* the STM8 (external)
  faults,     \* faults so far, at most MaxFaults
  clean       \* history: no fault since the last ENTER_SWIM or SET_SPEED high
              \* began

vars == <<cfg, pioPin, pads, speed, synced, tswim, stage, second, csr, pc,
          attempt, target, faults, clean>>
link == <<speed, synced, tswim, stage, second, csr>>

Stages == {"IDLE", "RESET_ASSERTED", "CSR_WRITE_START", "CSR_READ_START",
           "CSR_READ_OK", "COMM_RESET_SENT", "DONE", "FAIL"}
EnterPcs == {"enter_entry", "enter_csr_write", "enter_csr_read",
             "enter_release", "enter_resync", "enter_verify",
             "enter_stall_read", "enter_stall_write"}
HighPcs == {"hs_read", "hs_write", "hs_settle"}
Pcs == EnterPcs \cup HighPcs \cup {"idle", "reset_hold", "wave_hold", "debug_hold"}
\* The points at which a command has asserted NRST and not yet released it.
HoldPcs == {"enter_entry", "enter_csr_write", "enter_csr_read",
            "enter_release", "reset_hold", "wave_hold", "debug_hold"}

\* The target: SWIM activated, SWIM_CSR.SWIM_DM and HS, DM_CSR2.STALL.
Off == [active |-> FALSE, dm |-> FALSE, hs |-> FALSE, stalled |-> FALSE]
Targets == [active : BOOLEAN, dm : BOOLEAN, hs : BOOLEAN, stalled : BOOLEAN]

TypeOK ==
  /\ cfg \in [swim : Pins, nrst : Pins]
  /\ pioPin \in Bank0Pins \cup {NoPin}
  /\ pads \in [pio : SUBSET Pins, low : SUBSET Pins]
  /\ speed \in {"LOW", "HIGH"}
  /\ synced \in BOOLEAN
  /\ tswim \in {"none", "nominal", "measured"}
  /\ stage \in Stages
  /\ second \in BOOLEAN
  /\ csr \in {"none", "no_dm", "dm"}
  /\ pc \in Pcs
  /\ attempt \in 0 .. StallAttempts
  /\ target \in Targets
  /\ faults \in 0 .. MaxFaults
  /\ clean \in BOOLEAN

-----------------------------------------------------------------------------
(* Pads.  gpio_init and swim_phy_sio_input both leave a pad an SIO input;  *)
(* the PIO programs always end with the pad released, so a PIO-owned pad   *)
(* is high-Z between steps.                                                *)

GpioInit(pd, S) == [pio |-> pd.pio \ S, low |-> pd.low \ S]
DriveLow(pd, p) == [pio |-> pd.pio \ {p}, low |-> pd.low \cup {p}]
PioTakes(pd, p) == [pd EXCEPT !.pio = @ \cup {p}]

InReset == WiredNrst \in pads.low \ pads.pio

TimingReady == synced /\ tswim # "none"

\* A transaction: PIO takes its own pin, swim_phy_sio_input takes back the
\* configured one.  Nothing is sent before timing_ready.
Transmitted(pd) ==
  IF TimingReady /\ pioPin # NoPin
  THEN GpioInit(PioTakes(pd, pioPin), {cfg.swim}) ELSE pd

(* The target answers a transaction that reaches its pin while SWIM is     *)
(* active.  A read needs the decoder, which refuses any speed but LOW.     *)
WriteUp == TimingReady /\ pioPin = WiredSwim /\ target.active /\ ~target.hs
ReadUp == WriteUp /\ speed = "LOW"

\* A transaction fails because nobody answers, because its timing was only
\* guessed, or because of a fault on the line.
Fails(up) ==
  \/ /\ ~up \/ tswim = "nominal"
     /\ UNCHANGED <<faults, clean>>
  \/ /\ up /\ faults < MaxFaults
     /\ faults' = faults + 1
     /\ clean' = FALSE

\* The register write of a failed WOTF may have happened: the lost answer
\* can be the last one.
MayHaveWritten(new) == target' \in (IF WriteUp THEN {target, new} ELSE {target})

\* NRST low resets the target when it is the wired pin.
Asserted(t) == IF cfg.nrst = WiredNrst THEN Off ELSE t

-----------------------------------------------------------------------------
Init ==
  /\ cfg = [swim |-> DefaultSwim, nrst |-> DefaultNrst]
  /\ pioPin = NoPin
  /\ pads = [pio |-> {}, low |-> {}]
  /\ speed = "LOW" /\ synced = FALSE /\ tswim = "none"
  /\ stage = "IDLE" /\ second = FALSE /\ csr = "none"
  /\ pc = "idle" /\ attempt = 0
  /\ target = Off
  /\ faults = 0 /\ clean = TRUE

(* SET_PINS: swim_phy_set_pins and swim_phy_init.  The PIO engine, if it   *)
(* is initialised, is not told.                                            *)
SetPins(s, n) ==
  /\ pc = "idle"
  /\ cfg' = [swim |-> s, nrst |-> n]
  /\ pads' = GpioInit(pads, {s, n})
  /\ speed' = "LOW"
  /\ UNCHANGED <<pioPin, synced, tswim, stage, second, csr, pc, attempt,
                 target, faults, clean>>

\* RELEASE_TARGET: both configured pins passive, timing forgotten.
ReleaseTarget ==
  /\ pc = "idle"
  /\ pads' = GpioInit(pads, {cfg.swim, cfg.nrst})
  /\ synced' = FALSE
  /\ UNCHANGED <<cfg, pioPin, speed, tswim, stage, second, csr, pc, attempt,
                 target, faults, clean>>

\* RESET_TARGET: NRST low for 20 ms, then as RELEASE_TARGET.
ResetTarget ==
  /\ pc = "idle"
  /\ pads' = DriveLow(GpioInit(pads, {cfg.swim}), cfg.nrst)
  /\ target' = Asserted(target)
  /\ pc' = "reset_hold"
  /\ UNCHANGED <<cfg, pioPin, link, attempt, faults, clean>>

ResetTargetEnd ==
  /\ pc = "reset_hold"
  /\ pads' = GpioInit(pads, {cfg.swim, cfg.nrst})
  /\ synced' = FALSE
  /\ pc' = "idle"
  /\ UNCHANGED <<cfg, pioPin, speed, tswim, stage, second, csr, attempt,
                 target, faults, clean>>

-----------------------------------------------------------------------------
(* Emitting the entry sequence.  The first use initialises the PIO engine  *)
(* on the configured pin if PIO can own it; otherwise C bit-bangs.         *)

PinAfterInit == IF pioPin = NoPin /\ cfg.swim \in Bank0Pins
                THEN cfg.swim ELSE pioPin

EntryPads ==
  IF PinAfterInit = NoPin THEN GpioInit(pads, {cfg.swim})
  ELSE PioTakes(IF pioPin = NoPin THEN GpioInit(pads, {cfg.swim}) ELSE pads,
                PinAfterInit)

\* A target that sees the sequence may turn SWIM on.
EntryPin == IF PinAfterInit = NoPin THEN cfg.swim ELSE PinAfterInit
Activated == [target EXCEPT !.active = TRUE]
MayActivate ==
  target' \in (IF EntryPin = WiredSwim THEN {target, Activated} ELSE {target})

(* ENTRY_WAVEFORM: the entry sequence alone, between two NRST edges.       *)
EntryWaveform ==
  /\ pc = "idle"
  /\ synced' = FALSE /\ tswim' = "none" /\ stage' = "IDLE"
  /\ second' = FALSE /\ csr' = "none"
  /\ pads' = DriveLow(GpioInit(pads, {cfg.swim}), cfg.nrst)
  /\ target' = Asserted(target)
  /\ pc' = "wave_hold"
  /\ UNCHANGED <<cfg, pioPin, speed, attempt, faults, clean>>

EntryWaveformEnd ==
  /\ pc = "wave_hold"
  /\ pioPin' = PinAfterInit
  /\ pads' = GpioInit(EntryPads, {cfg.swim, cfg.nrst})
  /\ MayActivate
  /\ pc' = "idle"
  /\ UNCHANGED <<cfg, link, attempt, faults, clean>>

(* DEBUG_WAVEFORM: the entry sequence, then a communication reset and bits *)
(* clocked with an assumed 125 ns Tswim that stays behind in g_debug.      *)
DebugWaveform ==
  /\ pc = "idle"
  /\ synced' = FALSE /\ tswim' = "none" /\ stage' = "IDLE"
  /\ second' = FALSE /\ csr' = "none"
  /\ pads' = DriveLow(pads, cfg.nrst)
  /\ target' = Asserted(target)
  /\ pc' = "debug_hold"
  /\ UNCHANGED <<cfg, pioPin, speed, attempt, faults, clean>>

DebugWaveformEnd ==
  /\ pc = "debug_hold"
  /\ pioPin' = PinAfterInit
  /\ pads' = GpioInit(EntryPads, {cfg.swim, cfg.nrst})
  /\ synced' = TRUE /\ tswim' = "nominal"
  /\ MayActivate
  /\ pc' = "idle"
  /\ UNCHANGED <<cfg, speed, stage, second, csr, attempt, faults, clean>>

-----------------------------------------------------------------------------
(* Mutants are defined next to what they mutate: the bugs the properties    *)
(* are known to catch.                                                     *)

(* ENTER_SWIM: swim_link_enter, cut at its sleeps and transactions.  Of    *)
(* the stages it sets one after the other without doing anything between,  *)
(* only the last is kept.                                                  *)

\* Mutant: NRST is never asserted.
MutEnterNoReset ==
  /\ pc = "idle"
  /\ synced' = FALSE /\ tswim' = "none" /\ second' = FALSE /\ csr' = "none"
  /\ speed' = "LOW" /\ pads' = GpioInit(pads, {cfg.swim})
  /\ stage' = "RESET_ASSERTED" /\ attempt' = 0 /\ clean' = TRUE
  /\ pc' = "enter_entry"
  /\ UNCHANGED <<cfg, pioPin, target, faults>>

EnterSwim ==
  /\ pc = "idle"
  /\ synced' = FALSE /\ tswim' = "none" /\ second' = FALSE /\ csr' = "none"
  /\ speed' = "LOW"
  /\ pads' = DriveLow(GpioInit(pads, {cfg.swim}), cfg.nrst)
  /\ target' = Asserted(target)
  /\ stage' = "RESET_ASSERTED"
  /\ attempt' = 0
  /\ clean' = TRUE
  /\ pc' = "enter_entry"
  /\ UNCHANGED <<cfg, pioPin, faults>>

\* Mutant: the exits forget NRST.
MutEnterFailsInReset(pd) ==
  pads' = GpioInit(pd, {cfg.swim}) /\ stage' = "FAIL" /\ pc' = "idle"

\* The failure exits of swim_link_enter: stage FAIL, both pins passive.  The
\* timing it has measured stays.
EnterFails(pd) ==
  /\ pads' = GpioInit(pd, {cfg.swim, cfg.nrst})
  /\ stage' = "FAIL"
  /\ pc' = "idle"

\* record_sync_measurement_ns
RecordSync == synced' = TRUE /\ tswim' = "measured" /\ speed' = "LOW"

EnterSynced ==
  /\ pc = "enter_entry"
  /\ PinAfterInit = WiredSwim
  /\ pioPin' = PinAfterInit
  /\ pads' = EntryPads
  /\ target' = Activated
  /\ RecordSync
  /\ stage' = "CSR_WRITE_START"
  /\ pc' = "enter_csr_write"
  /\ UNCHANGED <<cfg, second, csr, attempt, faults, clean>>

\* No sync pulse of 8 to 300 us within 20 ms, or no PIO to see one with.
EnterNoSync ==
  /\ pc = "enter_entry"
  /\ \/ ~(PinAfterInit = WiredSwim /\ InReset) /\ UNCHANGED <<faults, clean>>
     \/ faults < MaxFaults /\ faults' = faults + 1 /\ clean' = FALSE
  /\ pioPin' = PinAfterInit
  /\ MayActivate
  /\ EnterFails(EntryPads)
  /\ UNCHANGED <<cfg, speed, synced, tswim, second, csr, attempt>>

\* SWIM_CSR := SAFE_MASK | SWIM_DM, NRST still low.  A target may acknowledge
\* the byte and not take it: that is what the read-back is for.
EnterCsrWritten ==
  /\ pc = "enter_csr_write" /\ WriteUp
  /\ \/ target' = [target EXCEPT !.dm = TRUE] /\ UNCHANGED <<faults, clean>>
     \/ /\ UNCHANGED target /\ faults < MaxFaults
        /\ faults' = faults + 1 /\ clean' = FALSE
  /\ pads' = Transmitted(pads)
  /\ stage' = "CSR_READ_START"
  /\ pc' = "enter_csr_read"
  /\ UNCHANGED <<cfg, pioPin, speed, synced, tswim, second, csr, attempt>>

EnterCsrWriteFails ==
  /\ pc = "enter_csr_write" /\ Fails(WriteUp)
  /\ MayHaveWritten([target EXCEPT !.dm = TRUE])
  /\ EnterFails(Transmitted(pads))
  /\ UNCHANGED <<cfg, pioPin, speed, synced, tswim, second, csr, attempt>>

\* Mutant: the value read back is not looked at.
MutEnterCsrReadUnchecked ==
  /\ pc \in {"enter_csr_read", "enter_verify"} /\ ReadUp
  /\ csr' = IF target.dm THEN "dm" ELSE "no_dm"
  /\ pads' = Transmitted(pads)
  /\ stage' = "CSR_READ_OK"
  /\ pc' = IF pc = "enter_verify" THEN "enter_stall_read" ELSE "enter_release"
  /\ UNCHANGED <<cfg, pioPin, speed, synced, tswim, second, attempt, target,
                 faults, clean>>

\* swim_link_handle_swim_csr reads SWIM_CSR back after the write and again
\* after the second sync; either time SWIM_DM must be set.
EnterCsrRead ==
  /\ pc \in {"enter_csr_read", "enter_verify"} /\ ReadUp
  /\ csr' = IF target.dm THEN "dm" ELSE "no_dm"
  /\ IF target.dm
     THEN /\ pads' = Transmitted(pads)
          /\ stage' = "CSR_READ_OK"
          /\ pc' = IF pc = "enter_verify" THEN "enter_stall_read"
                                          ELSE "enter_release"
     ELSE EnterFails(Transmitted(pads))
  /\ UNCHANGED <<cfg, pioPin, speed, synced, tswim, second, attempt, target,
                 faults, clean>>

EnterCsrReadFails ==
  /\ pc \in {"enter_csr_read", "enter_verify"} /\ Fails(ReadUp)
  /\ csr' = "none"
  /\ EnterFails(Transmitted(pads))
  /\ UNCHANGED <<cfg, pioPin, speed, synced, tswim, second, attempt, target>>

\* Mutant: NRST stays low.
MutEnterReleaseForgotten ==
  /\ pc = "enter_release"
  /\ stage' = "COMM_RESET_SENT" /\ pc' = "enter_resync"
  /\ UNCHANGED <<cfg, pioPin, pads, speed, synced, tswim, second, csr, attempt,
                 target, faults, clean>>

\* swim_link_release_reset_and_resync, up to the 1 ms for option loading.
EnterRelease ==
  /\ pc = "enter_release"
  /\ pads' = GpioInit(pads, {cfg.nrst})
  /\ stage' = "COMM_RESET_SENT"
  /\ pc' = "enter_resync"
  /\ UNCHANGED <<cfg, pioPin, speed, synced, tswim, second, csr, attempt,
                 target, faults, clean>>

\* A communication reset is answered by any active target, whatever its
\* speed, and may return it to low speed.
ResyncUp == TimingReady /\ pioPin = WiredSwim /\ target.active
SlowedTargets == {target, [target EXCEPT !.hs = FALSE]}
ResyncPads == IF pioPin = NoPin THEN pads ELSE PioTakes(pads, pioPin)

EnterResynced ==
  /\ pc = "enter_resync" /\ ResyncUp
  /\ pads' = ResyncPads
  /\ RecordSync
  /\ target' \in SlowedTargets
  /\ second' = TRUE
  /\ stage' = "CSR_READ_START"
  /\ pc' = "enter_verify"
  /\ UNCHANGED <<cfg, pioPin, csr, attempt, faults, clean>>

EnterResyncFails ==
  /\ pc = "enter_resync" /\ Fails(ResyncUp)
  /\ EnterFails(ResyncPads)
  /\ UNCHANGED <<cfg, pioPin, speed, synced, tswim, second, csr, attempt,
                 target>>

(* swim_link_stall_target: read DM_CSR2, set STALL, write it back; a       *)
(* failure of either starts over, StallAttempts times.                     *)
EnterStallRead ==
  /\ pc = "enter_stall_read" /\ ReadUp
  /\ pads' = Transmitted(pads)
  /\ pc' = "enter_stall_write"
  /\ UNCHANGED <<cfg, pioPin, link, attempt, target, faults, clean>>

EnterStalled ==
  /\ pc = "enter_stall_write" /\ WriteUp
  /\ target' = [target EXCEPT !.stalled = TRUE]
  /\ pads' = Transmitted(pads)
  /\ stage' = "DONE"
  /\ pc' = "idle"
  /\ UNCHANGED <<cfg, pioPin, speed, synced, tswim, second, csr, attempt,
                 faults, clean>>

\* Mutants: the loop does not stop; the loop does not count.
MutStallNoLimit(pd) ==
  attempt' = attempt + 1 /\ pads' = pd /\ pc' = "enter_stall_read"
  /\ UNCHANGED stage
MutStallNoCount(pd) ==
  UNCHANGED <<attempt, stage>> /\ pads' = pd /\ pc' = "enter_stall_read"

StallFails(pd) ==
  /\ attempt' = attempt + 1
  /\ IF attempt' < StallAttempts
     THEN pads' = pd /\ pc' = "enter_stall_read" /\ UNCHANGED stage
     ELSE EnterFails(pd)

EnterStallFails ==
  /\ \/ pc = "enter_stall_read" /\ Fails(ReadUp) /\ UNCHANGED target
     \/ /\ pc = "enter_stall_write" /\ Fails(WriteUp)
        /\ MayHaveWritten([target EXCEPT !.stalled = TRUE])
  /\ StallFails(Transmitted(pads))
  /\ UNCHANGED <<cfg, pioPin, speed, synced, tswim, second, csr>>

-----------------------------------------------------------------------------
(* SET_SPEED.  Low is local; high is negotiated at low speed and adopted   *)
(* 20 us after the target has acknowledged it.  The negotiation begins by  *)
(* falling back to low speed, whatever speed the target is at.             *)

SetSpeedLow ==
  /\ pc = "idle"
  /\ speed' = "LOW"
  /\ UNCHANGED <<cfg, pioPin, pads, synced, tswim, stage, second, csr, pc,
                 attempt, target, faults, clean>>

\* Mutant: the local speed is switched before the target is asked.
MutSetSpeedHighEarly ==
  /\ pc = "idle" /\ speed' = "HIGH" /\ pc' = "hs_read" /\ clean' = TRUE
  /\ UNCHANGED <<cfg, pioPin, pads, synced, tswim, stage, second, csr,
                 attempt, target, faults>>

SetSpeedHigh ==
  /\ pc = "idle"
  /\ speed' = "LOW"
  /\ clean' = TRUE
  /\ pc' = "hs_read"
  /\ UNCHANGED <<cfg, pioPin, pads, synced, tswim, stage, second, csr,
                 attempt, target, faults>>

\* HSIT says whether option loading has finished; the target may say no.
HighSpeedCsrRead ==
  /\ pc = "hs_read" /\ ReadUp
  /\ pads' = Transmitted(pads)
  /\ \E hsit \in BOOLEAN :
       /\ pc' = IF hsit THEN "hs_write" ELSE "idle"
       /\ csr' = IF hsit THEN csr ELSE IF target.dm THEN "dm" ELSE "no_dm"
  /\ UNCHANGED <<cfg, pioPin, speed, synced, tswim, stage, second, attempt,
                 target, faults, clean>>

HighSpeedOn == [target EXCEPT !.dm = TRUE, !.hs = TRUE]

HighSpeedCsrWritten ==
  /\ pc = "hs_write" /\ WriteUp
  /\ target' = HighSpeedOn
  /\ pads' = Transmitted(pads)
  /\ pc' = "hs_settle"
  /\ UNCHANGED <<cfg, pioPin, link, attempt, faults, clean>>

\* After the pause.  swim_phy_set_speed asks for timing_ready, which the two
\* transactions before needed too.
HighSpeedAdopted ==
  /\ pc = "hs_settle"
  /\ csr' = "dm"
  /\ speed' = IF TimingReady THEN "HIGH" ELSE speed
  /\ pc' = "idle"
  /\ UNCHANGED <<cfg, pioPin, pads, synced, tswim, stage, second, attempt,
                 target, faults, clean>>

HighSpeedFails ==
  /\ \/ pc = "hs_read" /\ Fails(ReadUp) /\ UNCHANGED target
     \/ pc = "hs_write" /\ Fails(WriteUp) /\ MayHaveWritten(HighSpeedOn)
  /\ pads' = Transmitted(pads)
  /\ pc' = "idle"
  /\ UNCHANGED <<cfg, pioPin, link, attempt>>

-----------------------------------------------------------------------------
(* The commands that use a session (reads, writes, flash programming):     *)
(* their effect on it.  A host write may change SWIM_CSR or DM_CSR2.       *)

MemoryAccess ==
  /\ pc = "idle" /\ TimingReady
  /\ \/ WriteUp /\ target' \in {t \in Targets : t.active}
     \/ UNCHANGED target
  /\ pads' = Transmitted(pads)
  /\ UNCHANGED <<cfg, pioPin, link, pc, attempt, faults, clean>>

\* stm8_flash.c resynchronises between a trigger and the polls for its end;
\* the read that precedes it needs the session, the one that follows leaves
\* the pad to SIO.
FlashResync ==
  /\ pc = "idle" /\ ReadUp
  /\ RecordSync
  /\ target' \in SlowedTargets
  /\ pads' = Transmitted(pads)
  /\ UNCHANGED <<cfg, pioPin, stage, second, csr, pc, attempt, faults, clean>>

\* The target loses power at any point and boots without SWIM.
PowerCycle ==
  /\ faults < MaxFaults
  /\ faults' = faults + 1
  /\ clean' = FALSE
  /\ target' = Off
  /\ UNCHANGED <<cfg, pioPin, pads, link, pc, attempt>>

Command ==
  \/ \E s, n \in Pins : SetPins(s, n)
  \/ ReleaseTarget \/ ResetTarget \/ EntryWaveform \/ DebugWaveform
  \/ EnterSwim \/ SetSpeedLow \/ SetSpeedHigh \/ MemoryAccess \/ FlashResync

\* What a command still has to do once it has begun.
Proceed ==
  \/ ResetTargetEnd \/ EntryWaveformEnd \/ DebugWaveformEnd
  \/ EnterSynced \/ EnterNoSync
  \/ EnterCsrWritten \/ EnterCsrWriteFails \/ EnterCsrRead \/ EnterCsrReadFails
  \/ EnterRelease \/ EnterResynced \/ EnterResyncFails
  \/ EnterStallRead \/ EnterStalled \/ EnterStallFails
  \/ HighSpeedCsrRead \/ HighSpeedCsrWritten \/ HighSpeedAdopted
  \/ HighSpeedFails

Next == Command \/ Proceed \/ PowerCycle

\* The command loop never waits for anything but the step it is at: every
\* wait of the firmware has a deadline (weak fairness of Proceed).
Spec == Init /\ [][Next]_vars
FairSpec == Spec /\ WF_vars(Proceed)

-----------------------------------------------------------------------------
(* Properties.                                                             *)

\* Whatever a command did, and wherever it failed, the probe drives no pin
\* low once it has answered: neither a configured one nor one that was
\* configured before (the failure exits of swim_link_enter, main.c 63-73).
LinesReleased == pc = "idle" => pads.low = {}

\* The debug module is touched only with NRST released and after the second
\* sync has been measured (swim_link_enter: 0xA0 under reset, release,
\* communication reset, then the DM accesses).
DebugModuleAfterResync ==
  pc \in {"enter_verify", "enter_stall_read", "enter_stall_write"} =>
    second /\ synced /\ tswim = "measured" /\ pads.low = {}

\* "ENTER_SWIM complete only after the debug module accepts STALL": when the
\* stage becomes DONE the target really is in SWIM with DM access, stalled,
\* out of reset and calibrated after reset, even if it lost power halfway.
EnterOkMeansStalled ==
  [][stage' = "DONE" /\ stage # "DONE" =>
       /\ target' = [active |-> TRUE, dm |-> TRUE, hs |-> FALSE,
                     stalled |-> TRUE]
       /\ second' /\ csr' = "dm" /\ tswim' = "measured" /\ pads'.low = {}]_vars

\* ENTER_SWIM recovers from everything earlier commands left behind (guessed
\* timing, a high-speed target, a half-finished entry): if nothing fails
\* during it, and pins and PIO engine are on the wired pins, it succeeds.
EnterRecovers ==
  [][/\ pc \in EnterPcs /\ pc' = "idle" /\ clean'
     /\ cfg = [swim |-> WiredSwim, nrst |-> WiredNrst] /\ pioPin' = WiredSwim
     => stage' = "DONE"]_vars

\* A probe that may transmit with a measured clock at high speed talks to a
\* target at high speed: RESET_TARGET, the waveforms and RELEASE_TARGET, which
\* slow the target down and keep the speed, forget the timing.
HighTogether ==
  pc = "idle" /\ TimingReady /\ tswim = "measured" /\ speed = "HIGH" /\ clean
    => target.hs

\* However SET_SPEED high ends (refused by HSIT, failed at either register,
\* done), both ends are then at the same speed, and a probe at high speed
\* stays with its target.  Excused are a fault since the command began, a
\* guessed clock, and a target that was at high speed already: the probe falls
\* back to low speed before it asks, is not understood, and only ENTER_SWIM
\* brings the two together again (EnterRecovers).
SpeedsAgree ==
  /\ []HighTogether
  /\ [][/\ pc \in HighPcs /\ pc' = "idle" /\ clean' /\ tswim # "nominal"
         /\ ~(pc = "hs_read" /\ target.hs)
         => ((speed' = "HIGH") <=> target'.hs)]_vars

\* Every command ends, whatever the target does or fails to do.
CommandsFinish == pc # "idle" ~> pc = "idle"

(* The inductive invariant behind them: what the running command has       *)
(* established at each point, whatever the earlier ones left behind.       *)

\* Only the configured NRST is ever held low, and only while a command that
\* has asserted it has not released it.
OnlyResetLow == pads.low \subseteq (IF pc \in HoldPcs THEN {cfg.nrst} ELSE {})

AfterSyncPcs == EnterPcs \ {"enter_entry"}
AfterReadPcs == {"enter_release", "enter_resync", "enter_verify",
                 "enter_stall_read", "enter_stall_write"}
StallPcs == {"enter_stall_read", "enter_stall_write"}

EnterProgress ==
  /\ pc \in EnterPcs => stage # "DONE" /\ attempt < StallAttempts
  /\ pc \in AfterSyncPcs => TimingReady /\ tswim = "measured" /\ speed = "LOW"
  /\ pc \in AfterReadPcs => csr = "dm" /\ (target.active => target.dm)
  /\ pc \in StallPcs \cup {"enter_verify"} => second

\* With the pins where the target is and no fault since ENTER_SWIM began, the
\* target is exactly where the command believes it to be.
WiredEntry == /\ pc \in EnterPcs /\ clean
              /\ cfg = [swim |-> WiredSwim, nrst |-> WiredNrst]
              /\ pioPin \in {NoPin, WiredSwim}
CleanEntry ==
  WiredEntry =>
    /\ pc = "enter_entry" => InReset /\ target = Off
    /\ pc \in AfterSyncPcs =>
         pioPin = WiredSwim /\ target.active /\ ~target.hs
    /\ pc = "enter_csr_read" => target.dm

\* Where SET_SPEED high has come to, and why the other commands that take
\* time cannot end with a probe at high speed that may transmit.
HighProgress ==
  /\ pc \in EnterPcs \cup HighPcs => speed = "LOW"
  /\ pc = "wave_hold" => ~synced
  /\ pc = "hs_write" /\ clean => WriteUp
  /\ pc = "hs_settle" => TimingReady /\ (clean => target.hs)
  /\ HighTogether

\* Inductive: what every point of every command may rely on.
IInv == TypeOK /\ OnlyResetLow /\ EnterProgress /\ CleanEntry /\ HighProgress

(* What documents, comments and tests say, and the code does not do.       *)

\* swim_phy_write_bit: timing is derived from the synchronization frame; "do
\* not guess if no target has been measured".
ReadyMeansMeasured == pc = "idle" /\ TimingReady => tswim = "measured"

\* swim_phy_release_target: after it "SWIM is no longer owned by PIO".
ReleaseReturnsPin == [][ReleaseTarget => pads'.pio = {}]_vars
=============================================================================
