-------------------------- MODULE SwimSession_proofs --------------------------
(***************************************************************************)
(* Theorems about SwimSession, for any set of pins, wiring, number of      *)
(* retries and number of faults.  All of them follow from one inductive    *)
(* invariant, IInv: what the running command has established at the point  *)
(* it has reached.                                                         *)
(***************************************************************************)
EXTENDS SwimSession, TLAPS

-----------------------------------------------------------------------------
(* Pads.                                                                   *)

PadSet == [pio : SUBSET Pins, low : SUBSET Pins]

\* No operation on the pads but DriveLow adds a pad that is driven low.
LEMMA PadsFacts ==
  ASSUME NEW pd \in PadSet,
         NEW S \in SUBSET Pins, NEW p \in Pins
  PROVE  /\ GpioInit(pd, S) \in PadSet
         /\ GpioInit(pd, S).low = pd.low \ S
         /\ PioTakes(pd, p) \in PadSet
         /\ PioTakes(pd, p).low = pd.low
         /\ DriveLow(pd, p) \in PadSet
         /\ DriveLow(pd, p).low = pd.low \cup {p}
         /\ p \notin DriveLow(pd, p).pio
  BY DEF GpioInit, PioTakes, DriveLow, PadSet

\* What the compound pad operations make of the pads, under the type
\* invariant: they stay well-formed and nothing new is driven low.
LEMMA PadsStep ==
  ASSUME TypeOK
  PROVE  /\ Transmitted(pads) \in PadSet
         /\ Transmitted(pads).low \subseteq pads.low
         /\ EntryPads \in PadSet
         /\ EntryPads.low \subseteq pads.low
         /\ ResyncPads \in PadSet
         /\ ResyncPads.low = pads.low
         /\ PinAfterInit \in Bank0Pins \cup {NoPin}
<1> USE DEF PadSet
<1>1. /\ pads \in PadSet /\ cfg.swim \in Pins /\ cfg.nrst \in Pins
      /\ pioPin \in Bank0Pins \cup {NoPin} /\ Bank0Pins \subseteq Pins
  BY PinAssumption DEF TypeOK
<1>2. PinAfterInit \in Bank0Pins \cup {NoPin}
  BY <1>1 DEF PinAfterInit
<1>3. Transmitted(pads) \in PadSet /\ Transmitted(pads).low \subseteq pads.low
  <2>1. CASE TimingReady /\ pioPin # NoPin
    <3>1. pioPin \in Pins /\ {cfg.swim} \in SUBSET Pins
      BY <1>1, <2>1
    <3>2. PioTakes(pads, pioPin) \in PadSet /\ PioTakes(pads, pioPin).low = pads.low
      BY <1>1, <3>1, PadsFacts
    <3>3. Transmitted(pads) = GpioInit(PioTakes(pads, pioPin), {cfg.swim})
      BY <2>1 DEF Transmitted
    <3> HIDE DEF PadSet
    <3> QED BY <3>1, <3>2, <3>3, PadsFacts
  <2>2. CASE ~(TimingReady /\ pioPin # NoPin)
    BY <1>1, <2>2 DEF Transmitted
  <2> QED BY <2>1, <2>2
<1>4. EntryPads \in PadSet /\ EntryPads.low \subseteq pads.low
  <2>1. {cfg.swim} \in SUBSET Pins
    BY <1>1
  <2>2. /\ GpioInit(pads, {cfg.swim}) \in PadSet
        /\ GpioInit(pads, {cfg.swim}).low \subseteq pads.low
    BY <1>1, <2>1, PadsFacts
  <2>3. CASE PinAfterInit = NoPin
    BY <2>2, <2>3 DEF EntryPads
  <2>4. CASE PinAfterInit # NoPin
    <3>1. PinAfterInit \in Pins
      BY <1>1, <1>2, <2>4
    <3> DEFINE base == IF pioPin = NoPin THEN GpioInit(pads, {cfg.swim}) ELSE pads
    <3>2. base \in PadSet /\ base.low \subseteq pads.low
      BY <1>1, <2>2
    <3>3. EntryPads = PioTakes(base, PinAfterInit)
      BY <2>4 DEF EntryPads
    <3> HIDE DEF base
    <3> QED BY <3>1, <3>2, <3>3, PadsFacts
  <2> QED BY <2>3, <2>4
<1>5. ResyncPads \in PadSet /\ ResyncPads.low = pads.low
  <2>1. CASE pioPin = NoPin
    BY <1>1, <2>1 DEF ResyncPads
  <2>2. CASE pioPin # NoPin
    BY <1>1, <2>2, PadsFacts DEF ResyncPads
  <2> QED BY <2>1, <2>2
<1> QED BY <1>2, <1>3, <1>4, <1>5

-----------------------------------------------------------------------------
(* The steps, one conjunct of the invariant at a time.                     *)

LEMMA InitIInv == Init => IInv
<1> SUFFICES ASSUME Init PROVE IInv
  OBVIOUS
<1>1. TypeOK
  <2>1. /\ DefaultSwim \in Pins /\ DefaultNrst \in Pins
        /\ 0 \in 0 .. StallAttempts /\ 0 \in 0 .. MaxFaults
    BY PinAssumption, BoundAssumption
  <2> QED BY <2>1 DEF Init, TypeOK, Pcs, Stages, Off, Targets
<1>2. OnlyResetLow
  BY DEF Init, OnlyResetLow
<1>3. EnterProgress /\ CleanEntry
  BY DEF Init, EnterProgress, CleanEntry, WiredEntry, EnterPcs, AfterSyncPcs,
         AfterReadPcs, StallPcs
<1>4. HighProgress
  BY DEF Init, HighProgress, HighTogether, HighPcs, EnterPcs
<1> QED BY <1>1, <1>2, <1>3, <1>4 DEF IInv

\* Every step leaves the pads well-formed, and leaves only the configured NRST
\* low, only where a command holds it.
LEMMA PadsNext ==
  ASSUME TypeOK, OnlyResetLow, [Next]_vars
  PROVE  pads' \in PadSet /\ OnlyResetLow'
<1>a. pads \in PadSet /\ cfg.swim \in Pins /\ cfg.nrst \in Pins
  BY DEF TypeOK, PadSet
<1>b. /\ Transmitted(pads) \in PadSet /\ Transmitted(pads).low \subseteq pads.low
      /\ EntryPads \in PadSet /\ EntryPads.low \subseteq pads.low
      /\ ResyncPads \in PadSet /\ ResyncPads.low = pads.low
  BY PadsStep DEF PadSet
<1>c. \A pd \in PadSet :
        /\ GpioInit(pd, {cfg.swim}) \in PadSet
        /\ GpioInit(pd, {cfg.swim}).low \subseteq pd.low
        /\ GpioInit(pd, {cfg.nrst}) \in PadSet
        /\ GpioInit(pd, {cfg.nrst}).low = pd.low \ {cfg.nrst}
        /\ GpioInit(pd, {cfg.swim, cfg.nrst}) \in PadSet
        /\ pd.low \subseteq {cfg.nrst} =>
             GpioInit(pd, {cfg.swim, cfg.nrst}).low = {}
  BY <1>a DEF GpioInit, PadSet
<1>d. \A pd \in PadSet :
        /\ DriveLow(pd, cfg.nrst) \in PadSet
        /\ DriveLow(pd, cfg.nrst).low = pd.low \cup {cfg.nrst}
  BY <1>a, PadsFacts DEF PadSet
<1>e. \A s, n \in Pins : /\ GpioInit(pads, {s, n}) \in PadSet
                         /\ GpioInit(pads, {s, n}).low \subseteq pads.low
  BY <1>a DEF GpioInit, PadSet
<1>f. pads.low \subseteq {cfg.nrst} /\ (pc \notin HoldPcs => pads.low = {})
  BY DEF OnlyResetLow
<1>g. ASSUME pads' \in PadSet, cfg' = cfg, pads'.low \subseteq {cfg.nrst},
             pc' \notin HoldPcs => pads'.low = {}
      PROVE  pads' \in PadSet /\ OnlyResetLow'
  BY <1>g DEF OnlyResetLow
<1>1. CASE \E s, n \in Pins : SetPins(s, n)
  BY <1>1, <1>a, <1>e, <1>f
  DEF SetPins, HoldPcs, OnlyResetLow
<1>2. CASE ReleaseTarget
  BY <1>2, <1>a, <1>b, <1>c, <1>d, <1>f, <1>g
  DEF ReleaseTarget, HoldPcs
<1>3. CASE ResetTarget
  <2>1. /\ pads' = DriveLow(GpioInit(pads, {cfg.swim}), cfg.nrst)
        /\ cfg' = cfg /\ pc' \in HoldPcs
    BY <1>3 DEF ResetTarget, HoldPcs
  <2>2. GpioInit(pads, {cfg.swim}) \in PadSet
        /\ GpioInit(pads, {cfg.swim}).low \subseteq {cfg.nrst}
    BY <1>a, <1>c, <1>f
  <2>3. pads' \in PadSet /\ pads'.low \subseteq {cfg.nrst}
    BY <2>1, <2>2, <1>d
  <2> QED BY <2>1, <2>3, <1>g
<1>4. CASE ResetTargetEnd
  BY <1>4, <1>a, <1>b, <1>c, <1>d, <1>f, <1>g
  DEF ResetTargetEnd, HoldPcs
<1>5. CASE EntryWaveform
  <2>1. /\ pads' = DriveLow(GpioInit(pads, {cfg.swim}), cfg.nrst)
        /\ cfg' = cfg /\ pc' \in HoldPcs
    BY <1>5 DEF EntryWaveform, HoldPcs
  <2>2. GpioInit(pads, {cfg.swim}) \in PadSet
        /\ GpioInit(pads, {cfg.swim}).low \subseteq {cfg.nrst}
    BY <1>a, <1>c, <1>f
  <2>3. pads' \in PadSet /\ pads'.low \subseteq {cfg.nrst}
    BY <2>1, <2>2, <1>d
  <2> QED BY <2>1, <2>3, <1>g
<1>6. CASE EntryWaveformEnd
  BY <1>6, <1>a, <1>b, <1>c, <1>d, <1>f, <1>g
  DEF EntryWaveformEnd, HoldPcs
<1>7. CASE DebugWaveform
  BY <1>7, <1>a, <1>b, <1>c, <1>d, <1>f, <1>g
  DEF DebugWaveform, HoldPcs
<1>8. CASE DebugWaveformEnd
  BY <1>8, <1>a, <1>b, <1>c, <1>d, <1>f, <1>g
  DEF DebugWaveformEnd, HoldPcs
<1>9. CASE EnterSwim
  <2>1. /\ pads' = DriveLow(GpioInit(pads, {cfg.swim}), cfg.nrst)
        /\ cfg' = cfg /\ pc' \in HoldPcs
    BY <1>9 DEF EnterSwim, HoldPcs
  <2>2. GpioInit(pads, {cfg.swim}) \in PadSet
        /\ GpioInit(pads, {cfg.swim}).low \subseteq {cfg.nrst}
    BY <1>a, <1>c, <1>f
  <2>3. pads' \in PadSet /\ pads'.low \subseteq {cfg.nrst}
    BY <2>1, <2>2, <1>d
  <2> QED BY <2>1, <2>3, <1>g
<1>10. CASE EnterSynced
  BY <1>10, <1>a, <1>b, <1>c, <1>d, <1>f, <1>g
  DEF EnterSynced, HoldPcs
<1>11. CASE EnterNoSync
  BY <1>11, <1>a, <1>b, <1>c, <1>d, <1>f, <1>g
  DEF EnterNoSync, EnterFails, HoldPcs
<1>12. CASE EnterCsrWritten
  BY <1>12, <1>a, <1>b, <1>c, <1>d, <1>f, <1>g
  DEF EnterCsrWritten, HoldPcs
<1>13. CASE EnterCsrWriteFails
  BY <1>13, <1>a, <1>b, <1>c, <1>d, <1>f, <1>g
  DEF EnterCsrWriteFails, EnterFails, HoldPcs
<1>14. CASE EnterCsrRead
  <2>1. CASE target.dm
    <3>1. /\ pads' = Transmitted(pads) /\ cfg' = cfg
          /\ pc = "enter_verify" => pc' = "enter_stall_read"
          /\ pc # "enter_verify" => pc = "enter_csr_read" /\ pc' = "enter_release"
      BY <1>14, <2>1 DEF EnterCsrRead
    <3> QED BY <3>1, <1>b, <1>f, <1>g DEF HoldPcs
  <2>2. CASE ~target.dm
    <3>1. pads' = GpioInit(Transmitted(pads), {cfg.swim, cfg.nrst}) /\ cfg' = cfg
      BY <1>14, <2>2 DEF EnterCsrRead, EnterFails
    <3>2. pads' \in PadSet /\ pads'.low = {}
      BY <3>1, <1>b, <1>c, <1>f
    <3> QED BY <3>1, <3>2, <1>g
  <2> QED BY <2>1, <2>2
<1>15. CASE EnterCsrReadFails
  BY <1>15, <1>a, <1>b, <1>c, <1>d, <1>f, <1>g
  DEF EnterCsrReadFails, EnterFails, HoldPcs
<1>16. CASE EnterRelease
  <2>1. pads' = GpioInit(pads, {cfg.nrst}) /\ cfg' = cfg
    BY <1>16 DEF EnterRelease
  <2>2. pads' \in PadSet /\ pads'.low = {}
    BY <2>1, <1>a, <1>c, <1>f
  <2> QED BY <2>1, <2>2, <1>g
<1>17. CASE EnterResynced
  BY <1>17, <1>a, <1>b, <1>c, <1>d, <1>f, <1>g
  DEF EnterResynced, HoldPcs
<1>18. CASE EnterResyncFails
  BY <1>18, <1>a, <1>b, <1>c, <1>d, <1>f, <1>g
  DEF EnterResyncFails, EnterFails, HoldPcs
<1>19. CASE EnterStallRead
  BY <1>19, <1>a, <1>b, <1>c, <1>d, <1>f, <1>g
  DEF EnterStallRead, HoldPcs
<1>20. CASE EnterStalled
  BY <1>20, <1>a, <1>b, <1>c, <1>d, <1>f, <1>g
  DEF EnterStalled, HoldPcs
<1>21. CASE EnterStallFails
  <2>1. pads.low = {} /\ cfg' = cfg
    BY <1>21, <1>f DEF EnterStallFails, HoldPcs
  <2>2. \/ pads' = Transmitted(pads)
        \/ pads' = GpioInit(Transmitted(pads), {cfg.swim, cfg.nrst})
    BY <1>21 DEF EnterStallFails, StallFails, EnterFails
  <2>3. Transmitted(pads) \in PadSet /\ Transmitted(pads).low = {}
    BY <2>1, <1>b
  <2>4. /\ GpioInit(Transmitted(pads), {cfg.swim, cfg.nrst}) \in PadSet
        /\ GpioInit(Transmitted(pads), {cfg.swim, cfg.nrst}).low = {}
    BY <2>3, <1>c
  <2> QED BY <2>1, <2>2, <2>3, <2>4, <1>g
<1>22. CASE SetSpeedLow
  BY <1>22, <1>a, <1>b, <1>c, <1>d, <1>f, <1>g
  DEF SetSpeedLow, HoldPcs
<1>23. CASE SetSpeedHigh
  BY <1>23, <1>a, <1>b, <1>c, <1>d, <1>f, <1>g
  DEF SetSpeedHigh, HoldPcs
<1>24. CASE HighSpeedCsrRead
  BY <1>24, <1>a, <1>b, <1>c, <1>d, <1>f, <1>g
  DEF HighSpeedCsrRead, HoldPcs
<1>25. CASE HighSpeedCsrWritten
  BY <1>25, <1>a, <1>b, <1>c, <1>d, <1>f, <1>g
  DEF HighSpeedCsrWritten, HoldPcs
<1>26. CASE HighSpeedFails
  BY <1>26, <1>a, <1>b, <1>c, <1>d, <1>f, <1>g
  DEF HighSpeedFails, HoldPcs
<1>27. CASE MemoryAccess
  BY <1>27, <1>a, <1>b, <1>c, <1>d, <1>f, <1>g
  DEF MemoryAccess, HoldPcs
<1>28. CASE FlashResync
  BY <1>28, <1>a, <1>b, <1>c, <1>d, <1>f, <1>g
  DEF FlashResync, HoldPcs
<1>29. CASE PowerCycle
  BY <1>29, <1>a, <1>b, <1>c, <1>d, <1>f, <1>g
  DEF PowerCycle, HoldPcs
<1>30. CASE UNCHANGED vars
  BY <1>30, <1>a, <1>b, <1>c, <1>d, <1>f, <1>g
  DEF vars, HoldPcs
<1>31. CASE HighSpeedAdopted
  BY <1>31, <1>a, <1>f, <1>g DEF HighSpeedAdopted, HoldPcs
<1> QED
  BY <1>1, <1>2, <1>3, <1>4, <1>5, <1>6, <1>7, <1>8,
     <1>9, <1>10, <1>11, <1>12, <1>13, <1>14, <1>15, <1>16,
     <1>17, <1>18, <1>19, <1>20, <1>21, <1>22, <1>23, <1>24,
     <1>25, <1>26, <1>27, <1>28, <1>29, <1>30, <1>31
  DEF Next, Command, Proceed

\* Every step keeps the types; that the retry counter stays within its bound
\* needs EnterProgress.
LEMMA TypeStep ==
  ASSUME IInv, [Next]_vars
  PROVE  TypeOK'
<1>a. TypeOK /\ (pc \in EnterPcs => attempt < StallAttempts)
  BY DEF IInv, EnterProgress
<1>b. pads' \in PadSet /\ PinAfterInit \in Bank0Pins \cup {NoPin}
  BY PadsNext, PadsStep DEF IInv
<1>c. /\ faults < MaxFaults => faults + 1 \in 0 .. MaxFaults
      /\ attempt < StallAttempts => attempt + 1 \in 0 .. StallAttempts
      /\ 0 \in 0 .. StallAttempts
  BY <1>a, BoundAssumption DEF TypeOK
<1>d. /\ Off \in Targets /\ Activated \in Targets /\ HighSpeedOn \in Targets
      /\ [target EXCEPT !.dm = TRUE] \in Targets
      /\ [target EXCEPT !.hs = FALSE] \in Targets
      /\ [target EXCEPT !.stalled = TRUE] \in Targets
  BY <1>a DEF TypeOK, Targets, Off, Activated, HighSpeedOn
<1>1. CASE \E s, n \in Pins : SetPins(s, n)
  <2>1. cfg' \in [swim : Pins, nrst : Pins] /\ speed' = "LOW"
    BY <1>1 DEF SetPins
  <2>2. UNCHANGED <<pioPin, synced, tswim, stage, second, csr, pc, attempt,
                    target, faults, clean>>
    BY <1>1 DEF SetPins
  <2> QED BY <2>1, <2>2, <1>a, <1>b DEF TypeOK, PadSet
<1>2. CASE ReleaseTarget
  BY <1>2, <1>a, <1>b, <1>c, <1>d
  DEF ReleaseTarget, TypeOK, Pcs, HighPcs, EnterPcs, Stages, link, PadSet
<1>3. CASE ResetTarget
  BY <1>3, <1>a, <1>b, <1>c, <1>d
  DEF ResetTarget, Asserted, TypeOK, Pcs, HighPcs, EnterPcs, Stages, link, PadSet
<1>4. CASE ResetTargetEnd
  BY <1>4, <1>a, <1>b, <1>c, <1>d
  DEF ResetTargetEnd, TypeOK, Pcs, HighPcs, EnterPcs, Stages, link, PadSet
<1>5. CASE EntryWaveform
  BY <1>5, <1>a, <1>b, <1>c, <1>d
  DEF EntryWaveform, Asserted, TypeOK, Pcs, HighPcs, EnterPcs, Stages, link,
      PadSet
<1>6. CASE EntryWaveformEnd
  BY <1>6, <1>a, <1>b, <1>c, <1>d
  DEF EntryWaveformEnd, MayActivate, TypeOK, Pcs, HighPcs, EnterPcs, Stages,
      link, PadSet
<1>7. CASE DebugWaveform
  BY <1>7, <1>a, <1>b, <1>c, <1>d
  DEF DebugWaveform, Asserted, TypeOK, Pcs, HighPcs, EnterPcs, Stages, link,
      PadSet
<1>8. CASE DebugWaveformEnd
  BY <1>8, <1>a, <1>b, <1>c, <1>d
  DEF DebugWaveformEnd, MayActivate, TypeOK, Pcs, HighPcs, EnterPcs, Stages,
      link, PadSet
<1>9. CASE EnterSwim
  BY <1>9, <1>a, <1>b, <1>c, <1>d
  DEF EnterSwim, Asserted, TypeOK, Pcs, HighPcs, EnterPcs, Stages, link, PadSet
<1>10. CASE EnterSynced
  BY <1>10, <1>a, <1>b, <1>c, <1>d
  DEF EnterSynced, RecordSync, TypeOK, Pcs, HighPcs, EnterPcs, Stages, link,
      PadSet
<1>11. CASE EnterNoSync
  BY <1>11, <1>a, <1>b, <1>c, <1>d
  DEF EnterNoSync, EnterFails, MayActivate, TypeOK, Pcs, HighPcs, EnterPcs,
      Stages, link, PadSet
<1>12. CASE EnterCsrWritten
  BY <1>12, <1>a, <1>b, <1>c, <1>d
  DEF EnterCsrWritten, TypeOK, Pcs, HighPcs, EnterPcs, Stages, link, PadSet
<1>13. CASE EnterCsrWriteFails
  BY <1>13, <1>a, <1>b, <1>c, <1>d
  DEF EnterCsrWriteFails, Fails, MayHaveWritten, EnterFails, TypeOK,
      Pcs, HighPcs, EnterPcs, Stages, link, PadSet
<1>14. CASE EnterCsrRead
  BY <1>14, <1>a, <1>b, <1>c, <1>d
  DEF EnterCsrRead, EnterFails, TypeOK, Pcs, HighPcs, EnterPcs, Stages, link,
      PadSet
<1>15. CASE EnterCsrReadFails
  BY <1>15, <1>a, <1>b, <1>c, <1>d
  DEF EnterCsrReadFails, Fails, EnterFails, TypeOK, Pcs, HighPcs, EnterPcs,
      Stages, link, PadSet
<1>16. CASE EnterRelease
  BY <1>16, <1>a, <1>b, <1>c, <1>d
  DEF EnterRelease, TypeOK, Pcs, HighPcs, EnterPcs, Stages, link, PadSet
<1>17. CASE EnterResynced
  BY <1>17, <1>a, <1>b, <1>c, <1>d
  DEF EnterResynced, RecordSync, SlowedTargets, TypeOK, Pcs, HighPcs, EnterPcs,
      Stages, link, PadSet
<1>18. CASE EnterResyncFails
  BY <1>18, <1>a, <1>b, <1>c, <1>d
  DEF EnterResyncFails, Fails, EnterFails, TypeOK, Pcs, HighPcs, EnterPcs,
      Stages, link, PadSet
<1>19. CASE EnterStallRead
  BY <1>19, <1>a, <1>b, <1>c, <1>d
  DEF EnterStallRead, TypeOK, Pcs, HighPcs, EnterPcs, Stages, link, PadSet
<1>20. CASE EnterStalled
  BY <1>20, <1>a, <1>b, <1>c, <1>d
  DEF EnterStalled, TypeOK, Pcs, HighPcs, EnterPcs, Stages, link, PadSet
<1>21. CASE EnterStallFails
  <2>1. faults' \in 0 .. MaxFaults /\ clean' \in BOOLEAN
    BY <1>21, <1>a, <1>c DEF EnterStallFails, Fails, TypeOK
  <2>2. target' \in Targets
    BY <1>21, <1>a, <1>d DEF EnterStallFails, MayHaveWritten, TypeOK
  <2>3. attempt' \in 0 .. StallAttempts /\ stage' \in Stages /\ pc' \in Pcs
    BY <1>21, <1>a, <1>c
    DEF EnterStallFails, StallFails, EnterFails, TypeOK, EnterPcs, HighPcs, Pcs, Stages
  <2>4. UNCHANGED <<cfg, pioPin, speed, synced, tswim, second, csr>>
    BY <1>21 DEF EnterStallFails
  <2> QED BY <2>1, <2>2, <2>3, <2>4, <1>a, <1>b DEF TypeOK, PadSet
<1>22. CASE SetSpeedLow
  BY <1>22, <1>a, <1>b, <1>c, <1>d
  DEF SetSpeedLow, TypeOK, Pcs, HighPcs, EnterPcs, Stages, link, PadSet
<1>23. CASE SetSpeedHigh
  BY <1>23, <1>a, <1>b, <1>c, <1>d
  DEF SetSpeedHigh, TypeOK, Pcs, HighPcs, EnterPcs, Stages, link, PadSet
<1>24. CASE HighSpeedCsrRead
  BY <1>24, <1>a, <1>b, <1>c, <1>d
  DEF HighSpeedCsrRead, TypeOK, Pcs, HighPcs, EnterPcs, Stages, link, PadSet
<1>25. CASE HighSpeedCsrWritten
  BY <1>25, <1>a, <1>b, <1>c, <1>d
  DEF HighSpeedCsrWritten, TypeOK, Pcs, HighPcs, EnterPcs, Stages, link, PadSet
<1>26. CASE HighSpeedFails
  <2>1. faults' \in 0 .. MaxFaults /\ clean' \in BOOLEAN
    BY <1>26, <1>a, <1>c DEF HighSpeedFails, Fails, TypeOK
  <2>2. target' \in Targets
    BY <1>26, <1>a, <1>d DEF HighSpeedFails, MayHaveWritten, TypeOK
  <2>3. UNCHANGED <<cfg, pioPin, speed, synced, tswim, stage, second, csr,
                    attempt>> /\ pc' \in Pcs
    BY <1>26 DEF HighSpeedFails, link, Pcs
  <2> QED BY <2>1, <2>2, <2>3, <1>a, <1>b DEF TypeOK, PadSet
<1>27. CASE MemoryAccess
  BY <1>27, <1>a, <1>b, <1>c, <1>d
  DEF MemoryAccess, TypeOK, Pcs, HighPcs, EnterPcs, Stages, link, PadSet
<1>28. CASE FlashResync
  BY <1>28, <1>a, <1>b, <1>c, <1>d
  DEF FlashResync, RecordSync, SlowedTargets, TypeOK, Pcs, HighPcs, EnterPcs,
      Stages, link, PadSet
<1>29. CASE PowerCycle
  <2>1. faults' \in 0 .. MaxFaults /\ clean' \in BOOLEAN /\ target' \in Targets
    BY <1>29, <1>c, <1>d DEF PowerCycle
  <2>2. UNCHANGED <<cfg, pioPin, speed, synced, tswim, stage, second, csr, pc,
                    attempt>>
    BY <1>29 DEF PowerCycle, link
  <2> QED BY <2>1, <2>2, <1>a, <1>b DEF TypeOK, PadSet
<1>30. CASE UNCHANGED vars
  BY <1>30, <1>a, <1>b, <1>c, <1>d
  DEF vars, TypeOK
<1>31. CASE HighSpeedAdopted
  BY <1>31, <1>a, <1>b DEF HighSpeedAdopted, TypeOK, Pcs, PadSet
<1> QED
  BY <1>1, <1>2, <1>3, <1>4, <1>5, <1>6, <1>7, <1>8,
     <1>9, <1>10, <1>11, <1>12, <1>13, <1>14, <1>15, <1>16,
     <1>17, <1>18, <1>19, <1>20, <1>21, <1>22, <1>23, <1>24,
     <1>25, <1>26, <1>27, <1>28, <1>29, <1>30, <1>31
  DEF Next, Command, Proceed

\* What ENTER_SWIM has established at a point is not undone by the step it
\* makes from there, nor by a target that loses power.
LEMMA ProgressStep ==
  ASSUME IInv, [Next]_vars
  PROVE  EnterProgress'
<1>a. EnterProgress /\ TypeOK
  BY DEF IInv
<1>b. pc \notin EnterPcs /\ pc' \notin EnterPcs => EnterProgress'
  BY DEF EnterProgress, EnterPcs, AfterSyncPcs, AfterReadPcs, StallPcs
<1>1. CASE \E s, n \in Pins : SetPins(s, n)
  BY <1>1, <1>b DEF SetPins, EnterPcs
<1>2. CASE ReleaseTarget
  BY <1>2, <1>b DEF ReleaseTarget, EnterPcs
<1>3. CASE ResetTarget
  BY <1>3, <1>b DEF ResetTarget, EnterPcs
<1>4. CASE ResetTargetEnd
  BY <1>4, <1>b DEF ResetTargetEnd, EnterPcs
<1>5. CASE EntryWaveform
  BY <1>5, <1>b DEF EntryWaveform, EnterPcs
<1>6. CASE EntryWaveformEnd
  BY <1>6, <1>b DEF EntryWaveformEnd, EnterPcs
<1>7. CASE DebugWaveform
  BY <1>7, <1>b DEF DebugWaveform, EnterPcs
<1>8. CASE DebugWaveformEnd
  BY <1>8, <1>b DEF DebugWaveformEnd, EnterPcs
<1>9. CASE EnterSwim
  BY <1>9, <1>a, BoundAssumption
  DEF EnterSwim, Asserted, EnterProgress, TimingReady, EnterPcs,
      AfterSyncPcs, AfterReadPcs, StallPcs
<1>10. CASE EnterSynced
  BY <1>10, <1>a, BoundAssumption
  DEF EnterSynced, RecordSync, Activated, EnterProgress, TimingReady,
      EnterPcs, AfterSyncPcs, AfterReadPcs, StallPcs
<1>11. CASE EnterNoSync
  BY <1>11, <1>a, BoundAssumption
  DEF EnterNoSync, EnterFails, MayActivate, Activated, EnterProgress,
      TimingReady, EnterPcs, AfterSyncPcs, AfterReadPcs, StallPcs
<1>12. CASE EnterCsrWritten
  BY <1>12, <1>a, BoundAssumption
  DEF EnterCsrWritten, EnterProgress, TimingReady, EnterPcs,
      AfterSyncPcs, AfterReadPcs, StallPcs
<1>13. CASE EnterCsrWriteFails
  BY <1>13, <1>a, BoundAssumption
  DEF EnterCsrWriteFails, Fails, MayHaveWritten, EnterFails,
      EnterProgress, TimingReady, EnterPcs, AfterSyncPcs, AfterReadPcs,
      StallPcs
<1>14. CASE EnterCsrRead
  BY <1>14, <1>a, BoundAssumption
  DEF EnterCsrRead, EnterFails, EnterProgress, TimingReady, EnterPcs,
      AfterSyncPcs, AfterReadPcs, StallPcs
<1>15. CASE EnterCsrReadFails
  BY <1>15, <1>a, BoundAssumption
  DEF EnterCsrReadFails, Fails, EnterFails, EnterProgress, TimingReady,
      EnterPcs, AfterSyncPcs, AfterReadPcs, StallPcs
<1>16. CASE EnterRelease
  BY <1>16, <1>a, BoundAssumption
  DEF EnterRelease, EnterProgress, TimingReady, EnterPcs, AfterSyncPcs,
      AfterReadPcs, StallPcs
<1>17. CASE EnterResynced
  <2>1. target'.active => target'.dm
    BY <1>17, <1>a DEF EnterResynced, SlowedTargets, EnterProgress,
                       AfterReadPcs, TypeOK, Targets
  <2> QED
    BY <1>17, <1>a, <2>1
    DEF EnterResynced, RecordSync, EnterProgress, TimingReady, EnterPcs,
        AfterSyncPcs, AfterReadPcs, StallPcs
<1>18. CASE EnterResyncFails
  BY <1>18, <1>a, BoundAssumption
  DEF EnterResyncFails, Fails, EnterFails, EnterProgress, TimingReady,
      EnterPcs, AfterSyncPcs, AfterReadPcs, StallPcs
<1>19. CASE EnterStallRead
  BY <1>19, <1>a
  DEF EnterStallRead, link, EnterProgress, TimingReady, EnterPcs,
      AfterSyncPcs, AfterReadPcs, StallPcs
<1>20. CASE EnterStalled
  BY <1>20, <1>a, BoundAssumption
  DEF EnterStalled, EnterProgress, TimingReady, EnterPcs, AfterSyncPcs,
      AfterReadPcs, StallPcs
<1>21. CASE EnterStallFails
  <2>1. CASE attempt + 1 < StallAttempts
    <3>1. /\ pc \in StallPcs /\ pc' = "enter_stall_read"
          /\ attempt' = attempt + 1 /\ stage' = stage
          /\ UNCHANGED <<speed, synced, tswim, second, csr>>
      BY <1>21, <2>1 DEF EnterStallFails, StallFails, StallPcs
    <3>2. target'.active = target.active /\ target'.dm = target.dm
      BY <1>21, <1>a DEF EnterStallFails, MayHaveWritten, TypeOK, Targets
    <3> QED
      BY <2>1, <3>1, <3>2, <1>a
      DEF EnterProgress, TimingReady, EnterPcs, AfterSyncPcs, AfterReadPcs,
          StallPcs
  <2>2. CASE ~(attempt + 1 < StallAttempts)
    <3>1. pc' = "idle"
      BY <1>21, <2>2 DEF EnterStallFails, StallFails, EnterFails
    <3> QED
      BY <3>1 DEF EnterProgress, EnterPcs, AfterSyncPcs, AfterReadPcs, StallPcs
  <2> QED BY <2>1, <2>2
<1>22. CASE SetSpeedLow
  BY <1>22, <1>b DEF SetSpeedLow, EnterPcs
<1>23. CASE SetSpeedHigh
  BY <1>23, <1>b DEF SetSpeedHigh, EnterPcs
<1>24. CASE HighSpeedCsrRead
  BY <1>24, <1>b DEF HighSpeedCsrRead, EnterPcs
<1>25. CASE HighSpeedCsrWritten
  BY <1>25, <1>b DEF HighSpeedCsrWritten, EnterPcs
<1>26. CASE HighSpeedFails
  BY <1>26, <1>b DEF HighSpeedFails, EnterPcs
<1>27. CASE MemoryAccess
  BY <1>27, <1>b DEF MemoryAccess, EnterPcs
<1>28. CASE FlashResync
  BY <1>28, <1>b DEF FlashResync, EnterPcs
<1>29. CASE PowerCycle
  BY <1>29, <1>a, BoundAssumption
  DEF PowerCycle, Off, link, EnterProgress, TimingReady, EnterPcs,
      AfterSyncPcs, AfterReadPcs, StallPcs
<1>30. CASE UNCHANGED vars
  BY <1>30, <1>a, BoundAssumption
  DEF vars, link, EnterProgress, TimingReady, EnterPcs, AfterSyncPcs,
      AfterReadPcs, StallPcs
<1>31. CASE HighSpeedAdopted
  BY <1>31, <1>b DEF HighSpeedAdopted, EnterPcs
<1> QED
  BY <1>1, <1>2, <1>3, <1>4, <1>5, <1>6, <1>7, <1>8,
     <1>9, <1>10, <1>11, <1>12, <1>13, <1>14, <1>15, <1>16,
     <1>17, <1>18, <1>19, <1>20, <1>21, <1>22, <1>23, <1>24,
     <1>25, <1>26, <1>27, <1>28, <1>29, <1>30, <1>31
  DEF Next, Command, Proceed

\* With the pins right and nothing failing on the line, the target keeps up
\* with the command.
LEMMA CleanStep ==
  ASSUME IInv, [Next]_vars
  PROVE  CleanEntry'
<1>a. TypeOK /\ EnterProgress /\ CleanEntry
  BY DEF IInv
<1>b. pc' \notin EnterPcs \/ ~clean' => CleanEntry'
  BY DEF CleanEntry, WiredEntry
<1>c. DefaultSwim \in Bank0Pins /\ WiredSwim \in Bank0Pins /\ NoPin \notin Bank0Pins
  BY PinAssumption
<1>1. CASE \E s, n \in Pins : SetPins(s, n)
  BY <1>1, <1>b DEF SetPins, EnterPcs
<1>2. CASE ReleaseTarget
  BY <1>2, <1>b DEF ReleaseTarget, EnterPcs
<1>3. CASE ResetTarget
  BY <1>3, <1>b DEF ResetTarget, EnterPcs
<1>4. CASE ResetTargetEnd
  BY <1>4, <1>b DEF ResetTargetEnd, EnterPcs
<1>5. CASE EntryWaveform
  BY <1>5, <1>b DEF EntryWaveform, EnterPcs
<1>6. CASE EntryWaveformEnd
  BY <1>6, <1>b DEF EntryWaveformEnd, EnterPcs
<1>7. CASE DebugWaveform
  BY <1>7, <1>b DEF DebugWaveform, EnterPcs
<1>8. CASE DebugWaveformEnd
  BY <1>8, <1>b DEF DebugWaveformEnd, EnterPcs
<1>9. CASE EnterSwim
  <2>1. SUFFICES ASSUME cfg' = [swim |-> WiredSwim, nrst |-> WiredNrst]
                 PROVE  InReset' /\ target' = Off
    BY <1>9, <2>1 DEF EnterSwim, CleanEntry, WiredEntry, AfterSyncPcs
  <2>2. cfg.nrst = WiredNrst /\ target' = Off
    BY <1>9, <2>1 DEF EnterSwim, Asserted
  <2>3. pads' = DriveLow(GpioInit(pads, {cfg.swim}), WiredNrst)
    BY <1>9, <2>2 DEF EnterSwim
  <2> QED
    BY <2>2, <2>3 DEF InReset, DriveLow
<1>10. CASE EnterSynced
  <2>1. SUFFICES ASSUME WiredEntry'
                 PROVE  target'.active /\ ~target'.hs /\ pioPin' = WiredSwim
    BY <1>10 DEF EnterSynced, CleanEntry
  <2>2. WiredEntry /\ pc = "enter_entry"
    BY <1>10, <2>1, <1>c
    DEF EnterSynced, WiredEntry, PinAfterInit, EnterPcs
  <2>3. target = Off
    BY <2>2, <1>a DEF CleanEntry
  <2> QED
    BY <1>10, <2>3 DEF EnterSynced, Activated, Off
<1>11. CASE EnterNoSync
  BY <1>11, <1>b DEF EnterNoSync, EnterPcs, EnterFails
<1>12. CASE EnterCsrWritten
  <2>1. SUFFICES ASSUME WiredEntry'
                 PROVE  /\ pioPin' = WiredSwim /\ target'.active
                        /\ ~target'.hs /\ target'.dm
    BY <1>12 DEF EnterCsrWritten, CleanEntry
  <2>2. target' = [target EXCEPT !.dm = TRUE]
    BY <1>12, <2>1 DEF EnterCsrWritten, WiredEntry
  <2> QED
    BY <1>12, <2>2, <1>a DEF EnterCsrWritten, WriteUp, TypeOK, Targets
<1>13. CASE EnterCsrWriteFails
  BY <1>13, <1>b DEF EnterCsrWriteFails, EnterPcs, EnterFails
<1>14. CASE EnterCsrRead
  BY <1>14, <1>a
  DEF EnterCsrRead, EnterFails, ReadUp, WriteUp, CleanEntry, WiredEntry, EnterPcs
<1>15. CASE EnterCsrReadFails
  BY <1>15, <1>b DEF EnterCsrReadFails, EnterPcs, EnterFails
<1>16. CASE EnterRelease
  BY <1>16, <1>a
  DEF EnterRelease, CleanEntry, WiredEntry, EnterPcs, AfterSyncPcs
<1>17. CASE EnterResynced
  <2>1. SUFFICES ASSUME WiredEntry'
                 PROVE  pioPin' = WiredSwim /\ target'.active /\ ~target'.hs
    BY <1>17 DEF EnterResynced, CleanEntry
  <2>2. target.active /\ ~target.hs /\ pioPin = WiredSwim
    BY <1>17, <2>1, <1>a
    DEF EnterResynced, WiredEntry, CleanEntry, EnterPcs, AfterSyncPcs
  <2> QED
    BY <1>17, <2>2, <1>a DEF EnterResynced, SlowedTargets, TypeOK, Targets
<1>18. CASE EnterResyncFails
  BY <1>18, <1>b DEF EnterResyncFails, EnterPcs, EnterFails
<1>19. CASE EnterStallRead
  BY <1>19, <1>a
  DEF EnterStallRead, ReadUp, WriteUp, CleanEntry, WiredEntry
<1>20. CASE EnterStalled
  BY <1>20, <1>b DEF EnterStalled, EnterPcs
<1>21. CASE EnterStallFails
  <2>1. SUFFICES ASSUME WiredEntry' PROVE FALSE
    BY <1>21 DEF CleanEntry
  <2>2. WiredEntry /\ pc \in StallPcs
    <3>1. UNCHANGED <<cfg, pioPin>> /\ pc \in StallPcs /\ StallPcs \subseteq EnterPcs
      BY <1>21 DEF EnterStallFails, StallPcs, EnterPcs
    <3>2. clean
      BY <1>21, <2>1 DEF EnterStallFails, Fails, WiredEntry
    <3> QED
      BY <2>1, <3>1, <3>2 DEF WiredEntry
  <2>3. TimingReady /\ tswim = "measured" /\ WriteUp /\ ReadUp
    BY <2>2, <1>a
    DEF EnterProgress, CleanEntry, StallPcs, EnterPcs, AfterSyncPcs, WriteUp,
        ReadUp
  <2> QED
    BY <1>21, <2>1, <2>3 DEF EnterStallFails, Fails, WiredEntry
<1>22. CASE SetSpeedLow
  BY <1>22, <1>b DEF SetSpeedLow, EnterPcs
<1>23. CASE SetSpeedHigh
  BY <1>23, <1>b DEF SetSpeedHigh, EnterPcs
<1>24. CASE HighSpeedCsrRead
  BY <1>24, <1>b DEF HighSpeedCsrRead, EnterPcs
<1>25. CASE HighSpeedCsrWritten
  BY <1>25, <1>b DEF HighSpeedCsrWritten, EnterPcs
<1>26. CASE HighSpeedFails
  BY <1>26, <1>b DEF HighSpeedFails, EnterPcs
<1>27. CASE MemoryAccess
  BY <1>27, <1>b DEF MemoryAccess, EnterPcs
<1>28. CASE FlashResync
  BY <1>28, <1>b DEF FlashResync, EnterPcs
<1>29. CASE PowerCycle
  BY <1>29, <1>b DEF PowerCycle
<1>30. CASE UNCHANGED vars
  BY <1>30, <1>a DEF vars, CleanEntry, WiredEntry, InReset
<1>31. CASE HighSpeedAdopted
  BY <1>31, <1>b DEF HighSpeedAdopted, EnterPcs
<1> QED
  BY <1>1, <1>2, <1>3, <1>4, <1>5, <1>6, <1>7, <1>8,
     <1>9, <1>10, <1>11, <1>12, <1>13, <1>14, <1>15, <1>16,
     <1>17, <1>18, <1>19, <1>20, <1>21, <1>22, <1>23, <1>24,
     <1>25, <1>26, <1>27, <1>28, <1>29, <1>30, <1>31
  DEF Next, Command, Proceed

\* SET_SPEED high and the commands that may run with a probe at high speed
\* keep what HighProgress says of them.
LEMMA HighStep ==
  ASSUME IInv, [Next]_vars
  PROVE  HighProgress'
<1>a. TypeOK /\ HighProgress /\ EnterProgress
  BY DEF IInv
<1>b. speed' = "LOW" /\ pc' \notin {"wave_hold", "hs_write", "hs_settle"}
        => HighProgress'
  BY DEF HighProgress, HighTogether
<1>c. ~synced' /\ pc' \notin EnterPcs \cup HighPcs => HighProgress'
  BY DEF HighProgress, HighTogether, TimingReady, HighPcs
<1>d. pc \in EnterPcs \cup HighPcs => speed = "LOW"
  BY <1>a DEF HighProgress
<1>1. CASE \E s, n \in Pins : SetPins(s, n)
  BY <1>1, <1>b DEF SetPins
<1>2. CASE ReleaseTarget
  BY <1>2, <1>c DEF ReleaseTarget, EnterPcs, HighPcs
<1>3. CASE ResetTarget
  BY <1>3 DEF ResetTarget, HighProgress, HighTogether, EnterPcs, HighPcs
<1>4. CASE ResetTargetEnd
  BY <1>4, <1>c DEF ResetTargetEnd, EnterPcs, HighPcs
<1>5. CASE EntryWaveform
  BY <1>5, <1>c DEF EntryWaveform, EnterPcs, HighPcs
<1>6. CASE EntryWaveformEnd
  BY <1>6, <1>a, <1>c
  DEF EntryWaveformEnd, link, HighProgress, EnterPcs, HighPcs
<1>7. CASE DebugWaveform
  BY <1>7, <1>c DEF DebugWaveform, EnterPcs, HighPcs
<1>8. CASE DebugWaveformEnd
  BY <1>8 DEF DebugWaveformEnd, HighProgress, HighTogether, EnterPcs, HighPcs
<1>9. CASE EnterSwim
  BY <1>9, <1>b DEF EnterSwim
<1>10. CASE EnterSynced
  BY <1>10, <1>b, <1>d DEF EnterSynced, RecordSync, link, EnterPcs
<1>11. CASE EnterNoSync
  BY <1>11, <1>b, <1>d DEF EnterNoSync, EnterFails, link, EnterPcs
<1>12. CASE EnterCsrWritten
  BY <1>12, <1>b, <1>d DEF EnterCsrWritten, link, EnterPcs
<1>13. CASE EnterCsrWriteFails
  BY <1>13, <1>b, <1>d DEF EnterCsrWriteFails, EnterFails, Fails, link, EnterPcs
<1>14. CASE EnterCsrRead
  BY <1>14, <1>b, <1>d DEF EnterCsrRead, EnterFails, link, EnterPcs
<1>15. CASE EnterCsrReadFails
  BY <1>15, <1>b, <1>d DEF EnterCsrReadFails, EnterFails, Fails, link, EnterPcs
<1>16. CASE EnterRelease
  BY <1>16, <1>b, <1>d DEF EnterRelease, link, EnterPcs
<1>17. CASE EnterResynced
  BY <1>17, <1>b, <1>d DEF EnterResynced, RecordSync, link, EnterPcs
<1>18. CASE EnterResyncFails
  BY <1>18, <1>b, <1>d DEF EnterResyncFails, EnterFails, Fails, link, EnterPcs
<1>19. CASE EnterStallRead
  BY <1>19, <1>b, <1>d DEF EnterStallRead, link, EnterPcs
<1>20. CASE EnterStalled
  BY <1>20, <1>b, <1>d DEF EnterStalled, link, EnterPcs
<1>21. CASE EnterStallFails
  BY <1>21, <1>b, <1>d DEF EnterStallFails, StallFails, EnterFails, Fails, link, EnterPcs
<1>22. CASE SetSpeedLow
  BY <1>22, <1>b DEF SetSpeedLow
<1>23. CASE SetSpeedHigh
  BY <1>23, <1>b DEF SetSpeedHigh
<1>24. CASE HighSpeedCsrRead
  <2>1. /\ speed' = "LOW" /\ pc' \in {"hs_write", "idle"} /\ WriteUp /\ target' = target
        /\ UNCHANGED <<pioPin, synced, tswim>>
    BY <1>24, <1>d DEF HighSpeedCsrRead, ReadUp, HighPcs
  <2>2. WriteUp'
    BY <2>1 DEF WriteUp, TimingReady
  <2> QED BY <2>1, <2>2 DEF HighProgress, HighTogether
<1>25. CASE HighSpeedCsrWritten
  <2>1. /\ speed' = "LOW" /\ pc' = "hs_settle" /\ TimingReady /\ target' = HighSpeedOn
        /\ UNCHANGED <<synced, tswim>>
    BY <1>25, <1>d DEF HighSpeedCsrWritten, link, WriteUp, HighPcs
  <2>2. TimingReady' /\ target'.hs
    BY <2>1, <1>a DEF TimingReady, HighSpeedOn, TypeOK, Targets
  <2> QED BY <2>1, <2>2 DEF HighProgress, HighTogether
<1>26. CASE HighSpeedFails
  BY <1>26, <1>b, <1>d DEF HighSpeedFails, link, HighPcs
<1>27. CASE MemoryAccess
  <2>1. pc' = "idle" /\ UNCHANGED <<speed, synced, tswim, clean>>
    BY <1>27 DEF MemoryAccess, link
  <2>2. target.hs => target'.hs
    BY <1>27 DEF MemoryAccess, WriteUp
  <2> QED
    BY <1>27, <2>1, <2>2, <1>a
    DEF MemoryAccess, HighProgress, HighTogether, TimingReady, EnterPcs, HighPcs
<1>28. CASE FlashResync
  BY <1>28, <1>b DEF FlashResync, RecordSync
<1>29. CASE PowerCycle
  <2>1. ~clean' /\ UNCHANGED <<speed, synced, tswim, pc>>
    BY <1>29 DEF PowerCycle, link
  <2> QED BY <2>1, <1>a DEF HighProgress, HighTogether, TimingReady
<1>30. CASE UNCHANGED vars
  BY <1>30, <1>a
  DEF vars, HighProgress, HighTogether, TimingReady, WriteUp
<1>31. CASE HighSpeedAdopted
  BY <1>31, <1>a
  DEF HighSpeedAdopted, HighProgress, HighTogether, EnterPcs, HighPcs
<1> QED
  BY <1>1, <1>2, <1>3, <1>4, <1>5, <1>6, <1>7, <1>8,
     <1>9, <1>10, <1>11, <1>12, <1>13, <1>14, <1>15, <1>16,
     <1>17, <1>18, <1>19, <1>20, <1>21, <1>22, <1>23, <1>24,
     <1>25, <1>26, <1>27, <1>28, <1>29, <1>30, <1>31
  DEF Next, Command, Proceed

LEMMA IInvStep == IInv /\ [Next]_vars => IInv'
<1> SUFFICES ASSUME IInv, [Next]_vars PROVE IInv'
  OBVIOUS
<1>1. TypeOK'
  BY TypeStep
<1>2. OnlyResetLow'
  BY PadsNext DEF IInv
<1>3. EnterProgress'
  BY ProgressStep
<1>4. CleanEntry'
  BY CleanStep
<1>5. HighProgress'
  BY HighStep
<1> QED BY <1>1, <1>2, <1>3, <1>4, <1>5 DEF IInv

-----------------------------------------------------------------------------
(* Theorems.                                                               *)

\* What every point of every command may rely on, including the types of the
\* session state of main.c, swim_link.c and swim_phy.c.
THEOREM Invariance == Spec => []IInv
<1>1. Init => IInv
  BY InitIInv
<1>2. IInv /\ [Next]_vars => IInv'
  BY IInvStep
<1> QED BY <1>1, <1>2, PTL DEF Spec

THEOREM TypeCorrect == Spec => []TypeOK
<1>1. IInv => TypeOK
  BY DEF IInv
<1> QED BY <1>1, Invariance, PTL

\* No command, however it ends, leaves a pin of the probe driven low: the exits
\* of swim_link_enter and the last lines of RESET_TARGET release NRST.
THEOREM ReleasedWhenIdle == Spec => []LinesReleased
<1>1. IInv => LinesReleased
  BY DEF IInv, OnlyResetLow, LinesReleased, HoldPcs
<1> QED BY <1>1, Invariance, PTL

\* swim_link_enter touches the debug module only out of reset and calibrated
\* twice.
THEOREM DebugModuleSafe == Spec => []DebugModuleAfterResync
<1>1. IInv => DebugModuleAfterResync
  BY DEF IInv, OnlyResetLow, EnterProgress, TimingReady, DebugModuleAfterResync,
         HoldPcs, EnterPcs, AfterSyncPcs, StallPcs
<1> QED BY <1>1, Invariance, PTL

\* Stage DONE is set only for a target that is in SWIM, accessible, stalled and
\* out of reset.
THEOREM DoneMeansStalled == Spec => EnterOkMeansStalled
<1> DEFINE Done == [active |-> TRUE, dm |-> TRUE, hs |-> FALSE, stalled |-> TRUE]
<1> DEFINE Ok == /\ target' = Done /\ second' /\ csr' = "dm"
                 /\ tswim' = "measured" /\ pads'.low = {}
<1>1. ASSUME IInv, [Next]_vars, stage' = "DONE", stage # "DONE"
      PROVE  Ok
  <2>1. EnterStalled
    BY <1>1
    DEF Next, Command, Proceed, SetPins, ReleaseTarget, ResetTarget,
        ResetTargetEnd, EntryWaveform, EntryWaveformEnd, DebugWaveform,
        DebugWaveformEnd, EnterSwim, EnterFails, EnterSynced, EnterNoSync,
        EnterCsrWritten, EnterCsrWriteFails, EnterCsrRead, EnterCsrReadFails,
        EnterRelease, EnterResynced, EnterResyncFails, EnterStallRead,
        EnterStallFails, StallFails, SetSpeedLow, SetSpeedHigh,
        HighSpeedCsrRead, HighSpeedCsrWritten, HighSpeedAdopted, HighSpeedFails, MemoryAccess,
        FlashResync, PowerCycle, vars, link
  <2>2. /\ target.active /\ target.dm /\ ~target.hs /\ target \in Targets
        /\ second /\ csr = "dm" /\ tswim = "measured"
    BY <1>1, <2>1
    DEF EnterStalled, WriteUp, IInv, TypeOK, EnterProgress, AfterSyncPcs,
        AfterReadPcs, StallPcs, EnterPcs
  <2>3. target' = Done
    BY <2>1, <2>2 DEF EnterStalled, Targets
  <2>4. pads'.low = {}
    <3>1. pads.low = {}
      BY <1>1, <2>1 DEF EnterStalled, IInv, OnlyResetLow, HoldPcs
    <3> QED BY <1>1, <2>1, <3>1, PadsStep DEF EnterStalled, IInv
  <2> QED BY <2>1, <2>2, <2>3, <2>4 DEF EnterStalled
<1>2. IInv /\ [Next]_vars =>
        [stage' = "DONE" /\ stage # "DONE" => Ok]_vars
  BY <1>1
<1> QED BY <1>2, Invariance, PTL DEF Spec, EnterOkMeansStalled

\* ENTER_SWIM cannot fail on its own: with the pins where the target is, only
\* the line, the target or its power can make it fail, whatever earlier
\* commands have left behind.
THEOREM EntryRecovers == Spec => EnterRecovers
<1> DEFINE Wired == /\ cfg = [swim |-> WiredSwim, nrst |-> WiredNrst]
                    /\ pioPin' = WiredSwim
<1>1. ASSUME IInv, [Next]_vars, pc \in EnterPcs, pc' = "idle", clean', Wired
      PROVE  stage' = "DONE"
  <2>1. WiredSwim \in Bank0Pins /\ NoPin \notin Bank0Pins
    BY PinAssumption
  <2>2. ASSUME EnterNoSync PROVE FALSE
    <3>1. UNCHANGED <<faults, clean>> /\ ~(PinAfterInit = WiredSwim /\ InReset)
      BY <1>1, <2>2 DEF EnterNoSync
    <3>2. PinAfterInit = WiredSwim /\ WiredEntry /\ pc = "enter_entry"
      BY <1>1, <2>1, <2>2, <3>1 DEF EnterNoSync, PinAfterInit, WiredEntry
    <3> QED BY <1>1, <3>1, <3>2 DEF IInv, CleanEntry
  <2>3. ASSUME pioPin' = pioPin, clean' = clean, pc # "enter_entry"
        PROVE  /\ tswim = "measured" /\ WriteUp /\ ReadUp /\ ResyncUp
               /\ pc = "enter_csr_read" => target.dm
    BY <1>1, <2>3
    DEF IInv, EnterProgress, CleanEntry, WiredEntry, AfterSyncPcs, WriteUp,
        ReadUp, ResyncUp
  <2>4. ~EnterCsrWriteFails /\ ~EnterCsrReadFails /\ ~EnterResyncFails
    BY <1>1, <2>3
    DEF EnterCsrWriteFails, EnterCsrReadFails, EnterResyncFails, Fails
  <2>5. ~EnterStallFails
    BY <1>1, <2>3 DEF EnterStallFails, Fails
  <2>6. ~EnterCsrRead
    BY <1>1, <2>3
    DEF EnterCsrRead, IInv, EnterProgress, ReadUp, WriteUp, AfterReadPcs
  <2>7. ~PowerCycle
    BY <1>1 DEF PowerCycle
  <2>8. EnterStalled
    BY <1>1, <2>2, <2>4, <2>5, <2>6, <2>7
    DEF Next, Command, Proceed, SetPins, ReleaseTarget, ResetTarget,
        ResetTargetEnd, EntryWaveform, EntryWaveformEnd, DebugWaveform,
        DebugWaveformEnd, EnterSwim, EnterSynced, EnterCsrWritten, EnterRelease,
        EnterResynced, EnterStallRead, SetSpeedLow, SetSpeedHigh,
        HighSpeedCsrRead, HighSpeedCsrWritten, HighSpeedAdopted, HighSpeedFails, MemoryAccess,
        FlashResync, EnterPcs, vars
  <2> QED BY <2>8 DEF EnterStalled
<1>2. IInv /\ [Next]_vars =>
        [/\ pc \in EnterPcs /\ pc' = "idle" /\ clean'
         /\ cfg = [swim |-> WiredSwim, nrst |-> WiredNrst] /\ pioPin' = WiredSwim
         => stage' = "DONE"]_vars
  BY <1>1
<1> QED BY <1>2, Invariance, PTL DEF Spec, EnterRecovers

\* swim_link_set_speed: unless something failed, the timing was guessed, or the
\* target was at high speed before, both ends leave SET_SPEED high at the same
\* speed; and no other command leaves a probe at high speed, ready to transmit,
\* with a target that is not.
THEOREM HighSpeedAgreed == Spec => SpeedsAgree
<1> DEFINE Ends == /\ pc \in HighPcs /\ pc' = "idle" /\ clean' /\ tswim # "nominal"
                   /\ ~(pc = "hs_read" /\ target.hs)
<1>1. ASSUME IInv, [Next]_vars, Ends
      PROVE  (speed' = "HIGH") <=> target'.hs
  <2>1. HighProgress /\ TypeOK
    BY <1>1 DEF IInv
  <2>2. speed = "LOW" /\ (pc = "hs_write" /\ clean => WriteUp)
    BY <1>1, <2>1 DEF HighProgress
  <2>3. HighSpeedCsrRead \/ HighSpeedFails \/ HighSpeedAdopted
    BY <1>1
    DEF Next, Command, Proceed, SetPins, ReleaseTarget, ResetTarget,
        ResetTargetEnd, EntryWaveform, EntryWaveformEnd, DebugWaveform,
        DebugWaveformEnd, EnterSwim, EnterSynced, EnterNoSync, EnterCsrWritten,
        EnterCsrWriteFails, EnterCsrRead, EnterCsrReadFails, EnterRelease,
        EnterResynced, EnterResyncFails, EnterStallRead, EnterStalled,
        EnterStallFails, SetSpeedLow, SetSpeedHigh, HighSpeedCsrWritten,
        MemoryAccess, FlashResync, PowerCycle, HighPcs, vars
  <2>4. CASE HighSpeedCsrRead
    BY <2>4, <2>2 DEF HighSpeedCsrRead, ReadUp, WriteUp
  <2>5. CASE HighSpeedFails
    <3>1. pc = "hs_read" /\ UNCHANGED <<target, speed>>
      BY <1>1, <2>2, <2>5 DEF HighSpeedFails, Fails, link
    <3> QED BY <1>1, <2>2, <3>1
  <2>6. CASE HighSpeedAdopted
    BY <1>1, <2>1, <2>6 DEF HighSpeedAdopted, HighProgress
  <2> QED BY <2>3, <2>4, <2>5, <2>6
<1>2. IInv => HighTogether
  BY DEF IInv, HighProgress
<1>3. IInv /\ [Next]_vars => [Ends => ((speed' = "HIGH") <=> target'.hs)]_vars
  BY <1>1
<1> QED BY <1>2, <1>3, Invariance, PTL DEF Spec, SpeedsAgree
=============================================================================
