----------------------------- MODULE SwimFrames -----------------------------
(***************************************************************************)
(* What a SWIM frame looks like on the wire, in both directions: the       *)
(* clock measured from the synchronization frame, the frames of            *)
(* swim_link.c with their header and parity bits, the low times the PIO    *)
(* engine plays for them, and the way back from low times to bits and      *)
(* bytes in swim_phy.c.                                                    *)
(*                                                                         *)
(* A word of n bits is a function on 0 .. n - 1; position i is bit i of    *)
(* the C integer, the highest position is sent first.  Times are in ns.    *)
(* clk_sys is 125 MHz: a cycle lasts 8 ns, a loop of the receive programs  *)
(* two cycles.  Only low speed is modelled: at high speed the functions    *)
(* that receive a frame return at once (SwimSession).  Noise damages one   *)
(* bit of a frame.                                                         *)
(***************************************************************************)
EXTENDS Integers

CONSTANTS
  SyncLows,   \* lengths of the synchronization frame: 128 clocks of a target
  Bytes,      \* bytes exchanged
  Commands    \* three-bit commands sent

Bit == {0, 1}
Words(n) == [0 .. n - 1 -> Bit]

\* A target clock is a whole number of half ns; which frames are accepted is
\* up to the code (SyncAccepted).
ASSUME LowAssumption == \A w \in SyncLows : w \in Nat /\ w % 64 = 0
ASSUME WordAssumption == Bytes \subseteq Words(8) /\ Commands \subseteq Words(3)

VARIABLES
  phase,  \* "sync", "ready", "sent", "answered"
  low,    \* length of the target's synchronization frame (external)
  tswim,  \* derived_tswim_ns
  word,   \* byte or command of the last exchange
  flip,   \* position of the bit damaged in it, -1 if none
  heard,  \* what the target took it for (external)
  ack,    \* status of the host's frame
  got,    \* byte the host received
  held    \* ticks the last communication reset held the line low

vars == <<phase, low, tswim, word, flip, heard, ack, got, held>>

Nothing == [i \in {} |-> 0]

TypeOK ==
  /\ phase \in {"sync", "ready", "sent", "answered"}
  /\ low \in SyncLows /\ tswim \in Nat /\ held \in Nat
  /\ word \in Bytes \cup Commands \cup {Nothing}
  /\ flip \in -1 .. 10
  /\ heard \in Words(8) \cup Words(3) \cup {Nothing}
  /\ ack \in {"NONE", "OK", "NACK", "TIMEOUT"}
  /\ got \in Words(8) \cup {Nothing}

(***************************************************************************)
(* Bits, parity, frames.                                                   *)
(***************************************************************************)
Xor(a, b) == (a + b) % 2

\* v ^ (v >> s)
XorShift(v, s) == [i \in 0 .. 7 |-> IF i + s < 8 THEN Xor(v[i], v[i + s]) ELSE v[i]]
parity8(v) == XorShift(XorShift(XorShift(v, 4), 2), 1)[0]
parity3(v) == Xor(Xor(v[0], v[1]), v[2])

CommandFrame(c) ==
  [i \in 0 .. 4 |-> IF i = 0 THEN parity3(c) ELSE IF i = 4 THEN 0 ELSE c[i - 1]]
ByteFrame(b) ==
  [i \in 0 .. 9 |-> IF i = 0 THEN parity8(b) ELSE IF i = 9 THEN 0 ELSE b[i - 1]]

Payload(w, n) == [i \in 0 .. n - 1 |-> w[i + 1]]
Damaged(w, f) == [i \in DOMAIN w |-> IF i = f THEN 1 - w[i] ELSE w[i]]

\* decode_target_frame_raw.  The mutants hand out the frame for its byte, and
\* skip the parity.
MutDecodeFrame(w) ==
  IF w[9] = 1 /\ w[0] = parity8(Payload(w, 8)) THEN w ELSE Nothing
MutDecodeUnchecked(w) == IF w[9] = 1 THEN Payload(w, 8) ELSE Nothing
DecodeFrame(w) ==
  LET b == Payload(w, 8)
  IN  IF w[9] = 1 /\ w[0] = parity8(b) THEN b ELSE Nothing
DecodeAckFrame(w) == IF w[10] = 1 THEN DecodeFrame(w) ELSE Nothing

reverse_low_bits(w, n) == [i \in 0 .. n - 1 |-> w[n - 1 - i]]

\* The received word, or, if it does not decode, the word reversed.
ReceivedFrame(w) ==
  IF DecodeFrame(w) # Nothing THEN DecodeFrame(w)
  ELSE DecodeFrame(reverse_low_bits(w, 10))
ReceivedAckFrame(w) ==
  IF DecodeAckFrame(w) # Nothing THEN DecodeAckFrame(w)
  ELSE DecodeAckFrame(reverse_low_bits(w, 11))

(***************************************************************************)
(* Receiving: low times counted in loops.                                  *)
(***************************************************************************)
CeilDiv(a, b) == (a + b - 1) \div b
ns_to_max_loops(ns) == CeilDiv(CeilDiv(ns, 8), 2)
loops_to_ns(loops) == 16 * loops

\* The width program samples every 16 ns, its phase e is arbitrary; a count
\* that runs out makes X wrap, and get_width reports no loops.  Mutant: it
\* subtracts what X wrapped to, 2^32 - 1.
MutLoopsUsed(ns, e, max) ==
  IF ns \div 16 + e > max THEN max + 1 ELSE ns \div 16 + e
LoopsUsed(ns, e, max) == IF ns \div 16 + e > max THEN 0 ELSE ns \div 16 + e

\* The decode program: high again before the threshold has run out?
DecodedBit(ns, e, threshold) == IF ns \div 16 + e <= threshold THEN 1 ELSE 0
MutThreshold == ns_to_max_loops(tswim)
Threshold == ns_to_max_loops(8 * tswim)
Decoded(lows, e) == [i \in DOMAIN lows |-> DecodedBit(lows[i], e, Threshold)]

SyncNs(e) == loops_to_ns(LoopsUsed(low, e, ns_to_max_loops(300000)))
SyncAccepted(ns) == 8 <= CeilDiv(ns, 1000) /\ CeilDiv(ns, 1000) <= 300
RecordedTswim(ns) == (ns + 64) \div 128

AckStatus(ns, e) ==
  LET loops == LoopsUsed(ns, e, ns_to_max_loops(64 * tswim))
      clocks == (loops_to_ns(loops) + tswim \div 2) \div tswim
  IN  IF loops = 0 THEN "TIMEOUT" ELSE IF clocks <= 8 THEN "OK" ELSE "NACK"

(***************************************************************************)
(* Sending: segments played by the PIO program.                            *)
(***************************************************************************)
\* Ticks to the next edge: the loop counter, and the instructions around it;
\* the sentinel leaves them one instruction earlier.
Encoded(ticks) == ticks - 8
Played(count, last) == count + (IF last THEN 7 ELSE 8)

\* tick_hz is 8 / Tswim, so the clock divider is 4 * Tswim / 256; an integer
\* part of zero counts as 65536.
TicksToNs(ticks) ==
  IF 4 * tswim < 256 THEN 8 * 65536 * ticks ELSE (ticks * 4 * tswim) \div 32

HostLow(bit) == TicksToNs(Played(Encoded((IF bit = 1 THEN 2 ELSE 20) * 8), FALSE))
HostLows(w) == [i \in DOMAIN w |-> HostLow(w[i])]

(***************************************************************************)
(* The target (external): its own clock is low / 128.                      *)
(***************************************************************************)
TargetLow(bit) == (IF bit = 1 THEN 1 ELSE 10) * (low \div 64)
TargetLows(w) == [i \in DOMAIN w |-> TargetLow(w[i])]
EvenParity(v) ==
  (v[0] + v[1] + v[2] +
   IF 7 \in DOMAIN v THEN v[3] + v[4] + v[5] + v[6] + v[7] ELSE 0) % 2

AnswerFrame(b) ==
  [i \in 0 .. 9 |-> IF i = 0 THEN EvenParity(b) ELSE IF i = 9 THEN 1 ELSE b[i - 1]]
AckAnswerFrame(b) ==
  [i \in 0 .. 10 |-> IF i = 10 THEN 1 ELSE AnswerFrame(b)[i]]

\* A low of 128 clocks is a communication reset, answered by a
\* synchronization frame.
Resets(lows) == \E i \in DOMAIN lows : lows[i] >= low

\* A low of at most eight clocks is a one; header 0 comes from the host.
HeardBits(lows) == [i \in DOMAIN lows |-> IF 128 * lows[i] <= 8 * low THEN 1 ELSE 0]
Understood(w, n) ==
  LET v == Payload(w, n)
  IN  IF w[n + 1] = 0 /\ w[0] = EvenParity(v) THEN v ELSE Nothing

-----------------------------------------------------------------------------
Init ==
  /\ phase = "sync" /\ low \in SyncLows /\ tswim = 0 /\ held = 0
  /\ word = Nothing /\ flip = -1 /\ heard = Nothing /\ ack = "NONE"
  /\ got = Nothing

\* swim_phy_entry_sequence_um0470_wait_sync, and the second frame after a
\* communication reset.  A width out of range fails, and only a new attempt to
\* enter goes on.
WaitSync ==
  /\ phase = "sync"
  /\ \E e \in {0, 1} :
       IF SyncAccepted(SyncNs(e))
       THEN tswim' = RecordedTswim(SyncNs(e)) /\ phase' = "ready"
       ELSE UNCHANGED <<tswim, phase>>
  /\ UNCHANGED <<low, word, flip, heard, ack, got, held>>

\* swim_phy_comm_reset_wait_sync: one low segment of 128 ticks.
CommReset ==
  /\ phase = "ready"
  /\ held' = Played(Encoded(128), TRUE)
  /\ phase' = "sync"
  /\ UNCHANGED <<low, tswim, word, flip, heard, ack, got>>

\* A frame of the host, and the low the target answers it with: an acknowledge,
\* or, to a frame it takes for a reset, a synchronization frame.
Send(v, frame, n) ==
  /\ phase = "ready"
  /\ word' = v
  /\ \E f \in DOMAIN frame \cup {-1}, e \in {0, 1} :
       LET lows == HostLows(Damaged(frame, f))
       IN  /\ flip' = f
           /\ heard' = IF Resets(lows) THEN Nothing
                       ELSE Understood(HeardBits(lows), n)
           /\ ack' = AckStatus(IF Resets(lows) THEN low
                               ELSE TargetLow(IF heard' = Nothing THEN 0 ELSE 1), e)
  /\ phase' = "sent"
  /\ UNCHANGED <<low, tswim, got, held>>

SendCommand == \E c \in Commands : Send(c, CommandFrame(c), 3)
SendByte == \E b \in Bytes : Send(b, ByteFrame(b), 8)

\* swim_phy_write_frame_bits_read_ack_and_frame: acknowledge and first byte, if
\* the target answers at all (it does not where it cannot hear the host).
ReadFirst ==
  /\ phase = "ready"
  /\ \E b \in Bytes, f \in -1 .. 10, e \in {0, 1} :
       /\ word' = b /\ flip' = f
       /\ got' = ReceivedAckFrame(
                   Decoded(TargetLows(Damaged(AckAnswerFrame(b), f)), e))
  /\ phase' = "answered"
  /\ UNCHANGED <<low, tswim, heard, ack, held>>

\* swim_phy_write_bit_read_target_frame: every further byte.
ReadNext ==
  /\ phase = "ready"
  /\ \E b \in Bytes, f \in -1 .. 9, e \in {0, 1} :
       /\ word' = b /\ flip' = f
       /\ got' = ReceivedFrame(Decoded(TargetLows(Damaged(AnswerFrame(b), f)), e))
  /\ phase' = "answered"
  /\ UNCHANGED <<low, tswim, heard, ack, held>>

\* The caller takes the result.
Take ==
  /\ phase \in {"sent", "answered"}
  /\ phase' = "ready"
  /\ word' = Nothing /\ flip' = -1 /\ heard' = Nothing /\ ack' = "NONE"
  /\ got' = Nothing
  /\ UNCHANGED <<low, tswim, held>>

Next ==
  \/ WaitSync \/ CommReset
  \/ SendCommand \/ SendByte \/ ReadFirst \/ ReadNext
  \/ Take

Spec == Init /\ [][Next]_vars

-----------------------------------------------------------------------------
\* Between two synchronizations the clock is that of an accepted frame, 7 to
\* 300 us long, and is known to within a ns.
InRange(w) == 6976 <= w /\ w <= 300032
ClockMeasured ==
  phase # "sync" => InRange(low) /\ 128 * tswim \in low - 80 .. low + 80

\* A target frame with one damaged bit is never taken for a byte, neither as
\* received nor with its bits reversed (swim_phy.c:911-926, 990-1001).
DamageDetected == phase = "answered" /\ flip # -1 => got = Nothing

\* An undamaged target frame is received as the byte sent, at every clock the
\* host accepts: measured Tswim, threshold and sampling included.
AnswerUnderstood == phase = "answered" /\ flip = -1 => got = word

\* The clock divider of the frames is at least 1.
Clocked == 4 * tswim >= 256

\* An acknowledge is never false: it is read only if the frame arrived whole and
\* the target heard the byte or command sent.  Where the divider is at least 1
\* every whole frame is acknowledged and every damaged one refused: the pulses
\* of the PIO engine are in the target's windows.  Clocks below 64 ns, whose
\* syncs of 7 to 8.1 us are accepted all the same (swim_phy.c:415), make each
\* low of the host last milliseconds; the target takes that for a reset, and its
\* answer, longer than the loop counter of the width program counts
\* (swim_pio_rx.c:247), is a timeout and never a width.
AckMeansHeard ==
  phase = "sent" =>
    /\ ack = "OK" => flip = -1 /\ heard = word
    /\ Clocked /\ flip = -1 => ack = "OK"
    /\ (ack = "TIMEOUT") <=> ~Clocked

\* The inductive invariant behind them: once the clock is measured, every
\* exchange keeps what it is about.
IInv == TypeOK /\ ClockMeasured /\ DamageDetected /\ AnswerUnderstood /\ AckMeansHeard

\* The communication reset holds the line low for 128 SWIM clocks
\* (swim_phy.c:519-521).
CommResetFull == held = 0 \/ held >= 128
=============================================================================
