------------------------------ MODULE HostFlow ------------------------------
(***************************************************************************)
(* The command line of host/rp2040_swim.py: what a command asks of the     *)
(* probe, in which order, what it checks, and with which exit code it      *)
(* ends; host/ihex.py reads the file it flashes.                           *)
(*                                                                         *)
(* A step is one call of a probe method or of a helper that makes a few    *)
(* calls for one purpose; any of them raises, and that ends the command.   *)
(* Firmware and target answer by their contract (Stm8Flash, SwimSession):  *)
(* OK means done, an error means perhaps in part; only a flash or option   *)
(* write whose trigger was lost may be reported OK all the same.           *)
(***************************************************************************)
EXTENDS Integers, Sequences, FiniteSets

CONSTANTS
  Commands,          \* command lines, see Kinds
  Files,             \* sequences of hex records: [type, good, addr, data]
  BYTE, PARA, LINEAR,\* 2^8, and the units of record types 02 (16) and 04 (2^16)
  FlashStart, FlashSize, BlockSize,  \* of the device
  Fresh,             \* what flash holds at first
  Attempts,          \* of reconnect_after_rop_change (12)
  MaxFaults,         \* bound: calls that fail, operations lost, power losses
  MaxCmds            \* bound: commands per behaviour

Flash == FlashStart .. FlashStart + FlashSize - 1
Erased == 0          \* STM8_FLASH_ERASED_VALUE
Byte == 0 .. BYTE - 1
Kinds == {"probe", "enter-debug", "entry-waveform", "reset", "read", "write-ram",
          "rop-status", "unlock", "erase", "flash", "set-rop", "unprotect-rop"}

ASSUME DeviceAssumption ==
  /\ {FlashSize, BlockSize, Attempts, BYTE} \subseteq Nat \ {0}
  /\ FlashStart \in Nat /\ FlashSize % BlockSize = 0
  /\ Fresh \in [Flash -> Byte]
ASSUME CommandAssumption ==
  \A c \in Commands :
    /\ c.kind \in Kinds
    /\ c.kind = "flash" => c.file \in Files /\ {c.verify, c.reset} \subseteq BOOLEAN
    /\ c.kind \in {"set-rop", "unprotect-rop"} => c.confirmed \in BOOLEAN
ASSUME FileAssumption ==
  /\ {PARA, LINEAR} \subseteq Nat
  /\ \A f \in Files :
       f \in Seq([type : Nat, good : BOOLEAN, addr : Nat, data : Seq(Byte)])
ASSUME BoundAssumption == {MaxFaults, MaxCmds} \subseteq Nat

VARIABLES
  cmd,      \* the command line
  steps,    \* the calls it has still to make
  code,     \* its exit code (success: 0, error: 1), "running" until then
  image,    \* what flash is to hold
  offset,   \* loop variable: the next block
  attempt,  \* loop variable of reconnect_after_rop_change
  flash,    \* program flash of the target (external)
  opt,      \* OPT0: is it 0xAA? (external)
  prot,     \* readout protection in force, loaded from OPT0 by reset (external)
  open,     \* program flash unlocked (external)
  up,       \* in SWIM (external)
  alive,    \* connected and powered (external)
  faults, cmds,  \* counters of the bounds
  faked,    \* history: this command got an OK for a lost operation
  before    \* history: flash and OPT0 when it started

vars == <<cmd, steps, code, image, offset, attempt, flash, opt, prot, open, up,
          alive, faults, cmds, faked, before>>
target == <<flash, opt, prot, open, up, alive>>

-----------------------------------------------------------------------------
(***************************************************************************)
(* Intel HEX: parse_ihex, load_ihex, image_for_range.  A record is good if *)
(* its colon, digits, length and checksum are.                             *)
(***************************************************************************)
Value16(d) == d[1] * BYTE + d[2]
Conflict(m) == \E p, q \in m : p[1] = q[1] /\ p[2] # q[2]

Start == [mem |-> {}, linear |-> 0, segment |-> 0, eof |-> FALSE, bad |-> FALSE]

DataRecord(p, r) ==
  LET mem == p.mem \cup {<<p.linear + p.segment + r.addr + i - 1, r.data[i]>> :
                         i \in DOMAIN r.data}
  IN  [p EXCEPT !.mem = mem, !.bad = Conflict(mem)]

\* The records the reader raises at: after the EOF record, and broken ones.
Broken(p, r) ==
  \/ p.bad \/ p.eof \/ ~r.good \/ r.type \notin 0 .. 5
  \/ r.type \in {2, 4} /\ Len(r.data) # 2

\* The mutant adds an extended segment to the linear base before it.
MutRecord(p, r) ==
  IF Broken(p, r) THEN [p EXCEPT !.bad = TRUE]
  ELSE CASE r.type = 0 -> DataRecord(p, r)
         [] r.type = 1 -> [p EXCEPT !.eof = TRUE, !.bad = r.data # << >>]
         [] r.type = 2 -> [p EXCEPT !.segment = Value16(r.data) * PARA]
         [] r.type = 4 -> [p EXCEPT !.linear = Value16(r.data) * LINEAR]
         [] OTHER -> p
Record(p, r) ==
  IF Broken(p, r) THEN [p EXCEPT !.bad = TRUE]
  ELSE CASE r.type = 0 -> DataRecord(p, r)
         [] r.type = 1 -> [p EXCEPT !.eof = TRUE, !.bad = r.data # << >>]
         [] r.type = 2 -> [p EXCEPT !.segment = Value16(r.data) * PARA, !.linear = 0]
         [] r.type = 4 -> [p EXCEPT !.linear = Value16(r.data) * LINEAR, !.segment = 0]
         [] OTHER -> p

\* Its loop: the state after each record.
After(file) ==
  LET State[i \in 0 .. Len(file)] ==
        IF i = 0 THEN Start ELSE Record(State[i - 1], file[i])
  IN  State
parse_ihex(file) == After(file)[Len(file)]

\* load_ihex: the longest runs of addresses that have a byte.
Segments(mem) ==
  LET A == {p[1] : p \in mem}
  IN  {s \in A \X A :
        /\ s[1] <= s[2] /\ s[1] .. s[2] \subseteq A
        /\ s[1] - 1 \notin A /\ s[2] + 1 \notin A}

Outside(mem) ==
  \E s \in Segments(mem) : s[1] < FlashStart \/ s[2] + 1 > FlashStart + FlashSize
image_for_range(mem) ==
  [a \in Flash |->
    IF \E v \in Byte : <<a, v>> \in mem THEN CHOOSE v \in Byte : <<a, v>> \in mem
    ELSE Erased]

HexError(file) ==
  \/ parse_ihex(file).bad \/ ~parse_ihex(file).eof
  \/ Outside(parse_ihex(file).mem)

(***************************************************************************)
(* What a file means, by definition: the last base record before a data    *)
(* record locates it.                                                      *)
(***************************************************************************)
Bases(file, i) == {k \in 1 .. i - 1 : file[k].type \in {2, 4}}
Base(file, i) ==
  IF Bases(file, i) = {} THEN 0
  ELSE LET k == CHOOSE k \in Bases(file, i) : \A j \in Bases(file, i) : j <= k
       IN  Value16(file[k].data) * IF file[k].type = 2 THEN PARA ELSE LINEAR

WellFormed(file) ==
  /\ \A i \in DOMAIN file :
       /\ file[i].good /\ file[i].type \in 0 .. 5
       /\ file[i].type \in {2, 4} => Len(file[i].data) = 2
       /\ file[i].type = 1 <=> i = Len(file)
       /\ file[i].type = 1 => file[i].data = << >>
  /\ file # << >>
Meant(file) ==
  UNION {{<<Base(file, i) + file[i].addr + j - 1, file[i].data[j]>> :
          j \in DOMAIN file[i].data} : i \in {i \in DOMAIN file : file[i].type = 0}}
Flashable(file) ==
  /\ WellFormed(file)
  /\ \A p \in Meant(file) : p[1] \in Flash
  /\ \A p, q \in Meant(file) : p[1] = q[1] => p = q

-----------------------------------------------------------------------------
(* The commands, as the calls they make.                                   *)

\* cmd_flash reads its file before it opens the probe; the ROP commands ask for
\* their confirmation.
Refused(c) ==
  \/ c.kind = "flash" /\ HexError(c.file)
  \/ c.kind \in {"set-rop", "unprotect-rop"} /\ ~c.confirmed

Flow(c) ==
  CASE c.kind = "probe" -> <<"open", "report", "enter", "access">>
    [] c.kind = "enter-debug" -> <<"open", "report", "try", "report">>
    [] c.kind = "entry-waveform" -> <<"open", "report", "reset", "report">>
    [] c.kind = "reset" -> <<"open", "reset">>
    [] c.kind \in {"read", "write-ram", "rop-status"} -> <<"open", "enter", "access">>
    [] c.kind = "unlock" -> <<"open", "enter", "unlock", "check">>
    [] c.kind = "erase" -> <<"open", "enter", "unlock", "erase">>
    [] c.kind = "flash" ->
         <<"open", "enter", "unlock", "erase", "write">>
           \o (IF c.verify THEN <<"verify">> ELSE << >>)
           \o (IF c.reset THEN <<"reset">> ELSE << >>)
    [] c.kind = "set-rop" ->
         <<"open", "enter", "before", "option", "reconnect", "after">>
    [] c.kind = "unprotect-rop" ->
         <<"open", "enter", "before", "option", "reconnect", "after", "access">>

Wants(c) == c.kind = "set-rop"  \* the ROP the command asks for

Calls(s) == steps # << >> /\ Head(steps) = s
Proceed ==
  /\ steps' = Tail(steps)
  /\ code' = IF Tail(steps) = << >> THEN "success" ELSE "running"
Exit(n) == steps' = << >> /\ code' = n
Fault == faults < MaxFaults /\ faults' = faults + 1

TypeOK ==
  /\ cmd.kind \in Kinds \cup {"none"}
  /\ code \in {"none", "running", "success", "error"}
  /\ (code = "running") <=> (steps # << >>)
  /\ image \in [Flash -> Byte] /\ flash \in [Flash -> Byte]
  /\ offset \in 0 .. FlashSize /\ attempt \in 0 .. Attempts
  /\ {opt, prot, open, up, alive, faked} \subseteq BOOLEAN
  /\ faults \in 0 .. MaxFaults /\ cmds \in 0 .. MaxCmds

Init ==
  /\ cmd = [kind |-> "none"] /\ steps = << >> /\ code = "none"
  /\ image = [a \in Flash |-> Erased] /\ offset = 0 /\ attempt = 0
  /\ flash = Fresh /\ opt \in BOOLEAN /\ prot = opt /\ open = FALSE /\ up = FALSE
  /\ alive = TRUE
  /\ faults = 0 /\ cmds = 0 /\ faked = FALSE
  /\ before = [flash |-> flash, opt |-> opt]

\* main.
Launch ==
  /\ steps = << >> /\ cmds < MaxCmds
  /\ cmd' \in Commands
  /\ IF Refused(cmd')
     THEN Exit("error") /\ UNCHANGED image
     ELSE /\ steps' = Flow(cmd') /\ code' = "running"
          /\ image' = IF cmd'.kind = "flash"
                      THEN image_for_range(parse_ihex(cmd'.file).mem) ELSE image
  /\ offset' = 0 /\ attempt' = 0 /\ cmds' = cmds + 1
  /\ faked' = FALSE /\ before' = [flash |-> flash, opt |-> opt]
  /\ UNCHANGED <<target, faults>>

loop == <<cmd, image, offset, attempt, cmds, before>>

\* open_probe: port, pins, speed.
Open == Calls("open") /\ Proceed /\ UNCHANGED <<loop, target, faults, faked>>

\* enter_swim resets the target on its way in.
Enter ==
  /\ Calls("enter") /\ alive /\ Proceed
  /\ up' = TRUE /\ open' = FALSE /\ prot' = opt
  /\ UNCHANGED <<loop, flash, opt, alive, faults, faked>>

\* cmd_enter_debug reports before it gives up.
Try ==
  /\ Calls("try")
  /\ \/ alive /\ Proceed /\ up' = TRUE /\ UNCHANGED faults
     \/ /\ (alive => Fault) /\ (~alive => UNCHANGED faults)
        /\ steps' = <<"report", "give up">> /\ up' = FALSE /\ UNCHANGED code
  /\ open' = FALSE /\ prot' = opt
  /\ UNCHANGED <<loop, flash, opt, alive, faked>>
GiveUp ==
  /\ Calls("give up") /\ Exit("error")
  /\ UNCHANGED <<loop, target, faults, faked>>

\* unlock_program_flash, and the keys of cmd_unlock; the controller may not
\* take them, and neither looks at the outcome.
Unlock ==
  /\ Calls("unlock") /\ up /\ Proceed
  /\ \/ open' = TRUE /\ UNCHANGED faults
     \/ ~open /\ Fault /\ UNCHANGED open
  /\ UNCHANGED <<loop, flash, opt, prot, up, alive, faked>>

\* cmd_unlock does look.
Check ==
  /\ Calls("check") /\ up
  /\ IF open THEN Proceed ELSE Exit("error")
  /\ UNCHANGED <<loop, target, faults, faked>>

Blocks == {FlashStart + BlockSize * k : k \in 0 .. (FlashSize \div BlockSize) - 1}
BlockOf(b) == b .. b + BlockSize - 1
Wiped(S) == [a \in Flash |-> IF \E b \in S : a \in BlockOf(b) THEN Erased ELSE flash[a]]

\* FLASH_ERASE over the whole of flash; a lost block write is reported OK.
Erase ==
  /\ Calls("erase") /\ up /\ open /\ ~prot /\ Proceed
  /\ \/ flash' = Wiped(Blocks) /\ UNCHANGED <<faults, faked>>
     \/ \E b \in Blocks : Fault /\ flash' = Wiped(Blocks \ {b}) /\ faked' = TRUE
  /\ UNCHANGED <<loop, opt, prot, open, up, alive>>

\* stm8_flash_write_block programs the bytes that are not erased.
Written(cells) ==
  [a \in Flash |-> IF a \in cells /\ image[a] # Erased THEN image[a] ELSE flash[a]]

\* The next block the loop of cmd_flash does not skip, or the end.  The mutant
\* skips blocks that begin with an erased byte.
MutNextBlock(o) ==
  CHOOSE n \in o .. FlashSize :
    /\ n % BlockSize = 0
    /\ n < FlashSize => image[FlashStart + n] # Erased
    /\ \A k \in o .. n - 1 : k % BlockSize = 0 => image[FlashStart + k] = Erased
NextBlock(o) ==
  CHOOSE n \in o .. FlashSize :
    /\ n % BlockSize = 0
    /\ n < FlashSize => \E a \in BlockOf(FlashStart + n) : image[a] # Erased
    /\ \A k \in o .. n - 1 :
         k % BlockSize = 0 => \A a \in BlockOf(FlashStart + k) : image[a] = Erased

WriteBlock ==
  /\ Calls("write") /\ NextBlock(offset) < FlashSize /\ up /\ open /\ ~prot
  /\ LET b == FlashStart + NextBlock(offset)
     IN  \/ flash' = Written(BlockOf(b)) /\ UNCHANGED <<faults, faked>>
         \/ \E a \in BlockOf(b) :
              /\ Fault /\ flash' = Written(BlockOf(b) \ {a}) /\ faked' = TRUE
  /\ offset' = NextBlock(offset) + BlockSize
  /\ UNCHANGED <<cmd, steps, code, image, attempt, cmds, before, opt, prot, open, up,
                 alive>>

WritesDone ==
  /\ Calls("write") /\ NextBlock(offset) = FlashSize /\ Proceed
  /\ UNCHANGED <<loop, target, faults, faked>>

Verify ==
  /\ Calls("verify") /\ up
  /\ IF flash = image /\ ~prot THEN Proceed ELSE Exit("error")
  /\ UNCHANGED <<loop, target, faults, faked>>

\* reset_target, and entry_waveform.
Reset ==
  /\ Calls("reset") /\ Proceed
  /\ up' = FALSE /\ open' = FALSE /\ prot' = opt
  /\ UNCHANGED <<loop, flash, opt, alive, faults, faked>>

\* Reads, and writes of RAM.
Access ==
  /\ Calls("access") /\ up /\ Proceed
  /\ UNCHANGED <<loop, target, faults, faked>>

\* version, swim_debug: the target is not asked.
Report ==
  /\ Calls("report") /\ Proceed
  /\ UNCHANGED <<loop, target, faults, faked>>

\* The ROP byte is read first: "nothing to do".
RopBefore ==
  /\ Calls("before") /\ up
  /\ IF opt = Wants(cmd) THEN Exit("success") ELSE Proceed
  /\ UNCHANGED <<loop, target, faults, faked>>

\* write_rop_byte.  Clearing OPT0 of a protected target erases its flash first.
OptionDone(v) ==
  /\ opt' = v
  /\ flash' = IF prot /\ ~v THEN [a \in Flash |-> Erased] ELSE flash
WriteRop ==
  /\ Calls("option") /\ up /\ Proceed
  /\ \/ OptionDone(Wants(cmd)) /\ UNCHANGED <<faults, faked>>
     \/ Fault /\ faked' = TRUE /\ UNCHANGED <<opt, flash>>
  /\ UNCHANGED <<loop, prot, open, up, alive>>

\* reconnect_after_rop_change: reset and enter.  The mutant stays connected.
MutReconnect ==
  /\ Calls("reconnect") /\ up /\ Proceed
  /\ UNCHANGED <<loop, target, faults, faked>>
Reconnect ==
  /\ Calls("reconnect") /\ alive /\ Proceed
  /\ up' = TRUE /\ open' = FALSE /\ prot' = opt
  /\ UNCHANGED <<loop, flash, opt, alive, faults, faked>>

\* An attempt fails.  The mutants do not count it, and count one too many.
MutReconnectUncounted ==
  /\ Calls("reconnect") /\ (alive => Fault) /\ (~alive => UNCHANGED faults)
  /\ up' = FALSE /\ prot' = opt /\ open' = FALSE
  /\ UNCHANGED <<loop, steps, code, flash, opt, alive, faked>>
MutReconnectOneMore ==
  /\ Calls("reconnect") /\ (alive => Fault) /\ (~alive => UNCHANGED faults)
  /\ attempt' = attempt + 1
  /\ IF attempt = Attempts THEN Exit("error") ELSE UNCHANGED <<steps, code>>
  /\ up' = FALSE /\ prot' = opt /\ open' = FALSE
  /\ UNCHANGED <<cmd, image, offset, cmds, before, flash, opt, alive, faked>>
ReconnectFails ==
  /\ Calls("reconnect") /\ (alive => Fault) /\ (~alive => UNCHANGED faults)
  /\ attempt' = attempt + 1
  /\ IF attempt' = Attempts THEN Exit("error") ELSE UNCHANGED <<steps, code>>
  /\ up' = FALSE /\ prot' = opt /\ open' = FALSE
  /\ UNCHANGED <<cmd, image, offset, cmds, before, flash, opt, alive, faked>>

RopAfter ==
  /\ Calls("after") /\ up
  /\ IF opt = Wants(cmd) THEN Proceed ELSE Exit("error")
  /\ UNCHANGED <<loop, target, faults, faked>>

\* What a call that fails may have done all the same.
PartOf(s) ==
  CASE s \in {"enter", "try", "reset"} ->
         /\ up' = FALSE /\ prot' \in {prot, opt} /\ open' \in {open, FALSE}
         /\ UNCHANGED <<flash, opt>>
    [] s = "unlock" ->
         open' \in {open, up} /\ UNCHANGED <<flash, opt, prot, up>>
    [] s = "erase" ->
         /\ flash' \in {flash} \cup
              (IF up /\ open /\ ~prot THEN {Wiped(S) : S \in SUBSET Blocks} ELSE {})
         /\ UNCHANGED <<opt, prot, open, up>>
    [] s = "write" ->
         LET b == BlockOf(FlashStart + NextBlock(offset))
         IN  /\ flash' \in {flash} \cup
                  (IF up /\ open /\ ~prot THEN {Written(S) : S \in SUBSET b} ELSE {})
             /\ UNCHANGED <<opt, prot, open, up>>
    [] s = "option" ->
         /\ \/ UNCHANGED <<flash, opt>>
            \/ up /\ OptionDone(Wants(cmd))
         /\ UNCHANGED <<prot, open, up>>
    [] OTHER -> UNCHANGED <<flash, opt, prot, open, up>>

\* The probe can do what it is asked, but for a fault.
Possible(s) ==
  /\ s = "enter" => alive
  /\ s \in {"open", "enter", "try", "report", "reset"} \/ up
  /\ s \in {"erase", "write"} => open /\ ~prot

\* ProtocolError or OSError, caught by main.
Raises ==
  /\ steps # << >> /\ Head(steps) \notin {"reconnect", "give up"}
  /\ Calls("write") => NextBlock(offset) < FlashSize
  /\ IF Possible(Head(steps)) THEN Fault ELSE UNCHANGED faults
  /\ PartOf(Head(steps)) /\ Exit("error")
  /\ UNCHANGED <<loop, alive, faked>>

\* The target loses power, for a moment or for good (external).
PowerLoss ==
  /\ Fault /\ alive' \in BOOLEAN
  /\ up' = FALSE /\ open' = FALSE /\ prot' = opt
  /\ UNCHANGED <<loop, steps, code, flash, opt, faked>>
PowerReturns ==
  /\ ~alive /\ alive' = TRUE
  /\ UNCHANGED <<loop, steps, code, flash, opt, prot, open, up, faults, faked>>

Host ==
  \/ Open \/ Enter \/ Try \/ GiveUp \/ Unlock \/ Check \/ Erase \/ WriteBlock
  \/ WritesDone \/ Verify \/ Reset \/ Access \/ Report \/ RopBefore \/ WriteRop
  \/ Reconnect \/ ReconnectFails \/ RopAfter \/ Raises

Next == Launch \/ Host \/ PowerLoss \/ PowerReturns

\* Every call of the probe returns (UsbProtocol: CallsReturn).
Spec == Init /\ [][Next]_vars /\ WF_vars(Host)

-----------------------------------------------------------------------------
Succeeded(kind) == cmd.kind = kind /\ code = "success"
Untouched == flash = before.flash /\ opt = before.opt

\* A command is refused before it touches the target exactly if its file is not
\* one that can be flashed, by the definition of the format, or its confirmation
\* is missing (rp2040_swim.py:294, 329, 407-408).
RefusalsExact ==
  LET due == \/ cmd.kind = "flash" /\ ~Flashable(cmd.file)
             \/ cmd.kind \in {"set-rop", "unprotect-rop"} /\ ~cmd.confirmed
  IN  /\ due => code = "error" /\ Untouched
      /\ cmd.kind = "flash" /\ ~due =>
           \A a \in Flash : \/ <<a, image[a]>> \in Meant(cmd.file)
                            \/ image[a] = Erased /\ ~\E p \in Meant(cmd.file) : p[1] = a

\* "programmed" means that flash holds, in every byte, what the file says and
\* zeros elsewhere: with --verify whatever happened on the way, without it
\* unless the firmware reported a lost operation as done.
FlashedMeansImage ==
  Succeeded("flash") /\ (cmd.verify \/ ~faked) =>
    \A a \in Flash : \/ <<a, flash[a]>> \in Meant(cmd.file)
                     \/ flash[a] = Erased /\ ~\E p \in Meant(cmd.file) : p[1] = a

\* After a ROP command that succeeds, OPT0 says what was asked for and the
\* target works by it, not only from its next reset on; giving up protection
\* has erased the flash, and a command with nothing to do has changed nothing.
RopOkMeansActive ==
  /\ Succeeded("set-rop") => opt /\ prot /\ flash = before.flash
  /\ Succeeded("unprotect-rop") =>
       /\ ~opt /\ ~prot
       /\ IF before.opt THEN \A a \in Flash : flash[a] = Erased ELSE Untouched

\* Every command ends, with a target that is gone for good too.
FlowsEnd == steps # << >> ~> steps = << >>
=============================================================================
