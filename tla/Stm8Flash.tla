------------------------------ MODULE Stm8Flash ------------------------------
(***************************************************************************)
(* Flash and option-byte programming: the three commands of stm8_flash.c,  *)
(* run one at a time by the command loop, against the flash controller of  *)
(* the target.                                                             *)
(*                                                                         *)
(* A step is one exchange the firmware waits for: one register access, one *)
(* write that triggers an operation, one communication reset, or one call  *)
(* of set_flash_cr2 (two writes and two read-backs with nothing between    *)
(* them; what a failure may leave behind is a choice).  The controller     *)
(* ends its operation, and the target loses power, between any two steps.  *)
(*                                                                         *)
(* WORD, WIRE and BLOCK stand for 2^32 (a C address), 2^24 (the address    *)
(* bytes of a SWIM command) and 64.                                        *)
(***************************************************************************)
EXTENDS Naturals, Sequences, FiniteSets

CONSTANTS
  WORD, WIRE, BLOCK,
  OptionStart, OptionEnd, \* addresses the option command accepts
  Protected,      \* cells the target refuses to change (UBC, ROP)
  EraseRequests,  \* <<address, length>> of FLASH_ERASE
  WriteRequests,  \* <<address, data>> of FLASH_WRITE_BLOCK
  OptionRequests, \* <<address, value>> of OPTION_WRITE_BYTE
  Erased, Old,    \* 0x00, and what the cells hold at first
  MaxPolls,       \* attempts of the two IAPSR loops (2000 and 100)
  MaxFaults,      \* bound: transactions lost and power cycles
  MaxCmds         \* bound: commands per behaviour

Cells == 0 .. WIRE - 1
Values == {Erased, Old} \cup {r[2] : r \in OptionRequests}
            \cup UNION {{r[2][i] : i \in DOMAIN r[2]} : r \in WriteRequests}

ASSUME SizeAssumption ==
  /\ {WORD, WIRE, BLOCK, MaxPolls} \subseteq Nat \ {0}
  /\ WORD % WIRE = 0 /\ WIRE % BLOCK = 0 /\ Protected \subseteq Cells
\* No data is longer than RPSW_MAX_PAYLOAD.
ASSUME RequestAssumption ==
  /\ \A r \in EraseRequests : r[1] \in 0 .. WORD - 1 /\ r[2] \in 0 .. WORD - 1
  /\ \A r \in WriteRequests :
       r[1] \in 0 .. WORD - 1 /\ r[2] \in Seq(Values) /\ Len(r[2]) < WIRE
  /\ \A r \in OptionRequests : r[1] \in 0 .. WORD - 1
  /\ MaxFaults \in Nat /\ MaxCmds \in Nat

VARIABLES
  req,      \* the command being run, with its payload
  pc,       \* the point it has reached
  cur,      \* loop variable: address of the block, index of the byte
  polls,    \* attempts made by the running IAPSR loop
  st,       \* the status a failing command will return
  diag,     \* g_flash_last_error: the flash command whose text it holds,
            \* counted by cmds; 0 if it is empty
  text,     \* the flash part of g_last_error, in the same way
  result,   \* status of the last flash command
  mem,      \* the cells of the target, flash and option bytes (external)
  ctl,      \* its flash controller (external)
  op,       \* the operation under way (external)
  faults, cmds,         \* counters of the bounds
  lost, prior, before   \* history: see StartCommand

vars == <<req, pc, cur, polls, st, diag, text, result, mem, ctl, op, faults,
          cmds, lost, prior, before>>
progress == <<req, cur, result, cmds, prior, before>>

Modes == {"normal", "erase", "write", "option"}
NoOp == [cells |-> {}, value |-> Erased]
NoReq == [kind |-> "none"]
Busy == op.cells # {}
Answers == {"TIMEOUT", "NACK"}

\* mode: what CR2 and NCR2 agree on, "mixed" if they do not; the IAPSR flags
\* eop, wrpg (WR_PG_DIS), pul, dul; on: in SWIM and answering.
Locked == [mode |-> "normal", eop |-> FALSE, wrpg |-> FALSE, pul |-> FALSE,
           dul |-> FALSE, on |-> FALSE]

Pcs == {"idle", "unlocked", "dukr", "dul_wait", "mode", "trigger", "resync",
        "wait", "clear", "abort"}

TypeOK ==
  /\ req.kind \in {"none", "erase", "write", "option"} /\ pc \in Pcs
  /\ cur \in 0 .. WORD /\ polls \in 0 .. MaxPolls
  /\ st \in {"OK", "TARGET"} \cup Answers
  /\ diag \in 0 .. MaxCmds /\ text \in 0 .. MaxCmds
  /\ result \in {"OK", "TARGET", "BAD_ARGUMENT"} \cup Answers
  /\ mem \in [Cells -> Values]
  /\ ctl \in [mode : Modes \cup {"mixed"}, eop : BOOLEAN, wrpg : BOOLEAN,
              pul : BOOLEAN, dul : BOOLEAN, on : BOOLEAN]
  /\ op \in [cells : SUBSET Cells, value : Values]
  /\ faults \in 0 .. MaxFaults /\ cmds \in 0 .. MaxCmds
  /\ lost \in BOOLEAN /\ prior \subseteq Cells /\ before \in [Cells -> Values]

-----------------------------------------------------------------------------
(* Addresses.                                                              *)

Wire(a) == a % WIRE
RoundDown(a) == a - (a % BLOCK)

\* uint32_t end, and the end of the last block, both modulo WORD.
EndOf(a, n) == (a + n) % WORD
\* Mutant: a whole block is added to an end that is already round.
MutRoundedEnd(a, n) == RoundDown((EndOf(a, n) + BLOCK) % WORD)
RoundedEnd(a, n) == RoundDown((EndOf(a, n) + BLOCK - 1) % WORD)
BlockCells(b) == {Wire(b + i) : i \in 0 .. BLOCK - 1}

\* k is the next byte of the data from i that is not skipped, or past the end.
NextByte(d, i, k) ==
  /\ k <= Len(d) => d[k] # Erased
  /\ \A j \in i .. k - 1 : d[j] = Erased

\* The cells the trigger at cur is for, and what it puts there.
Target(r, c) ==
  CASE r.kind = "erase"  -> [cells |-> BlockCells(c), value |-> Erased]
    [] r.kind = "write"  -> [cells |-> {Wire(r.addr + c - 1)},
                             value |-> r.data[c]]
    [] r.kind = "option" -> [cells |-> {Wire(r.addr)}, value |-> r.data]

Applied(o) == [a \in Cells |-> IF a \in o.cells THEN o.value ELSE mem[a]]

-----------------------------------------------------------------------------
(* Exchanges.  One fails freely when the target is off or busy with high   *)
(* voltage, otherwise by a fault.                                          *)

Fails ==
  \/ (~ctl.on \/ Busy) /\ UNCHANGED faults
  \/ faults < MaxFaults /\ faults' = faults + 1

\* Reading IAPSR clears EOP and WR_PG_DIS; an unheard answer may have too.
Seen == [ctl EXCEPT !.eop = FALSE, !.wrpg = FALSE]
ReadFails == Fails /\ ctl' \in {ctl, Seen}

\* set_flash_cr2.  Registers written while busy do not change; a failure may
\* have written one of them or both.
Cr2Set(v) ==
  /\ ctl.on /\ (Busy => ctl.mode = v)
  /\ ctl' = [ctl EXCEPT !.mode = v]
  /\ UNCHANGED faults
Cr2Fails(v, s) ==
  \/ /\ s \in Answers /\ Fails
     /\ ctl' \in {ctl} \cup (IF ctl.on /\ ~Busy
                             THEN {[ctl EXCEPT !.mode = m] : m \in {"mixed", v}}
                             ELSE {})
  \/ s = "TARGET" /\ ctl.on /\ ctl.mode # v /\ Fails /\ UNCHANGED ctl

Goto(p) == pc' = p /\ UNCHANGED <<st, diag, text, result, cur, polls>>

\* A return, with the texts that set_last_error puts together after a failure;
\* locals start from scratch next time.
Return(s, d) ==
  /\ pc' = "idle" /\ result' = s /\ diag' = d
  /\ text' = IF s = "OK" THEN text ELSE d
  /\ cur' = 0 /\ polls' = 0 /\ st' = "OK"

\* Failure after which erase and option try to restore CR2 first.
Abort(s) ==
  /\ pc' = "abort" /\ st' = s /\ diag' = cmds
  /\ UNCHANGED <<text, result, cur, polls>>

\* Mutants: no limit; no count.
MutPollNoLimit == polls' = polls + 1 /\ UNCHANGED <<pc, st, diag, text, result, cur>>
MutPollNoCount ==
  polls + 1 < MaxPolls /\ UNCHANGED <<polls, pc, st, diag, text, result, cur>>

\* One more turn of a loop over IAPSR, and the turn after which it gives up.
PollAgain ==
  /\ polls + 1 < MaxPolls /\ polls' = polls + 1
  /\ UNCHANGED <<pc, st, diag, text, result, cur>>
LastPoll == polls + 1 >= MaxPolls

-----------------------------------------------------------------------------
(* Commands.                                                               *)

Init ==
  /\ req = NoReq /\ pc = "idle" /\ cur = 0 /\ polls = 0 /\ st = "OK"
  /\ diag = 0 /\ text = 0 /\ result = "OK"
  /\ mem = [a \in Cells |-> Old]
  /\ ctl = [Locked EXCEPT !.on = TRUE] /\ op = NoOp
  /\ faults = 0 /\ cmds = 0
  /\ lost = FALSE /\ prior = {} /\ before = mem

\* lost: a trigger of this command did not reach the controller; prior: cells
\* of an operation an earlier command left running; before: the cells then.
StartCommand(r) ==
  /\ pc = "idle" /\ cmds < MaxCmds /\ cmds' = cmds + 1
  /\ req' = r
  /\ lost' = FALSE /\ prior' = op.cells /\ before' = mem
  /\ UNCHANGED <<mem, ctl, op, faults>>

\* Mutant: the text of the last failure stays.
MutBeginKeepsText(p) == pc' = p /\ UNCHANGED <<st, diag, text, result, cur, polls>>

\* flash_diag_clear
Begin(p) ==
  pc' = p /\ diag' = 0 /\ UNCHANGED <<st, text, result, cur, polls>>

StartErase(a, n) ==
  /\ StartCommand([kind |-> "erase", addr |-> a, len |-> n])
  /\ IF n = 0 THEN Return("OK", 0) ELSE Begin("unlocked")

StartWrite(a, d) ==
  /\ StartCommand([kind |-> "write", addr |-> a, data |-> d])
  /\ IF d = <<>> THEN Return("OK", 0) ELSE Begin("unlocked")

StartOption(a, v) ==
  /\ StartCommand([kind |-> "option", addr |-> a, data |-> v])
  /\ IF a < OptionStart \/ a >= OptionEnd
     THEN Return("BAD_ARGUMENT", cmds') ELSE Begin("unlocked")

\* main.c refuses a request whose length does not fit its command before any
\* routine of stm8_flash.c is reached, and commands that have nothing to do with
\* flash fail too: flash_diag_clear is not called, and set_last_error puts what
\* g_flash_last_error still holds behind the error.
FailsElsewhere ==
  /\ pc = "idle"
  /\ text' = diag
  /\ UNCHANGED <<progress, pc, polls, st, diag, mem, ctl, op, faults, lost>>

\* What erase and write do once require_program_unlocked lets them.
FirstBlock ==
  IF EndOf(req.addr, req.len) < req.addr THEN Return("BAD_ARGUMENT", diag)
  ELSE IF RoundDown(req.addr) >= RoundedEnd(req.addr, req.len)
  THEN Return("OK", diag)
  ELSE /\ cur' = RoundDown(req.addr) /\ pc' = "mode"
       /\ UNCHANGED <<st, diag, text, result, polls>>
FirstByte ==
  /\ \E k \in 1 .. Len(req.data) + 1 : NextByte(req.data, 1, k) /\ cur' = k
  /\ pc' = "mode"
  /\ UNCHANGED <<st, diag, text, result, polls>>

\* Mutant: the read does not clear what an earlier operation left in IAPSR.
MutUnlockedUnread ==
  /\ pc = "unlocked" /\ ctl.on
  /\ CASE req.kind = "option" -> Goto(IF ctl.dul THEN "mode" ELSE "dukr")
       [] req.kind # "option" /\ ~ctl.pul -> Return("TARGET", cmds)
       [] req.kind = "erase" /\ ctl.pul -> FirstBlock
       [] req.kind = "write" /\ ctl.pul -> FirstByte
  /\ UNCHANGED <<req, cmds, prior, before, mem, ctl, op, faults, lost>>

\* require_program_unlocked, or the first read of stm8_flash_unlock_eeprom.
Unlocked ==
  /\ pc = "unlocked" /\ ctl.on /\ ctl' = Seen
  /\ CASE req.kind = "option" -> Goto(IF ctl.dul THEN "mode" ELSE "dukr")
       [] req.kind # "option" /\ ~ctl.pul -> Return("TARGET", cmds)
       [] req.kind = "erase" /\ ctl.pul -> FirstBlock
       [] req.kind = "write" /\ ctl.pul -> FirstByte
  /\ UNCHANGED <<req, cmds, prior, before, mem, op, faults, lost>>

UnlockReadFails ==
  /\ pc = "unlocked" /\ ReadFails
  /\ \E s \in Answers : Return(s, cmds)
  /\ UNCHANGED <<req, cmds, prior, before, mem, op, lost>>

\* write_key_pair_same_register on DUKR; the target may ignore the pair.
WriteKeys ==
  /\ pc = "dukr"
  /\ \/ /\ ctl.on /\ ctl' \in {ctl, [ctl EXCEPT !.dul = TRUE]}
        /\ Goto("dul_wait") /\ UNCHANGED faults
     \/ /\ Fails /\ UNCHANGED ctl
        /\ \E s \in Answers : Return(s, cmds)
  /\ UNCHANGED <<req, cmds, prior, before, mem, op, lost>>

\* wait_iapsr_mask(DUL)
WaitDul ==
  /\ pc = "dul_wait"
  /\ \/ /\ ctl.on /\ ctl' = Seen /\ UNCHANGED faults
        /\ \/ /\ ctl.dul /\ pc' = "mode" /\ polls' = 0
              /\ UNCHANGED <<st, diag, text, result, cur>>
           \/ ~ctl.dul /\ PollAgain
           \/ ~ctl.dul /\ LastPoll /\ Return("TARGET", cmds)
     \/ ReadFails /\ \E s \in Answers : Return(s, cmds)
  /\ UNCHANGED <<req, cmds, prior, before, mem, op, lost>>

\* set_flash_cr2(ERASE, PRG or OPT).
SetMode ==
  /\ pc = "mode" /\ Cr2Set(req.kind)
  /\ Goto(IF req.kind = "write" /\ cur > Len(req.data) THEN "clear"
                                                       ELSE "trigger")
  /\ UNCHANGED <<req, cmds, prior, before, mem, op, lost>>

SetModeFails ==
  /\ pc = "mode"
  /\ \E s \in Answers \cup {"TARGET"} :
       /\ Cr2Fails(req.kind, s)
       /\ IF req.kind = "write" THEN Return(s, cmds) ELSE Abort(s)
  /\ UNCHANGED <<req, cmds, prior, before, mem, op, lost>>

-----------------------------------------------------------------------------
(* The write that starts an operation, and what follows it.                *)

\* A byte that was acknowledged is polled for at once; anything else, and any
\* block or option byte, is resynchronised first.
AfterTrigger(s) ==
  /\ pc' = IF req.kind = "write" /\ s = "OK" THEN "wait" ELSE "resync"
  /\ polls' = 0
  /\ UNCHANGED <<st, diag, text, result, cur, req, cmds, prior, before, mem>>

Accepts(t) ==
  /\ ctl.mode = req.kind /\ t.cells \cap Protected = {}
  /\ IF req.kind = "option" THEN ctl.dul ELSE ctl.pul

TriggerStarts ==
  /\ pc = "trigger" /\ ctl.on /\ ~Busy
  /\ Accepts(Target(req, cur)) /\ op' = Target(req, cur)
  /\ \E s \in Answers \cup {"OK"} : AfterTrigger(s)
  /\ UNCHANGED <<ctl, faults, lost>>

TriggerRefused ==
  /\ pc = "trigger" /\ ctl.on /\ ~Busy /\ ~Accepts(Target(req, cur))
  /\ ctl' = [ctl EXCEPT !.wrpg = TRUE]
  /\ AfterTrigger("OK")
  /\ UNCHANGED <<op, faults, lost>>

\* The write does not get through, or a controller at work ignores it.
TriggerLost ==
  /\ pc = "trigger"
  /\ \/ Fails /\ \E s \in Answers : AfterTrigger(s)
     \/ ctl.on /\ Busy /\ AfterTrigger("OK") /\ UNCHANGED faults
  /\ lost' = TRUE
  /\ UNCHANGED <<ctl, op>>

\* flash_busy_delay_and_resync
Resync ==
  /\ pc = "resync"
  /\ \/ ctl.on /\ Goto("wait") /\ UNCHANGED faults
     \/ Fails /\ Abort("TIMEOUT")
  /\ UNCHANGED <<req, cmds, prior, before, mem, ctl, op, lost>>

\* The loop of wait_flash_complete.  HVOFF is 0 while the controller is busy
\* and may or may not be 1 when it is not; EOP or HVOFF ends the wait.
NextPart ==
  IF req.kind = "write"
  THEN /\ \E k \in cur + 1 .. Len(req.data) + 1 :
            NextByte(req.data, cur + 1, k) /\ cur' = k
       /\ pc' = IF cur' > Len(req.data) THEN "clear" ELSE "trigger"
       /\ UNCHANGED <<st, diag, text, result, polls>>
  ELSE Goto("clear")

\* stm8_flash_write_block tries no restore here: the message of
\* wait_flash_complete is already there (lines 433 to 439).
WaitGivesUp(s) ==
  IF req.kind = "write" THEN Return(s, cmds) ELSE Abort(s)

\* Mutant: WR_PG_DIS is not looked at first.
MutPollDone(hvoff) == ctl.eop \/ hvoff

PollDone(hvoff) == ~ctl.wrpg /\ (ctl.eop \/ hvoff)

Wait ==
  /\ pc = "wait" /\ ctl.on /\ ctl' = Seen
  /\ \E hvoff \in BOOLEAN :
       /\ hvoff => ~Busy
       /\ \/ ctl.wrpg /\ WaitGivesUp("TARGET")
          \/ PollDone(hvoff) /\ NextPart
          \/ ~ctl.wrpg /\ ~PollDone(hvoff) /\ PollAgain
          \/ ~ctl.wrpg /\ ~PollDone(hvoff) /\ LastPoll /\ WaitGivesUp("TARGET")
  /\ UNCHANGED <<req, cmds, prior, before, mem, op, faults, lost>>

WaitReadFails ==
  /\ pc = "wait" /\ ReadFails
  /\ \E s \in Answers : WaitGivesUp(s)
  /\ UNCHANGED <<req, cmds, prior, before, mem, op, lost>>

\* clear_flash_cr2 at the end of a block, or of the command.
Clear ==
  /\ pc = "clear" /\ Cr2Set("normal")
  /\ IF req.kind = "erase" /\ cur + BLOCK < RoundedEnd(req.addr, req.len)
     THEN /\ cur' = cur + BLOCK /\ pc' = "mode" /\ polls' = 0
          /\ UNCHANGED <<st, diag, text, result>>
     ELSE Return("OK", diag)
  /\ UNCHANGED <<req, cmds, prior, before, mem, op, lost>>

ClearFails ==
  /\ pc = "clear"
  /\ \E s \in Answers \cup {"TARGET"} :
       Cr2Fails("normal", s) /\ Return(s, cmds)
  /\ UNCHANGED <<req, cmds, prior, before, mem, op, lost>>

\* (void)clear_flash_cr2(), then the status of the failure.
AbortReturn ==
  /\ pc = "abort"
  /\ \/ Cr2Set("normal")
     \/ \E s \in Answers \cup {"TARGET"} : Cr2Fails("normal", s)
  /\ Return(st, cmds)
  /\ UNCHANGED <<req, cmds, prior, before, mem, op, lost>>

-----------------------------------------------------------------------------
(* The target and the host.                                                *)

OperationEnds ==
  /\ Busy
  /\ mem' = Applied(op) /\ op' = NoOp /\ ctl' = [ctl EXCEPT !.eop = TRUE]
  /\ UNCHANGED <<progress, pc, polls, st, diag, text, faults, lost>>

\* A reset of the target cuts an operation short or lets it finish.
ResetTo(c) ==
  /\ ctl' = c /\ op' = NoOp /\ mem' \in {mem, Applied(op)}
  /\ UNCHANGED <<progress, pc, polls, st, diag, text, lost>>

PowerLoss == faults < MaxFaults /\ faults' = faults + 1 /\ ResetTo(Locked)

\* ENTER_SWIM resets the target; the host then unlocks what it wants to write.
HostEnters ==
  pc = "idle" /\ ResetTo([Locked EXCEPT !.on = TRUE]) /\ UNCHANGED faults

HostUnlocks ==
  /\ pc = "idle" /\ ctl.on
  /\ \E lock \in {"pul", "dul"} : ctl' = [ctl EXCEPT ![lock] = TRUE]
  /\ UNCHANGED <<progress, pc, polls, st, diag, text, mem, op, faults, lost>>

Host ==
  \/ HostEnters \/ HostUnlocks \/ FailsElsewhere
  \/ \E r \in EraseRequests : StartErase(r[1], r[2])
  \/ \E r \in WriteRequests : StartWrite(r[1], r[2])
  \/ \E r \in OptionRequests : StartOption(r[1], r[2])

Firmware ==
  \/ Unlocked \/ UnlockReadFails \/ WriteKeys \/ WaitDul
  \/ SetMode \/ SetModeFails
  \/ TriggerStarts \/ TriggerRefused \/ TriggerLost \/ Resync
  \/ Wait \/ WaitReadFails \/ Clear \/ ClearFails \/ AbortReturn

Next == Host \/ Firmware \/ OperationEnds \/ PowerLoss

\* Every wait of the firmware has a deadline: it always takes its next step.
Spec == Init /\ [][Next]_vars
FairSpec == Spec /\ WF_vars(Firmware)

-----------------------------------------------------------------------------
(* Properties.                                                             *)

\* The cells a request asks to change, and what it means that it is done.
Requested(r) ==
  CASE r.kind = "none" -> {}
    [] r.kind = "erase" ->
         UNION {BlockCells(RoundDown(a)) : a \in r.addr .. r.addr + r.len - 1}
    [] r.kind = "write" ->
         {Wire(r.addr + i - 1) : i \in {k \in DOMAIN r.data : r.data[k] # Erased}}
    [] r.kind = "option" -> {Wire(r.addr)}

Done(r, m) ==
  CASE r.kind = "erase" ->
         \A a \in r.addr .. r.addr + r.len - 1 : m[Wire(a)] = Erased
    [] r.kind = "write" ->
         \A i \in DOMAIN r.data :
           m[Wire(r.addr + i - 1)] = r.data[i]
    [] r.kind = "option" -> m[Wire(r.addr)] = r.data

Succeeds == pc # "idle" /\ pc' = "idle" /\ result' = "OK"

\* Cells of data bytes equal to 0x00, which stm8_flash_write_block leaves alone.
Skipped(r) ==
  IF r.kind # "write" THEN {}
  ELSE {Wire(r.addr + i - 1) : i \in {k \in DOMAIN r.data : r.data[k] = Erased}}
Wraps(r) == r.kind = "erase" /\ r.addr + r.len > WORD - BLOCK

\* A command that started on an idle controller, whose triggers got through,
\* and whose range does not wrap, returns OK only when every cell it names
\* holds what it asked for: EOP, HVOFF and WR_PG_DIS never make it report an
\* operation that is still running, was refused, or belongs to another command.
\* Bytes 0x00 are not written at all, so a write keeps this promise only for
\* cells that were erased where its data is 0x00; over anything else it returns
\* OK and leaves the old contents.
OkMeansDone ==
  [][/\ Succeeds /\ ~lost /\ prior = {} /\ ~Wraps(req)
     /\ \A a \in Skipped(req) : before[a] = Erased
     => Done(req, mem')]_vars

\* A cell changes only if the running command (or an operation still running
\* when it started) asked for it, however the command ends.
OnlyRequested ==
  \A a \in Cells : mem[a] # before[a] => a \in Requested(req) \cup prior

\* While an operation that this command started is running, nothing is
\* triggered, and CR2 is rewritten only by a command that gives up: its SWIM
\* accesses failed or all polls were used, and it clears CR2 without knowing
\* whether the controller is still at work (lines 267, 273, 347, 353).
BusyRespected ==
  Busy /\ prior = {} =>
    /\ pc \notin {"mode", "trigger", "clear"}
    /\ pc = "abort" => st \in Answers \/ LastPoll

\* Between commands g_flash_last_error is empty or tells of the latest flash
\* command: it does if and only if that failed, but for an erase whose end
\* overflows, which fails without a text (line 302).  Every error since that
\* failure, of whatever command, carries its text; no error carries the text of
\* a flash command that succeeded, nor one that a later flash command has
\* cleared.
OverflowRefused == req.kind = "erase" /\ result = "BAD_ARGUMENT"
DiagTellsResult ==
  pc = "idle" =>
    /\ diag = IF result = "OK" \/ OverflowRefused THEN 0 ELSE cmds
    /\ result # "OK" => text = diag
    /\ result = "OK" => text = 0 \/ text < cmds

\* Every command returns, whatever the target does.
CommandsFinish == pc # "idle" ~> pc = "idle"

\* docs/limitations.md: "the firmware refuses erase/write instead of faking
\* success".
OkIsNotFaked == [][Succeeds => Done(req, mem')]_vars
=============================================================================
