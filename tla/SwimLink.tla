------------------------------ MODULE SwimLink ------------------------------
(***************************************************************************)
(* Memory access over the wire: the chunks of stm8_dm.c, the transactions  *)
(* of swim_link_read (ROTF) and swim_link_write (WOTF), and the debug      *)
(* module of the target at the other end.                                  *)
(*                                                                         *)
(* A step is one exchange of frames: the host sends a frame and reads the  *)
(* acknowledge bit, or the acknowledge and a data frame.  A fault is a     *)
(* frame or an acknowledge that is lost or fails its parity; a whole       *)
(* acknowledge is never read as its opposite.  After a failure the target  *)
(* may be left in the middle of the transaction, and does or does not take *)
(* the next command for one.  Link up and calibrated is SwimSession's.     *)
(*                                                                         *)
(* BYTE stands for 2^8, WORD for 2^32, CHUNK for 64.                       *)
(***************************************************************************)
EXTENDS Naturals, Sequences

CONSTANTS
  BYTE, WORD, CHUNK,
  Values, Requests, First,  \* see MemoryAccess
  MaxFaults                 \* bound: exchanges that go wrong

WIRE == BYTE * BYTE * BYTE
Cells == 0 .. WIRE - 1

ASSUME SizeAssumption ==
  /\ {BYTE, WORD, CHUNK} \subseteq Nat \ {0} /\ WORD % WIRE = 0
  /\ MaxFaults \in Nat /\ First \in [Cells -> Values]
\* No caller asks for more than RPSW_MAX_PAYLOAD bytes.
ASSUME RequestAssumption ==
  \A r \in Requests : /\ r.op \in {"read", "write"} /\ r.addr \in 0 .. WORD - 1
                      /\ r.data \in Seq(Values) /\ Len(r.data) <= WIRE

VARIABLES
  req,      \* the call being run
  pc,       \* "idle", or what is sent next
  base,     \* bytes of the chunks before: done in stm8_dm.c
  i,        \* index in the chunk
  buf,      \* data read
  result,   \* status of the last call
  mem,      \* memory of the target (external)
  tgt,      \* what its debug module waits for (external)
  faults    \* counter of the bound

vars == <<req, pc, base, i, buf, result, mem, tgt, faults>>

NoReq == [op |-> "none", addr |-> 0, data |-> <<>>]
Fields == {"command", "length", "AE", "AH", "AL", "data", "ack"}
Errors == {"TIMEOUT", "NACK"}
Size == Len(req.data)

\* Between transactions.
Ready == [wants |-> "command", op |-> "none", n |-> 0, addr |-> 0]

TypeOK ==
  /\ req \in Requests \cup {NoReq} /\ pc \in Fields \cup {"idle"}
  /\ base \in Nat /\ i \in 0 .. CHUNK
  /\ buf \in Seq(Values) /\ result \in Errors \cup {"OK"}
  /\ mem \in [Cells -> Values]
  /\ tgt \in [wants : Fields, op : {"none", "read", "write"}, n : 0 .. CHUNK,
              addr : Cells]
  /\ faults \in 0 .. MaxFaults

-----------------------------------------------------------------------------
(* The frames.                                                             *)

Chunk(b) == IF Size - b > CHUNK THEN CHUNK ELSE Size - b
\* Mutant: every chunk goes to the address of the first.
MutAddress == req.addr
Address == (req.addr + base) % WORD

\* The value sent for field f.
Sent(f) ==
  CASE f = "command" -> req.op
    [] f = "length"  -> Chunk(base)
    [] f = "AE"      -> (Address \div (BYTE * BYTE)) % BYTE
    [] f = "AH"      -> (Address \div BYTE) % BYTE
    [] f = "AL"      -> Address % BYTE
    [] f = "data"    -> req.data[base + i + 1]
    [] f = "ack"     -> "ACK"

\* What the target does with the field f of value v.  It sends the byte at its
\* address after AL, and the next one after an acknowledge.
Taken(f, v) ==
  CASE f = "command" -> [Ready EXCEPT !.wants = "length", !.op = v]
    [] f = "length"  -> [tgt EXCEPT !.wants = "AE", !.n = v, !.addr = 0]
    [] f = "AE"      -> [tgt EXCEPT !.wants = "AH", !.addr = v * BYTE * BYTE]
    [] f = "AH"      -> [tgt EXCEPT !.wants = "AL", !.addr = @ + v * BYTE]
    [] f = "AL"      -> [tgt EXCEPT !.addr = @ + v,
                           !.wants = IF tgt.op = "read" THEN "ack" ELSE "data"]
    [] f \in {"data", "ack"} ->
         IF tgt.n = 1 THEN Ready
         ELSE [tgt EXCEPT !.n = @ - 1, !.addr = (@ + 1) % WIRE]

Target(f) ==
  /\ tgt' = Taken(f, Sent(f))
  /\ mem' = IF f = "data" THEN [mem EXCEPT ![tgt.addr] = Sent(f)] ELSE mem

\* The exchange of f works.
Exchange(f) == pc = f /\ Target(f) /\ UNCHANGED faults

-----------------------------------------------------------------------------
(* The host.                                                               *)

Init ==
  /\ req = NoReq /\ pc = "idle" /\ base = 0 /\ i = 0 /\ buf = <<>>
  /\ result = "OK" /\ mem = First /\ tgt = Ready /\ faults = 0

\* A call without data sends nothing.
Call(r) ==
  /\ req = NoReq /\ req' = r /\ base' = 0 /\ i' = 0 /\ buf' = <<>>
  /\ pc' = IF r.data = <<>> THEN "idle" ELSE "command"
  /\ UNCHANGED <<result, mem, tgt, faults>>

Return(s) == pc' = "idle" /\ req' = NoReq /\ result' = s /\ i' = 0 /\ base' = 0

\* The call returns: an empty one at once, others after the last chunk.
ReturnOk ==
  /\ req # NoReq /\ pc = "idle" /\ Return("OK")
  /\ UNCHANGED <<buf, mem, tgt, faults>>

\* Mutant: the middle byte of the address goes first.
MutSendHeader ==
  /\ \/ Exchange("command") /\ pc' = "length"
     \/ Exchange("length") /\ pc' = "AH"
     \/ Exchange("AH") /\ pc' = "AE"
     \/ Exchange("AE") /\ pc' = "AL"
     \/ Exchange("AL") /\ req.op = "write" /\ pc' = "data"
  /\ UNCHANGED <<req, base, i, buf, result>>
\* send_command, then send_byte_labeled of the length and the address.
SendHeader ==
  /\ \/ Exchange("command") /\ pc' = "length"
     \/ Exchange("length") /\ pc' = "AE"
     \/ Exchange("AE") /\ pc' = "AH"
     \/ Exchange("AH") /\ pc' = "AL"
     \/ Exchange("AL") /\ req.op = "write" /\ pc' = "data"
  /\ UNCHANGED <<req, base, i, buf, result>>

\* Mutant: done stays as it is.
MutNextChunk == i' = 0 /\ pc' = "command" /\ UNCHANGED base
\* The loop of stm8_dm.c: the next chunk or the end.
NextChunk ==
  /\ i' = 0 /\ base' = base + Chunk(base)
  /\ pc' = IF base + Chunk(base) < Size THEN "command" ELSE "idle"

SendData ==
  /\ Exchange("data")
  /\ IF i + 1 < Chunk(base) THEN i' = i + 1 /\ UNCHANGED <<pc, base>>
                            ELSE NextChunk
  /\ UNCHANGED <<req, buf, result>>

\* Mutant: one byte more than asked for.
MutReadByte ==
  /\ \/ Exchange("AL") /\ req.op = "read" /\ pc' = "ack"
     \/ Exchange("ack") /\ i <= Chunk(base) /\ UNCHANGED pc
  /\ i' = i + 1 /\ buf' = Append(buf, mem[tgt'.addr])
  /\ UNCHANGED <<req, base, result>>
\* send_byte_read_ack_frame_labeled, recv_byte_after_ack: the byte sent back
\* is the one at the address the target has reached.
ReadByte ==
  /\ \/ Exchange("AL") /\ req.op = "read" /\ pc' = "ack"
     \/ Exchange("ack") /\ i < Chunk(base) /\ UNCHANGED pc
  /\ i' = i + 1 /\ buf' = Append(buf, mem[tgt'.addr])
  /\ UNCHANGED <<req, base, result>>

\* send_target_frame_ack after the last byte: nothing tells whether it was heard.
LastAck ==
  /\ pc = "ack" /\ i = Chunk(base) /\ NextChunk
  /\ \/ Exchange("ack")
     \/ faults < MaxFaults /\ faults' = faults + 1 /\ UNCHANGED <<mem, tgt>>
  /\ UNCHANGED <<req, buf, result>>

\* Mutant: a data byte is sent again when its acknowledge does not come.
MutFails ==
  /\ pc = "data" /\ faults < MaxFaults /\ faults' = faults + 1
  /\ Target(pc) \/ UNCHANGED <<mem, tgt>>
  /\ UNCHANGED <<req, pc, base, i, buf, result>>
\* Any failure ends the call.  The target took the frame or not; one in the
\* middle of something else need not take a command.
Fails ==
  /\ pc \in Fields
  /\ pc = "ack" => i < Chunk(base)
  /\ \/ faults < MaxFaults /\ faults' = faults + 1
     \/ pc = "command" /\ tgt # Ready /\ UNCHANGED faults
  /\ Target(pc) \/ UNCHANGED <<mem, tgt>>
  /\ \E s \in Errors :
       /\ pc = "ack" \/ (pc = "AL" /\ req.op = "read") => s = "TIMEOUT"
       /\ Return(s)
  /\ UNCHANGED buf

Step == ReturnOk \/ SendHeader \/ SendData \/ ReadByte \/ LastAck \/ Fails
Next == (\E r \in Requests : Call(r)) \/ Step

Spec == Init /\ [][Next]_vars
\* The loops of the firmware go on until they return.
FairSpec == Spec /\ WF_vars(Step)

-----------------------------------------------------------------------------
(* Properties.                                                             *)

\* Host and target agree on the field that is next, on how many bytes are
\* left and on the address they go to, from the command to the last
\* acknowledge: no failed transaction leaks into the next one.
InStep ==
  LET A == Address % WIRE IN
  pc \in Fields \ {"command"} =>
    /\ tgt.wants = pc /\ tgt.op = req.op
    /\ pc = "AH" => tgt.addr = A - (A % (BYTE * BYTE))
    /\ pc = "AL" => tgt.addr = A - (A % BYTE)
    /\ pc = "data" => tgt.addr = (A + i) % WIRE /\ tgt.n = Chunk(base) - i
    /\ pc = "ack" => /\ tgt.addr = (A + i - 1) % WIRE
                     /\ tgt.n = Chunk(base) - i + 1

\* OK means the memory holds what was written, or the buffer what is in the
\* memory, byte for byte across chunks and with the address truncated to the
\* wire; whatever went wrong in the calls before.
OkMeansDone ==
  [][req # NoReq /\ req' = NoReq /\ result' = "OK" =>
       /\ req.op = "read" => Len(buf) = Size
       /\ \A k \in 1 .. Size :
            mem[((req.addr + k - 1) % WORD) % WIRE] =
              IF req.op = "read" THEN buf[k] ELSE req.data[k]]_vars

\* Every call returns.
CallsEnd == req # NoReq ~> req = NoReq

\* Frames, chunks and faults together do what MemoryAccess promises.
Memory == INSTANCE MemoryAccess WITH done <- base + i
Implements == Memory!Spec
=============================================================================
