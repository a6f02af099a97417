--------------------------- MODULE MemoryAccess ----------------------------
(***************************************************************************)
(* What stm8_dm_memory_read and stm8_dm_memory_write promise their callers *)
(* (main.c, stm8_flash.c): bytes are transferred one by one from the first *)
(* address on, OK comes after the last of them and never before, an error  *)
(* after any number; a write may have stored the byte it failed at.        *)
(* SwimLink implements this over the wire.                                 *)
(***************************************************************************)
EXTENDS Naturals, Sequences

CONSTANTS
  WORD, WIRE,   \* 2^32, a C address; 2^24, the address bytes on the wire
  Values,       \* of a byte
  Requests,     \* [op, addr, data]; of a read only the length of data counts
  First         \* what the cells hold at first

VARIABLES
  req,      \* the call being run, or NoReq
  done,     \* bytes transferred so far
  buf,      \* what a read has put in the caller's buffer
  mem,      \* the memory of the target
  result    \* of the last call

NoReq == [op |-> "none", addr |-> 0, data |-> <<>>]
Errors == {"TIMEOUT", "NACK"}
Size == Len(req.data)
Cell(a, i) == ((a + i) % WORD) % WIRE

Init ==
  /\ req = NoReq /\ done = 0 /\ buf = <<>> /\ mem = First /\ result = "OK"

Call(r) ==
  /\ req = NoReq /\ req' = r /\ done' = 0 /\ buf' = <<>>
  /\ UNCHANGED <<mem, result>>

Stored == [mem EXCEPT ![Cell(req.addr, done)] = req.data[done + 1]]

ReadByte ==
  /\ req.op = "read" /\ done < Size
  /\ done' = done + 1 /\ buf' = Append(buf, mem[Cell(req.addr, done)])
  /\ UNCHANGED <<req, mem, result>>

WriteByte ==
  /\ req.op = "write" /\ done < Size
  /\ done' = done + 1 /\ mem' = Stored
  /\ UNCHANGED <<req, buf, result>>

ReturnOk ==
  /\ req # NoReq /\ done = Size
  /\ req' = NoReq /\ done' = 0 /\ result' = "OK"
  /\ UNCHANGED <<buf, mem>>

ReturnError ==
  /\ req # NoReq /\ req' = NoReq /\ done' = 0 /\ result' \in Errors
  /\ \/ UNCHANGED mem
     \/ req.op = "write" /\ done < Size /\ mem' = Stored
  /\ UNCHANGED buf

Next ==
  \/ \E r \in Requests : Call(r)
  \/ ReadByte \/ WriteByte \/ ReturnOk \/ ReturnError

Spec == Init /\ [][Next]_<<req, done, buf, mem, result>>
=============================================================================
