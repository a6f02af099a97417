--------------------------- MODULE MCUsbProtocol ---------------------------
(***************************************************************************)
(* UsbProtocol for TLC: a short command whose response is as long as its   *)
(* request, and one that may outlast the host, in two runs of the program. *)
(***************************************************************************)
EXTENDS UsbProtocol

MCRequestLen == [c \in AllCommands |-> IF c = "write" THEN 2 ELSE 1]
MCReplyLen == [c \in AllCommands |-> IF c = "read" THEN 2 ELSE 1]
=============================================================================
