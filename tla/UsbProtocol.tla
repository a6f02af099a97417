---------------------------- MODULE UsbProtocol ----------------------------
(***************************************************************************)
(* Request and response frames between the Probe of host/protocol.py and   *)
(* the loop of main.c, over the byte stream of a USB serial port.          *)
(*                                                                         *)
(* A frame is a sequence of pieces <<number of the request, index>>: HDR   *)
(* pieces stand for the ten header bytes, the others for payload and CRC.  *)
(* Either side reads so many pieces at a time and believes them when they  *)
(* are the pieces of one frame: magic, version and CRC tell whether.       *)
(*                                                                         *)
(* The host process is stopped at any point and started again; a write     *)
(* blocks while the firmware runs a long command and times out; two bytes  *)
(* arrive more than 500 ms apart.  The port itself loses nothing.          *)
(***************************************************************************)
EXTENDS Naturals, Sequences, FiniteSets

CONSTANTS
  SEQ,            \* sequence numbers, 2^16
  HDR,            \* pieces of a header
  Commands,       \* command codes a caller uses
  GetLastError,   \* the one command() issues itself
  Slow,           \* those that may run longer than the 15 s of the host
  RequestLen,     \* pieces after the header: payload and CRC
  ReplyLen,       \* the same for the reply, when the status is OK
  ErrorLen,       \* and when it is not
  MaxRequests,    \* bound: requests ever sent
  MaxSessions     \* bound: runs of the host program

AllCommands == Commands \cup {GetLastError}

ASSUME SizeAssumption ==
  /\ {SEQ, HDR, ErrorLen} \subseteq Nat \ {0} /\ SEQ > 1
  /\ MaxRequests \in Nat /\ MaxSessions \in Nat
ASSUME CommandAssumption ==
  /\ GetLastError \notin Commands /\ Slow \subseteq Commands
  /\ RequestLen \in [AllCommands -> Nat \ {0}]
  /\ ReplyLen \in [AllCommands -> Nat \ {0}]

VARIABLES
  phase,    \* of Probe.command: "closed", "idle", "write", "answer"
  seq,      \* _sequence
  sent,     \* the requests of all sessions, in order
  nested,   \* the current request is the GET_LAST_ERROR of a failed one
  left,     \* pieces of the current request still to be written
  toFw,     \* written and not read by the firmware
  got,      \* what rpsw_read_frame has read of a frame
  running,  \* the request handle_frame works on, or 0
  out,      \* pieces of the response still to be written
  lastError,    \* the request g_last_error is about, or 0
  replies,      \* the status and text of each response made
  toHost,   \* arrived and not read by the host
  outcome,  \* what the last call of command() came to
  sessions, \* counter of the bound
  cut, owed, inherited, late   \* history

\* cut: pieces of a broken frame may be among those the firmware will read.
\* owed: requests written whole, with no such pieces before them, not yet run.
\* inherited: the session began with requests of an earlier one under way.
\* late: in this session the host gave up waiting for a command that runs on.

firmware == <<got, running, out, lastError, replies>>
vars == <<phase, seq, sent, nested, left, toFw, got, running, out, lastError,
          replies, toHost, outcome, sessions, cut, owed, inherited, late>>

None == [result |-> "none", request |-> 0, reply |-> 0, text |-> 0]
Results == {"none", "ok", "status", "timeout", "mismatch", "header"}

Current == Len(sent)
Pieces(id, n) == [i \in 1 .. n |-> <<id, i>>]
RequestSize(id) == HDR + RequestLen[sent[id].command]
Response(id, ok) ==
  Pieces(id, HDR + IF ok THEN ReplyLen[sent[id].command] ELSE ErrorLen)
ReplySize(id) == Len(Response(id, replies[id].ok))

\* The first n pieces of s are those of one frame, from its start.
InOrder(s, n) == \A i \in 1 .. n : s[i] = <<s[1][1], i>>

\* Nothing is on its way to the firmware or in it.
Settled == toFw = <<>> /\ got = <<>> /\ running = 0 /\ out = <<>>

TypeOK ==
  /\ phase \in {"closed", "idle", "write", "answer"} /\ seq \in 0 .. SEQ - 1
  /\ Current <= MaxRequests
  /\ \A id \in 1 .. Current :
       sent[id] \in [seq : 0 .. SEQ - 1, command : AllCommands]
  /\ nested \in BOOLEAN
  /\ \A s \in {left, toFw, got, out, toHost} : \A i \in DOMAIN s :
       s[i][1] \in 1 .. Current /\ s[i][2] \in Nat \ {0}
  /\ running \in 0 .. Current /\ lastError \in 0 .. Current
  /\ DOMAIN replies \subseteq 1 .. Current
  /\ \A id \in DOMAIN replies :
       replies[id] \in [ok : BOOLEAN, text : 0 .. Current]
  /\ outcome \in [result : Results, request : 0 .. Current,
                  reply : 0 .. Current, text : 0 .. Current]
  /\ sessions \in 0 .. MaxSessions
  /\ cut \in BOOLEAN /\ owed \subseteq 1 .. Current
  /\ inherited \in BOOLEAN /\ late \in BOOLEAN

-----------------------------------------------------------------------------
(* The host.                                                               *)

Init ==
  /\ phase = "closed" /\ seq = 1 /\ sent = <<>> /\ nested = FALSE
  /\ left = <<>> /\ toFw = <<>> /\ got = <<>> /\ running = 0 /\ out = <<>>
  /\ lastError = 0 /\ replies = <<>> /\ toHost = <<>> /\ outcome = None
  /\ sessions = 0
  /\ cut = FALSE /\ owed = {} /\ inherited = FALSE /\ late = FALSE

\* Probe.__init__: sequence 1, reset_input_buffer.
Open ==
  /\ phase = "closed" /\ sessions < MaxSessions /\ sessions' = sessions + 1
  /\ phase' = "idle" /\ seq' = 1 /\ toHost' = <<>>
  /\ inherited' = ~Settled /\ late' = FALSE
  /\ UNCHANGED <<sent, nested, left, toFw, firmware, outcome, cut, owed>>

\* Part of the current frame is written.
Partly == phase = "write" /\ Len(left) < RequestSize(Current)

\* close(), or the end of the process at any point.  What has arrived is lost,
\* and what the firmware writes until the port is open again.
Close ==
  /\ phase # "closed" /\ phase' = "closed"
  /\ left' = <<>> /\ nested' = FALSE /\ toHost' = <<>> /\ outcome' = None
  /\ cut' = (cut \/ Partly)
  /\ UNCHANGED <<seq, sent, toFw, firmware, sessions, owed, inherited, late>>

\* Mutant: the sequence number does not wrap.
MutNextSeq(s) == s + 1
NextSeq(s) == (s + 1) % SEQ

\* command() up to its write.
Send(c) ==
  /\ sent' = Append(sent, [seq |-> seq, command |-> c])
  /\ seq' = NextSeq(seq)
  /\ phase' = "write" /\ left' = Pieces(Current + 1, HDR + RequestLen[c])
  /\ cut' = (cut /\ ~(toFw = <<>> /\ got = <<>>))

\* The bound leaves room for the nested call.
Command(c) ==
  /\ phase = "idle" /\ Current + 1 < MaxRequests
  /\ Send(c) /\ nested' = FALSE /\ outcome' = None
  /\ UNCHANGED <<toFw, firmware, toHost, sessions, owed, inherited, late>>

Write ==
  /\ phase = "write"
  /\ toFw' = Append(toFw, Head(left)) /\ left' = Tail(left)
  /\ IF Len(left) = 1
     THEN /\ phase' = "answer"
          /\ owed' = owed \cup IF cut THEN {} ELSE {Current}
     ELSE UNCHANGED <<phase, owed>>
  /\ UNCHANGED <<seq, sent, nested, firmware, toHost, outcome, sessions, cut,
                 inherited, late>>

\* The call raises; around the nested call the first error counts, without a
\* text.
Raise(why) ==
  /\ phase' = "idle" /\ left' = <<>> /\ nested' = FALSE
  /\ outcome' = IF nested THEN outcome
                ELSE [None EXCEPT !.result = why, !.request = Current]

RunsLong == running # 0 /\ sent[running].command \in Slow

\* write_timeout: the firmware does not empty the buffers meanwhile.
WriteTimeout ==
  /\ phase = "write" /\ RunsLong /\ Raise("timeout")
  /\ cut' = (cut \/ Partly)
  /\ UNCHANGED <<seq, sent, toFw, firmware, toHost, sessions, owed, inherited,
                 late>>

HeaderRead == phase = "answer" /\ Len(toHost) >= HDR
GoodHeader == HeaderRead /\ InOrder(toHost, HDR)
Answerer == toHost[1][1]
Complete == GoodHeader /\ Len(toHost) >= ReplySize(Answerer)
Rest(n) == SubSeq(toHost, n + 1, Len(toHost))

\* Mutant: timeout=None.
MutHostTimeout == phase = "answer" /\ Complete /\ UNCHANGED vars

\* timeout: 15 s are enough for the firmware to settle, unless it is busy.
HostTimeout ==
  /\ phase = "answer" /\ (RunsLong \/ Settled)
  /\ ~Complete /\ (HeaderRead => GoodHeader)
  /\ Raise("timeout") /\ toHost' = <<>> /\ late' = (late \/ running # 0)
  /\ UNCHANGED <<seq, sent, toFw, firmware, sessions, cut, owed, inherited>>

BadHeader ==
  /\ HeaderRead /\ ~GoodHeader /\ Raise("header") /\ toHost' = Rest(HDR)
  /\ UNCHANGED <<seq, sent, toFw, firmware, sessions, cut, owed, inherited, late>>

\* Mutant: only the command is compared.
MutMatches(id) == sent[id].command = sent[Current].command
Matches(id) == sent[id] = sent[Current]

BadBody(n) == ~InOrder(toHost, n)

\* decode_response fails, or the response is of another request.
Mismatch ==
  /\ Complete
  /\ LET n == ReplySize(Answerer) IN
       /\ BadBody(n) \/ ~Matches(Answerer)
       /\ toHost' = Rest(n)
  /\ Raise("mismatch")
  /\ UNCHANGED <<seq, sent, toFw, firmware, sessions, cut, owed, inherited, late>>

Answered == Complete /\ ~BadBody(ReplySize(Answerer)) /\ Matches(Answerer)

AnswerOk ==
  /\ Answered /\ replies[Answerer].ok
  /\ toHost' = Rest(ReplySize(Answerer))
  /\ phase' = "idle" /\ nested' = FALSE
  /\ outcome' =
       IF nested THEN [outcome EXCEPT !.text = replies[Answerer].text]
       ELSE [None EXCEPT !.result = "ok", !.request = Current,
                         !.reply = Answerer]
  /\ UNCHANGED <<seq, sent, left, toFw, firmware, sessions, cut, owed,
                 inherited, late>>

\* An error: ask for its text.  GET_LAST_ERROR itself has none.
AnswerError ==
  /\ Answered /\ ~replies[Answerer].ok
  /\ toHost' = Rest(ReplySize(Answerer))
  /\ outcome' = [None EXCEPT !.result = "status", !.request = Current,
                             !.reply = Answerer]
  /\ Send(GetLastError) /\ nested' = TRUE
  /\ UNCHANGED <<toFw, firmware, sessions, owed, inherited, late>>

-----------------------------------------------------------------------------
(* The firmware: rpsw_read_frame, handle_frame, rpsw_write_response.       *)

Reading == running = 0 /\ out = <<>> /\ toFw # <<>>
Piece == Append(got, Head(toFw))
FrameSize == RequestSize(Piece[1][1])

\* A header put together from a broken frame and what was written next.
Mixed == Len(Piece) >= HDR /\ ~InOrder(Piece, HDR)
\* Its magic and version can be right nevertheless; its length is then that of
\* no frame.
Passes == Mixed /\ Piece[1][2] = 1

\* Mutant: the CRC is not checked.
MutRejected == Mixed
\* Magic, version and length, once the header is there; the CRC at the end.  A
\* mixed header that passes is found out there at the latest, any number of
\* pieces later.
Rejected ==
  \/ Mixed
  \/ Len(Piece) > HDR /\ Len(Piece) = FrameSize /\ ~InOrder(Piece, FrameSize)

Whole == Len(Piece) > HDR /\ Len(Piece) = FrameSize /\ ~Rejected

ReadByte ==
  /\ Reading /\ ~Whole /\ (Rejected => Passes)
  /\ got' = Piece /\ toFw' = Tail(toFw)
  /\ UNCHANGED <<phase, seq, sent, nested, left, running, out, lastError,
       replies, toHost, outcome, sessions, cut, owed, inherited, late>>

DropFrame ==
  /\ Reading /\ Rejected
  /\ got' = <<>> /\ toFw' = Tail(toFw)
  /\ UNCHANGED <<phase, seq, sent, nested, left, running, out, lastError,
       replies, toHost, outcome, sessions, cut, owed, inherited, late>>

TakeFrame ==
  /\ Reading /\ Whole
  /\ got' = <<>> /\ toFw' = Tail(toFw)
  /\ running' = Piece[1][1] /\ owed' = owed \ {Piece[1][1]}
  /\ UNCHANGED <<phase, seq, sent, nested, left, out, lastError,
       replies, toHost, outcome, sessions, cut, inherited, late>>

\* getchar_timeout_us: 500 ms without a byte in the middle of a frame.
ByteTimeout ==
  /\ running = 0 /\ out = <<>> /\ toFw = <<>> /\ got # <<>>
  /\ got' = <<>> /\ cut' = (cut \/ Partly)
  /\ UNCHANGED <<phase, seq, sent, nested, left, toFw, running, out, lastError,
       replies, toHost, outcome, sessions, owed, inherited, late>>

\* Mutants: an error is answered in the handler and again in main; the
\* input is emptied after each command.
MutRespondTwice(id, ok) ==
  /\ out' = IF ok THEN Response(id, ok) ELSE Response(id, ok) \o Response(id, ok)
  /\ UNCHANGED toFw
MutRespondFlush(id, ok) == out' = Response(id, ok) /\ toFw' = <<>>
Respond(id, ok) == out' = Response(id, ok) /\ UNCHANGED toFw

\* Mutant: only the first error is kept.
MutSetLastError(id, ok) ==
  lastError' = IF ok \/ lastError # 0 THEN lastError ELSE id
SetLastError(id, ok) == lastError' = IF ok THEN lastError ELSE id

\* handle_frame returns; GET_LAST_ERROR copies g_last_error.
FinishCommand ==
  /\ running # 0 /\ running' = 0
  /\ \E ok \in BOOLEAN :
       /\ sent[running].command = GetLastError => ok
       /\ SetLastError(running, ok)
       /\ Respond(running, ok)
       /\ replies' = [id \in DOMAIN replies \cup {running} |->
            IF id # running THEN replies[id]
            ELSE [ok |-> ok,
                  text |-> IF sent[running].command = GetLastError
                           THEN lastError ELSE 0]]
  /\ UNCHANGED <<phase, seq, sent, nested, left, got, toHost, outcome,
                 sessions, cut, owed, inherited, late>>

\* putchar_raw; stdio_usb drops the bytes while no host has the port open.
WriteByte ==
  /\ out # <<>> /\ out' = Tail(out)
  /\ toHost' = IF phase = "closed" THEN toHost ELSE Append(toHost, Head(out))
  /\ UNCHANGED <<phase, seq, sent, nested, left, toFw, got, running, lastError,
       replies, outcome, sessions, cut, owed, inherited, late>>

-----------------------------------------------------------------------------
HostStep ==
  \/ Write \/ WriteTimeout \/ HostTimeout \/ BadHeader \/ Mismatch
  \/ AnswerOk \/ AnswerError
FirmwareStep ==
  \/ ReadByte \/ DropFrame \/ TakeFrame \/ ByteTimeout
  \/ FinishCommand \/ WriteByte

Next ==
  \/ Open \/ Close
  \/ \E c \in Commands : Command(c)
  \/ HostStep \/ FirmwareStep

Spec == Init /\ [][Next]_vars

\* The firmware always has a next step to take, every command of it ends, and
\* both sides wait with a limit.
FairSpec == Spec /\ WF_vars(HostStep) /\ WF_vars(FirmwareStep)

-----------------------------------------------------------------------------
(* Properties.                                                             *)

\* In a session that found the firmware at rest, the response command()
\* returns (or takes its status from) is the one to the request it sent, even
\* after timeouts, cut frames and responses that came too late; short of as
\* many requests as there are sequence numbers being waited for at once.
AnswerIsOwn ==
  outcome.reply # 0 /\ ~inherited =>
    \/ outcome.reply = outcome.request
    \/ outcome.request - outcome.reply >= SEQ

\* The text appended to an error is about the very response that reported it,
\* also when that response was mistaken for the answer to a later request:
\* between it and the GET_LAST_ERROR of command() no other command fails.
TextIsOwn == outcome.text # 0 => outcome.text = outcome.reply

\* What handle_frame gets is one request as the host wrote it, never pieces of
\* broken frames glued together, and requests are run in the order they were
\* sent, none twice.
RunsWholeOnce ==
  [][running' \notin {running, 0} =>
       /\ Piece = Pieces(running', RequestSize(running'))
       /\ \A id \in DOMAIN replies : id < running']_vars

\* A request written after a broken frame may be lost with it, but one written
\* whole with nothing broken before it is run or still waits complete.
NothingLost ==
  \A id \in owed : \A i \in 1 .. RequestSize(id) :
    <<id, i>> \in {(got \o toFw)[k] : k \in 1 .. Len(got \o toFw)}

\* A command fails for a response that is not its own only after the host has
\* given up on one that was still to come.
MismatchOnlyIfLate ==
  outcome.result \in {"mismatch", "header"} => late \/ inherited

\* Every call of command() returns or raises.
CallsReturn == phase \in {"write", "answer"} ~> phase \in {"idle", "closed"}
=============================================================================
