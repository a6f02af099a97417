------------------------ MODULE UsbProtocol_proofs ------------------------
(***************************************************************************)
(* For all sizes of frames, any number of requests and runs of the host:   *)
(* what handle_frame gets is a request as it was written, once and in      *)
(* order; no whole request is lost; answers belong to their calls and the  *)
(* texts of errors to the errors.                                          *)
(***************************************************************************)
EXTENDS UsbProtocol, SequenceTheorems, NaturalFacts, TLAPS

PieceSet == (Nat \ {0}) \X (Nat \ {0})
RequestSet == [seq : 0 .. SEQ - 1, command : AllCommands]

Streams ==
  /\ sent \in Seq(RequestSet)
  /\ left \in Seq(PieceSet) /\ toFw \in Seq(PieceSet) /\ got \in Seq(PieceSet)
  /\ out \in Seq(PieceSet) /\ toHost \in Seq(PieceSet)

\* The rest of the current frame.
LeftIsRest ==
  /\ phase # "write" => left = <<>>
  /\ phase = "write" =>
       /\ left # <<>> /\ Len(left) <= RequestSize(Current)
       /\ \A k \in 1 .. Len(left) :
            left[k] = <<Current, RequestSize(Current) - Len(left) + k>>

\* Where the host is in command().
Calls ==
  /\ phase \in {"write", "answer"} =>
       Current > 0 /\ (~nested => Current < MaxRequests)
  /\ nested => /\ phase \in {"write", "answer"}
               /\ sent[Current].command = GetLastError
  /\ phase = "closed" => outcome = None

\* Responses are of requests that have run, GET_LAST_ERROR does not fail.
Answers ==
  /\ \A i \in DOMAIN out : out[i][1] \in DOMAIN replies
  /\ \A i \in DOMAIN toHost : toHost[i][1] \in DOMAIN replies
  /\ \A id \in DOMAIN replies :
       sent[id].command = GetLastError => replies[id].ok

Typed == TypeOK /\ Streams /\ LeftIsRest /\ Calls /\ Answers

-----------------------------------------------------------------------------
LEMMA Sizes ==
  /\ SEQ \in Nat /\ SEQ > 1 /\ HDR \in Nat \ {0} /\ ErrorLen \in Nat \ {0}
  /\ MaxRequests \in Nat /\ MaxSessions \in Nat
BY SizeAssumption

\* A frame is longer than its header.
LEMMA FrameSizes ==
  ASSUME Streams, NEW id \in 1 .. Current
  PROVE  /\ sent[id] \in RequestSet
         /\ RequestSize(id) \in Nat /\ RequestSize(id) > HDR
<1>1. sent[id] \in RequestSet
  BY ElementOfSeq DEF Streams, Current
<1>2. RequestLen[sent[id].command] \in Nat \ {0}
  BY <1>1, CommandAssumption DEF RequestSet
<1> QED BY <1>1, <1>2, Sizes DEF RequestSize

LEMMA ReplySizes ==
  ASSUME Streams, NEW id \in 1 .. Current, NEW ok \in BOOLEAN
  PROVE  \E n \in Nat : /\ n > HDR
                        /\ Response(id, ok) = Pieces(id, n)
                        /\ Len(Response(id, ok)) = n
<1>1. sent[id] \in RequestSet
  BY FrameSizes
<1>2. ReplyLen[sent[id].command] \in Nat \ {0}
  BY <1>1, CommandAssumption DEF RequestSet
<1> DEFINE n == HDR + IF ok THEN ReplyLen[sent[id].command] ELSE ErrorLen
<1>3. n \in Nat /\ n > HDR
  BY <1>2, Sizes
<1>4. Response(id, ok) = Pieces(id, n)
  BY DEF Response
<1> HIDE DEF n
<1>5. Len(Pieces(id, n)) = n
  BY <1>3 DEF Pieces
<1> QED BY <1>3, <1>4, <1>5

LEMMA PiecesAre ==
  ASSUME NEW id \in Nat \ {0}, NEW n \in Nat
  PROVE  /\ Pieces(id, n) \in Seq(PieceSet) /\ Len(Pieces(id, n)) = n
         /\ \A i \in 1 .. n : Pieces(id, n)[i] = <<id, i>>
BY DEF Pieces, PieceSet

\* A request more leaves those before it as they are.
LEMMA OneMore ==
  ASSUME Streams, NEW r \in RequestSet, sent' = Append(sent, r)
  PROVE  /\ sent' \in Seq(RequestSet) /\ Current \in Nat /\ Current' = Current + 1
         /\ \A id \in 1 .. Current : sent'[id] = sent[id]
         /\ sent'[Current + 1] = r
BY AppendProperties DEF Streams, Current

\* The pieces of a stream, by their positions.
StreamType(s) ==
  \A i \in DOMAIN s : s[i][1] \in 1 .. Current /\ s[i][2] \in Nat \ {0}

LEMMA TypeIs ==
  ASSUME Streams
  PROVE  TypeOK <=>
    /\ phase \in {"closed", "idle", "write", "answer"} /\ seq \in 0 .. SEQ - 1
    /\ Current <= MaxRequests /\ nested \in BOOLEAN
    /\ StreamType(left) /\ StreamType(toFw) /\ StreamType(got)
    /\ StreamType(out) /\ StreamType(toHost)
    /\ running \in 0 .. Current /\ lastError \in 0 .. Current
    /\ DOMAIN replies \subseteq 1 .. Current
    /\ \A id \in DOMAIN replies :
         replies[id] \in [ok : BOOLEAN, text : 0 .. Current]
    /\ outcome \in [result : Results, request : 0 .. Current,
                    reply : 0 .. Current, text : 0 .. Current]
    /\ sessions \in 0 .. MaxSessions
    /\ cut \in BOOLEAN /\ owed \subseteq 1 .. Current
    /\ inherited \in BOOLEAN /\ late \in BOOLEAN
<1>1. \A id \in 1 .. Current :
        sent[id] \in [seq : 0 .. SEQ - 1, command : AllCommands]
  BY FrameSizes DEF RequestSet
<1> QED BY <1>1 DEF TypeOK, StreamType

LEMMA InitTyped ==
  ASSUME Init
  PROVE  Typed
<1>1. Streams /\ Current = 0
  BY EmptySeq DEF Init, Streams, Current
<1>2. DOMAIN <<>> = {}
  OBVIOUS
<1>3. outcome \in [result : Results, request : 0 .. 0, reply : 0 .. 0, text : 0 .. 0]
  BY DEF Init, None, Results
<1>4. TypeOK
  <2>1. seq \in 0 .. SEQ - 1 /\ Current <= MaxRequests /\ sessions \in 0 .. MaxSessions
    BY <1>1, Sizes DEF Init
  <2>2. \A id \in DOMAIN replies : FALSE
    BY <1>2 DEF Init
  <2>3. /\ StreamType(left) /\ StreamType(toFw) /\ StreamType(got)
        /\ StreamType(out) /\ StreamType(toHost)
    BY <1>2 DEF Init, StreamType
  <2>4. /\ phase \in {"closed", "idle", "write", "answer"} /\ nested \in BOOLEAN
        /\ cut \in BOOLEAN /\ owed \subseteq 1 .. Current
        /\ inherited \in BOOLEAN /\ late \in BOOLEAN
    BY Zenon DEF Init
  <2>5. running \in 0 .. Current /\ lastError \in 0 .. Current
    BY <1>1 DEF Init
  <2> QED BY <1>1, <1>3, <2>1, <2>2, <2>3, <2>4, <2>5, TypeIs
<1> QED
  BY <1>1, <1>2, <1>4 DEF Init, Typed, LeftIsRest, Calls, Answers


LEMMA SendTyped ==
  ASSUME Typed, phase \in {"idle", "answer"}, NEW c \in AllCommands, Send(c),
         Current + 1 <= MaxRequests, UNCHANGED sessions,
         nested' \in BOOLEAN, nested' => c = GetLastError,
         ~nested' => Current + 1 < MaxRequests,
         outcome' \in [result : Results, request : 0 .. Current,
                       reply : 0 .. Current, text : 0 .. Current],
         UNCHANGED <<toFw, firmware, owed, inherited, late>>,
         toHost' \in Seq(PieceSet),
         \A i \in DOMAIN toHost' : \E k \in DOMAIN toHost : toHost'[i] = toHost[k]
  PROVE  Typed'
<1> DEFINE r == [seq |-> seq, command |-> c]
<1> USE DEF firmware
<1>0. Current \in Nat /\ StreamType(toHost) /\ StreamType(toFw) /\ StreamType(got) /\ StreamType(out)
  BY TypeIs DEF Typed, Streams, Current
<1>1. r \in RequestSet /\ sent' = Append(sent, r)
  BY DEF Send, Typed, TypeOK, RequestSet
<1> HIDE DEF r
<1>2. /\ sent' \in Seq(RequestSet) /\ Current' = Current + 1
      /\ \A id \in 1 .. Current : sent'[id] = sent[id]
      /\ sent'[Current'] = r
  BY <1>0, <1>1, OneMore DEF Typed
<1>3. /\ left' = Pieces(Current', HDR + RequestLen[c])
      /\ RequestSize(Current)' = HDR + RequestLen[c]
      /\ HDR + RequestLen[c] \in Nat \ {0}
  <2>1. r.command = c
    BY DEF r
  <2> QED
    <3>1. RequestLen[c] \in Nat \ {0}
      BY CommandAssumption
    <3>2. RequestSize(Current)' = HDR + RequestLen[sent'[Current'].command]
      BY DEF RequestSize
    <3>3. left' = Pieces(Current', HDR + RequestLen[c])
      BY <1>2 DEF Send
    <3> QED BY <1>2, <2>1, <3>1, <3>2, <3>3, Sizes
<1>4. /\ left' \in Seq(PieceSet) /\ Len(left') = RequestSize(Current)'
      /\ \A k \in 1 .. Len(left') : left'[k] = <<Current', k>>
  <2> DEFINE n == HDR + RequestLen[c]
  <2>1. Current' \in Nat \ {0} /\ n \in Nat
    BY <1>0, <1>2, <1>3
  <2>2. left' = Pieces(Current', n) /\ RequestSize(Current)' = n
    BY <1>3
  <2> HIDE DEF n
  <2> QED BY <2>1, <2>2, PiecesAre
<1>5. Streams'
  BY <1>2, <1>4 DEF Streams, Typed
<1>6. LeftIsRest'
  BY <1>3, <1>4 DEF LeftIsRest, Send
<1>7. Calls'
  <2>1. nested' => sent'[Current'].command = GetLastError
    BY <1>2 DEF r
  <2>2. phase' = "write"
    BY DEF Send
  <2> QED BY <1>0, <1>2, <2>1, <2>2 DEF Calls
<1>8. Answers'
  <2>1. DOMAIN replies \subseteq 1 .. Current
    BY DEF Typed, TypeOK
  <2> QED BY <1>2, <2>1 DEF Answers, Typed
<1>9. TypeOK'
  <2>0. \A id \in 1 .. Current' :
          sent'[id] \in [seq : 0 .. SEQ - 1, command : AllCommands]
    <3> TAKE id \in 1 .. Current'
    <3>1. sent'[id] \in RequestSet
      BY <1>2, ElementOfSeq DEF Current
    <3> QED BY <3>1 DEF RequestSet
  <2>1. StreamType(toFw)' /\ StreamType(got)' /\ StreamType(out)' /\ StreamType(toHost)'
    BY <1>0, <1>2 DEF StreamType
  <2>2. StreamType(left)'
    BY <1>0, <1>2, <1>4 DEF StreamType
  <2>3. seq' \in 0 .. SEQ - 1 /\ cut' \in BOOLEAN
    BY Sizes DEF Send, NextSeq, Typed, TypeOK
  <2>4. Current' <= MaxRequests
    BY <1>0, <1>2
  <2>5. phase' = "write"
    BY DEF Send
  <2>6. /\ running' \in 0 .. Current' /\ lastError' \in 0 .. Current'
        /\ DOMAIN replies' \subseteq 1 .. Current'
        /\ \A id \in DOMAIN replies' :
             replies'[id] \in [ok : BOOLEAN, text : 0 .. Current']
    <3>1. /\ running \in 0 .. Current /\ lastError \in 0 .. Current
          /\ DOMAIN replies \subseteq 1 .. Current
          /\ \A id \in DOMAIN replies :
               replies[id] \in [ok : BOOLEAN, text : 0 .. Current]
      BY DEF Typed, TypeOK
    <3>2. /\ 0 .. Current \subseteq 0 .. Current'
          /\ 1 .. Current \subseteq 1 .. Current'
      BY <1>0, <1>2
    <3>3. UNCHANGED <<running, lastError, replies>>
      OBVIOUS
    <3>4. \A id \in DOMAIN replies :
            replies[id] \in [ok : BOOLEAN, text : 0 .. Current']
      BY <3>1, <3>2
    <3> QED BY <3>1, <3>2, <3>3, <3>4
  <2>7. outcome' \in [result : Results, request : 0 .. Current',
                      reply : 0 .. Current', text : 0 .. Current']
    BY <1>0, <1>2
  <2>8. /\ sessions' \in 0 .. MaxSessions /\ owed' \subseteq 1 .. Current'
        /\ inherited' \in BOOLEAN /\ late' \in BOOLEAN
    BY <1>0, <1>2 DEF Typed, TypeOK
  <2> HIDE DEF firmware
  <2> QED
    BY <2>0, <2>1, <2>2, <2>3, <2>4, <2>5, <2>6, <2>7, <2>8 DEF TypeOK, StreamType
<1> QED BY <1>5, <1>6, <1>7, <1>8, <1>9 DEF Typed

-----------------------------------------------------------------------------
(* Streams.                                                                *)

LEMMA TailOf ==
  ASSUME NEW s \in Seq(PieceSet), s # <<>>
  PROVE  /\ Tail(s) \in Seq(PieceSet) /\ Len(s) \in Nat \ {0} /\ Len(Tail(s)) = Len(s) - 1
         /\ Head(s) = s[1] /\ Head(s) \in PieceSet
         /\ DOMAIN s = 1 .. Len(s) /\ DOMAIN Tail(s) = 1 .. Len(s) - 1
         /\ \A i \in 1 .. Len(s) - 1 : Tail(s)[i] = s[i + 1]
BY HeadTailProperties, LenProperties, EmptySeq

LEMMA AppendOf ==
  ASSUME NEW s \in Seq(PieceSet), NEW e \in PieceSet
  PROVE  /\ Append(s, e) \in Seq(PieceSet) /\ Len(s) \in Nat
         /\ Len(Append(s, e)) = Len(s) + 1
         /\ DOMAIN s = 1 .. Len(s) /\ DOMAIN Append(s, e) = 1 .. Len(s) + 1
         /\ \A i \in 1 .. Len(s) : Append(s, e)[i] = s[i]
         /\ Append(s, e)[Len(s) + 1] = e
BY AppendProperties, LenProperties

LEMMA RestOf ==
  ASSUME NEW n \in Nat, toHost \in Seq(PieceSet)
  PROVE  /\ Rest(n) \in Seq(PieceSet)
         /\ \A i \in DOMAIN Rest(n) : \E k \in DOMAIN toHost : Rest(n)[i] = toHost[k]
<1>1. Len(toHost) \in Nat /\ DOMAIN toHost = 1 .. Len(toHost)
  BY LenProperties
<1>2. \A i \in n + 1 .. Len(toHost) : toHost[i] \in PieceSet
  BY <1>1, ElementOfSeq
<1>3. /\ Rest(n) \in Seq(PieceSet)
      /\ Len(Rest(n)) = IF n + 1 <= Len(toHost) THEN Len(toHost) - (n + 1) + 1 ELSE 0
      /\ \A i \in 1 .. Len(toHost) - (n + 1) + 1 : Rest(n)[i] = toHost[n + 1 + i - 1]
  BY <1>1, <1>2, SubSeqProperties DEF Rest
<1>4. DOMAIN Rest(n) = 1 .. Len(Rest(n))
  BY <1>3, LenProperties
<1>5. ASSUME NEW i \in DOMAIN Rest(n)
      PROVE  \E k \in DOMAIN toHost : Rest(n)[i] = toHost[k]
  <2>0. i \in Nat /\ 1 <= i /\ n + i <= Len(toHost)
    <3> DEFINE m == Len(Rest(n))
    <3>1. i \in 1 .. m
      BY <1>4
    <3>2. m = IF n + 1 <= Len(toHost) THEN Len(toHost) - (n + 1) + 1 ELSE 0
      BY <1>3
    <3> HIDE DEF m
    <3>3. CASE n + 1 <= Len(toHost)
      BY <1>1, <3>1, <3>2, <3>3
    <3>4. CASE ~(n + 1 <= Len(toHost))
      <4>1. m = 0
        BY <3>2, <3>4
      <4> QED BY <3>1, <4>1
    <3> QED BY <3>3, <3>4
  <2>2. i \in 1 .. Len(toHost) - (n + 1) + 1 /\ n + 1 + i - 1 = n + i
    BY <1>1, <2>0
  <2>1. n + i \in DOMAIN toHost
    BY <1>1, <2>0
  <2>3. Rest(n)[i] = toHost[n + i]
    BY <1>3, <2>2
  <2> QED BY <2>1, <2>3
<1> QED BY <1>3, <1>5

LEMMA OutcomeIs ==
  ASSUME NEW why \in Results, NEW n \in Nat, NEW a \in 0 .. n, NEW b \in 0 .. n
  PROVE  /\ [None EXCEPT !.result = why, !.request = a, !.reply = b] \in
              [result : Results, request : 0 .. n, reply : 0 .. n, text : 0 .. n]
         /\ [None EXCEPT !.result = why, !.request = a] \in
              [result : Results, request : 0 .. n, reply : 0 .. n, text : 0 .. n]
         /\ [None EXCEPT !.result = why, !.request = a, !.reply = b].reply = b
         /\ [None EXCEPT !.result = why, !.request = a, !.reply = b].request = a
         /\ [None EXCEPT !.result = why, !.request = a].reply = 0
         /\ None \in
              [result : Results, request : 0 .. n, reply : 0 .. n, text : 0 .. n]
<1> DEFINE R == [result : Results, request : 0 .. n, reply : 0 .. n, text : 0 .. n]
<1>1. None \in R /\ None.reply = 0
  BY DEF None, Results
<1> HIDE DEF None
<1>2. [None EXCEPT !.result = why, !.request = a] \in R
  BY <1>1
<1>3. [None EXCEPT !.result = why, !.request = a].reply = 0
  BY <1>1
<1>4. [None EXCEPT !.result = why, !.request = a, !.reply = b] \in R
  BY <1>1
<1>5. /\ [None EXCEPT !.result = why, !.request = a, !.reply = b].reply = b
      /\ [None EXCEPT !.result = why, !.request = a, !.reply = b].request = a
  BY <1>1
<1> QED BY <1>1, <1>2, <1>3, <1>4, <1>5

\* The host gives up a call.
LEMMA RaiseTyped ==
  ASSUME Typed, phase \in {"write", "answer"}, NEW why \in Results, Raise(why),
         UNCHANGED <<seq, sent, toFw, firmware, sessions, owed, inherited>>,
         cut' \in BOOLEAN, late' \in BOOLEAN, toHost' \in Seq(PieceSet),
         \A i \in DOMAIN toHost' : \E k \in DOMAIN toHost : toHost'[i] = toHost[k]
  PROVE  Typed'
<1> USE DEF firmware
<1>0. Current \in Nat /\ Current' = Current /\ StreamType(toHost) /\ Current > 0
  BY TypeIs DEF Typed, Streams, Calls, Current
<1>1. left' = <<>> /\ left' \in Seq(PieceSet) /\ DOMAIN left' = {}
  BY EmptySeq DEF Raise
<1>2. Streams'
  BY <1>1 DEF Typed, Streams
<1>3. outcome' \in [result : Results, request : 0 .. Current,
                    reply : 0 .. Current, text : 0 .. Current]
  <2>1. CASE nested
    BY <2>1 DEF Raise, Typed, TypeOK
  <2>2. CASE ~nested
    <3>1. outcome' = [None EXCEPT !.result = why, !.request = Current]
      BY <2>2 DEF Raise
    <3>2. Current \in 0 .. Current
      BY <1>0
    <3> QED BY <1>0, <3>1, <3>2, OutcomeIs
  <2> QED BY <2>1, <2>2
<1>4. StreamType(toHost)' /\ StreamType(left)'
  BY <1>0, <1>1 DEF StreamType
<1>5. TypeOK'
  <2>1. StreamType(toFw)' /\ StreamType(got)' /\ StreamType(out)'
    <3>1. StreamType(toFw) /\ StreamType(got) /\ StreamType(out)
      BY TypeIs DEF Typed
    <3> QED BY <1>0, <3>1 DEF StreamType
  <2>2. \A id \in 1 .. Current' :
          sent'[id] \in [seq : 0 .. SEQ - 1, command : AllCommands]
    BY <1>0 DEF Typed, TypeOK
  <2>3. /\ running' \in 0 .. Current' /\ lastError' \in 0 .. Current'
        /\ DOMAIN replies' \subseteq 1 .. Current'
        /\ \A id \in DOMAIN replies' :
             replies'[id] \in [ok : BOOLEAN, text : 0 .. Current']
    BY <1>0 DEF Typed, TypeOK
  <2>4. /\ phase' \in {"closed", "idle", "write", "answer"} /\ nested' \in BOOLEAN
        /\ seq' \in 0 .. SEQ - 1 /\ Current' <= MaxRequests
        /\ sessions' \in 0 .. MaxSessions /\ owed' \subseteq 1 .. Current'
        /\ inherited' \in BOOLEAN /\ late' \in BOOLEAN
    BY <1>0 DEF Typed, TypeOK, Raise
  <2> HIDE DEF firmware
  <2> QED BY <1>0, <1>3, <1>4, <2>1, <2>2, <2>3, <2>4 DEF TypeOK, StreamType
<1>6. LeftIsRest' /\ Calls'
  BY <1>1 DEF LeftIsRest, Calls, Raise
<1>7. Answers'
  BY DEF Typed, Answers
<1> QED BY <1>2, <1>5, <1>6, <1>7 DEF Typed

\* A step of the firmware.
LEMMA FirmwareTyped ==
  ASSUME Typed, UNCHANGED <<phase, seq, sent, nested, left, outcome, sessions,
                            inherited, late>>,
         toFw' \in Seq(PieceSet), got' \in Seq(PieceSet), out' \in Seq(PieceSet),
         toHost' \in Seq(PieceSet),
         StreamType(toFw)', StreamType(got)', StreamType(out)', StreamType(toHost)',
         running' \in 0 .. Current, lastError' \in 0 .. Current,
         DOMAIN replies' \subseteq 1 .. Current,
         \A id \in DOMAIN replies' :
           replies'[id] \in [ok : BOOLEAN, text : 0 .. Current],
         cut' \in BOOLEAN, owed' \subseteq 1 .. Current, Answers'
  PROVE  Typed'
<1>0. Current' = Current /\ \A id \in 1 .. Current : RequestSize(id)' = RequestSize(id)
  BY DEF Current, RequestSize
<1>1. Streams'
  BY DEF Typed, Streams
<1>2. TypeOK'
  BY <1>0 DEF Typed, TypeOK, StreamType
<1>3. LeftIsRest' /\ Calls'
  <2>1. Current > 0 => RequestSize(Current)' = RequestSize(Current)
    BY DEF Current, RequestSize
  <2> QED BY <1>0, <2>1 DEF Typed, LeftIsRest, Calls, RequestSize, Current
<1> QED BY <1>1, <1>2, <1>3 DEF Typed

\* The response at the head of the stream is one the firmware made.
LEMMA AnswererIs ==
  ASSUME Typed, HeaderRead
  PROVE  /\ Answerer \in DOMAIN replies /\ Answerer \in 1 .. Current
         /\ 1 \in DOMAIN toHost /\ ReplySize(Answerer) \in Nat
         /\ replies[Answerer] \in [ok : BOOLEAN, text : 0 .. Current]
<1>1. 1 \in DOMAIN toHost
  BY Sizes, LenProperties DEF Typed, Streams, HeaderRead
<1>2. Answerer \in DOMAIN replies /\ Answerer \in 1 .. Current
  BY <1>1, TypeIs DEF Typed, Answers, Answerer
<1>3. replies[Answerer] \in [ok : BOOLEAN, text : 0 .. Current]
  BY <1>2 DEF Typed, TypeOK
<1>4. ReplySize(Answerer) \in Nat
  <2>1. PICK n \in Nat : Len(Response(Answerer, replies[Answerer].ok)) = n
    BY <1>2, <1>3, ReplySizes DEF Typed
  <2> QED BY <2>1 DEF ReplySize
<1> QED BY <1>1, <1>2, <1>3, <1>4

LEMMA OpenTyped ==
  ASSUME Typed, Open
  PROVE  Typed'
<1>1. Current' = Current /\ Current \in Nat
  BY DEF Open, Current, Typed, Streams
<1>2. toHost' \in Seq(PieceSet) /\ DOMAIN toHost' = {}
  BY EmptySeq DEF Open
<1>3. Streams'
  BY <1>2 DEF Open, firmware, Typed, Streams
<1>4. StreamType(toHost)'
  BY <1>2 DEF StreamType
<1>5. seq' \in 0 .. SEQ - 1 /\ sessions' \in 0 .. MaxSessions
  BY Sizes DEF Open, Typed, TypeOK
<1>6. inherited' \in BOOLEAN /\ late' \in BOOLEAN
  BY DEF Open, Settled
<1>7. TypeOK'
  BY <1>1, <1>4, <1>5, <1>6 DEF Open, firmware, Typed, TypeOK, StreamType
<1>8. LeftIsRest' /\ Calls'
  BY DEF Open, Typed, LeftIsRest, Calls
<1>9. Answers'
  BY <1>2 DEF Open, firmware, Typed, Answers
<1> QED BY <1>3, <1>7, <1>8, <1>9 DEF Typed

LEMMA CloseTyped ==
  ASSUME Typed, Close
  PROVE  Typed'
<1>1. Current' = Current /\ Current \in Nat
  BY DEF Close, Current, Typed, Streams
<1>2. /\ toHost' \in Seq(PieceSet) /\ DOMAIN toHost' = {}
      /\ left' \in Seq(PieceSet) /\ DOMAIN left' = {}
  BY EmptySeq DEF Close
<1>3. Streams'
  BY <1>2 DEF Close, firmware, Typed, Streams
<1>4. StreamType(toHost)' /\ StreamType(left)'
  BY <1>2 DEF StreamType
<1>5. outcome' \in [result : Results, request : 0 .. Current,
                    reply : 0 .. Current, text : 0 .. Current]
  <2>1. "none" \in Results /\ 0 \in 0 .. Current
    BY <1>1 DEF Results
  <2> QED BY <1>1, <2>1, OutcomeIs DEF Close
<1>6. cut' \in BOOLEAN
  BY DEF Close, Partly, Typed, TypeOK
<1>7. TypeOK'
  <2>1. StreamType(toFw)' /\ StreamType(got)' /\ StreamType(out)'
    <3>1. StreamType(toFw) /\ StreamType(got) /\ StreamType(out)
      BY TypeIs DEF Typed
    <3> QED BY <1>1, <3>1 DEF StreamType, Close, firmware
  <2>2. \A id \in 1 .. Current' :
          sent'[id] \in [seq : 0 .. SEQ - 1, command : AllCommands]
    BY <1>1 DEF Typed, TypeOK, Close
  <2>3. /\ running' \in 0 .. Current' /\ lastError' \in 0 .. Current'
        /\ DOMAIN replies' \subseteq 1 .. Current'
        /\ \A id \in DOMAIN replies' :
             replies'[id] \in [ok : BOOLEAN, text : 0 .. Current']
    BY <1>1 DEF Typed, TypeOK, Close, firmware
  <2>4. /\ phase' \in {"closed", "idle", "write", "answer"} /\ nested' \in BOOLEAN
        /\ seq' \in 0 .. SEQ - 1 /\ Current' <= MaxRequests
        /\ sessions' \in 0 .. MaxSessions /\ owed' \subseteq 1 .. Current'
        /\ inherited' \in BOOLEAN /\ late' \in BOOLEAN
    BY <1>1 DEF Typed, TypeOK, Close
  <2> QED BY <1>1, <1>4, <1>5, <1>6, <2>1, <2>2, <2>3, <2>4 DEF TypeOK, StreamType
<1>8. LeftIsRest' /\ Calls'
  BY DEF Close, Typed, LeftIsRest, Calls
<1>9. Answers'
  BY <1>2 DEF Close, firmware, Typed, Answers
<1> QED BY <1>3, <1>7, <1>8, <1>9 DEF Typed

LEMMA CommandTyped ==
  ASSUME Typed, NEW c \in Commands, Command(c)
  PROVE  Typed'
<1>1. /\ Current \in Nat /\ c \in AllCommands
      /\ \A i \in DOMAIN toHost' : toHost'[i] = toHost[i]
      /\ toHost' \in Seq(PieceSet)
  BY DEF Command, Typed, Streams, Current, AllCommands
<1>2. outcome' \in [result : Results, request : 0 .. Current,
                    reply : 0 .. Current, text : 0 .. Current]
  <2>1. "none" \in Results /\ 0 \in 0 .. Current
    BY <1>1 DEF Results
  <2> QED BY <1>1, <2>1, OutcomeIs DEF Command
<1>3. Current + 1 <= MaxRequests /\ Current + 1 < MaxRequests
  BY <1>1, Sizes DEF Command
<1> QED BY <1>1, <1>2, <1>3, SendTyped DEF Command, firmware

\* The next piece goes from the host's frame to the port.
LEMMA WriteIs ==
  ASSUME Typed, Write
  PROVE  /\ left \in Seq(PieceSet) /\ toFw \in Seq(PieceSet) /\ left # <<>>
         /\ left' = Tail(left) /\ toFw' = Append(toFw, Head(left))
         /\ Current \in Nat \ {0} /\ RequestSize(Current) \in Nat
         /\ Len(left) \in 1 .. RequestSize(Current)
         /\ Head(left) = <<Current, RequestSize(Current) - Len(left) + 1>>
         /\ Head(left) \in PieceSet
<1>1. /\ left \in Seq(PieceSet) /\ toFw \in Seq(PieceSet) /\ left # <<>>
      /\ Len(left) <= RequestSize(Current)
      /\ \A k \in 1 .. Len(left) :
           left[k] = <<Current, RequestSize(Current) - Len(left) + k>>
  BY DEF Typed, Streams, LeftIsRest, Write
<1>2. Current \in Nat \ {0}
  BY DEF Typed, Streams, Calls, Write, Current
<1>3. RequestSize(Current) \in Nat
  BY <1>2, FrameSizes DEF Typed
<1>4. Len(left) \in Nat \ {0} /\ Head(left) = left[1] /\ Head(left) \in PieceSet
  BY <1>1, TailOf
<1> QED BY <1>1, <1>2, <1>3, <1>4 DEF Write

LEMMA WriteTyped ==
  ASSUME Typed, Write
  PROVE  Typed'
<1>0. /\ Current' = Current /\ Current \in Nat /\ Current > 0
      /\ RequestSize(Current)' = RequestSize(Current)
  <2>1. UNCHANGED sent
    BY DEF Write
  <2> QED BY <2>1, WriteIs DEF Current, RequestSize
<1> DEFINE n == Len(left)
<1>1. /\ left' \in Seq(PieceSet) /\ n \in Nat \ {0} /\ Len(left') = n - 1
      /\ DOMAIN left = 1 .. n /\ DOMAIN left' = 1 .. n - 1
      /\ \A i \in 1 .. n - 1 : left'[i] = left[i + 1]
  BY WriteIs, TailOf
<1>2. /\ toFw' \in Seq(PieceSet) /\ Len(toFw) \in Nat
      /\ DOMAIN toFw = 1 .. Len(toFw) /\ DOMAIN toFw' = 1 .. Len(toFw) + 1
      /\ \A i \in 1 .. Len(toFw) : toFw'[i] = toFw[i]
      /\ toFw'[Len(toFw) + 1] = left[1]
  <2>1. Head(left) \in PieceSet /\ Head(left) = left[1] /\ toFw \in Seq(PieceSet)
    BY WriteIs, TailOf
  <2> DEFINE e == left[1]
  <2>2. e \in PieceSet /\ toFw' = Append(toFw, e)
    BY <2>1, WriteIs
  <2> HIDE DEF e
  <2>3. /\ toFw' \in Seq(PieceSet) /\ Len(toFw) \in Nat
        /\ DOMAIN toFw = 1 .. Len(toFw) /\ DOMAIN toFw' = 1 .. Len(toFw) + 1
        /\ \A i \in 1 .. Len(toFw) : toFw'[i] = toFw[i]
        /\ toFw'[Len(toFw) + 1] = e
    BY <2>1, <2>2, AppendOf
  <2> QED BY <2>3 DEF e
<1>3. StreamType(left) /\ StreamType(toFw)
  BY TypeIs DEF Typed
<1>4. StreamType(left)' /\ StreamType(toFw)'
  <2>1. StreamType(left)'
    <3> SUFFICES ASSUME NEW i \in DOMAIN left'
                 PROVE  left'[i][1] \in 1 .. Current /\ left'[i][2] \in Nat \ {0}
      BY <1>0 DEF StreamType
    <3>1. left'[i] = left[i + 1] /\ i + 1 \in DOMAIN left
      BY <1>1
    <3> QED BY <1>3, <3>1 DEF StreamType
  <2>2. StreamType(toFw)'
    <3> SUFFICES ASSUME NEW i \in DOMAIN toFw'
                 PROVE  toFw'[i][1] \in 1 .. Current /\ toFw'[i][2] \in Nat \ {0}
      BY <1>0 DEF StreamType
    <3>1. CASE i <= Len(toFw)
      <4>1. toFw'[i] = toFw[i] /\ i \in DOMAIN toFw
        BY <1>2, <3>1
      <4> QED BY <1>3, <4>1 DEF StreamType
    <3>2. CASE i = Len(toFw) + 1
      <4>1. toFw'[i] = left[1] /\ 1 \in DOMAIN left
        BY <1>1, <1>2, <3>2
      <4> QED BY <1>3, <4>1 DEF StreamType
    <3> QED BY <1>2, <3>1, <3>2
  <2> QED BY <2>1, <2>2
<1>5. Streams'
  BY <1>1, <1>2 DEF Write, firmware, Typed, Streams
<1>6. phase' \in {"write", "answer"} /\ owed' \subseteq 1 .. Current
  <2>1. Current \in 1 .. Current /\ owed \subseteq 1 .. Current
    BY <1>0 DEF Typed, TypeOK
  <2>2. CASE Len(left) = 1
    <3>1. phase' = "answer" /\ owed' = owed \cup IF cut THEN {} ELSE {Current}
      BY <2>2 DEF Write
    <3> QED BY <2>1, <3>1
  <2>3. CASE Len(left) # 1
    BY <2>1, <2>3 DEF Write
  <2> QED BY <2>2, <2>3
<1>7. TypeOK'
  BY <1>0, <1>4, <1>6 DEF Write, firmware, Typed, TypeOK, StreamType
<1>8. LeftIsRest'
  <2>1. CASE n = 1
    <3>1. left' = <<>> /\ phase' = "answer"
      BY <1>1, <2>1, EmptySeq DEF Write
    <3> QED BY <3>1 DEF LeftIsRest
  <2>2. CASE n # 1
    <3>1. phase' = "write" /\ left' # <<>>
      BY <1>1, <2>2, EmptySeq DEF Write
    <3>2. /\ RequestSize(Current) \in Nat /\ n <= RequestSize(Current)
          /\ \A k \in 1 .. n : left[k] = <<Current, RequestSize(Current) - n + k>>
      BY WriteIs DEF Typed, LeftIsRest, Write
    <3>3. \A k \in 1 .. n - 1 :
            left'[k] = <<Current, RequestSize(Current) - (n - 1) + k>>
      <4> TAKE k \in 1 .. n - 1
      <4>1. k + 1 \in 1 .. n /\ left'[k] = left[k + 1]
        BY <1>1
      <4>2. RequestSize(Current) - n + (k + 1) = RequestSize(Current) - (n - 1) + k
        BY <1>1, <3>2
      <4> QED BY <3>2, <4>1, <4>2
    <3>4. Len(left') <= RequestSize(Current)
      BY <1>1, <3>2
    <3>5. \A k \in 1 .. Len(left') :
            left'[k] = <<Current, RequestSize(Current) - Len(left') + k>>
      BY <1>1, <3>3
    <3> HIDE DEF n
    <3> QED BY <1>0, <3>1, <3>4, <3>5 DEF LeftIsRest
  <2> QED BY <2>1, <2>2
<1>9. Calls'
  BY <1>0, <1>6 DEF Typed, Calls, Write
<1>10. Answers'
  BY DEF Typed, Answers, Write, firmware
<1> QED BY <1>5, <1>7, <1>8, <1>9, <1>10 DEF Typed

LEMMA GiveUpTyped ==
  ASSUME Typed, WriteTimeout \/ HostTimeout \/ BadHeader \/ Mismatch
  PROVE  Typed'
<1>1. CASE WriteTimeout
  <2>1. cut' \in BOOLEAN /\ late' \in BOOLEAN
    BY <1>1 DEF WriteTimeout, Partly, Typed, TypeOK
  <2>2. toHost' \in Seq(PieceSet) /\ UNCHANGED toHost /\ "timeout" \in Results
    BY <1>1 DEF WriteTimeout, Typed, Streams, Results
  <2> QED
    BY <1>1, <2>1, <2>2, RaiseTyped DEF WriteTimeout
<1>2. CASE HostTimeout
  <2>1. cut' \in BOOLEAN /\ late' \in BOOLEAN
    BY <1>2 DEF HostTimeout, Typed, TypeOK
  <2>2. toHost' \in Seq(PieceSet) /\ DOMAIN toHost' = {} /\ "timeout" \in Results
    BY <1>2, EmptySeq DEF HostTimeout, Results
  <2> QED
    BY <1>2, <2>1, <2>2, RaiseTyped DEF HostTimeout
<1>3. CASE BadHeader
  <2>1. cut' \in BOOLEAN /\ late' \in BOOLEAN
    BY <1>3 DEF BadHeader, Typed, TypeOK
  <2>2. /\ toHost' \in Seq(PieceSet) /\ "header" \in Results
        /\ \A i \in DOMAIN toHost' : \E k \in DOMAIN toHost : toHost'[i] = toHost[k]
    BY <1>3, RestOf, Sizes DEF BadHeader, Results, Typed, Streams
  <2> QED
    BY <1>3, <2>1, <2>2, RaiseTyped DEF BadHeader, HeaderRead
<1>4. CASE Mismatch
  <2>1. cut' \in BOOLEAN /\ late' \in BOOLEAN
    BY <1>4 DEF Mismatch, Typed, TypeOK
  <2>2. HeaderRead
    BY <1>4 DEF Mismatch, Complete, GoodHeader
  <2>3. ReplySize(Answerer) \in Nat /\ toHost' = Rest(ReplySize(Answerer))
    BY <1>4, <2>2, AnswererIs DEF Mismatch
  <2>4. /\ toHost' \in Seq(PieceSet) /\ "mismatch" \in Results
        /\ \A i \in DOMAIN toHost' : \E k \in DOMAIN toHost : toHost'[i] = toHost[k]
    BY <2>3, RestOf DEF Results, Typed, Streams
  <2> QED
    BY <1>4, <2>1, <2>2, <2>4, RaiseTyped DEF Mismatch, HeaderRead
<1> QED BY <1>1, <1>2, <1>3, <1>4

LEMMA AnsweredIs ==
  ASSUME Typed, Answered
  PROVE  /\ phase = "answer" /\ HeaderRead /\ Current \in Nat \ {0}
         /\ Answerer \in DOMAIN replies /\ Answerer \in 1 .. Current
         /\ 1 \in DOMAIN toHost
         /\ replies[Answerer] \in [ok : BOOLEAN, text : 0 .. Current]
         /\ Rest(ReplySize(Answerer)) \in Seq(PieceSet)
         /\ \A i \in DOMAIN Rest(ReplySize(Answerer)) :
              \E k \in DOMAIN toHost : Rest(ReplySize(Answerer))[i] = toHost[k]
         /\ sent[Answerer] = sent[Current]
<1>1. phase = "answer" /\ HeaderRead
  BY DEF Answered, Complete, GoodHeader, HeaderRead
<1>2. /\ Answerer \in DOMAIN replies /\ Answerer \in 1 .. Current
      /\ 1 \in DOMAIN toHost /\ ReplySize(Answerer) \in Nat
      /\ replies[Answerer] \in [ok : BOOLEAN, text : 0 .. Current]
  BY <1>1, AnswererIs
<1>3. Current \in Nat \ {0}
  BY <1>1 DEF Typed, Calls, Streams, Current
<1>4. sent[Answerer] = sent[Current]
  BY DEF Answered, Matches
<1>5. toHost \in Seq(PieceSet)
  BY DEF Typed, Streams
<1> QED BY <1>1, <1>2, <1>3, <1>4, <1>5, RestOf

LEMMA AnswerOkTyped ==
  ASSUME Typed, AnswerOk
  PROVE  Typed'
<1>0. Answered /\ Current' = Current
  BY DEF AnswerOk, Current
<1>1. toHost' = Rest(ReplySize(Answerer))
  BY DEF AnswerOk
<1>2. /\ toHost' \in Seq(PieceSet)
      /\ \A i \in DOMAIN toHost' : \E k \in DOMAIN toHost : toHost'[i] = toHost[k]
  BY <1>0, <1>1, AnsweredIs
<1>3. /\ phase = "answer" /\ Current \in Nat \ {0} /\ left = <<>>
      /\ Answerer \in 1 .. Current
      /\ replies[Answerer] \in [ok : BOOLEAN, text : 0 .. Current]
  BY <1>0, AnsweredIs DEF Typed, LeftIsRest
<1>4. outcome' \in [result : Results, request : 0 .. Current,
                    reply : 0 .. Current, text : 0 .. Current]
  <2>1. CASE nested
    <3>1. outcome' = [outcome EXCEPT !.text = replies[Answerer].text]
      BY <2>1 DEF AnswerOk
    <3>2. replies[Answerer].text \in 0 .. Current
      BY <1>3
    <3> QED BY <3>1, <3>2 DEF Typed, TypeOK
  <2>2. CASE ~nested
    <3>1. outcome' = [None EXCEPT !.result = "ok", !.request = Current,
                                  !.reply = Answerer]
      BY <2>2 DEF AnswerOk
    <3>2. /\ "ok" \in Results /\ Current \in Nat
          /\ Current \in 0 .. Current /\ Answerer \in 0 .. Current
      BY <1>3 DEF Results
    <3> QED BY <3>1, <3>2, OutcomeIs
  <2> QED BY <2>1, <2>2
<1>5. Streams'
  BY <1>2 DEF AnswerOk, firmware, Typed, Streams
<1>6. StreamType(toHost)'
  BY <1>0, <1>2, TypeIs DEF Typed, StreamType
<1>7. TypeOK'
  <2>1. phase' = "idle" /\ nested' = FALSE
    BY DEF AnswerOk
  <2>2. UNCHANGED <<seq, sent, left, toFw, got, running, out, lastError, replies,
                    sessions, cut, owed, inherited, late>>
    BY DEF AnswerOk, firmware
  <2> QED
    BY <1>0, <1>4, <1>6, <2>1, <2>2 DEF Typed, TypeOK, StreamType
<1>8. LeftIsRest' /\ Calls'
  BY <1>3 DEF AnswerOk, LeftIsRest, Calls
<1>9. Answers'
  BY <1>2 DEF AnswerOk, firmware, Typed, Answers
<1> QED BY <1>5, <1>7, <1>8, <1>9 DEF Typed

LEMMA AnswerErrorTyped ==
  ASSUME Typed, AnswerError
  PROVE  Typed'
<1>0. Answered /\ ~replies[Answerer].ok /\ toHost' = Rest(ReplySize(Answerer))
  BY DEF AnswerError
<1>1. /\ toHost' \in Seq(PieceSet)
      /\ \A i \in DOMAIN toHost' : \E k \in DOMAIN toHost : toHost'[i] = toHost[k]
      /\ phase = "answer" /\ Current \in Nat \ {0} /\ Answerer \in 1 .. Current
      /\ Answerer \in DOMAIN replies /\ sent[Answerer] = sent[Current]
  BY <1>0, AnsweredIs
<1>2. nested \in BOOLEAN /\ ~nested
  BY <1>0, <1>1 DEF Typed, TypeOK, Calls, Answers
<1>3. Current + 1 <= MaxRequests
  BY <1>1, <1>2, Sizes DEF Typed, Calls
<1>4. outcome' \in [result : Results, request : 0 .. Current,
                    reply : 0 .. Current, text : 0 .. Current]
  <2>1. outcome' = [None EXCEPT !.result = "status", !.request = Current,
                                !.reply = Answerer]
    BY DEF AnswerError
  <2>2. /\ "status" \in Results /\ Current \in Nat
        /\ Current \in 0 .. Current /\ Answerer \in 0 .. Current
    BY <1>1 DEF Results
  <2> QED BY <2>1, <2>2, OutcomeIs
<1>5. Send(GetLastError) /\ nested' = TRUE /\ GetLastError \in AllCommands
  BY DEF AnswerError, AllCommands
<1>6. UNCHANGED <<toFw, firmware, owed, inherited, late>> /\ UNCHANGED sessions
  BY DEF AnswerError
<1> QED
  BY <1>1, <1>3, <1>4, <1>5, <1>6, SendTyped

-----------------------------------------------------------------------------
(* Steps of the firmware.                                                  *)

\* What is read next.
LEMMA PieceIs ==
  ASSUME Typed, Reading
  PROVE  /\ Piece \in Seq(PieceSet) /\ Len(got) \in Nat
         /\ Len(Piece) = Len(got) + 1 /\ StreamType(Piece)
         /\ DOMAIN Piece = 1 .. Len(got) + 1 /\ DOMAIN got = 1 .. Len(got)
         /\ \A i \in 1 .. Len(got) : Piece[i] = got[i]
         /\ Piece[Len(got) + 1] = toFw[1]
         /\ Piece[1][1] \in 1 .. Current
         /\ FrameSize \in Nat /\ FrameSize > HDR
<1> DEFINE e == Head(toFw)
<1>1. /\ got \in Seq(PieceSet) /\ toFw \in Seq(PieceSet) /\ toFw # <<>>
      /\ StreamType(got) /\ StreamType(toFw)
  BY TypeIs DEF Typed, Streams, Reading
<1>2. e \in PieceSet /\ e = toFw[1] /\ 1 \in DOMAIN toFw
  BY <1>1, TailOf
<1>3. e[1] \in 1 .. Current /\ e[2] \in Nat \ {0}
  BY <1>1, <1>2 DEF StreamType
<1>4. Piece = Append(got, e)
  BY DEF Piece
<1> HIDE DEF e
<1>5. /\ Piece \in Seq(PieceSet) /\ Len(got) \in Nat
      /\ Len(Piece) = Len(got) + 1
      /\ DOMAIN Piece = 1 .. Len(got) + 1 /\ DOMAIN got = 1 .. Len(got)
      /\ \A i \in 1 .. Len(got) : Piece[i] = got[i]
      /\ Piece[Len(got) + 1] = e
  BY <1>1, <1>2, <1>4, AppendOf
<1>6. StreamType(Piece)
  <2> SUFFICES ASSUME NEW i \in 1 .. Len(got) + 1
               PROVE  Piece[i][1] \in 1 .. Current /\ Piece[i][2] \in Nat \ {0}
    BY <1>5 DEF StreamType
  <2>1. CASE i <= Len(got)
    <3>1. Piece[i] = got[i] /\ i \in DOMAIN got
      BY <1>5, <2>1
    <3> QED BY <1>1, <3>1 DEF StreamType
  <2>2. CASE i = Len(got) + 1
    BY <1>3, <1>5, <2>2
  <2> QED BY <1>5, <2>1, <2>2
<1>7. Piece[1][1] \in 1 .. Current
  <2>1. 1 \in DOMAIN Piece
    BY <1>5
  <2> QED BY <1>6, <2>1 DEF StreamType
<1>8. FrameSize \in Nat /\ FrameSize > HDR
  BY <1>7, FrameSizes DEF Typed, FrameSize
<1> QED BY <1>2, <1>5, <1>6, <1>7, <1>8

LEMMA ReadTyped ==
  ASSUME Typed, ReadByte \/ DropFrame \/ TakeFrame
  PROVE  Typed'
<1>0. /\ Reading /\ toFw' = Tail(toFw) /\ got' \in {Piece, <<>>}
      /\ running' \in {running, Piece[1][1]} /\ owed' \subseteq owed
      /\ UNCHANGED <<phase, seq, sent, nested, left, out, lastError,
           replies, toHost, outcome, sessions, cut, inherited, late>>
  BY DEF ReadByte, DropFrame, TakeFrame
<1>1. /\ toFw \in Seq(PieceSet) /\ toFw # <<>> /\ StreamType(toFw)
  BY <1>0, TypeIs DEF Typed, Streams, Reading
<1>2. /\ Tail(toFw) \in Seq(PieceSet) /\ DOMAIN Tail(toFw) = 1 .. Len(toFw) - 1
      /\ Len(toFw) \in Nat \ {0} /\ DOMAIN toFw = 1 .. Len(toFw)
      /\ \A i \in 1 .. Len(toFw) - 1 : Tail(toFw)[i] = toFw[i + 1]
  BY <1>1, TailOf
<1>3. Current' = Current
  BY <1>0 DEF Current
<1>4. StreamType(toFw)'
  <2> SUFFICES ASSUME NEW i \in DOMAIN Tail(toFw)
               PROVE  /\ Tail(toFw)[i][1] \in 1 .. Current
                      /\ Tail(toFw)[i][2] \in Nat \ {0}
    BY <1>0, <1>3 DEF StreamType
  <2>1. Tail(toFw)[i] = toFw[i + 1] /\ i + 1 \in DOMAIN toFw
    BY <1>2
  <2> QED BY <1>1, <2>1 DEF StreamType
<1>5. got' \in Seq(PieceSet) /\ StreamType(got)'
  <2>1. CASE got' = Piece
    BY <1>0, <1>3, <2>1, PieceIs DEF StreamType
  <2>2. CASE got' = <<>>
    BY <2>2, EmptySeq DEF StreamType
  <2> QED BY <1>0, <2>1, <2>2
<1>6. running' \in 0 .. Current
  <2>1. Piece[1][1] \in 1 .. Current /\ running \in 0 .. Current
    BY <1>0, PieceIs DEF Typed, TypeOK
  <2> QED BY <1>0, <2>1
<1>7. /\ out' \in Seq(PieceSet) /\ toHost' \in Seq(PieceSet)
      /\ StreamType(out)' /\ StreamType(toHost)'
  BY <1>0, <1>3, TypeIs DEF Typed, Streams, StreamType
<1>8. /\ lastError' \in 0 .. Current /\ DOMAIN replies' \subseteq 1 .. Current
      /\ \A id \in DOMAIN replies' :
           replies'[id] \in [ok : BOOLEAN, text : 0 .. Current]
      /\ cut' \in BOOLEAN /\ owed' \subseteq 1 .. Current
  BY <1>0, TypeIs DEF Typed
<1>9. Answers'
  BY <1>0 DEF Typed, Answers
<1> QED
  BY <1>0, <1>2, <1>4, <1>5, <1>6, <1>7, <1>8, <1>9, FirmwareTyped

LEMMA ByteTimeoutTyped ==
  ASSUME Typed, ByteTimeout
  PROVE  Typed'
<1>1. got' \in Seq(PieceSet) /\ DOMAIN got' = {}
  BY EmptySeq DEF ByteTimeout
<1>2. StreamType(got)'
  BY <1>1 DEF StreamType
<1>3. /\ toFw' \in Seq(PieceSet) /\ out' \in Seq(PieceSet) /\ toHost' \in Seq(PieceSet)
      /\ StreamType(toFw)' /\ StreamType(out)' /\ StreamType(toHost)'
      /\ running' \in 0 .. Current
  BY TypeIs DEF ByteTimeout, Typed, Streams, StreamType, Current
<1>4. /\ lastError' \in 0 .. Current /\ DOMAIN replies' \subseteq 1 .. Current
      /\ \A id \in DOMAIN replies' :
           replies'[id] \in [ok : BOOLEAN, text : 0 .. Current]
      /\ owed' \subseteq 1 .. Current
  BY TypeIs DEF ByteTimeout, Typed
<1>5. cut' \in BOOLEAN
  BY DEF ByteTimeout, Partly, Typed, TypeOK
<1>6. Answers'
  BY DEF ByteTimeout, Typed, Answers
<1> QED
  BY <1>1, <1>2, <1>3, <1>4, <1>5, <1>6, FirmwareTyped DEF ByteTimeout

\* The response is made of pieces of the command that ran.
LEMMA FinishIs ==
  ASSUME Typed, FinishCommand
  PROVE  /\ running \in 1 .. Current /\ running' = 0 /\ toFw' = toFw
         /\ out' \in Seq(PieceSet)
         /\ \A i \in DOMAIN out' : out'[i][1] = running /\ out'[i][2] \in Nat \ {0}
         /\ lastError' \in {lastError, running}
         /\ DOMAIN replies' = DOMAIN replies \cup {running}
         /\ \A id \in DOMAIN replies : id # running => replies'[id] = replies[id]
         /\ replies'[running] \in [ok : BOOLEAN, text : 0 .. Current]
         /\ sent[running].command = GetLastError => replies'[running].ok
<1>1. running \in 1 .. Current /\ running' = 0 /\ running \in Nat \ {0}
  BY DEF FinishCommand, Typed, TypeOK, Streams, Current
<1> DEFINE R(ok) == [ok |-> ok,
                     text |-> IF sent[running].command = GetLastError
                              THEN lastError ELSE 0]
<1>2. PICK ok \in BOOLEAN :
        /\ sent[running].command = GetLastError => ok
        /\ SetLastError(running, ok) /\ Respond(running, ok)
        /\ replies' = [id \in DOMAIN replies \cup {running} |->
             IF id # running THEN replies[id] ELSE R(ok)]
  BY DEF FinishCommand
<1>3. PICK n \in Nat : Response(running, ok) = Pieces(running, n)
  BY <1>1, ReplySizes DEF Typed
<1>4. /\ out' \in Seq(PieceSet) /\ toFw' = toFw
      /\ \A i \in DOMAIN out' : out'[i][1] = running /\ out'[i][2] \in Nat \ {0}
  <2>1. out' = Pieces(running, n) /\ toFw' = toFw
    BY <1>2, <1>3 DEF Respond
  <2>2. /\ out' \in Seq(PieceSet) /\ Len(out') = n
        /\ \A i \in 1 .. n : out'[i] = <<running, i>>
    BY <1>1, <2>1, PiecesAre
  <2>3. DOMAIN out' = 1 .. n
    BY <2>2, LenProperties
  <2> QED BY <2>1, <2>2, <2>3
<1>5. lastError' \in {lastError, running}
  BY <1>2 DEF SetLastError
<1>6. R(ok) \in [ok : BOOLEAN, text : 0 .. Current] /\ R(ok).ok = ok
  <2>1. lastError \in 0 .. Current /\ 0 \in 0 .. Current
    <3>1. Current \in Nat /\ lastError \in 0 .. Current
      BY DEF Typed, TypeOK, Streams, Current
    <3> QED BY <3>1
  <2> QED BY <2>1
<1> HIDE DEF R
<1> QED BY <1>1, <1>2, <1>4, <1>5, <1>6

LEMMA FinishTyped ==
  ASSUME Typed, FinishCommand
  PROVE  Typed'
<1>1. UNCHANGED <<phase, seq, sent, nested, left, got, toHost, outcome,
                  sessions, cut, owed, inherited, late>>
  BY DEF FinishCommand
<1>2. Current' = Current
  BY <1>1 DEF Current
<1>3. /\ toFw' \in Seq(PieceSet) /\ got' \in Seq(PieceSet) /\ out' \in Seq(PieceSet)
      /\ toHost' \in Seq(PieceSet)
      /\ StreamType(toFw)' /\ StreamType(got)' /\ StreamType(toHost)'
  BY <1>1, <1>2, FinishIs, TypeIs DEF Typed, Streams, StreamType
<1>4. StreamType(out)'
  BY <1>2, FinishIs DEF StreamType
<1>5. /\ lastError' \in 0 .. Current /\ running' \in 0 .. Current
  <2>1. Current \in Nat /\ lastError \in 0 .. Current
    BY DEF Typed, TypeOK, Streams, Current
  <2> QED BY <2>1, FinishIs
<1>6. /\ DOMAIN replies' \subseteq 1 .. Current
      /\ \A id \in DOMAIN replies' :
           replies'[id] \in [ok : BOOLEAN, text : 0 .. Current]
      /\ owed' \subseteq 1 .. Current /\ cut' \in BOOLEAN
  <2>1. /\ DOMAIN replies \subseteq 1 .. Current
        /\ \A id \in DOMAIN replies :
             replies[id] \in [ok : BOOLEAN, text : 0 .. Current]
        /\ owed' \subseteq 1 .. Current /\ cut' \in BOOLEAN
    BY <1>1 DEF Typed, TypeOK
  <2>2. \A id \in DOMAIN replies' : id = running \/ id \in DOMAIN replies
    BY FinishIs
  <2> QED BY <2>1, <2>2, FinishIs
<1>7. Answers'
  BY <1>1, FinishIs DEF Typed, Answers
<1> QED
  BY <1>1, <1>3, <1>4, <1>5, <1>6, <1>7, FirmwareTyped

LEMMA WriteByteTyped ==
  ASSUME Typed, WriteByte
  PROVE  Typed'
<1> DEFINE e == Head(out)
<1>0. /\ out \in Seq(PieceSet) /\ out # <<>> /\ out' = Tail(out)
      /\ StreamType(out) /\ StreamType(toHost) /\ toHost \in Seq(PieceSet)
      /\ toHost' \in {toHost, Append(toHost, e)}
      /\ UNCHANGED <<phase, seq, sent, nested, left, toFw, got, running, lastError,
           replies, outcome, sessions, cut, owed, inherited, late>>
  BY TypeIs DEF WriteByte, Typed, Streams
<1>1. /\ out' \in Seq(PieceSet) /\ Len(out) \in Nat \ {0} /\ e = out[1]
      /\ DOMAIN out = 1 .. Len(out) /\ DOMAIN out' = 1 .. Len(out) - 1
      /\ \A i \in 1 .. Len(out) - 1 : out'[i] = out[i + 1]
      /\ e \in PieceSet
  BY <1>0, TailOf
<1>2. /\ 1 \in DOMAIN out
      /\ \A i \in DOMAIN out' : \E k \in DOMAIN out : out'[i] = out[k]
  <2> SUFFICES ASSUME NEW i \in 1 .. Len(out) - 1
               PROVE  i + 1 \in DOMAIN out
    BY <1>1
  <2> QED BY <1>1
<1>3. /\ toHost' \in Seq(PieceSet)
      /\ \A i \in DOMAIN toHost' :
           \/ i \in DOMAIN toHost /\ toHost'[i] = toHost[i]
           \/ toHost'[i] = e
  <2> HIDE DEF e
  <2>1. CASE toHost' = toHost
    BY <1>0, <2>1
  <2>2. CASE toHost' = Append(toHost, e)
    <3>1. /\ toHost' \in Seq(PieceSet) /\ Len(toHost) \in Nat
          /\ DOMAIN toHost = 1 .. Len(toHost) /\ DOMAIN toHost' = 1 .. Len(toHost) + 1
          /\ \A i \in 1 .. Len(toHost) : toHost'[i] = toHost[i]
          /\ toHost'[Len(toHost) + 1] = e
      BY <1>0, <1>1, <2>2, AppendOf
    <3> QED BY <3>1
  <2> QED BY <1>0, <2>1, <2>2
<1>4. Current' = Current
  BY <1>0 DEF Current
<1>5. StreamType(out)' /\ StreamType(toHost)'
  <2>1. e[1] \in 1 .. Current /\ e[2] \in Nat \ {0}
    BY <1>0, <1>1, <1>2 DEF StreamType
  <2> HIDE DEF e
  <2> QED BY <1>0, <1>2, <1>3, <1>4, <2>1 DEF StreamType
<1>6. Answers'
  <2>1. /\ e[1] \in DOMAIN replies
        /\ \A i \in DOMAIN out' : out'[i][1] \in DOMAIN replies
    BY <1>1, <1>2 DEF Typed, Answers
  <2>2. \A i \in DOMAIN toHost' : toHost'[i][1] \in DOMAIN replies
    <3> HIDE DEF e
    <3> QED BY <1>3, <2>1 DEF Typed, Answers
  <2>3. \A id \in DOMAIN replies :
          sent[id].command = GetLastError => replies[id].ok
    BY DEF Typed, Answers
  <2> QED BY <1>0, <2>1, <2>2, <2>3 DEF Answers
<1>7. /\ toFw' \in Seq(PieceSet) /\ got' \in Seq(PieceSet)
      /\ StreamType(toFw)' /\ StreamType(got)'
  BY <1>0, <1>4, TypeIs DEF Typed, Streams, StreamType
<1>8. /\ lastError' \in 0 .. Current /\ DOMAIN replies' \subseteq 1 .. Current
      /\ \A id \in DOMAIN replies' :
           replies'[id] \in [ok : BOOLEAN, text : 0 .. Current]
      /\ cut' \in BOOLEAN /\ owed' \subseteq 1 .. Current /\ running' \in 0 .. Current
  BY <1>0, TypeIs DEF Typed
<1> HIDE DEF e
<1> QED
  BY <1>0, <1>1, <1>3, <1>5, <1>6, <1>7, <1>8, FirmwareTyped

LEMMA StepTyped ==
  ASSUME Typed, [Next]_vars
  PROVE  Typed'
<1>1. CASE Open
  BY <1>1, OpenTyped
<1>2. CASE Close
  BY <1>2, CloseTyped
<1>3. CASE \E c \in Commands : Command(c)
  BY <1>3, CommandTyped
<1>4. CASE HostStep
  BY <1>4, WriteTyped, GiveUpTyped, AnswerOkTyped, AnswerErrorTyped DEF HostStep
<1>5. CASE FirmwareStep
  BY <1>5, ReadTyped, ByteTimeoutTyped, FinishTyped, WriteByteTyped DEF FirmwareStep
<1>6. CASE UNCHANGED vars
  <2>1. Streams' /\ TypeOK'
    BY <1>6 DEF vars, Typed, TypeOK, Streams, Current
  <2>2. LeftIsRest' /\ Calls' /\ Answers'
    BY <1>6 DEF vars, Typed, LeftIsRest, Calls, Answers, Current, RequestSize
  <2> QED BY <2>1, <2>2 DEF Typed
<1> QED BY <1>1, <1>2, <1>3, <1>4, <1>5, <1>6 DEF Next

-----------------------------------------------------------------------------
(* What is on its way to handle_frame, in the order it was written.        *)

Stream == got \o toFw

Before(p, q) == p[1] < q[1] \/ (p[1] = q[1] /\ p[2] < q[2])

\* Pieces never overtake each other, and none comes twice.
Ordered ==
  \A i, j \in 1 .. Len(Stream) : i < j => Before(Stream[i], Stream[j])

\* They are of requests that have not been run.
Fits ==
  \A i \in 1 .. Len(Stream) :
    /\ Stream[i][2] <= RequestSize(Stream[i][1])
    /\ running < Stream[i][1]
    /\ \A id \in DOMAIN replies : id < Stream[i][1]

\* Of the current request there are only the pieces that were written.
Written == RequestSize(Current) - Len(left)
Partial ==
  phase = "write" =>
    /\ \A i \in 1 .. Len(Stream) :
         Stream[i][1] = Current => Stream[i][2] <= Written
    /\ running # Current /\ Current \notin DOMAIN replies

\* A frame read to its length is run or dropped at once, unless its header is
\* mixed and says another length.
Foreign == Len(got) >= HDR /\ ~InOrder(got, HDR)
HeadFits == got # <<>> => Foreign \/ Len(got) < RequestSize(got[1][1])

Order == Ordered /\ Fits /\ Partial /\ HeadFits

LEMMA StreamIs ==
  ASSUME Typed
  PROVE  /\ Stream \in Seq(PieceSet) /\ StreamType(Stream)
         /\ Len(got) \in Nat /\ Len(toFw) \in Nat
         /\ Len(Stream) = Len(got) + Len(toFw) /\ Len(Stream) \in Nat
         /\ DOMAIN Stream = 1 .. Len(Stream)
         /\ \A i \in 1 .. Len(got) : Stream[i] = got[i]
         /\ \A i \in 1 .. Len(toFw) : Stream[Len(got) + i] = toFw[i]
<1>1. /\ got \in Seq(PieceSet) /\ toFw \in Seq(PieceSet)
      /\ StreamType(got) /\ StreamType(toFw)
  BY TypeIs DEF Typed, Streams
<1>2. /\ Stream \in Seq(PieceSet) /\ Len(Stream) = Len(got) + Len(toFw)
      /\ \A i \in 1 .. Len(got) + Len(toFw) : Stream[i] =
           IF i <= Len(got) THEN got[i] ELSE toFw[i - Len(got)]
  BY <1>1, ConcatProperties DEF Stream
<1>3. /\ Len(got) \in Nat /\ Len(toFw) \in Nat /\ DOMAIN Stream = 1 .. Len(Stream)
      /\ DOMAIN got = 1 .. Len(got) /\ DOMAIN toFw = 1 .. Len(toFw)
  BY <1>1, <1>2, LenProperties
<1>4. \A i \in 1 .. Len(got) : Stream[i] = got[i]
  BY <1>2, <1>3
<1>5. \A i \in 1 .. Len(toFw) : Stream[Len(got) + i] = toFw[i]
  <2> TAKE i \in 1 .. Len(toFw)
  <2>1. /\ Len(got) + i \in 1 .. Len(got) + Len(toFw)
        /\ ~(Len(got) + i <= Len(got)) /\ Len(got) + i - Len(got) = i
    BY <1>3
  <2> QED BY <1>2, <2>1
<1>6. StreamType(Stream)
  <2> SUFFICES ASSUME NEW i \in 1 .. Len(Stream)
               PROVE  Stream[i][1] \in 1 .. Current /\ Stream[i][2] \in Nat \ {0}
    BY <1>3 DEF StreamType
  <2>1. CASE i <= Len(got)
    <3>1. i \in DOMAIN got /\ Stream[i] = got[i]
      BY <1>2, <1>3, <1>4, <2>1
    <3> QED BY <1>1, <3>1 DEF StreamType
  <2>2. CASE Len(got) < i
    <3>1. i - Len(got) \in DOMAIN toFw /\ Stream[i] = toFw[i - Len(got)]
      BY <1>2, <1>3, <2>2
    <3> QED BY <1>1, <3>1 DEF StreamType
  <2> QED BY <1>2, <1>3, <2>1, <2>2
<1> QED BY <1>2, <1>3, <1>4, <1>5, <1>6

\* The piece the host writes goes to the end.
LEMMA StreamGrows ==
  ASSUME Typed, Write
  PROVE  /\ Len(Stream)' = Len(Stream) + 1
         /\ \A i \in 1 .. Len(Stream) : Stream'[i] = Stream[i]
         /\ Stream'[Len(Stream) + 1] = <<Current, Written + 1>>
         /\ Len(left') = Len(left) - 1 /\ Current' = Current
         /\ Written \in Nat /\ Written < RequestSize(Current)
<1> DEFINE e == Head(left)
<1>1. /\ got \in Seq(PieceSet) /\ toFw \in Seq(PieceSet) /\ e \in PieceSet
      /\ toFw' = Append(toFw, e) /\ got' = got
      /\ e = <<Current, RequestSize(Current) - Len(left) + 1>>
      /\ Len(left) \in 1 .. RequestSize(Current) /\ RequestSize(Current) \in Nat
  BY WriteIs DEF Typed, Streams, Write, firmware
<1>2. Len(left') = Len(left) - 1 /\ Current' = Current
  BY WriteIs, TailOf DEF Write, Current
<1>3. e = <<Current, Written + 1>> /\ Written \in Nat /\ Written < RequestSize(Current)
  BY <1>1 DEF Written
<1> HIDE DEF e
<1>4. /\ toFw' \in Seq(PieceSet) /\ Len(toFw') = Len(toFw) + 1 /\ Len(toFw) \in Nat
      /\ \A i \in 1 .. Len(toFw) : toFw'[i] = toFw[i]
      /\ toFw'[Len(toFw) + 1] = e
  BY <1>1, AppendOf
<1>5. /\ Len(Stream)' = Len(got) + Len(toFw')
      /\ \A i \in 1 .. Len(got) + Len(toFw') : Stream'[i] =
           IF i <= Len(got) THEN got[i] ELSE toFw'[i - Len(got)]
  <2>1. Stream' = got \o toFw'
    BY <1>1 DEF Stream
  <2>2. /\ Len(got \o toFw') = Len(got) + Len(toFw')
        /\ \A i \in 1 .. Len(got) + Len(toFw') : (got \o toFw')[i] =
             IF i <= Len(got) THEN got[i] ELSE toFw'[i - Len(got)]
    <3>1. got \in Seq(PieceSet) /\ toFw' \in Seq(PieceSet)
      BY <1>1, <1>4
    <3> QED BY <3>1, ConcatProperties
  <2> QED BY <2>1, <2>2
<1>6. /\ Len(Stream) = Len(got) + Len(toFw) /\ Len(got) \in Nat
      /\ \A i \in 1 .. Len(got) + Len(toFw) : Stream[i] =
           IF i <= Len(got) THEN got[i] ELSE toFw[i - Len(got)]
  BY <1>1, LenProperties, ConcatProperties DEF Stream
<1>7. \A i \in 1 .. Len(Stream) : Stream'[i] = Stream[i]
  <2> TAKE i \in 1 .. Len(Stream)
  <2>1. i \in 1 .. Len(got) + Len(toFw') /\ i \in 1 .. Len(got) + Len(toFw)
    BY <1>4, <1>6
  <2>2. CASE i <= Len(got)
    BY <1>5, <1>6, <2>1, <2>2
  <2>3. CASE ~(i <= Len(got))
    <3>1. i - Len(got) \in 1 .. Len(toFw)
      BY <1>4, <1>6, <2>1, <2>3
    <3> QED BY <1>4, <1>5, <1>6, <2>1, <2>3, <3>1
  <2> QED BY <2>2, <2>3
<1>8. Stream'[Len(Stream) + 1] = e
  <2> DEFINE i == Len(Stream) + 1
  <2>1. /\ i \in 1 .. Len(got) + Len(toFw') /\ ~(i <= Len(got))
        /\ i - Len(got) = Len(toFw) + 1
    BY <1>4, <1>6
  <2> HIDE DEF i
  <2>2. Stream'[i] = e
    BY <1>4, <1>5, <2>1
  <2> QED BY <2>2 DEF i
<1> QED BY <1>2, <1>3, <1>4, <1>5, <1>6, <1>7, <1>8

\* The firmware moves a piece, or takes those it has read and the next away.
LEMMA StreamRead ==
  ASSUME Typed, Reading, toFw' = Tail(toFw)
  PROVE  LET n == Len(Piece) IN
         /\ n \in Nat \ {0} /\ n = Len(got) + 1 /\ n <= Len(Stream)
         /\ \A i \in 1 .. n : Piece[i] = Stream[i]
         /\ got' = Piece =>
              Len(Stream)' = Len(Stream) /\ \A i \in 1 .. Len(Stream) : Stream'[i] = Stream[i]
         /\ got' = <<>> =>
              /\ Len(Stream)' = Len(Stream) - n
              /\ \A i \in 1 .. Len(Stream) - n : Stream'[i] = Stream[n + i]
<1> DEFINE n == Len(Piece)
<1>1. /\ Piece \in Seq(PieceSet) /\ Len(got) \in Nat /\ n = Len(got) + 1
      /\ \A i \in 1 .. Len(got) : Piece[i] = got[i]
      /\ Piece[Len(got) + 1] = toFw[1]
  BY PieceIs
<1>2. /\ toFw \in Seq(PieceSet) /\ toFw # <<>>
  BY DEF Typed, Streams, Reading
<1>3. /\ toFw' \in Seq(PieceSet) /\ Len(toFw) \in Nat \ {0} /\ Len(toFw') = Len(toFw) - 1
      /\ \A i \in 1 .. Len(toFw) - 1 : toFw'[i] = toFw[i + 1]
  BY <1>2, TailOf
<1>4. /\ Len(Stream) = Len(got) + Len(toFw)
      /\ \A i \in 1 .. Len(got) : Stream[i] = got[i]
      /\ \A i \in 1 .. Len(toFw) : Stream[Len(got) + i] = toFw[i]
  BY StreamIs
<1>5. n \in Nat \ {0} /\ n <= Len(Stream)
  BY <1>1, <1>3, <1>4
<1>6. \A i \in 1 .. n : Piece[i] = Stream[i]
  <2> TAKE i \in 1 .. n
  <2>1. CASE i \in 1 .. Len(got)
    BY <1>1, <1>4, <2>1
  <2>2. CASE i = Len(got) + 1
    BY <1>1, <1>3, <1>4, <2>2
  <2> QED BY <1>1, <2>1, <2>2
<1>7. \A i \in 1 .. Len(Stream) - n : toFw'[i] = Stream[n + i]
  <2> TAKE i \in 1 .. Len(Stream) - n
  <2>1. /\ i \in 1 .. Len(toFw) - 1 /\ i + 1 \in 1 .. Len(toFw)
        /\ Len(got) + (i + 1) = n + i
    BY <1>1, <1>3, <1>4
  <2> QED BY <1>3, <1>4, <2>1
<1>8. ASSUME got' = <<>>
      PROVE  /\ Len(Stream)' = Len(Stream) - n
             /\ \A i \in 1 .. Len(Stream) - n : Stream'[i] = Stream[n + i]
  <2>1. Stream' = toFw'
    BY <1>3, <1>8, ConcatEmptySeq DEF Stream
  <2> QED BY <1>1, <1>3, <1>4, <1>7, <2>1
<1>9. ASSUME got' = Piece
      PROVE  Len(Stream)' = Len(Stream) /\ \A i \in 1 .. Len(Stream) : Stream'[i] = Stream[i]
  <2>1. /\ Len(Stream)' = n + Len(toFw')
        /\ \A i \in 1 .. n + Len(toFw') : Stream'[i] =
             IF i <= n THEN Piece[i] ELSE toFw'[i - n]
    <3>1. Stream' = Piece \o toFw'
      BY <1>9 DEF Stream
    <3>2. \A s, u \in Seq(PieceSet) :
            /\ Len(s \o u) = Len(s) + Len(u)
            /\ \A i \in 1 .. Len(s) + Len(u) : (s \o u)[i] =
                 IF i <= Len(s) THEN s[i] ELSE u[i - Len(s)]
      BY ConcatProperties
    <3>3. Piece \in Seq(PieceSet) /\ toFw' \in Seq(PieceSet)
      BY <1>1, <1>3
    <3> QED BY <3>1, <3>2, <3>3
  <2>2. n + Len(toFw') = Len(Stream)
    BY <1>1, <1>3, <1>4
  <2>3. \A i \in 1 .. Len(Stream) : Stream'[i] = Stream[i]
    <3> TAKE i \in 1 .. Len(Stream)
    <3>1. CASE i <= n
      BY <1>5, <1>6, <2>1, <2>2, <3>1
    <3>2. CASE ~(i <= n)
      <4>1. i - n \in 1 .. Len(Stream) - n /\ n + (i - n) = i
        <5>1. n \in Nat /\ Len(Stream) \in Nat
          BY <1>5, StreamIs
        <5> HIDE DEF n
        <5> QED BY <3>2, <5>1
      <4> HIDE DEF n
      <4> QED BY <1>7, <2>1, <2>2, <3>2, <4>1
    <3> QED BY <3>1, <3>2
  <2> QED BY <2>1, <2>2, <2>3
<1> QED BY <1>1, <1>5, <1>6, <1>8, <1>9

\* The size of a request does not change.
LEMMA SizesStay ==
  ASSUME Typed, NEW c \in AllCommands, Send(c)
  PROVE  /\ Current \in Nat /\ Current' = Current + 1
         /\ \A id \in 1 .. Current : RequestSize(id)' = RequestSize(id)
         /\ \A id \in 1 .. Current : sent'[id] = sent[id]
         /\ sent'[Current + 1] = [seq |-> seq, command |-> c]
         /\ Len(left') = RequestSize(Current)' /\ phase' = "write"
<1> DEFINE r == [seq |-> seq, command |-> c]
<1>1. r \in RequestSet /\ sent' = Append(sent, r)
  BY DEF Send, Typed, TypeOK, RequestSet
<1>2. r.command = c
  OBVIOUS
<1> HIDE DEF r
<1>3. /\ Current \in Nat /\ Current' = Current + 1
      /\ \A id \in 1 .. Current : sent'[id] = sent[id]
      /\ sent'[Current + 1] = r
  BY <1>1, OneMore DEF Typed
<1>4. \A id \in 1 .. Current : RequestSize(id)' = RequestSize(id)
  BY <1>3 DEF RequestSize
<1>5. Len(left') = RequestSize(Current)'
  <2> DEFINE n == HDR + RequestLen[c]
  <2>1. n \in Nat /\ Current + 1 \in Nat \ {0}
    <3>1. RequestLen[c] \in Nat
      BY CommandAssumption
    <3> QED BY <1>3, <3>1, Sizes
  <2>2. left' = Pieces(Current + 1, n)
    BY DEF Send
  <2>3. RequestSize(Current)' = n
    BY <1>2, <1>3 DEF RequestSize
  <2> HIDE DEF n
  <2> QED BY <2>1, <2>2, <2>3, PiecesAre
<1> QED BY <1>3, <1>4, <1>5 DEF r, Send

LEMMA InitOrder ==
  ASSUME Init
  PROVE  Order
<1>1. Len(Stream) = 0 /\ got = <<>> /\ phase # "write"
  <2>1. Stream = <<>>
    BY EmptySeq, ConcatEmptySeq DEF Init, Stream
  <2> QED BY <2>1 DEF Init
<1> QED BY <1>1 DEF Order, Ordered, Fits, Partial, HeadFits, Foreign

\* The stream stays as it is.
LEMMA SameOrder ==
  ASSUME Typed, Order, UNCHANGED <<sent, toFw, got>>, running' \in {0, running},
         \A id \in DOMAIN replies' : id \in DOMAIN replies \/ id = running,
         phase' = "write" => phase = "write" /\ left' = left
  PROVE  Order'
<1>1. /\ Stream' = Stream /\ Len(Stream)' = Len(Stream) /\ Current' = Current
      /\ \A id \in 1 .. Current : RequestSize(id)' = RequestSize(id)
  BY DEF Stream, Current, RequestSize
<1>2. \A i \in 1 .. Len(Stream) : Stream[i][1] \in 1 .. Current
  BY StreamIs DEF StreamType
<1>3. Ordered'
  BY <1>1 DEF Order, Ordered
<1>4. Fits'
  <2> SUFFICES ASSUME NEW i \in 1 .. Len(Stream)
               PROVE  /\ Stream[i][2] <= RequestSize(Stream[i][1])
                      /\ running' < Stream[i][1]
                      /\ \A id \in DOMAIN replies' : id < Stream[i][1]
    BY <1>1, <1>2 DEF Fits
  <2>1. /\ Stream[i][2] <= RequestSize(Stream[i][1]) /\ running < Stream[i][1]
        /\ \A id \in DOMAIN replies : id < Stream[i][1]
    BY DEF Order, Fits
  <2>2. Current \in Nat
    BY DEF Typed, Streams, Current
  <2> QED BY <1>2, <2>1, <2>2
<1>5. Partial'
  <2> SUFFICES ASSUME phase' = "write"
               PROVE  /\ \A i \in 1 .. Len(Stream) :
                           Stream[i][1] = Current => Stream[i][2] <= Written'
                      /\ running' # Current /\ Current \notin DOMAIN replies'
    BY <1>1 DEF Partial
  <2>1. phase = "write" /\ Current > 0 /\ Current \in Nat
    BY DEF Typed, Calls, Streams, Current
  <2>2. Written' = Written
    BY <1>1, <2>1 DEF Written
  <2> QED BY <2>1, <2>2 DEF Order, Partial
<1>6. HeadFits'
  BY DEF Order, HeadFits, Foreign, InOrder, RequestSize
<1> QED BY <1>3, <1>4, <1>5, <1>6 DEF Order

LEMMA SendOrder ==
  ASSUME Typed, Order, NEW c \in AllCommands, Send(c), UNCHANGED <<toFw, firmware>>
  PROVE  Order'
<1>1. /\ Stream' = Stream /\ Len(Stream)' = Len(Stream) /\ got' = got
      /\ running' = running /\ replies' = replies
  BY DEF Stream, firmware
<1>2. /\ Current \in Nat /\ Current' = Current + 1
      /\ \A id \in 1 .. Current : RequestSize(id)' = RequestSize(id)
      /\ phase' = "write"
  BY SizesStay
<1>3. \A i \in 1 .. Len(Stream) : Stream[i][1] \in 1 .. Current
  BY StreamIs DEF StreamType
<1>4. Ordered'
  BY <1>1 DEF Order, Ordered
<1>5. Fits'
  <2> SUFFICES ASSUME NEW i \in 1 .. Len(Stream)
               PROVE  /\ Stream[i][2] <= RequestSize(Stream[i][1])'
                      /\ running < Stream[i][1]
                      /\ \A id \in DOMAIN replies : id < Stream[i][1]
    BY <1>1 DEF Fits
  <2>1. RequestSize(Stream[i][1])' = RequestSize(Stream[i][1])
    BY <1>1, <1>2, <1>3 DEF RequestSize
  <2> QED BY <2>1 DEF Order, Fits
<1>6. Partial'
  <2>1. \A i \in 1 .. Len(Stream) : Stream[i][1] # Current + 1
    BY <1>2, <1>3
  <2>2. running # Current + 1 /\ Current + 1 \notin DOMAIN replies
    BY <1>2 DEF Typed, TypeOK
  <2> QED BY <1>1, <1>2, <2>1, <2>2 DEF Partial
<1>7. HeadFits'
  <2> SUFFICES ASSUME got # <<>>
               PROVE  Foreign \/ Len(got) < RequestSize(got[1][1])'
    BY <1>1 DEF HeadFits, Foreign, InOrder
  <2>1. got[1][1] \in 1 .. Current
    <3>1. got \in Seq(PieceSet) /\ StreamType(got)
      BY TypeIs DEF Typed, Streams
    <3>2. 1 \in DOMAIN got
      BY <3>1, EmptySeq, LenProperties
    <3> QED BY <3>1, <3>2 DEF StreamType
  <2>2. RequestSize(got[1][1])' = RequestSize(got[1][1])
    BY <1>1, <1>2, <2>1 DEF RequestSize
  <2> QED BY <2>2 DEF Order, HeadFits
<1> QED BY <1>4, <1>5, <1>6, <1>7 DEF Order

LEMMA WriteOrder ==
  ASSUME Typed, Order, Write
  PROVE  Order'
<1> DEFINE n == Len(Stream)
           e == <<Current, Written + 1>>
<1>1. /\ Len(Stream)' = n + 1 /\ \A i \in 1 .. n : Stream'[i] = Stream[i]
      /\ Stream'[n + 1] = e /\ Current' = Current
      /\ Written \in Nat /\ Written < RequestSize(Current)
  BY StreamGrows
<1>2. /\ UNCHANGED <<sent, got, running, replies>> /\ phase = "write"
      /\ \A id : RequestSize(id)' = RequestSize(id)
      /\ phase' = "write" => Written' = Written + 1
  <2>1. UNCHANGED <<sent, got, running, replies>> /\ phase = "write"
    BY DEF Write, firmware
  <2>2. Written' = Written + 1
    <3>1. RequestSize(Current)' = RequestSize(Current)
      BY <1>1, <2>1 DEF RequestSize
    <3>2. Len(left') = Len(left) - 1 /\ Len(left) \in Nat /\ RequestSize(Current) \in Nat
      BY StreamGrows, WriteIs
    <3> QED BY <3>1, <3>2 DEF Written
  <2> QED BY <2>1, <2>2 DEF RequestSize
<1>3. /\ n \in Nat /\ Current \in Nat /\ Current > 0
      /\ \A i \in 1 .. n : Stream[i][1] \in 1 .. Current /\ Stream[i][2] \in Nat
  <2>1. n \in Nat /\ StreamType(Stream) /\ DOMAIN Stream = 1 .. n
    BY StreamIs
  <2>2. Current \in Nat \ {0}
    BY WriteIs
  <2> HIDE DEF n
  <2> QED BY <2>1, <2>2 DEF StreamType
<1>4. /\ running # Current /\ Current \notin DOMAIN replies
      /\ running \in 0 .. Current /\ DOMAIN replies \subseteq 1 .. Current
      /\ \A i \in 1 .. n : Stream[i][1] = Current => Stream[i][2] <= Written
  BY <1>2 DEF Order, Partial, Typed, TypeOK
<1>5. e[1] = Current /\ e[2] = Written + 1
  OBVIOUS
<1> HIDE DEF n, e
<1>6. Ordered'
  <2> SUFFICES ASSUME NEW i \in 1 .. n + 1, NEW j \in 1 .. n + 1, i < j
               PROVE  Before(Stream'[i], Stream'[j])
    BY <1>1 DEF Ordered, Before
  <2>1. i \in 1 .. n /\ Stream'[i] = Stream[i]
    BY <1>1, <1>3
  <2>2. CASE j \in 1 .. n
    <3>1. Before(Stream[i], Stream[j])
      BY <2>1, <2>2 DEF Order, Ordered, n
    <3> QED BY <1>1, <2>1, <2>2, <3>1
  <2>3. CASE j = n + 1
    <3>1. Stream[i][1] < Current \/ (Stream[i][1] = Current /\ Stream[i][2] < Written + 1)
      <4>1. Stream[i][1] \in 1 .. Current /\ Stream[i][2] \in Nat /\ Current \in Nat
        BY <1>3, <2>1
      <4>2. Written \in Nat /\ (Stream[i][1] = Current => Stream[i][2] <= Written)
        BY <1>1, <1>4, <2>1
      <4> QED BY <4>1, <4>2
    <3> QED BY <1>1, <1>5, <2>1, <2>3, <3>1 DEF Before
  <2> QED BY <1>3, <2>2, <2>3
<1>7. Fits'
  <2> SUFFICES ASSUME NEW i \in 1 .. n + 1
               PROVE  /\ Stream'[i][2] <= RequestSize(Stream'[i][1])
                      /\ running < Stream'[i][1]
                      /\ \A id \in DOMAIN replies : id < Stream'[i][1]
    BY <1>1, <1>2 DEF Fits
  <2>1. CASE i \in 1 .. n
    BY <1>1, <2>1 DEF Order, Fits, n
  <2>2. CASE i = n + 1
    <3>1. Stream'[i][1] = Current /\ Stream'[i][2] <= RequestSize(Current)
      BY <1>1, <1>5, <2>2, WriteIs
    <3>2. running < Current /\ \A id \in DOMAIN replies : id < Current
      BY <1>3, <1>4
    <3> QED BY <3>1, <3>2
  <2> QED BY <1>3, <2>1, <2>2
<1>8. Partial'
  <2> SUFFICES ASSUME phase' = "write", NEW i \in 1 .. n + 1, Stream'[i][1] = Current
               PROVE  Stream'[i][2] <= Written + 1
    BY <1>1, <1>2, <1>4 DEF Partial
  <2>1. CASE i \in 1 .. n
    BY <1>1, <1>3, <1>4, <2>1
  <2>2. CASE i = n + 1
    BY <1>1, <1>5, <2>2
  <2> QED BY <1>3, <2>1, <2>2
<1>9. HeadFits'
  BY <1>2 DEF Order, HeadFits, Foreign, InOrder
<1> QED BY <1>6, <1>7, <1>8, <1>9 DEF Order

\* The frame handle_frame gets: one request, whole, and the stream behind it.
LEMMA TakeIs ==
  ASSUME Typed, Order, TakeFrame
  PROVE  LET a == Piece[1][1]
             n == RequestSize(a)
         IN  /\ a \in 1 .. Current /\ n \in Nat \ {0} /\ n <= Len(Stream)
             /\ Piece = Pieces(a, n)
             /\ \A i \in 1 .. n : Stream[i] = <<a, i>>
             /\ Len(Stream)' = Len(Stream) - n
             /\ \A i \in 1 .. Len(Stream) - n : Stream'[i] = Stream[n + i]
             /\ \A i \in n + 1 .. Len(Stream) : a < Stream[i][1]
             /\ \A id \in DOMAIN replies : id < a
             /\ phase = "write" => a # Current
<1> DEFINE a == Piece[1][1]
           n == RequestSize(a)
<1>1. /\ Reading /\ Whole /\ toFw' = Tail(toFw) /\ got' = <<>>
  BY DEF TakeFrame
<1>2. /\ Piece \in Seq(PieceSet) /\ a \in 1 .. Current /\ n = FrameSize
      /\ n \in Nat /\ n > HDR
  BY <1>1, PieceIs DEF FrameSize
<1>3. Len(Piece) = n /\ n \in Nat \ {0}
  BY <1>1, <1>2, Sizes DEF Whole
<1>4. \A i \in 1 .. n : Piece[i] = <<a, i>>
  BY <1>1, <1>2, <1>3 DEF Whole, Rejected, InOrder
<1>5. Piece = Pieces(a, n)
  <2>1. a \in Nat \ {0}
    BY <1>2
  <2> HIDE DEF a, n
  <2>2. /\ Pieces(a, n) \in Seq(PieceSet) /\ Len(Pieces(a, n)) = n
        /\ \A i \in 1 .. n : Pieces(a, n)[i] = <<a, i>>
    BY <1>3, <2>1, PiecesAre
  <2> QED BY <1>2, <1>3, <1>4, <2>2, SeqEqual
<1>6. /\ n <= Len(Stream) /\ Len(Stream)' = Len(Stream) - n
      /\ \A i \in 1 .. n : Piece[i] = Stream[i]
      /\ \A i \in 1 .. Len(Stream) - n : Stream'[i] = Stream[n + i]
  BY <1>1, <1>3, StreamRead
<1>7. \A i \in 1 .. n : Stream[i] = <<a, i>>
  BY <1>4, <1>6
<1>8. /\ Len(Stream) \in Nat
      /\ \A i \in 1 .. Len(Stream) : Stream[i][1] \in 1 .. Current /\ Stream[i][2] \in Nat \ {0}
  BY StreamIs DEF StreamType
<1> HIDE DEF a, n
<1>9. n \in 1 .. Len(Stream) /\ Stream[n] = <<a, n>> /\ Stream[n][1] = a /\ Stream[n][2] = n
  BY <1>3, <1>6, <1>7, <1>8
<1>10. ASSUME NEW i \in n + 1 .. Len(Stream)
       PROVE  a < Stream[i][1]
  <2>1. i \in 1 .. Len(Stream) /\ n < i
    BY <1>3, <1>8
  <2>2. Before(Stream[n], Stream[i])
    BY <1>9, <2>1 DEF Order, Ordered
  <2>3. a < Stream[i][1] \/ (a = Stream[i][1] /\ n < Stream[i][2])
    BY <1>9, <2>2 DEF Before
  <2>4. Stream[i][2] <= RequestSize(Stream[i][1])
    BY <2>1 DEF Order, Fits
  <2>5. ~(a = Stream[i][1] /\ n < Stream[i][2])
    <3> SUFFICES ASSUME a = Stream[i][1], n < Stream[i][2] PROVE FALSE
      OBVIOUS
    <3>1. Stream[i][2] <= n /\ Stream[i][2] \in Nat
      BY <1>8, <2>1, <2>4 DEF n
    <3> QED BY <1>3, <3>1
  <2> QED BY <2>3, <2>5
<1>11. \A id \in DOMAIN replies : id < a
  BY <1>9 DEF Order, Fits
<1>12. phase = "write" => a # Current
  <2> SUFFICES ASSUME phase = "write", a = Current PROVE FALSE
    OBVIOUS
  <2>1. n <= Written
    BY <1>9 DEF Order, Partial
  <2>2. left # <<>> /\ left \in Seq(PieceSet)
    BY DEF Typed, LeftIsRest, Streams
  <2>3. Len(left) \in Nat \ {0}
    BY <2>2, EmptySeq
  <2>4. Written = n - Len(left)
    BY DEF Written, n
  <2> QED BY <1>3, <2>1, <2>3, <2>4
<1> QED
  BY <1>2, <1>3, <1>5, <1>6, <1>7, <1>10, <1>11, <1>12 DEF a, n

LEMMA ReadOrder ==
  ASSUME Typed, Order, ReadByte
  PROVE  Order'
<1>1. /\ Reading /\ (Rejected => Passes) /\ ~Whole /\ got' = Piece /\ toFw' = Tail(toFw)
      /\ UNCHANGED <<phase, sent, left, running, replies>>
  BY DEF ReadByte
<1>2. /\ Len(Stream)' = Len(Stream) /\ \A i \in 1 .. Len(Stream) : Stream'[i] = Stream[i]
      /\ Len(got) \in Nat /\ Len(Piece) = Len(got) + 1
  BY <1>1, StreamRead, PieceIs
<1>3. /\ Current' = Current /\ \A id : RequestSize(id)' = RequestSize(id)
      /\ Written' = Written
  BY <1>1 DEF Current, RequestSize, Written
<1>4. Ordered'
  BY <1>2 DEF Order, Ordered, Before
<1>5. Fits'
  BY <1>1, <1>2, <1>3 DEF Order, Fits
<1>6. Partial'
  BY <1>1, <1>2, <1>3 DEF Order, Partial
<1>7. HeadFits'
  <2>1. FrameSize = RequestSize(Piece[1][1]) /\ FrameSize \in Nat /\ FrameSize > HDR
    BY <1>1, PieceIs DEF FrameSize
  <2>2. CASE Mixed
    BY <1>1, <2>2 DEF HeadFits, Foreign, Mixed, InOrder
  <2>3. CASE ~Mixed
    <3>1. ~Rejected
      BY <1>1, <2>3 DEF Passes
    <3>2. Len(got) < FrameSize
      <4>1. CASE got = <<>>
        BY <2>1, <4>1, Sizes, EmptySeq
      <4>2. CASE got # <<>>
        <5>1. Piece[1] = got[1]
          <6>1. 1 \in 1 .. Len(got)
            BY <4>2, EmptySeq DEF Typed, Streams
          <6> QED BY <1>1, <6>1, PieceIs
        <5>2. ~Foreign
          <6> SUFFICES ASSUME Len(got) >= HDR PROVE InOrder(got, HDR)
            BY DEF Foreign
          <6>1. InOrder(Piece, HDR)
            BY <1>2, <2>3, Sizes DEF Mixed
          <6>2. \A k \in 1 .. HDR : Piece[k] = got[k]
            <7>1. \A k \in 1 .. HDR : k \in 1 .. Len(got)
              BY <1>2, Sizes
            <7> QED BY <1>1, <7>1, PieceIs
          <6> QED BY <5>1, <6>1, <6>2 DEF InOrder
        <5> QED BY <2>1, <4>2, <5>1, <5>2 DEF Order, HeadFits
      <4> QED BY <4>1, <4>2
    <3>3. Len(Piece) # FrameSize
      <4> SUFFICES ASSUME Len(Piece) = FrameSize PROVE FALSE
        OBVIOUS
      <4> QED BY <1>1, <2>1, <3>1, Sizes DEF Whole
    <3>4. Len(Piece) < FrameSize
      BY <1>2, <2>1, <3>2, <3>3
    <3> QED BY <1>1, <1>3, <2>1, <3>4 DEF HeadFits
  <2> QED BY <2>2, <2>3
<1> QED BY <1>4, <1>5, <1>6, <1>7 DEF Order

\* The first n pieces of the stream are gone.
LEMMA CutOrder ==
  ASSUME Typed, Order, NEW n \in Nat, n <= Len(Stream),
         UNCHANGED <<phase, sent, left, replies>>,
         Len(Stream)' = Len(Stream) - n,
         \A i \in 1 .. Len(Stream) - n : Stream'[i] = Stream[n + i],
         \A i \in 1 .. Len(Stream) - n : running' < Stream[n + i][1],
         phase = "write" => running' # Current,
         got' = <<>>
  PROVE  Order'
<1>0. Len(Stream) \in Nat
  BY StreamIs
<1>1. /\ Current' = Current /\ \A id : RequestSize(id)' = RequestSize(id)
      /\ Written' = Written
  BY DEF Current, RequestSize, Written
<1>2. \A i \in 1 .. Len(Stream) - n : n + i \in 1 .. Len(Stream)
  BY <1>0
<1>3. Ordered'
  <2> SUFFICES ASSUME NEW i \in 1 .. Len(Stream) - n, NEW j \in 1 .. Len(Stream) - n, i < j
               PROVE  Before(Stream[n + i], Stream[n + j])
    BY DEF Ordered, Before
  <2>1. n + i < n + j
    BY <1>0
  <2> QED BY <1>2, <2>1 DEF Order, Ordered
<1>4. Fits'
  <2> SUFFICES ASSUME NEW i \in 1 .. Len(Stream) - n
               PROVE  /\ Stream[n + i][2] <= RequestSize(Stream[n + i][1])
                      /\ \A id \in DOMAIN replies : id < Stream[n + i][1]
    BY <1>1 DEF Fits
  <2> QED BY <1>2 DEF Order, Fits
<1>5. Partial'
  <2> SUFFICES ASSUME phase = "write", NEW i \in 1 .. Len(Stream) - n,
                      Stream[n + i][1] = Current
               PROVE  Stream[n + i][2] <= Written
    BY <1>1 DEF Order, Partial
  <2> QED BY <1>2 DEF Order, Partial
<1>6. HeadFits'
  BY DEF HeadFits
<1> QED BY <1>3, <1>4, <1>5, <1>6 DEF Order

LEMMA TakeOrder ==
  ASSUME Typed, Order, TakeFrame
  PROVE  Order'
<1> DEFINE a == Piece[1][1]
           n == RequestSize(a)
<1>1. /\ UNCHANGED <<phase, sent, left, replies>> /\ running' = a /\ got' = <<>>
  BY DEF TakeFrame
<1>2. /\ a \in 1 .. Current /\ n \in Nat /\ n <= Len(Stream)
      /\ Len(Stream)' = Len(Stream) - n
      /\ \A i \in 1 .. Len(Stream) - n : Stream'[i] = Stream[n + i]
      /\ \A i \in n + 1 .. Len(Stream) : a < Stream[i][1]
      /\ phase = "write" => a # Current
  BY TakeIs
<1>3. Len(Stream) \in Nat
  BY StreamIs
<1> HIDE DEF a, n
<1>4. \A i \in 1 .. Len(Stream) - n : n + i \in n + 1 .. Len(Stream)
  BY <1>2, <1>3
<1>5. \A i \in 1 .. Len(Stream) - n : running' < Stream[n + i][1]
  BY <1>1, <1>2, <1>4
<1> QED BY <1>1, <1>2, <1>5, CutOrder

LEMMA DropOrder ==
  ASSUME Typed, Order, DropFrame
  PROVE  Order'
<1> DEFINE n == Len(Piece)
<1>1. /\ UNCHANGED <<phase, sent, left, running, replies>> /\ got' = <<>>
      /\ Reading /\ toFw' = Tail(toFw)
  BY DEF DropFrame
<1>2. /\ n \in Nat /\ n <= Len(Stream) /\ Len(Stream)' = Len(Stream) - n
      /\ \A i \in 1 .. Len(Stream) - n : Stream'[i] = Stream[n + i]
  BY <1>1, StreamRead
<1>3. Len(Stream) \in Nat
  BY StreamIs
<1> HIDE DEF n
<1>4. \A i \in 1 .. Len(Stream) - n : n + i \in 1 .. Len(Stream)
  BY <1>2, <1>3
<1>5. \A i \in 1 .. Len(Stream) - n : running' < Stream[n + i][1]
  BY <1>1, <1>4 DEF Order, Fits
<1>6. phase = "write" => running' # Current
  BY <1>1 DEF Order, Partial
<1> QED BY <1>1, <1>2, <1>5, <1>6, CutOrder

LEMMA ByteTimeoutOrder ==
  ASSUME Typed, Order, ByteTimeout
  PROVE  Order'
<1>1. /\ UNCHANGED <<phase, sent, left, running, replies>>
      /\ got' = <<>> /\ toFw = <<>> /\ toFw' = <<>>
  BY DEF ByteTimeout
<1>2. Stream' = <<>>
  BY <1>1, EmptySeq, ConcatEmptySeq DEF Stream
<1> DEFINE n == Len(Stream)
<1>3. n \in Nat /\ n <= Len(Stream) /\ Len(Stream)' = n - n /\ 1 .. n - n = {}
  BY <1>2, StreamIs
<1>4. phase = "write" => running' # Current
  BY <1>1 DEF Order, Partial
<1> HIDE DEF n
<1>5. /\ Len(Stream)' = Len(Stream) - n
      /\ \A i \in 1 .. Len(Stream) - n : FALSE
  BY <1>3 DEF n
<1> QED BY <1>1, <1>3, <1>4, <1>5, CutOrder

LEMMA StepOrder ==
  ASSUME Typed, Order, [Next]_vars
  PROVE  Order'
<1>1. CASE Open
  BY <1>1, SameOrder DEF Open, firmware
<1>2. CASE Close
  BY <1>2, SameOrder DEF Close, firmware
<1>3. ASSUME NEW c \in Commands, Command(c)
      PROVE  Order'
  BY <1>3, SendOrder DEF Command, AllCommands
<1>4. CASE HostStep
  <2>1. CASE Write
    BY <2>1, WriteOrder
  <2>2. CASE WriteTimeout
    BY <2>2, SameOrder DEF WriteTimeout, Raise, firmware
  <2>3. CASE HostTimeout
    BY <2>3, SameOrder DEF HostTimeout, Raise, firmware
  <2>4. CASE BadHeader
    BY <2>4, SameOrder DEF BadHeader, Raise, firmware
  <2>5. CASE Mismatch
    BY <2>5, SameOrder DEF Mismatch, Raise, firmware
  <2>6. CASE AnswerOk
    BY <2>6, SameOrder DEF AnswerOk, firmware
  <2>7. CASE AnswerError
    BY <2>7, SendOrder DEF AnswerError, AllCommands
  <2> QED BY <1>4, <2>1, <2>2, <2>3, <2>4, <2>5, <2>6, <2>7 DEF HostStep
<1>5. CASE FirmwareStep
  <2>1. CASE ReadByte
    BY <2>1, ReadOrder
  <2>2. CASE DropFrame
    BY <2>2, DropOrder
  <2>3. CASE TakeFrame
    BY <2>3, TakeOrder
  <2>4. CASE ByteTimeout
    BY <2>4, ByteTimeoutOrder
  <2>5. CASE FinishCommand
    <3>1. UNCHANGED <<sent, got, phase, left>>
      BY <2>5 DEF FinishCommand
    <3> QED BY <2>5, <3>1, FinishIs, SameOrder
  <2>6. CASE WriteByte
    BY <2>6, SameOrder DEF WriteByte
  <2> QED BY <1>5, <2>1, <2>2, <2>3, <2>4, <2>5, <2>6 DEF FirmwareStep
<1>6. CASE UNCHANGED vars
  BY <1>6, SameOrder DEF vars
<1> QED BY <1>1, <1>2, <1>3, <1>4, <1>5, <1>6 DEF Next

\* The types of everything the two sides and the port keep.
THEOREM TypeCorrect == Spec => []TypeOK
<1>1. Init => Typed
  BY InitTyped
<1>2. Typed /\ [Next]_vars => Typed'
  BY StepTyped
<1>3. Typed => TypeOK
  BY DEF Typed
<1> QED BY <1>1, <1>2, <1>3, PTL DEF Spec

LEMMA OrderHolds == Spec => [](Typed /\ Order)
<1>1. Init => Typed /\ Order
  BY InitTyped, InitOrder
<1>2. Typed /\ Order /\ [Next]_vars => (Typed /\ Order)'
  BY StepTyped, StepOrder
<1> QED BY <1>1, <1>2, PTL DEF Spec

\* RunsWholeOnce: handle_frame gets requests as they were written, in their
\* order, none twice, whatever was cut, timed out or sent again before.
THEOREM HandlesWholeRequests == Spec => RunsWholeOnce
<1> DEFINE RunsWhole ==
      running' \notin {running, 0} =>
        /\ Piece = Pieces(running', RequestSize(running'))
        /\ \A id \in DOMAIN replies : id < running'
<1>1. Typed /\ Order /\ [Next]_vars => [RunsWhole]_vars
  <2> SUFFICES ASSUME Typed, Order, Next, running' \notin {running, 0}
               PROVE  /\ Piece = Pieces(running', RequestSize(running'))
                      /\ \A id \in DOMAIN replies : id < running'
    OBVIOUS
  <2>1. TakeFrame
    BY DEF Next, HostStep, FirmwareStep, Open, Close, Command, Write, WriteTimeout,
           HostTimeout, BadHeader, Mismatch, AnswerOk, AnswerError, ReadByte,
           DropFrame, ByteTimeout, FinishCommand, WriteByte, firmware
  <2>2. running' = Piece[1][1]
    BY <2>1 DEF TakeFrame
  <2> QED BY <2>1, <2>2, TakeIs
<1> QED BY <1>1, OrderHolds, PTL DEF Spec, RunsWholeOnce

-----------------------------------------------------------------------------
(* Requests written whole stay whole.                                      *)

\* The piece at p lies in its frame, and all of the frame is there.
Block(p) ==
  LET id == Stream[p][1]
      base == p - Stream[p][2]
  IN  /\ base >= 0 /\ base + RequestSize(id) <= Len(Stream)
      /\ \A t \in 1 .. RequestSize(id) : Stream[base + t] = <<id, t>>

\* With nothing broken on the way there are whole frames and the one being
\* written, which is at the end.
Clean ==
  ~cut => \A p \in 1 .. Len(Stream) :
            Block(p) \/ (phase = "write" /\ Stream[p][1] = Current)
Growing ==
  ~cut /\ phase = "write" =>
    /\ Written <= Len(Stream)
    /\ \A t \in 1 .. Written : Stream[Len(Stream) - Written + t] = <<Current, t>>

\* An owed request is in the stream, whole frames before it.
OwedKept ==
  \A id \in owed :
    /\ \E p \in 1 .. Len(Stream) : Stream[p][1] = id
    /\ \A p \in 1 .. Len(Stream) : Stream[p][1] <= id => Block(p)
OwedWritten == phase = "write" => Current \notin owed

Unbroken == Clean /\ Growing /\ OwedKept /\ OwedWritten

\* Facts on the stream used below.
LEMMA PositionsAre ==
  ASSUME Typed, Order
  PROVE  /\ Len(Stream) \in Nat /\ Current \in Nat /\ owed \subseteq 1 .. Current
         /\ \A p \in 1 .. Len(Stream) :
              /\ Stream[p][1] \in 1 .. Current /\ Stream[p][2] \in Nat \ {0}
              /\ Stream[p] = <<Stream[p][1], Stream[p][2]>>
              /\ RequestSize(Stream[p][1]) \in Nat \ {0}
              /\ Stream[p][2] <= RequestSize(Stream[p][1])
<1>1. Len(Stream) \in Nat /\ Stream \in Seq(PieceSet)
  BY StreamIs
<1>2. Current \in Nat /\ owed \subseteq 1 .. Current
  BY DEF Typed, TypeOK, Streams, Current
<1> SUFFICES ASSUME NEW p \in 1 .. Len(Stream)
             PROVE  /\ Stream[p][1] \in 1 .. Current /\ Stream[p][2] \in Nat \ {0}
                    /\ Stream[p] = <<Stream[p][1], Stream[p][2]>>
                    /\ RequestSize(Stream[p][1]) \in Nat \ {0}
                    /\ Stream[p][2] <= RequestSize(Stream[p][1])
  BY <1>1, <1>2
<1>3. Stream[p][1] \in 1 .. Current /\ Stream[p][2] \in Nat \ {0}
  BY StreamIs DEF StreamType
<1>4. RequestSize(Stream[p][1]) \in Nat \ {0}
  BY <1>3, FrameSizes, Sizes DEF Typed
<1>5. Stream[p] = <<Stream[p][1], Stream[p][2]>>
  BY <1>1, ElementOfSeq DEF PieceSet
<1>6. Stream[p][2] <= RequestSize(Stream[p][1])
  BY DEF Order, Fits
<1> QED BY <1>3, <1>4, <1>5, <1>6

\* The pieces of the frame being written are the last ones.
LEMMA PartAtEnd ==
  ASSUME Typed, Order, Growing, ~cut, phase = "write",
         NEW p \in 1 .. Len(Stream), Stream[p][1] = Current
  PROVE  /\ Written \in Nat \ {0} /\ Len(Stream) - Written < p
         /\ p - Stream[p][2] = Len(Stream) - Written
<1>1. /\ Len(Stream) \in Nat /\ Stream[p][2] \in Nat \ {0}
      /\ Stream[p] = <<Current, Stream[p][2]>>
  BY PositionsAre
<1>2. Stream[p][2] <= Written
  BY DEF Order, Partial
<1>3. Written \in Nat
  <2>1. Current \in 1 .. Current
    BY DEF Typed, Calls, Streams, Current
  <2>2. RequestSize(Current) \in Nat /\ Len(left) <= RequestSize(Current) /\ Len(left) \in Nat
    BY <2>1, FrameSizes DEF Typed, LeftIsRest, Streams
  <2> QED BY <2>2 DEF Written
<1>4. /\ Written <= Len(Stream)
      /\ \A t \in 1 .. Written : Stream[Len(Stream) - Written + t] = <<Current, t>>
  BY DEF Growing
<1> DEFINE n == Len(Stream)
           w == Written
<1> HIDE DEF n, w
<1>5. n - w < p
  <2> SUFFICES ASSUME p <= n - w PROVE FALSE
    BY <1>1, <1>3 DEF n, w
  <2>1. n - w + 1 \in 1 .. n /\ p < n - w + 1 /\ 1 \in 1 .. w
    BY <1>1, <1>2, <1>3, <1>4 DEF n, w
  <2>2. Stream[n - w + 1] = <<Current, 1>>
    BY <1>4, <2>1 DEF n, w
  <2>3. Before(Stream[p], Stream[n - w + 1])
    BY <2>1 DEF Order, Ordered, n
  <2>4. Current \in Nat /\ Stream[p][2] < 1
    <3>1. Current \in Nat
      BY DEF Typed, Streams, Current
    <3>2. <<Current, 1>>[1] = Current /\ <<Current, 1>>[2] = 1
      OBVIOUS
    <3>3. Current < Current \/ Stream[p][2] < 1
      BY <2>2, <2>3, <3>2 DEF Before
    <3> QED BY <3>1, <3>3
  <2> QED BY <1>1, <2>4
<1>6. p - Stream[p][2] = n - w
  <2> DEFINE t == p - (n - w)
  <2>1. t \in 1 .. w /\ n - w + t = p
    BY <1>1, <1>3, <1>4, <1>5 DEF n, w
  <2> HIDE DEF t
  <2>2. Stream[p] = <<Current, t>>
    BY <1>4, <2>1 DEF n, w
  <2>3. Stream[p][2] = t
    BY <2>2
  <2> QED BY <1>1, <1>3, <2>1, <2>3 DEF n, w
<1> QED BY <1>1, <1>2, <1>3, <1>5, <1>6 DEF n, w

\* With nothing broken before it, what has been read so far is one frame.
LEMMA HeadInOrder ==
  ASSUME Typed, Order, Unbroken, 1 <= Len(Stream), owed # {} \/ ~cut
  PROVE  \/ /\ RequestSize(Stream[1][1]) <= Len(Stream)
            /\ \A t \in 1 .. RequestSize(Stream[1][1]) : Stream[t] = <<Stream[1][1], t>>
         \/ /\ ~cut /\ phase = "write" /\ owed = {}
            /\ \A t \in 1 .. Len(Stream) : Stream[t] = <<Stream[1][1], t>>
<1>0. 1 \in 1 .. Len(Stream) /\ Len(Stream) \in Nat
  BY PositionsAre
<1>1. Stream[1][1] \in 1 .. Current /\ Stream[1][2] \in Nat \ {0} /\ Current \in Nat
  BY <1>0, PositionsAre
<1>2. ASSUME Block(1)
      PROVE  /\ RequestSize(Stream[1][1]) <= Len(Stream)
             /\ \A t \in 1 .. RequestSize(Stream[1][1]) : Stream[t] = <<Stream[1][1], t>>
  <2>1. 1 - Stream[1][2] = 0
    BY <1>1, <1>2 DEF Block
  <2>2. RequestSize(Stream[1][1]) \in Nat
    BY <1>0, PositionsAre
  <2>3. /\ 0 + RequestSize(Stream[1][1]) <= Len(Stream)
        /\ \A t \in 1 .. RequestSize(Stream[1][1]) : Stream[0 + t] = <<Stream[1][1], t>>
    BY <1>2, <2>1 DEF Block
  <2> QED BY <2>2, <2>3
<1>3. CASE owed # {}
  <2>1. PICK id \in owed : TRUE
    BY <1>3
  <2>2. PICK p \in 1 .. Len(Stream) : Stream[p][1] = id
    BY <2>1 DEF Unbroken, OwedKept
  <2>3. Stream[1][1] <= id
    <3>1. CASE p = 1
      BY <1>1, <2>2, <3>1
    <3>2. CASE 1 < p
      <4>1. Before(Stream[1], Stream[p])
        BY <1>0, <3>2 DEF Order, Ordered
      <4>2. id \in Nat
        BY <2>1, PositionsAre
      <4> QED BY <1>1, <2>2, <4>1, <4>2 DEF Before
    <3> QED BY <3>1, <3>2
  <2>4. Block(1)
    BY <1>0, <2>1, <2>3 DEF Unbroken, OwedKept
  <2> QED BY <1>2, <2>4
<1>4. CASE owed = {} /\ ~cut /\ ~Block(1)
  <2>1. phase = "write" /\ Stream[1][1] = Current
    BY <1>0, <1>4 DEF Unbroken, Clean
  <2>2. /\ Written \in Nat \ {0} /\ Len(Stream) - Written < 1 /\ Written <= Len(Stream)
        /\ \A t \in 1 .. Written : Stream[Len(Stream) - Written + t] = <<Current, t>>
    BY <1>0, <1>4, <2>1, PartAtEnd DEF Unbroken, Growing
  <2>3. Written = Len(Stream)
    BY <1>0, <2>2
  <2>4. \A t \in 1 .. Len(Stream) : Stream[t] = <<Stream[1][1], t>>
    <3> TAKE t \in 1 .. Len(Stream)
    <3>1. Len(Stream) - Written + t = t
      BY <1>0, <2>3
    <3> QED BY <2>1, <2>2, <2>3, <3>1
  <2> QED BY <1>4, <2>1, <2>4
<1>5. CASE ~cut /\ Block(1)
  BY <1>2, <1>5
<1> QED BY <1>3, <1>4, <1>5

LEMMA BlockStays ==
  ASSUME Typed, Order, Len(Stream)' \in Nat, Len(Stream) <= Len(Stream)',
         \A i \in 1 .. Len(Stream) : Stream'[i] = Stream[i],
         \A id \in 1 .. Current : RequestSize(id)' = RequestSize(id),
         NEW p \in 1 .. Len(Stream), Block(p)
  PROVE  Block(p)'
<1> DEFINE id == Stream[p][1]
           base == p - Stream[p][2]
           n == RequestSize(id)
<1>1. /\ Len(Stream) \in Nat /\ id \in 1 .. Current /\ Stream[p][2] \in Nat \ {0}
      /\ n \in Nat /\ base \in Int
  BY PositionsAre
<1>2. /\ base >= 0 /\ base + n <= Len(Stream)
      /\ \A t \in 1 .. n : Stream[base + t] = <<id, t>>
  BY DEF Block
<1>3. n' = n /\ id' = id /\ base' = base
  <2>1. Stream'[p] = Stream[p]
    OBVIOUS
  <2>2. RequestSize(id)' = n
    BY <1>1, <2>1 DEF RequestSize
  <2> QED BY <2>1, <2>2
<1>4. Block(p)' <=>
        /\ base' >= 0 /\ base' + n' <= Len(Stream)'
        /\ \A t \in 1 .. n' : Stream'[base' + t] = <<id', t>>
  BY DEF Block
<1> HIDE DEF id, base, n
<1>5. \A t \in 1 .. n : base + t \in 1 .. Len(Stream)
  BY <1>1, <1>2
<1>6. \A t \in 1 .. n : Stream'[base + t] = <<id, t>>
  BY <1>2, <1>5
<1>7. base' >= 0 /\ base' + n' <= Len(Stream)'
  BY <1>1, <1>2, <1>3
<1>8. \A t \in 1 .. n' : Stream'[base' + t] = <<id', t>>
  BY <1>3, <1>6
<1> QED BY <1>4, <1>7, <1>8

LEMMA InitUnbroken ==
  ASSUME Init
  PROVE  Unbroken
<1>1. Len(Stream) = 0 /\ owed = {} /\ phase # "write"
  <2>1. Stream = <<>>
    BY EmptySeq, ConcatEmptySeq DEF Init, Stream
  <2> QED BY <2>1 DEF Init
<1> QED BY <1>1 DEF Unbroken, Clean, Growing, OwedKept, OwedWritten

\* The stream stays as it is; a frame left unfinished counts as broken.
LEMMA SameUnbroken ==
  ASSUME Typed, Order, Unbroken, UNCHANGED <<sent, toFw, got, owed>>,
         cut => cut',
         phase' = "write" => phase = "write" /\ left' = left,
         phase = "write" /\ phase' # "write" /\ Partly => cut'
  PROVE  Unbroken'
<1>1. /\ Stream' = Stream /\ Len(Stream)' = Len(Stream) /\ Current' = Current
      /\ \A id : RequestSize(id)' = RequestSize(id)
  BY DEF Stream, Current, RequestSize
<1>2. \A p \in 1 .. Len(Stream) : Block(p) => Block(p)'
  BY <1>1, PositionsAre, BlockStays
<1>3. Clean'
  <2> SUFFICES ASSUME ~cut', NEW p \in 1 .. Len(Stream)
               PROVE  Block(p)' \/ (phase' = "write" /\ Stream[p][1] = Current)
    BY <1>1 DEF Clean
  <2>1. ~cut
    OBVIOUS
  <2>2. CASE Block(p)
    BY <1>2, <2>2
  <2>3. CASE ~Block(p)
    <3>1. phase = "write" /\ Stream[p][1] = Current
      BY <2>1, <2>3 DEF Unbroken, Clean
    <3>2. Written \in Nat \ {0}
      BY <2>1, <3>1, PartAtEnd DEF Unbroken
    <3>3. Partly
      <4>1. Current \in 1 .. Current
        BY <3>1 DEF Typed, Calls, Streams, Current
      <4>2. RequestSize(Current) \in Nat /\ Len(left) \in Nat
        BY <4>1, FrameSizes DEF Typed, Streams
      <4> QED BY <3>1, <3>2, <4>2 DEF Written, Partly
    <3> QED BY <3>1, <3>3
  <2> QED BY <2>2, <2>3
<1>4. Growing'
  <2> SUFFICES ASSUME ~cut', phase' = "write"
               PROVE  /\ Written' <= Len(Stream)
                      /\ \A t \in 1 .. Written' :
                           Stream[Len(Stream) - Written' + t] = <<Current, t>>
    BY <1>1 DEF Growing
  <2>1. Written' = Written /\ ~cut /\ phase = "write"
    BY <1>1 DEF Written
  <2> QED BY <2>1 DEF Unbroken, Growing
<1>5. OwedKept'
  BY <1>1, <1>2 DEF Unbroken, OwedKept
<1>6. OwedWritten'
  BY <1>1 DEF Unbroken, OwedWritten
<1> QED BY <1>3, <1>4, <1>5, <1>6 DEF Unbroken

LEMMA SendUnbroken ==
  ASSUME Typed, Order, Unbroken, NEW c \in AllCommands, Send(c),
         phase # "write", UNCHANGED <<toFw, firmware, owed>>
  PROVE  Unbroken'
<1>1. /\ Stream' = Stream /\ Len(Stream)' = Len(Stream)
      /\ cut' = (cut /\ ~(toFw = <<>> /\ got = <<>>))
  BY DEF Stream, firmware, Send
<1>2. /\ Current \in Nat /\ Current' = Current + 1
      /\ \A id \in 1 .. Current : RequestSize(id)' = RequestSize(id)
      /\ Len(left') = RequestSize(Current)' /\ phase' = "write"
  BY SizesStay
<1>3. \A p \in 1 .. Len(Stream) : Block(p) => Block(p)'
  BY <1>1, <1>2, PositionsAre, BlockStays
<1>4. Clean'
  <2> SUFFICES ASSUME ~cut', NEW p \in 1 .. Len(Stream)
               PROVE  Block(p)'
    BY <1>1 DEF Clean
  <2>1. CASE ~cut
    BY <1>3, <2>1 DEF Unbroken, Clean
  <2>2. CASE cut
    <3>1. toFw = <<>> /\ got = <<>>
      BY <1>1, <2>2
    <3>2. Stream = <<>>
      BY <3>1, EmptySeq, ConcatEmptySeq DEF Stream
    <3> QED BY <3>2
  <2> QED BY <2>1, <2>2
<1>5. Growing'
  <2>1. Written' = 0
    <3>1. RequestSize(Current)' \in Nat
      <4>1. RequestLen[c] \in Nat
        BY CommandAssumption
      <4>2. RequestSize(Current)' = HDR + RequestLen[c]
        <5>1. sent'[Current'] = [seq |-> seq, command |-> c]
          BY SizesStay
        <5>2. sent'[Current'].command = c
          BY <5>1
        <5> QED BY <5>2 DEF RequestSize
      <4> QED BY <4>1, <4>2, Sizes
    <3> QED BY <1>2, <3>1 DEF Written
  <2> QED BY <1>1, <2>1, PositionsAre DEF Growing
<1>6. OwedKept'
  BY <1>1, <1>3 DEF Unbroken, OwedKept
<1>7. OwedWritten'
  BY <1>2, PositionsAre DEF OwedWritten
<1> QED BY <1>4, <1>5, <1>6, <1>7 DEF Unbroken

LEMMA WriteUnbroken ==
  ASSUME Typed, Order, Unbroken, Write
  PROVE  Unbroken'
<1> DEFINE n == Len(Stream)
           w == Written
           e == <<Current, w + 1>>
           size == RequestSize(Current)
<1>1. /\ Len(Stream)' = n + 1 /\ \A i \in 1 .. n : Stream'[i] = Stream[i]
      /\ Stream'[n + 1] = e /\ Current' = Current
      /\ w \in Nat /\ w < size /\ Len(left') = Len(left) - 1
  BY StreamGrows
<1>2. /\ UNCHANGED <<sent, cut>> /\ phase = "write"
      /\ \A id : RequestSize(id)' = RequestSize(id)
  BY DEF Write, firmware, RequestSize
<1>3. /\ n \in Nat /\ Current \in Nat \ {0} /\ owed \subseteq 1 .. Current
      /\ size \in Nat /\ Len(left) \in 1 .. size
  BY PositionsAre, WriteIs
<1>4. w = size - Len(left) /\ Written' = w + 1
  <2>1. RequestSize(Current)' = size
    BY <1>1, <1>2 DEF RequestSize
  <2> QED BY <1>1, <1>3, <2>1 DEF Written
<1>5. \A p \in 1 .. n : Block(p) => Block(p)'
  BY <1>1, <1>2, <1>3, BlockStays
<1>6. e[1] = Current /\ e[2] = w + 1
  OBVIOUS
<1> HIDE DEF n, w, e, size
\* The frame at the end of the stream, with the new piece.
<1>7. ~cut => /\ w + 1 <= n + 1
              /\ \A t \in 1 .. w + 1 : Stream'[n - w + t] = <<Current, t>>
  <2> SUFFICES ASSUME ~cut
               PROVE  /\ w + 1 <= n + 1
                      /\ \A t \in 1 .. w + 1 : Stream'[n - w + t] = <<Current, t>>
    OBVIOUS
  <2>1. w <= n /\ \A t \in 1 .. w : Stream[n - w + t] = <<Current, t>>
    BY <1>2 DEF Unbroken, Growing, n, w
  <2>2. ASSUME NEW t \in 1 .. w
        PROVE  Stream'[n - w + t] = <<Current, t>>
    <3>1. n - w + t \in 1 .. n
      BY <1>1, <1>3, <2>1
    <3> QED BY <1>1, <2>1, <3>1
  <2>3. Stream'[n - w + (w + 1)] = <<Current, w + 1>>
    <3>1. n - w + (w + 1) = n + 1
      BY <1>1, <1>3
    <3> QED BY <1>1, <3>1 DEF e
  <2>4. \A t \in 1 .. w + 1 : t \in 1 .. w \/ t = w + 1
    BY <1>1
  <2> QED BY <1>1, <1>3, <2>1, <2>2, <2>3, <2>4
\* The last piece completes it.
<1>8. ASSUME ~cut, Len(left) = 1, NEW p \in 1 .. n + 1, Stream'[p][1] = Current
      PROVE  Block(p)'
  <2>1. w + 1 = size
    BY <1>3, <1>4, <1>8
  <2>2. p - Stream'[p][2] = n - w
    <3>1. CASE p \in 1 .. n
      <4>1. Stream'[p] = Stream[p] /\ Stream[p][1] = Current
        BY <1>1, <1>8, <3>1
      <4>2. p - Stream[p][2] = n - w
        BY <1>2, <1>8, <3>1, <4>1, PartAtEnd DEF Unbroken, n, w
      <4> QED BY <4>1, <4>2
    <3>2. CASE p = n + 1
      <4>1. Stream'[p][2] = w + 1
        BY <1>1, <1>6, <3>2
      <4> QED BY <1>1, <1>3, <3>2, <4>1
    <3> QED BY <1>3, <3>1, <3>2
  <2>3. RequestSize(Current)' = size
    BY <1>1, <1>2 DEF size, RequestSize
  <2>4. /\ n - w >= 0 /\ n - w + size <= n + 1
        /\ \A t \in 1 .. size : Stream'[n - w + t] = <<Current, t>>
    <3>1. n - w >= 0 /\ n - w + size <= n + 1
      BY <1>1, <1>3, <1>7, <1>8, <2>1
    <3>2. \A t \in 1 .. w + 1 : Stream'[n - w + t] = <<Current, t>>
      BY <1>7, <1>8
    <3> QED BY <2>1, <3>1, <3>2
  <2>5. RequestSize(Stream[p][1])' = size
    BY <1>1, <1>2, <1>8 DEF size, RequestSize
  <2> QED BY <1>1, <1>8, <2>2, <2>4, <2>5 DEF Block
<1>9. CASE Len(left) = 1
  <2>1. phase' = "answer" /\ owed' = owed \cup IF cut THEN {} ELSE {Current}
    BY <1>9 DEF Write
  <2>2. ~cut => \A p \in 1 .. n + 1 : Block(p)'
    <3> SUFFICES ASSUME ~cut, NEW p \in 1 .. n + 1, Stream'[p][1] # Current
                 PROVE  Block(p)'
      BY <1>8, <1>9
    <3>1. p \in 1 .. n /\ Stream[p][1] # Current
      BY <1>1, <1>3, <1>6
    <3>2. Block(p)
      BY <3>1 DEF Unbroken, Clean, n
    <3> QED BY <1>5, <3>1, <3>2
  <2>3. Clean' /\ Growing' /\ OwedWritten'
    BY <1>1, <1>2, <2>1, <2>2 DEF Clean, Growing, OwedWritten
  <2>4. OwedKept'
    <3> SUFFICES ASSUME NEW id \in owed'
                 PROVE  /\ \E p \in 1 .. n + 1 : Stream'[p][1] = id
                        /\ \A p \in 1 .. n + 1 : Stream'[p][1] <= id => Block(p)'
      BY <1>1 DEF OwedKept
    <3>1. CASE ~cut /\ id = Current
      <4>1. n + 1 \in 1 .. n + 1 /\ Stream'[n + 1][1] = id
        BY <1>1, <1>3, <1>6, <3>1
      <4> QED BY <2>2, <3>1, <4>1
    <3>2. CASE id \in owed
      <4>1. /\ \E p \in 1 .. n : Stream[p][1] = id
            /\ \A p \in 1 .. n : Stream[p][1] <= id => Block(p)
        BY <3>2 DEF Unbroken, OwedKept, n
      <4>2. id < Current
        BY <1>2, <1>3, <3>2 DEF Unbroken, OwedWritten
      <4>3. \A p \in 1 .. n + 1 : p \in 1 .. n \/ p = n + 1
        BY <1>3
      <4>4. \A p \in 1 .. n : p \in 1 .. n + 1
        BY <1>3
      <4>5. ~(Stream'[n + 1][1] <= id)
        BY <1>1, <1>3, <1>6, <3>2, <4>2
      <4> QED BY <1>1, <1>5, <4>1, <4>3, <4>4, <4>5
    <3> QED BY <2>1, <3>1, <3>2
  <2> QED BY <2>3, <2>4 DEF Unbroken
<1>10. CASE Len(left) # 1
  <2>1. phase' = "write" /\ owed' = owed
    BY <1>2, <1>10 DEF Write
  <2>2. \A p \in 1 .. n + 1 : p \in 1 .. n \/ p = n + 1
    BY <1>3
  <2>3. Clean'
    <3> SUFFICES ASSUME ~cut, NEW p \in 1 .. n + 1
                 PROVE  Block(p)' \/ Stream'[p][1] = Current
      BY <1>1, <1>2, <2>1 DEF Clean
    <3>1. CASE p \in 1 .. n
      BY <1>1, <1>5, <3>1 DEF Unbroken, Clean, n
    <3>2. CASE p = n + 1
      BY <1>1, <1>6, <3>2
    <3> QED BY <2>2, <3>1, <3>2
  <2>4. Growing'
    <3>1. n + 1 - (w + 1) = n - w
      BY <1>1, <1>3
    <3>2. ~cut => /\ Written' <= Len(Stream)'
                  /\ \A t \in 1 .. Written' :
                       Stream'[Len(Stream)' - Written' + t] = <<Current, t>>
      <4>1. Len(Stream)' = n + 1 /\ Written' = w + 1
        BY <1>1, <1>4
      <4>2. Len(Stream)' - Written' = n - w
        BY <1>1, <1>3, <4>1
      <4> QED BY <1>7, <4>1, <4>2
    <3> QED BY <1>1, <1>2, <3>2 DEF Growing
  <2>5. OwedKept'
    <3> SUFFICES ASSUME NEW id \in owed
                 PROVE  /\ \E p \in 1 .. n + 1 : Stream'[p][1] = id
                        /\ \A p \in 1 .. n + 1 : Stream'[p][1] <= id => Block(p)'
      BY <1>1, <2>1 DEF OwedKept
    <3>1. /\ \E p \in 1 .. n : Stream[p][1] = id
          /\ \A p \in 1 .. n : Stream[p][1] <= id => Block(p)
      BY DEF Unbroken, OwedKept, n
    <3>2. id < Current
      BY <1>2, <1>3 DEF Unbroken, OwedWritten
    <3>3. \A p \in 1 .. n : p \in 1 .. n + 1
      BY <1>3
    <3>4. ~(Stream'[n + 1][1] <= id)
      BY <1>1, <1>3, <1>6, <3>2
    <3> QED BY <1>1, <1>5, <2>2, <3>1, <3>3, <3>4
  <2>6. OwedWritten'
    BY <1>1, <1>2, <2>1 DEF Unbroken, OwedWritten
  <2> QED BY <2>3, <2>4, <2>5, <2>6 DEF Unbroken
<1> QED BY <1>9, <1>10

LEMMA ReadUnbroken ==
  ASSUME Typed, Order, Unbroken, ReadByte
  PROVE  Unbroken'
<1>1. /\ Reading /\ got' = Piece /\ toFw' = Tail(toFw)
      /\ UNCHANGED <<phase, sent, left, cut, owed>>
  BY DEF ReadByte
<1>2. Len(Stream)' = Len(Stream) /\ \A i \in 1 .. Len(Stream) : Stream'[i] = Stream[i]
  BY <1>1, StreamRead
<1>3. /\ Current' = Current /\ \A id : RequestSize(id)' = RequestSize(id)
      /\ Written' = Written
  BY <1>1 DEF Current, RequestSize, Written
<1>4. \A p \in 1 .. Len(Stream) : Block(p) => Block(p)'
  BY <1>2, <1>3, PositionsAre, BlockStays
<1>5. Clean'
  BY <1>1, <1>2, <1>3, <1>4 DEF Unbroken, Clean
<1>6. Growing'
  <2> SUFFICES ASSUME ~cut, phase = "write"
               PROVE  /\ Written <= Len(Stream)
                      /\ \A t \in 1 .. Written :
                           Stream'[Len(Stream) - Written + t] = <<Current, t>>
    BY <1>1, <1>2, <1>3 DEF Growing
  <2>1. /\ Written <= Len(Stream)
        /\ \A t \in 1 .. Written : Stream[Len(Stream) - Written + t] = <<Current, t>>
    BY DEF Unbroken, Growing
  <2>2. \A t \in 1 .. Written : Len(Stream) - Written + t \in 1 .. Len(Stream)
    <3>1. Len(Stream) \in Nat
      BY PositionsAre
    <3>2. Written \in Int
      <4>1. Current \in 1 .. Current
        BY DEF Typed, Calls, Streams, Current
      <4>2. RequestSize(Current) \in Nat /\ Len(left) \in Nat
        BY <4>1, FrameSizes DEF Typed, Streams
      <4> QED BY <4>2 DEF Written
    <3> QED BY <2>1, <3>1, <3>2
  <2> QED BY <1>2, <2>1, <2>2
<1>7. OwedKept'
  <2> SUFFICES ASSUME NEW id \in owed
               PROVE  /\ \E p \in 1 .. Len(Stream) : Stream'[p][1] = id
                      /\ \A p \in 1 .. Len(Stream) : Stream'[p][1] <= id => Block(p)'
    BY <1>1, <1>2 DEF OwedKept
  <2>1. /\ \E p \in 1 .. Len(Stream) : Stream[p][1] = id
        /\ \A p \in 1 .. Len(Stream) : Stream[p][1] <= id => Block(p)
    BY DEF Unbroken, OwedKept
  <2> QED BY <1>2, <1>4, <2>1
<1>8. OwedWritten'
  BY <1>1, <1>3 DEF Unbroken, OwedWritten
<1> QED BY <1>5, <1>6, <1>7, <1>8 DEF Unbroken

\* Only pieces of broken frames are dropped.
LEMMA DropUnbroken ==
  ASSUME Typed, Order, Unbroken, DropFrame
  PROVE  Unbroken'
<1>1. /\ Reading /\ Rejected /\ UNCHANGED <<cut, owed>> /\ toFw' = Tail(toFw)
  BY DEF DropFrame
<1>2. owed = {} /\ cut
  <2> SUFFICES ASSUME owed # {} \/ ~cut PROVE FALSE
    BY Zenon DEF Typed, TypeOK
  <2> DEFINE n == Len(Piece)
             a == Stream[1][1]
             size == RequestSize(a)
  <2>1. /\ n \in Nat \ {0} /\ n = Len(got) + 1 /\ n <= Len(Stream)
        /\ \A i \in 1 .. n : Piece[i] = Stream[i]
    BY <1>1, StreamRead
  <2>2. Len(Stream) \in Nat /\ Len(got) \in Nat /\ 1 <= Len(Stream)
    BY <2>1, StreamIs
  <2>3. Piece[1] = Stream[1] /\ Piece[1][1] = a /\ FrameSize = size /\ size \in Nat /\ size > HDR
    <3>1. Piece[1] = Stream[1]
      BY <2>1
    <3> QED BY <1>1, <3>1, PieceIs DEF FrameSize
  <2>4. \/ size <= Len(Stream) /\ \A t \in 1 .. size : Stream[t] = <<a, t>>
        \/ \A t \in 1 .. Len(Stream) : Stream[t] = <<a, t>>
    BY <2>2, HeadInOrder
  <2>5. n <= size
    <3>1. CASE got = <<>>
      BY <2>1, <2>3, <3>1, Sizes, EmptySeq
    <3>2. CASE got # <<>>
      <4>1. got[1] = Stream[1]
        <5>1. 1 \in 1 .. Len(got)
          BY <3>2, EmptySeq DEF Typed, Streams
        <5> QED BY <5>1, StreamIs
      <4>2. ~Foreign
        <5> SUFFICES ASSUME Len(got) >= HDR PROVE InOrder(got, HDR)
          BY DEF Foreign
        <5>1. \A t \in 1 .. HDR : /\ t \in 1 .. Len(got) /\ t \in 1 .. size
                                  /\ t \in 1 .. Len(Stream)
          <6> HIDE DEF size
          <6> QED BY <2>1, <2>2, <2>3, Sizes
        <5>2. \A t \in 1 .. HDR : Stream[t] = <<a, t>> /\ got[t] = Stream[t]
          <6> HIDE DEF a, size
          <6> QED BY <2>4, <5>1, StreamIs
        <5> QED BY <4>1, <5>2 DEF InOrder
      <4>3. Len(got) < size
        BY <3>2, <4>1, <4>2 DEF Order, HeadFits
      <4> QED BY <2>1, <2>2, <2>3, <4>3
    <3> QED BY <3>1, <3>2
  <2> HIDE DEF n, a, size
  <2>6. \A i \in 1 .. n : Piece[i] = <<a, i>>
    <3> TAKE i \in 1 .. n
    <3>1. i \in 1 .. size /\ i \in 1 .. Len(Stream)
      BY <2>1, <2>2, <2>3, <2>5
    <3> QED BY <2>1, <2>4, <3>1
  <2>7. \A m \in Nat : m <= n => InOrder(Piece, m)
    <3> TAKE m \in Nat
    <3> HAVE m <= n
    <3>1. \A i \in 1 .. m : i \in 1 .. n
      BY <2>1
    <3> QED BY <2>3, <2>6, <3>1 DEF InOrder
  <2>8. Len(Piece) = n
    BY DEF n
  <2> QED BY <1>1, <2>1, <2>3, <2>7, <2>8, Sizes DEF Rejected, Mixed
<1> QED BY <1>1, <1>2 DEF Unbroken, Clean, Growing, OwedKept, OwedWritten

LEMMA ByteTimeoutUnbroken ==
  ASSUME Typed, Order, Unbroken, ByteTimeout
  PROVE  Unbroken'
<1>1. /\ UNCHANGED <<phase, sent, left, owed>> /\ got # <<>> /\ toFw = <<>>
      /\ got' = <<>> /\ toFw' = <<>> /\ cut' = (cut \/ Partly)
  BY DEF ByteTimeout
<1>2. Stream = got /\ Stream' = <<>> /\ Len(Stream)' = 0
  BY <1>1, EmptySeq, ConcatEmptySeq DEF Stream, Typed, Streams
<1>3. owed = {}
  <2> SUFFICES ASSUME owed # {} PROVE FALSE
    OBVIOUS
  <2>1. Len(got) \in Nat \ {0} /\ 1 <= Len(Stream)
    BY <1>1, <1>2, EmptySeq DEF Typed, Streams
  <2>2. /\ RequestSize(Stream[1][1]) <= Len(Stream)
        /\ \A t \in 1 .. RequestSize(Stream[1][1]) : Stream[t] = <<Stream[1][1], t>>
    BY <2>1, HeadInOrder
  <2>3. Len(got) < RequestSize(got[1][1])
    <3>1. 1 \in 1 .. Len(Stream) /\ Stream[1][1] \in 1 .. Current
      BY <1>2, <2>1, PositionsAre
    <3>2. \A t \in 1 .. HDR : t \in 1 .. RequestSize(Stream[1][1])
      BY <3>1, FrameSizes, Sizes DEF Typed
    <3>3. InOrder(got, HDR)
      BY <1>2, <2>2, <3>2 DEF InOrder
    <3> QED BY <1>1, <3>3 DEF Order, HeadFits, Foreign
  <2>4. RequestSize(got[1][1]) \in Nat
    <3>1. 1 \in 1 .. Len(Stream)
      BY <1>2, <2>1
    <3> QED BY <1>2, <3>1, PositionsAre
  <2> QED BY <1>2, <2>1, <2>2, <2>3, <2>4
<1>4. Growing'
  <2> SUFFICES ASSUME ~cut', phase = "write"
               PROVE  Written' = 0
    BY <1>1, <1>2 DEF Growing
  <2>1. ~Partly
    BY <1>1
  <2>2. Current \in 1 .. Current
    BY DEF Typed, Calls, Streams, Current
  <2>3. RequestSize(Current) \in Nat /\ Len(left) \in Nat /\ Len(left) <= RequestSize(Current)
    BY <2>2, FrameSizes DEF Typed, Streams, LeftIsRest
  <2>4. Written = 0
    BY <2>1, <2>3 DEF Partly, Written
  <2> QED BY <1>1, <2>4 DEF Written, RequestSize, Current
<1> QED BY <1>1, <1>2, <1>3, <1>4 DEF Unbroken, Clean, OwedKept, OwedWritten

\* A whole frame leaves the rest as it was.
LEMMA TakeUnbroken ==
  ASSUME Typed, Order, Unbroken, TakeFrame
  PROVE  Unbroken'
<1> DEFINE a == Piece[1][1]
           n == RequestSize(a)
           m == Len(Stream) - n
<1>1. /\ UNCHANGED <<phase, sent, left, cut>> /\ owed' = owed \ {a}
  BY DEF TakeFrame
<1>2. /\ a \in 1 .. Current /\ n \in Nat \ {0} /\ n <= Len(Stream)
      /\ \A i \in 1 .. n : Stream[i] = <<a, i>>
      /\ Len(Stream)' = m
      /\ \A i \in 1 .. m : Stream'[i] = Stream[n + i]
      /\ \A i \in n + 1 .. Len(Stream) : a < Stream[i][1]
      /\ phase = "write" => a # Current
  BY TakeIs
<1>3. /\ Current' = Current /\ \A id : RequestSize(id)' = RequestSize(id)
      /\ Written' = Written
  BY <1>1 DEF Current, RequestSize, Written
<1>4. /\ Len(Stream) \in Nat /\ m \in Nat /\ n + m = Len(Stream) /\ Current \in Nat
      /\ owed \subseteq 1 .. Current
  BY <1>2, PositionsAre
<1>5. n = RequestSize(a)
  OBVIOUS
<1> HIDE DEF a, n, m
<1>6. \A i \in 1 .. m : n + i \in n + 1 .. Len(Stream) /\ n + i \in 1 .. Len(Stream)
  BY <1>2, <1>4
<1>7. ASSUME NEW p \in 1 .. m, Block(n + p)
      PROVE  Block(p)'
  <2> DEFINE q == n + p
  <2>0. q \in 1 .. Len(Stream) /\ q \in n + 1 .. Len(Stream) /\ Block(q) /\ q = n + p
    BY <1>6, <1>7
  <2> HIDE DEF q
  <2> DEFINE id == Stream[q][1]
             k == Stream[q][2]
             base == q - k
             size == RequestSize(id)
  <2>1. /\ base >= 0 /\ base + size <= Len(Stream)
        /\ \A t \in 1 .. size : Stream[base + t] = <<id, t>>
    BY <2>0 DEF Block
  <2>2. /\ id \in Nat /\ k \in Nat \ {0} /\ size \in Nat \ {0} /\ k <= size /\ a < id
        /\ a \in Nat
    BY <1>2, <1>4, <2>0, PositionsAre
  <2>3. Stream'[p] = Stream[q]
    BY <1>2, <2>0
  <2>4. Stream'[p][1] = id /\ Stream'[p][2] = k
    BY <2>3
  <2> HIDE DEF id, k, size
  <2>5. base \in Int /\ n <= base
    <3> SUFFICES ASSUME ~(n <= base) PROVE FALSE
      BY <1>2, <2>0, <2>2
    <3>1. base + 1 \in 1 .. n /\ 1 \in 1 .. size
      BY <1>2, <2>0, <2>1, <2>2
    <3>2. Stream[base + 1] = <<a, base + 1>> /\ Stream[base + 1] = <<id, 1>>
      BY <1>2, <2>1, <3>1
    <3>3. a = id
      BY <3>2
    <3> QED BY <2>2, <3>3
  <2> DEFINE b == p - k
  <2>6. b = base - n /\ b >= 0 /\ b + size <= m /\ b \in Int
    BY <1>2, <1>4, <2>0, <2>1, <2>2, <2>5
  <2>7. \A t \in 1 .. size : Stream'[b + t] = <<id, t>>
    <3> TAKE t \in 1 .. size
    <3>1. b + t \in 1 .. m /\ n + (b + t) = base + t
      BY <1>2, <1>4, <2>0, <2>2, <2>5, <2>6
    <3> QED BY <1>2, <2>1, <3>1
  <2>8. RequestSize(Stream[p][1])' = size
    BY <1>1, <2>4 DEF RequestSize, size
  <2>9. /\ p - Stream'[p][2] = b
        /\ \A t \in 1 .. size : Stream'[b + t] = <<Stream'[p][1], t>>
    BY <2>4, <2>7
  <2> HIDE DEF b
  <2> QED BY <1>2, <2>6, <2>8, <2>9 DEF Block
<1>8. Clean'
  <2> SUFFICES ASSUME ~cut, NEW p \in 1 .. m
               PROVE  Block(p)' \/ (phase = "write" /\ Stream[n + p][1] = Current)
    BY <1>1, <1>2, <1>3 DEF Clean
  <2>1. Block(n + p) \/ (phase = "write" /\ Stream[n + p][1] = Current)
    BY <1>6 DEF Unbroken, Clean
  <2> QED BY <1>7, <2>1
<1>9. Growing'
  <2> SUFFICES ASSUME ~cut, phase = "write"
               PROVE  /\ Written <= m
                      /\ \A t \in 1 .. Written : Stream'[m - Written + t] = <<Current, t>>
    BY <1>1, <1>2, <1>3 DEF Growing
  <2> DEFINE w == Written
  <2>1. /\ w <= Len(Stream)
        /\ \A t \in 1 .. w : Stream[Len(Stream) - w + t] = <<Current, t>>
    BY DEF Unbroken, Growing
  <2>2. w \in Int
    <3>1. Current \in 1 .. Current
      BY DEF Typed, Calls, Streams, Current
    <3>2. RequestSize(Current) \in Nat /\ Len(left) \in Nat
      BY <3>1, FrameSizes DEF Typed, Streams
    <3> QED BY <3>2 DEF Written
  <2> HIDE DEF w
  <2>3. w <= m
    <3> SUFFICES ASSUME ~(w <= m) PROVE FALSE
      OBVIOUS
    <3>1. Len(Stream) - w + 1 \in 1 .. n /\ 1 \in 1 .. w
      BY <1>2, <1>4, <2>1, <2>2
    <3>2. /\ Stream[Len(Stream) - w + 1] = <<a, Len(Stream) - w + 1>>
          /\ Stream[Len(Stream) - w + 1] = <<Current, 1>>
      BY <1>2, <2>1, <3>1
    <3> QED BY <1>2, <3>2
  <2>4. \A t \in 1 .. w : Stream'[m - w + t] = <<Current, t>>
    <3> TAKE t \in 1 .. w
    <3>1. m - w + t \in 1 .. m /\ n + (m - w + t) = Len(Stream) - w + t
      <4>1. t \in Int /\ 1 <= t /\ t <= w
        BY <2>2
      <4>2. n \in Nat /\ m \in Nat /\ Len(Stream) = n + m
        BY <1>2, <1>4
      <4>3. m - w + t \in 1 .. m
        BY <2>2, <2>3, <4>1, <4>2
      <4>4. n + (m - w + t) = Len(Stream) - w + t
        BY <2>2, <4>1, <4>2
      <4> QED BY <4>3, <4>4
    <3> QED BY <1>2, <2>1, <3>1
  <2> QED BY <2>3, <2>4 DEF w
<1>10. OwedKept'
  <2> SUFFICES ASSUME NEW id \in owed, id # a
               PROVE  /\ \E p \in 1 .. m : Stream'[p][1] = id
                      /\ \A p \in 1 .. m : Stream'[p][1] <= id => Block(p)'
    BY <1>1, <1>2 DEF OwedKept
  <2>1. PICK q \in 1 .. Len(Stream) : Stream[q][1] = id
    BY DEF Unbroken, OwedKept
  <2>2. q - n \in 1 .. m /\ n + (q - n) = q
    <3>1. ~(q \in 1 .. n)
      BY <1>2, <2>1
    <3> QED BY <1>2, <1>4, <3>1
  <2>3. \E p \in 1 .. m : Stream[n + p][1] = id
    BY <2>1, <2>2
  <2>4. \A p \in 1 .. m : Stream[n + p][1] <= id => Block(n + p)
    BY <1>6 DEF Unbroken, OwedKept
  <2> QED BY <1>2, <1>7, <2>3, <2>4
<1>11. OwedWritten'
  BY <1>1, <1>3 DEF Unbroken, OwedWritten
<1> QED BY <1>8, <1>9, <1>10, <1>11 DEF Unbroken

LEMMA StepUnbroken ==
  ASSUME Typed, Order, Unbroken, [Next]_vars
  PROVE  Unbroken'
<1>1. CASE Open
  BY <1>1, SameUnbroken DEF Open, firmware
<1>2. CASE Close
  BY <1>2, SameUnbroken DEF Close, firmware
<1>3. ASSUME NEW c \in Commands, Command(c)
      PROVE  Unbroken'
  BY <1>3, SendUnbroken DEF Command, AllCommands
<1>4. CASE HostStep
  <2>1. CASE Write
    BY <2>1, WriteUnbroken
  <2>2. CASE WriteTimeout
    BY <2>2, SameUnbroken DEF WriteTimeout, Raise, firmware
  <2>3. CASE HostTimeout
    BY <2>3, SameUnbroken DEF HostTimeout, Raise, firmware
  <2>4. CASE BadHeader
    BY <2>4, SameUnbroken DEF BadHeader, HeaderRead, Raise, firmware
  <2>5. CASE Mismatch
    <3>1. phase = "answer"
      BY <2>5 DEF Mismatch, Complete, GoodHeader, HeaderRead
    <3> QED BY <2>5, <3>1, SameUnbroken DEF Mismatch, Raise, firmware
  <2>6. CASE AnswerOk
    <3>1. phase = "answer"
      BY <2>6, AnsweredIs DEF AnswerOk
    <3> QED BY <2>6, <3>1, SameUnbroken DEF AnswerOk, firmware
  <2>7. CASE AnswerError
    <3>1. phase = "answer"
      BY <2>7, AnsweredIs DEF AnswerError
    <3> QED BY <2>7, <3>1, SendUnbroken DEF AnswerError, AllCommands
  <2> QED BY <1>4, <2>1, <2>2, <2>3, <2>4, <2>5, <2>6, <2>7 DEF HostStep
<1>5. CASE FirmwareStep
  <2>1. CASE ReadByte
    BY <2>1, ReadUnbroken
  <2>2. CASE DropFrame
    BY <2>2, DropUnbroken
  <2>3. CASE TakeFrame
    BY <2>3, TakeUnbroken
  <2>4. CASE ByteTimeout
    BY <2>4, ByteTimeoutUnbroken
  <2>5. CASE FinishCommand
    <3>1. UNCHANGED <<sent, got, phase, left, cut, owed>>
      BY <2>5 DEF FinishCommand
    <3> QED BY <2>5, <3>1, FinishIs, SameUnbroken
  <2>6. CASE WriteByte
    BY <2>6, SameUnbroken DEF WriteByte
  <2> QED BY <1>5, <2>1, <2>2, <2>3, <2>4, <2>5, <2>6 DEF FirmwareStep
<1>6. CASE UNCHANGED vars
  BY <1>6, SameUnbroken DEF vars
<1> QED BY <1>1, <1>2, <1>3, <1>4, <1>5, <1>6 DEF Next

\* NothingLost: a request written whole with nothing broken before it is run,
\* or all its pieces are still on their way to handle_frame.
THEOREM KeepsWholeRequests == Spec => []NothingLost
<1> DEFINE Inv == Typed /\ Order /\ Unbroken
<1>1. Init => Inv
  BY InitTyped, InitOrder, InitUnbroken
<1>2. Inv /\ [Next]_vars => Inv'
  BY StepTyped, StepOrder, StepUnbroken
<1>3. Inv => NothingLost
  <2> SUFFICES ASSUME Typed, Order, Unbroken,
                      NEW id \in owed, NEW i \in 1 .. RequestSize(id)
               PROVE  \E k \in 1 .. Len(Stream) : <<id, i>> = Stream[k]
    BY DEF NothingLost, Stream
  <2>1. PICK p \in 1 .. Len(Stream) : Stream[p][1] = id
    BY DEF Unbroken, OwedKept
  <2>2. /\ Len(Stream) \in Nat /\ Stream[p][2] \in Nat \ {0} /\ id \in Nat
        /\ RequestSize(id) \in Nat
    BY <2>1, PositionsAre
  <2>3. Block(p)
    BY <2>1, <2>2 DEF Unbroken, OwedKept
  <2> DEFINE base == p - Stream[p][2]
  <2>4. /\ base >= 0 /\ base + RequestSize(id) <= Len(Stream)
        /\ \A t \in 1 .. RequestSize(id) : Stream[base + t] = <<id, t>>
    BY <2>1, <2>3 DEF Block
  <2>5. base + i \in 1 .. Len(Stream)
    BY <2>2, <2>4
  <2> QED BY <2>4, <2>5
<1> QED BY <1>1, <1>2, <1>3, PTL DEF Spec

-----------------------------------------------------------------------------
(* Answers belong to their calls.                                          *)

\* The session began after request b: its sequence numbers count from there,
\* and nothing of an earlier session is under way.
InSession(b) ==
  /\ b <= Current /\ (phase \in {"write", "answer"} => b < Current)
  /\ \A id \in b + 1 .. Current : sent[id].seq = (id - b) % SEQ
  /\ seq = (Current - b + 1) % SEQ
  /\ \A i \in 1 .. Len(Stream) : b < Stream[i][1]
  /\ running = 0 \/ b < running
  /\ \A i \in DOMAIN out : b < out[i][1]
  /\ \A i \in DOMAIN toHost : b < toHost[i][1]

Session == ~inherited => \E b \in Nat : InSession(b)

\* Equal numbers of one session are the same request or SEQ apart.
LEMMA SameNumber ==
  ASSUME NEW b \in Nat, Typed, InSession(b),
         NEW j \in b + 1 .. Current, sent[j] = sent[Current]
  PROVE  j = Current \/ Current - j >= SEQ
<1>1. Current \in Nat /\ b < Current /\ j <= Current
  BY DEF Typed, Streams, Current
<1> DEFINE x == j - b
           d == Current - j
<1>2. x \in Nat /\ d \in Nat /\ Current - b = x + d
  BY <1>1
<1>3. sent[j].seq = x % SEQ /\ sent[Current].seq = (Current - b) % SEQ
  BY <1>1 DEF InSession
<1>4. x % SEQ = (x + d) % SEQ
  BY <1>2, <1>3
<1> HIDE DEF x
<1>5. ~(0 < d /\ d < SEQ)
  <2> HIDE DEF d
  <2> SUFFICES ASSUME 0 < d, d < SEQ PROVE FALSE
    OBVIOUS
  <2>1. SEQ \in Nat \ {0}
    BY Sizes
  <2>2. x % SEQ # (x + d) % SEQ
    BY <1>2, <2>1, Apart
  <2> QED BY <1>4, <2>2
<1> QED BY <1>1, <1>2, <1>5, Sizes

LEMMA InitSession ==
  ASSUME Init
  PROVE  Session
<1>1. Len(Stream) = 0 /\ Current = 0 /\ Current \in Nat
  <2>1. Stream = <<>>
    BY EmptySeq, ConcatEmptySeq DEF Init, Stream
  <2> QED BY <2>1 DEF Init, Current
<1>2. seq = (Current - 0 + 1) % SEQ
  BY <1>1, Sizes DEF Init
<1>3. DOMAIN <<>> = {} /\ 0 + 1 .. 0 = {}
  OBVIOUS
<1>4. InSession(0)
  BY <1>1, <1>2, <1>3 DEF Init, InSession
<1> QED BY <1>4 DEF Session

\* Nothing new is under way, or only what the session has sent.
LEMMA SameSession ==
  ASSUME NEW b \in Nat, Typed, InSession(b), UNCHANGED <<sent, seq>>,
         phase' \in {"write", "answer"} => phase \in {"write", "answer"},
         \A i \in 1 .. Len(Stream)' : b < Stream'[i][1],
         running' = 0 \/ b < running',
         \A i \in DOMAIN out' : b < out'[i][1],
         \A i \in DOMAIN toHost' : b < toHost'[i][1]
  PROVE  InSession(b)'
BY DEF InSession, Current

LEMMA SendSession ==
  ASSUME NEW b \in Nat, Typed, InSession(b), NEW c \in AllCommands, Send(c),
         UNCHANGED <<toFw, firmware>>,
         \A i \in DOMAIN toHost' : b < toHost'[i][1]
  PROVE  InSession(b)'
<1>1. /\ Current \in Nat /\ Current' = Current + 1 /\ phase' = "write"
      /\ \A id \in 1 .. Current : sent'[id] = sent[id]
      /\ sent'[Current + 1].seq = seq
  <2>1. sent'[Current + 1] = [seq |-> seq, command |-> c]
    BY SizesStay
  <2>2. sent'[Current + 1].seq = seq
    BY <2>1
  <2> QED BY <2>2, SizesStay
<1>2. Stream' = Stream /\ running' = running /\ out' = out
  BY DEF Stream, firmware
<1> DEFINE x == Current - b + 1
<1>3. b <= Current /\ x \in Nat /\ seq = x % SEQ
  BY <1>1 DEF InSession
<1>4. seq' = (Current' - b + 1) % SEQ
  <2>1. seq' = ((x % SEQ) + 1) % SEQ
    BY <1>3 DEF Send, NextSeq
  <2>2. Current' - b + 1 = x + 1
    BY <1>1
  <2> HIDE DEF x
  <2> QED BY <1>3, <2>1, <2>2, ModAdd, Sizes
<1>5. \A id \in b + 1 .. Current' : sent'[id].seq = (id - b) % SEQ
  <2> TAKE id \in b + 1 .. Current'
  <2>1. CASE id \in b + 1 .. Current
    <3>1. id \in 1 .. Current
      BY <1>1, <2>1
    <3> QED BY <1>1, <2>1, <3>1 DEF InSession
  <2>2. CASE id = Current + 1
    <3>1. id - b = x
      BY <1>1, <2>2
    <3> QED BY <1>1, <1>3, <2>2, <3>1
  <2> QED BY <1>1, <2>1, <2>2
<1>6. b <= Current' /\ b < Current'
  BY <1>1, <1>3
<1> QED BY <1>2, <1>4, <1>5, <1>6 DEF InSession

LEMMA OpenSession ==
  ASSUME Typed, Open
  PROVE  Session'
<1> SUFFICES ASSUME Settled PROVE InSession(Current)'
  <2>1. Current \in Nat /\ Current' = Current
    BY DEF Typed, Streams, Current, Open
  <2>2. inherited' = ~Settled
    BY DEF Open
  <2> QED BY <2>1, <2>2 DEF Session
<1>1. Current \in Nat /\ Current' = Current /\ Current + 1 .. Current = {}
  BY DEF Typed, Streams, Current, Open
<1>2. Stream' = <<>> /\ Len(Stream)' = 0 /\ toHost' = <<>> /\ out' = <<>> /\ running' = 0
  BY EmptySeq, ConcatEmptySeq DEF Open, Settled, Stream, firmware
<1>3. seq' = (Current - Current + 1) % SEQ
  BY <1>1, Sizes DEF Open
<1>4. phase' = "idle"
  BY DEF Open
<1> QED BY <1>1, <1>2, <1>3, <1>4 DEF InSession

\* Tails and pieces moved along are of the same requests.
LEMMA FirmwareSession ==
  ASSUME NEW b \in Nat, Typed, Order, InSession(b), FirmwareStep
  PROVE  InSession(b)'
<1> DEFINE n == Len(Stream)
<1>0. n \in Nat /\ Current \in Nat
  BY PositionsAre
<1>1. /\ \A i \in 1 .. n : b < Stream[i][1]
      /\ running = 0 \/ b < running
      /\ \A i \in DOMAIN out : b < out[i][1]
      /\ \A i \in DOMAIN toHost : b < toHost[i][1]
  BY DEF InSession
<1>2. CASE ReadByte
  <2>1. /\ Reading /\ got' = Piece /\ toFw' = Tail(toFw)
        /\ UNCHANGED <<phase, sent, seq, running, out, toHost>>
    BY <1>2 DEF ReadByte
  <2>2. Len(Stream)' = n /\ \A i \in 1 .. n : Stream'[i] = Stream[i]
    BY <2>1, StreamRead
  <2> HIDE DEF n
  <2>3. \A i \in 1 .. Len(Stream)' : b < Stream'[i][1]
    BY <1>1, <2>2
  <2> QED BY <1>1, <2>1, <2>3, SameSession
<1>3. CASE DropFrame
  <2> DEFINE m == Len(Piece)
  <2>1. /\ Reading /\ got' = <<>> /\ toFw' = Tail(toFw)
        /\ UNCHANGED <<phase, sent, seq, running, out, toHost>>
    BY <1>3 DEF DropFrame
  <2>2. /\ m \in Nat /\ m <= n /\ Len(Stream)' = n - m
        /\ \A i \in 1 .. n - m : Stream'[i] = Stream[m + i]
    BY <2>1, StreamRead
  <2> HIDE DEF n, m
  <2>3. \A i \in 1 .. n - m : m + i \in 1 .. n
    BY <1>0, <2>2
  <2>4. \A i \in 1 .. Len(Stream)' : b < Stream'[i][1]
    BY <1>1, <2>2, <2>3
  <2> QED BY <1>1, <2>1, <2>4, SameSession
<1>4. CASE TakeFrame
  <2> DEFINE a == Piece[1][1]
             m == RequestSize(a)
  <2>1. UNCHANGED <<phase, sent, seq, out, toHost>> /\ running' = a
    BY <1>4 DEF TakeFrame
  <2>2. /\ m \in Nat \ {0} /\ m <= n /\ Len(Stream)' = n - m
        /\ \A i \in 1 .. m : Stream[i] = <<a, i>>
        /\ \A i \in 1 .. n - m : Stream'[i] = Stream[m + i]
    BY <1>4, TakeIs
  <2> HIDE DEF a, n, m
  <2>3. /\ \A i \in 1 .. n - m : m + i \in 1 .. n
        /\ 1 \in 1 .. n /\ Stream[1] = <<a, 1>> /\ Stream[1][1] = a
    BY <1>0, <2>2
  <2>4. \A i \in 1 .. Len(Stream)' : b < Stream'[i][1]
    BY <1>1, <2>2, <2>3
  <2>5. b < running'
    BY <1>1, <2>1, <2>3
  <2> QED BY <1>1, <2>1, <2>4, <2>5, SameSession
<1>5. CASE ByteTimeout
  <2>1. /\ UNCHANGED <<phase, sent, seq, running, out, toHost>>
        /\ got' = <<>> /\ toFw' = <<>>
    BY <1>5 DEF ByteTimeout
  <2>2. Stream' = <<>> /\ Len(Stream)' = 0
    BY <2>1, EmptySeq, ConcatEmptySeq DEF Stream
  <2>3. \A i \in 1 .. Len(Stream)' : b < Stream'[i][1]
    BY <2>2
  <2> QED BY <1>1, <2>1, <2>3, SameSession
<1>6. CASE FinishCommand
  <2>1. UNCHANGED <<phase, sent, seq, got, toHost>>
    BY <1>6 DEF FinishCommand
  <2>2. /\ running \in 1 .. Current /\ running' = 0 /\ toFw' = toFw
        /\ \A i \in DOMAIN out' : out'[i][1] = running
    BY <1>6, FinishIs
  <2>3. Stream' = Stream
    BY <2>1, <2>2 DEF Stream
  <2>4. \A i \in DOMAIN out' : b < out'[i][1]
    BY <1>1, <2>2
  <2> QED BY <1>1, <2>1, <2>2, <2>3, <2>4, SameSession
<1>7. CASE WriteByte
  <2> DEFINE e == Head(out)
  <2>1. /\ UNCHANGED <<phase, sent, seq, got, toFw, running>>
        /\ out \in Seq(PieceSet) /\ out # <<>> /\ out' = Tail(out)
        /\ toHost' \in {toHost, Append(toHost, e)} /\ toHost \in Seq(PieceSet)
    BY <1>7 DEF WriteByte, Typed, Streams
  <2>2. /\ Len(out) \in Nat \ {0} /\ e = out[1] /\ e \in PieceSet
        /\ DOMAIN out = 1 .. Len(out) /\ DOMAIN out' = 1 .. Len(out) - 1
        /\ \A i \in 1 .. Len(out) - 1 : out'[i] = out[i + 1]
    BY <2>1, TailOf
  <2>3. b < e[1] /\ \A i \in DOMAIN out' : b < out'[i][1]
    <3>1. 1 \in DOMAIN out /\ \A i \in DOMAIN out' : i + 1 \in DOMAIN out
      BY <2>2
    <3> QED BY <1>1, <2>2, <3>1
  <2> HIDE DEF e
  <2>4. \A i \in DOMAIN toHost' : b < toHost'[i][1]
    <3>1. CASE toHost' = toHost
      BY <1>1, <3>1
    <3>2. CASE toHost' = Append(toHost, e)
      <4>1. /\ Len(toHost) \in Nat /\ DOMAIN toHost = 1 .. Len(toHost)
            /\ DOMAIN toHost' = 1 .. Len(toHost) + 1
            /\ \A i \in 1 .. Len(toHost) : toHost'[i] = toHost[i]
            /\ toHost'[Len(toHost) + 1] = e
        BY <2>1, <2>2, <3>2, AppendOf
      <4>2. \A i \in DOMAIN toHost' : i \in DOMAIN toHost \/ i = Len(toHost) + 1
        BY <4>1
      <4> QED BY <1>1, <2>3, <4>1, <4>2
    <3> QED BY <2>1, <3>1, <3>2
  <2>5. Stream' = Stream
    BY <2>1 DEF Stream
  <2> QED BY <1>1, <2>1, <2>3, <2>4, <2>5, SameSession
<1> QED BY <1>2, <1>3, <1>4, <1>5, <1>6, <1>7 DEF FirmwareStep

LEMMA HostSession ==
  ASSUME NEW b \in Nat, Typed, Order, InSession(b), HostStep
  PROVE  InSession(b)'
<1>1. /\ \A i \in 1 .. Len(Stream) : b < Stream[i][1]
      /\ running = 0 \/ b < running
      /\ \A i \in DOMAIN out : b < out[i][1]
      /\ \A i \in DOMAIN toHost : b < toHost[i][1]
  BY DEF InSession
<1>2. CASE Write
  <2>1. /\ UNCHANGED <<sent, seq, running, out, toHost>> /\ phase = "write"
    BY <1>2 DEF Write, firmware
  <2>2. /\ Len(Stream)' = Len(Stream) + 1 /\ Len(Stream) \in Nat
        /\ \A i \in 1 .. Len(Stream) : Stream'[i] = Stream[i]
        /\ Stream'[Len(Stream) + 1] = <<Current, Written + 1>>
    BY <1>2, StreamGrows, PositionsAre
  <2>3. b < Current /\ Stream'[Len(Stream) + 1][1] = Current
    BY <2>1, <2>2 DEF InSession
  <2>4. \A i \in 1 .. Len(Stream)' : i \in 1 .. Len(Stream) \/ i = Len(Stream) + 1
    BY <2>2
  <2>5. \A i \in 1 .. Len(Stream)' : b < Stream'[i][1]
    BY <1>1, <2>2, <2>3, <2>4
  <2> QED BY <1>1, <2>1, <2>5, SameSession
\* The host takes away from what has arrived.
<1>3. ASSUME \A i \in DOMAIN toHost' : \E k \in DOMAIN toHost : toHost'[i] = toHost[k]
      PROVE  \A i \in DOMAIN toHost' : b < toHost'[i][1]
  BY <1>1, <1>3
<1>4. ASSUME UNCHANGED <<sent, seq, toFw, firmware>>,
             phase' \in {"write", "answer"} => phase \in {"write", "answer"},
             \A i \in DOMAIN toHost' : \E k \in DOMAIN toHost : toHost'[i] = toHost[k]
      PROVE  InSession(b)'
  <2>1. Stream' = Stream /\ running' = running /\ out' = out
    BY <1>4 DEF Stream, firmware
  <2>2. \A i \in DOMAIN toHost' : b < toHost'[i][1]
    BY <1>3, <1>4
  <2> QED BY <1>1, <1>4, <2>1, <2>2, SameSession
<1>5. CASE WriteTimeout
  BY <1>4, <1>5 DEF WriteTimeout, Raise
<1>6. CASE HostTimeout
  <2>1. DOMAIN toHost' = {}
    BY <1>6 DEF HostTimeout
  <2> QED BY <1>4, <1>6, <2>1 DEF HostTimeout, Raise
<1>7. CASE BadHeader
  <2>1. \A i \in DOMAIN toHost' : \E k \in DOMAIN toHost : toHost'[i] = toHost[k]
    BY <1>7, RestOf, Sizes DEF BadHeader, Typed, Streams
  <2> QED BY <1>4, <1>7, <2>1 DEF BadHeader, Raise
<1>8. CASE Mismatch
  <2>1. HeaderRead
    BY <1>8 DEF Mismatch, Complete, GoodHeader
  <2>2. ReplySize(Answerer) \in Nat /\ toHost' = Rest(ReplySize(Answerer))
    BY <1>8, <2>1, AnswererIs DEF Mismatch
  <2>3. \A i \in DOMAIN toHost' : \E k \in DOMAIN toHost : toHost'[i] = toHost[k]
    BY <2>2, RestOf DEF Typed, Streams
  <2> QED BY <1>4, <1>8, <2>3 DEF Mismatch, Raise
<1>9. CASE AnswerOk
  <2>1. \A i \in DOMAIN toHost' : \E k \in DOMAIN toHost : toHost'[i] = toHost[k]
    BY <1>9, AnsweredIs DEF AnswerOk
  <2> QED BY <1>4, <1>9, <2>1 DEF AnswerOk
<1>10. CASE AnswerError
  <2>1. \A i \in DOMAIN toHost' : \E k \in DOMAIN toHost : toHost'[i] = toHost[k]
    BY <1>10, AnsweredIs DEF AnswerError
  <2> QED BY <1>3, <1>10, <2>1, SendSession DEF AnswerError, AllCommands
<1> QED BY <1>2, <1>5, <1>6, <1>7, <1>8, <1>9, <1>10 DEF HostStep

LEMMA StepSession ==
  ASSUME Typed, Order, Session, [Next]_vars
  PROVE  Session'
<1>1. CASE Open
  BY <1>1, OpenSession
<1>2. ASSUME ~Open, ~inherited'
      PROVE  Session'
  <2>1. ~inherited
    BY <1>2 DEF Next, Close, Command, HostStep, Write, WriteTimeout, HostTimeout,
           BadHeader, Mismatch, AnswerOk, AnswerError, FirmwareStep, ReadByte,
           DropFrame, TakeFrame, ByteTimeout, FinishCommand, WriteByte, vars
  <2>2. PICK b \in Nat : InSession(b)
    BY <2>1 DEF Session
  <2>3. CASE Close
    <3>1. /\ UNCHANGED <<sent, seq, toFw, got, running, out>> /\ phase' = "closed"
          /\ DOMAIN toHost' = {}
      BY <2>3 DEF Close, firmware
    <3>2. Stream' = Stream
      BY <3>1 DEF Stream
    <3>3. InSession(b)'
      BY <2>2, <3>1, <3>2, SameSession DEF InSession
    <3> QED BY <3>3 DEF Session
  <2>4. ASSUME NEW c \in Commands, Command(c)
        PROVE  Session'
    <3>1. \A i \in DOMAIN toHost' : b < toHost'[i][1]
      BY <2>2, <2>4 DEF Command, InSession
    <3>2. InSession(b)'
      BY <2>2, <2>4, <3>1, SendSession DEF Command, AllCommands
    <3> QED BY <3>2 DEF Session
  <2>5. CASE HostStep
    BY <2>2, <2>5, HostSession DEF Session
  <2>6. CASE FirmwareStep
    BY <2>2, <2>6, FirmwareSession DEF Session
  <2>7. CASE UNCHANGED vars
    <3>1. InSession(b)'
      BY <2>2, <2>7 DEF vars, InSession, Stream, Current
    <3> QED BY <3>1 DEF Session
  <2> QED BY <1>2, <2>3, <2>4, <2>5, <2>6, <2>7 DEF Next
<1> QED BY <1>1, <1>2 DEF Session

\* The outcome of a call, after each step.
LEMMA StepOwn ==
  ASSUME Typed, Session, AnswerIsOwn, [Next]_vars
  PROVE  AnswerIsOwn'
<1>0. Current \in Nat
  BY DEF Typed, Streams, Current
<1>1. CASE outcome' = outcome /\ inherited' = inherited
  BY <1>1 DEF AnswerIsOwn
<1>2. CASE outcome'.reply = 0
  BY <1>2 DEF AnswerIsOwn
<1>3. None.reply = 0
  BY DEF None
<1>4. CASE Open
  <2>1. outcome' = None
    BY <1>4 DEF Open, Typed, Calls
  <2> QED BY <1>2, <1>3, <2>1
<1>5. CASE Close
  BY <1>2, <1>3, <1>5 DEF Close
<1>6. ASSUME NEW c \in Commands, Command(c)
      PROVE  AnswerIsOwn'
  BY <1>2, <1>3, <1>6 DEF Command
<1>7. ASSUME NEW why \in Results, Raise(why), inherited' = inherited
      PROVE  AnswerIsOwn'
  <2>1. CASE nested
    BY <1>1, <1>7, <2>1 DEF Raise
  <2>2. CASE ~nested
    <3>1. outcome' = [None EXCEPT !.result = why, !.request = Current]
      BY <1>7, <2>2 DEF Raise
    <3>2. Current \in 0 .. Current
      BY <1>0
    <3> QED BY <1>0, <1>2, <3>1, <3>2, OutcomeIs
  <2> QED BY <2>1, <2>2
\* The response is the one of an equal request of this session.
<1>8. ASSUME Answered, ~inherited
      PROVE  Answerer = Current \/ Current - Answerer >= SEQ
  <2>1. PICK b \in Nat : InSession(b)
    BY <1>8 DEF Session
  <2>2. /\ 1 \in DOMAIN toHost /\ Answerer \in 1 .. Current
        /\ sent[Answerer] = sent[Current]
    BY <1>8, AnsweredIs
  <2>3. b < Answerer
    BY <2>1, <2>2 DEF InSession, Answerer
  <2>4. Answerer \in b + 1 .. Current
    BY <2>2, <2>3
  <2> QED BY <2>1, <2>2, <2>4, SameNumber
<1>9. ASSUME NEW why \in Results, Answered, inherited' = inherited,
             outcome' = [None EXCEPT !.result = why, !.request = Current,
                                     !.reply = Answerer]
      PROVE  AnswerIsOwn'
  <2>1. Current \in 0 .. Current /\ Answerer \in 0 .. Current
    BY <1>0, <1>9, AnsweredIs
  <2>2. outcome'.reply = Answerer /\ outcome'.request = Current
    BY <1>0, <1>9, <2>1, OutcomeIs
  <2> QED BY <1>8, <1>9, <2>2 DEF AnswerIsOwn
<1>10. CASE HostStep
  <2>0. {"timeout", "header", "mismatch", "ok", "status"} \subseteq Results
    BY DEF Results
  <2>1. CASE Write
    BY <1>1, <2>1 DEF Write
  <2>2. CASE WriteTimeout
    BY <1>7, <2>0, <2>2 DEF WriteTimeout
  <2>3. CASE HostTimeout
    BY <1>7, <2>0, <2>3 DEF HostTimeout
  <2>4. CASE BadHeader
    BY <1>7, <2>0, <2>4 DEF BadHeader
  <2>5. CASE Mismatch
    BY <1>7, <2>0, <2>5 DEF Mismatch
  <2>6. CASE AnswerOk
    <3>1. CASE nested
      <4>1. outcome' = [outcome EXCEPT !.text = replies[Answerer].text]
        BY <2>6, <3>1 DEF AnswerOk
      <4>2. outcome \in [result : Results, request : 0 .. Current,
                         reply : 0 .. Current, text : 0 .. Current]
        BY DEF Typed, TypeOK
      <4>3. outcome'.reply = outcome.reply /\ outcome'.request = outcome.request
        BY <4>1, <4>2
      <4>4. inherited' = inherited
        BY <2>6 DEF AnswerOk
      <4> QED BY <4>3, <4>4 DEF AnswerIsOwn
    <3>2. CASE ~nested
      BY <1>9, <2>0, <2>6, <3>2 DEF AnswerOk
    <3> QED BY <3>1, <3>2
  <2>7. CASE AnswerError
    BY <1>9, <2>0, <2>7 DEF AnswerError
  <2> QED BY <1>10, <2>1, <2>2, <2>3, <2>4, <2>5, <2>6, <2>7 DEF HostStep
<1>11. CASE FirmwareStep
  BY <1>1, <1>11 DEF FirmwareStep, ReadByte, DropFrame, TakeFrame, ByteTimeout,
                     FinishCommand, WriteByte
<1>12. CASE UNCHANGED vars
  BY <1>1, <1>12 DEF vars
<1> QED BY <1>4, <1>5, <1>6, <1>10, <1>11, <1>12 DEF Next

\* AnswerIsOwn: in a session that found the firmware at rest, the response a
\* call takes is its own, or as many requests old as there are numbers.
THEOREM AnswersTheCall == Spec => []AnswerIsOwn
<1> DEFINE Inv == Typed /\ Order /\ Session /\ AnswerIsOwn
<1>1. Init => Inv
  <2>1. Init => AnswerIsOwn
    BY DEF Init, None, AnswerIsOwn
  <2> QED BY <2>1, InitTyped, InitOrder, InitSession
<1>2. Inv /\ [Next]_vars => Inv'
  BY StepTyped, StepOrder, StepSession, StepOwn
<1> QED BY <1>1, <1>2, PTL DEF Spec

-----------------------------------------------------------------------------
(* Calls that wait long enough.                                            *)

Coming == toHost \o out

\* A session that found the firmware at rest and never gave up early has one
\* request at a time under way: written, run or answered.
OneAtATime ==
  ~late /\ ~inherited /\ phase # "closed" =>
    /\ \A i \in 1 .. Len(Stream) : Stream[i][1] = Current
    /\ phase = "idle" => Stream = <<>>
    /\ running # 0 => phase = "answer" /\ running = Current /\ Stream = <<>> /\ Coming = <<>>
    /\ Coming # <<>> =>
         /\ phase = "answer" /\ Stream = <<>> /\ Current \in DOMAIN replies
         /\ Coming = Response(Current, replies[Current].ok)

\* A closed session has no outcome.
NoOutcome == phase = "closed" => outcome.result = "none"

LEMMA ComingIs ==
  ASSUME Typed
  PROVE  /\ Coming \in Seq(PieceSet) /\ Len(toHost) \in Nat /\ Len(out) \in Nat
         /\ Len(Coming) = Len(toHost) + Len(out)
         /\ \A i \in 1 .. Len(toHost) : Coming[i] = toHost[i]
         /\ toHost \in Seq(PieceSet) /\ out \in Seq(PieceSet)
<1>1. toHost \in Seq(PieceSet) /\ out \in Seq(PieceSet)
  BY DEF Typed, Streams
<1>2. /\ Coming \in Seq(PieceSet) /\ Len(Coming) = Len(toHost) + Len(out)
      /\ \A i \in 1 .. Len(toHost) + Len(out) : Coming[i] =
           IF i <= Len(toHost) THEN toHost[i] ELSE out[i - Len(toHost)]
  BY <1>1, ConcatProperties DEF Coming
<1>3. Len(toHost) \in Nat /\ Len(out) \in Nat
  BY <1>1, LenProperties
<1>4. \A i \in 1 .. Len(toHost) : Coming[i] = toHost[i]
  BY <1>2, <1>3
<1> QED BY <1>1, <1>2, <1>3, <1>4

LEMMA EmptyIs ==
  ASSUME Typed
  PROVE  /\ Stream = <<>> <=> got = <<>> /\ toFw = <<>>
         /\ Coming = <<>> <=> toHost = <<>> /\ out = <<>>
         /\ Stream = <<>> <=> Len(Stream) = 0
BY EmptySeq, StreamIs, ComingIs, ConcatEmptySeq DEF Typed, Streams, Stream, Coming

\* What the host has read is the beginning of its response.
LEMMA AnswerIsWhole ==
  ASSUME Typed, OneAtATime, ~late, ~inherited, HeaderRead
  PROVE  /\ GoodHeader /\ Stream = <<>> /\ running = 0
         /\ Complete => /\ Answered /\ out = <<>> /\ Rest(ReplySize(Answerer)) = <<>>
<1>1. phase = "answer" /\ Len(toHost) >= HDR
  BY DEF HeaderRead
<1>2. /\ Coming \in Seq(PieceSet) /\ Len(toHost) \in Nat /\ Len(out) \in Nat
      /\ Len(Coming) = Len(toHost) + Len(out)
      /\ \A i \in 1 .. Len(toHost) : Coming[i] = toHost[i]
      /\ toHost \in Seq(PieceSet) /\ out \in Seq(PieceSet)
  BY ComingIs
<1>3. Coming # <<>> /\ 1 \in 1 .. Len(toHost)
  BY <1>1, <1>2, Sizes, EmptySeq
<1>4. /\ Stream = <<>> /\ running = 0 /\ Current \in DOMAIN replies
      /\ Coming = Response(Current, replies[Current].ok)
  BY <1>1, <1>3 DEF OneAtATime
<1>5. Current \in 1 .. Current /\ replies[Current].ok \in BOOLEAN
  BY <1>4 DEF Typed, TypeOK
<1>6. PICK n \in Nat : /\ n > HDR /\ Coming = Pieces(Current, n)
                       /\ Len(Coming) = n
  BY <1>4, <1>5, ReplySizes DEF Typed
<1>7. \A i \in 1 .. n : Coming[i] = <<Current, i>>
  BY <1>5, <1>6, PiecesAre
<1>8. \A i \in 1 .. Len(toHost) : toHost[i] = <<Current, i>>
  BY <1>2, <1>6, <1>7
<1>9. toHost[1][1] = Current /\ Answerer = Current
  BY <1>3, <1>8 DEF Answerer
<1>10. \A m \in Nat : m <= Len(toHost) => InOrder(toHost, m)
  BY <1>2, <1>8, <1>9 DEF InOrder
<1>11. GoodHeader
  BY <1>1, <1>10, Sizes DEF GoodHeader, HeaderRead
<1>12. ReplySize(Answerer) = n
  BY <1>4, <1>6, <1>9 DEF ReplySize
<1>13. ASSUME Complete
       PROVE  Answered /\ out = <<>> /\ Rest(ReplySize(Answerer)) = <<>>
  <2>1. Len(toHost) = n /\ Len(out) = 0
    BY <1>2, <1>6, <1>12, <1>13 DEF Complete
  <2>2. Answered
    BY <1>9, <1>10, <1>12, <1>13, <2>1 DEF Answered, BadBody, Matches
  <2>3. out = <<>>
    BY <1>2, <2>1, EmptySeq
  <2>4. Rest(n) = <<>>
    BY <1>6, <2>1, SubSeqEmpty DEF Rest
  <2> QED BY <1>12, <2>2, <2>3, <2>4
<1> QED BY <1>4, <1>11, <1>13

LEMMA InitOne ==
  ASSUME Init
  PROVE  OneAtATime /\ NoOutcome /\ MismatchOnlyIfLate
BY DEF Init, OneAtATime, NoOutcome, MismatchOnlyIfLate, None

\* A call is over: nothing is under way.
LEMMA AtRest ==
  ASSUME phase' = "idle", Stream' = <<>>, running' = 0, Coming' = <<>>
  PROVE  OneAtATime'
<1>1. Len(Stream)' = 0
  BY EmptySeq
<1> QED BY <1>1 DEF OneAtATime

LEMMA SendOne ==
  ASSUME Typed, NEW c \in AllCommands, Send(c), Stream = <<>>, running = 0, out = <<>>,
         UNCHANGED <<toFw, firmware>>, toHost' = <<>>
  PROVE  OneAtATime'
<1>1. Stream' = <<>> /\ Len(Stream)' = 0 /\ running' = 0 /\ phase' = "write"
  BY EmptySeq DEF Stream, firmware, Send
<1>2. Coming' = <<>>
  BY EmptySeq, ConcatEmptySeq DEF Coming, firmware
<1> QED BY <1>1, <1>2 DEF OneAtATime

LEMMA FirmwareOne ==
  ASSUME Typed, Order, OneAtATime, ~late, ~inherited, phase # "closed", FirmwareStep
  PROVE  OneAtATime'
<1>0. /\ Current \in Nat /\ Len(Stream) \in Nat
      /\ \A i \in 1 .. Len(Stream) : Stream[i][1] = Current
      /\ phase = "idle" => Stream = <<>>
      /\ running # 0 => phase = "answer" /\ running = Current /\ Stream = <<>> /\ Coming = <<>>
      /\ Coming # <<>> =>
           /\ phase = "answer" /\ Stream = <<>> /\ Current \in DOMAIN replies
           /\ Coming = Response(Current, replies[Current].ok)
  BY PositionsAre DEF OneAtATime
<1>1. ASSUME Reading
      PROVE  Stream # <<>> /\ Coming = <<>> /\ running = 0 /\ phase # "idle"
  <2>1. Stream # <<>>
    BY <1>1, EmptyIs DEF Reading
  <2> QED BY <1>0, <1>1, <2>1 DEF Reading
<1>2. CASE ReadByte
  <2>1. /\ Reading /\ got' = Piece /\ toFw' = Tail(toFw)
        /\ UNCHANGED <<phase, sent, running, out, toHost, replies>>
    BY <1>2 DEF ReadByte
  <2>2. /\ Len(Stream)' = Len(Stream)
        /\ \A i \in 1 .. Len(Stream) : Stream'[i] = Stream[i]
    BY <2>1, StreamRead
  <2>3. /\ Stream # <<>> /\ Coming' = <<>> /\ running' = 0 /\ phase' # "idle"
        /\ Current' = Current
    BY <1>1, <2>1 DEF Coming, Current
  <2> QED BY <1>0, <2>2, <2>3 DEF OneAtATime
<1>3. CASE DropFrame
  <2> DEFINE m == Len(Piece)
  <2>1. /\ Reading /\ got' = <<>> /\ toFw' = Tail(toFw)
        /\ UNCHANGED <<phase, sent, running, out, toHost, replies>>
    BY <1>3 DEF DropFrame
  <2>2. /\ m \in Nat /\ m <= Len(Stream) /\ Len(Stream)' = Len(Stream) - m
        /\ \A i \in 1 .. Len(Stream) - m : Stream'[i] = Stream[m + i]
    BY <2>1, StreamRead
  <2>3. /\ Coming' = <<>> /\ running' = 0 /\ phase' # "idle" /\ Current' = Current
    BY <1>1, <2>1 DEF Coming, Current
  <2> HIDE DEF m
  <2>4. \A i \in 1 .. Len(Stream) - m : m + i \in 1 .. Len(Stream)
    BY <1>0, <2>2
  <2>5. \A i \in 1 .. Len(Stream)' : Stream'[i][1] = Current
    BY <1>0, <2>2, <2>4
  <2> QED BY <2>3, <2>5 DEF OneAtATime
<1>4. CASE TakeFrame
  <2> DEFINE a == Piece[1][1]
             m == RequestSize(a)
  <2>1. /\ Reading /\ running' = a /\ got' = <<>>
        /\ UNCHANGED <<phase, sent, out, toHost, replies>>
    BY <1>4 DEF TakeFrame
  <2>2. /\ a \in 1 .. Current /\ m \in Nat \ {0} /\ m <= Len(Stream)
        /\ \A i \in 1 .. m : Stream[i] = <<a, i>>
        /\ Len(Stream)' = Len(Stream) - m
        /\ \A i \in m + 1 .. Len(Stream) : a < Stream[i][1]
        /\ phase = "write" => a # Current
    BY <1>4, TakeIs
  <2> HIDE DEF a, m
  <2>3. a = Current
    <3>1. 1 \in 1 .. Len(Stream) /\ Stream[1][1] = a
      BY <1>0, <2>2
    <3> QED BY <1>0, <3>1
  <2>4. Len(Stream)' = 0
    <3> SUFFICES ASSUME m < Len(Stream) PROVE FALSE
      BY <1>0, <2>2
    <3>1. m + 1 \in m + 1 .. Len(Stream) /\ m + 1 \in 1 .. Len(Stream)
      BY <1>0, <2>2
    <3>2. a < Stream[m + 1][1] /\ Stream[m + 1][1] = Current
      BY <1>0, <2>2, <3>1
    <3> QED BY <1>0, <2>3, <3>2
  <2>5. Stream' = <<>>
    <3>1. Typed'
      BY <1>4, ReadTyped
    <3>2. got' \in Seq(PieceSet) /\ toFw' \in Seq(PieceSet)
      BY <3>1 DEF Typed, Streams
    <3>3. Stream' \in Seq(PieceSet)
      BY <3>2, ConcatProperties DEF Stream
    <3> QED BY <2>4, <3>3, EmptySeq
  <2>6. Coming' = <<>> /\ Current' = Current
    BY <1>1, <2>1 DEF Coming, Current
  <2>7. phase' = "answer"
    <3>1. phase \in {"idle", "write", "answer"}
      BY DEF Typed, TypeOK
    <3> QED BY <1>1, <2>1, <2>2, <2>3, <3>1
  <2> QED BY <2>1, <2>3, <2>4, <2>5, <2>6, <2>7 DEF OneAtATime
<1>5. CASE ByteTimeout
  <2>1. /\ UNCHANGED <<phase, sent, running, out, toHost, replies>>
        /\ got' = <<>> /\ toFw' = <<>> /\ got # <<>>
    BY <1>5 DEF ByteTimeout
  <2>2. Stream' = <<>> /\ Len(Stream)' = 0
    BY <2>1, EmptySeq, ConcatEmptySeq DEF Stream
  <2>3. Stream # <<>>
    BY <2>1, EmptyIs
  <2>4. Coming' = <<>> /\ running' = 0
    BY <1>0, <2>1, <2>3 DEF Coming
  <2> QED BY <2>2, <2>4 DEF OneAtATime
<1>6. CASE FinishCommand
  <2>1. /\ UNCHANGED <<phase, sent, got, toHost>> /\ running # 0 /\ running' = 0
    BY <1>6 DEF FinishCommand
  <2>2. running = Current /\ Stream = <<>> /\ toHost = <<>> /\ phase = "answer"
    BY <1>0, <2>1, EmptyIs
  <2>3. PICK ok \in BOOLEAN :
          /\ Respond(running, ok)
          /\ replies' = [id \in DOMAIN replies \cup {running} |->
               IF id # running THEN replies[id]
               ELSE [ok |-> ok,
                     text |-> IF sent[running].command = GetLastError
                              THEN lastError ELSE 0]]
    BY <1>6 DEF FinishCommand
  <2>4. replies'[running].ok = ok /\ running \in DOMAIN replies'
    BY <2>3
  <2>5. out' = Response(running, ok) /\ toFw' = toFw
    BY <2>3 DEF Respond
  <2>6. Stream' = <<>> /\ Len(Stream)' = 0 /\ Current' = Current
    BY <2>1, <2>2, <2>5, EmptySeq DEF Stream, Current
  <2>7. Coming' = out'
    <3>1. out' \in Seq(PieceSet)
      BY <1>6, FinishIs
    <3> QED BY <2>1, <2>2, <3>1, ConcatEmptySeq DEF Coming
  <2>8. Response(Current, replies[Current].ok)' = Response(Current, ok)
    BY <2>1, <2>2, <2>4, <2>6 DEF Response
  <2> QED BY <2>1, <2>2, <2>4, <2>5, <2>6, <2>7, <2>8 DEF OneAtATime
<1>7. CASE WriteByte
  <2>1. /\ UNCHANGED <<phase, sent, got, toFw, running, replies>>
        /\ out # <<>> /\ out' = Tail(out) /\ toHost' = Append(toHost, Head(out))
    BY <1>7 DEF WriteByte
  <2>2. Coming' = Coming
    <3>1. toHost \in Seq(PieceSet) /\ out \in Seq(PieceSet)
      BY DEF Typed, Streams
    <3>2. /\ Head(out) = out[1] /\ Tail(out) \in Seq(PieceSet) /\ Head(out) \in PieceSet
          /\ Len(out) \in Nat \ {0} /\ Len(Tail(out)) = Len(out) - 1
          /\ \A i \in 1 .. Len(out) - 1 : Tail(out)[i] = out[i + 1]
      BY <2>1, <3>1, TailOf
    <3>3. /\ toHost' \in Seq(PieceSet) /\ Len(toHost') = Len(toHost) + 1
          /\ Len(toHost) \in Nat
          /\ \A i \in 1 .. Len(toHost) : toHost'[i] = toHost[i]
          /\ toHost'[Len(toHost) + 1] = Head(out)
      BY <2>1, <3>1, <3>2, AppendOf
    <3>4. /\ Coming \in Seq(PieceSet) /\ Len(Coming) = Len(toHost) + Len(out)
          /\ \A i \in 1 .. Len(toHost) + Len(out) : Coming[i] =
               IF i <= Len(toHost) THEN toHost[i] ELSE out[i - Len(toHost)]
      BY <3>1, ConcatProperties DEF Coming
    <3>5. Coming' = toHost' \o Tail(out)
      BY <2>1 DEF Coming
    <3>6. /\ Coming' \in Seq(PieceSet) /\ Len(Coming') = Len(toHost') + Len(Tail(out))
          /\ \A i \in 1 .. Len(toHost') + Len(Tail(out)) : Coming'[i] =
               IF i <= Len(toHost') THEN toHost'[i] ELSE Tail(out)[i - Len(toHost')]
      BY <3>2, <3>3, <3>5, ConcatProperties
    <3>7. Len(Coming') = Len(Coming)
      BY <3>2, <3>3, <3>4, <3>6
    <3>8. ASSUME NEW i \in 1 .. Len(Coming)
          PROVE  Coming'[i] = Coming[i]
      <4>0. i \in 1 .. Len(toHost) + Len(out) /\ i \in 1 .. Len(toHost') + Len(Tail(out))
        BY <3>4, <3>6, <3>7
      <4>1. CASE i <= Len(toHost)
        <5>1. i \in 1 .. Len(toHost) /\ i <= Len(toHost')
          BY <3>3, <4>0, <4>1
        <5> QED BY <3>3, <3>4, <3>6, <4>0, <4>1, <5>1
      <4>2. CASE i = Len(toHost) + 1
        <5>1. i <= Len(toHost') /\ ~(i <= Len(toHost)) /\ i - Len(toHost) = 1
          BY <3>3, <4>2
        <5>2. Coming'[i] = toHost'[i] /\ Coming[i] = out[i - Len(toHost)]
          BY <3>4, <3>6, <4>0, <5>1
        <5> QED BY <3>2, <3>3, <4>2, <5>1, <5>2
      <4>3. CASE Len(toHost) + 1 < i
        <5> DEFINE j == i - Len(toHost')
        <5>1. /\ ~(i <= Len(toHost')) /\ ~(i <= Len(toHost))
              /\ j \in 1 .. Len(out) - 1 /\ i - Len(toHost) = j + 1
          BY <3>2, <3>3, <4>0, <4>3
        <5>2. Coming'[i] = Tail(out)[j] /\ Coming[i] = out[i - Len(toHost)]
          BY <3>4, <3>6, <4>0, <5>1
        <5> HIDE DEF j
        <5> QED BY <3>2, <5>1, <5>2
      <4> QED BY <3>3, <4>0, <4>1, <4>2, <4>3
    <3> QED BY <3>4, <3>6, <3>7, <3>8, SeqEqual
  <2>3. Stream' = Stream /\ Current' = Current
    BY <2>1 DEF Stream, Current
  <2>4. \A id, ok : Response(id, ok)' = Response(id, ok)
    BY <2>1 DEF Response
  <2> QED BY <1>0, <2>1, <2>2, <2>3 DEF OneAtATime, Response
<1> QED BY <1>2, <1>3, <1>4, <1>5, <1>6, <1>7 DEF FirmwareStep

LEMMA HostOne ==
  ASSUME Typed, Order, OneAtATime, ~late', ~inherited, phase # "closed", HostStep
  PROVE  OneAtATime' /\ ~BadHeader /\ ~Mismatch
<1>0. ~late
  BY DEF HostStep, Write, WriteTimeout, HostTimeout, BadHeader, Mismatch, AnswerOk,
         AnswerError
<1>1. /\ Current \in Nat
      /\ \A i \in 1 .. Len(Stream) : Stream[i][1] = Current
      /\ running # 0 => phase = "answer"
      /\ Coming # <<>> => phase = "answer"
  BY <1>0 DEF OneAtATime, Typed, Streams, Current
<1>2. ~BadHeader
  BY <1>0, AnswerIsWhole DEF BadHeader
<1>3. ~Mismatch
  BY <1>0, AnswerIsWhole DEF Mismatch, Complete, GoodHeader, Answered
<1>4. CASE Write
  <2>1. UNCHANGED <<sent, running, out, toHost>> /\ phase = "write"
    BY <1>4 DEF Write, firmware
  <2>2. /\ Len(Stream)' = Len(Stream) + 1 /\ Len(Stream) \in Nat /\ Current' = Current
        /\ \A i \in 1 .. Len(Stream) : Stream'[i] = Stream[i]
        /\ Stream'[Len(Stream) + 1] = <<Current, Written + 1>>
    BY <1>4, StreamGrows, PositionsAre
  <2>3. Stream'[Len(Stream) + 1][1] = Current
    BY <2>2
  <2>4. \A i \in 1 .. Len(Stream)' : i \in 1 .. Len(Stream) \/ i = Len(Stream) + 1
    BY <2>2
  <2>5. \A i \in 1 .. Len(Stream)' : Stream'[i][1] = Current
    BY <1>1, <2>2, <2>3, <2>4
  <2>6. Coming' = <<>> /\ running' = 0 /\ phase' # "idle"
    BY <1>1, <1>4, <2>1 DEF Coming, Write
  <2> QED BY <1>2, <1>3, <2>2, <2>5, <2>6 DEF OneAtATime
<1>5. CASE WriteTimeout
  BY <1>1, <1>5 DEF WriteTimeout, RunsLong
<1>6. CASE HostTimeout
  <2>1. running = 0
    BY <1>6 DEF HostTimeout
  <2>2. Settled
    BY <1>6, <2>1 DEF HostTimeout, RunsLong
  <2>3. UNCHANGED <<toFw, got, out, running>> /\ toHost' = <<>> /\ phase' = "idle"
    BY <1>6 DEF HostTimeout, firmware, Raise
  <2>4. Stream' = <<>> /\ Coming' = <<>>
    BY <2>2, <2>3, EmptySeq, ConcatEmptySeq DEF Settled, Stream, Coming
  <2> QED BY <1>2, <1>3, <2>1, <2>3, <2>4, AtRest
<1>7. ASSUME Answered
      PROVE  /\ Stream = <<>> /\ running = 0 /\ out = <<>>
             /\ Rest(ReplySize(Answerer)) = <<>>
  <2>1. HeaderRead /\ Complete
    BY <1>7 DEF Answered, Complete, GoodHeader
  <2> QED BY <1>0, <2>1, AnswerIsWhole
<1>8. CASE AnswerOk
  <2>1. /\ UNCHANGED <<toFw, got, out, running>> /\ phase' = "idle"
        /\ toHost' = Rest(ReplySize(Answerer)) /\ Answered
    BY <1>8 DEF AnswerOk, firmware
  <2>2. Stream' = <<>> /\ toHost' = <<>> /\ out' = <<>> /\ running' = 0
    BY <1>7, <2>1 DEF Stream
  <2>3. Coming' = <<>>
    BY <2>2, EmptySeq, ConcatEmptySeq DEF Coming
  <2> QED BY <1>2, <1>3, <2>1, <2>2, <2>3, AtRest
<1>9. CASE AnswerError
  <2>1. /\ UNCHANGED <<toFw, firmware>> /\ Send(GetLastError)
        /\ toHost' = Rest(ReplySize(Answerer)) /\ Answered
    BY <1>9 DEF AnswerError
  <2> QED BY <1>2, <1>3, <1>7, <2>1, SendOne DEF AllCommands
<1> QED BY <1>2, <1>3, <1>4, <1>5, <1>6, <1>8, <1>9 DEF HostStep

LEMMA ResultIs ==
  ASSUME Typed, NEW why \in Results
  PROVE  /\ \A a, b : /\ [None EXCEPT !.result = why, !.request = a].result = why
                     /\ [None EXCEPT !.result = why, !.request = a, !.reply = b].result = why
         /\ \A x : [outcome EXCEPT !.text = x].result = outcome.result
<1>1. None \in [result : Results, request : Nat, reply : Nat, text : Nat]
  BY DEF None, Results
<1> HIDE DEF None
<1>2. \A a, b : /\ [None EXCEPT !.result = why, !.request = a].result = why
                /\ [None EXCEPT !.result = why, !.request = a, !.reply = b].result = why
  BY <1>1
<1>3. outcome \in [result : Results, request : 0 .. Current,
                   reply : 0 .. Current, text : 0 .. Current]
  BY DEF Typed, TypeOK
<1>4. \A x : [outcome EXCEPT !.text = x].result = outcome.result
  BY <1>3
<1> QED BY <1>2, <1>4

LEMMA StepOne ==
  ASSUME Typed, Order, OneAtATime, NoOutcome, MismatchOnlyIfLate, [Next]_vars
  PROVE  OneAtATime' /\ NoOutcome' /\ MismatchOnlyIfLate'
<1>1. CASE Open
  <2>1. /\ phase = "closed" /\ phase' = "idle" /\ toHost' = <<>> /\ inherited' = ~Settled
        /\ UNCHANGED <<sent, toFw, got, running, out, replies, outcome>>
    BY <1>1 DEF Open, firmware
  <2>2. outcome.result = "none"
    BY <2>1 DEF NoOutcome
  <2>3. ASSUME ~inherited'
        PROVE  OneAtATime'
    <3>1. Settled
      BY <2>1, <2>3
    <3>2. Stream' = <<>> /\ Coming' = <<>> /\ running' = 0
      BY <2>1, <3>1, EmptySeq, ConcatEmptySeq DEF Settled, Stream, Coming
    <3> QED BY <2>1, <3>2, AtRest
  <2>4. OneAtATime'
    BY <2>3 DEF OneAtATime
  <2> QED BY <2>1, <2>2, <2>4 DEF MismatchOnlyIfLate, NoOutcome
<1>2. CASE Close
  <2>1. phase' = "closed" /\ outcome' = None
    BY <1>2 DEF Close
  <2>2. None.result = "none"
    BY DEF None
  <2> HIDE DEF None
  <2> QED BY <2>1, <2>2 DEF OneAtATime, MismatchOnlyIfLate, NoOutcome
<1>3. ASSUME NEW c \in Commands, Command(c)
      PROVE  OneAtATime' /\ NoOutcome' /\ MismatchOnlyIfLate'
  <2>1. /\ phase = "idle" /\ Send(c) /\ outcome' = None
        /\ UNCHANGED <<toFw, firmware, toHost, inherited, late>>
    BY <1>3 DEF Command
  <2>2. None.result = "none" /\ c \in AllCommands
    BY <1>3 DEF None, AllCommands
  <2>3. MismatchOnlyIfLate'
    BY <2>1, <2>2 DEF MismatchOnlyIfLate
  <2>4. ASSUME ~late, ~inherited
        PROVE  OneAtATime'
    <3>1. Stream = <<>> /\ running = 0 /\ Coming = <<>>
      BY <2>1, <2>4 DEF OneAtATime
    <3>2. toHost' = <<>> /\ out = <<>>
      BY <2>1, <3>1, EmptyIs
    <3> QED BY <2>1, <2>2, <3>1, <3>2, SendOne
  <2>5. phase' # "closed"
    BY <2>1 DEF Send
  <2> QED BY <2>1, <2>3, <2>4, <2>5 DEF OneAtATime, NoOutcome
<1>4. CASE HostStep
  <2>1. /\ inherited' = inherited /\ phase # "closed" /\ phase' # "closed"
        /\ ~late' => ~late
    <3>1. CASE Write
      BY <3>1 DEF Write
    <3>2. CASE WriteTimeout
      BY <3>2 DEF WriteTimeout, Raise
    <3>3. CASE HostTimeout
      BY <3>3 DEF HostTimeout, Raise
    <3>4. CASE BadHeader
      BY <3>4 DEF BadHeader, Raise, HeaderRead
    <3>5. CASE Mismatch
      BY <3>5 DEF Mismatch, Raise, Complete, GoodHeader, HeaderRead
    <3>6. CASE AnswerOk
      BY <3>6 DEF AnswerOk, Answered, Complete, GoodHeader, HeaderRead
    <3>7. CASE AnswerError
      BY <3>7 DEF AnswerError, Send, Answered, Complete, GoodHeader, HeaderRead
    <3> QED BY <1>4, <3>1, <3>2, <3>3, <3>4, <3>5, <3>6, <3>7 DEF HostStep
  <2>2. ~late' /\ ~inherited => OneAtATime' /\ ~BadHeader /\ ~Mismatch
    BY <1>4, <2>1, HostOne
  <2>3. ~OneAtATime' => ~late' /\ ~inherited'
    BY DEF OneAtATime
  <2>5. OneAtATime'
    BY <2>1, <2>2, <2>3
  <2>4. ASSUME ~late', ~inherited
        PROVE  outcome'.result \notin {"mismatch", "header"}
    <3>0. ~late /\ ~inherited
      BY <2>1, <2>4
    <3>1. outcome.result \notin {"mismatch", "header"}
      BY <3>0 DEF MismatchOnlyIfLate
    <3>2. CASE Write
      BY <3>1, <3>2 DEF Write
    <3>3. CASE WriteTimeout \/ HostTimeout
      <4>1. Raise("timeout")
        BY <3>3 DEF WriteTimeout, HostTimeout
      <4> QED BY <3>1, <4>1, ResultIs DEF Raise, Results
    <3>4. CASE AnswerOk
      BY <3>1, <3>4, ResultIs DEF AnswerOk, Results
    <3>5. CASE AnswerError
      BY <3>5, ResultIs DEF AnswerError, Results
    <3> QED BY <1>4, <2>2, <2>4, <3>2, <3>3, <3>4, <3>5 DEF HostStep
  <2> QED BY <2>1, <2>4, <2>5 DEF MismatchOnlyIfLate, NoOutcome
<1>5. CASE FirmwareStep
  <2>1. UNCHANGED <<phase, outcome, inherited, late>>
    BY <1>5 DEF FirmwareStep, ReadByte, DropFrame, TakeFrame, ByteTimeout,
                FinishCommand, WriteByte
  <2>2. ASSUME ~late, ~inherited, phase # "closed"
        PROVE  OneAtATime'
    BY <1>5, <2>2, FirmwareOne
  <2> QED BY <2>1, <2>2 DEF OneAtATime, MismatchOnlyIfLate, NoOutcome
<1>6. CASE UNCHANGED vars
  BY <1>6 DEF vars, firmware, OneAtATime, MismatchOnlyIfLate, NoOutcome, Stream, Coming, Current,
              Response
<1> QED BY <1>1, <1>2, <1>3, <1>4, <1>5, <1>6 DEF Next

\* As long as the host never gave up on a request that was still being run, no
\* response is refused: a mismatch, or a header that is none, is always the
\* late answer to an earlier call.
THEOREM MismatchMeansLate == Spec => []MismatchOnlyIfLate
<1> DEFINE Inv == /\ Typed /\ Order /\ OneAtATime /\ NoOutcome
                 /\ MismatchOnlyIfLate
<1>1. Init => Inv
  BY InitTyped, InitOrder, InitOne
<1>2. Inv /\ [Next]_vars => Inv'
  BY StepTyped, StepOrder, StepOne
<1>3. Inv => MismatchOnlyIfLate
  OBVIOUS
<1> QED BY <1>1, <1>2, <1>3, PTL DEF Spec
-----------------------------------------------------------------------------
(* The text of an error.                                                   *)

\* The request that ran last, and the one that ran next after another.
Newest(a) == a \in DOMAIN replies /\ \A id \in DOMAIN replies : id <= a
Follows(a, b) ==
  /\ a \in DOMAIN replies /\ b \in DOMAIN replies /\ a < b
  /\ \A id \in DOMAIN replies : id <= a \/ b <= id

\* Responses come in the order in which they were made, each to its end.
RunsNext == running # 0 => out = <<>> /\ \A id \in DOMAIN replies : id < running
Dropped == phase = "closed" => toHost = <<>>
Linked(p, q) ==
  IF p[2] = ReplySize(p[1]) THEN q[2] = 1 /\ Follows(p[1], q[1])
  ELSE q = <<p[1], p[2] + 1>>
Last(p) == Newest(p[1]) /\ p[2] = ReplySize(p[1])
Chained ==
  /\ \A k \in 1 .. Len(Coming) - 1 : Linked(Coming[k], Coming[k + 1])
  /\ Len(Coming) # 0 => Last(Coming[Len(Coming)])

\* GET_LAST_ERROR reports the failure right before it.
Texts ==
  /\ \A a, b \in DOMAIN replies :
       Follows(a, b) /\ ~replies[a].ok /\ sent[b].command = GetLastError =>
         replies[b].text = a
  /\ \A a \in DOMAIN replies : Newest(a) /\ ~replies[a].ok => lastError = a

\* command() asks for the text with nothing between the error and what comes.
NextAfter(r) ==
  IF Len(Coming) = 0 THEN Newest(r) ELSE Follows(r, Coming[1][1])
Asked ==
  nested => /\ outcome.reply \in DOMAIN replies /\ ~replies[outcome.reply].ok
            /\ NextAfter(outcome.reply)

Responses == RunsNext /\ Dropped /\ Chained /\ Texts

LEMMA ConcatIs ==
  ASSUME NEW s \in Seq(PieceSet), NEW t \in Seq(PieceSet)
  PROVE  /\ Len(s) \in Nat /\ Len(t) \in Nat /\ Len(s \o t) = Len(s) + Len(t)
         /\ \A i \in 1 .. Len(s) : (s \o t)[i] = s[i]
         /\ \A i \in 1 .. Len(t) : (s \o t)[Len(s) + i] = t[i]
<1> DEFINE c == s \o t
           a == Len(s)
           b == Len(t)
<1>1. /\ Len(c) = a + b
      /\ \A i \in 1 .. a + b : c[i] = IF i <= a THEN s[i] ELSE t[i - a]
  BY ConcatProperties
<1>2. a \in Nat /\ b \in Nat
  BY LenProperties
<1> HIDE DEF a, b, c
<1>3. \A i \in 1 .. a : c[i] = s[i]
  BY <1>1, <1>2
<1>4. \A i \in 1 .. b : c[a + i] = t[i]
  <2> TAKE i \in 1 .. b
  <2> DEFINE k == a + i
  <2>1. k \in 1 .. a + b /\ ~(k <= a) /\ k - a = i
    BY <1>2
  <2> HIDE DEF k
  <2>2. c[k] = t[i]
    BY <1>1, <2>1
  <2> QED BY <2>2 DEF k
<1> QED BY <1>1, <1>2, <1>3, <1>4 DEF a, b, c

LEMMA ComingHas ==
  ASSUME Typed
  PROVE  /\ toHost \in Seq(PieceSet) /\ out \in Seq(PieceSet)
         /\ Len(toHost) \in Nat /\ Len(out) \in Nat /\ Len(Coming) \in Nat
         /\ Len(Coming) = Len(toHost) + Len(out)
         /\ \A i \in 1 .. Len(toHost) : Coming[i] = toHost[i]
         /\ \A i \in 1 .. Len(out) : Coming[Len(toHost) + i] = out[i]
         /\ \A i \in 1 .. Len(Coming) : Coming[i][1] \in DOMAIN replies
<1>1. toHost \in Seq(PieceSet) /\ out \in Seq(PieceSet)
  BY DEF Typed, Streams
<1> DEFINE a == Len(toHost)
           b == Len(out)
<1>2. /\ a \in Nat /\ b \in Nat /\ Len(Coming) = a + b
      /\ \A i \in 1 .. a : Coming[i] = toHost[i]
      /\ \A i \in 1 .. b : Coming[a + i] = out[i]
  BY <1>1, ConcatIs DEF Coming
<1>3. /\ \A i \in 1 .. a : toHost[i][1] \in DOMAIN replies
      /\ \A i \in 1 .. b : out[i][1] \in DOMAIN replies
  BY <1>1, LenProperties DEF Typed, Answers
<1> HIDE DEF a, b
<1>4. ASSUME NEW i \in 1 .. a + b
      PROVE  Coming[i][1] \in DOMAIN replies
  <2>1. CASE i <= a
    BY <1>2, <1>3, <2>1
  <2>2. CASE a < i
    <3> DEFINE k == i - a
    <3>1. k \in 1 .. b /\ a + k = i
      BY <1>2, <2>2
    <3> HIDE DEF k
    <3> QED BY <1>2, <1>3, <3>1
  <2> QED BY <1>2, <2>1, <2>2
<1>5. a + b \in Nat
  BY <1>2
<1> QED BY <1>1, <1>2, <1>4, <1>5 DEF a, b

\* The host has taken or dropped the first m pieces.
Taken(m) ==
  /\ m \in 0 .. Len(Coming) /\ Len(Coming)' = Len(Coming) - m
  /\ \A i \in 1 .. Len(Coming) - m : Coming'[i] = Coming[m + i]

LEMMA RestTaken ==
  ASSUME Typed, Typed', NEW m \in 0 .. Len(toHost), toHost' = Rest(m), out' = out
  PROVE  Taken(m)
<1> DEFINE a == Len(toHost)
           b == Len(out)
<1>1. /\ toHost \in Seq(PieceSet) /\ a \in Nat /\ b \in Nat /\ Len(Coming) = a + b
      /\ \A i \in 1 .. a : Coming[i] = toHost[i]
      /\ \A i \in 1 .. b : Coming[a + i] = out[i]
  BY ComingHas
<1>2. \A i \in m + 1 .. a : toHost[i] \in PieceSet
  BY <1>1, ElementOfSeq
<1>3. /\ Len(Rest(m)) = IF m + 1 <= a THEN a - (m + 1) + 1 ELSE 0
      /\ \A i \in 1 .. a - (m + 1) + 1 : Rest(m)[i] = toHost[m + 1 + i - 1]
  <2>1. m + 1 \in Nat /\ a \in Nat
    BY <1>1
  <2> QED BY <1>1, <1>2, <2>1, SubSeqProperties DEF Rest
<1> HIDE DEF a, b
<1>4. /\ m \in Nat /\ m <= a
      /\ Len(Rest(m)) = a - m /\ \A i \in 1 .. a - m : Rest(m)[i] = toHost[m + i]
  <2>1. m \in Nat /\ m <= a /\ a - (m + 1) + 1 = a - m
    BY <1>1 DEF a
  <2>2. \A i \in 1 .. a - m : m + 1 + i - 1 = m + i
    BY <2>1
  <2>3. Len(Rest(m)) = a - m
    <3> DEFINE l == Len(Rest(m))
    <3>1. l = IF m + 1 <= a THEN a - (m + 1) + 1 ELSE 0
      BY <1>3
    <3> HIDE DEF l
    <3>2. l = a - m
      BY <1>1, <2>1, <3>1
    <3> QED BY <3>2 DEF l
  <2> QED BY <1>3, <2>1, <2>2, <2>3
<1>5. /\ Len(toHost)' = a - m /\ Len(out)' = b /\ Len(Coming)' = (a - m) + b
      /\ \A i \in 1 .. a - m : Coming'[i] = toHost[m + i]
      /\ \A i \in 1 .. b : Coming'[(a - m) + i] = out[i]
  <2>1. /\ Len(Coming)' = Len(toHost)' + Len(out)'
        /\ \A i \in 1 .. Len(toHost)' : Coming'[i] = toHost'[i]
        /\ \A i \in 1 .. Len(out)' : Coming'[Len(toHost)' + i] = out'[i]
    BY ConcatIs DEF Coming, Typed, Streams
  <2>2. Len(toHost)' = a - m /\ Len(out)' = b
    BY <1>4 DEF b
  <2> QED BY <1>4, <2>1, <2>2
<1>6. m \in 0 .. a + b /\ (a - m) + b = a + b - m
  BY <1>1, <1>4
<1>7. ASSUME NEW i \in 1 .. a + b - m
      PROVE  Coming'[i] = Coming[m + i]
  <2>1. CASE i <= a - m
    <3>1. i \in 1 .. a - m /\ m + i \in 1 .. a
      BY <1>1, <1>4, <2>1
    <3> QED BY <1>1, <1>5, <3>1
  <2>2. CASE i > a - m
    <3> DEFINE k == i - (a - m)
    <3>1. k \in 1 .. b /\ (a - m) + k = i /\ a + k = m + i
      BY <1>1, <1>4, <2>2
    <3> HIDE DEF k
    <3>2. Coming'[(a - m) + k] = out[k] /\ Coming[a + k] = out[k]
      BY <1>1, <1>5, <3>1
    <3> QED BY <3>1, <3>2
  <2> QED BY <1>1, <1>4, <2>1, <2>2
<1> QED BY <1>1, <1>5, <1>6, <1>7 DEF Taken
\* What is left of a chain of whole responses is one.
LEMMA TakenChained ==
  ASSUME Typed, Responses, NEW m, Taken(m),
         replies' = replies, lastError' = lastError,
         \A id \in 1 .. Current : sent'[id] = sent[id]
  PROVE  Chained' /\ Texts'
<1>1. /\ Len(Coming) \in Nat /\ m \in 0 .. Len(Coming)
      /\ Len(Coming)' = Len(Coming) - m
      /\ \A i \in 1 .. Len(Coming) - m : Coming'[i] = Coming[m + i]
      /\ \A i \in 1 .. Len(Coming) : Coming[i][1] \in DOMAIN replies
  BY ComingHas DEF Taken
<1>2. DOMAIN replies \subseteq 1 .. Current
  BY DEF Typed, TypeOK
<1>3. /\ \A a : Newest(a)' <=> Newest(a)
      /\ \A a, b : Follows(a, b)' <=> Follows(a, b)
  BY DEF Newest, Follows
<1>4. \A id \in DOMAIN replies : ReplySize(id)' = ReplySize(id)
  <2> TAKE id \in DOMAIN replies
  <2>1. sent'[id] = sent[id]
    BY <1>2
  <2> QED BY <2>1 DEF ReplySize, Response
<1>5. ASSUME NEW k \in 1 .. Len(Coming)' - 1
      PROVE  Linked(Coming[k], Coming[k + 1])'
  <2> DEFINE c == Coming
             l == Len(Coming)
             j == m + k
  <2>1. /\ j \in 1 .. l - 1 /\ j \in 1 .. l /\ m + (k + 1) = j + 1
        /\ k \in 1 .. l - m /\ k + 1 \in 1 .. l - m
    BY <1>1
  <2>2. Coming'[k] = c[j] /\ Coming'[k + 1] = c[j + 1]
    <3>1. Coming'[k] = c[m + k] /\ Coming'[k + 1] = c[m + (k + 1)]
      BY <1>1, <2>1
    <3> QED BY <2>1, <3>1
  <2>3. Linked(c[j], c[j + 1]) /\ c[j][1] \in DOMAIN replies
    BY <1>1, <2>1 DEF Responses, Chained
  <2> HIDE DEF c, l, j
  <2>4. PICK p, q : p = c[j] /\ q = c[j + 1]
    OBVIOUS
  <2>5. Linked(p, q) /\ p[1] \in DOMAIN replies
    BY <2>3, <2>4
  <2>6. Linked(p, q)'
    <3>1. ReplySize(p[1])' = ReplySize(p[1])
      BY <1>4, <2>5
    <3> QED BY <1>3, <2>5, <3>1 DEF Linked
  <2> QED BY <2>2, <2>4, <2>6
<1>6. ASSUME Len(Coming)' # 0
      PROVE  Last(Coming[Len(Coming)])'
  <2> DEFINE l == Len(Coming)
             l2 == l - m
  <2>1. l \in Nat /\ l # 0 /\ l2 \in 1 .. l - m /\ m + l2 = l /\ l \in 1 .. l
    BY <1>1, <1>6
  <2>2. Coming'[l2] = Coming[l]
    BY <1>1, <2>1
  <2>3. Last(Coming[l]) /\ Coming[l][1] \in DOMAIN replies
    BY <1>1, <2>1 DEF Responses, Chained
  <2>4. Len(Coming)' = l2
    BY <1>1
  <2>5. PICK p : p = Coming[l]
    OBVIOUS
  <2> HIDE DEF l, l2
  <2>6. Last(p) /\ p[1] \in DOMAIN replies /\ Coming'[Len(Coming)'] = p
    BY <2>2, <2>3, <2>4, <2>5
  <2>7. Last(p)'
    BY <1>3, <1>4, <2>6 DEF Last
  <2> QED BY <2>6, <2>7
<1>7. Texts'
  <2>1. \A b \in DOMAIN replies : sent'[b] = sent[b]
    BY <1>2
  <2> QED BY <1>3, <2>1 DEF Responses, Texts
<1> QED BY <1>5, <1>6, <1>7 DEF Chained

\* A step that makes no response, outside GET_LAST_ERROR or with nothing taken.
LEMMA TakenKeeps ==
  ASSUME Typed, Responses, Asked, NEW m, Taken(m),
         replies' = replies, lastError' = lastError, RunsNext', Dropped',
         \A id \in 1 .. Current : sent'[id] = sent[id],
         nested' => nested /\ outcome' = outcome /\ m = 0
  PROVE  Responses' /\ Asked'
<1>1. Chained' /\ Texts'
  BY TakenChained
<1>2. ASSUME nested'
      PROVE  Asked'
  <2>1. nested /\ outcome' = outcome /\ m = 0
    BY <1>2
  <2>2. /\ Len(Coming) \in Nat /\ Len(Coming)' = Len(Coming) - 0
        /\ \A i \in 1 .. Len(Coming) - 0 : Coming'[i] = Coming[0 + i]
    BY <2>1, ComingHas DEF Taken
  <2>3. /\ Len(Coming)' = Len(Coming)
        /\ Len(Coming) # 0 => Coming'[1] = Coming[1]
    BY <2>2
  <2>0. PICK r : r = outcome.reply
    OBVIOUS
  <2>4. r \in DOMAIN replies /\ ~replies[r].ok /\ NextAfter(r) /\ outcome'.reply = r
    BY <2>0, <2>1 DEF Asked
  <2>5. NextAfter(r)'
    BY <2>3, <2>4 DEF NextAfter, Newest, Follows
  <2> QED BY <2>4, <2>5 DEF Asked
<1> QED BY <1>1, <1>2 DEF Responses, Asked

LEMMA NothingTaken ==
  ASSUME Typed, Coming' = Coming
  PROVE  Taken(0)
<1>1. Len(Coming) \in Nat
  BY ComingHas
<1>2. \A i \in 1 .. Len(Coming) - 0 : 0 + i = i
  BY <1>1
<1> QED BY <1>1, <1>2 DEF Taken


-----------------------------------------------------------------------------
(* What each step takes of the responses.                                  *)

\* The answer the host takes is all of the first response that is coming.
LEMMA AnswerTaken ==
  ASSUME Typed, Responses, Answered
  PROVE  LET n == ReplySize(Answerer) IN
           /\ n \in 1 .. Len(toHost) /\ n <= Len(Coming)
           /\ Len(Coming) # 0 /\ Coming[1][1] = Answerer
           /\ IF Len(Coming) = n THEN Newest(Answerer)
              ELSE Follows(Answerer, Coming[n + 1][1])
<1> DEFINE a == Answerer
           n == ReplySize(a)
           c == Coming
           l == Len(Coming)
           t == Len(toHost)
<1>1. a \in DOMAIN replies /\ a \in 1 .. Current /\ replies[a].ok \in BOOLEAN
  BY AnsweredIs
<1>2. n \in Nat /\ n > HDR /\ HDR \in Nat
  <2>1. PICK k \in Nat : k > HDR /\ Len(Response(a, replies[a].ok)) = k
    BY <1>1, ReplySizes DEF Typed
  <2> QED BY <2>1, Sizes DEF ReplySize
<1>3. /\ t \in Nat /\ l \in Nat /\ n <= t /\ t <= l
      /\ \A i \in 1 .. t : c[i] = toHost[i]
  <2>1. Len(toHost) \in Nat /\ Len(out) \in Nat /\ l = t + Len(out)
    BY ComingHas
  <2>2. n <= t
    BY DEF Answered, Complete
  <2>3. \A i \in 1 .. t : c[i] = toHost[i]
    BY ComingHas
  <2> QED BY <2>1, <2>2, <2>3
<1>4. \A i \in 1 .. n : toHost[i] = <<a, i>>
  BY DEF Answered, BadBody, InOrder, Answerer
<1>5. /\ \A k \in 1 .. l - 1 : Linked(c[k], c[k + 1])
      /\ l # 0 => Last(c[l])
  BY DEF Responses, Chained
<1>6. toHost[1][1] = a
  BY DEF Answerer
<1>7. \A p : p = <<a, n>> => p[1] = a /\ p[2] = ReplySize(p[1])
  OBVIOUS
<1> HIDE DEF a, n, c, l, t
<1>8. n \in 1 .. t /\ 1 \in 1 .. t /\ n <= l /\ l # 0 /\ n \in 1 .. n
  BY <1>2, <1>3
<1>9. c[n] = <<a, n>> /\ c[1][1] = a
  BY <1>3, <1>4, <1>6, <1>8
<1>10. PICK p : p = c[n]
  OBVIOUS
<1>11. p[1] = a /\ p[2] = ReplySize(p[1])
  BY <1>7, <1>9, <1>10
<1>12. CASE l = n
  <2>1. Newest(a)
    BY <1>5, <1>8, <1>10, <1>11, <1>12 DEF Last
  <2> QED BY <1>8, <1>9, <1>12, <2>1 DEF a, n, c, l, t
<1>13. CASE l # n
  <2>1. n \in 1 .. l - 1
    BY <1>3, <1>8, <1>13
  <2>2. Linked(p, c[n + 1])
    BY <1>5, <1>10, <2>1
  <2>3. Follows(a, c[n + 1][1])
    BY <1>11, <2>2 DEF Linked
  <2> QED BY <1>8, <1>9, <1>13, <2>3 DEF a, n, c, l, t
<1> QED BY <1>12, <1>13

LEMMA StepRunsNext ==
  ASSUME Typed, Order, RunsNext, [Next]_vars
  PROVE  RunsNext'
<1>1. CASE UNCHANGED <<running, out, replies>>
  BY <1>1 DEF RunsNext
<1>2. CASE TakeFrame
  <2>1. running' = Piece[1][1] /\ out' = <<>> /\ replies' = replies
    BY <1>2 DEF TakeFrame, Reading
  <2>2. \A id \in DOMAIN replies : id < Piece[1][1]
    BY <1>2, TakeIs
  <2> QED BY <2>1, <2>2 DEF RunsNext
<1>3. CASE FinishCommand
  BY <1>3 DEF FinishCommand, RunsNext
<1>4. CASE WriteByte
  BY <1>4 DEF WriteByte, RunsNext
<1>5. CASE FirmwareStep
  BY <1>1, <1>2, <1>3, <1>4, <1>5 DEF FirmwareStep, ReadByte, DropFrame, ByteTimeout
<1>6. CASE HostStep
  BY <1>1, <1>6 DEF HostStep, Write, WriteTimeout, HostTimeout, BadHeader, Mismatch,
                    AnswerOk, AnswerError, firmware
<1> QED
  BY <1>1, <1>5, <1>6 DEF Next, Open, Close, Command, vars, firmware

LEMMA StepDropped ==
  ASSUME Dropped, [Next]_vars
  PROVE  Dropped'
<1>1. CASE HostStep
  <2>1. phase' # "closed"
    <3>1. CASE Write
      BY <3>1 DEF Write
    <3>2. CASE WriteTimeout \/ HostTimeout \/ BadHeader \/ Mismatch
      BY <3>2 DEF WriteTimeout, HostTimeout, BadHeader, Mismatch, Raise
    <3>3. CASE AnswerOk
      BY <3>3 DEF AnswerOk
    <3>4. CASE AnswerError
      BY <3>4 DEF AnswerError, Send
    <3> QED BY <1>1, <3>1, <3>2, <3>3, <3>4 DEF HostStep
  <2> QED BY <2>1 DEF Dropped
<1>2. CASE FirmwareStep
  BY <1>2 DEF FirmwareStep, ReadByte, DropFrame, TakeFrame, ByteTimeout,
              FinishCommand, WriteByte, Dropped
<1>3. CASE Open \/ Close
  BY <1>3 DEF Open, Close, Dropped
<1>4. ASSUME NEW c \in Commands, Command(c)
      PROVE  Dropped'
  BY <1>4 DEF Command, Send, Dropped
<1>5. CASE UNCHANGED vars
  BY <1>5 DEF vars, Dropped
<1> QED BY <1>1, <1>2, <1>3, <1>4, <1>5 DEF Next

\* Every step but the end of a command takes pieces from the front.
Takes(m) ==
  /\ Taken(m) /\ replies' = replies /\ lastError' = lastError
  /\ \A id \in 1 .. Current : sent'[id] = sent[id]

LEMMA NoneTaken ==
  ASSUME Typed, UNCHANGED <<toHost, out, replies, lastError, sent>>
  PROVE  Takes(0)
<1>1. Coming' = Coming
  BY DEF Coming
<1> QED BY <1>1, NothingTaken DEF Takes

\* The host drops what it has.
LEMMA AllTaken ==
  ASSUME Typed, Typed', toHost' = <<>>,
         UNCHANGED <<out, replies, lastError, sent>>
  PROVE  \E m : Takes(m)
<1> DEFINE m == Len(toHost)
<1>1. m \in Nat /\ toHost \in Seq(PieceSet)
  BY ComingHas
<1>2. m \in 0 .. m /\ m + 1 > m
  BY <1>1
<1>3. Rest(m) = <<>>
  BY <1>1, <1>2, SubSeqEmpty DEF Rest
<1>4. Taken(m)
  BY <1>2, <1>3, RestTaken
<1> QED BY <1>4 DEF Takes

LEMMA SendKeeps ==
  ASSUME Typed, NEW c \in AllCommands, Send(c)
  PROVE  \A id \in 1 .. Current : sent'[id] = sent[id]
<1>1. [seq |-> seq, command |-> c] \in RequestSet
  BY DEF Typed, TypeOK, RequestSet
<1> QED BY <1>1, OneMore DEF Send, Typed

\* A byte that reaches the open port is still on its way; one written to a
\* closed port is gone.
LEMMA WriteByteTakes ==
  ASSUME Typed, Typed', Dropped, WriteByte
  PROVE  \E m : Takes(m) /\ (nested => m = 0)
<1>1. /\ UNCHANGED <<phase, sent, replies, lastError>>
      /\ out # <<>> /\ out' = Tail(out)
      /\ toHost' = IF phase = "closed" THEN toHost ELSE Append(toHost, Head(out))
  BY DEF WriteByte
<1>2. toHost \in Seq(PieceSet) /\ out \in Seq(PieceSet)
  BY DEF Typed, Streams
<1> DEFINE t == Len(toHost)
           o == Len(out)
           c == Coming
<1>3. /\ t \in Nat /\ o \in Nat /\ Len(Coming) = t + o
      /\ \A i \in 1 .. t : c[i] = toHost[i]
      /\ \A i \in 1 .. o : c[t + i] = out[i]
  BY ComingHas
<1>4. /\ o # 0 /\ Head(out) = out[1] /\ Head(out) \in PieceSet
      /\ Len(Tail(out)) = o - 1 /\ Tail(out) \in Seq(PieceSet)
      /\ \A i \in 1 .. o - 1 : Tail(out)[i] = out[i + 1]
  BY <1>1, <1>2, TailOf
<1>5. /\ toHost' \in Seq(PieceSet) /\ out' \in Seq(PieceSet)
      /\ Len(Coming)' = Len(toHost') + Len(out')
      /\ \A i \in 1 .. Len(toHost') : Coming'[i] = toHost'[i]
      /\ \A i \in 1 .. Len(out') : Coming'[Len(toHost') + i] = out'[i]
  BY ConcatIs DEF Typed, Streams, Coming
<1>6. CASE phase = "closed"
  <2>1. toHost = <<>> /\ toHost' = <<>>
    BY <1>1, <1>6 DEF Dropped
  <2>2. Len(<<>>) = 0 /\ t = 0 /\ Len(toHost') = 0
    BY <2>1
  <2>3. Len(out') = o - 1 /\ \A i \in 1 .. o - 1 : out'[i] = out[i + 1]
    BY <1>1, <1>4
  <2>4. ~nested
    BY <1>6 DEF Typed, Calls
  <2> HIDE DEF t, o, c
  <2>5. Len(Coming)' = o - 1 /\ Len(Coming) = o /\ 1 \in 0 .. o
    BY <1>3, <1>4, <1>5, <2>2, <2>3
  <2>6. ASSUME NEW i \in 1 .. o - 1
        PROVE  Coming'[i] = Coming[1 + i]
    <3>1. i + 1 \in 1 .. o /\ t + (i + 1) = 1 + i /\ Len(toHost') + i = i
      BY <1>3, <2>2
    <3>2. c[t + (i + 1)] = out[i + 1] /\ Coming'[Len(toHost') + i] = out'[i]
      BY <1>3, <1>5, <2>3, <3>1
    <3> QED BY <2>3, <3>1, <3>2 DEF c
  <2>7. Taken(1)
    BY <2>5, <2>6 DEF Taken
  <2> QED BY <1>1, <2>4, <2>7 DEF Takes
<1>7. CASE phase # "closed"
  <2>1. /\ Len(toHost') = t + 1 /\ toHost'[t + 1] = out[1]
        /\ \A i \in 1 .. t : toHost'[i] = toHost[i]
    <3>1. toHost' = Append(toHost, Head(out))
      BY <1>1, <1>7
    <3> QED BY <1>2, <1>4, <3>1, AppendOf
  <2>2. Len(out') = o - 1 /\ \A i \in 1 .. o - 1 : out'[i] = out[i + 1]
    BY <1>1, <1>4
  <2> HIDE DEF t, o, c
  <2>3. Len(Coming)' = t + o /\ 0 \in 0 .. t + o
    BY <1>3, <1>4, <1>5, <2>1, <2>2
  <2>4. ASSUME NEW i \in 1 .. t + o - 0
        PROVE  Coming'[i] = Coming[0 + i]
    <3>1. CASE i <= t
      <4>1. i \in 1 .. t /\ i \in 1 .. t + 1 /\ 0 + i = i
        BY <1>3, <3>1
      <4> QED BY <1>3, <1>5, <2>1, <4>1 DEF c
    <3>2. CASE i = t + 1
      <4>1. i \in 1 .. t + 1 /\ 1 \in 1 .. o /\ 0 + i = t + 1
        BY <1>3, <1>4, <3>2
      <4>2. Coming'[i] = toHost'[i] /\ c[t + 1] = out[1]
        BY <1>3, <1>5, <2>1, <4>1
      <4> QED BY <2>1, <3>2, <4>1, <4>2 DEF c
    <3>3. CASE t + 1 < i
      <4> DEFINE j == i - (t + 1)
                 k == j + 1
      <4>1. /\ j \in 1 .. o - 1 /\ k \in 1 .. o /\ (t + 1) + j = i /\ t + k = i
            /\ 0 + i = i
        BY <1>3, <1>4, <3>3
      <4>2. out'[j] = out[k]
        BY <2>2, <4>1
      <4> HIDE DEF j, k
      <4>3. Coming'[(t + 1) + j] = out'[j] /\ c[t + k] = out[k]
        BY <1>3, <1>5, <2>1, <2>2, <4>1
      <4> QED BY <4>1, <4>2, <4>3 DEF c
    <3> QED BY <1>3, <3>1, <3>2, <3>3
  <2>5. Taken(0)
    BY <1>3, <2>3, <2>4 DEF Taken
  <2> QED BY <1>1, <2>5 DEF Takes
<1> QED BY <1>6, <1>7

LEMMA StepTakes ==
  ASSUME Typed, Typed', Dropped, [Next]_vars, ~FinishCommand
  PROVE  \E m : /\ Takes(m)
                /\ AnswerError => m = ReplySize(Answerer)
                /\ nested' /\ ~AnswerError => nested /\ outcome' = outcome /\ m = 0
<1>1. CASE Open
  <2>1. ~nested /\ nested' = nested /\ phase = "closed"
    BY <1>1 DEF Open, Typed, TypeOK, Calls
  <2>2. PICK m : Takes(m)
    BY <1>1, AllTaken DEF Open, firmware
  <2>3. ~AnswerError
    BY <2>1 DEF AnswerError, Answered, Complete, GoodHeader, HeaderRead
  <2> QED BY <2>1, <2>2, <2>3
<1>2. CASE Close
  <2>1. ~nested' /\ phase' = "closed"
    BY <1>2 DEF Close
  <2>2. PICK m : Takes(m)
    BY <1>2, AllTaken DEF Close, firmware
  <2>3. ~AnswerError
    BY <2>1 DEF AnswerError, Send
  <2> QED BY <2>1, <2>2, <2>3
<1>3. ASSUME NEW c \in Commands, Command(c)
      PROVE  Takes(0) /\ ~nested' /\ ~AnswerError
  <2>1. /\ Send(c) /\ ~nested' /\ UNCHANGED <<toHost, out, replies, lastError>>
        /\ phase = "idle" /\ c \in AllCommands
    BY <1>3 DEF Command, firmware, AllCommands
  <2>2. Coming' = Coming
    BY <2>1 DEF Coming
  <2>3. ~AnswerError
    BY <2>1 DEF AnswerError, Answered, Complete, GoodHeader, HeaderRead
  <2> QED BY <2>1, <2>2, <2>3, NothingTaken, SendKeeps DEF Takes
<1>4. ASSUME HeaderRead, UNCHANGED <<out, replies, lastError>>,
             NEW m \in 0 .. Len(toHost), toHost' = Rest(m),
             \A id \in 1 .. Current : sent'[id] = sent[id]
      PROVE  Takes(m)
  BY <1>4, RestTaken DEF Takes
<1>5. ASSUME Complete
      PROVE  ReplySize(Answerer) \in 0 .. Len(toHost) /\ HeaderRead
  <2>1. HeaderRead /\ Len(toHost) \in Nat /\ Len(toHost) >= ReplySize(Answerer)
    BY <1>5, ComingHas DEF Complete, GoodHeader
  <2>2. ReplySize(Answerer) \in Nat
    BY <2>1, AnswererIs
  <2> QED BY <2>1, <2>2
<1>6. CASE Write \/ WriteTimeout
  <2>1. /\ UNCHANGED <<toHost, out, replies, lastError, sent>> /\ phase = "write"
        /\ nested' => nested /\ outcome' = outcome
    BY <1>6 DEF Write, WriteTimeout, Raise, firmware
  <2>2. ~AnswerError
    BY <2>1 DEF AnswerError, Answered, Complete, GoodHeader, HeaderRead
  <2> QED BY <2>1, <2>2, NoneTaken
<1>7. ASSUME HostTimeout \/ BadHeader \/ Mismatch \/ AnswerOk
      PROVE  ~nested' /\ ~AnswerError
  BY <1>7 DEF HostTimeout, BadHeader, Mismatch, AnswerOk, Raise, AnswerError
<1>8. CASE HostTimeout
  <2>1. PICK m : Takes(m)
    BY <1>8, AllTaken DEF HostTimeout, firmware
  <2> QED BY <1>7, <1>8, <2>1
<1>9. CASE BadHeader
  <2>1. HeaderRead /\ toHost' = Rest(HDR) /\ UNCHANGED <<out, replies, lastError, sent>>
    BY <1>9 DEF BadHeader, firmware
  <2>2. HDR \in 0 .. Len(toHost)
    BY <2>1, ComingHas, Sizes DEF HeaderRead
  <2>3. Takes(HDR)
    BY <1>4, <2>1, <2>2
  <2> QED BY <1>7, <1>9, <2>3
<1>10. CASE Mismatch \/ AnswerOk
  <2>1. /\ Complete /\ toHost' = Rest(ReplySize(Answerer))
        /\ UNCHANGED <<out, replies, lastError, sent>>
    BY <1>10 DEF Mismatch, AnswerOk, Answered, firmware
  <2>2. Takes(ReplySize(Answerer))
    BY <1>4, <1>5, <2>1
  <2> QED BY <1>7, <1>10, <2>2
<1>11. CASE AnswerError
  <2>1. /\ Complete /\ toHost' = Rest(ReplySize(Answerer)) /\ Send(GetLastError)
        /\ UNCHANGED <<out, replies, lastError>>
    BY <1>11 DEF AnswerError, Answered, firmware
  <2>2. \A id \in 1 .. Current : sent'[id] = sent[id]
    BY <2>1, SendKeeps DEF AllCommands
  <2>3. Takes(ReplySize(Answerer))
    BY <1>4, <1>5, <2>1, <2>2
  <2> QED BY <1>11, <2>3
<1>12. CASE FirmwareStep
  <2>1. UNCHANGED <<nested, outcome, sent>>
    BY <1>12 DEF FirmwareStep, ReadByte, DropFrame, TakeFrame, ByteTimeout,
                 FinishCommand, WriteByte
  <2>2. ~AnswerError
    <3>1. Current \in Nat
      BY DEF Typed, Streams, Current
    <3>2. AnswerError => Current' = Current + 1
      BY OneMore DEF AnswerError, Send, Typed, TypeOK, RequestSet, AllCommands
    <3> QED BY <2>1, <3>1, <3>2 DEF Current
  <2>3. CASE WriteByte
    BY <2>1, <2>2, <2>3, WriteByteTakes
  <2>4. CASE ~WriteByte
    <3>1. UNCHANGED <<toHost, out, replies, lastError, sent>>
      BY <1>12, <2>4 DEF FirmwareStep, ReadByte, DropFrame, TakeFrame, ByteTimeout
    <3> QED BY <2>1, <2>2, <3>1, NoneTaken
  <2> QED BY <2>3, <2>4
<1>13. CASE UNCHANGED vars
  <2>1. UNCHANGED <<toHost, out, replies, lastError, sent, nested, outcome>>
    BY <1>13 DEF vars, firmware
  <2>2. ~AnswerError
    <3>1. Current \in Nat
      BY DEF Typed, Streams, Current
    <3>2. AnswerError => Current' = Current + 1
      BY OneMore DEF AnswerError, Send, Typed, TypeOK, RequestSet, AllCommands
    <3> QED BY <2>1, <3>1, <3>2 DEF Current
  <2> QED BY <2>1, <2>2, NoneTaken
<1> QED
  BY <1>1, <1>2, <1>3, <1>6, <1>8, <1>9, <1>10, <1>11, <1>12, <1>13 DEF Next, HostStep

-----------------------------------------------------------------------------
(* The response to a command is the newest.                                *)

LEMMA FinishIsNext ==
  ASSUME Typed, RunsNext, FinishCommand, NEW a, a = running
  PROVE  /\ a \in 1 .. Current /\ DOMAIN replies' = DOMAIN replies \cup {a}
         /\ \A id \in DOMAIN replies : id # a /\ replies'[id] = replies[id]
         /\ Newest(a)'
         /\ \A x : Newest(x) => Follows(x, a)'
         /\ \A x, y : Follows(x, y) => Follows(x, y)'
         /\ \A x, y : Follows(x, y)' => Follows(x, y) \/ (y = a /\ Newest(x))
         /\ \A x : Newest(x)' => x = a
<1>1. /\ a \in 1 .. Current /\ DOMAIN replies' = DOMAIN replies \cup {a}
      /\ \A id \in DOMAIN replies : id # a => replies'[id] = replies[id]
  BY FinishIs
<1>2. \A id \in DOMAIN replies : id < a
  BY DEF RunsNext, FinishCommand
<1>3. /\ \A id \in DOMAIN replies : id \in Nat
      /\ a \in Nat
  <2>1. DOMAIN replies \subseteq 1 .. Current /\ Current \in Nat
    BY DEF Typed, TypeOK, Streams, Current
  <2> QED BY <1>1, <2>1
<1> DEFINE D == DOMAIN replies
           E == DOMAIN replies'
<1>4. E = D \cup {a} /\ (\A id \in D : id \in Nat /\ id < a) /\ a \in Nat
  BY <1>1, <1>2, <1>3
<1>5. /\ \A x : Newest(x) <=> x \in D /\ \A id \in D : id <= x
      /\ \A x : Newest(x)' <=> x \in E /\ \A id \in E : id <= x
      /\ \A x, y : Follows(x, y) <=>
           x \in D /\ y \in D /\ x < y /\ \A id \in D : id <= x \/ y <= id
      /\ \A x, y : Follows(x, y)' <=>
           x \in E /\ y \in E /\ x < y /\ \A id \in E : id <= x \/ y <= id
  BY DEF Newest, Follows
<1> HIDE DEF D, E
<1>6. Newest(a)' /\ \A x : Newest(x)' => x = a
  BY <1>4, <1>5
<1>7. \A x : Newest(x) => Follows(x, a)'
  BY <1>4, <1>5
<1>8. \A x, y : Follows(x, y) => Follows(x, y)'
  BY <1>4, <1>5
<1>9. \A x, y : Follows(x, y)' => Follows(x, y) \/ (y = a /\ Newest(x))
  <2> TAKE x, y
  <2> HAVE Follows(x, y)'
  <2>1. x \in E /\ y \in E /\ x < y /\ \A id \in E : id <= x \/ y <= id
    BY <1>5
  <2>2. x # a
    BY <1>4, <2>1
  <2>3. CASE y = a
    BY <1>4, <1>5, <2>1, <2>2, <2>3
  <2>4. CASE y # a
    BY <1>4, <1>5, <2>1, <2>2, <2>4
  <2> QED BY <2>3, <2>4
<1>10. \A id \in DOMAIN replies : id # a /\ replies'[id] = replies[id]
  BY <1>1, <1>2, <1>3
<1> QED BY <1>1, <1>6, <1>7, <1>8, <1>9, <1>10

LEMMA FinishChained ==
  ASSUME Typed, Responses, FinishCommand, NEW a, a = running
  PROVE  /\ Chained'
         /\ Len(Coming)' # 0
         /\ IF Len(Coming) = 0 THEN Coming'[1] = <<a, 1>> ELSE Coming'[1] = Coming[1]
<1>1. PICK ok \in BOOLEAN :
        /\ Respond(running, ok)
        /\ replies' = [id \in DOMAIN replies \cup {running} |->
             IF id # running THEN replies[id]
             ELSE [ok |-> ok,
                   text |-> IF sent[running].command = GetLastError
                            THEN lastError ELSE 0]]
  BY DEF FinishCommand
<1>2. sent' = sent /\ toHost' = toHost /\ out = <<>> /\ RunsNext
  BY DEF FinishCommand, Responses, RunsNext
<1>3. /\ a \in 1 .. Current /\ DOMAIN replies' = DOMAIN replies \cup {a}
      /\ \A id \in DOMAIN replies : id # a /\ replies'[id] = replies[id]
      /\ Newest(a)'
      /\ \A x : Newest(x) => Follows(x, a)'
      /\ \A x, y : Follows(x, y) => Follows(x, y)'
  BY <1>2, FinishIsNext
<1>4. /\ replies'[a].ok = ok
      /\ out' = Response(a, ok)
  BY <1>1 DEF Respond
<1>5. PICK n \in Nat : n > HDR /\ Response(a, ok) = Pieces(a, n) /\ Len(Response(a, ok)) = n
  BY <1>3, ReplySizes DEF Typed
<1>6. ReplySize(a)' = n
  <2>1. Response(a, replies[a].ok)' = Response(a, ok)
    BY <1>2, <1>4 DEF Response
  <2> QED BY <1>5, <2>1 DEF ReplySize
<1>7. \A id \in DOMAIN replies : ReplySize(id)' = ReplySize(id)
  BY <1>2, <1>3 DEF ReplySize, Response
<1>8. /\ n \in Nat /\ n > 0 /\ out' \in Seq(PieceSet) /\ Len(out') = n
      /\ \A i \in 1 .. n : out'[i] = <<a, i>>
  <2>1. a \in Nat \ {0}
    BY <1>3
  <2>2. n > 0
    BY <1>5, Sizes
  <2> QED BY <1>4, <1>5, <2>1, <2>2, PiecesAre
<1> DEFINE t == Len(toHost)
           c == Coming
<1>9. /\ t \in Nat /\ Len(Coming) = t
      /\ \A i \in 1 .. t : c[i] = toHost[i]
      /\ \A i \in 1 .. t : c[i][1] \in DOMAIN replies
  <2>1. Len(out) = 0
    BY <1>2
  <2>2. t \in Nat /\ Len(Coming) = t
    BY <2>1, ComingHas
  <2> QED BY <2>2, ComingHas
<1>10. /\ Len(Coming)' = t + n
       /\ \A i \in 1 .. t : Coming'[i] = c[i]
       /\ \A i \in 1 .. n : Coming'[t + i] = <<a, i>>
  <2>1. toHost \in Seq(PieceSet) /\ Coming' = toHost \o out'
    BY <1>2 DEF Coming, Typed, Streams
  <2>2. /\ Len(toHost \o out') = t + n
        /\ \A i \in 1 .. t : (toHost \o out')[i] = toHost[i]
        /\ \A i \in 1 .. n : (toHost \o out')[t + i] = out'[i]
    BY <1>8, <2>1, ConcatIs
  <2> QED BY <1>8, <1>9, <2>1, <2>2
<1>11. /\ \A k \in 1 .. t - 1 : Linked(c[k], c[k + 1])
       /\ t # 0 => Last(c[t])
  BY <1>9 DEF Responses, Chained
<1> HIDE DEF t, c
<1>12. ASSUME NEW k \in 1 .. Len(Coming)' - 1
       PROVE  Linked(Coming[k], Coming[k + 1])'
  <2>0. k \in 1 .. t + n - 1
    BY <1>9, <1>10
  <2>1. PICK p, q : p = Coming'[k] /\ q = Coming'[k + 1]
    OBVIOUS
  <2>2. CASE k <= t - 1
    <3>1. k \in 1 .. t /\ k + 1 \in 1 .. t /\ k \in 1 .. t - 1
      BY <1>9, <2>0, <2>2
    <3>2. Linked(p, q) /\ p[1] \in DOMAIN replies
      BY <1>9, <1>10, <1>11, <2>1, <3>1
    <3>3. ReplySize(p[1])' = ReplySize(p[1])
      BY <1>7, <3>2
    <3>4. Linked(p, q)'
      BY <1>3, <3>2, <3>3 DEF Linked
    <3> QED BY <2>1, <3>4
  <2>3. CASE k = t
    <3>1. k \in 1 .. t /\ t # 0 /\ 1 \in 1 .. n
      BY <1>8, <1>9, <2>0, <2>3
    <3>2. Last(p) /\ p[1] \in DOMAIN replies /\ q = <<a, 1>>
      BY <1>9, <1>10, <1>11, <2>1, <2>3, <3>1
    <3>3. ReplySize(p[1])' = ReplySize(p[1])
      BY <1>7, <3>2
    <3>4. Linked(p, q)'
      BY <1>3, <3>2, <3>3 DEF Linked, Last
    <3> QED BY <2>1, <3>4
  <2>4. CASE t < k
    <3> DEFINE j == k - t
               j2 == j + 1
    <3>1. j \in 1 .. n - 1 /\ j \in 1 .. n /\ j2 \in 1 .. n /\ t + j = k /\ t + j2 = k + 1
      BY <1>8, <1>9, <2>0, <2>4
    <3>2. j # n
      BY <1>8, <3>1
    <3>3. j2 = j + 1
      OBVIOUS
    <3> HIDE DEF j, j2
    <3>4. p = <<a, j>> /\ q = <<a, j2>>
      BY <1>10, <2>1, <3>1
    <3>5. Linked(p, q)'
      <4>1. p[1] = a /\ p[2] = j /\ q = <<p[1], p[2] + 1>>
        BY <3>3, <3>4
      <4>2. p[2] # ReplySize(p[1])'
        BY <1>6, <3>2, <4>1
      <4> QED BY <4>1, <4>2 DEF Linked
    <3> QED BY <2>1, <3>5
  <2> QED BY <1>9, <2>0, <2>2, <2>3, <2>4
<1>13. Last(Coming[Len(Coming)])'
  <2>1. PICK p : p = Coming'[t + n]
    OBVIOUS
  <2>2. n \in 1 .. n
    BY <1>8
  <2>3. p = <<a, n>>
    BY <1>10, <2>1, <2>2
  <2>4. p[1] = a /\ p[2] = n
    BY <2>3
  <2>5. Last(p)'
    BY <1>3, <1>6, <2>4 DEF Last
  <2> QED BY <1>10, <2>1, <2>5
<1>14. Chained'
  BY <1>12, <1>13 DEF Chained
<1>15. t + n # 0 /\ (t = 0 => t + 1 = 1 /\ 1 \in 1 .. n) /\ (t # 0 => 1 \in 1 .. t)
  BY <1>8, <1>9
<1>16. IF Len(Coming) = 0 THEN Coming'[1] = <<a, 1>> ELSE Coming'[1] = c[1]
  BY <1>9, <1>10, <1>15
<1> QED BY <1>10, <1>14, <1>15, <1>16 DEF c

LEMMA FinishTexts ==
  ASSUME Typed, Responses, FinishCommand, NEW a, a = running
  PROVE  Texts'
<1>1. PICK ok \in BOOLEAN :
        /\ SetLastError(running, ok)
        /\ replies' = [id \in DOMAIN replies \cup {running} |->
             IF id # running THEN replies[id]
             ELSE [ok |-> ok,
                   text |-> IF sent[running].command = GetLastError
                            THEN lastError ELSE 0]]
  BY DEF FinishCommand
<1>2. sent' = sent /\ RunsNext /\ Texts
  BY DEF FinishCommand, Responses
<1>3. /\ DOMAIN replies' = DOMAIN replies \cup {a}
      /\ \A id \in DOMAIN replies : id # a /\ replies'[id] = replies[id]
      /\ \A x, y : Follows(x, y)' => Follows(x, y) \/ (y = a /\ Newest(x))
      /\ \A x : Newest(x)' => x = a
  BY <1>2, FinishIsNext
<1>4. /\ sent[a].command = GetLastError => replies'[a].text = lastError
      /\ ~replies'[a].ok => lastError' = a
  BY <1>1 DEF SetLastError
<1>5. ASSUME NEW x, NEW y, Follows(x, y)', ~replies'[x].ok,
             sent[y].command = GetLastError
      PROVE  replies'[y].text = x
  <2>1. CASE Follows(x, y)
    <3>1. x \in DOMAIN replies /\ y \in DOMAIN replies
      BY <2>1 DEF Follows
    <3>2. replies'[x] = replies[x] /\ replies'[y] = replies[y]
      BY <1>3, <3>1
    <3> QED BY <1>2, <1>5, <2>1, <3>1, <3>2 DEF Texts
  <2>2. CASE y = a /\ Newest(x)
    <3>1. x \in DOMAIN replies
      BY <2>2 DEF Newest
    <3>2. ~replies[x].ok
      BY <1>3, <1>5, <3>1
    <3> QED BY <1>2, <1>4, <1>5, <2>2, <3>1, <3>2 DEF Texts
  <2> QED BY <1>3, <1>5, <2>1, <2>2
<1>6. ASSUME NEW x, Newest(x)', ~replies'[x].ok
      PROVE  lastError' = x
  BY <1>3, <1>4, <1>6
<1> QED BY <1>2, <1>5, <1>6 DEF Texts

LEMMA FinishResponses ==
  ASSUME Typed, Responses, Asked, FinishCommand, RunsNext', Dropped'
  PROVE  Responses' /\ Asked'
<1>1. PICK a : a = running
  OBVIOUS
<1>2. /\ Chained' /\ Len(Coming)' # 0
      /\ IF Len(Coming) = 0 THEN Coming'[1] = <<a, 1>> ELSE Coming'[1] = Coming[1]
  BY <1>1, FinishChained
<1>3. Texts'
  BY <1>1, FinishTexts
<1>4. ASSUME nested'
      PROVE  Asked'
  <2>1. nested /\ outcome' = outcome
    BY <1>4 DEF FinishCommand
  <2>2. PICK r : r = outcome.reply
    OBVIOUS
  <2>3. r \in DOMAIN replies /\ ~replies[r].ok /\ NextAfter(r) /\ outcome'.reply = r
    BY <2>1, <2>2 DEF Asked
  <2>4. /\ r \in DOMAIN replies' /\ replies'[r] = replies[r]
        /\ \A x : Newest(x) => Follows(x, a)'
        /\ \A x, y : Follows(x, y) => Follows(x, y)'
    BY <1>1, <2>3, FinishIsNext DEF Responses
  <2>5. PICK q : q = Coming'[1]
    OBVIOUS
  <2>6. Follows(r, q[1])'
    <3>1. CASE Len(Coming) = 0
      <4>1. Newest(r) /\ q = <<a, 1>>
        BY <1>2, <2>3, <2>5, <3>1 DEF NextAfter
      <4>2. q[1] = a
        BY <4>1
      <4> QED BY <2>4, <4>1, <4>2
    <3>2. CASE Len(Coming) # 0
      <4>1. Follows(r, q[1])
        BY <1>2, <2>3, <2>5, <3>2 DEF NextAfter
      <4> QED BY <2>4, <4>1
    <3> QED BY <3>1, <3>2
  <2>7. NextAfter(r)'
    BY <1>2, <2>5, <2>6 DEF NextAfter
  <2> QED BY <2>3, <2>4, <2>7 DEF Asked
<1> QED BY <1>2, <1>3, <1>4 DEF Responses, Asked

-----------------------------------------------------------------------------
(* All steps.                                                              *)

LEMMA InitResponses ==
  ASSUME Init
  PROVE  Responses /\ Asked /\ TextIsOwn
<1>1. DOMAIN <<>> = {} /\ Len(<<>>) = 0 /\ <<>> \o <<>> = <<>>
  BY EmptySeq, ConcatEmptySeq
<1>2. Len(Coming) = 0 /\ Coming = <<>>
  BY <1>1 DEF Init, Coming
<1>3. RunsNext /\ Dropped /\ Texts /\ Asked
  BY <1>1 DEF Init, RunsNext, Dropped, Texts, Asked, Follows, Newest
<1>4. Chained
  <2>1. 1 .. 0 - 1 = {}
    OBVIOUS
  <2> QED BY <1>2, <2>1 DEF Chained
<1>5. TextIsOwn
  BY DEF Init, None, TextIsOwn
<1> QED BY <1>3, <1>4, <1>5 DEF Responses

LEMMA StepResponses ==
  ASSUME Typed, Typed', Order, Responses, Asked, [Next]_vars
  PROVE  Responses' /\ Asked'
<1>1. RunsNext' /\ Dropped'
  BY StepRunsNext, StepDropped DEF Responses
<1>2. CASE FinishCommand
  BY <1>1, <1>2, FinishResponses
<1>3. CASE ~FinishCommand
  <2>1. PICK m :
          /\ Takes(m)
          /\ AnswerError => m = ReplySize(Answerer)
          /\ nested' /\ ~AnswerError => nested /\ outcome' = outcome /\ m = 0
    BY <1>3, StepTakes DEF Responses
  <2>2. CASE ~AnswerError
    BY <1>1, <2>1, <2>2, TakenKeeps DEF Takes
  <2>3. CASE AnswerError
    <3>1. Chained' /\ Texts'
      BY <2>1, TakenChained DEF Takes
    <3>2. PICK a : a = Answerer
      OBVIOUS
    <3>3. Answered /\ ~replies[a].ok /\ a \in DOMAIN replies
      BY <2>3, <3>2, AnsweredIs DEF AnswerError
    <3>4. /\ m \in 1 .. Len(toHost) /\ m <= Len(Coming) /\ Len(Coming) # 0
          /\ IF Len(Coming) = m THEN Newest(a) ELSE Follows(a, Coming[m + 1][1])
      BY <2>1, <2>3, <3>2, <3>3, AnswerTaken
    <3>5. outcome'.reply = a
      <4>1. \A why, x, y :
              [None EXCEPT !.result = why, !.request = x, !.reply = y].reply = y
        BY DEF None
      <4> QED BY <2>3, <3>2, <4>1 DEF AnswerError
    <3>6. /\ Len(Coming)' = Len(Coming) - m /\ m \in Nat /\ Len(Coming) \in Nat
          /\ Len(Coming) # m => Coming'[1] = Coming[m + 1]
      <4>1. /\ Len(Coming) \in Nat /\ m \in Nat /\ Len(Coming)' = Len(Coming) - m
            /\ \A i \in 1 .. Len(Coming) - m : Coming'[i] = Coming[m + i]
        BY <2>1, <3>4, ComingHas DEF Takes, Taken
      <4>2. Len(Coming) # m => 1 \in 1 .. Len(Coming) - m
        BY <3>4, <4>1
      <4> QED BY <4>1, <4>2
    <3>7. /\ replies' = replies
          /\ \A x : Newest(x)' <=> Newest(x)
          /\ \A x, y : Follows(x, y)' <=> Follows(x, y)
      BY <2>1 DEF Takes, Newest, Follows
    <3>8. PICK q : q = Coming'[1]
      OBVIOUS
    <3>9. NextAfter(a)'
      <4>1. CASE Len(Coming) = m
        <5>1. Len(Coming)' = 0
          BY <3>6, <4>1
        <5> QED BY <3>4, <3>7, <4>1, <5>1 DEF NextAfter
      <4>2. CASE Len(Coming) # m
        <5>1. Len(Coming)' # 0
          BY <3>4, <3>6, <4>2
        <5>2. Follows(a, q[1])'
          BY <3>4, <3>6, <3>7, <3>8, <4>2
        <5> QED BY <3>8, <5>1, <5>2 DEF NextAfter
      <4> QED BY <4>1, <4>2
    <3>10. Asked'
      BY <3>3, <3>5, <3>7, <3>9 DEF Asked
    <3> QED BY <1>1, <3>1, <3>10 DEF Responses
  <2> QED BY <2>2, <2>3
<1> QED BY <1>2, <1>3

\* The text the nested call brings is the one of the error that asked for it.
LEMMA TextOfError ==
  ASSUME Typed, Responses, Asked, Answered, nested
  PROVE  replies[Answerer].text = outcome.reply
<1>1. PICK a, r : a = Answerer /\ r = outcome.reply
  OBVIOUS
<1>2. sent[a].command = GetLastError
  BY <1>1, AnsweredIs DEF Typed, Calls
<1>3. r \in DOMAIN replies /\ ~replies[r].ok /\ NextAfter(r)
  BY <1>1 DEF Asked
<1>4. Len(Coming) # 0 /\ Coming[1][1] = a
  BY <1>1, AnswerTaken
<1>5. Follows(r, a)
  BY <1>3, <1>4 DEF NextAfter
<1>6. r \in DOMAIN replies /\ a \in DOMAIN replies
  BY <1>5 DEF Follows
<1> QED BY <1>1, <1>2, <1>3, <1>5, <1>6 DEF Responses, Texts

LEMMA StepText ==
  ASSUME Typed, Responses, Asked, TextIsOwn, [Next]_vars
  PROVE  TextIsOwn'
<1>1. CASE outcome' = outcome
  BY <1>1 DEF TextIsOwn
<1>2. CASE outcome'.text = 0
  BY <1>2 DEF TextIsOwn
<1>3. /\ None.text = 0
      /\ \A why, a : [None EXCEPT !.result = why, !.request = a].text = 0
      /\ \A why, a, b :
           [None EXCEPT !.result = why, !.request = a, !.reply = b].text = 0
  BY DEF None
<1>4. ASSUME NEW why, Raise(why)
      PROVE  outcome' = outcome \/ outcome'.text = 0
  BY <1>3, <1>4 DEF Raise
<1>5. CASE Close
  BY <1>2, <1>3, <1>5 DEF Close
<1>6. ASSUME NEW c \in Commands, Command(c)
      PROVE  TextIsOwn'
  BY <1>2, <1>3, <1>6 DEF Command
<1>7. CASE AnswerOk
  <2>1. CASE nested
    <3>1. outcome' = [outcome EXCEPT !.text = replies[Answerer].text]
      BY <1>7, <2>1 DEF AnswerOk
    <3>2. outcome \in [result : Results, request : 0 .. Current,
                       reply : 0 .. Current, text : 0 .. Current]
      BY DEF Typed, TypeOK
    <3>3. outcome'.reply = outcome.reply /\ outcome'.text = replies[Answerer].text
      BY <3>1, <3>2
    <3>4. replies[Answerer].text = outcome.reply
      BY <1>7, <2>1, TextOfError DEF AnswerOk
    <3> QED BY <3>3, <3>4 DEF TextIsOwn
  <2>2. CASE ~nested
    BY <1>2, <1>3, <1>7, <2>2 DEF AnswerOk
  <2> QED BY <2>1, <2>2
<1>8. CASE AnswerError
  BY <1>2, <1>3, <1>8 DEF AnswerError
<1>9. CASE WriteTimeout \/ HostTimeout \/ BadHeader \/ Mismatch
  BY <1>1, <1>2, <1>4, <1>9 DEF WriteTimeout, HostTimeout, BadHeader, Mismatch
<1>10. CASE Open \/ Write \/ FirmwareStep \/ UNCHANGED vars
  BY <1>1, <1>10 DEF Open, Write, FirmwareStep, ReadByte, DropFrame, TakeFrame,
                     ByteTimeout, FinishCommand, WriteByte, vars
<1> QED BY <1>5, <1>6, <1>7, <1>8, <1>9, <1>10 DEF Next, HostStep

\* TextIsOwn: the text appended to an error is about the response that
\* reported it.  Responses come in the order they were made and none is made
\* of a command between the two, so that the one right after the error, if it
\* answers a GET_LAST_ERROR, was made while g_last_error still stood.
THEOREM TextsAreOwn == Spec => []TextIsOwn
<1> DEFINE Inv == Typed /\ Order /\ Responses /\ Asked /\ TextIsOwn
<1>1. Init => Inv
  BY InitTyped, InitOrder, InitResponses
<1>2. Inv /\ [Next]_vars => Inv'
  BY StepTyped, StepOrder, StepResponses, StepText
<1>3. Inv => TextIsOwn
  OBVIOUS
<1> QED BY <1>1, <1>2, <1>3, PTL DEF Spec
=============================================================================
