--------------------------- MODULE RequestsProofs ---------------------------
(***************************************************************************)
(* One request on its way, for any limit, any stream and any set of times: *)
(* the verdict of decodeBoundedRequest is a matter of the bytes and not of *)
(* how they were cut into reads, and both sides mean the same arguments.   *)
(***************************************************************************)
EXTENDS Requests, SequenceTheorems, TLAPS

\* Nothing more will come out of the limited reader.
Exhausted == taken = Budget \/ (closed /\ taken = arrived)

OddIn(n) == \E i \in 1..n - stream.size : stream.tail[i] = "odd"

\* What has been read where the decoder is; an accepted request was read to the
\* end, but on a socket, where nobody waits for it.
ReadSoFar ==
  /\ phase = "value" => taken < stream.size
  /\ phase \in {"drain", "linger", "accepted"} =>
       stream.wellFormed /\ Fits /\ stream.size =< taken
  /\ phase \in {"linger", "accepted"} => ~OtherIn(taken)
  /\ phase = "accepted" /\ transport = "pipe" => Exhausted

\* Why a request was rejected; none of these reasons ever goes away.
RejectedFor ==
  Rejected =>
    \/ ~stream.wellFormed \/ ~Fits \/ OtherIn(taken)
    \/ taken < stream.size /\ Exhausted
    \/ transport = "socket" /\ (closed \/ late \/ OddIn(taken))

IInv == TypeOK /\ ReadSoFar /\ RejectedFor /\ SidesAgree

-----------------------------------------------------------------------------
(***************************************************************************)
(* Encodings (WireArgs).                                                   *)
(***************************************************************************)

\* An instant comes back as it was sent, the zero time as a missing field.
LEMMA TimesComeBack == \A t : TimeOf(OptionalTime(t)) = t
BY DEF TimeOf, OptionalTime, Absent

\* Marshal and unmarshal of HistoryArgs: everything comes back but the flag,
\* which a limit that is not zero sets.
LEMMA HistoryComesBack ==
  ASSUME NEW a \in HistoryArgs
  PROVE  LET b == HistoryOf(HistoryWire(a)) IN
           /\ b.cmd = "history" /\ b.since = a.since /\ b.until = a.until
           /\ b.maxPages = a.maxPages
           /\ b.maxPagesSet <=> a.maxPagesSet \/ a.maxPages # 0
<1>1. /\ TimeOf(OptionalTime(a.since)) = a.since
      /\ TimeOf(OptionalTime(a.until)) = a.until
  BY TimesComeBack
<1> QED BY <1>1 DEF HistoryArgs, HistoryOf, HistoryWire, Absent

\* Every other request comes back as it was.
LEMMA OthersComeBack ==
  ASSUME NEW a \in SearchArgs \cup DeletePreviewArgs \cup DeleteBatchArgs
  PROVE  a.cmd # "history" /\ Decoded(a.cmd, Wire(a)) = a
<1>1. CASE a \in SearchArgs
  <2>1. a.cmd = "search" /\ a = [cmd |-> "search", since |-> a.since, until |-> a.until]
    BY <1>1 DEF SearchArgs
  <2>2. Decoded(a.cmd, Wire(a)) = SearchOf(SearchWire(a))
    BY <2>1 DEF Decoded, Wire
  <2>3. SearchOf(SearchWire(a)) = a
    BY <2>1, TimesComeBack DEF SearchOf, SearchWire
  <2> QED BY <2>1, <2>2, <2>3
<1>2. CASE a \in DeletePreviewArgs
  <2>1. /\ a.cmd = "delete_preview" /\ a.wantChannelKey \in BOOLEAN
        /\ a = [cmd |-> "delete_preview", from |-> a.from, to |-> a.to,
                wantChannelKey |-> a.wantChannelKey]
    BY <1>2 DEF DeletePreviewArgs
  <2>2. Decoded(a.cmd, Wire(a)) = DeletePreviewOf(DeleteWire(a))
    BY <2>1 DEF Decoded, Wire
  <2>3. DeletePreviewOf(DeleteWire(a)) = a
    BY <2>1, TimesComeBack DEF DeletePreviewOf, DeleteWire
  <2> QED BY <2>1, <2>2, <2>3
<1>3. CASE a \in DeleteBatchArgs
  <2>1. /\ a.cmd = "delete_batch" /\ a.rangeChunk \in BOOLEAN
        /\ a = [cmd |-> "delete_batch", from |-> a.from, to |-> a.to,
                rangeChunk |-> a.rangeChunk]
    BY <1>3 DEF DeleteBatchArgs
  <2>2. Decoded(a.cmd, Wire(a)) = DeleteBatchOf(DeleteWire(a))
    BY <2>1 DEF Decoded, Wire
  <2>3. DeleteBatchOf(DeleteWire(a)) = a
    BY <2>1, TimesComeBack DEF DeleteBatchOf, DeleteWire
  <2> QED BY <2>1, <2>2, <2>3
<1> QED BY <1>1, <1>2, <1>3

\* What is encoded is decoded as a request that means the same.
THEOREM RoundTrip ==
  ASSUME NEW a \in Args
  PROVE  /\ Decoded(a.cmd, Wire(a)) \in Args
         /\ Meaning(Decoded(a.cmd, Wire(a))) = Meaning(a)
<1>1. CASE a \in HistoryArgs
  <2>1. /\ a.cmd = "history" /\ a.since \in Times /\ a.until \in Times
        /\ a.maxPages \in 0..1 /\ a.maxPagesSet \in BOOLEAN
    BY <1>1 DEF HistoryArgs
  <2>2. Decoded(a.cmd, Wire(a)) = HistoryOf(HistoryWire(a))
    BY <2>1 DEF Decoded, Wire
  <2>3. HistoryOf(HistoryWire(a)) \in HistoryArgs
    <3>1. TimeOf(HistoryWire(a).since) = a.since /\ TimeOf(HistoryWire(a).until) = a.until
      BY TimesComeBack DEF HistoryWire
    <3>2. HistoryWire(a).maxPages = Absent \/ HistoryWire(a).maxPages = {a.maxPages}
      BY DEF HistoryWire
    <3> QED BY <2>1, <3>1, <3>2 DEF HistoryOf, HistoryArgs, Absent
  <2> QED BY <1>1, <2>1, <2>2, <2>3, HistoryComesBack DEF Meaning, Args
<1>2. CASE a \notin HistoryArgs
  <2>1. Decoded(a.cmd, Wire(a)) = a
    BY <1>2, OthersComeBack DEF Args
  <2> QED BY <2>1
<1> QED BY <1>1, <1>2

-----------------------------------------------------------------------------
(***************************************************************************)
(* Streams.                                                                *)
(***************************************************************************)

LEMMA StreamFacts ==
  ASSUME stream \in Streams
  PROVE  /\ stream.size \in Nat \ {0}
         /\ Len(stream.tail) \in Nat /\ Total \in Nat /\ stream.size =< Total
         /\ \A i \in 1..Len(stream.tail) : stream.tail[i] \in {"blank", "odd", "other"}
<1>1. stream.size \in 1..MaxBytes + 2 /\ stream.tail \in Tails
  BY DEF Streams
<1>2. PICK n \in 0..MaxTail : stream.tail \in [1..n -> {"blank", "odd", "other"}]
  BY <1>1 DEF Tails
<1>3. stream.tail \in Seq({"blank", "odd", "other"})
  BY <1>2, SeqDef, RequestsAssumption
<1>4. /\ Len(stream.tail) \in Nat
      /\ stream.tail \in [1..Len(stream.tail) -> {"blank", "odd", "other"}]
  BY <1>3, LenProperties
<1> QED BY <1>1, <1>4, RequestsAssumption DEF Total

LEMMA MinOfTwo ==
  ASSUME NEW a \in Int, NEW b \in Int
  PROVE  Min({a, b}) = IF a =< b THEN a ELSE b
BY DEF Min

\* What has been seen behind the value stays seen.
LEMMA OthersStay ==
  ASSUME NEW m \in Int, NEW n \in Int, m =< n, stream.size \in Int, OtherIn(m)
  PROVE  OtherIn(n)
BY DEF OtherIn

LEMMA OddStays ==
  ASSUME NEW m \in Int, NEW n \in Int, m =< n, stream.size \in Int, OddIn(m)
  PROVE  OddIn(n)
BY DEF OddIn

-----------------------------------------------------------------------------
(***************************************************************************)
(* Types.                                                                  *)
(***************************************************************************)

\* The types of what changes.
StateTypes ==
  /\ arrived \in 0..Total /\ taken \in 0..arrived
  /\ closed \in BOOLEAN /\ late \in BOOLEAN
  /\ phase \in {"value", "drain", "linger", "accepted", "rejected", "answered"}
  /\ phase = "drain" => transport = "pipe"
  /\ phase = "linger" => transport = "socket"
  /\ transport = "pipe" \/ phase = "value" => taken =< MaxBytes + 1

AnswerTypes ==
  /\ seen \in {Absent} \cup {{a} : a \in Args}
  /\ payload \in Payloads
  /\ got \in {"none", "error", "object", "no object"}

LEMMA TypesSplit ==
  TypeOK <=> /\ transport \in {"socket", "pipe"} /\ sent \in Args /\ stream \in Streams
             /\ StateTypes /\ AnswerTypes
BY DEF TypeOK, StateTypes, AnswerTypes

LEMMA InitIInv == Init => IInv
<1> SUFFICES ASSUME Init PROVE IInv
  OBVIOUS
<1>1. sent \in Args
  <2>1. [cmd |-> "search", since |-> ZeroTime, until |-> ZeroTime] \in SearchArgs
    BY DEF SearchArgs, Times
  <2>2. Encodable([cmd |-> "search", since |-> ZeroTime, until |-> ZeroTime])
    BY WireAssumption DEF Encodable
  <2>3. (CHOOSE a \in SearchArgs : Encodable(a)) \in SearchArgs
    BY <2>1, <2>2
  <2> QED BY <2>3 DEF Init, Args
<1>2. stream \in Streams
  <2>1. <<>> \in [1..0 -> {"blank", "odd", "other"}]
    OBVIOUS
  <2>2. <<>> \in Tails
    BY <2>1, RequestsAssumption DEF Tails
  <2>3. [size |-> 1, wellFormed |-> TRUE, tail |-> <<>>] \in Streams
    BY <2>2, RequestsAssumption DEF Streams
  <2> QED BY <2>3 DEF Init
<1>3. StateTypes /\ AnswerTypes
  <2>1. Total \in Nat
    BY <1>2, StreamFacts
  <2>2. /\ arrived = 0 /\ taken = 0 /\ phase = "value"
        /\ closed = FALSE /\ late = FALSE
    BY DEF Init
  <2>3. arrived \in 0..Total /\ taken \in 0..arrived /\ taken =< MaxBytes + 1
    BY <2>1, <2>2, RequestsAssumption
  <2>4. StateTypes
    BY <2>2, <2>3 DEF StateTypes
  <2> QED BY <2>4 DEF Init, AnswerTypes, Payloads
<1>4. TypeOK
  BY <1>1, <1>2, <1>3, TypesSplit DEF Init
<1>5. ReadSoFar /\ RejectedFor
  BY <1>2, StreamFacts DEF Init, ReadSoFar, RejectedFor, Rejected
<1>6. SidesAgree
  BY DEF Init, SidesAgree, Absent
<1> QED BY <1>4, <1>5, <1>6 DEF IInv

-----------------------------------------------------------------------------
(***************************************************************************)
(* The steps.                                                              *)
(***************************************************************************)

\* No step but Read and Linger changes what has been taken, and none the stream.
LEMMA ClientKeeps ==
  ASSUME IInv, Arrive \/ Close
  PROVE  IInv'
<1> USE DEF IInv
<1>1. /\ arrived \in 0..Total /\ taken \in 0..arrived /\ Total \in Nat
      /\ stream \in Streams
  BY TypesSplit, StreamFacts DEF StateTypes
<1>2. UNCHANGED <<transport, sent, stream, taken, phase, late, seen, payload, got>>
  BY DEF Arrive, Close, fixed
<1>3. arrived' \in 0..Total /\ taken \in 0..arrived' /\ closed' \in BOOLEAN
  <2>1. CASE Arrive
    <3>1. PICK n \in arrived + 1 .. Total : arrived' = n
      BY <2>1 DEF Arrive
    <3>2. arrived' \in 0..Total /\ taken \in 0..arrived'
      BY <1>1, <3>1
    <3> QED BY <2>1, <3>2, TypesSplit DEF Arrive, StateTypes
  <2>2. CASE Close
    BY <1>1, <2>2 DEF Close
  <2> QED BY <2>1, <2>2
<1>4. (closed => closed') /\ (Exhausted => Exhausted')
  BY <1>1, <1>2, RequestsAssumption DEF Arrive, Close, Exhausted, Budget
<1>5. StateTypes' /\ AnswerTypes'
  BY <1>2, <1>3, TypesSplit DEF StateTypes, AnswerTypes, Total
<1>6. TypeOK'
  BY <1>2, <1>5, TypesSplit DEF TypeOK, StateTypes, AnswerTypes
<1>7. ReadSoFar' /\ RejectedFor' /\ SidesAgree'
  BY <1>2, <1>4 DEF ReadSoFar, RejectedFor, SidesAgree, Rejected, Fits, OtherIn, OddIn
<1> QED BY <1>6, <1>7

\* The decoder changes neither what was sent nor what was answered.
LEMMA DecoderFrame ==
  ASSUME IInv, UNCHANGED <<fixed, clientVars, seen, payload, got>>,
         StateTypes', ReadSoFar', RejectedFor'
  PROVE  IInv'
<1>1. UNCHANGED <<transport, sent, stream, seen, payload, got>>
  BY DEF fixed
<1>2. AnswerTypes' /\ SidesAgree'
  BY <1>1, TypesSplit DEF IInv, AnswerTypes, SidesAgree
<1>3. TypeOK'
  BY <1>1, <1>2, TypesSplit DEF IInv, TypeOK, StateTypes, AnswerTypes
<1> QED BY <1>2, <1>3 DEF IInv

\* What the decoder knows when it acts.
LEMMA DecoderFacts ==
  ASSUME IInv
  PROVE  /\ StateTypes /\ stream \in Streams
         /\ stream.size \in Nat \ {0} /\ Len(stream.tail) \in Nat
         /\ Total \in Nat /\ Total = stream.size + Len(stream.tail)
         /\ taken \in Nat /\ arrived \in Nat /\ taken =< arrived /\ arrived =< Total
         /\ Budget \in Nat /\ Budget = MaxBytes + 1 /\ MaxBytes \in Nat
         /\ transport \in {"socket", "pipe"}
<1>1. /\ StateTypes /\ stream \in Streams /\ transport \in {"socket", "pipe"}
  BY TypesSplit DEF IInv
<1> QED BY <1>1, StreamFacts, RequestsAssumption DEF StateTypes, Budget, Total

LEMMA ReadKeeps ==
  ASSUME IInv, Read
  PROVE  IInv'
<1> USE DecoderFacts
<1>1. /\ UNCHANGED <<transport, sent, stream, arrived, closed, late, seen, payload, got>>
      /\ phase \in {"value", "drain"}
  BY DEF Read, fixed, clientVars
<1>2. PICK n \in taken + 1 .. Min({arrived, Budget}) :
        /\ taken' = n
        /\ phase' = IF phase = "drain" \/ n < stream.size THEN phase ELSE AfterValue(n)
  BY DEF Read
<1>3. n \in Nat /\ taken < n /\ n =< arrived /\ n =< Budget
  BY <1>2, MinOfTwo
<1>4. /\ phase = "drain" => phase' = "drain"
      /\ phase = "value" /\ n < stream.size => phase' = "value"
      /\ phase = "value" /\ ~(n < stream.size) => phase' = AfterValue(n)
  BY <1>1, <1>2
<1>5. AfterValue(n) \in {"rejected", IF transport = "socket" THEN "linger" ELSE "drain"}
  BY DEF AfterValue
<1>6. taken' \in 0..arrived' /\ taken' =< MaxBytes + 1
  BY <1>1, <1>2, <1>3
<1>7. /\ phase' \in {"value", "drain", "linger", "rejected"}
      /\ phase' = "drain" => transport' = "pipe"
      /\ phase' = "linger" => transport' = "socket"
  BY <1>1, <1>4, <1>5 DEF StateTypes
<1>8. StateTypes'
  BY <1>1, <1>6, <1>7 DEF StateTypes, Total
<1>9. ReadSoFar'
  <2>1. CASE phase = "drain"
    BY <1>1, <1>2, <1>3, <1>4, <2>1 DEF IInv, ReadSoFar, Fits
  <2>2. CASE phase = "value" /\ n < stream.size
    BY <1>1, <1>2, <1>4, <2>2 DEF ReadSoFar
  <2>3. CASE phase = "value" /\ ~(n < stream.size)
    <3>1. phase' = "rejected" \/ (stream.wellFormed /\ Fits /\ ~OtherIn(n))
      BY <1>4, <2>3 DEF AfterValue
    <3>2. phase' \in {"rejected", "linger", "drain"}
      BY <1>4, <1>5, <2>3
    <3> QED BY <1>1, <1>2, <1>3, <2>3, <3>1, <3>2 DEF ReadSoFar, Fits, OtherIn
  <2> QED BY <1>1, <2>1, <2>2, <2>3
<1>10. RejectedFor'
  <2> SUFFICES ASSUME phase' = "rejected"
               PROVE  ~stream.wellFormed \/ ~Fits \/ OtherIn(n)
    BY <1>1, <1>2 DEF RejectedFor, Rejected, Fits, OtherIn
  <2>1. AfterValue(n) = "rejected"
    BY <1>1, <1>4
  <2> QED BY <2>1 DEF AfterValue
<1> QED BY <1>1, <1>8, <1>9, <1>10, DecoderFrame DEF fixed, clientVars

LEMMA EndKeeps ==
  ASSUME IInv, EndOfInput
  PROVE  IInv'
<1> USE DecoderFacts
<1>1. /\ UNCHANGED <<transport, sent, stream, arrived, closed, taken, late, seen, payload, got>>
      /\ phase \in {"value", "drain"} /\ Exhausted
      /\ phase' = IF phase = "value" \/ OtherIn(taken) THEN "rejected" ELSE "accepted"
  BY DEF EndOfInput, fixed, clientVars, Exhausted
<1>2. phase' \in {"rejected", "accepted"}
  BY <1>1
<1>3. StateTypes'
  BY <1>1, <1>2 DEF StateTypes, Total
<1>4. ReadSoFar'
  BY <1>1 DEF IInv, ReadSoFar, Fits, OtherIn, Exhausted, Budget
<1>5. RejectedFor'
  <2>1. OtherIn(taken) \/ (phase = "value" /\ taken < stream.size) \/ phase' # "rejected"
    BY <1>1 DEF IInv, ReadSoFar
  <2> QED BY <1>1, <2>1 DEF RejectedFor, Rejected, OtherIn, Exhausted, Budget
<1> QED BY <1>1, <1>3, <1>4, <1>5, DecoderFrame DEF fixed, clientVars

LEMMA DeadlineKeeps ==
  ASSUME IInv, Deadline
  PROVE  IInv'
<1> USE DecoderFacts
<1>1. /\ UNCHANGED <<transport, sent, stream, arrived, closed, taken, seen, payload, got>>
      /\ transport = "socket" /\ phase = "value"
      /\ late' = TRUE /\ phase' = "rejected"
  BY DEF Deadline, fixed, clientVars
<1>2. StateTypes'
  <2>1. taken' \in 0..arrived' /\ arrived' \in 0..Total'
    BY <1>1 DEF StateTypes, Total
  <2>2. closed' \in BOOLEAN
    BY <1>1 DEF StateTypes
  <2> QED BY <1>1, <2>1, <2>2 DEF StateTypes
<1>3. ReadSoFar' /\ RejectedFor'
  BY <1>1 DEF ReadSoFar, RejectedFor
<1> QED BY <1>1, <1>2, <1>3, DecoderFrame DEF fixed, clientVars

LEMMA LingerKeeps ==
  ASSUME IInv, Linger
  PROVE  IInv'
<1> USE DecoderFacts
<1>1. /\ UNCHANGED <<transport, sent, stream, arrived, closed, late, seen, payload, got>>
      /\ phase = "linger" /\ transport = "socket"
  BY DEF Linger, fixed, clientVars, StateTypes
<1>2. /\ stream.wellFormed /\ Fits /\ stream.size =< taken /\ ~OtherIn(taken)
  BY <1>1 DEF IInv, ReadSoFar
<1>3. CASE /\ taken < arrived
           /\ taken' = taken + 1
           /\ phase' = IF stream.tail[taken + 1 - stream.size] = "blank"
                         THEN "linger" ELSE "rejected"
  <2> DEFINE i == taken + 1 - stream.size
  <2>0. /\ taken \in Nat /\ stream.size \in Nat /\ Len(stream.tail) \in Nat
        /\ stream.size =< taken /\ taken' = taken + 1
        /\ taken < stream.size + Len(stream.tail)
    BY <1>2, <1>3
  <2>1. i \in 1..Len(stream.tail) /\ i \in 1..taken' - stream.size
    BY <2>0
  <2>2. stream.tail[i] \in {"blank", "odd", "other"}
    BY <2>1, StreamFacts
  <2>3. phase' \in {"linger", "rejected"} /\ taken' \in 0..arrived
    BY <1>3
  <2>4. StateTypes'
    BY <1>1, <2>3 DEF StateTypes, Total
  <2>5. CASE stream.tail[i] = "blank"
    <3>1. phase' = "linger"
      BY <1>3, <2>5
    <3>2. ~OtherIn(taken')
      <4> SUFFICES ASSUME NEW j \in 1..taken' - stream.size, stream.tail[j] = "other"
                   PROVE  FALSE
        BY DEF OtherIn
      <4>1. j # i
        BY <2>5
      <4>2. j \in 1..taken - stream.size
        BY <2>0, <4>1
      <4> QED BY <1>2, <4>2 DEF OtherIn
    <3>3. ReadSoFar'
      BY <1>1, <1>2, <1>3, <3>1, <3>2 DEF ReadSoFar, Fits, OtherIn
    <3> QED
      BY <1>1, <2>4, <3>1, <3>3, DecoderFrame DEF RejectedFor, Rejected, fixed, clientVars
  <2>6. CASE stream.tail[i] # "blank"
    <3>1. phase' = "rejected"
      BY <1>3, <2>6
    <3>2. OtherIn(taken') \/ OddIn(taken')
      BY <2>1, <2>2, <2>6 DEF OtherIn, OddIn
    <3>3. ReadSoFar' /\ RejectedFor'
      BY <1>1, <3>1, <3>2 DEF ReadSoFar, RejectedFor, OtherIn, OddIn
    <3> QED BY <1>1, <2>4, <3>3, DecoderFrame DEF fixed, clientVars
  <2> QED BY <2>5, <2>6
<1>4. CASE taken = arrived /\ closed /\ phase' = "rejected" /\ UNCHANGED taken
  <2>1. StateTypes'
    BY <1>1, <1>4 DEF StateTypes, Total
  <2>2. ReadSoFar' /\ RejectedFor'
    BY <1>1, <1>4 DEF ReadSoFar, RejectedFor
  <2> QED BY <1>1, <2>1, <2>2, DecoderFrame DEF fixed, clientVars
<1>5. CASE phase' = "accepted" /\ UNCHANGED taken
  <2>1. StateTypes'
    BY <1>1, <1>5 DEF StateTypes, Total
  <2>2. ReadSoFar' /\ RejectedFor'
    BY <1>1, <1>2, <1>5 DEF ReadSoFar, RejectedFor, Rejected, Fits, OtherIn
  <2> QED BY <1>1, <2>1, <2>2, DecoderFrame DEF fixed, clientVars
<1> QED BY <1>3, <1>4, <1>5 DEF Linger

\* An answer ends the request; what the handler got means what was sent.
LEMMA AnswerKeeps ==
  ASSUME IInv, Refuse \/ Handle
  PROVE  IInv'
<1> USE DecoderFacts
<1>1. /\ UNCHANGED <<transport, sent, stream, arrived, closed, taken, late>>
      /\ phase' = "answered"
  BY DEF Refuse, Handle, fixed, clientVars
<1>2. StateTypes' /\ ReadSoFar' /\ RejectedFor'
  <2>1. StateTypes'
    BY <1>1 DEF StateTypes, Total
  <2> QED BY <1>1, <2>1 DEF ReadSoFar, RejectedFor, Rejected
<1>3. AnswerTypes' /\ SidesAgree'
  <2>1. CASE Refuse
    BY <2>1, TypesSplit DEF Refuse, fixed, IInv, AnswerTypes, SidesAgree
  <2>2. CASE Handle
    <3>1. /\ sent \in Args /\ sent' = sent
          /\ payload \in Payloads
      BY <1>1, TypesSplit DEF IInv, AnswerTypes
    <3>2. seen' = {Decoded(sent.cmd, w) : w \in MarshalArgs(sent)}
      BY <2>2 DEF Handle
    <3>3. seen' = Absent \/ seen' = {Decoded(sent.cmd, Wire(sent))}
      BY <3>2 DEF MarshalArgs, Absent
    <3>4. Decoded(sent.cmd, Wire(sent)) \in Args
      BY <3>1, RoundTrip
    <3>5. \A a \in seen' : Meaning(a) = Meaning(sent)
      BY <3>1, <3>3, RoundTrip DEF Absent
    <3>6. /\ payload' \in Payloads /\ got' \in {"none", "error", "object", "no object"}
          /\ got' = "object" => payload' = "object"
      BY <2>2, <3>1 DEF Handle, IsObject, DataOf, Absent
    <3> QED BY <3>1, <3>3, <3>4, <3>5, <3>6 DEF AnswerTypes, SidesAgree
  <2> QED BY <2>1, <2>2
<1>4. TypeOK'
  BY <1>1, <1>2, <1>3, TypesSplit DEF IInv, TypeOK, StateTypes, AnswerTypes
<1> QED BY <1>2, <1>3, <1>4 DEF IInv

LEMMA StepIInv == IInv /\ [Next]_vars => IInv'
<1>1. ASSUME IInv, UNCHANGED vars PROVE IInv'
  <2>1. TypeOK'
    BY <1>1 DEF vars, IInv, TypeOK, Total
  <2>2. ReadSoFar' /\ RejectedFor' /\ SidesAgree'
    BY <1>1 DEF vars, IInv, ReadSoFar, RejectedFor, SidesAgree, Rejected, Fits, Exhausted,
                Budget, OtherIn, OddIn
  <2> QED BY <2>1, <2>2 DEF IInv
<1> QED
  BY <1>1, ClientKeeps, ReadKeeps, EndKeeps, DeadlineKeeps, LingerKeeps, AnswerKeeps
     DEF Next, Decoder

LEMMA InvariantIInv == Spec => []IInv
BY InitIInv, StepIInv, PTL DEF Spec

-----------------------------------------------------------------------------

\* The decoder and the two servers keep their types; no more than one byte
\* behind the limit is read, but by the socket's look at what follows.
THEOREM Typing == Spec => []TypeOK
<1>1. IInv => TypeOK
  BY DEF IInv
<1> QED BY <1>1, InvariantIInv, PTL

\* decodeBoundedRequest accepts and rejects by the bytes, however they arrive.
THEOREM RightVerdict == Spec => []VerdictIsRight
<1>1. IInv => VerdictIsRight
  <2> SUFFICES ASSUME IInv PROVE VerdictIsRight
    OBVIOUS
  <2> USE DecoderFacts
  <2> DEFINE most == Min({arrived, Budget})
  <2>1. /\ most = (IF arrived =< Budget THEN arrived ELSE Budget)
        /\ Min({most, MaxBytes}) = (IF most =< MaxBytes THEN most ELSE MaxBytes)
        /\ Min({taken, MaxBytes}) = (IF taken =< MaxBytes THEN taken ELSE MaxBytes)
    BY MinOfTwo
  <2>2. transport = "pipe" => taken =< most
    BY <2>1 DEF StateTypes
  <2>3. phase = "accepted" => Proper(taken)
    BY <2>1 DEF IInv, ReadSoFar, Fits, Proper
  <2>4. transport = "pipe" /\ phase = "accepted" => Proper(most)
    <3>1. transport = "pipe" /\ Exhausted => taken = most
      BY <2>1, <2>2 DEF Exhausted
    <3> QED BY <2>3, <3>1 DEF IInv, ReadSoFar
  <2>5. transport = "pipe" /\ Rejected => ~Proper(most)
    <3> SUFFICES ASSUME transport = "pipe", Rejected, Proper(most) PROVE FALSE
      OBVIOUS
    <3>1. stream.wellFormed /\ Fits /\ stream.size =< most /\ ~OtherIn(most)
      BY <2>1 DEF Proper, Fits
    <3>2. ~OtherIn(taken)
      BY <2>1, <2>2, <3>1, OthersStay
    <3>3. taken < stream.size /\ Exhausted
      BY <3>1, <3>2 DEF IInv, RejectedFor
    <3> QED BY <2>1, <3>1, <3>3 DEF Exhausted
  <2>6. transport = "socket" /\ Rejected => ~Proper(taken) \/ closed \/ late \/ OddIn(taken)
    BY <2>1 DEF IInv, RejectedFor, Proper, Fits
  <2> QED BY <2>3, <2>4, <2>5, <2>6 DEF VerdictIsRight, OddIn
<1> QED BY <1>1, InvariantIInv, PTL

\* What MarshalArgs and the MarshalJSON and UnmarshalJSON methods do to arguments
\* changes no meaning, and OK and UnmarshalJSONObject make an object of nothing
\* else; for any set of times, any limit and any stream.
THEOREM SidesMeanTheSame == Spec => []SidesAgree
<1>1. IInv => SidesAgree
  BY DEF IInv
<1> QED BY <1>1, InvariantIInv, PTL

=============================================================================
