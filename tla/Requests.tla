------------------------------ MODULE Requests ------------------------------
(***************************************************************************)
(* One request on its way: encoded by the client, written to a socket      *)
(* (serveConn) or to the stdin of an engine (ServeStdioContext), decoded   *)
(* under a byte limit by decodeBoundedRequest, handled and answered.       *)
(*                                                                         *)
(* The bytes are a value of some size, well-formed or not, and a tail of   *)
(* blank, odd (white space to bytes.TrimSpace, but not to JSON) and other  *)
(* bytes.  They arrive in pieces, the client may stop or close at any      *)
(* point, and each Read returns as much of what has arrived as it likes.   *)
(***************************************************************************)
EXTENDS WireArgs, Sequences, FiniteSetsExt

CONSTANTS
  MaxBytes,   \* maxRequestJSONBytes
  MaxTail     \* bound: bytes behind the value

ASSUME RequestsAssumption == MaxBytes \in Nat \ {0} /\ MaxTail \in Nat

VARIABLES
  transport,   \* "socket" or "pipe"
  sent,        \* the arguments the client means
  stream,      \* the bytes it writes
  arrived,     \* how many of them can be read
  closed,      \* the client has closed its side
  taken,       \* how many the decoder has read
  phase,       \* where decodeBoundedRequest is
  late,        \* the connection's deadline passed before the value was whole
  seen,        \* the arguments the handler has decoded, Absent without any
  payload,     \* what the handler answered with
  got          \* the client's view of the answer

clientVars == <<arrived, closed>>
fixed      == <<transport, sent, stream>>
vars == <<transport, sent, stream, arrived, closed, taken, phase, late, seen, payload, got>>

Tails    == UNION {[1..n -> {"blank", "odd", "other"}] : n \in 0..MaxTail}
Streams  == [size : 1..MaxBytes + 2, wellFormed : BOOLEAN, tail : Tails]
Total    == stream.size + Len(stream.tail)
Rejected == phase = "rejected"

TypeOK ==
  /\ transport \in {"socket", "pipe"}
  /\ sent \in Args /\ stream \in Streams
  /\ arrived \in 0..Total /\ taken \in 0..arrived
  /\ closed \in BOOLEAN /\ late \in BOOLEAN
  /\ phase \in {"value", "drain", "linger", "accepted", "rejected", "answered"}
  /\ seen \in {Absent} \cup {{a} : a \in Args}
  /\ payload \in Payloads
  /\ got \in {"none", "error", "object", "no object"}
  /\ phase = "drain" => transport = "pipe"
  /\ phase = "linger" => transport = "socket"
  /\ transport = "pipe" \/ phase = "value" => taken =< MaxBytes + 1

\* The decoder does not look at the arguments, nor the arguments at the bytes:
\* all streams go with one request and all requests with one stream.
Init ==
  /\ transport \in {"socket", "pipe"}
  /\ \/ stream \in Streams /\ sent = CHOOSE a \in SearchArgs : Encodable(a)
     \/ stream = [size |-> 1, wellFormed |-> TRUE, tail |-> <<>>] /\ sent \in Args
  /\ arrived = 0 /\ closed = FALSE
  /\ taken = 0 /\ phase = "value" /\ late = FALSE
  /\ seen = Absent /\ payload = "nil" /\ got = "none"

-----------------------------------------------------------------------------

\* The client's bytes arrive, and it closes its side when it likes.
Arrive ==
  /\ ~closed /\ arrived < Total
  /\ \E n \in arrived + 1 .. Total : arrived' = n
  /\ UNCHANGED <<fixed, closed, taken, phase, late, seen, payload, got>>

Close ==
  /\ ~closed
  /\ closed' = TRUE
  /\ UNCHANGED <<fixed, arrived, taken, phase, late, seen, payload, got>>

-----------------------------------------------------------------------------

\* Slip: the reader has no limit.
BudgetEndless == MaxBytes + MaxTail + 3

\* The LimitedReader's N at the start.
Budget == MaxBytes + 1

\* hasNonWhitespace, of the first n bytes without the value.
OtherIn(n) == \E i \in 1..n - stream.size : stream.tail[i] = "other"

\* Slip: everything the limited reader lets through is short enough.
FitsBudget == stream.size =< Budget

\* decoder.InputOffset() is within the limit.
Fits == stream.size =< MaxBytes

\* What becomes of a value once it is whole, with what was buffered behind it.
AfterValue(n) ==
  IF ~stream.wellFormed \/ ~Fits \/ OtherIn(n) THEN "rejected"
  ELSE IF transport = "socket" THEN "linger" ELSE "drain"

\* A Read of the limited reader, in Decode or in ReadAll.
Read ==
  /\ phase \in {"value", "drain"}
  /\ \E n \in taken + 1 .. Min({arrived, Budget}) :
       /\ taken' = n
       /\ phase' = IF phase = "drain" \/ n < stream.size THEN phase ELSE AfterValue(n)
  /\ UNCHANGED <<fixed, clientVars, late, seen, payload, got>>

\* The limited reader is at its end: the client's, or its own.
EndOfInput ==
  /\ phase \in {"value", "drain"}
  /\ taken = Budget \/ (closed /\ taken = arrived)
  /\ phase' = IF phase = "value" \/ OtherIn(taken) THEN "rejected" ELSE "accepted"
  /\ UNCHANGED <<fixed, clientVars, taken, late, seen, payload, got>>

\* The deadline set by serveConn and writeBusyResponse; a pipe has none.
Deadline ==
  /\ transport = "socket" /\ phase = "value"
  /\ late' = TRUE /\ phase' = "rejected"
  /\ UNCHANGED <<fixed, clientVars, taken, seen, payload, got>>

\* rejectSocketTrailingData: single bytes, past the limit too, for 10 ms.
Linger ==
  /\ phase = "linger"
  /\ \/ /\ taken < arrived
        /\ taken' = taken + 1
        /\ phase' = IF stream.tail[taken + 1 - stream.size] = "blank" THEN "linger" ELSE "rejected"
     \/ taken = arrived /\ closed /\ phase' = "rejected" /\ UNCHANGED taken
     \/ phase' = "accepted" /\ UNCHANGED taken
  /\ UNCHANGED <<fixed, clientVars, late, seen, payload, got>>

\* serveConn and ServeStdioContext answer a request that was not decoded.
Refuse ==
  /\ Rejected
  /\ got' = "error" /\ phase' = "answered"
  /\ UNCHANGED <<fixed, clientVars, taken, late, seen, payload>>

\* The handler is called with the arguments it can decode, or with none when the
\* client could not encode them, and answers what it likes (a panic is an error);
\* the client wants an object.
Handle ==
  /\ phase = "accepted"
  /\ phase' = "answered"
  /\ seen' = {Decoded(sent.cmd, w) : w \in MarshalArgs(sent)}
  /\ \/ UNCHANGED payload /\ got' = "error"
     \/ /\ payload' \in Payloads
        /\ got' = IF IsObject(DataOf(payload')) THEN "object" ELSE "no object"
  /\ UNCHANGED <<fixed, clientVars, taken, late>>

Decoder == Read \/ EndOfInput \/ Deadline \/ Linger

Next == Arrive \/ Close \/ Decoder \/ Refuse \/ Handle

Spec == Init /\ [][Next]_vars

-----------------------------------------------------------------------------

\* The value is whole, short enough, and followed by blanks only, as far as n.
Proper(n) ==
  /\ stream.wellFormed /\ stream.size =< Min({n, MaxBytes})
  /\ ~OtherIn(n)

\* The verdict does not depend on how the bytes were cut into reads: on a pipe
\* it is that of the first maxRequestJSONBytes+1 bytes, and on a socket a proper
\* request is refused only if the client closed its side, sent odd white space,
\* or the deadline passed.
VerdictIsRight ==
  /\ transport = "pipe" /\ phase = "accepted" => Proper(Min({arrived, Budget}))
  /\ transport = "pipe" /\ Rejected => ~Proper(Min({arrived, Budget}))
  /\ transport = "socket" /\ phase = "accepted" => Proper(taken)
  /\ transport = "socket" /\ Rejected =>
       \/ ~Proper(taken) \/ closed \/ late
       \/ \E i \in 1..taken - stream.size : stream.tail[i] = "odd"

\* Arguments that reach the handler mean what the client meant, those left out of
\* the JSON included, and the client takes no answer without an object for one.
\* A request that could not be encoded arrives without arguments: what is made of
\* that is the handler's own.
SidesAgree ==
  /\ \A a \in seen : Meaning(a) = Meaning(sent)
  /\ got = "object" => payload = "object"

=============================================================================
