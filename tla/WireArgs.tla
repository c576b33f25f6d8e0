------------------------------ MODULE WireArgs ------------------------------
(***************************************************************************)
(* The payloads of a request and of a response on the wire                 *)
(* (pkg/protocol): the arguments whose encoding is not field by field, and *)
(* the envelope's OK, MarshalArgs and UnmarshalJSONObject.                 *)
(*                                                                         *)
(* A JSON field that may be absent is a set of at most one value.  Fields  *)
(* that are encoded as they are (ids, texts, limits, flags) are left out   *)
(* unless the two delete requests share them.  A time outside the years    *)
(* 0..9999 has no encoding.                                                *)
(***************************************************************************)
EXTENDS Integers

CONSTANTS
  Instants,   \* times with an encoding
  ZeroTime,   \* time.Time{}
  FarTime     \* a time without an encoding

ASSUME WireAssumption ==
  /\ ZeroTime \notin Instants /\ FarTime \notin Instants
  /\ ZeroTime # FarTime

Times == Instants \cup {ZeroTime, FarTime}

Absent == {}

\* optionalTime, and the guards on IsZero in the MarshalJSON methods.
OptionalTime(t) == IF t = ZeroTime THEN Absent ELSE {t}

\* zeroTime, and what a missing field leaves in a time.Time.
TimeOf(field) == IF field = Absent THEN ZeroTime ELSE CHOOSE t \in field : TRUE

HistoryArgs ==
  [cmd : {"history"}, since : Times, until : Times, maxPages : 0..1, maxPagesSet : BOOLEAN]
SearchArgs  == [cmd : {"search"}, since : Times, until : Times]
DeletePreviewArgs ==
  [cmd : {"delete_preview"}, from : Times, to : Times, wantChannelKey : BOOLEAN]
DeleteBatchArgs ==
  [cmd : {"delete_batch"}, from : Times, to : Times, rangeChunk : BOOLEAN]

Args == HistoryArgs \cup SearchArgs \cup DeletePreviewArgs \cup DeleteBatchArgs

-----------------------------------------------------------------------------

\* Slip: zero pages are left out although they were asked for.
HistoryWireNonZero(a) ==
  [since |-> OptionalTime(a.since), until |-> OptionalTime(a.until),
   maxPages |-> IF a.maxPages # 0 THEN {a.maxPages} ELSE Absent]

\* HistoryArgs.MarshalJSON
HistoryWire(a) ==
  [since |-> OptionalTime(a.since), until |-> OptionalTime(a.until),
   maxPages |-> IF a.maxPagesSet \/ a.maxPages # 0 THEN {a.maxPages} ELSE Absent]

\* HistoryArgs.UnmarshalJSON
HistoryOf(w) ==
  [cmd |-> "history", since |-> TimeOf(w.since), until |-> TimeOf(w.until),
   maxPages |-> IF w.maxPages = Absent THEN 0 ELSE CHOOSE n \in w.maxPages : TRUE,
   maxPagesSet |-> w.maxPages # Absent]

\* SearchArgs.MarshalJSON and UnmarshalJSON
SearchWire(a) == [since |-> OptionalTime(a.since), until |-> OptionalTime(a.until)]
SearchOf(w) == [cmd |-> "search", since |-> TimeOf(w.since), until |-> TimeOf(w.until)]

\* The one wire form of both delete requests (deleteArgsWire); each of them
\* fills and reads its own fields.
DeleteWire(a) ==
  [from |-> OptionalTime(a.from), to |-> OptionalTime(a.to),
   wantChannelKey |-> a.cmd = "delete_preview" /\ a.wantChannelKey,
   rangeChunk |-> a.cmd = "delete_batch" /\ a.rangeChunk]
DeletePreviewOf(w) ==
  [cmd |-> "delete_preview", from |-> TimeOf(w.from), to |-> TimeOf(w.to),
   wantChannelKey |-> w.wantChannelKey]
DeleteBatchOf(w) ==
  [cmd |-> "delete_batch", from |-> TimeOf(w.from), to |-> TimeOf(w.to),
   rangeChunk |-> w.rangeChunk]

Wire(a) ==
  CASE a.cmd = "history" -> HistoryWire(a)
    [] a.cmd = "search"  -> SearchWire(a)
    [] OTHER             -> DeleteWire(a)

Decoded(cmd, w) ==
  CASE cmd = "history"        -> HistoryOf(w)
    [] cmd = "search"         -> SearchOf(w)
    [] cmd = "delete_preview" -> DeletePreviewOf(w)
    [] cmd = "delete_batch"   -> DeleteBatchOf(w)

Encodable(a) ==
  FarTime \notin (IF "since" \in DOMAIN a THEN {a.since, a.until} ELSE {a.from, a.to})

\* MarshalArgs: an encoding error leaves the payload out.
MarshalArgs(a) == IF Encodable(a) THEN {Wire(a)} ELSE Absent

\* What the handler is asked for: "zero is unlimited when present" (protocol.go:241).
Meaning(a) ==
  IF a.cmd # "history" THEN a
  ELSE [since |-> a.since, until |-> a.until,
        pages |-> IF a.maxPages = 0 /\ ~a.maxPagesSet THEN "default"
                  ELSE IF a.maxPages = 0 THEN "unlimited" ELSE "limited"]

-----------------------------------------------------------------------------

\* The data of a response, by its JSON kind.
Payloads == {"nil", "object", "array", "null", "unencodable"}

\* Response.Data of OK(payload).
DataOf(payload) == IF payload \in {"nil", "unencodable"} THEN Absent ELSE {payload}

\* UnmarshalJSONObject succeeds.
IsObject(data) == data = {"object"}

=============================================================================
