------------------------------- MODULE OtlpBody -------------------------------
(***************************************************************************)
(* How the body of a POST /v1/traces is received and decoded               *)
(* (otlp_http.py, decode_otlp_http_request) before the service imports it: *)
(* what the client streams is bounded as it arrives, and a gzip body is    *)
(* inflated under a bound of its own.                                      *)
(*                                                                         *)
(* The client (external) sends its chunks when it likes and may never send *)
(* the next one; the server has no timeout for it.                         *)
(***************************************************************************)
EXTENDS Job, Integers

CONSTANTS
  MaxWire,      \* max_wire_bytes
  MaxDecoded,   \* max_decoded_bytes
  MaxChunk      \* bound: the largest chunk that arrives at once

ASSUME BodyAssumption == MaxWire \in Nat \ {0} /\ MaxDecoded \in Nat \ {0} /\ MaxChunk \in Nat \ {0}

\* How a body ends that is refused, and that None is none of the results.
HttpErrors == {"400", "413", "415", "disconnected"}
ASSUME ResultAssumption == None \notin HttpErrors \cup {"spans"}

\* What Content-Length says.
DeclaredLengths == {"nothing", "no integer", "negative", "too much", "within"}

BodyInit ==
  \E type \in {"json", "protobuf", "other"}, declared \in DeclaredLengths,
     encoding \in {"identity", "gzip", "other"} :
    job = [tool |-> "body", pc |-> "headers", type |-> type, declared |-> declared,
           encoding |-> encoding, wire |-> 0, decoded |-> 0, stream |-> None, result |-> None]

\* OtlpHttpError
HttpError(status) == job' = [job EXCEPT !.pc = "ended", !.result = status]

\* _normalize_content_type, and what a declared length may say.
ReadHeaders ==
  /\ Running("body", "headers")
  /\ CASE job.type = "other" -> HttpError("415")
       [] job.type # "other" /\ job.declared \in {"no integer", "negative"} -> HttpError("400")
       [] job.type # "other" /\ job.declared = "too much" -> HttpError("413")
       [] OTHER -> job' = [job EXCEPT !.pc = "stream"]

TrustingChunk ==  \* a bug: only bodies without a declared length are counted
  /\ Running("body", "stream") /\ job.wire <= MaxWire + MaxChunk
  /\ \E n \in 1..MaxChunk :
       IF job.declared = "nothing" /\ job.wire + n > MaxWire
       THEN job' = [job EXCEPT !.wire = @ + n, !.pc = "ended", !.result = "413"]
       ELSE job' = [job EXCEPT !.wire = @ + n]

\* A chunk is kept first and the limit looked at afterwards.
BodyChunk ==
  /\ Running("body", "stream")
  /\ \E n \in 1..MaxChunk :
       IF job.wire + n > MaxWire
       THEN job' = [job EXCEPT !.wire = @ + n, !.pc = "ended", !.result = "413"]
       ELSE job' = [job EXCEPT !.wire = @ + n]

\* The stream ends, or the client disconnects.
BodyComplete ==
  /\ Running("body", "stream")
  /\ \/ job' = [job EXCEPT !.pc = "decode"]
     \/ HttpError("disconnected")

-----------------------------------------------------------------------------
\* _decode_body: what a gzip body turns out to be while it is inflated: how much
\* there is of it, whether it is damaged, ends, and has something after its end.
GzipStream ==
  [size : 0..(MaxDecoded + 2), valid : BOOLEAN, ends : BOOLEAN, trailing : BOOLEAN]

\* decompress stops one byte above the limit.
Inflated(stream) == IF stream.size > MaxDecoded THEN MaxDecoded + 1 ELSE stream.size

AnyEnd(stream) == stream.valid  \* a bug: the end of the stream is not looked for

CompleteStream(stream) == stream.valid /\ stream.ends /\ ~stream.trailing

\* What exceeds the limit is refused before the damage behind it is seen.
InflateBody ==
  /\ Running("body", "decode") /\ job.encoding = "gzip"
  /\ \E stream \in {g \in GzipStream : job.wire = 0 => g.size = 0 /\ ~g.ends} :
       job' = [job EXCEPT !.stream = stream, !.decoded = Inflated(stream),
                 !.pc = IF Inflated(stream) > MaxDecoded \/ ~CompleteStream(stream)
                        THEN "ended" ELSE "parse",
                 !.result = IF Inflated(stream) > MaxDecoded THEN "413"
                            ELSE IF ~CompleteStream(stream) THEN "400" ELSE None]

KeepBody ==
  /\ Running("body", "decode") /\ job.encoding # "gzip"
  /\ CASE job.encoding = "other" -> HttpError("415")
       [] job.wire > MaxDecoded -> HttpError("413")
       [] OTHER -> job' = [job EXCEPT !.pc = "parse", !.decoded = job.wire]

\* _decode_json and _decode_protobuf; an empty body is a Protobuf message
\* without spans, and no JSON.
ParseBody ==
  /\ Running("body", "parse")
  /\ \/ /\ job.type = "protobuf" \/ job.decoded > 0
        /\ job' = [job EXCEPT !.pc = "ended", !.result = "spans"]
     \/ /\ job.type = "json" \/ job.decoded > 0
        /\ HttpError("400")

BodyNext ==
  ReadHeaders \/ BodyChunk \/ BodyComplete \/ InflateBody \/ KeepBody \/ ParseBody

-----------------------------------------------------------------------------
\* However a client streams and compresses, the server never holds more than
\* the wire limit and one chunk, nor more than one byte above the decoded
\* limit; the spans it hands on come from a body within both limits that was
\* all there, whatever length was declared.
BodyIsBounded ==
  job.tool = "body" =>
    /\ job.wire <= MaxWire + MaxChunk
    /\ job.decoded <= MaxDecoded + 1
    /\ job.result = "spans" =>
         /\ job.wire <= MaxWire /\ job.decoded <= MaxDecoded
         /\ job.encoding = "gzip" =>
              /\ job.stream.size = job.decoded
              /\ job.stream.ends /\ ~job.stream.trailing
=============================================================================
