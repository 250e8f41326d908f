----------------------------- MODULE DockerWire -----------------------------
(***************************************************************************)
(* One HTTP/1.1 exchange with the Docker daemon, as its two readers see it *)
(* "response": read_http11_response over ResponseAccumulator               *)
(* (src/core/client/http_decode.rs), which every request uses; "oneshot":  *)
(* fetch_logs_oneshot_blocking_with_limit of docker_log_stream.rs, which   *)
(* demultiplexes the frames of the body while they arrive.                 *)
(*                                                                         *)
(* The wire carries, one after the other, the interim (1xx) heads, the     *)
(* head of the answer, its body byte by byte and, when the body is         *)
(* chunked, the last chunk; a read delivers any number of them and the     *)
(* connection may end after any.  A frame has a header of HEADER_LEN bytes *)
(* (its stream and the length of its payload; the reserved bytes and the   *)
(* width of the length are left out) and its payload.                      *)
(***************************************************************************)
EXTENDS Naturals, Sequences

CONSTANTS
  Byte,          \* what a byte of a body may be: 0..n
  MaxBody,       \* bound of the model: bytes of a body
  MaxInterim,    \* bound of the model: interim responses
  BodyMax,       \* the limit BodyLimit::Truncate and BodyLimit::Error carry
  DecoderMax,    \* the body the decoder accepts by default (10 MiB)
  StrictMax      \* bytes a stream of a one-shot fetch may have (64 MiB)

ASSUME WireAssumption ==
  /\ Byte \subseteq Nat /\ MaxBody \in Nat /\ MaxInterim \in Nat
  /\ BodyMax \in Nat /\ DecoderMax \in Nat /\ StrictMax \in Nat

HEADER_LEN == 2

VARIABLES
  msg,      \* the exchange: who reads, with which limit, what the daemon sends
  arrived,  \* how much of it has been read from the socket
  eof,      \* a read returned 0
  wpc,      \* where the reader is
  heads,    \* heads decoded
  taken,    \* bytes of the body consumed from the decoder
  bodyBuf,  \* ResponseAccumulator.body_buf
  data,     \* the slice the demultiplexer still has to work on
  demux,    \* FrameDemuxer
  streams,  \* the strict buffers of stdout (1) and stderr (2)
  outcome   \* what the reader returned

wireVars == <<msg, arrived, eof, wpc, heads, taken, bodyBuf, data, demux,
              streams, outcome>>

Bodies == UNION {[1..n -> Byte] : n \in 0..MaxBody}

(* A head without a body (204, 304, the answer to HEAD) has framing none.  *)
(* "good": status 200 and a multiplexed content type.                      *)
Exchanges ==
  {m \in [reader : {"response", "oneshot"}, interim : 0..MaxInterim,
          limit : {"Unlimited", "Truncate", "Error"}, good : BOOLEAN,
          framing : {"none", "length", "chunked", "close"}, body : Bodies] :
     /\ m.framing = "none" => m.body = <<>>
     /\ m.reader = "oneshot" => m.limit = "Unlimited" /\ m.framing # "none"
     /\ m.reader = "response" => m.good}

NoMessage == [reader |-> "none"]
NewDemuxer == [in_payload |-> FALSE, header |-> <<>>, stream_type |-> 0,
               payload_remaining |-> 0]

WireInit ==
  /\ msg = NoMessage /\ arrived = 0 /\ eof = FALSE /\ wpc = "idle"
  /\ heads = 0 /\ taken = 0 /\ bodyBuf = <<>> /\ data = <<>>
  /\ demux = NewDemuxer /\ streams = [s \in 1..2 |-> <<>>]
  /\ outcome = "none"

WireLen == msg.interim + 1 + Len(msg.body) + IF msg.framing = "chunked" THEN 1 ELSE 0

(* Of the body, what the decoder has been given. *)
Received ==
  LET b == IF arrived > msg.interim + 1 THEN arrived - msg.interim - 1 ELSE 0
  IN  IF b > Len(msg.body) THEN Len(msg.body) ELSE b

Return(r) == wpc' = "done" /\ outcome' = r

(* max_body_size of the decoder: what ResponseAccumulator::new and         *)
(* log_stream_decoder set.                                                 *)
DecoderAccepts(n) ==
  CASE msg.reader = "oneshot" \/ msg.limit = "Truncate" -> TRUE
    [] msg.limit = "Error" -> n <= BodyMax
    [] OTHER -> n <= DecoderMax

(* The request has been written: Client::request, or the oneshot fetch. *)
SendRequest ==
  /\ wpc = "idle" /\ msg' \in Exchanges /\ wpc' = "read"
  /\ UNCHANGED <<arrived, eof, heads, taken, bodyBuf, data, demux, streams, outcome>>

AfterRead == IF heads = msg.interim + 1 THEN "body" ELSE "head"

(* A read of the socket: some bytes, the end of the connection, or an      *)
(* error (the read timeout).                                               *)
ReadSocket ==
  /\ wpc = "read"
  /\ \/ \E n \in arrived + 1 .. WireLen :
          arrived' = n /\ eof' = eof /\ wpc' = AfterRead /\ outcome' = outcome
     \/ eof' = TRUE /\ arrived' = arrived /\ wpc' = AfterRead /\ outcome' = outcome
     \/ Return("io") /\ UNCHANGED <<arrived, eof>>
  /\ UNCHANGED <<msg, heads, taken, bodyBuf, data, demux, streams>>

HeadArrived == arrived > heads

(* decode_headers.  feed drops an interim response and goes on to the next *)
(* head; the oneshot fetch knows no interim response.                      *)
DecodeHeaders ==
  /\ wpc = "head"
  /\ IF ~HeadArrived
     THEN /\ IF eof THEN Return("closed_in_head")
                    ELSE wpc' = "read" /\ outcome' = outcome
          /\ heads' = heads
     ELSE /\ heads' = heads + 1
          /\ IF heads < msg.interim
             THEN IF msg.reader = "response"
                  THEN wpc' = "head" /\ outcome' = outcome
                  ELSE Return("status")
             ELSE IF ~msg.good THEN Return("status")
             ELSE IF msg.framing = "length" /\ ~DecoderAccepts(Len(msg.body))
             THEN Return("too_large")
             ELSE IF msg.framing = "none" THEN Return("ok")
             ELSE wpc' = "body" /\ outcome' = outcome
  /\ UNCHANGED <<msg, arrived, eof, taken, bodyBuf, data, demux, streams>>

(* The decoder knows the body to be complete. *)
Complete(n) ==
  CASE msg.framing = "length"  -> n = Len(msg.body)
    [] msg.framing = "chunked" -> arrived = WireLen /\ n = Len(msg.body)
    [] OTHER                   -> eof /\ n = Received

(* drain_body: a slice the decoder holds goes to body_buf as the limit     *)
(* says; then consume_body, which checks the total.                        *)
DrainBody ==
  /\ wpc = "body" /\ msg.reader = "response" /\ taken < Received
  /\ \E n \in taken + 1 .. Received :
       LET slice == SubSeq(msg.body, taken + 1, n)
           room  == IF BodyMax > Len(bodyBuf) THEN BodyMax - Len(bodyBuf) ELSE 0
           kept  == IF msg.limit = "Truncate" /\ Len(slice) > room
                    THEN SubSeq(slice, 1, room) ELSE slice
       IN  IF msg.limit = "Error" /\ Len(bodyBuf) + Len(slice) > BodyMax
           THEN Return("exceeds") /\ UNCHANGED <<taken, bodyBuf>>
           ELSE /\ bodyBuf' = bodyBuf \o kept /\ taken' = n
                /\ IF ~DecoderAccepts(n) THEN Return("too_large")
                   ELSE IF msg.framing = "length" /\ Complete(n) THEN Return("ok")
                   ELSE UNCHANGED <<wpc, outcome>>
  /\ UNCHANGED <<msg, arrived, eof, heads, data, demux, streams>>

(* Mutant of FeedReturns: the end of the connection ends the body. *)
FeedAcceptsEof ==
  /\ wpc = "body" /\ msg.reader = "response" /\ taken = Received
  /\ IF Complete(taken) \/ eof THEN Return("ok") ELSE wpc' = "read" /\ outcome' = outcome
  /\ UNCHANGED <<msg, arrived, eof, heads, taken, bodyBuf, data, demux, streams>>

(* The end of drain_body and of feed: progress() says the body is          *)
(* complete, or more must be read, or the connection has ended early.      *)
FeedReturns ==
  /\ wpc = "body" /\ msg.reader = "response" /\ taken = Received
  /\ IF Complete(taken) THEN Return("ok")
     ELSE IF eof THEN Return("closed_in_body")
     ELSE wpc' = "read" /\ outcome' = outcome
  /\ UNCHANGED <<msg, arrived, eof, heads, taken, bodyBuf, data, demux, streams>>

(* drain_oneshot_body: a slice goes to the demultiplexer ... *)
DrainOneshot ==
  /\ wpc = "body" /\ msg.reader = "oneshot" /\ taken < Received
  /\ \E n \in taken + 1 .. Received :
       data' = SubSeq(msg.body, taken + 1, n) /\ taken' = n
  /\ wpc' = "demux"
  /\ UNCHANGED <<msg, arrived, eof, heads, bodyBuf, demux, streams, outcome>>

(* ... and when no more is at hand the fetch ends, or reads on.  A         *)
(* connection that ends before the body is complete ends the fetch with    *)
(* what has come.                                                          *)
OneshotReturns ==
  /\ wpc = "body" /\ msg.reader = "oneshot" /\ taken = Received
  /\ IF Complete(taken) \/ eof THEN Return("ok")
     ELSE wpc' = "read" /\ outcome' = outcome
  /\ UNCHANGED <<msg, arrived, eof, heads, taken, bodyBuf, data, demux, streams>>

Smaller(m, n) == IF m < n THEN m ELSE n
Rest(s, n) == SubSeq(s, n + 1, Len(s))

(* Mutant of TakeHeader: a header starts anew with every slice. *)
TakeHeaderForgets ==
  /\ wpc = "demux" /\ data # <<>> /\ ~demux.in_payload
  /\ LET take == Smaller(HEADER_LEN, Len(data))
         hdr  == SubSeq(data, 1, take)
     IN  /\ data' = Rest(data, take)
         /\ demux' = IF Len(hdr) < HEADER_LEN \/ hdr[2] = 0 THEN NewDemuxer
                     ELSE [in_payload |-> TRUE, header |-> hdr,
                           stream_type |-> hdr[1], payload_remaining |-> hdr[2]]
  /\ UNCHANGED <<msg, arrived, eof, wpc, heads, taken, bodyBuf, streams, outcome>>

(* One turn of the loop of FrameDemuxer::feed in a header.  A frame        *)
(* without payload leaves the demultiplexer at the next header.            *)
TakeHeader ==
  /\ wpc = "demux" /\ data # <<>> /\ ~demux.in_payload
  /\ LET take == Smaller(HEADER_LEN - Len(demux.header), Len(data))
         hdr  == demux.header \o SubSeq(data, 1, take)
     IN  /\ data' = Rest(data, take)
         /\ demux' = IF Len(hdr) < HEADER_LEN
                     THEN [demux EXCEPT !.header = hdr]
                     ELSE IF hdr[2] = 0 THEN NewDemuxer
                     ELSE [in_payload |-> TRUE, header |-> hdr,
                           stream_type |-> hdr[1], payload_remaining |-> hdr[2]]
  /\ UNCHANGED <<msg, arrived, eof, wpc, heads, taken, bodyBuf, streams, outcome>>

(* ... and in a payload.  SharedLogBuffer::append of a strict buffer takes *)
(* a chunk as a whole or refuses it; streams other than 1 and 2 are        *)
(* dropped.                                                                *)
TakePayload ==
  /\ wpc = "demux" /\ data # <<>> /\ demux.in_payload
  /\ LET take == Smaller(demux.payload_remaining, Len(data))
         s    == demux.stream_type
     IN  IF s \in 1..2 /\ Len(streams[s]) + take > StrictMax
         THEN Return("exceeds") /\ UNCHANGED <<data, demux, streams>>
         ELSE /\ streams' = IF s \in 1..2
                            THEN [streams EXCEPT ![s] = @ \o SubSeq(data, 1, take)]
                            ELSE streams
              /\ data' = Rest(data, take)
              /\ demux' = IF take = demux.payload_remaining THEN NewDemuxer
                          ELSE [demux EXCEPT !.payload_remaining = @ - take]
              /\ UNCHANGED <<wpc, outcome>>
  /\ UNCHANGED <<msg, arrived, eof, heads, taken, bodyBuf>>

(* feed has consumed the slice: consume_body, and on with the next. *)
SliceDone ==
  /\ wpc = "demux" /\ data = <<>> /\ wpc' = "body"
  /\ UNCHANGED <<msg, arrived, eof, heads, taken, bodyBuf, data, demux, streams, outcome>>

WireNext ==
  \/ SendRequest \/ ReadSocket \/ DecodeHeaders \/ DrainBody \/ FeedReturns
  \/ DrainOneshot \/ OneshotReturns \/ TakeHeader \/ TakePayload \/ SliceDone

WireSpec == WireInit /\ [][WireNext]_wireVars
------------------------------------------------------------------------------
(* demux_exec_stream of docker_client.rs: what exec makes of a whole body, *)
(* from the frame at pos on.                                               *)
DemuxFrom(body) ==
  LET D[pos \in 0..Len(body)] ==
        IF pos + HEADER_LEN > Len(body) THEN [s \in 1..2 |-> <<>>]
        ELSE LET from == pos + HEADER_LEN
                 end  == Smaller(from + body[pos + 2], Len(body))
             IN  [s \in 1..2 |->
                    IF body[pos + 1] = s THEN SubSeq(body, from + 1, end) \o D[end][s]
                    ELSE D[end][s]]
  IN  D

DemuxExecStream(body) == DemuxFrom(body)[0]

(* A response is reported whole or not at all.  Ok carries the head of the *)
(* final response, never of an interim one, and the body the daemon sent,  *)
(* cut only by BodyLimit::Truncate; of a body that ends with the           *)
(* connection, what came before.  An error has a cause: the connection     *)
(* ended or failed early, or the body is over the limit, however the reads *)
(* cut the stream (ResponseAccumulator::feed and drain_body).              *)
ResponseWhole ==
  msg.reader = "response" /\ outcome # "none" =>
    LET got == SubSeq(msg.body, 1, Received)
    IN  CASE outcome = "ok" ->
               /\ heads = msg.interim + 1
               /\ msg.framing = "close" \/ got = msg.body
               /\ DecoderAccepts(Len(got))
               /\ bodyBuf = IF msg.limit = "Truncate"
                            THEN SubSeq(got, 1, Smaller(BodyMax, Len(got))) ELSE got
          [] outcome = "exceeds"   -> msg.limit = "Error" /\ Len(msg.body) > BodyMax
          [] outcome = "too_large" -> ~DecoderAccepts(Len(msg.body))
          [] outcome = "closed_in_head" -> eof /\ arrived <= msg.interim
          [] outcome = "closed_in_body" ->
               eof /\ arrived < WireLen /\ msg.framing # "close"
          [] OTHER -> outcome = "io"

(* Splitting the stream over reads, headers and payloads included, changes *)
(* nothing: between two slices the one-shot buffers hold what              *)
(* demux_exec_stream makes of the bytes consumed, a fetch returns that for *)
(* all that came, and it fails for its size only if one of the streams is  *)
(* over the limit (FrameDemuxer::feed, SharedLogBuffer::append).           *)
DemuxFaithful ==
  msg.reader = "oneshot" =>
    LET whole == DemuxExecStream(SubSeq(msg.body, 1, taken))
    IN  /\ data = <<>> => streams = whole
        /\ outcome = "ok" => taken = Received /\ streams = whole
        /\ outcome = "exceeds" => \E s \in 1..2 : Len(whole[s]) > StrictMax
        /\ outcome \in {"none", "ok"} /\ data = <<>> =>
             \A s \in 1..2 : Len(whole[s]) <= StrictMax
=============================================================================
