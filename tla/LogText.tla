------------------------------ MODULE LogText ------------------------------
(***************************************************************************)
(* What the users of a log make of its bytes: the lines of the consumers   *)
(* (read_line_limited and deliver_line_to_consumers of                     *)
(* src/core/logs/line.rs, called by the delivery tasks of both platforms)  *)
(* and the needle and the diagnosis of the log wait (StreamMatcher and     *)
(* CollectedLogs of src/core/wait/log_strategy.rs).                        *)
(*                                                                         *)
(* The text comes in pieces of any length.  On Linux end of file is the    *)
(* end of the stream; on macOS the delivery task reads a file that grows   *)
(* and takes its present end for end of file.                              *)
(***************************************************************************)
EXTENDS Naturals, Sequences, FiniteSets

CONSTANTS
  NL, CR,             \* the bytes line feed and carriage return
  Letters,            \* the other bytes
  MaxText,            \* bound of the model: bytes of a log
  MaxPattern,         \* bound of the model: bytes of a needle
  MAX_LINE_LENGTH,    \* bytes of a line (8 MiB)
  MAX_COLLECTED       \* MAX_COLLECTED_LOG_BYTES (1 MiB)

ASSUME TextAssumption ==
  /\ MAX_LINE_LENGTH \in Nat \ {0} /\ MAX_COLLECTED \in Nat
  /\ MaxText \in Nat /\ MaxPattern \in Nat

Char == Letters \cup {NL, CR}
Texts(n) == UNION {[1..k -> Char] : k \in 0..n}

VARIABLES
  reading,   \* who reads: none, linux, macos (their consumers), wait
  text,      \* the log, as it will be when the container ends
  at,        \* bytes of it that have been read from the source
  hold,      \* the BufReader's bytes that are not consumed yet
  line,      \* the line being put together
  truncated, \* the head of a line over the limit whose rest is discarded
  frames,    \* the lines delivered to the consumers
  paused,    \* a delivery task met the end of a file that was still to grow
  pattern, carry, count,  \* StreamMatcher
  collected, \* CollectedLogs
  closed     \* the reader has seen the end of the log

textVars == <<reading, text, at, hold, line, truncated, frames, paused,
              pattern, carry, count, collected, closed>>
lineVars == <<hold, line, truncated, frames, paused>>
matchVars == <<carry, count, collected>>

Absent == [present |-> FALSE, head |-> <<>>]

TextInit ==
  /\ reading = "none" /\ text = <<>> /\ at = 0 /\ hold = <<>> /\ line = <<>>
  /\ truncated = Absent /\ frames = <<>> /\ paused = FALSE /\ pattern = <<>>
  /\ carry = <<>> /\ count = 0 /\ collected = <<>> /\ closed = FALSE

(* A consumer or a log wait is given a reader of the log.  An empty needle *)
(* never comes to the matcher: wait_until_ready returns at once.           *)
OpenReader ==
  /\ reading = "none" /\ text' \in Texts(MaxText)
  /\ \/ reading' \in {"linux", "macos"} /\ pattern' = pattern
     \/ reading' = "wait" /\ pattern' \in Texts(MaxPattern) \ {<<>>}
  /\ UNCHANGED <<at, lineVars, matchVars, closed>>

Consumer == reading \in {"linux", "macos"} /\ ~closed

(* fill_buf: the next piece of the log. *)
FillBuf ==
  /\ Consumer /\ hold = <<>>
  /\ \E n \in at + 1 .. Len(text) : hold' = SubSeq(text, at + 1, n) /\ at' = n
  /\ UNCHANGED <<reading, text, line, truncated, frames, paused, pattern,
                 matchVars, closed>>

StripTrailingCr(l) ==
  IF l # <<>> /\ l[Len(l)] = CR THEN SubSeq(l, 1, Len(l) - 1) ELSE l

(* deliver_line_to_consumers: a frame for every consumer. *)
DeliverLine(l) == frames' = Append(frames, l)

(* Nothing left to deliver: the Linux task ends; the macOS task looks      *)
(* again later, until DRAIN_GRACE after the container is gone.             *)
NothingToRead == closed' = (at = Len(text))

(* fill_buf: end of file.  A truncated head or a final line is delivered.  *)
EndOfFile ==
  /\ Consumer /\ hold = <<>>
  /\ reading = "linux" => at = Len(text)
  /\ IF truncated.present
     THEN /\ DeliverLine(truncated.head) /\ truncated' = Absent
          /\ UNCHANGED <<line, closed>>
     ELSE IF line = <<>>
     THEN NothingToRead /\ UNCHANGED <<frames, line, truncated>>
     ELSE /\ DeliverLine(StripTrailingCr(line)) /\ line' = <<>>
          /\ UNCHANGED <<truncated, closed>>
  /\ paused' = (paused \/ (at < Len(text) /\ (truncated.present \/ line # <<>>)))
  /\ UNCHANGED <<reading, text, at, hold, pattern, matchVars>>

NewlineIn(s) == \E i \in 1..Len(s) : s[i] = NL
Before(s) == CHOOSE p \in 0..Len(s) - 1 :
               s[p + 1] = NL /\ \A i \in 1..p : s[i] # NL
Consume(n) == hold' = SubSeq(hold, n + 1, Len(hold))

(* Mutant of Discard: the whole piece is discarded with the line feed. *)
DiscardToEnd ==
  /\ Consumer /\ hold # <<>> /\ truncated.present /\ Consume(Len(hold))
  /\ IF NewlineIn(hold) THEN DeliverLine(truncated.head) /\ truncated' = Absent
     ELSE UNCHANGED <<frames, truncated>>
  /\ UNCHANGED <<reading, text, at, line, paused, pattern, matchVars, closed>>

(* The rest of a line over the limit is discarded up to its line feed. *)
Discard ==
  /\ Consumer /\ hold # <<>> /\ truncated.present
  /\ IF NewlineIn(hold)
     THEN /\ Consume(Before(hold) + 1)
          /\ DeliverLine(truncated.head) /\ truncated' = Absent
     ELSE Consume(Len(hold)) /\ UNCHANGED <<frames, truncated>>
  /\ UNCHANGED <<reading, text, at, line, paused, pattern, matchVars, closed>>

(* The line goes on: to its line feed, or to the end of the piece.  Over   *)
(* the limit it keeps its head.                                            *)
TakeLine ==
  /\ Consumer /\ hold # <<>> /\ ~truncated.present
  /\ LET room == MAX_LINE_LENGTH - Len(line)
         head == line \o SubSeq(hold, 1, room)
     IN  IF NewlineIn(hold)
         THEN LET pos == Before(hold)
              IN  /\ DeliverLine(IF pos > room THEN head
                                 ELSE StripTrailingCr(line \o SubSeq(hold, 1, pos)))
                  /\ line' = <<>> /\ Consume(pos + 1) /\ truncated' = truncated
         ELSE /\ IF Len(hold) > room
                 THEN /\ truncated' = [present |-> TRUE, head |-> head]
                      /\ line' = <<>> /\ Consume(room)
                 ELSE /\ line' = line \o hold /\ Consume(Len(hold))
                      /\ truncated' = truncated
              /\ frames' = frames
  /\ UNCHANGED <<reading, text, at, paused, pattern, matchVars, closed>>

Occurrences(s, p) ==
  Cardinality({i \in 1..Len(s) : i + Len(p) - 1 <= Len(s)
                                 /\ SubSeq(s, i, i + Len(p) - 1) = p})
Tail_(s, n) == IF Len(s) > n THEN SubSeq(s, Len(s) - n + 1, Len(s)) ELSE s

(* CollectedLogs::push: of a long input its tail, then the oldest go. *)
Collect(bytes) == Tail_(collected \o Tail_(bytes, MAX_COLLECTED), MAX_COLLECTED)

(* Mutant of Carry: one byte too many is carried over. *)
CarryWhole(buf) == Tail_(buf, Len(pattern))

(* StreamMatcher::feed carries over one byte less than the needle. *)
Carry(buf) == Tail_(buf, Len(pattern) - 1)

(* A read of the log wait: StreamMatcher::feed counts in what it carried   *)
(* over and the piece.                                                     *)
Feed ==
  /\ reading = "wait" /\ ~closed
  /\ \E n \in at..Len(text) :
       LET piece == SubSeq(text, at + 1, n)
           buf   == carry \o piece
       IN  /\ at' = n /\ collected' = Collect(piece)
           /\ IF Len(buf) >= Len(pattern)
              THEN /\ count' = count + Occurrences(buf, pattern)
                   /\ carry' = Carry(buf)
              ELSE carry' = buf /\ count' = count
           /\ closed' = (n = at /\ at = Len(text))
  /\ UNCHANGED <<reading, text, lineVars, pattern>>

TextNext == OpenReader \/ FillBuf \/ EndOfFile \/ Discard \/ TakeLine \/ Feed

TextSpec == TextInit /\ [][TextNext]_textVars
------------------------------------------------------------------------------
(* The lines of a text whose last byte is a line feed, as a consumer is to *)
(* see them.                                                               *)
LinesFrom(s) ==
  LET L[p \in 0..Len(s)] ==
        LET rest == SubSeq(s, p + 1, Len(s))
            body == SubSeq(rest, 1, Before(rest))
        IN  IF ~NewlineIn(rest) THEN <<>>
            ELSE <<IF Len(body) > MAX_LINE_LENGTH
                   THEN SubSeq(body, 1, MAX_LINE_LENGTH) ELSE StripTrailingCr(body)>>
                 \o L[p + Before(rest) + 1]
  IN  L
LinesOf(s) == LinesFrom(s)[0]

(* ... and of any text: a last line needs no line feed. *)
AllLinesOf(s) == LinesOf(IF s = <<>> \/ s[Len(s)] = NL THEN s ELSE Append(s, NL))

FlatTo(ss) ==
  LET F[i \in 0..Len(ss)] == IF i = 0 THEN <<>> ELSE F[i - 1] \o ss[i] IN F
Flat(ss) == FlatTo(ss)[Len(ss)]
OnlyLetters(s) ==
  Flat([i \in DOMAIN s |-> IF s[i] \in {NL, CR} THEN <<>> ELSE <<s[i]>>])

(* However the log is cut into pieces, a consumer sees each of its lines   *)
(* once, in order and whole, a line over the limit by its head; at the end *)
(* also a last line without a line feed, on Linux too (the comment of      *)
(* spawn_log_consumer_task; docs/TESTCONTAINERS.md:147 says of Linux that  *)
(* it is discarded, which it is not).  Where a macOS task met the end      *)
(* of the file within a line it delivers that line in several frames       *)
(* (Final is returned for the present end of the file), but no letter of a *)
(* line within the limit is lost, repeated or reordered.                   *)
LinesFaithful ==
  reading \in {"linux", "macos"} =>
    LET done == SubSeq(text, 1, at - Len(hold))
        all  == AllLinesOf(text)
        pending == line # <<>> \/ truncated.present
    IN  IF ~paused
        THEN frames = IF done = text /\ ~pending THEN all ELSE LinesOf(done)
        ELSE (\A i \in DOMAIN all : Len(all[i]) < MAX_LINE_LENGTH)
             => OnlyLetters(Flat(frames) \o line) = OnlyLetters(done)

(* However the log is cut into pieces, the wait has counted every          *)
(* occurrence of the needle in what it read exactly once, overlapping ones *)
(* and ones over a cut included, and keeps the last bytes it read for the  *)
(* diagnosis (StreamMatcher::feed, CollectedLogs::push).                   *)
MatchesCounted ==
  reading = "wait" =>
    /\ count = Occurrences(SubSeq(text, 1, at), pattern)
    /\ collected = Tail_(SubSeq(text, 1, at), MAX_COLLECTED)
=============================================================================
