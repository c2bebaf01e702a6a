------------------------------- MODULE Framing -------------------------------
(***************************************************************************)
(* How a connection's octets are cut into frames (next_complete_frame and  *)
(* parse_ber_length in transport/event_loop.rs), however the peer's writes *)
(* and the reads of the event loop split them, and whether the decoder,    *)
(* which parses the length a second time, sees the same frames.            *)
(***************************************************************************)
EXTENDS Ber

CONSTANTS
    TAG_SEQUENCE,     \* 0x30
    MaxLengthOctets,  \* octets of a long-form length: 4
    MAX_FRAME_SIZE,
    Usize,            \* 1 + usize::MAX
    StreamOctets,     \* octets a peer sends
    MaxStream         \* bound: octets of one connection

\* The frame parser's limits lie within the decoder's, a frame has room for the
\* longest length, and its size fits in a usize.
ASSUME FramingAssumption ==
    /\ TAG_SEQUENCE \in 0..(Base - 1) /\ StreamOctets \subseteq 0..(Base - 1)
    /\ MaxLengthOctets \in 0..DoubleOctets /\ MaxLengthOctets < Half - 1
    /\ MAX_FRAME_SIZE \in Nat /\ MAX_FRAME_SIZE >= MaxLengthOctets + 2
    /\ Usize \in Nat /\ Power(Base, MaxLengthOctets) <= Usize /\ MAX_FRAME_SIZE < Usize
    /\ MaxStream \in Nat

VARIABLES
    stream,    \* octets the peer has written
    received,  \* how many of them the event loop has read
    read_buf,
    frames,    \* the frames handed to dispatch, in order
    phase      \* "reading", "cutting", "closed"

framingVars == <<stream, received, read_buf, frames, phase>>

Incomplete == [outcome |-> "Incomplete"]
Close == [outcome |-> "Close"]
Complete(size) == [outcome |-> "Complete", size |-> size]

\* Faulty variant: an incomplete length field is taken for an invalid one.
ParseBerLength_NoWait(s) ==
    IF s = <<>> THEN Incomplete
    ELSE LET count == s[1] - Half
         IN  IF ~HighBit(s[1]) THEN Taking(s[1], 1)
             ELSE IF count = 0 \/ count > MaxLengthOctets \/ Len(s) < 1 + count THEN Close
             ELSE Taking(FromBeBytes(SubSeq(s, 2, 1 + count)), 1 + count)

\* parse_ber_length, given the octets behind the tag
ParseBerLength(s) ==
    IF s = <<>> THEN Incomplete
    ELSE LET count == s[1] - Half
         IN  IF ~HighBit(s[1]) THEN Taking(s[1], 1)
             ELSE IF count = 0 \/ count > MaxLengthOctets THEN Close
             ELSE IF Len(s) < 1 + count THEN Incomplete
             ELSE Taking(FromBeBytes(SubSeq(s, 2, 1 + count)), 1 + count)

\* Faulty variant: the sum wraps.
TotalFrameSize_Wrapping(lengthOctets, content) == (1 + lengthOctets + content) % Usize

\* total_frame_size: Usize stands for None, the overflow.
TotalFrameSize(lengthOctets, content) ==
    IF 1 + lengthOctets + content >= Usize THEN Usize ELSE 1 + lengthOctets + content

\* Faulty variant: the size limit is only looked at when the frame is there.
NextCompleteFrame_LateLimit(buf) ==
    IF buf = <<>> THEN Incomplete
    ELSE LET length == ParseBerLength(Tail(buf))
         IN  IF buf[1] # TAG_SEQUENCE THEN Close
             ELSE IF "outcome" \in DOMAIN length THEN length
             ELSE LET total == TotalFrameSize(length.used, length.value)
                  IN  IF total >= Usize THEN Close
                      ELSE IF total > Len(buf) THEN Incomplete
                      ELSE IF total > MAX_FRAME_SIZE THEN Close
                      ELSE Complete(total)

\* next_complete_frame: tag, length, limit, completeness, in this order.
NextCompleteFrame(buf) ==
    IF buf = <<>> THEN Incomplete
    ELSE LET length == ParseBerLength(Tail(buf))
         IN  IF buf[1] # TAG_SEQUENCE THEN Close
             ELSE IF "outcome" \in DOMAIN length THEN length
             ELSE LET total == TotalFrameSize(length.used, length.value)
                  IN  IF total >= Usize \/ total > MAX_FRAME_SIZE THEN Close
                      ELSE IF total > Len(buf) THEN Incomplete
                      ELSE Complete(total)

-----------------------------------------------------------------------------
FramingInit ==
    /\ stream = <<>>
    /\ received = 0
    /\ read_buf = <<>>
    /\ frames = <<>>
    /\ phase = "reading"

PeerWrites(octet) ==
    /\ phase = "reading"
    /\ Len(stream) < MaxStream
    /\ stream' = Append(stream, octet)
    /\ UNCHANGED <<received, read_buf, frames, phase>>

\* drain_connection_read_buffer: everything that has arrived.
Drain ==
    /\ phase = "reading"
    /\ received < Len(stream)
    /\ read_buf' = read_buf \o From(stream, received + 1)
    /\ received' = Len(stream)
    /\ phase' = "cutting"
    /\ UNCHANGED <<stream, frames>>

\* Faulty variant: what follows the frame is thrown away.
CutFrame_Clear ==
    /\ phase = "cutting"
    /\ LET next == NextCompleteFrame(read_buf)
       IN  /\ next.outcome = "Complete"
           /\ frames' = Append(frames, SubSeq(read_buf, 1, next.size))
           /\ read_buf' = <<>>
    /\ UNCHANGED <<stream, received, phase>>

\* dispatch_buffered_frames, one frame
CutFrame ==
    /\ phase = "cutting"
    /\ LET next == NextCompleteFrame(read_buf)
       IN  /\ next.outcome = "Complete"
           /\ frames' = Append(frames, SubSeq(read_buf, 1, next.size))
           /\ read_buf' = From(read_buf, next.size + 1)
    /\ UNCHANGED <<stream, received, phase>>

\* No further frame: wait for more, or close.
StopCutting ==
    /\ phase = "cutting"
    /\ LET next == NextCompleteFrame(read_buf)
       IN  /\ next.outcome # "Complete"
           /\ phase' = IF next.outcome = "Close" THEN "closed" ELSE "reading"
    /\ UNCHANGED <<stream, received, read_buf, frames>>

FramingNext == (\E octet \in StreamOctets : PeerWrites(octet)) \/ Drain \/ CutFrame \/ StopCutting

FramingSpec == FramingInit /\ [][FramingNext]_framingVars

-----------------------------------------------------------------------------
(* Properties *)

\* X.690: s is a SEQUENCE with a definite length in short form or in at most
\* MaxLengthOctets octets, and nothing behind it.
IsFrame(s) ==
    /\ Len(s) <= MAX_FRAME_SIZE
    /\ Len(s) >= 2 /\ s[1] = TAG_SEQUENCE
    /\ \/ s[2] < Half /\ Len(s) = 2 + s[2]
       \/ \E k \in 1..MaxLengthOctets :
             /\ s[2] = Half + k /\ Len(s) >= 2 + k
             /\ FromBeBytes(SubSeq(s, 3, 2 + k)) = Len(s) - 2 - k

\* The frames and the buffer are the stream, nothing lost or doubled; each
\* frame is one, and between events no complete frame is left: since no frame
\* is a prefix of another, the frames do not depend on how the stream was cut.
FramesAreTheStream ==
    /\ FlattenSeq(frames) \o read_buf = SubSeq(stream, 1, received)
    /\ \A i \in DOMAIN frames : IsFrame(frames[i])
    /\ phase = "reading" => \A p \in Prefixes(read_buf) : ~IsFrame(p)

\* Between events the buffer is smaller than one frame: a peer that announces
\* more is closed at once, not when it has sent it (REQ-0117).
BufferBounded == phase = "reading" => Len(read_buf) < MAX_FRAME_SIZE

\* The framing closes a connection only when its octets cannot become a frame
\* any more, whatever the peer would have sent next.  Closing on a failed write
\* (event_loop.rs:723-730), which may give up frames, is EventLoop's WriteFails.
NoFrameGivenUp ==
    phase = "closed" =>
        \A more \in UNION {[1..n -> StreamOctets] : n \in 0..3} : ~IsFrame(read_buf \o more)

\* The decoder reads the length of a frame again, with other limits: it finds
\* the same content, and no trailing octets (read_tlv, parse_ber_length).
ParsersAgree ==
    \A i \in DOMAIN frames :
        LET tlv == ReadTlv(frames[i]) IN tlv.ok /\ tlv.used = Len(frames[i])
=============================================================================
