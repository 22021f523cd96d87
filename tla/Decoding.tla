------------------------------ MODULE Decoding ------------------------------
(***************************************************************************)
(* The two loops over a demuxer and a decoder: decode_image of util.cpp,   *)
(* which returns the first frame, and the player of void_player.cpp, which *)
(* filters the packets of one stream and takes every frame.  The codec is  *)
(* FFmpeg: it keeps the last Delay frames back until it is drained, and    *)
(* may refuse a packet (EAGAIN) while frames are waiting.                  *)
(***************************************************************************)
EXTENDS Integers, Sequences, SequencesExt, FiniteSetsExt

CONSTANTS
    Stream,     \* the streams of a file
    Video,      \* the stream best_video_stream finds
    NoStream,   \* the initial m_stream_idx
    MaxPackets, \* bound on the packets of a file
    Delays,     \* the delays of codecs
    PerPacket,  \* how many frames a packet may hold
    Assertions, \* TRUE: built without NDEBUG
    MixedImages \* TRUE: decode_image gets files with several streams

ASSUME DecodingAssumption ==
    /\ Video \in Stream /\ NoStream \notin Stream
    /\ MaxPackets \in Nat /\ Delays \subseteq Nat /\ PerPacket \subseteq Nat
    /\ Assertions \in BOOLEAN /\ MixedImages \in BOOLEAN

VARIABLES
    loop,       \* "decode_image" or "void_player"
    file,       \* the packets of the file
    delay,      \* of the codec
    next,       \* how many packets were read
    inside,     \* the frames in the codec, by the packet they came with
    m_stream_idx, \* of the decoder
    out,        \* the frames that came out
    pc          \* what the loop does next, or how it ended

decodingVars == <<loop, file, delay, next, inside, m_stream_idx, out, pc>>

AVPacket == [stream : Stream, frames : PerPacket]

DecodingInit ==
    /\ loop \in {"decode_image", "void_player"}
    /\ file \in BoundedSeq(AVPacket, MaxPackets)
    /\ loop = "decode_image" =>
          MixedImages \/ \A i \in DOMAIN file : file[i].stream = Video
    /\ delay \in Delays
    /\ next = 0
    /\ inside = <<>> /\ out = <<>>
    /\ m_stream_idx = NoStream
    /\ pc = "read"

pkt == file[next]

-----------------------------------------------------------------------------
(* The codec *)

Waiting == Len(inside) > delay

\* Frames come out one by one, the oldest first
FramesOf(i) == [k \in 1 .. file[i].frames |-> i]

-----------------------------------------------------------------------------
(* The loops *)

FilteredMutant(stream) == FALSE
\* void_player skips the packets of other streams
Filtered(stream) == loop = "void_player" /\ stream # Video

\* demux >> pkt
ReadPacket ==
    /\ pc = "read"
    /\ IF next = Len(file)
       THEN next' = next /\ pc' = "ended"
       ELSE /\ next' = next + 1
            /\ pc' = IF Filtered(file[next + 1].stream) THEN "read" ELSE "send"
    /\ UNCHANGED <<loop, file, delay, inside, m_stream_idx, out>>

AfterSendMutant == "read"
AfterSend == "receive"

\* decoder << pkt: the assertion, then avcodec_send_packet
SendPacket ==
    /\ pc = "send"
    /\ m_stream_idx' = IF m_stream_idx = NoStream THEN pkt.stream ELSE m_stream_idx
    /\ \E taken \in BOOLEAN :
          /\ taken \/ Waiting
          /\ pc' = IF Assertions /\ m_stream_idx' # pkt.stream THEN "aborted"
                   ELSE IF taken THEN AfterSend ELSE "refused"
          /\ inside' = IF pc' = AfterSend THEN inside \o FramesOf(next) ELSE inside
    /\ UNCHANGED <<loop, file, delay, next, out>>

AfterFrameMutant == IF loop = "decode_image" THEN "returned" ELSE "read"
AfterFrame == IF loop = "decode_image" THEN "returned" ELSE "receive"

WithoutFrameMutant == IF loop = "decode_image" THEN "ended" ELSE "read"
WithoutFrame == "read"

\* decoder >> frm: the frame goes through m_internal to frm; EAGAIN is false
ReceiveFrame ==
    /\ pc = "receive"
    /\ IF Waiting
       THEN /\ out' = Append(out, Head(inside))
            /\ inside' = Tail(inside)
            /\ pc' = AfterFrame
       ELSE /\ pc' = WithoutFrame
            /\ UNCHANGED <<out, inside>>
    /\ UNCHANGED <<loop, file, delay, next, m_stream_idx>>

DecodingNext == ReadPacket \/ SendPacket \/ ReceiveFrame

DecodingSpec == DecodingInit /\ [][DecodingNext]_decodingVars

-----------------------------------------------------------------------------
(* Properties *)

\* The frames of the video stream, in the order of their packets
VideoFrames ==
    FlattenSeq([i \in DOMAIN file |-> IF file[i].stream = Video THEN FramesOf(i) ELSE <<>>])

\* Types; the decoder takes packets of one stream, as its assertion demands.
DecodingTypeOK ==
    /\ next \in 0 .. Len(file)
    /\ m_stream_idx \in {NoStream, Video}
    /\ pc \in {"read", "send", "receive", "returned", "ended", "refused"}

\* avcodec_send_packet never answers EAGAIN, which the decoder would throw:
\* each loop has taken every waiting frame before it sends the next packet,
\* also when a packet holds several frames.
NeverRefused == pc # "refused"

\* The player shows the frames of its stream in order and each once; at the end
\* of the file exactly those are missing that the codec still holds back.
EveryFrameOnce ==
    /\ IsPrefix(out, VideoFrames)
    /\ loop = "void_player" /\ pc = "ended" =>
          Len(out) = Max({0, Len(VideoFrames) - delay})

\* decode_image returns the first frame of the file; it gives up only if there
\* are no more frames than the codec holds back.
ImageDecoded ==
    loop = "decode_image" =>
        /\ pc = "returned" => out = <<VideoFrames[1]>>
        /\ pc = "ended" => Len(VideoFrames) <= delay

\* Both loops feed the decoder so that it never refuses a packet, and what comes
\* out is what the file holds, in order, but for what the codec keeps back.
FramesComeOut == DecodingTypeOK /\ NeverRefused /\ EveryFrameOnce /\ ImageDecoded
=============================================================================
