----------------------------- MODULE MCResources -----------------------------
(***************************************************************************)
(* Instances of Handles, FileIO, Demux, Decoding, Symbols and HwRange for  *)
(* TLC: a behaviour is about objects that own resources, one open file,    *)
(* demuxers and their callbacks, a decoding loop, a library, or a loop     *)
(* over the hardware accelerators.                                         *)
(***************************************************************************)
EXTENDS Handles, FileIO, Demux, Decoding, Symbols, HwRange

CONSTANTS o1, o2, o3, r1, r2, r3, p1, p2, x, y, d1, d2, c1, c2, i1, i2, video, audio, s1, s2, s3, v1, v2, v3

VARIABLE subject

vars == <<handleVars, fileVars, demuxVars, decodingVars, symbolVars, hwVars, subject>>

MCClasses == {File, DynamicLibrary, Tmpdir, Packet, Frame, Hwaccel}

\* Of three symbols a library defines one with an address and one with a null
\* value, and lacks the third
MCDefines == [l \in {r1} |-> {s1}]
MCNulls == [l \in {r1} |-> {s2}]

MCDevices == <<v1, v2, v3>>

Init ==
    /\ HandlesInit /\ FileInit /\ DemuxInit /\ DecodingInit /\ SymbolsInit /\ HwRangeInit
    /\ opaque = [i \in Io |-> d1]
    /\ subject \in {"handles", "file", "demux", "decoding", "symbols", "hwaccels"}
    /\ subject # "handles" => class = File
    /\ subject # "file" => contents = <<>>
    /\ subject # "decoding" => file = <<>> /\ loop = "decode_image" /\ delay = 0
    /\ subject # "hwaccels" => built = {}

Others(name) ==
    /\ subject = name
    /\ UNCHANGED subject
    /\ name # "handles" => UNCHANGED handleVars
    /\ name # "file" => UNCHANGED fileVars
    /\ name # "demux" => UNCHANGED demuxVars
    /\ name # "decoding" => UNCHANGED decodingVars
    /\ name # "symbols" => UNCHANGED symbolVars
    /\ name # "hwaccels" => UNCHANGED hwVars

Next ==
    \/ Others("handles") /\ HandlesNext
    \/ Others("file") /\ FileNext
    \/ Others("demux") /\ DemuxNext
    \/ Others("decoding") /\ DecodingNext
    \/ Others("symbols") /\ SymbolsNext
    \/ Others("hwaccels") /\ HwRangeNext

Spec == Init /\ [][Next]_vars
=============================================================================
