------------------------------- MODULE FileIO -------------------------------
(***************************************************************************)
(* upp::fs::file: seeking, reading and writing one open file, as lib/file  *)
(* does it.  read_bin and read_text are four system calls and an           *)
(* allocation; other processes may write to the file or truncate it in     *)
(* between.                                                                *)
(***************************************************************************)
EXTENDS Integers, Sequences, SequencesExt

CONSTANTS
    Byte,       \* the bytes written to the file
    Zero,       \* the byte of holes and of fresh buffers
    MaxLen,     \* bound on the length of the file and on the offset
    Disturbed,  \* TRUE: another process changes the file during a call
    ShortReads  \* TRUE: read may return fewer bytes than there are

ASSUME FileAssumption ==
    /\ Zero \notin Byte /\ MaxLen \in Nat
    /\ Disturbed \in BOOLEAN /\ ShortReads \in BOOLEAN

VARIABLES
    contents,   \* of the file
    offset,     \* of the open file description
    step,       \* where read_bin is; "idle": outside, "failed": read() threw
    curr, size, \* its variables
    result,     \* what it returned last
    quiet       \* history: nobody changed the file since the call began

fileVars == <<contents, offset, step, curr, size, result, quiet>>

FileInit ==
    /\ contents \in BoundedSeq(Byte, MaxLen)
    /\ offset = 0
    /\ step = "idle"
    /\ curr = 0 /\ size = 0
    /\ result = <<>>
    /\ quiet = TRUE

-----------------------------------------------------------------------------
(* The system calls *)

Length == Len(contents)

\* lseek fails, and leaves the offset alone, below 0
Seekable(to) == to \in 0 .. MaxLen

SeekTo(to) ==
    /\ offset' = IF Seekable(to) THEN to ELSE offset
    /\ UNCHANGED contents

SeekBegin(n) == SeekTo(n)
SeekCurrent(n) == SeekTo(offset + n)
SeekEnd(n) == SeekTo(Length + n)

\* The bytes a read of n may deliver
Readable(n) ==
    LET there == IF offset < Length
                 THEN SubSeq(contents, offset + 1, IF offset + n < Length THEN offset + n ELSE Length)
                 ELSE <<>>
    IN {there} \union IF ShortReads THEN Prefixes(there) \ {<<>>} ELSE {}

\* read(): whatever is there, and the offset moves behind it
Read(n) ==
    /\ \E got \in Readable(n) : offset' = offset + Len(got)
    /\ UNCHANGED contents

\* write(): some of the data at the offset, behind a hole if that is past the end
Write(data) ==
    \E n \in 1 .. Len(data) :
        /\ offset + n <= MaxLen
        /\ contents' = [i \in 1 .. (IF offset + n > Length THEN offset + n ELSE Length) |->
                            IF i \in offset + 1 .. offset + n THEN data[i - offset]
                            ELSE IF i <= Length THEN contents[i] ELSE Zero]
        /\ offset' = offset + n

-----------------------------------------------------------------------------
(* read_bin and read_text *)

Call ==
    /\ step = "idle"
    /\ curr' = offset
    /\ quiet' = TRUE
    /\ step' = "seek_end"
    /\ UNCHANGED <<contents, offset, size, result>>

RemainingMutant == Length
\* Negative if the offset is past the end
Remaining == Length - curr

FindSize ==
    /\ step = "seek_end"
    /\ SeekEnd(0)
    /\ size' = Remaining
    /\ step' = "seek_begin"
    /\ UNCHANGED <<curr, result, quiet>>

GoBackMutant == size >= 0
\* Whether the offset is restored before the buffer is allocated
GoBack == TRUE

Restore ==
    /\ step = "seek_begin"
    /\ IF GoBack THEN SeekBegin(curr) ELSE UNCHANGED <<contents, offset>>
    /\ step' = "allocate"
    /\ UNCHANGED <<curr, size, result, quiet>>

\* The negative size is a huge one as size_t: the container throws
Allocate ==
    /\ step = "allocate"
    /\ IF size < 0
       THEN step' = "threw" /\ UNCHANGED result
       ELSE step' = "read" /\ result' = [i \in 1 .. size |-> Zero]
    /\ UNCHANGED <<contents, offset, curr, size, quiet>>

DeliveredMutant(got) == got
\* The buffer keeps its size, however few bytes were read into it: the exception
\* object of lines 71 and 81 is constructed and not thrown
Delivered(got) == got \o [i \in 1 .. size - Len(got) |-> Zero]

\* read() delivers, or fails and throws errno: the vector is gone, and where the
\* offset is then is left unspecified
Fill ==
    /\ step = "read"
    /\ \/ \E got \in Readable(size) :
             /\ result' = Delivered(got)
             /\ offset' = offset + Len(got)
             /\ step' = "returned"
       \/ \E n \in 0 .. size :
             /\ offset' = offset + n
             /\ Seekable(offset')
             /\ result' = <<>>
             /\ step' = "failed"
    /\ UNCHANGED <<contents, curr, size, quiet>>

Done ==
    /\ step \in {"returned", "threw", "failed"}
    /\ step' = "idle"
    /\ result' = <<>>
    /\ UNCHANGED <<contents, offset, curr, size, quiet>>

Plain ==
    /\ step = "idle"
    /\ \/ \E n \in 0 .. MaxLen : SeekBegin(n) \/ SeekEnd(-n) \/ SeekCurrent(n) \/ SeekCurrent(-n)
       \/ \E n \in 1 .. MaxLen : Read(n)
       \/ \E data \in BoundedSeq(Byte, 2) \ {<<>>} : Write(data)
    /\ UNCHANGED <<step, curr, size, result, quiet>>

\* Another process appends to the file or truncates it
Disturb ==
    /\ step # "idle" => Disturbed
    /\ \/ \E b \in Byte : Length < MaxLen /\ contents' = Append(contents, b)
       \/ Length > 0 /\ contents' = Front(contents)
    /\ quiet' = FALSE
    /\ UNCHANGED <<offset, step, curr, size, result>>

FileNext == Call \/ FindSize \/ Restore \/ Allocate \/ Fill \/ Done \/ Plain \/ Disturb

FileSpec == FileInit /\ [][FileNext]_fileVars

-----------------------------------------------------------------------------
(* Properties *)

\* Types; while the buffer exists it has the size that was computed.
FileTypeOK ==
    /\ contents \in Seq(Byte \union {Zero})
    /\ offset \in 0 .. MaxLen /\ curr \in 0 .. MaxLen
    /\ size \in -MaxLen .. MaxLen
    /\ step \in {"read", "returned"} => Len(result) = size

\* If nobody else changes the file during the call, a read_bin that returns has
\* everything from the offset to the end, and leaves the offset at the end.
ReadsWholeTail ==
    step = "returned" /\ quiet =>
        /\ result = SubSeq(contents, curr + 1, Length)
        /\ offset = Length

\* Whatever others do to the file meanwhile: the bytes behind the offset a call
\* leaves, which nobody read, are those of the fresh buffer.
PaddedOnly == step = "returned" => \A i \in 1 .. size : offset < curr + i => result[i] = Zero

\* A call that throws before it reads has not moved the offset, so that the caller
\* may seek and try again: the file shrank below it, or it was past the end already.
OffsetSurvives == step = "threw" => offset = curr

\* What a caller of read_bin may rely on.  An undisturbed call that returns has the
\* whole rest of the file from the offset; of a disturbed one, what lies behind the
\* offset it leaves is zeros; a call that throws before it reads leaves the offset
\* where it was.  (After a read() that fails nothing is known of the offset.)
ReadsOrRestores == FileTypeOK /\ ReadsWholeTail /\ PaddedOnly /\ OffsetSurvives
=============================================================================
