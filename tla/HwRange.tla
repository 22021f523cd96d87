------------------------------- MODULE HwRange -------------------------------
(***************************************************************************)
(* The range of hardware accelerators of codec/hwaccel.hpp: an iterator    *)
(* asks FFmpeg for the type after the one it is at, and the end is the     *)
(* type "none".  FFmpeg starts again at the first type when it is asked    *)
(* for the one after "none".                                               *)
(***************************************************************************)
EXTENDS Integers, Sequences, SequencesExt

CONSTANTS
    DeviceType,     \* the types FFmpeg knows, in the order of their numbers
    HwNone          \* AV_HWDEVICE_TYPE_NONE

ASSUME HwRangeAssumption ==
    /\ DeviceType \in Seq(Range(DeviceType)) /\ HwNone \notin Range(DeviceType)
    /\ \A i, j \in DOMAIN DeviceType : DeviceType[i] = DeviceType[j] => i = j

VARIABLES
    built,      \* the types this build of FFmpeg supports
    m_type,     \* where the iterator is
    copied,     \* the iterator postfix ++ returned last, HwNone before
    visited     \* the types * gave, in their order

hwVars == <<built, m_type, copied, visited>>

\* The number of a type
Place(type) == CHOOSE i \in DOMAIN DeviceType : DeviceType[i] = type

\* av_hwdevice_iterate_types(prev)
Following(prev) ==
    LET from == IF prev = HwNone THEN 0 ELSE Place(prev)
        rest == {i \in DOMAIN DeviceType : i > from /\ DeviceType[i] \in built}
    IN IF rest = {} THEN HwNone ELSE DeviceType[CHOOSE i \in rest : \A j \in rest : i <= j]

begin == Following(HwNone)

HwRangeInit ==
    /\ built \in SUBSET Range(DeviceType)
    /\ m_type = begin /\ copied = HwNone /\ visited = <<>>

\* operator== with the default sentinel
AtEnd(type) == type = HwNone

\* for (auto meta : range): *it, then ++it
Increment ==
    /\ ~AtEnd(m_type)
    /\ visited' = Append(visited, m_type)
    /\ m_type' = Following(m_type)
    /\ UNCHANGED <<built, copied>>

OldMutant == Following(m_type)
\* The copy that it++ takes before it goes on
Old == m_type

\* *it++
PostIncrement ==
    /\ ~AtEnd(m_type)
    /\ copied' = Old
    /\ visited' = Append(visited, Old)
    /\ m_type' = Following(m_type)
    /\ UNCHANGED built

HwRangeNext == Increment \/ PostIncrement

HwRangeSpec == HwRangeInit /\ [][HwRangeNext]_hwVars

-----------------------------------------------------------------------------
(* Properties *)

\* A loop over the range, with either increment, meets every accelerator of this
\* build once, in order, and no accelerator that is not there: what was visited
\* is everything that comes before the iterator, in rising order.
VisitsEachOnce ==
    /\ Range(visited) = {t \in built : AtEnd(m_type) \/ Place(t) < Place(m_type)}
    /\ ~AtEnd(m_type) => m_type \in built
    /\ \A i, j \in DOMAIN visited : i < j => Place(visited[i]) < Place(visited[j])
=============================================================================
