------------------------------- MODULE Handles -------------------------------
(***************************************************************************)
(* The classes of upp that own a resource of the operating system or of    *)
(* FFmpeg: fs::file (and the pipe ends derived from it), fs::tmpdir,       *)
(* linux::dynamic_library, codec::packet, codec::frame, codec::hwaccel and *)
(* codec::decoder.  They differ in what a constructor acquires, what a     *)
(* copy is and what an assignment does; a record says so for each class,   *)
(* and one behaviour is about objects of one class.                        *)
(***************************************************************************)
EXTENDS Integers, FiniteSets

CONSTANTS
    Obj,        \* the objects
    Res,        \* the resources: descriptors, directories, allocations
    Pic,        \* the reference counted pictures frames show
    Null,       \* a null handle, a frame that shows nothing
    NoObject,   \* the handle of an object that does not exist
    Class,      \* the classes explored
    Acquired,   \* whether an acquisition may succeed (TRUE) or fail (FALSE)
    Referenced, \* whether av_frame_ref may succeed or fail in dup_frame
    Overwrites, \* TRUE: a tmpdir may be move assigned while it has a directory
    SelfAssigns \* TRUE: any object may be assigned to itself

ASSUME HandlesAssumption ==
    /\ {Null, NoObject} \intersect Res = {} /\ Null # NoObject /\ Null \notin Pic
    /\ IsFiniteSet(Obj) /\ IsFiniteSet(Res)
    /\ Acquired \subseteq BOOLEAN /\ Referenced \subseteq BOOLEAN
    /\ Overwrites \in BOOLEAN /\ SelfAssigns \in BOOLEAN

VARIABLES
    class,      \* the class of the objects
    handle,     \* m_handle, m_pkt, m_ctx, m_ref, m_path of each object
    held,       \* how many references to each resource are open
    given,      \* the descriptors release() has handed to the program
    picture,    \* what each frame shows
    users       \* the reference count of each picture

handleVars == <<class, handle, held, given, picture, users>>

-----------------------------------------------------------------------------
(* The classes.  null_default: the default constructor acquires nothing.   *)
(* throws: a failed acquisition does.  replaces: a move assignment         *)
(* destroys the target first.  resets: the destructor leaves a null handle *)
(* behind.  copies: what a copy does.                                      *)

File == [null_default |-> TRUE, throws |-> TRUE, replaces |-> TRUE, resets |-> FALSE,
         copies |-> "no", releases |-> TRUE]

DynamicLibrary == [File EXCEPT !.releases = FALSE]

Tmpdir == [null_default |-> FALSE, throws |-> TRUE, replaces |-> FALSE, resets |-> TRUE,
           copies |-> "no", releases |-> FALSE]

\* av_packet_alloc and avcodec_alloc_context3 are not checked for null
Packet == [null_default |-> FALSE, throws |-> FALSE, replaces |-> TRUE, resets |-> TRUE,
           copies |-> "no", releases |-> FALSE]

Decoder == Packet

Frame == [Packet EXCEPT !.throws = TRUE, !.copies = "duplicates"]

Hwaccel == [Frame EXCEPT !.null_default = TRUE, !.copies = "shares"]

HandlesInit ==
    /\ class \in Class
    /\ handle = [o \in Obj |-> NoObject]
    /\ held = [r \in Res |-> 0]
    /\ given = {}
    /\ picture = [r \in Res |-> Null]
    /\ users = [p \in Pic |-> 0]

-----------------------------------------------------------------------------
Exists(o) == handle[o] # NoObject
Owns(o) == handle[o] \in Res
Free == {r \in Res : held[r] = 0}

\* held, after object o dropped its reference and another one was taken on gained
Counts(o, gained) ==
    [r \in Res |-> held[r] - (IF handle[o] = r THEN 1 ELSE 0)
                           + (IF r \in gained THEN 1 ELSE 0)]

\* The picture frame r showed is unreferenced, p is referenced in its place
Show(r, p) ==
    /\ picture' = [picture EXCEPT ![r] = p]
    /\ users' = [q \in Pic |-> users[q] - (IF picture[r] = q THEN 1 ELSE 0)
                                        + (IF p = q THEN 1 ELSE 0)]

\* The last reference to what o owns goes, and what it shows with it
Unshow(o) ==
    IF Owns(o) /\ class = Frame THEN Show(handle[o], Null) ELSE UNCHANGED <<picture, users>>

DefaultConstruct(o) ==
    /\ ~Exists(o)
    /\ class.null_default
    /\ handle' = [handle EXCEPT ![o] = Null]
    /\ UNCHANGED <<class, held, given, picture, users>>

\* The constructors that open, create or allocate
Acquire(o) ==
    /\ ~Exists(o)
    /\ \E r \in Free, ok \in Acquired :
          /\ handle' = [handle EXCEPT ![o] = IF ok THEN r ELSE IF class.throws THEN @ ELSE Null]
          /\ held' = IF ok THEN Counts(o, {r}) ELSE held
    /\ UNCHANGED <<class, given, picture, users>>

\* pipe(): two descriptors or none
Pipe(o, other) ==
    /\ class = File /\ o # other
    /\ ~Exists(o) /\ ~Exists(other)
    /\ \E r, w \in Free :
          /\ r # w
          /\ handle' = [handle EXCEPT ![o] = r, ![other] = w]
          /\ held' = Counts(o, {r, w})
    /\ UNCHANGED <<class, given, picture, users>>

ResetMutant(from) == handle[from]
\* What std::exchange and the move of a path leave behind
Reset(from) == Null

MoveConstruct(o, from) ==
    /\ ~Exists(o) /\ Exists(from)
    /\ handle' = [handle EXCEPT ![o] = handle[from], ![from] = Reset(from)]
    /\ UNCHANGED <<class, held, given, picture, users>>

\* destroy_at and construct_at; the assignment of a path drops the old one.
\* An object assigned to itself is destroyed first, and keeps a closed handle
\* unless its destructor resets it.
MoveAssign(o, from) ==
    /\ Exists(o) /\ Exists(from)
    /\ o # from \/ class.resets \/ SelfAssigns
    /\ class.replaces \/ ~Owns(o) \/ o = from \/ Overwrites
    /\ IF o = from
       THEN handle' = [handle EXCEPT ![o] = IF class.replaces /\ class.resets THEN Null ELSE @]
       ELSE handle' = [handle EXCEPT ![o] = handle[from], ![from] = Reset(from)]
    /\ IF class.replaces
       THEN held' = Counts(o, {}) /\ Unshow(o)
       ELSE UNCHANGED <<held, picture, users>>
    /\ UNCHANGED <<class, given>>

-----------------------------------------------------------------------------
(* Copies *)

SharedMutant(o, from) == held
\* av_buffer_ref: one more reference to the same device
Shared(o, from) == Counts(o, {handle[from]} \intersect Res)

\* hwaccel: the copy constructor, and the copy assignment, which destroys first
\* and is left with a null handle if the copy fails
ShareTo(o, from) ==
    /\ class.copies = "shares"
    /\ Exists(from)
    /\ \E ok \in Acquired :
          IF o = from \/ ~ok
          THEN /\ handle' = [handle EXCEPT ![o] = IF Exists(o) THEN Null ELSE @]
               /\ held' = Counts(o, {})
          ELSE /\ handle' = [handle EXCEPT ![o] = handle[from]]
               /\ held' = Shared(o, from)
    /\ UNCHANGED <<class, given, picture, users>>

\* dup_frame; if av_frame_ref fails, the new AVFrame is lost.  It fails for a
\* frame that shows nothing.
DuplicateTo(o, from) ==
    /\ class.copies = "duplicates"
    /\ ~Exists(o) /\ Owns(from)
    /\ \E r \in Free, ok \in Referenced :
          /\ ok => picture[handle[from]] # Null
          /\ held' = Counts(o, {r})
          /\ handle' = [handle EXCEPT ![o] = IF ok THEN r ELSE @]
          /\ IF ok THEN Show(r, picture[handle[from]]) ELSE UNCHANGED <<picture, users>>
    /\ UNCHANGED <<class, given>>

DroppedMutant(r) == Null
\* What av_frame_unref drops before the target is referenced anew
Dropped(r) == picture[r]

\* frame::operator=(const frame&): the AVFrame stays, its picture goes, and that
\* of the other is referenced in its place.  That fails for want of memory and for
\* a frame that shows nothing, which one assigned to itself no longer does; then
\* the assignment throws and the target shows nothing.
\* Both must own an AVFrame, which one moved from does not.
CopyAssign(o, from) ==
    /\ class.copies = "duplicates"
    /\ Owns(o) /\ Owns(from)
    /\ LET r == handle[o]
       IN \E p \in {Null} \union IF o = from THEN {} ELSE {picture[handle[from]]} :
             /\ picture' = [picture EXCEPT ![r] = p]
             /\ users' = [q \in Pic |-> users[q] - (IF Dropped(r) = q THEN 1 ELSE 0)
                                                 + (IF p = q THEN 1 ELSE 0)]
    /\ UNCHANGED <<class, handle, held, given>>

\* The decoder lets a frame of its own show a picture nobody uses
Receive(o, p) ==
    /\ class = Frame
    /\ Owns(o) /\ users[p] = 0
    /\ Show(handle[o], p)
    /\ UNCHANGED <<class, handle, held, given>>

-----------------------------------------------------------------------------
\* file::release, and the constructor that takes a descriptor over
Release(o) ==
    /\ class.releases /\ Owns(o)
    /\ handle' = [handle EXCEPT ![o] = Null]
    /\ given' = given \union {handle[o]}
    /\ UNCHANGED <<class, held, picture, users>>

Adopt(o, r) ==
    /\ class = File
    /\ ~Exists(o) /\ r \in given
    /\ handle' = [handle EXCEPT ![o] = r]
    /\ given' = given \ {r}
    /\ UNCHANGED <<class, held, picture, users>>

Destroy(o) ==
    /\ Exists(o)
    /\ held' = Counts(o, {})
    /\ Unshow(o)
    /\ handle' = [handle EXCEPT ![o] = NoObject]
    /\ UNCHANGED <<class, given>>

HandlesNext ==
    \/ \E o \in Obj : DefaultConstruct(o) \/ Acquire(o) \/ Release(o) \/ Destroy(o)
    \/ \E o, from \in Obj :
          \/ Pipe(o, from) \/ MoveConstruct(o, from) \/ MoveAssign(o, from)
          \/ ShareTo(o, from) \/ DuplicateTo(o, from) \/ CopyAssign(o, from)
    \/ \E o \in Obj, r \in Res : Adopt(o, r)
    \/ \E o \in Obj, p \in Pic : Receive(o, p)

HandlesSpec == HandlesInit /\ [][HandlesNext]_handleVars

-----------------------------------------------------------------------------
(* Properties *)

\* Types; nothing is closed, freed or unreferenced more often than it was
\* opened.
HandlesTypeOK ==
    /\ handle \in [Obj -> Res \union {Null, NoObject}]
    /\ held \in [Res -> Nat]
    /\ given \subseteq Res
    /\ picture \in [Res -> Pic \union {Null}]
    /\ users \in [Pic -> Nat]

\* Whatever is moved, copied, assigned, released and destroyed in whatever
\* order: a resource has as many open references as there are objects (and
\* released descriptors) that will close it.  So nothing leaks, nothing is
\* closed twice, and no handle refers to a resource that was closed and whose
\* number the system has given to somebody else.
OwnedByHolders ==
    \A r \in Res :
        held[r] = Cardinality({o \in Obj : handle[o] = r}) + (IF r \in given THEN 1 ELSE 0)

\* A picture returns to the decoder's pool when the last frame that shows it is
\* destroyed, moved over or assigned to, and not before.
PicturesCounted ==
    \A p \in Pic : users[p] = Cardinality({r \in Res : held[r] > 0 /\ picture[r] = p})

\* Every resource, and every picture, has exactly the references that will be
\* given back: for each of the classes, after any sequence of their operations.
HandlesAreSound == HandlesTypeOK /\ OwnedByHolders /\ PicturesCounted
=============================================================================
