------------------------------- MODULE Symbols -------------------------------
(***************************************************************************)
(* Loading a library and looking up its symbols (linux::dynamic_library):  *)
(* a failure is told by dlerror(), which gives the message of the last     *)
(* failure in this thread since it was called last, whoever failed.        *)
(***************************************************************************)
CONSTANTS
    Library,    \* the libraries there are
    Symbol,     \* the names looked up
    Missing,    \* a path where no library is
    NoMessage,  \* a null pointer instead of a message
    Elsewhere,  \* what another part of the thread's program fails to load
    Defines,    \* Defines[l]: the symbols of l that have an address
    IsNull      \* IsNull[l]: the symbols of l whose value is a null pointer

About(asked) == <<"about", asked>>

ASSUME SymbolsAssumption ==
    /\ Missing \notin Library
    /\ Defines \in [Library -> SUBSET Symbol] /\ IsNull \in [Library -> SUBSET Symbol]

ASSUME AboutIsSomething ==
    \A asked \in Library \union Symbol \union {Missing, Elsewhere} : About(asked) # NoMessage

VARIABLES
    library,    \* m_handle
    dlmessage,  \* what dlerror() would return
    outcome     \* what the last call returned or threw

symbolVars == <<library, dlmessage, outcome>>

-----------------------------------------------------------------------------
Returned(asked) == [kind |-> "returned", asked |-> asked, what |-> asked]
Threw(asked, message) == [kind |-> "threw", asked |-> asked, what |-> message]

\* std::runtime_error constructed from a null pointer: the program is lost
Undefined(asked) == [kind |-> "undefined", asked |-> asked, what |-> NoMessage]

\* throw std::runtime_error(dlerror()), when dlerror() returns message
Thrown(asked, message) ==
    IF message = NoMessage THEN Undefined(asked) ELSE Threw(asked, message)

\* dlopen and dlsym leave a message when they fail; when they do not, that of an
\* earlier failure may be kept or dropped
AfterDlopen(path, before) == IF path \in Library THEN {before, NoMessage} ELSE {About(path)}

Found(name) == name \in Defines[library] \union IsNull[library]
AfterDlsym(name, before) == IF Found(name) THEN {before, NoMessage} ELSE {About(name)}

SymbolsInit ==
    /\ library = Missing
    /\ dlmessage = NoMessage
    /\ outcome = Returned(Missing)

\* A failure of another part of the thread's program, which does not ask why
Distract ==
    /\ dlmessage' = About(Elsewhere)
    /\ UNCHANGED <<library, outcome>>

\* dlopen and the constructor of dynamic_library; dlerror() takes the message away
Load(path) ==
    /\ library = Missing
    /\ \E message \in AfterDlopen(path, dlmessage) :
          IF path \in Library
            THEN /\ library' = path
                 /\ outcome' = Returned(path)
                 /\ dlmessage' = message
            ELSE /\ outcome' = Thrown(path, message)
                 /\ dlmessage' = NoMessage
                 /\ UNCHANGED library

AfterDlerrorMutant(before) == before
\* The first dlerror() of raw_symbol, whose result is dropped
AfterDlerror(before) == NoMessage

raw_symbol(name) ==
    /\ library # Missing
    /\ \E message \in AfterDlsym(name, AfterDlerror(dlmessage)) :
          IF name \in Defines[library]
            THEN outcome' = Returned(name) /\ dlmessage' = message
            ELSE outcome' = Thrown(name, message) /\ dlmessage' = NoMessage
    /\ UNCHANGED library

\* Nothing is said of the program after an undefined call
SymbolsNext ==
    /\ outcome.kind # "undefined"
    /\ \/ Distract
       \/ \E path \in Library \union {Missing} : Load(path)
       \/ \E name \in Symbol : raw_symbol(name)

SymbolsSpec == SymbolsInit /\ [][SymbolsNext]_symbolVars

-----------------------------------------------------------------------------
(* Properties *)

\* dlerror() has the message of whatever failed last in the thread, and none for a
\* symbol that is found and whose value is null.  Still the message of an exception
\* of dynamic_library is about the path or the symbol this call was asked for, and
\* a message is only ever lacking for such a symbol.
ErrorIsItsOwn ==
    /\ outcome.kind = "threw" => outcome.what = About(outcome.asked)
    /\ outcome.kind = "undefined" => library # Missing /\ outcome.asked \in IsNull[library]
=============================================================================
