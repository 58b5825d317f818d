----------------------------- MODULE Components -----------------------------
(***************************************************************************)
(* The parts that work by themselves, one beside the other: a behaviour    *)
(* picks one part and stays with it.  Off stands for the variables of the  *)
(* parts that were not picked.                                             *)
(***************************************************************************)
CONSTANTS
    Off,
    Files, Specs, Contents, Absent, MaxHead,                       \* Gate
    Entries, PageSize, MaxChanges,                                 \* Fetch
    Bodies, PeekBytes,                                             \* Transport
    Partitions, MaxOffset, NoBucket, Closed,                       \* MemDB
    Characters, Letters, ShaLen, Namings,                          \* Names
    Repos, Parts, MaxParts, Unset, Invalid                         \* Routing

VARIABLES
    part,
    input, diff, head, call,                                       \* Gate
    listing, page, fetched, aborted, stayed, leaves, changes,      \* Fetch
    response, pos, prefix, rest, peeking, broken, got, ended,      \* Transport
    offsets, readers, writer, at, position,                        \* MemDB
    naming, name,                                                  \* Names
    raw, routes                                                    \* Routing

-----------------------------------------------------------------------------
Gate == INSTANCE Gate
Fetch == INSTANCE Fetch
Transport == INSTANCE Transport
MemDB == INSTANCE MemDB
Names == INSTANCE Names
Routing == INSTANCE Routing

ASSUME GateParameters == Gate!Parameters
ASSUME FetchParameters == Fetch!Parameters
ASSUME TransportParameters == Transport!Parameters
ASSUME MemDBParameters == MemDB!Parameters
ASSUME NamesParameters == Names!Parameters
ASSUME RoutingParameters == Routing!Parameters

-----------------------------------------------------------------------------
GateOff == input = Off /\ diff = Off /\ head = Off /\ call = Off
FetchOff ==
    /\ listing = Off /\ page = Off /\ fetched = Off /\ aborted = Off
    /\ stayed = Off /\ leaves = Off /\ changes = Off
TransportOff ==
    /\ response = Off /\ pos = Off /\ prefix = Off /\ rest = Off
    /\ peeking = Off /\ broken = Off /\ got = Off /\ ended = Off
MemDBOff ==
    /\ offsets = Off /\ readers = Off /\ writer = Off /\ at = Off
    /\ position = Off
NamesOff == naming = Off /\ name = Off
RoutingOff == raw = Off /\ routes = Off

Init ==
    \/ /\ part = "gate" /\ Gate!Init
       /\ FetchOff /\ TransportOff /\ MemDBOff /\ NamesOff /\ RoutingOff
    \/ /\ part = "fetch" /\ Fetch!Init
       /\ GateOff /\ TransportOff /\ MemDBOff /\ NamesOff /\ RoutingOff
    \/ /\ part = "transport" /\ Transport!Init
       /\ GateOff /\ FetchOff /\ MemDBOff /\ NamesOff /\ RoutingOff
    \/ /\ part = "memdb" /\ MemDB!Init
       /\ GateOff /\ FetchOff /\ TransportOff /\ NamesOff /\ RoutingOff
    \/ /\ part = "names" /\ Names!Init
       /\ GateOff /\ FetchOff /\ TransportOff /\ MemDBOff /\ RoutingOff
    \/ /\ part = "routing" /\ Routing!Init
       /\ GateOff /\ FetchOff /\ TransportOff /\ MemDBOff /\ NamesOff

gateVars == <<input, diff, head, call>>
fetchVars == <<listing, page, fetched, aborted, stayed, leaves, changes>>
transportVars == <<response, pos, prefix, rest, peeking, broken, got, ended>>
memVars == <<offsets, readers, writer, at, position>>
nameVars == <<naming, name>>
routingVars == <<raw, routes>>

gateRest == <<fetchVars, transportVars, memVars, nameVars, routingVars>>
fetchRest == <<gateVars, transportVars, memVars, nameVars, routingVars>>
transportRest == <<gateVars, fetchVars, memVars, nameVars, routingVars>>
memRest == <<gateVars, fetchVars, transportVars, nameVars, routingVars>>
nameRest == <<gateVars, fetchVars, transportVars, memVars, routingVars>>
routingRest == <<gateVars, fetchVars, transportVars, memVars, nameVars>>

GateStep == part = "gate" /\ Gate!Next /\ UNCHANGED <<part, gateRest>>
FetchStep == part = "fetch" /\ Fetch!Next /\ UNCHANGED <<part, fetchRest>>
TransportStep == part = "transport" /\ Transport!Next /\ UNCHANGED <<part, transportRest>>
MemDBStep == part = "memdb" /\ MemDB!Next /\ UNCHANGED <<part, memRest>>
NamesStep == part = "names" /\ Names!Next /\ UNCHANGED <<part, nameRest>>
RoutingStep == part = "routing" /\ Routing!Next /\ UNCHANGED <<part, routingRest>>

Next ==
    \/ GateStep \/ FetchStep \/ TransportStep \/ MemDBStep \/ NamesStep
    \/ RoutingStep

vars == <<part, gateVars, gateRest>>

Spec == Init /\ [][Next]_vars

-----------------------------------------------------------------------------
(***************************************************************************)
(* The properties of each part, where that part was picked.                *)
(***************************************************************************)

\* Gate: without an error, the answer is the one of a single moment.
GateAnswersAtOneMoment == part = "gate" => Gate!AnswersAtOneMoment

\* Gate: an error has a failed request or a broken frontmatter behind it.
GateErrorsHaveACause == part = "gate" => Gate!ErrorsHaveACause

\* Fetch: no more entries are missed than have left their places.
FetchMissesBounded == part = "fetch" => Fetch!MissesBounded

\* Transport: the caller of a logged response reads the body that was sent.
TransportSameBody == part = "transport" => Transport!SameBody

\* MemDB: no consumer forgets or repeats what it has stored.
MemDBNothingForgotten == part = "memdb" => MemDB!NothingForgotten

\* MemDB: what a View reads does not change under it.
MemDBViewIsStable == [][part = "memdb" => MemDB!KeepsViews]_vars

\* MemDB: what is left of the store when one looks through its transactions,
\* buckets and locks.  A consumer holds an offset from its load on.
StoreOpen == part = "memdb" => offsets # Closed

StoredOffsets == [p \in Partitions |-> IF part = "memdb" THEN MemDB!Get(p) ELSE 0]

HeldOffsets ==
    [p \in Partitions |->
        IF part = "memdb" /\ at[p] \in {"loaded", "execute", "update", "put", "unlock"}
        THEN {position[p]} ELSE {}]

Offsets == INSTANCE OffsetStore WITH
    open <- StoreOpen, stored <- StoredOffsets, held <- HeldOffsets

\* MemDB: every step of its consumers, of Close, and of transactions that fail
\* or panic is one of OffsetStore, or none.
MemDBImplementsOffsets == Offsets!Spec

\* Names: a slug is clean, however it was cut.
NamesSlugIsClean == part = "names" => Names!SlugIsClean

\* Names: a name keeps to its maximum and keeps its suffix.
NamesFit == part = "names" => Names!NameFits

\* Names: two heads have two files.
NamesTellHeadsApart == part = "names" => Names!HeadsHaveTheirNames

\* Routing: what is appended to a map reroutes nothing.
RoutingRoutesStay == [][part = "routing" => Routing!KeepsRoutes]_vars

\* Routing: a map in use has lost no entry.
RoutingNoRouteLost == part = "routing" => Routing!NoRouteLost
=============================================================================
