-------------------------- MODULE MCObservedPrepare --------------------------
(* Observed calls for TLC: short media lists of every outcome, and single     *)
(* faults in the other stages, for each entry and for tables of several       *)
(* capacities.                                                                *)
EXTENDS ObservedPrepare

CONSTANTS MaxMedia, Entries, Capacities

MCBytes ==
    [owned |-> 1, decoded |-> 7, destination |-> 5, scratch |-> 2,
     video |-> 11, output |-> 3]

Medium(source, plan, decode, resize) ==
    [source |-> source, plan |-> plan, decode |-> decode, resize |-> resize]

Unplanned ==
    { Medium("encoded", "MediaDecode", "Ok", "same"),
      Medium("encoded", "ResourceLimit", "Ok", "same"),
      Medium("raw", "MediaGeometry", "Ok", "same"),
      Medium("video", "MediaGeometry", "Ok", "scaled") }

Planned ==
    { Medium("encoded", "Ok", "Ok", "same"),
      Medium("encoded", "Ok", "Ok", "scaled"),
      Medium("encoded", "Ok", "Ok", "noScratch"),
      Medium("encoded", "Ok", "Ok", "kernelFails"),
      Medium("encoded", "Ok", "MediaDecode", "same"),
      Medium("raw", "Ok", "Ok", "same"),
      Medium("raw", "Ok", "Ok", "scratchless"),
      Medium("raw", "Ok", "Ok", "noDestination"),
      Medium("raw", "Ok", "MediaGeometry", "same"),
      Medium("video", "Ok", "Ok", "scaled"),
      Medium("video", "Ok", "Ok", "noDestination") }

Lists(pool, n) == UNION {[1..i -> pool] : i \in 0..n}

Healthy ==
    { Medium("encoded", "Ok", "Ok", "scaled"), Medium("raw", "Ok", "Ok", "same"),
      Medium("video", "Ok", "Ok", "scaled") }

Turn(structure, render, text) ==
    [structure |-> structure, render |-> render, text |-> text]

Plain == Turn("Ok", "Ok", "Ok")

Call(entry, capacity, requests, media) ==
    [entry |-> entry, capacity |-> capacity, requests |-> requests,
     media |-> media, parse |-> "Ok", parsed |-> Len(media),
     preflight |-> "Ok", limits |-> "Ok", allocated |-> 7, convert |-> "Ok"]

Base == {Call(entry, capacity, <<Plain>>, media) :
            entry \in Entries, capacity \in Capacities,
            media \in Lists(Healthy, MaxMedia)}

Requests ==
    { <<Plain, Plain>>, <<Plain, Turn("InvalidRequest", "Ok", "Ok")>>,
      <<Turn("Ok", "InvalidRequest", "Ok")>>,
      <<Plain, Turn("Ok", "Ok", "InternalInvariant")>> }

(* The binding refuses an empty batch and a bad structure while it parses, so *)
(* its calls do not reach the native checks of the same conditions.           *)
Native == {c \in Base : c.entry # "binding"}
Binding == Base \ Native

Refused ==
    {[c EXCEPT !.requests = <<>>] : c \in {n \in Native : n.media = <<>>}}
    \cup {[c EXCEPT !.requests = requests] : c \in Native, requests \in Requests}
    \cup {[c EXCEPT !.requests = requests] : c \in Binding,
            requests \in {r \in Requests :
                \A i \in DOMAIN r : r[i].structure = "Ok"}}
    \cup {[c EXCEPT !.preflight = "ResourceLimit"] : c \in Native}
    \cup {[c EXCEPT !.limits = "ResourceLimit"] : c \in Base}

Faulty ==
    {[c EXCEPT !.allocated = n] : c \in Base, n \in 0..6}
    \cup {[c EXCEPT !.parse = "InvalidRequest", !.parsed = n] :
            c \in Binding, n \in 0..MaxMedia}
    \cup {[c EXCEPT !.convert = "python_conversion"] : c \in Binding}

MCCalls ==
    {Call(entry, capacity, <<Plain>>, media) :
        entry \in Entries, capacity \in Capacities,
        media \in Lists(Unplanned \cup Planned, MaxMedia)}
    \cup {Call(entry, capacity, <<Plain>>, media) :
        entry \in Entries, capacity \in Capacities,
        media \in [1..3 -> {Medium("encoded", "Ok", "Ok", "same"),
                            Medium("video", "Ok", "Ok", "scaled"),
                            Medium("video", "Ok", "Ok", "noDestination")}]}
    \cup Refused \cup {c \in Faulty : c.parsed <= Len(c.media)}
==============================================================================
