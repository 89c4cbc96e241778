----------------------------- MODULE ClientFile -----------------------------
(***************************************************************************)
(* What the daemon makes of the files in the clients directory: which are  *)
(* clients at all, which entries of a document are destinations, what an   *)
(* entry that leaves something out is given, and which limits hold.        *)
(*                                                                         *)
(* A document is NotObject (unreadable, not JSON, or not an object) or a   *)
(* record of its fields; a field that is missing, or has another type than *)
(* expected, is Absent.  Entries that are not objects are NotObject.       *)
(***************************************************************************)
EXTENDS Integers, Sequences, SequencesExt

CONSTANTS
    NotObject, Absent,
    Padded,             \* addresses with white space around them, and what is left without
    DefaultIds,         \* "d0", "d1", ... : the id of an entry that has none
    MaxDestinations     \* m_options.maxDestinations

clampValue(value, low, high) == IF value < low THEN low ELSE IF value > high THEN high ELSE value

\* Json::toInt, Json::toString and Json::toBool; a number that stands for a boolean is
\* given as the boolean.
Get(value, fallback) == IF value = Absent THEN fallback ELSE value

trimmed(address) == IF address \in DOMAIN Padded THEN Padded[address] ELSE address

\* The document of client id, as the daemon keeps it.
loadClientFile(id, document) ==
    LET entries == document.destinations
        Address(i) == trimmed(Get(entries[i].address, ""))
        usable == SelectSeq([i \in 1..Len(entries) |-> i],
                            LAMBDA i : entries[i] # NotObject /\ Address(i) # "")
        Destination(i) ==
            [id |-> IF Get(entries[i].id, "") = "" THEN DefaultIds[i] ELSE entries[i].id,
             address |-> Address(i),
             enabled |-> Get(entries[i].enabled, TRUE)]
    IN [id |-> id,
        pace |-> <<clampValue(Get(document.interval_ms, 1000), 100, 3600000),
                   clampValue(Get(document.timeout_ms, 3000), 50, 60000)>>,
        rows |-> IF entries = Absent THEN << >>
                 ELSE [k \in 1..(IF Len(usable) < MaxDestinations THEN Len(usable) ELSE MaxDestinations) |->
                          Destination(usable[k])]]

\* reloadClients reads every file that holds an object, and sorts by id.
\* The files are numbered in the order of their names.
LoadedClients(files) ==
    [k \in 1..Cardinality({c \in DOMAIN files : files[c] # NotObject}) |->
        LET c == SetToSortSeq({x \in DOMAIN files : files[x] # NotObject}, <)[k]
        IN loadClientFile(c, files[c])]
=============================================================================
