-------------------------- MODULE WriteThroughCache -------------------------
(***************************************************************************)
(* What include/agamemnon/store.hpp:32 promises: "In-memory maps act as a  *)
(* write-through cache backed by GitHub Issues."  The backing store holds  *)
(* a version of each entry and whether the entry is open; a client's write *)
(* reaches both sides, others write only the backing store and the cache   *)
(* catches up, never backwards; a crash costs the cache and nothing else.  *)
(* The promise binds the implementation only until it goes `outside`.      *)
(***************************************************************************)
EXTENDS Integers

CONSTANTS Id

VARIABLES
    disk,     \* id -> the newest version written, 0 for none
    open,     \* id -> whether the backing entry is open
    cache,    \* id -> the version cached, 0 when absent; Cold before loading
    outside   \* the promise no longer binds

cacheVars == <<disk, open, cache, outside>>

Cold == [id \in Id |-> -1]

Init ==
    /\ disk = [id \in Id |-> 0] /\ open = [id \in Id |-> FALSE]
    /\ cache = Cold /\ outside \in BOOLEAN

(* The whole of the open entries is loaded, nothing else. *)
Load ==
    /\ cache = Cold
    /\ cache' = [id \in Id |-> IF open[id] THEN disk[id] ELSE 0]
    /\ UNCHANGED <<disk, open>>

(* A client's write: both sides at once. *)
Put(id) ==
    /\ cache # Cold
    /\ \E o \in BOOLEAN : open' = [open EXCEPT ![id] = o]
    /\ open[id] => open'[id]
    /\ disk'[id] > disk[id] /\ disk' = [disk EXCEPT ![id] = disk'[id]]
    /\ cache' = [cache EXCEPT ![id] = disk'[id]]

(* A client's removal: both sides at once. *)
Drop(id) ==
    /\ cache # Cold
    /\ open' = [open EXCEPT ![id] = FALSE]
    /\ cache' = [cache EXCEPT ![id] = 0]
    /\ UNCHANGED disk

(* Someone else's change. *)
Foreign(id) ==
    /\ open' = [open EXCEPT ![id] = open'[id]]
    /\ disk'[id] >= disk[id] /\ disk' = [disk EXCEPT ![id] = disk'[id]]
    /\ UNCHANGED cache

(* The cache catches up with the backing store, never backwards, and takes  *)
(* up an entry it does not hold only while the entry is open.               *)
CatchUp(id) ==
    /\ cache # Cold
    /\ cache[id] < cache'[id] /\ cache'[id] <= disk[id]
    /\ cache[id] = 0 => open[id]
    /\ cache' = [cache EXCEPT ![id] = cache'[id]]
    /\ UNCHANGED <<disk, open>>

Crash == cache' = Cold /\ UNCHANGED <<disk, open>>

Step ==
    \/ Load
    \/ Crash
    \/ \E id \in Id : Put(id) \/ Drop(id) \/ Foreign(id) \/ CatchUp(id)

Next == outside' \/ (~outside' /\ ~outside /\ UNCHANGED outside /\ Step)

Spec == Init /\ [][Next]_cacheVars
=============================================================================
