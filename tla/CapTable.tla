------------------------------ MODULE CapTable ------------------------------
(***************************************************************************)
(* The per-task capability table (source/kernel/neuron/src/cap): a fixed   *)
(* number of slots, each empty or holding a capability.  A capability is a *)
(* record with a kind, the object it names (ep, for an endpoint) and a set *)
(* of rights.                                                              *)
(***************************************************************************)
LOCAL INSTANCE Naturals

CONSTANTS
    Cap,        \* capabilities
    CapSlots,   \* DEFAULT_CAP_SLOTS, 256
    NoCap       \* an empty slot

Slot == 1..CapSlots

Table == [Slot -> Cap \cup {NoCap}]

FreeSlots(t) == {s \in Slot : t[s] = NoCap}

\* allocate: the first free slot (the caller handles a full table).
FirstFree(t) == CHOOSE s \in FreeSlots(t) : \A x \in FreeSlots(t) : s <= x

Allocate(t, cap) == [t EXCEPT ![FirstFree(t)] = cap]

\* allocate_high: the last free slot.
AllocateHigh(t, cap) ==
    [t EXCEPT ![CHOOSE s \in FreeSlots(t) : \A x \in FreeSlots(t) : x <= s] = cap]

Take(t, s) == [t EXCEPT ![s] = NoCap]

\* derive_endpoint_ref succeeds: slot s names an endpoint with the right.
DerivesEndpoint(t, s, right) ==
    t[s] # NoCap /\ t[s].kind = "Endpoint" /\ right \in t[s].rights
=============================================================================
