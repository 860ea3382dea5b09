------------------------------ MODULE Journal ------------------------------
(***************************************************************************)
(* The RAM journal of logd (source/services/logd/src/journal.rs).          *)
(*                                                                         *)
(* A record is its size.  logd's heap never reclaims memory: AllocCap      *)
(* bounds what the journal may allocate in its lifetime.  An append that   *)
(* is refused at once changes nothing and is no step.                      *)
(***************************************************************************)
EXTENDS Naturals, Sequences, SeqOps

CONSTANTS
    RecordSize,    \* sizes of records (record_size)
    CapRecords,    \* cap_records
    CapBytes,      \* cap_bytes
    AllocCap       \* alloc_cap_bytes

ASSUME JnAssumption ==
    RecordSize \subseteq Nat /\ {CapRecords, CapBytes, AllocCap} \subseteq Nat

VARIABLES
    jnRecords,     \* records, oldest first: [id, size]
    jnUsed,        \* used_bytes
    jnAllocated,   \* total_allocated_bytes
    jnTotal,       \* total_records; the next id is one more
    jnDropped,     \* dropped_records
    jnHistory      \* every record that append accepted

jnVars == <<jnRecords, jnUsed, jnAllocated, jnTotal, jnDropped, jnHistory>>

JnInit ==
    /\ jnRecords = <<>> /\ jnHistory = <<>>
    /\ jnUsed = 0 /\ jnAllocated = 0 /\ jnTotal = 0 /\ jnDropped = 0

Bytes(records) == SumSeq([i \in DOMAIN records |-> records[i].size])

NoRoom_Fault(records, used, size) ==
    Len(records) >= CapRecords \/ used + size >= CapBytes
NoRoom(records, used, size) ==
    Len(records) >= CapRecords \/ used + size > CapBytes

(* How many of the oldest records the loop drops: as few as make room. *)
MakeRoom(size) ==
    CHOOSE n \in 0..Len(jnRecords) :
        /\ n = Len(jnRecords) \/ ~ NoRoom(SubSeq(jnRecords, n + 1, Len(jnRecords)),
                                          jnUsed - Bytes(SubSeq(jnRecords, 1, n)), size)
        /\ \A m \in 0..(n - 1) : NoRoom(SubSeq(jnRecords, m + 1, Len(jnRecords)),
                                        jnUsed - Bytes(SubSeq(jnRecords, 1, m)), size)

(* The lifetime budget, checked before anything is dropped. *)
Affordable(size) == jnAllocated + size <= AllocCap

(* append; what is dropped is gone even if the last check then rejects. *)
JnAppend(size) ==
    /\ size <= CapBytes /\ Affordable(size)
    /\ LET dropped == MakeRoom(size)
           rest == SubSeq(jnRecords, dropped + 1, Len(jnRecords))
           used == jnUsed - Bytes(SubSeq(jnRecords, 1, dropped))
           record == [id |-> jnTotal + 1, size |-> size]
       IN  /\ jnDropped' = jnDropped + dropped
           /\ IF NoRoom(rest, used, size) \/ used + size > AllocCap
              THEN /\ jnRecords' = rest /\ jnUsed' = used
                   /\ UNCHANGED <<jnAllocated, jnTotal, jnHistory>>
              ELSE /\ jnRecords' = Append(rest, record)
                   /\ jnUsed' = used + size
                   /\ jnAllocated' = jnAllocated + size
                   /\ jnTotal' = jnTotal + 1
                   /\ jnHistory' = Append(jnHistory, record)

JnNext == \E size \in RecordSize : JnAppend(size)

JournalSpec == JnInit /\ [][JnNext]_jnVars

-----------------------------------------------------------------------------
Fitting(records) == Len(records) <= CapRecords /\ Bytes(records) <= CapBytes

(* The journal holds as many of the newest accepted records as its bounds    *)
(* allow, not one less, and the statistics account for the rest: no record   *)
(* is given up for another that is then refused, although append drops old   *)
(* records before its last check.                                            *)
JnKeepsNewest ==
    LET n == Len(jnHistory)
        k == Len(jnRecords)
    IN  /\ jnRecords = SubSeq(jnHistory, n - k + 1, n)
        /\ Fitting(jnRecords)
        /\ k = n \/ ~ Fitting(SubSeq(jnHistory, n - k, n))
        /\ jnUsed = Bytes(jnRecords) /\ jnDropped + k = jnTotal

=============================================================================
