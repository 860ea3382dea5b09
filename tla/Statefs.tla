------------------------------- MODULE Statefs -------------------------------
(***************************************************************************)
(* The state store (userspace/statefs, served by statefsd): a key-value    *)
(* map kept in memory and rebuilt by replaying an append-only journal.     *)
(* statefsd starts on a volatile device and moves to the disk when the     *)
(* disk appears, provided nothing was written before.                      *)
(*                                                                         *)
(* A record takes as many cells as RecordCells says; a block has           *)
(* BlockCells cells and is written whole.  The disk has a write cache that *)
(* a flush empties: a power cut leaves the disk as it was after any of the *)
(* block writes since the last flush (the cache writes back in order).  A  *)
(* write or a flush may be reported as failed whether it was done or not.  *)
(***************************************************************************)
EXTENDS Naturals, Sequences, FiniteSets, FiniteSetsExt, SequencesExt, Functions

CONSTANTS
    Key, SfValue,
    RecordCells,          \* cells of a put of a value; a delete takes one
    SfBlocks, SfBlockCells,
    MaxReplay,            \* MAX_REPLAY_RECORDS
    VirtioMaxRetries,
    MaxUnflushed,         \* bound: contents the write cache may leave behind
    ReadFailures          \* may a read of the disk fail?

VARIABLES
    sfDev,      \* the cells the volatile device and the disk answer reads with
    sfCut,      \* what a power cut may leave on the disk
    sfEng,      \* the engine and the flags of the service loop; Off without power
    sfFailed,   \* history: the operation reported as failed whose record is on the disk
    sfSince     \* history: the maps of the store on the disk since its last SYNC

sfVars == <<sfDev, sfCut, sfEng, sfFailed, sfSince>>

SfCells == SfBlocks * SfBlockCells
Empty   == [k \in {} |-> ""]
NoRec   == [op |-> "none", key |-> "", val |-> "", part |-> 0, len |-> 0]
ZeroDev == [c \in 0..(SfCells - 1) |-> NoRec]
Off     == [on |-> FALSE]

-----------------------------------------------------------------------------
(* lib.rs: records and replay                                               *)

SerializeRecord(op, key, val) ==
    LET n == IF op = "put" THEN RecordCells[val] ELSE 1
    IN [i \in 1..n |-> [op |-> op, key |-> key, val |-> val, part |-> i, len |-> n]]

ParseRecord_Fault(dev, o) ==
    o < SfCells /\ dev[o].part = 1 /\ o + dev[o].len <= SfCells

(* The record at o is complete and its checksum holds. *)
ParseRecord(dev, o) ==
    /\ o < SfCells /\ dev[o].part = 1 /\ o + dev[o].len <= SfCells
    /\ \A i \in 1..dev[o].len : dev[o + i - 1] = [dev[o] EXCEPT !.part = i]

ApplyRecord(kv, r) ==
    IF r.op = "put" THEN (r.key :> r.val) @@ kv ELSE [k \in DOMAIN kv \ {r.key} |-> kv[k]]

(* Up to the first torn record, and no more than limit records.  The value  *)
(* is read from all of the record's cells, the last one included.           *)
SfReplay(dev, limit) ==
    LET step(acc, i) ==
            IF acc.count >= limit \/ ~ParseRecord(dev, acc.pos) THEN acc
            ELSE LET r == [dev[acc.pos] EXCEPT !.val = dev[acc.pos + dev[acc.pos].len - 1].val]
                 IN [kv |-> ApplyRecord(acc.kv, r), pos |-> acc.pos + r.len,
                     count |-> acc.count + 1]
    IN FoldLeft(step, [kv |-> Empty, pos |-> 0, count |-> 0], [i \in 1..SfCells |-> i])

(* What replay leaves in an engine: all of the journal, or, when a read     *)
(* fails or the limit is hit, the records before and write_pos at 0.        *)
ReplayOutcomes(dev, canFail) ==
    LET all == SfReplay(dev, MaxReplay)
    IN (IF all.count >= MaxReplay
        THEN {[kv |-> all.kv, pos |-> 0, count |-> all.count, ok |-> FALSE]}
        ELSE {[kv |-> all.kv, pos |-> all.pos, count |-> all.count, ok |-> TRUE]})
       \cup (IF ~canFail THEN {}
             ELSE {[kv |-> SfReplay(dev, n).kv, pos |-> 0, count |-> n, ok |-> FALSE] :
                     n \in 0..all.count})

(* append_record: read-modify-write of the blocks the record spans; the     *)
(* device after the first k of them.                                        *)
AppendBlocks(pos, rec) ==
    (pos \div SfBlockCells)..((pos + Len(rec) - 1) \div SfBlockCells)
AfterBlocks_Fault(dev, pos, rec, k) ==
    LET done == {b \in AppendBlocks(pos, rec) : b < pos \div SfBlockCells + k}
    IN [c \in DOMAIN dev |->
          IF c \div SfBlockCells \notin done THEN dev[c]
          ELSE IF c \in pos..(pos + Len(rec) - 1) THEN rec[c - pos + 1] ELSE NoRec]
AfterBlocks(dev, pos, rec, k) ==
    LET done == {b \in AppendBlocks(pos, rec) : b < pos \div SfBlockCells + k}
    IN [c \in DOMAIN dev |->
          IF c \in pos..(pos + Len(rec) - 1) /\ c \div SfBlockCells \in done
          THEN rec[c - pos + 1] ELSE dev[c]]

-----------------------------------------------------------------------------
(* statefsd: the service loop                                               *)

Boot0 == [on |-> TRUE, dev |-> "mem", kv |-> Empty, pos |-> 0, count |-> 0,
          pristine |-> TRUE, retries |-> 0]

SfInit ==
    /\ sfDev = [mem |-> ZeroDev, blk |-> ZeroDev]
    /\ sfCut = {ZeroDev}
    /\ sfEng = Off
    /\ sfFailed = NoRec
    /\ sfSince = {}

SfBoot ==
    /\ ~sfEng.on
    /\ sfEng' = Boot0
    /\ UNCHANGED <<sfDev, sfCut, sfFailed, sfSince>>

SfPowerCut ==
    /\ sfEng.on
    /\ sfEng' = Off
    /\ \E disk \in sfCut : sfDev' = [mem |-> ZeroDev, blk |-> disk] /\ sfCut' = {disk}
    /\ sfFailed' = NoRec
    /\ sfSince' = {}

Opened(e, r) == [e EXCEPT !.kv = r.kv, !.pos = r.pos, !.count = r.count]

(* Before a request is handled the loop may move to the disk: only while    *)
(* pristine, only if the device is granted, and with a bounded number of    *)
(* failed attempts.                                                         *)
Upgraded_Fault(e) ==
    IF e.dev = "mem" /\ e.retries < VirtioMaxRetries
    THEN {e} \cup {Opened([e EXCEPT !.dev = "blk"], r) : r \in ReplayOutcomes(sfDev.blk, FALSE)}
    ELSE {e}
Upgraded(e) ==
    IF e.pristine /\ e.dev = "mem" /\ e.retries < VirtioMaxRetries
    THEN {e} \cup {IF r.ok THEN Opened([e EXCEPT !.dev = "blk"], r)
                   ELSE [e EXCEPT !.retries = @ + 1] :
                     r \in ReplayOutcomes(sfDev.blk, ReadFailures)}
    ELSE {e}

Dirty(e) == [e EXCEPT !.pristine = FALSE]

(* The maps of the disk's store so far, when a request is handled by e. *)
Since(e) == IF e.dev = "mem" THEN {} ELSE IF sfEng.dev = "mem" THEN {e.kv} ELSE sfSince

(* GET and LIST, and requests that fail to decode. *)
ServeRead ==
    /\ sfEng.on
    /\ \E e \in Upgraded(sfEng) : sfEng' = e /\ sfSince' = Since(e)
    /\ UNCHANGED <<sfDev, sfCut, sfFailed>>

(* A denied request, a delete of nothing and an append without space change *)
(* nothing but the flag.                                                    *)
ServeNoChange ==
    /\ sfEng.on
    /\ \E e \in Upgraded(sfEng) : sfEng' = Dirty(e) /\ sfSince' = Since(e)
    /\ UNCHANGED <<sfDev, sfCut, sfFailed>>

FlushDisk_Fault == UNCHANGED sfCut

(* VIRTIO_BLK_T_FLUSH: what was written is no longer only in the cache. *)
FlushDisk == sfCut' = {sfDev.blk}

(* SYNC, the durability boundary: a flush of the disk that is done, or      *)
(* reported as failed; nothing on the volatile device.                      *)
ServeSync ==
    /\ sfEng.on
    /\ \E e \in Upgraded(sfEng) :
         /\ sfEng' = Dirty(e)
         /\ \/ /\ e.dev = "blk" /\ FlushDisk
               /\ sfSince' = {e.kv, ApplyRecord(e.kv, sfFailed)}
            \/ UNCHANGED sfCut /\ sfSince' = Since(e)
    /\ UNCHANGED <<sfDev, sfFailed>>

(* put or delete: all blocks are written, or a disk write is reported as    *)
(* failed after k of them.  Nothing is flushed.                             *)
AppendRecord(e, op, key, val) ==
    LET rec == SerializeRecord(op, key, val)
        n   == Cardinality(AppendBlocks(e.pos, rec))
        after(k) == AfterBlocks(sfDev[e.dev], e.pos, rec, k)
        kv  == ApplyRecord(e.kv, rec[1])
        written(k) ==
            /\ sfDev' = [sfDev EXCEPT ![e.dev] = after(k)]
            /\ sfCut' = sfCut \cup (IF e.dev = "blk" THEN {after(i) : i \in 1..k} ELSE {})
    IN /\ e.pos + Len(rec) <= SfCells
       /\ e.dev = "blk" => Cardinality(sfCut) + n <= MaxUnflushed
       /\ \/ /\ written(n)
             /\ sfEng' = Dirty([e EXCEPT !.kv = kv, !.pos = @ + Len(rec), !.count = @ + 1])
             /\ sfFailed' = NoRec
             /\ sfSince' = Since(e) \cup (IF e.dev = "blk" THEN {kv} ELSE {})
          \/ \E k \in 0..n :
             /\ e.dev = "blk"
             /\ written(k)
             /\ sfEng' = Dirty(e)
             /\ IF ParseRecord(after(k), e.pos)
                THEN /\ sfFailed' = after(k)[e.pos]
                     /\ sfSince' = Since(e) \cup {ApplyRecord(e.kv, after(k)[e.pos])}
                ELSE sfFailed' = NoRec /\ sfSince' = Since(e)

ServePut(key, val) ==
    /\ sfEng.on
    /\ \E e \in Upgraded(sfEng) : AppendRecord(e, "put", key, val)

ServeDelete(key) ==
    /\ sfEng.on
    /\ \E e \in Upgraded(sfEng) : key \in DOMAIN e.kv /\ AppendRecord(e, "delete", key, "")

ServeReopen ==
    /\ sfEng.on
    /\ \E e \in Upgraded(sfEng) :
         \E r \in ReplayOutcomes(sfDev[e.dev], ReadFailures /\ e.dev = "blk") :
            sfEng' = Dirty(Opened(e, r)) /\ sfSince' = Since(e)
    /\ sfFailed' = NoRec
    /\ UNCHANGED <<sfDev, sfCut>>

SfNext ==
    \/ SfBoot \/ SfPowerCut \/ ServeRead \/ ServeNoChange \/ ServeSync \/ ServeReopen
    \/ \E k \in Key, v \in SfValue : ServePut(k, v)
    \/ \E k \in Key : ServeDelete(k)

-----------------------------------------------------------------------------
(* The store that replay rebuilds from a disk. *)
Recovered(disk) == SfReplay(disk, SfCells + 1).kv

(* SYNC is the durability boundary (os_lite.rs, JournalEngine::sync): a put *)
(* or delete that was acknowledged before the last acknowledged SYNC        *)
(* survives a power cut, and one since then survives or is lost together    *)
(* with all that followed it: replay finds the store as it was at a moment  *)
(* since that SYNC.  It may have had an operation that was reported as      *)
(* failed although its record got written (append_record leaves write_pos,  *)
(* so the next record overwrites it).                                       *)
SfDurable ==
    sfEng.on /\ sfEng.dev = "blk" => \A disk \in sfCut : Recovered(disk) \in sfSince

(* The store on the disk changes by whole operations: whatever blocks of an *)
(* append are written when the power fails, replay finds the store with or  *)
(* without the operation, never a third (parse_record's checksum, stop at   *)
(* the first torn record).  After a failed append the store may be the one  *)
(* in memory.                                                               *)
SfCrashAtomic ==
    [][LET old == {Recovered(sfDev.blk)} \cup (IF sfFailed = NoRec THEN {} ELSE {sfEng.kv})
       IN \A disk \in sfCut' \ sfCut : \E kv \in old :
            LET new == Recovered(disk)
            IN \/ new = kv
               \/ \E k \in Key, v \in SfValue : new = (k :> v) @@ kv
               \/ \E k \in Key : new = [j \in DOMAIN kv \ {k} |-> kv[j]]]_sfVars

(* Moving to the disk forgets no acknowledged write, and a disk in use is   *)
(* never left for the volatile device (service_main_loop: "only upgrade     *)
(* while still pristine, to avoid losing in-memory state").                 *)
SfUpgradeLosesNothing ==
    [][sfEng.on /\ sfEng'.on /\ sfEng.dev # sfEng'.dev
         => sfEng.kv = Empty /\ sfEng'.dev = "blk"]_sfVars
=============================================================================
