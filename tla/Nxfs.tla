-------------------------------- MODULE Nxfs --------------------------------
(***************************************************************************)
(* The user-data file system (userspace/nxfs, mounted by nxfsd): a linear  *)
(* journal of transactions, two alternating checkpoints and a superblock   *)
(* that points at them.                                                    *)
(*                                                                         *)
(* An operation is a list of device writes followed by a change of the     *)
(* state in memory.  The power may fail between any two writes; the writes *)
(* before are on the device, the later ones are not (the fault model of    *)
(* tests/crash_injection.rs).  A journal record takes one or two cells, a  *)
(* sector SectorCells cells and a logical block BlockSectors sectors, so a *)
(* record and a transaction can straddle both.  A checksum is modelled by  *)
(* what it shows: all parts come from the same record or blob.             *)
(***************************************************************************)
EXTENDS Naturals, Sequences, FiniteSets, FiniteSetsExt, SequencesExt

CONSTANTS
    Name, Value, Zero,   \* entry names, file blocks, the block of a hole
    DataBlocks,          \* allocatable logical blocks
    JournalBlocks, BlockSectors, SectorCells,
    MaxTxn, MaxGen, MaxObject, MaxBlocks, MaxDepth,   \* bounds of the instance
    RenameIntoSelf       \* do callers move a directory below itself?

VARIABLES
    nxDisk,   \* the device
    nxMem,    \* the mounted file system; NotMounted before and after a power cut
    nxTree    \* history: the tree a caller sees, after a power cut the one recovery finds

nxVars == <<nxDisk, nxMem, nxTree>>

BlockCells   == BlockSectors * SectorCells
Cells        == JournalBlocks * BlockCells
Cell         == 0..(Cells - 1)
Root         == 1
NoCell       == [txn |-> 0, kind |-> "zero", op |-> <<>>, part |-> 0, len |-> 0]
Torn         == [txn |-> 0]
Blank        == <<>>
NotMounted   == [txn |-> 0]
NxPath       == UNION {[1..n -> Name] : n \in 1..MaxDepth}

-----------------------------------------------------------------------------
(* state.rs: objects, directory tables and the allocation bitmap            *)

NewEmpty == [objects |-> (Root :> [kind |-> "dir", extents |-> <<>>]),
             dirs |-> (Root :> [n \in {} |-> 0]), next |-> Root + 1, used |-> {}]

Dropping(f, S) == [x \in DOMAIN f \ S |-> f[x]]

DropObject_Fault(s, id) ==
    IF id \notin DOMAIN s.objects THEN s
    ELSE [s EXCEPT !.objects = Dropping(@, {id}), !.dirs = Dropping(@, {id})]

(* The object goes, with its blocks and, for a directory, its table. *)
DropObject(s, id) ==
    IF id \notin DOMAIN s.objects THEN s
    ELSE [s EXCEPT !.objects = Dropping(@, {id}),
                   !.used = @ \ Range(s.objects[id].extents),
                   !.dirs = Dropping(@, {id})]

(* The one mutation semantics: commit and replay both use it. *)
Apply(s, op) ==
    CASE op.do = "mknode" ->
           [s EXCEPT !.objects = (op.id :> [kind |-> op.kind, extents |-> <<>>]) @@ @,
                     !.dirs = LET d == [@ EXCEPT ![op.parent] = (op.name :> op.id) @@ @]
                              IN IF op.kind = "dir" THEN (op.id :> [n \in {} |-> 0]) @@ d ELSE d,
                     !.next = IF op.id >= @ THEN op.id + 1 ELSE @]
      [] op.do = "write" ->
           [s EXCEPT !.objects[op.id].extents = op.extents,
                     !.used = (@ \ Range(s.objects[op.id].extents)) \cup Range(op.extents)]
      [] op.do = "remove" ->
           DropObject([s EXCEPT !.dirs[op.parent] = Dropping(@, {op.name})], op.id)
      [] op.do = "rename" ->
           LET id == s.dirs[op.parent][op.name]
               d  == DropObject([s EXCEPT !.dirs[op.parent] = Dropping(@, {op.name})], op.replaced)
           IN [d EXCEPT !.dirs[op.toParent] = (op.toName :> id) @@ @]

(* alloc_blocks: the first free blocks. *)
Free(s) == (1..DataBlocks) \ s.used
AllocBlocks(s, n) == SubSeq(SetToSortSeq(Free(s), <), 1, n)

(* 0 when the path names nothing. *)
Resolve(s, path) ==
    FoldLeft(LAMBDA id, n : IF id \in DOMAIN s.dirs /\ n \in DOMAIN s.dirs[id]
                            THEN s.dirs[id][n] ELSE 0, Root, path)

Content(s, data, id) == [k \in DOMAIN s.objects[id].extents |-> data[s.objects[id].extents[k]]]

-----------------------------------------------------------------------------
(* journal.rs: records, transactions, replay                                *)

Record(txn, kind, op, len) ==
    [k \in 1..len |-> [txn |-> txn, kind |-> kind, op |-> op, part |-> k, len |-> len]]

OpCells(op) == IF op.do \in {"write", "rename"} THEN 2 ELSE 1

EncodeTxn(txn, op) ==
    Record(txn, "begin", <<>>, 1) \o Record(txn, "op", op, OpCells(op))
      \o Record(txn, "commit", <<>>, 1)

ValidAt(jnl, end, o) ==
    /\ o < end /\ jnl[o].part = 1 /\ o + jnl[o].len <= end
    /\ \A k \in 1..jnl[o].len : jnl[o + k - 1] = [jnl[o] EXCEPT !.part = k]

(* Mount reads up to the first block that is all zeros. *)
ReadEnd(jnl) ==
    LET zero == {b \in 0..(JournalBlocks - 1) :
                   \A c \in 0..(BlockCells - 1) : jnl[b * BlockCells + c] = NoCell}
    IN IF zero = {} THEN Cells ELSE (Min(zero) + 1) * BlockCells

(* The highest id seen, in a torn group too, is not reused. *)
Seen_Fault(seen, r) == IF r.kind = "commit" THEN Max({seen, r.txn}) ELSE seen
Seen(seen, r) == Max({seen, r.txn})

(* One record of replay: open is the transaction whose group is being read, *)
(* 0 when there is none.  A complete group moves the head; only one at or   *)
(* above the checkpoint's watermark is applied, and only what is left over  *)
(* of such groups makes an orphan.                                          *)
ReplayRecord(acc, r, minTxn) ==
    LET o    == acc.o + r.len
        live == r.txn >= minTxn
        mine == r.txn = acc.open
        next == [acc EXCEPT !.o = o, !.seen = Seen(@, r)]
    IN CASE r.kind = "begin" ->
              [next EXCEPT !.open = r.txn, !.pending = <<>>,
                           !.orphan = @ \/ acc.open >= minTxn]
         [] r.kind = "commit" ->
              [next EXCEPT !.open = 0, !.pending = <<>>,
                           !.ops = IF mine /\ live THEN @ \o acc.pending ELSE @,
                           !.head = IF mine THEN o ELSE @,
                           !.orphan = @ \/ (~mine /\ live)]
         [] r.kind = "op" ->
              [next EXCEPT !.pending = IF mine THEN Append(@, r.op) ELSE @,
                           !.orphan = @ \/ (~mine /\ live)]

ReplayResult(acc, minTxn) ==
    [ops |-> acc.ops, head |-> acc.head, txn |-> Max({acc.seen + 1, minTxn}),
     orphan |-> acc.orphan \/ acc.open >= minTxn]

(* From the start of the journal to the first record that is torn. *)
Replay(jnl, minTxn) ==
    LET end  == ReadEnd(jnl)
        step(acc, i) == IF ValidAt(jnl, end, acc.o)
                        THEN ReplayRecord(acc, jnl[acc.o], minTxn) ELSE acc
        init == [o |-> 0, open |-> 0, pending |-> <<>>, ops |-> <<>>, head |-> 0,
                 seen |-> 0, orphan |-> FALSE]
    IN ReplayResult(FoldLeft(step, init, [i \in 1..Cells |-> i]), minTxn)

-----------------------------------------------------------------------------
(* dev.rs: writes reach the device one sector at a time, in order           *)

Put(at, i, v) == [at |-> at, i |-> i, v |-> v]

Effect(disk, w) ==
    CASE w.at = "data"   -> [disk EXCEPT !.data[w.i] = w.v]
      [] w.at = "jnl"    -> [disk EXCEPT !.jnl = w.v @@ @]
      [] w.at = "cp"     -> [disk EXCEPT !.cp[w.i] = w.v]
      [] w.at = "sb"     -> [disk EXCEPT !.sb[w.i] = w.v]

After(disk, writes, k) == FoldLeft(Effect, disk, SubSeq(writes, 1, k))

AppendWrites_Fault(jnl, head, cells) ==
    LET first == head \div BlockCells
        last  == (head + Len(cells) - 1) \div BlockCells
        new(c) == IF c >= head /\ c < head + Len(cells) THEN cells[c - head + 1] ELSE NoCell
        sector(s) == [c \in (s * SectorCells)..((s + 1) * SectorCells - 1) |-> new(c)]
        start  == first * BlockSectors
    IN [i \in 1..((last - first + 1) * BlockSectors) |-> Put("jnl", i, sector(start + i - 1))]

(* append_journal: read-modify-write of the first block, the rest of the    *)
(* last block is zeroed.                                                    *)
AppendWrites(jnl, head, cells) ==
    LET first == head \div BlockCells
        last  == (head + Len(cells) - 1) \div BlockCells
        new(c) == IF c >= head /\ c < head + Len(cells) THEN cells[c - head + 1]
                  ELSE IF c \div BlockCells = first /\ head % BlockCells # 0 THEN jnl[c]
                  ELSE NoCell
        sector(s) == [c \in (s * SectorCells)..((s + 1) * SectorCells - 1) |-> new(c)]
        start  == first * BlockSectors
    IN [i \in 1..((last - first + 1) * BlockSectors) |-> Put("jnl", i, sector(start + i - 1))]

(* The state without the bitmap, which loading derives. *)
Blob(s, txn) == [objects |-> s.objects, dirs |-> s.dirs, next |-> s.next, txn |-> txn]

(* Loading a blob marks the blocks of its files as used. *)
DecodeBlob(blob) ==
    [objects |-> blob.objects, dirs |-> blob.dirs, next |-> blob.next,
     used |-> UNION {Range(blob.objects[i].extents) : i \in DOMAIN blob.objects}]

OlderSlot_Fault(slots) == IF slots[0].gen > slots[1].gen THEN 0 ELSE 1
OlderSlot(slots)  == IF slots[0].gen > slots[1].gen THEN 1 ELSE 0
NewestSlot(slots) == IF slots[0].gen >= slots[1].gen THEN 0 ELSE 1

NewestGen(m) == Max({m.slots[0].gen, m.slots[1].gen})

FlippedSlots(m) ==
    [m.slots EXCEPT ![OlderSlot(m.slots)] =
        [gen |-> NewestGen(m) + 1, crc |-> Blob(m.fs, m.txn)]]

(* write_checkpoint: the blob into the older region, then the superblock    *)
(* and its mirror.  A superblock fits a sector; a blob does not.            *)
CheckpointWrites(m) ==
    LET slot == OlderSlot(m.slots)
    IN <<Put("cp", slot, Torn), Put("cp", slot, Blob(m.fs, m.txn)),
         Put("sb", 1, FlippedSlots(m)), Put("sb", 2, FlippedSlots(m))>>

Checkpointed(m) == [m EXCEPT !.slots = FlippedSlots(m), !.head = 0]

-----------------------------------------------------------------------------
(* fs.rs: mkfs and mount                                                    *)

NoSlot == [gen |-> 0, crc |-> Torn]

Formatted == [fs |-> NewEmpty, slots |-> [i \in 0..1 |-> NoSlot], head |-> 0, txn |-> 1,
              orphan |-> FALSE]

Loadable(disk, slots, i) == slots[i].gen > 0 /\ disk.cp[i] = slots[i].crc

(* The newest checkpoint that is intact, then the journal. *)
IntactSlot(disk, slots) ==
    IF Loadable(disk, slots, NewestSlot(slots)) THEN NewestSlot(slots) ELSE 1 - NewestSlot(slots)

MountedFrom(slots, blob, r) ==
    [fs |-> FoldLeft(Apply, DecodeBlob(blob), r.ops), slots |-> slots, head |-> r.head,
     txn |-> r.txn, orphan |-> r.orphan]

Mounted(disk) ==
    LET slots == IF disk.sb[1] # Blank THEN disk.sb[1] ELSE disk.sb[2]
        blob  == disk.cp[IntactSlot(disk, slots)]
    IN MountedFrom(slots, blob, Replay(disk.jnl, blob.txn))

Mountable(disk) ==
    /\ disk.sb[1] # Blank
    /\ \E i \in 0..1 : Loadable(disk, disk.sb[1], i)

(* The tree a caller sees: while mounted through memory, after a power cut  *)
(* through recovery.                                                        *)
TreeOf(s, data) ==
    [p \in {q \in NxPath : Resolve(s, q) # 0} |->
        [kind |-> s.objects[Resolve(s, p)].kind, blocks |-> Content(s, data, Resolve(s, p))]]

Visible(disk, mem) ==
    TreeOf(IF mem # NotMounted THEN mem.fs
           ELSE IF Mountable(disk) THEN Mounted(disk).fs ELSE NewEmpty, disk.data)

Become(disk, mem) == nxDisk' = disk /\ nxMem' = mem /\ nxTree' = Visible(disk, mem)

NxInit ==
    /\ nxDisk = [data |-> [b \in 1..DataBlocks |-> Zero], jnl |-> [c \in Cell |-> NoCell],
                 cp |-> [i \in 0..1 |-> Torn], sb |-> [i \in 1..2 |-> Blank]]
    /\ nxMem = NotMounted
    /\ nxTree = [p \in {} |-> <<>>]

Up == nxMem # NotMounted

(* All writes reach the device and the call returns, or the power fails     *)
(* after the first k.                                                       *)
Perform(writes, mem) ==
    \E k \in 0..Len(writes) : \E disk \in {After(nxDisk, writes, k)} :
        Become(disk, IF k = Len(writes) THEN mem ELSE NotMounted)

(* open_or_format on a device without a superblock in block 0. *)
Mkfs ==
    /\ ~Up /\ nxDisk.sb[1] = Blank
    /\ Perform(CheckpointWrites(Formatted), Checkpointed(Formatted))

Mount ==
    /\ ~Up /\ Mountable(nxDisk)
    /\ Become(nxDisk, Mounted(nxDisk))

(* fsck with repair: a torn tail is retired by a checkpoint; the container  *)
(* is not left mounted.                                                     *)
Fsck ==
    /\ ~Up /\ Mountable(nxDisk)
    /\ LET m == Mounted(nxDisk)
       IN m.orphan /\ NewestGen(m) < MaxGen /\ Perform(CheckpointWrites(m), NotMounted)

PowerCut == Up /\ Become(nxDisk, NotMounted)

-----------------------------------------------------------------------------
(* fs.rs: one transaction per operation                                     *)

RunTxn_Fault(op, data) ==
    LET cells == EncodeTxn(nxMem.txn, op)
        full  == nxMem.head + Len(cells) > Cells
        m     == IF full THEN Checkpointed(nxMem) ELSE nxMem
    IN /\ nxMem.txn <= MaxTxn /\ (full => NewestGen(nxMem) < MaxGen)
       /\ Perform((IF full THEN CheckpointWrites(nxMem) ELSE <<>>)
                    \o AppendWrites(nxDisk.jnl, m.head, cells) \o data,
                  [m EXCEPT !.head = @ + Len(cells), !.txn = @ + 1, !.fs = Apply(@, op)])

(* Data first, then a checkpoint if the journal is full, then the journal. *)
RunTxn(op, data) ==
    LET cells == EncodeTxn(nxMem.txn, op)
        full  == nxMem.head + Len(cells) > Cells
        m     == IF full THEN Checkpointed(nxMem) ELSE nxMem
    IN /\ nxMem.txn <= MaxTxn /\ (full => NewestGen(nxMem) < MaxGen)
       /\ Perform(data \o (IF full THEN CheckpointWrites(nxMem) ELSE <<>>)
                    \o AppendWrites(nxDisk.jnl, m.head, cells),
                  [m EXCEPT !.head = @ + Len(cells), !.txn = @ + 1, !.fs = Apply(@, op)])

Parent(path) == Resolve(nxMem.fs, Front(path))
Target(path) == Resolve(nxMem.fs, path)
Table(id)    == nxMem.fs.dirs[id]
IsTable(id)  == id \in DOMAIN nxMem.fs.dirs
IsFileId(id) == id # 0 /\ nxMem.fs.objects[id].kind = "file"

MkNode(path, kind) ==
    /\ Up /\ nxMem.fs.next <= MaxObject
    /\ IsTable(Parent(path)) /\ Last(path) \notin DOMAIN Table(Parent(path))
    /\ RunTxn([do |-> "mknode", parent |-> Parent(path), id |-> nxMem.fs.next, kind |-> kind,
               name |-> Last(path)], <<>>)

(* rewrite: the whole content goes to fresh blocks. *)
Rewrite(id, content) ==
    LET extents == AllocBlocks(nxMem.fs, Len(content))
    IN /\ Len(content) <= Cardinality(Free(nxMem.fs))
       /\ RunTxn([do |-> "write", id |-> id, extents |-> extents],
                 [k \in DOMAIN content |-> Put("data", extents[k], content[k])])

Resized(s, n) == [k \in 1..n |-> IF k <= Len(s) THEN s[k] ELSE Zero]

WriteAt(path, i, v) ==
    /\ Up /\ IsFileId(Target(path))
    /\ LET old == Content(nxMem.fs, nxDisk.data, Target(path))
       IN Rewrite(Target(path), [Resized(old, Max({Len(old), i})) EXCEPT ![i] = v])

TruncateTo(path, n) ==
    /\ Up /\ IsFileId(Target(path))
    /\ Rewrite(Target(path), Resized(Content(nxMem.fs, nxDisk.data, Target(path)), n))

EmptyOrFile(id) == IsTable(id) => DOMAIN Table(id) = {}

RemoveNode(path) ==
    /\ Up /\ IsTable(Parent(path)) /\ Target(path) # 0 /\ EmptyOrFile(Target(path))
    /\ RunTxn([do |-> "remove", parent |-> Parent(path), id |-> Target(path),
               name |-> Last(path)], <<>>)

RenameNode(from, to) ==
    /\ Up /\ IsTable(Parent(from)) /\ Target(from) # 0 /\ IsTable(Parent(to))
    /\ Target(to) # Target(from) /\ EmptyOrFile(Target(to))
    /\ RenameIntoSelf \/ ~IsPrefix(from, to)
    /\ RunTxn([do |-> "rename", parent |-> Parent(from), name |-> Last(from),
               toParent |-> Parent(to), toName |-> Last(to), replaced |-> Target(to)], <<>>)

NxNext ==
    \/ Mkfs \/ Mount \/ Fsck \/ PowerCut
    \/ \E p \in NxPath, kind \in {"file", "dir"} : MkNode(p, kind)
    \/ \E p \in NxPath, i \in 1..MaxBlocks, v \in Value : WriteAt(p, i, v)
    \/ \E p \in NxPath, n \in 0..MaxBlocks : TruncateTo(p, n)
    \/ \E p \in NxPath : RemoveNode(p)
    \/ \E p, q \in NxPath : RenameNode(p, q)

-----------------------------------------------------------------------------
Abstract == INSTANCE FsSpec WITH tree <- nxTree, Path <- NxPath

(* Whatever sequence of operations, power cuts, remounts and repairs        *)
(* happens, a caller sees a tree that changes by whole operations only:     *)
(* the operation the power cut interrupted is there or it is not            *)
(* (run_txn, replay, write_checkpoint).                                     *)
NxCrashAtomic == Abstract!FsSpecification

(* A container that was ever formatted can be mounted at every instant of   *)
(* every later checkpoint: one of the two checkpoints the superblock names  *)
(* is intact (write_checkpoint overwrites the older one).  An operation     *)
(* that returned is durable: a mount now would rebuild exactly the objects, *)
(* the tables and the allocation bitmap that are in memory, with the stale  *)
(* groups before the checkpoint skipped and the torn ones discarded.  And   *)
(* the id of the next transaction is above every id that is readable in the *)
(* journal, torn groups included, so that no new group completes an old one *)
(* (replay: "fresh transactions must never reuse a discarded id").          *)
NxDurable ==
    /\ nxDisk.sb[1] # Blank => Mountable(nxDisk)
    /\ Up => Mounted(nxDisk).fs = nxMem.fs
    /\ Up => \A c \in Cell : ValidAt(nxDisk.jnl, Cells, c) => nxDisk.jnl[c].txn < nxMem.txn

(* Copy on write never writes a live block: a block is marked used exactly  *)
(* if a file owns it, and no two blocks of files are the same block.        *)
NxBlocksOwned ==
    Up => LET own == [i \in DOMAIN nxMem.fs.objects |-> nxMem.fs.objects[i].extents]
          IN /\ nxMem.fs.used = UNION {Range(own[i]) : i \in DOMAIN own}
             /\ \A i \in DOMAIN own : IsInjective(own[i])
             /\ \A i, j \in DOMAIN own : i # j => Range(own[i]) \cap Range(own[j]) = {}
=============================================================================
