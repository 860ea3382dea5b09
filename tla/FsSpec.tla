------------------------------- MODULE FsSpec -------------------------------
(***************************************************************************)
(* What nxfs promises its callers (RFC-0071): a tree of directories and    *)
(* files in which every operation happens at once or not at all, whatever  *)
(* crashes and remounts happen.  A tree maps every path but the root to a  *)
(* directory or to a file and its blocks.                                  *)
(***************************************************************************)
EXTENDS Naturals, Sequences, FiniteSets, SequencesExt

CONSTANTS Path, Value, Zero, MaxBlocks

VARIABLE tree

Node(p)   == p = <<>> \/ p \in DOMAIN tree
IsDir(p)  == p = <<>> \/ (p \in DOMAIN tree /\ tree[p].kind = "dir")
IsFile(p) == p \in DOMAIN tree /\ tree[p].kind = "file"
Below(p)  == {q \in DOMAIN tree : IsPrefix(p, q)}

FsInit == tree = [p \in {} |-> <<>>]

Create(p, kind) ==
    /\ ~Node(p) /\ IsDir(Front(p))
    /\ tree' = [q \in DOMAIN tree \cup {p} |-> IF q = p THEN [kind |-> kind, blocks |-> <<>>] ELSE tree[q]]

(* Block i of the file becomes v; a hole before it reads as zero. *)
Write(p, i, v) ==
    /\ IsFile(p)
    /\ LET n == Len(tree[p].blocks)
       IN tree' = [tree EXCEPT ![p].blocks =
              [k \in 1..(IF i > n THEN i ELSE n) |->
                 IF k = i THEN v ELSE IF k <= n THEN @[k] ELSE Zero]]

Truncate(p, n) ==
    /\ IsFile(p)
    /\ tree' = [tree EXCEPT ![p].blocks = [k \in 1..n |-> IF k <= Len(@) THEN @[k] ELSE Zero]]

Unlink(p) ==
    /\ Below(p) = {p}
    /\ tree' = [q \in DOMAIN tree \ {p} |-> tree[q]]

(* The subtree of p is at q afterwards, and what was at q is gone. *)
Rename(p, q) ==
    /\ p \in DOMAIN tree /\ IsDir(Front(q)) /\ ~IsPrefix(p, q)
    /\ Below(q) \subseteq {q}
    /\ LET moved == {q \o SubSeq(r, Len(p) + 1, Len(r)) : r \in Below(p)}
           kept  == DOMAIN tree \ (Below(p) \cup {q})
       IN tree' = [r \in kept \cup moved |->
              IF r \in kept THEN tree[r] ELSE tree[p \o SubSeq(r, Len(q) + 1, Len(r))]]

FsNext ==
    \/ \E p \in Path, kind \in {"file", "dir"} : Create(p, kind)
    \/ \E p \in Path, i \in 1..MaxBlocks, v \in Value : Write(p, i, v)
    \/ \E p \in Path, n \in 0..MaxBlocks : Truncate(p, n)
    \/ \E p \in Path : Unlink(p)
    \/ \E p, q \in Path : Rename(p, q)

FsSpecification == FsInit /\ [][FsNext]_tree
=============================================================================
