----------------------------- MODULE MCDispatch -----------------------------
(* Dispatch with a root task and its children. *)
EXTENDS Dispatch

CONSTANTS t1, t2, t3

MCParent == [p \in TaskId |-> IF p = t1 THEN None ELSE t1]
AnyHomes == [TaskId -> Online]
ParentAndPinnedAtBoot == {h \in AnyHomes : h[t1] = 0 /\ h[t3] = 0}
NoMasks == {}
BootOrAll == {{0}, Cpu}
LastOnly == {{MAX_CPUS - 1}}
Siblings == Permutations({t2, t3})
=============================================================================
