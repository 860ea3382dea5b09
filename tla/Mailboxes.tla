----------------------------- MODULE Mailboxes ------------------------------
(***************************************************************************)
(* What the IPC router promises its callers: a growing array of bounded    *)
(* FIFO mailboxes.  Whether a message is accepted depends only on what is  *)
(* in the mailboxes at that moment: there are no counters, no waiters and  *)
(* no bookkeeping.  A closed mailbox stays closed and its contents are     *)
(* gone.  RouterSpec implements this specification.                        *)
(***************************************************************************)
EXTENDS Naturals, FiniteSets, Sequences, SeqOps

CONSTANTS Pid, None, Message, MAX_FRAME_BYTES, MAX_DEPTH, MAX_ENDPOINTS,
          MAX_ENDPOINTS_PER_OWNER, MaxQueuedBytesTotal, MaxQueuedBytesPerOwner,
          BootEndpoints, BOOT_DEPTH

VARIABLES
    boxes,      \* sequence of [alive, owner, depth, msgs]
    ret         \* what the last operation returned to its caller

vars == <<boxes, ret>>

Result(res) == [res |-> res, msg |-> None]

Box(depth, owner) == [alive |-> TRUE, owner |-> owner, depth |-> depth, msgs |-> <<>>]

Bytes(q) == SumSeq([i \in DOMAIN q |-> q[i].len])

\* Bytes in the mailboxes whose index is in I.
BytesIn(I) ==
    SumSeq([i \in DOMAIN boxes |-> IF i \in I THEN Bytes(boxes[i].msgs) ELSE 0])

Alive(i) == i \in DOMAIN boxes /\ boxes[i].alive

OwnedBy(p) == {i \in DOMAIN boxes : boxes[i].alive /\ boxes[i].owner = p}

\* The budgets have room for len more bytes in mailbox i.
Fits(i, len) ==
    /\ BytesIn(DOMAIN boxes) + len <= MaxQueuedBytesTotal
    /\ i \in DOMAIN boxes /\ boxes[i].owner \in Pid =>
         BytesIn(OwnedBy(boxes[i].owner)) + len <= MaxQueuedBytesPerOwner

-----------------------------------------------------------------------------
Init ==
    /\ boxes = [i \in 1..BootEndpoints |-> Box(BOOT_DEPTH, None)]
    /\ ret = Result("Ok")

\* In each action the result comes first: it tells most alternatives apart.
Accept(i, m) ==
    /\ ret' = Result("Ok")
    /\ Alive(i) /\ Len(boxes[i].msgs) < boxes[i].depth
    /\ boxes' = [boxes EXCEPT ![i].msgs = Append(@, m)]
    /\ Bytes(boxes[i].msgs) + m.len <= boxes[i].depth * MAX_FRAME_BYTES
    /\ Fits(i, m.len)

Reject(i, m) ==
    /\ UNCHANGED boxes
    /\ \/ ret' = Result("NoSpace") /\ ~Fits(i, m.len)
       \/ ret' = Result("NoSuchEndpoint") /\ ~Alive(i) /\ Fits(i, m.len)
       \/ /\ ret' = Result("QueueFull")
          /\ Alive(i) /\ Len(boxes[i].msgs) = boxes[i].depth
          /\ Fits(i, m.len)

Deliver(i) ==
    /\ Alive(i) /\ boxes[i].msgs # <<>>
    /\ boxes' = [boxes EXCEPT ![i].msgs = Tail(@)]
    /\ ret' = [res |-> "Ok", msg |-> Head(boxes[i].msgs)]

\* The receiver could not take the first message: it stays first.
Refuse(i) ==
    /\ Alive(i) /\ boxes[i].msgs # <<>>
    /\ ret' = Result("NoSpace")
    /\ UNCHANGED boxes

NothingToDeliver(i) ==
    /\ \/ ~Alive(i) /\ ret' = Result("NoSuchEndpoint")
       \/ Alive(i) /\ boxes[i].msgs = <<>> /\ ret' = Result("QueueEmpty")
    /\ UNCHANGED boxes

Create(depth, owner) ==
    \/ /\ Len(boxes) < MAX_ENDPOINTS
       /\ owner \in Pid => Cardinality(OwnedBy(owner)) < MAX_ENDPOINTS_PER_OWNER
       /\ boxes' = Append(boxes, Box(depth, owner))
       /\ ret' = Result("Ok")
    \/ /\ \/ Len(boxes) = MAX_ENDPOINTS
          \/ owner \in Pid /\ Cardinality(OwnedBy(owner)) = MAX_ENDPOINTS_PER_OWNER
       /\ ret' = Result("NoSpace")
       /\ UNCHANGED boxes

Shut(box) == [alive |-> FALSE, owner |-> box.owner, depth |-> box.depth, msgs |-> <<>>]

\* Closing the mailboxes I, all at once.
Close(I) ==
    /\ boxes' = [i \in DOMAIN boxes |-> IF i \in I THEN Shut(boxes[i]) ELSE boxes[i]]
    /\ ret' = Result("Ok")

CloseOne(i) ==
    \/ Alive(i) /\ Close({i})
    \/ ~Alive(i) /\ ret' = Result("NoSuchEndpoint") /\ UNCHANGED boxes

Next ==
    \/ \E i \in 1..(MAX_ENDPOINTS + 1) :
         \/ \E m \in Message : Accept(i, m) \/ Reject(i, m)
         \/ Deliver(i) \/ Refuse(i) \/ NothingToDeliver(i) \/ CloseOne(i)
    \/ \E d \in 1..MAX_DEPTH, o \in Pid \cup {None} : Create(d, o)
    \/ \E p \in Pid : Close(OwnedBy(p))

Spec == Init /\ [][Next]_vars
=============================================================================
