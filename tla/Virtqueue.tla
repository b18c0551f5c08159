----------------------------- MODULE Virtqueue -----------------------------
(***************************************************************************)
(* The split virtqueue of src/virtio/mod.rs and its descriptor ownership   *)
(* (src/virtio/ownership.rs), as operators on a queue.  VirtioBlk and      *)
(* VirtioNet use it and add the device's side.                             *)
(*                                                                         *)
(* A queue is a record:                                                    *)
(*   next, pending, free_head, free, broken   the fields of Ownership      *)
(*   desc                    the descriptor table: buffer, NEXT flag, next *)
(*   avail, avail_idx        the ring the driver publishes chains in       *)
(*   used, used_idx          the ring the device completes chains in       *)
(*   last_used               how far the driver has read the used ring     *)
(* Ring indices run free and wrap at 2^16 (IdxMod); slots are taken modulo *)
(* the size.                                                               *)
(***************************************************************************)
EXTENDS Integers, Sequences, FiniteSets

CONSTANTS
    size,       \* entries of a queue
    IdxMod      \* 2^16

\* The device reports the size.  It is a power of two (virtio specification),
\* which the code relies on: only then do slots stay in step with indices that
\* wrap.
ASSUME QueueAssumption ==
    /\ size \in Nat \ {0}
    /\ IdxMod \in Nat \ {0}
    /\ IdxMod % size = 0
    /\ IdxMod > size

Ids == 0 .. size - 1
END == size                 \* u16::MAX: no descriptor
NoBuf == "none"

\* Virtqueue::new and Ownership::new: every descriptor is free.
NewQueue ==
    [next |-> [i \in Ids |-> IF i < size - 1 THEN i + 1 ELSE END],
     pending |-> [i \in Ids |-> 0],
     free_head |-> 0, free |-> size, broken |-> FALSE,
     desc |-> [i \in Ids |-> [buf |-> NoBuf, more |-> FALSE, next |-> 0]],
     avail |-> [i \in Ids |-> 0], avail_idx |-> 0,
     used |-> [i \in Ids |-> 0], used_idx |-> 0, last_used |-> 0]

-----------------------------------------------------------------------------
(* Ownership *)

\* The descriptor n links after head, or END.
Link(next, head, n) ==
    LET at[i \in 0 .. n] ==
            IF i = 0 THEN head
            ELSE IF at[i - 1] = END THEN END ELSE next[at[i - 1]]
    IN  at[n]

\* The n descriptors linked from head.
Chain(next, head, n) == {Link(next, head, i) : i \in 0 .. n - 1}

\* reserve has enough descriptors for a chain of count.
CanReserve(q, count) == ~q.broken /\ count > 0 /\ count =< q.free

\* reserve: the first count descriptors of the free list become a chain.
reserve(q, count) ==
    LET head == q.free_head
        tail == Link(q.next, head, count - 1)
    IN  [q EXCEPT !.free_head = q.next[tail],
                  !.next[tail] = END,
                  !.pending[head] = count,
                  !.free = @ - count]

poison(q) == [q EXCEPT !.broken = TRUE]

\* complete accepts id as the head of a pending chain of count.
Valid(q, id, count) == id \in Ids /\ count # 0 /\ q.pending[id] = count

(* Mutant: only the head of the chain is linked back. *)
complete_head(q, id, count) ==
    [q EXCEPT !.next[id] = q.free_head,
              !.free_head = id,
              !.pending[id] = 0,
              !.free = @ + count]

\* complete: the chain goes back to the front of the free list.
complete(q, id, count) ==
    [q EXCEPT !.next[Link(q.next, id, count - 1)] = q.free_head,
              !.free_head = id,
              !.pending[id] = 0,
              !.free = @ + count]

-----------------------------------------------------------------------------
(* The driver's side of the rings *)

\* The descriptors of a reserved chain describe the buffers bufs.
Described(q, head, bufs) ==
    LET At(k) == Link(q.next, head, k - 1)
        Entry(k) == IF k < Len(bufs)
                    THEN [buf |-> bufs[k], more |-> TRUE, next |-> At(k + 1)]
                    ELSE [buf |-> bufs[k], more |-> FALSE, next |-> 0]
    IN  [q EXCEPT !.desc = [i \in Ids |->
            IF \E k \in 1 .. Len(bufs) : At(k) = i
            THEN Entry(CHOOSE k \in 1 .. Len(bufs) : At(k) = i)
            ELSE q.desc[i]]]

\* submit: reserve, describe, publish the head.  The head is the old free_head.
submit(q, bufs) ==
    LET head == q.free_head
    IN  [Described(reserve(q, Len(bufs)), head, bufs) EXCEPT
            !.avail[q.avail_idx % size] = head,
            !.avail_idx = (q.avail_idx + 1) % IdxMod]

\* submit, whose caller ignores that it may return None.
TrySubmit(q, bufs) == IF CanReserve(q, Len(bufs)) THEN submit(q, bufs) ELSE q

\* How far the used index has run ahead of the driver.
Unread(q) == (q.used_idx - q.last_used) % IdxMod

\* pop_used_checked has something to look at.
Popped(q) == ~q.broken /\ Unread(q) > 0

\* The id in the next entry of the used ring.
UsedId(q) == q.used[q.last_used % size]

\* pop_used_checked accepts the next entry as a chain of count.
PopOK(q, count) == Popped(q) /\ Unread(q) =< size /\ Valid(q, UsedId(q), count)

\* wait_used may return None: the time is over or the queue is broken, and the
\* last look finds no valid completion.
GivesUp(q, count) == ~PopOK(q, count)

\* pop_used_checked: read one entry, complete its chain; poison the queue if
\* the index or the entry makes no sense.
pop_used(q, count) ==
    IF ~Popped(q) THEN q
    ELSE IF Unread(q) > size THEN poison(q)
    ELSE LET r == [q EXCEPT !.last_used = (@ + 1) % IdxMod]
         IN  IF Valid(q, UsedId(q), count) THEN complete(r, UsedId(q), count)
             ELSE poison(r)

-----------------------------------------------------------------------------
(* The device's side (external): it reads only the rings and descriptors. *)

\* The buffers of the chain at head, by the flags and links of the table.
DeviceChain(q, head) ==
    LET chain[k \in 0 .. size] ==
            IF k = 0 THEN <<head>>
            ELSE LET last == chain[k - 1][Len(chain[k - 1])]
                 IN  IF q.desc[last].more THEN Append(chain[k - 1], q.desc[last].next)
                     ELSE chain[k - 1]
    IN  [k \in DOMAIN chain[size] |-> q.desc[chain[size][k]].buf]

\* The device posts an entry in the used ring.
Posted(q, id) ==
    [q EXCEPT !.used[q.used_idx % size] = id,
              !.used_idx = (@ + 1) % IdxMod]

-----------------------------------------------------------------------------
(* What ownership promises *)

Heads(q) == {i \in Ids : q.pending[i] # 0}

FreeList(q) == Chain(q.next, q.free_head, q.free)

\* Every descriptor is on the free list or in one pending chain, and the links
\* of neither run out before their count does.
Partitioned(q) ==
    LET chains == [h \in Heads(q) |-> Chain(q.next, h, q.pending[h])]
    IN  /\ Cardinality(FreeList(q)) = q.free
        /\ Ids = FreeList(q) \cup UNION {chains[h] : h \in Heads(q)}
        /\ \A h \in Heads(q) :
            /\ Cardinality(chains[h]) = q.pending[h]
            /\ chains[h] \cap FreeList(q) = {}
            /\ \A k \in Heads(q) \ {h} : chains[h] \cap chains[k] = {}
=============================================================================
