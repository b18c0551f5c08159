----------------------------- MODULE VirtioBlk -----------------------------
(***************************************************************************)
(* The virtio block driver (src/virtio/blk.rs) on its queue, with a device *)
(* that takes chains, executes them and completes them at its own pace.    *)
(*                                                                         *)
(* Callers hold the lock BLK for a whole do_request, so there is one       *)
(* request at a time; what runs concurrently is the device, which may      *)
(* still work on a request that the driver gave up.  Requests are one      *)
(* sector long and carry a value.                                          *)
(***************************************************************************)
EXTENDS Virtqueue

CONSTANTS
    capacity_sectors,   \* sectors of the disk
    Values,             \* contents of a sector
    Blank,              \* what a sector and the data buffer hold at first
    MaxRequests         \* bound of the model: requests made

VARIABLES
    queue,      \* the virtqueue
    req,        \* DMA page: request header and status byte
    data,       \* DMA page: the sector's data
    failed,     \* BlkDevice.failed
    pc,         \* where do_request is
    call,       \* the request do_request works on, and its chain's head
    result,     \* the last request that returned, and what it returned
    made,       \* requests made
    disk,       \* the device's sectors
    seen,       \* the avail index up to which the device has taken chains
    taken,      \* the chains the device holds: [head, bufs, done]
    faulted     \* the device has misbehaved

driver == <<failed, pc, call, result, made>>
vars == <<queue, req, data, failed, pc, call, result, made, disk, seen, taken, faulted>>

Contents == Values \cup {Blank}

\* The chain of a request: its header, the data, the status byte.
Chain3 == <<"req", "data", "status">>

NoCall == [write |-> FALSE, sector |-> 0, val |-> Blank, head |-> 0]
NoResult == [ok |-> FALSE, sector |-> 0, val |-> Blank]

Init ==
    /\ queue = NewQueue
    /\ req = [write |-> FALSE, sector |-> 0, status |-> "zero"]
    /\ data = Blank
    /\ failed = FALSE
    /\ pc = "Idle"
    /\ call = NoCall
    /\ result = NoResult
    /\ made = 0
    /\ disk = [s \in 0 .. capacity_sectors - 1 |-> Blank]
    /\ seen = 0
    /\ taken = {}
    /\ faulted = FALSE

\* do_request returns ok; a read returns val.
Return(ok, val) ==
    /\ pc' = "Idle"
    /\ result' = [ok |-> ok, sector |-> call.sector, val |-> val]
    /\ call' = NoCall

\* do_request on a poisoned device or beyond the disk returns false.
do_request_refused(sector) ==
    /\ pc = "Idle"
    /\ failed \/ sector + 1 > capacity_sectors
    /\ result' = NoResult
    /\ UNCHANGED <<queue, req, data, failed, pc, call, made, disk, seen, taken, faulted>>

\* do_request: fill the buffers, submit the chain, notify the device.  Without
\* descriptors for the chain it returns false.
do_request(write, sector, val) ==
    /\ pc = "Idle"
    /\ ~failed
    /\ sector + 1 =< capacity_sectors
    /\ made < MaxRequests
    /\ made' = made + 1
    /\ req' = [write |-> write, sector |-> sector, status |-> "preset"]
    /\ data' = IF write THEN val ELSE data
    /\ queue' = TrySubmit(queue, Chain3)
    /\ result' = NoResult
    /\ IF CanReserve(queue, 3)
       THEN /\ call' = [write |-> write, sector |-> sector, val |-> val,
                        head |-> queue.free_head]
            /\ pc' = "Wait"
       ELSE UNCHANGED <<call, pc>>
    /\ UNCHANGED <<failed, disk, seen, taken, faulted>>

\* wait_used: one look at the used ring finds a completion.
WaitUsed ==
    /\ pc = "Wait"
    /\ PopOK(queue, 3)
    /\ queue' = pop_used(queue, 3)
    /\ IF UsedId(queue) = call.head
       THEN pc' = "Completed" /\ UNCHANGED <<failed, call, result>>
       ELSE failed' = TRUE /\ Return(FALSE, Blank)
    /\ UNCHANGED <<req, data, made, disk, seen, taken, faulted>>

(* Mutant: a request that timed out leaves the device usable. *)
TimedOutUnpoisoned ==
    /\ pc = "Wait"
    /\ GivesUp(queue, 3)
    /\ queue' = pop_used(queue, 3)
    /\ failed' = failed
    /\ Return(FALSE, Blank)
    /\ UNCHANGED <<req, data, made, disk, seen, taken, faulted>>

\* wait_used gives up.
TimedOut ==
    /\ pc = "Wait"
    /\ GivesUp(queue, 3)
    /\ queue' = pop_used(queue, 3)
    /\ failed' = TRUE
    /\ Return(FALSE, Blank)
    /\ UNCHANGED <<req, data, made, disk, seen, taken, faulted>>

(* Mutant: the status byte is not looked at. *)
FinishUnchecked ==
    /\ pc = "Completed"
    /\ Return(TRUE, IF call.write THEN call.val ELSE data)
    /\ UNCHANGED <<queue, req, data, failed, made, disk, seen, taken, faulted>>

\* The end of do_request: look at the status, copy what was read.
Finish ==
    /\ pc = "Completed"
    /\ Return(req.status = "ok",
              CASE req.status # "ok" -> Blank
                [] call.write -> call.val
                [] OTHER -> data)
    /\ UNCHANGED <<queue, req, data, failed, made, disk, seen, taken, faulted>>

-----------------------------------------------------------------------------
(* The device *)

\* The device takes the next published chain.
DeviceTake ==
    /\ seen # queue.avail_idx
    /\ LET head == queue.avail[seen % size]
       IN  taken' = taken \cup {[head |-> head, bufs |-> DeviceChain(queue, head),
                                 done |-> FALSE]}
    /\ seen' = (seen + 1) % IdxMod
    /\ UNCHANGED <<queue, req, data, disk, faulted, driver>>

\* It executes a request as the buffers of its chain say, or fails it.
DeviceExecute(t) ==
    /\ t \in taken
    /\ ~t.done
    /\ t.bufs = Chain3
    /\ taken' = (taken \ {t}) \cup {[t EXCEPT !.done = TRUE]}
    /\ \/ /\ req' = [req EXCEPT !.status = "ok"]
          /\ IF req.write
             THEN disk' = [disk EXCEPT ![req.sector] = data] /\ UNCHANGED data
             ELSE data' = disk[req.sector] /\ UNCHANGED disk
       \/ /\ req' = [req EXCEPT !.status = "error"]
          /\ UNCHANGED <<data, disk>>
    /\ UNCHANGED <<queue, seen, faulted, driver>>

\* It completes a chain.
DeviceComplete(t) ==
    /\ t \in taken
    /\ t.done
    /\ taken' = taken \ {t}
    /\ queue' = Posted(queue, t.head)
    /\ UNCHANGED <<req, data, disk, seen, faulted, driver>>

\* A broken device: while a request is out it posts an id that heads no pending
\* chain, or lets the index jump.  The driver stops at the first one.  (A repeated completion carries the head that
\* the next request will have too, and no driver check could tell them apart.)
DeviceFault ==
    /\ pc = "Wait"
    /\ ~faulted
    /\ faulted' = TRUE
    /\ \/ /\ Unread(queue) < size
          /\ \E id \in 0 .. size :
                /\ id \in Ids => queue.pending[id] = 0
                /\ queue' = Posted(queue, id)
       \/ queue' = [queue EXCEPT !.used_idx = (queue.last_used + size + 1) % IdxMod]
    /\ UNCHANGED <<req, data, disk, seen, taken, driver>>

Next ==
    \/ \E s \in 0 .. capacity_sectors : do_request_refused(s)
    \/ \E w \in BOOLEAN, s \in 0 .. capacity_sectors - 1, v \in Values : do_request(w, s, v)
    \/ WaitUsed
    \/ TimedOut
    \/ Finish
    \/ DeviceTake
    \/ \E t \in taken : DeviceExecute(t) \/ DeviceComplete(t)
    \/ DeviceFault

Spec == Init /\ [][Next]_vars

-----------------------------------------------------------------------------
(* Properties *)

\* The device owns a chain: one is published or it works on one.
DeviceOwns == seen # queue.avail_idx \/ taken # {}

\* Every variable has its type, and the queue's indices stay below IdxMod.
TypeOK ==
    /\ DOMAIN queue.next = Ids
    /\ queue.free \in 0 .. size
    /\ {queue.avail_idx, queue.used_idx, queue.last_used, seen} \subseteq 0 .. IdxMod - 1
    /\ req.write \in BOOLEAN /\ req.status \in {"zero", "preset", "ok", "error"}
    /\ data \in Contents
    /\ failed \in BOOLEAN
    /\ pc \in {"Idle", "Wait", "Completed"}
    /\ disk \in [0 .. capacity_sectors - 1 -> Contents]

\* A request that returned true has been executed: the disk holds what was
\* written to the sector, or what the read returned.  No completion of an
\* earlier request is taken for this one's ("never trust it", do_request).
SuccessIsReal == result.ok => disk[result.sector] = result.val

\* The shared DMA buffers are rewritten only while the device owns no chain, also
\* after a request was given up ("reusing the buffers ... would misattribute a
\* stale completion", BlkDevice.failed).
Rewritten == (req'.write # req.write \/ req'.sector # req.sector) => ~DeviceOwns
BuffersNotReused == [][Rewritten]_vars

\* Descriptors are never owned twice, whatever the device posts, and a healthy driver
\* has all of them back between two requests, so it never runs out.
DescriptorsPartitioned ==
    /\ Partitioned(queue)
    /\ pc = "Idle" /\ ~failed => queue.free = size /\ Heads(queue) = {}
=============================================================================
