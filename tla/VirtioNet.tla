----------------------------- MODULE VirtioNet -----------------------------
(***************************************************************************)
(* The virtio network driver (src/virtio/net.rs): a receive queue whose    *)
(* buffers the device fills, and a transmit queue with one staging buffer. *)
(*                                                                         *)
(* A receive completion names a descriptor; the driver recovers the buffer *)
(* from the descriptor's number, which is sound only as long as recycling  *)
(* gives every buffer the descriptor it had.  Frames are numbered in the   *)
(* order in which they arrive or are sent.  Callers hold the lock NET.     *)
(***************************************************************************)
EXTENDS Virtqueue

CONSTANTS
    RX_BUFFERS,     \* receive buffers
    MaxFrames       \* bound of the model: frames that arrive, frames sent

VARIABLES
    rx, tx,     \* the two virtqueues
    rx_buf,     \* the frame in each receive buffer
    tx_buf,     \* the frame in the staging buffer
    failed,     \* NetDevice.failed
    pc,         \* where the driver is
    head,       \* the head of the chain it has submitted or popped
    sent,       \* frames sent
    received,   \* the frames recv_frame returned
    arrived,    \* frames that arrived from the network
    posted,     \* the frames the device completed, in the used ring's order
    wire,       \* the frames the device put on the network
    rseen, tseen,   \* the avail indices the device has reached
    rtaken, ttaken  \* the chains the device holds

driver == <<failed, pc, head, sent, received>>
rxdev == <<rx_buf, rseen, rtaken, arrived, posted>>
txdev == <<wire, tseen, ttaken>>
vars == <<rx, tx, tx_buf, driver, rxdev, txdev>>

NoFrame == 0

\* init: the receive queue is prefilled with one chain per buffer; submit's
\* refusals, when the queue is shorter, are ignored.
Prefilled ==
    LET fill[i \in 0 .. RX_BUFFERS] ==
            IF i = 0 THEN NewQueue ELSE TrySubmit(fill[i - 1], <<i - 1>>)
    IN  fill[RX_BUFFERS]

Init ==
    /\ rx = Prefilled
    /\ tx = NewQueue
    /\ rx_buf = [i \in 0 .. RX_BUFFERS - 1 |-> NoFrame]
    /\ tx_buf = NoFrame
    /\ failed = FALSE
    /\ pc = "Idle"
    /\ head = 0
    /\ sent = 0
    /\ received = <<>>
    /\ arrived = 0
    /\ posted = <<>>
    /\ wire = <<>>
    /\ rseen = 0 /\ tseen = 0
    /\ rtaken = {} /\ ttaken = {}

-----------------------------------------------------------------------------
(* Transmit *)

\* send_frame: stage the frame, submit it, notify the device.  Without a
\* descriptor it returns false.
send_frame ==
    /\ pc = "Idle"
    /\ ~failed
    /\ sent < MaxFrames
    /\ sent' = sent + 1
    /\ tx_buf' = sent + 1
    /\ tx' = TrySubmit(tx, <<"tx">>)
    /\ IF CanReserve(tx, 1) THEN head' = tx.free_head /\ pc' = "TxWait"
       ELSE UNCHANGED <<head, pc>>
    /\ UNCHANGED <<rx, failed, received, rxdev, txdev>>

\* wait_used(1, 1000) finds a completion: of this frame, or of no frame the
\* driver still trusts.
TxUsed ==
    /\ pc = "TxWait"
    /\ PopOK(tx, 1)
    /\ tx' = pop_used(tx, 1)
    /\ failed' = (UsedId(tx) # head)
    /\ pc' = "Idle"
    /\ UNCHANGED <<rx, tx_buf, head, sent, received, rxdev, txdev>>

\* wait_used gives up.
TxTimedOut ==
    /\ pc = "TxWait"
    /\ GivesUp(tx, 1)
    /\ tx' = pop_used(tx, 1)
    /\ failed' = TRUE
    /\ pc' = "Idle"
    /\ UNCHANGED <<rx, tx_buf, head, sent, received, rxdev, txdev>>

-----------------------------------------------------------------------------
(* Receive *)

\* recv_frame: wait_used finds a completion.
RxUsed ==
    /\ pc = "Idle"
    /\ ~failed
    /\ PopOK(rx, 1)
    /\ head' = UsedId(rx)
    /\ rx' = pop_used(rx, 1)
    /\ pc' = "RxCopy"
    /\ UNCHANGED <<tx, tx_buf, failed, sent, received, rxdev, txdev>>

\* recv_frame: the time is over.  That is an error only if the queue broke.
RxTimedOut ==
    /\ pc = "Idle"
    /\ ~failed
    /\ GivesUp(rx, 1)
    /\ rx' = pop_used(rx, 1)
    /\ failed' = rx'.broken
    /\ UNCHANGED <<tx, tx_buf, pc, head, sent, received, rxdev, txdev>>

(* Mutant: the buffer is the one that completed longest ago. *)
buf_off_in_order(h) == Len(received) % RX_BUFFERS

\* The buffer of a receive chain.
buf_off(h) == h % RX_BUFFERS

(* Mutant: the buffer is not recycled. *)
RxCopyKept ==
    /\ pc = "RxCopy"
    /\ received' = Append(received, rx_buf[buf_off(head)])
    /\ pc' = "Idle"
    /\ UNCHANGED <<rx, tx, tx_buf, failed, head, sent, rxdev, txdev>>

\* The rest of recv_frame: copy the frame out and recycle its buffer.
RxCopy ==
    /\ pc = "RxCopy"
    /\ received' = Append(received, rx_buf[buf_off(head)])
    /\ rx' = TrySubmit(rx, <<buf_off(head)>>)
    /\ pc' = "Idle"
    /\ UNCHANGED <<tx, tx_buf, failed, head, sent, rxdev, txdev>>

-----------------------------------------------------------------------------
(* The device *)

\* A frame arrives: the device writes it into the next chain's buffer.
FrameArrives ==
    /\ arrived < MaxFrames
    /\ rseen # rx.avail_idx
    /\ arrived' = arrived + 1
    /\ LET h == rx.avail[rseen % size]
           b == DeviceChain(rx, h)[1]
       IN  /\ rx_buf' = [rx_buf EXCEPT ![b] = arrived + 1]
           /\ rtaken' = rtaken \cup {[head |-> h, frame |-> arrived + 1]}
    /\ rseen' = (rseen + 1) % IdxMod
    /\ UNCHANGED <<rx, tx, tx_buf, driver, posted, txdev>>

\* The device completes receive chains in any order.
FramePosted(t) ==
    /\ rtaken' = rtaken \ {t}
    /\ rx' = Posted(rx, t.head)
    /\ posted' = Append(posted, t.frame)
    /\ UNCHANGED <<tx, tx_buf, driver, rx_buf, rseen, arrived, txdev>>

\* The device takes a transmit chain.
DeviceTake ==
    /\ tseen # tx.avail_idx
    /\ ttaken' = ttaken \cup {[head |-> tx.avail[tseen % size], done |-> FALSE]}
    /\ tseen' = (tseen + 1) % IdxMod
    /\ UNCHANGED <<rx, tx, tx_buf, driver, rxdev, wire>>

\* It sends what the staging buffer holds by then.
DeviceSend(t) ==
    /\ ~t.done
    /\ wire' = Append(wire, tx_buf)
    /\ ttaken' = (ttaken \ {t}) \cup {[t EXCEPT !.done = TRUE]}
    /\ UNCHANGED <<rx, tx, tx_buf, driver, rxdev, tseen>>

DeviceComplete(t) ==
    /\ t.done
    /\ ttaken' = ttaken \ {t}
    /\ tx' = Posted(tx, t.head)
    /\ UNCHANGED <<rx, tx_buf, driver, rxdev, wire, tseen>>

\* A broken device posts an id that heads no pending chain, and never will.
DeviceFault ==
    /\ ~rx.broken /\ Unread(rx) < size
    /\ rx' = Posted(rx, size)
    /\ UNCHANGED <<tx, tx_buf, driver, rxdev, txdev>>

Next ==
    \/ send_frame \/ TxUsed \/ TxTimedOut
    \/ RxUsed \/ RxTimedOut \/ RxCopy
    \/ FrameArrives \/ (\E t \in rtaken : FramePosted(t))
    \/ DeviceTake \/ (\E t \in ttaken : DeviceSend(t) \/ DeviceComplete(t))
    \/ DeviceFault

Spec == Init /\ [][Next]_vars

-----------------------------------------------------------------------------
(* Properties *)

\* The indices stay below IdxMod and every frame is one that exists.
TypeOK ==
    /\ {rx.avail_idx, rx.used_idx, rx.last_used, rseen} \subseteq 0 .. IdxMod - 1
    /\ {tx.avail_idx, tx.used_idx, tx.last_used, tseen} \subseteq 0 .. IdxMod - 1
    /\ rx_buf \in [0 .. RX_BUFFERS - 1 -> 0 .. arrived]
    /\ tx_buf = sent
    /\ failed \in BOOLEAN
    /\ pc \in {"Idle", "TxWait", "RxCopy"}

\* recv_frame returns the frames the device completed, each one once and in the
\* order of the used ring, although chains complete out of order and buffers are
\* refilled behind the driver's back.  The network sees the frames that were sent, in
\* order, none twice and none overwritten in the staging buffer by its successor.
FramesDelivered ==
    /\ Len(received) =< Len(posted)
    /\ \A k \in 1 .. Len(received) : received[k] = posted[k]
    /\ Len(wire) =< sent
    /\ \A k \in 1 .. Len(wire) : wire[k] = k

\* Descriptors of both queues are never owned twice, whatever the device posts.
DescriptorsPartitioned == Partitioned(rx) /\ Partitioned(tx)

\* Every receive buffer the queue has room for stays posted, except the one the
\* driver copies from.
BuffersStayPosted ==
    Cardinality(Heads(rx)) + (IF pc = "RxCopy" THEN 1 ELSE 0)
        = (IF size < RX_BUFFERS THEN size ELSE RX_BUFFERS)
=============================================================================
