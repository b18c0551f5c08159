------------------------------ MODULE Devices ------------------------------
(***************************************************************************)
(* The two virtio drivers that stay in use after boot.  Each has queues,   *)
(* buffers and a lock of its own and they share no state, so TLC explores  *)
(* them one after the other: a behaviour is a behaviour of one driver with *)
(* its device, on a1 ... a16.                                              *)
(***************************************************************************)
EXTENDS Virtqueue

CONSTANTS
    capacity_sectors, Values, Blank, MaxRequests,   \* see VirtioBlk
    RX_BUFFERS, MaxFrames                           \* see VirtioNet

VARIABLES part, a1, a2, a3, a4, a5, a6, a7, a8, a9, a10, a11, a12, a13, a14, a15, a16

B == INSTANCE VirtioBlk WITH
    queue <- a1, req <- a2, data <- a3, failed <- a4, pc <- a5, call <- a6, result <- a7,
    made <- a8, disk <- a9, seen <- a10, taken <- a11, faulted <- a12

N == INSTANCE VirtioNet WITH
    rx <- a1, tx <- a2, rx_buf <- a3, tx_buf <- a4, failed <- a5, pc <- a6, head <- a7,
    sent <- a8, received <- a9, arrived <- a10, posted <- a11, wire <- a12, rseen <- a13,
    tseen <- a14, rtaken <- a15, ttaken <- a16

vars == <<part, a1, a2, a3, a4, a5, a6, a7, a8, a9, a10, a11, a12, a13, a14, a15, a16>>

Init ==
    \/ part = "blk" /\ B!Init /\ a13 = 0 /\ a14 = 0 /\ a15 = 0 /\ a16 = 0
    \/ part = "net" /\ N!Init

Next ==
    /\ UNCHANGED part
    /\ \/ part = "blk" /\ B!Next /\ UNCHANGED <<a13, a14, a15, a16>>
       \/ part = "net" /\ N!Next

Spec == Init /\ [][Next]_vars

-----------------------------------------------------------------------------
(* Properties *)

\* See VirtioBlk!SuccessIsReal: a request that returned true was executed (do_request).
SuccessIsReal == part = "blk" => B!SuccessIsReal

\* See VirtioBlk!BuffersNotReused: the shared buffers are rewritten only while the
\* device owns no chain (do_request, BlkDevice.failed).
BuffersNotReused == [][part = "blk" => B!Rewritten]_vars

\* See DescriptorsPartitioned of VirtioBlk and VirtioNet: descriptors neither leak nor
\* are owned twice (ownership.rs).
DescriptorsPartitioned ==
    /\ part = "blk" => B!DescriptorsPartitioned
    /\ part = "net" => N!DescriptorsPartitioned

\* See VirtioNet!FramesDelivered: frames are received as completed and sent as given
\* (recv_frame, send_frame).
FramesDelivered == part = "net" => N!FramesDelivered

\* See VirtioNet!BuffersStayPosted: the receive queue never runs dry of buffers
\* (recv_frame).
BuffersStayPosted == part = "net" => N!BuffersStayPosted
=============================================================================
