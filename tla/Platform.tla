------------------------------ MODULE Platform ------------------------------
(***************************************************************************)
(* The kernel around scheduler, memory and files: the drivers (Devices),   *)
(* bring-up of the CPUs, tasks crossing into user mode, console input and  *)
(* random numbers.  They share no state but the hardware, so TLC explores  *)
(* them one after the other: a behaviour is a behaviour of one part.       *)
(***************************************************************************)
EXTENDS Devices

CONSTANTS
    Parts,                                                  \* the parts to explore
    Machines, MAX_CPUS, STACKS,                             \* see BringUp
    Rounds, Cpus, Scenarios, INBOX_CAPACITY, KILLED_LEN,    \* see UserPrograms and UserTasks
    QUEUE_SIZE, MAX_LINE, FIFO_SIZE, Keys, MaxTyped, SMP,   \* see Console
    Samples, Fixed, MaxMix, MaxFill                         \* see Random

BU == INSTANCE BringUp WITH
    machine <- a1, bsp <- a2, box <- a3, gate <- a4, records <- a5, ap <- a6

UT == INSTANCE UserTasks WITH m <- a1, hw <- a2, task <- a3, KILLED <- a4, services <- a5

CO == INSTANCE Console WITH
    source <- a1, typist <- a2, uart <- a3, RX_ERROR <- a4, INPUT <- a5, shell <- a6

RA == INSTANCE Random WITH
    POOL <- a1, READY <- a2, EPOCH <- a3, Local <- a4, cpu <- a5, mixed <- a6, drawn <- a7

rest == <<a8, a9, a10, a11, a12, a13, a14, a15, a16>>
Unused ==
    /\ a8 = 0 /\ a9 = 0 /\ a10 = 0 /\ a11 = 0
    /\ a12 = 0 /\ a13 = 0 /\ a14 = 0 /\ a15 = 0 /\ a16 = 0

PlatformInit ==
    /\ part \in Parts
    /\ \/ Init
       \/ part = "bring-up" /\ BU!Init /\ a7 = 0 /\ Unused
       \/ part = "users" /\ UT!Init /\ a6 = 0 /\ a7 = 0 /\ Unused
       \/ part = "console" /\ CO!Init /\ a7 = 0 /\ Unused
       \/ part = "random" /\ RA!Init /\ Unused

PlatformNext ==
    \/ Next
    \/ /\ UNCHANGED <<part, rest>>
       /\ \/ part = "bring-up" /\ BU!Next /\ UNCHANGED a7
          \/ part = "users" /\ UT!Next /\ UNCHANGED <<a6, a7>>
          \/ part = "console" /\ CO!Next /\ UNCHANGED a7
          \/ part = "random" /\ RA!Next

PlatformSpec == PlatformInit /\ [][PlatformNext]_vars

-----------------------------------------------------------------------------
(* Properties *)

\* See BringUp!BootOwnership: however late a processor starts, nothing it was given has
\* been given to another or taken back (amd64/smp.rs, arm64/smp.rs).
BootOwnership == part = "bring-up" => BU!BootOwnership

\* See BringUp!AdmissionSound: the CPUs that run are those the policies admit, with the
\* protections all of them share (security/mod.rs, topology/, protection.rs).
AdmissionSound == part = "bring-up" => BU!AdmissionSound

\* See UserTasks!ProgramsBehave: programs are killed if and only if they do what they may
\* not, and every check of the boot tasks succeeds (userspace.rs, ipc/mod.rs).
ProgramsBehave == part = "users" => UT!ProgramsBehave

\* See UserTasks!EntrySound: user and kernel code always run with their own settings
\* (entry stubs, store_bypass.rs, predictor.rs, pan.rs).
EntrySound == part = "users" => UT!EntrySound

\* See Console!CommandsWhole: a command executed is one whole line as typed
\* (keyboard.rs, shell_task).
CommandsWhole == part = "console" => CO!CommandsWhole

\* See Random!RandomFresh: a draw contains all seeding finished before it, and enough
\* of it (random/mod.rs).
RandomFresh == part = "random" => RA!RandomFresh
=============================================================================
