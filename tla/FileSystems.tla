---------------------------- MODULE FileSystems ----------------------------
(***************************************************************************)
(* The file-system interface (fs/mod.rs): the FAT driver serves the disk   *)
(* if it mounts a volume on it, and otherwise the exFAT driver does.  Both *)
(* promise what FileStore says.                                            *)
(***************************************************************************)
EXTENDS Naturals, Sequences

CONSTANTS
    Paths, MAX_FILE,
    EPS, MAX_METADATA, Lfn, FatVolumes,     \* see Fat
    ExFatVolumes, LookupFails,              \* see ExFat
    Idle

VARIABLES
    fat_mounted,                            \* fat::mounted()
    geometry, disk, op, todo, files, before, result,
    volume, faulted,                        \* the FAT driver's
    device, leaked                          \* the exFAT driver's

vars == <<fat_mounted, geometry, disk, op, todo, files, before, result,
          volume, faulted, device, leaked>>

F == INSTANCE Fat WITH Volumes <- FatVolumes

X == INSTANCE ExFat WITH Volumes <- ExFatVolumes

\* init
Init ==
    \/ fat_mounted = TRUE /\ F!Init /\ device = "up" /\ leaked = FALSE
    \/ fat_mounted = FALSE /\ X!Init /\ volume = Idle /\ faulted = FALSE

\* Every operation goes to the driver that is mounted.
Next ==
    \/ fat_mounted /\ F!Next /\ UNCHANGED <<fat_mounted, device, leaked>>
    \/ ~fat_mounted /\ X!Next /\ UNCHANGED <<fat_mounted, volume, faulted>>

Spec == Init /\ [][Next]_vars

-----------------------------------------------------------------------------
(* Properties *)

Store == INSTANCE FileStore WITH
    pending <- IF op = Idle THEN Idle
               ELSE [kind |-> op.kind, path |-> op.path, data |-> op.data]

\* Both drivers implement the file store: at every moment a mount of the disk
\* shows the files as they were before the call under way or as they are after
\* it, whichever requests fail and whenever power goes; and a call that returns Ok
\* has taken effect (create_file, write_file, append_file, mkdir, delete).
ImplementsStore == Store!StoreSpec

\* See Fat!FatSpace and ExFat!ExfatSpace: no fault makes two files share clusters,
\* breaks a chain or makes an entry point at freed clusters; without faults no cluster
\* is lost, and a failed call gives back what it allocated (fat.rs, exfat.rs).
SpaceSound == IF fat_mounted THEN F!FatSpace ELSE X!ExfatSpace

\* See Fat!FatCache: between calls the cached table, free count and hint are those
\* of the disk (fat.rs, set, allocate and free).
FatCacheCoherent == fat_mounted => F!FatCache

\* exfat.rs, append_file: "if the file exists but its contents can't be read
\* (transient I/O error), appending must fail rather than silently rewrite the
\* file with only the new bytes".
AppendKeeps ==
    [][op # Idle /\ op.kind = "append" /\ before[op.path] # <<"absent">> =>
        files'[op.path] \in {before[op.path], before[op.path] \o op.data}]_vars

\* exfat.rs, write_file: "Any failure before the entry update leaves the old file
\* fully intact; a failed entry update rolls the new allocation back".
FailedWriteKeeps ==
    [][op # Idle /\ op.kind = "write" /\ op.result = "err" /\ op' = Idle /\ ~leaked'
        /\ before[op.path] # <<"absent">> => files'[op.path] = before[op.path]]_vars
=============================================================================
