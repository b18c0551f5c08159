-------------------------------- MODULE Fat --------------------------------
(***************************************************************************)
(* The FAT driver (fs/fat.rs) over a disk whose sectors are written one by *)
(* one.  A call of the driver holds VOLUME from beginning to end, so calls *)
(* do not overlap; what interleaves with a call is the disk: any write may *)
(* fail, any read may fail, and power may go between two writes, those of  *)
(* the two sectors that a packed FAT12 entry can lie across included.      *)
(*                                                                         *)
(* A call is a list of steps, todo, computed by the operators that carry   *)
(* the driver's function names.  A cluster is one sector, a file's length  *)
(* is counted in clusters, and an entry of the allocation table is written *)
(* as one sector unless it straddles two.                                  *)
(***************************************************************************)
EXTENDS Naturals, FiniteSets, SequencesExt

CONSTANTS
    EPS,         \* directory entries per sector
    MAX_FILE,    \* longest file, in clusters
    MAX_METADATA, \* longest directory, in clusters
    Paths,       \* what clients name
    Lfn,         \* name -> number of long-name entries its entry set has
    Volumes,     \* the volumes that may be inserted
    Idle

VARIABLES
    geometry,    \* [fat32, count, copies, infos, root, entries]: the boot sector;
                 \* [straddle]: the clusters whose FAT12 entry lies across two sectors;
                 \* [paths, data]: what clients name and write
    disk,        \* [fat, info, sector]
    volume,      \* VOLUME: [fat, hint, free_count, hints_invalid, failed]
    op,          \* the call under way, or Idle
    todo,        \* what it still has to do
    files,       \* what a mount of the disk would show (auxiliary)
    before, result, \* files when the call began; what the last call returned
    faulted      \* a request failed or power was lost, at some time

vars == <<geometry, disk, volume, op, todo, files, before, result, faulted>>

N == geometry.count     \* number of clusters

Clusters == 2 .. N + 1

Eof == 1         \* the end-of-chain mark, which is no cluster

Bad == 999       \* a table entry that is neither a cluster nor a mark

Unknown == 1000  \* 0xffffffff in an FSInfo sector

-----------------------------------------------------------------------------
(* Directory sectors: entries of 32 bytes *)

End == [k |-> "end"]

Deleted == [k |-> "deleted"]

\* The j-th long-name entry of name n before the short entry; the checksum ties
\* it to the alias.
LfnEntry(n, j, alias) == [k |-> "lfn", name |-> n, ordinal |-> j, sum |-> alias]

Short(alias, attr, c, size) ==
    [k |-> "short", alias |-> alias, attr |-> attr, cluster |-> c, size |-> size]

Zero == [i \in 1 .. EPS |-> End]

Bytes(v) == [i \in 1 .. EPS |-> [k |-> "bytes", value |-> v]]

\* mkdir: the first sector of a directory.
Dots(c, up) ==
    [i \in 1 .. EPS |-> CASE i = 1 -> Short(".", "dir", c, 0)
                          [] i = 2 -> Short("..", "dir", up, 0)
                          [] OTHER -> End]

\* Entry i of a directory counts: no end mark is before it.
Shown(slots, i) == \A j \in 1 .. i : slots[j] # End

\* records: the short entries with the long name that precedes each, if all of
\* that name's entries do.
LongNameAt(slots, i) ==
    {n \in DOMAIN Lfn : /\ Lfn[n] \in 1 .. i - 1
                        /\ \A j \in 1 .. Lfn[n] : slots[i - j] = LfnEntry(n, j, slots[i].alias)}

RecordAt(slots, i) ==
    LET e == slots[i]
        long == LongNameAt(slots, i)
        n == IF long = {} THEN e.alias ELSE CHOOSE m \in long : TRUE
    IN [name |-> n, alias |-> e.alias, attr |-> e.attr, cluster |-> e.cluster,
        size |-> e.size, offset |-> i, start |-> IF long = {} THEN i ELSE i - Lfn[n]]

records(slots) ==
    {RecordAt(slots, i) : i \in {j \in DOMAIN slots :
        slots[j].k = "short" /\ slots[j].alias \notin {".", ".."} /\ Shown(slots, j)}}

\* The records a path component finds.
Named(slots, n) == {r \in records(slots) : r.name = n \/ r.alias = n}

\* short_name: the name itself, or the first numbered alias not in use.
Tilde == <<"~1", "~2", "~3", "~4">>

short_name(n, slots) ==
    LET used == {r.alias : r \in records(slots)}
        k == CHOOSE j \in DOMAIN Tilde :
                Tilde[j] \notin used /\ \A m \in 1 .. j - 1 : Tilde[m] \in used
    IN IF Lfn[n] = 0 THEN n ELSE Tilde[k]

\* free_slots: the first run of `needed` entries that are deleted or behind the
\* end mark; 0 if there is none.
free_slots(slots, needed) ==
    LET Free(i) == slots[i] = Deleted \/ ~Shown(slots, i)
        runs == {s \in 1 .. Len(slots) + 1 - needed : \A i \in s .. s + needed - 1 : Free(i)}
    IN IF runs = {} THEN 0 ELSE CHOOSE s \in runs : \A t \in runs : s =< t

\* entry_set: long-name entries, last ordinal first, and the short entry.
entry_set(n, alias, attr, c, size) ==
    [i \in 1 .. Lfn[n] |-> LfnEntry(n, Lfn[n] + 1 - i, alias)] \o <<Short(alias, attr, c, size)>>

-----------------------------------------------------------------------------
(* Chains and directories, as read with allocation table f from sectors sec *)

\* One more cluster of a chain that begins with p, unless p ends or the next one repeats.
Extended(f, p) == IF f[Last(p)] \in Clusters \ ToSet(p) THEN Append(p, f[Last(p)]) ELSE p

\* The clusters from c on, up to the last one or to a repetition.
Walk(f, c) ==
    LET w[n \in 0 .. N] == IF n = 0 THEN <<c>> ELSE Extended(f, w[n - 1])
    IN w[N]

\* chain succeeds: an empty one, or one that ends in the mark.
IsChain(f, c) == c = 0 \/ (c \in Clusters /\ f[Last(Walk(f, c))] = Eof)

chain(f, c) == IF c = 0 THEN <<>> ELSE Walk(f, c)

RootDir == [cluster |-> geometry.root, root |-> TRUE]

NoDir == [cluster |-> 0, root |-> FALSE]

FixedRoot(d) == d.root /\ ~geometry.fat32

\* The sectors of a directory.  A fixed root lies outside the clusters.
RootSectors == [i \in 1 .. geometry.root |-> N + 1 + i]

DirSectors(f, d) ==
    IF FixedRoot(d) THEN RootSectors ELSE chain(f, d.cluster)

\* load_dir
load_dir(f, sec, d) ==
    LET at == DirSectors(f, d) IN FlattenSeq([i \in DOMAIN at |-> sec[at[i]]])

\* parent: the directory that holds the last component of path p.
parent(f, sec, p) ==
    IF Len(p) = 1 THEN RootDir
    ELSE LET up == {r \in Named(load_dir(f, sec, RootDir), p[1]) : r.attr = "dir"}
         IN IF up = {} THEN NoDir
            ELSE [cluster |-> (CHOOSE r \in up : TRUE).cluster, root |-> FALSE]

\* lookup: what path p names, as a set of at most one record.
lookup(f, sec, p) ==
    LET d == parent(f, sec, p)
    IN IF d = NoDir THEN {}
       ELSE LET found == Named(load_dir(f, sec, d), Last(p))
            IN {r \in found : \A s \in found : r.offset =< s.offset}

\* data: the contents of a file; a chain that is broken or too short is an error.
Broken == <<"broken">>

data(f, sec, r) ==
    LET c == chain(f, r.cluster)
    IN IF ~IsChain(f, r.cluster) \/ Len(c) < r.size THEN Broken
       ELSE [i \in 1 .. r.size |-> sec[c[i]][1].value]

-----------------------------------------------------------------------------
(* Steps: what a call still has to do *)

\* The first entry of `copies` is the one that is read.
Table == disk.fat[geometry.copies[1]]

\* set, for one copy: the sector of the entry, or the two of them, the first alone
\* leaving the entry torn.
EntryWrites(copy, c) ==
    IF c \in geometry.straddle
    THEN <<[k |-> "torn", copy |-> copy, cluster |-> c], [k |-> "fat", copy |-> copy]>>
    ELSE <<[k |-> "fat", copy |-> copy]>>

FatWrites(c) == FlattenSeq([i \in DOMAIN geometry.copies |-> EntryWrites(geometry.copies[i], c)])

InfoWrites(v) == [i \in 1 .. geometry.infos |-> [k |-> "info", info |-> i, to |-> v]]

Set(c, v) == [k |-> "set", cluster |-> c, to |-> v]

Flag(b) == [k |-> "flag", to |-> b]

Tally(h, n) == [k |-> "tally", hint |-> h, free |-> n]

Put(at, slots) == [k |-> "sector", at |-> at, to |-> slots]

Call(f, c) == [k |-> f, cluster |-> c]

invalidate_hints == IF volume.hints_invalid THEN <<>> ELSE Append(InfoWrites(Unknown), Flag(TRUE))

sync_hints(n) == Append(InfoWrites(n), Flag(FALSE))

\* allocate: the free clusters from the hint on, wrapping around.
FromHint == [i \in 1 .. N |-> 2 + ((volume.hint + i - 3) % N)]

selected(count) ==
    LET free == SelectSeq(FromHint, LAMBDA c : volume.fat[c] = 0)
    IN IF Len(free) < count THEN <<>> ELSE SubSeq(free, 1, count)

Room(count) == Len(selected(count)) = count

\* Mutant: the hint is not wrapped around.
AllocateHintPastEnd(sel) ==
    IF sel = <<>> THEN <<>>
    ELSE LET left == volume.free_count - Len(sel)
         IN invalidate_hints
            \o [i \in DOMAIN sel |-> Set(sel[i], IF i = Len(sel) THEN Eof ELSE sel[i + 1])]
            \o <<Tally(Last(sel) + 1, left)>>
            \o sync_hints(left)

allocate(sel) ==
    IF sel = <<>> THEN <<>>
    ELSE LET left == volume.free_count - Len(sel)
         IN invalidate_hints
            \o [i \in DOMAIN sel |-> Set(sel[i], IF i = Len(sel) THEN Eof ELSE sel[i + 1])]
            \o <<Tally(2 + ((Last(sel) - 1) % N), left)>>
            \o sync_hints(left)

\* free: every cluster of the chain.
free(first) ==
    LET c == chain(volume.fat, first)
        h == Min({volume.hint} \cup ToSet(c))
        left == volume.free_count + Len(c)
    IN invalidate_hints
       \o [i \in DOMAIN c |-> Set(c[i], 0)]
       \o <<Tally(h, left)>>
       \o sync_hints(left)

\* write_data
write_data(sel, d) ==
    allocate(sel) \o [i \in DOMAIN sel |-> Put(sel[i], Bytes(d[i]))]

\* store_dir: the sectors of directory dir that hold entries lo .. hi, with the
\* entries of slots.
store_dir(f, dir, slots, lo, hi) ==
    LET at == DirSectors(f, dir)
        from == (lo - 1) \div EPS
    IN [i \in 1 .. ((hi - 1) \div EPS) + 1 - from |->
            Put(at[from + i], SubSeq(slots, (from + i - 1) * EPS + 1, (from + i) * EPS))]

\* slots with the entries set from s on.
Patched(slots, s, set) ==
    [i \in DOMAIN slots |-> IF i \in s .. s + Len(set) - 1 THEN set[i - s + 1] ELSE slots[i]]

\* insert: a new end mark if the old one is consumed, the long-name entries, and
\* the short entry last.
InsertWrites(f, dir, slots, start, set) ==
    LET end == start + Len(set)
        consumed == \E i \in start .. end - 1 : slots[i] = End
        marks == consumed /\ end =< Len(slots)
        marked == IF marks THEN [slots EXCEPT ![end] = End] ELSE slots
        prefix == SubSeq(set, 1, Len(set) - 1)
        named == Patched(marked, start, prefix)
    IN (IF marks THEN store_dir(f, dir, marked, end, end) ELSE <<>>)
       \o (IF prefix = <<>> THEN <<>> ELSE store_dir(f, dir, named, start, end - 2))
       \o store_dir(f, dir, Patched(named, end - 1, <<Last(set)>>), end - 1, end - 1)

-----------------------------------------------------------------------------
(* Mounting *)

\* probe: the table is read and its free entries are counted.
probe(f) ==
    [fat |-> f, hint |-> 2, free_count |-> Cardinality({c \in Clusters : f[c] = 0}),
     hints_invalid |-> FALSE, failed |-> FALSE]

\* The files on disk d.
FilesOn(d) ==
    LET f == d.fat[geometry.copies[1]] IN
    [p \in Paths |->
        LET found == lookup(f, d.sector, p)
            r == CHOOSE s \in found : TRUE
        IN IF found = {} THEN <<"absent">>
           ELSE IF r.attr = "dir" THEN <<"directory">>
           ELSE data(f, d.sector, r)]

Init ==
    /\ geometry \in Volumes
    /\ LET used == IF geometry.fat32 THEN {geometry.root} ELSE {}
           f == [c \in Clusters |-> IF c \in used THEN Eof ELSE 0]
       IN /\ disk = [fat |-> [i \in 1 .. 2 |-> f],
                     info |-> [i \in 1 .. geometry.infos |-> Cardinality(Clusters \ used)],
                     sector |-> [a \in Clusters \cup ToSet(RootSectors) |->
                        IF a = DirSectors(f, RootDir)[1] THEN geometry.entries ELSE Zero]]
          /\ volume = probe(f)
    /\ op = Idle
    /\ todo = <<>>
    /\ files = FilesOn(disk)
    /\ before = files
    /\ result = "ok"
    /\ faulted = FALSE

-----------------------------------------------------------------------------
(* The calls.  One that is refused before its first write changes nothing and *)
(* is not shown.                                                              *)

Start(kind, p, d, dir, attr, first, size, steps) ==
    /\ op' = [kind |-> kind, path |-> p, data |-> d, dir |-> dir, attr |-> attr,
              first |-> first, size |-> size, publishing |-> FALSE, result |-> "ok"]
    /\ todo' = steps
    /\ before' = files
    /\ UNCHANGED <<geometry, disk, volume, files, result, faulted>>

\* A call may begin; check refuses it after a failed write.
Ready == op = Idle /\ ~volume.failed

First(sel) == IF sel = <<>> THEN 0 ELSE sel[1]

Found(p) == lookup(volume.fat, disk.sector, p)

\* create
create(kind, p, d) ==
    LET dir == parent(volume.fat, disk.sector, p)
        sel == selected(Len(d))
    IN /\ Ready
       /\ dir # NoDir /\ Found(p) = {}
       /\ Room(Len(d))
       /\ Start(kind, p, d, dir, "file", First(sel), Len(d), write_data(sel, d) \o <<Call("insert", 0)>>)

\* Mutant: the old chain is freed before the entry names the new one.
OverwriteFreesFirst(kind, p, d, r, new) ==
    LET sel == selected(Len(new))
    IN /\ Ready
       /\ r.attr = "file"
       /\ Room(Len(new))
       /\ Start(kind, p, d, parent(volume.fat, disk.sector, p), "file", First(sel), Len(new),
                write_data(sel, new) \o <<Call("free", r.cluster), Call("update", r.offset)>>)

\* overwrite of record r with contents new: the old chain is freed last.
overwrite(kind, p, d, r, new) ==
    LET sel == selected(Len(new))
    IN /\ Ready
       /\ r.attr = "file"
       /\ Room(Len(new))
       /\ Start(kind, p, d, parent(volume.fat, disk.sector, p), "file", First(sel), Len(new),
                write_data(sel, new) \o <<Call("update", r.offset), Call("free", r.cluster)>>)

write_file(p, d) ==
    \/ create("write", p, d)
    \/ \E r \in Found(p) : overwrite("write", p, d, r, d)

append_file(p, d) ==
    \/ create("append", p, d)
    \/ \E r \in Found(p) :
        LET old == data(volume.fat, disk.sector, r)
        IN /\ r.attr # "dir" /\ old # Broken
           /\ Len(old) + Len(d) =< MAX_FILE
           /\ overwrite("append", p, d, r, old \o d)

mkdir(p) ==
    LET dir == parent(volume.fat, disk.sector, p)
        sel == selected(1)
    IN /\ Ready
       /\ dir # NoDir /\ Found(p) = {}
       /\ Room(1)
       /\ Start("mkdir", p, <<>>, dir, "dir", sel[1], 0,
                allocate(sel)
                \o <<Put(sel[1], Dots(sel[1], IF dir.root THEN 0 ELSE dir.cluster)),
                     Call("insert", 0)>>)

\* delete: the entries first, then the chain, which is checked before.
delete(p) ==
    \E r \in Found(p) :
        LET dir == parent(volume.fat, disk.sector, p)
            slots == load_dir(volume.fat, disk.sector, dir)
            gone == [i \in 1 .. r.offset + 1 - r.start |-> Deleted]
        IN /\ Ready
           /\ r.attr # "ro"
           /\ r.attr = "dir" =>
                records(load_dir(volume.fat, disk.sector, [cluster |-> r.cluster, root |-> FALSE])) = {}
           /\ IsChain(volume.fat, r.cluster)
           /\ Start("delete", p, <<>>, dir, r.attr, 0, 0,
                    store_dir(volume.fat, dir, Patched(slots, r.start, gone), r.start, r.offset)
                    \o <<Call("free", r.cluster)>>)

-----------------------------------------------------------------------------
(* The steps of a call *)

At(kinds) == op # Idle /\ todo # <<>> /\ Head(todo).k \in kinds

Return(r) ==
    /\ op' = Idle
    /\ todo' = <<>>
    /\ result' = r
    /\ before' = files'

\* The call returns Err with the volume still usable: while it publishes, what it
\* has allocated is freed; otherwise it is lost.
SoftError ==
    /\ UNCHANGED <<geometry, disk, volume, files>>
    /\ IF op.publishing
       THEN /\ op' = [op EXCEPT !.publishing = FALSE, !.result = "err"]
            /\ todo' = <<Call("free", op.first)>>
            /\ UNCHANGED <<before, result>>
       ELSE Return("err")

\* Bookkeeping in memory; set is followed by a write of every copy in use.
MemoryStep ==
    /\ At({"set", "flag", "tally"})
    /\ LET s == Head(todo) IN
        /\ volume' = CASE s.k = "set" -> [volume EXCEPT !.fat[s.cluster] = s.to]
                       [] s.k = "flag" -> [volume EXCEPT !.hints_invalid = s.to]
                       [] s.k = "tally" -> [volume EXCEPT !.hint = s.hint, !.free_count = s.free]
        /\ todo' = (IF s.k = "set" THEN FatWrites(s.cluster) ELSE <<>>) \o Tail(todo)
    /\ UNCHANGED <<geometry, disk, op, files, before, result, faulted>>

\* A torn entry has the low bits of its new value and the high bits of the old one,
\* which make up one of the two, another cluster or no cluster.
TornValues(old, new) == Clusters \cup {Bad, old, new}

\* The disk after the write that is next.
Written ==
    LET s == Head(todo) IN
    CASE s.k = "fat" -> {[disk EXCEPT !.fat[s.copy] = volume.fat]}
      [] s.k = "torn" -> {[disk EXCEPT !.fat[s.copy][s.cluster] = v] :
                            v \in TornValues(disk.fat[s.copy][s.cluster], volume.fat[s.cluster])}
      [] s.k = "info" -> {[disk EXCEPT !.info[s.info] = s.to]}
      [] s.k = "sector" -> {[disk EXCEPT !.sector[s.at] = s.to]}

DiskBecomes(d) == disk' = d /\ files' = FilesOn(d)

Writes == {"fat", "torn", "info", "sector"}

write_sector ==
    /\ At(Writes)
    /\ \E d \in Written : DiskBecomes(d)
    /\ todo' = Tail(todo)
    /\ UNCHANGED <<geometry, volume, op, before, result, faulted>>

\* A write that is reported as failed may have reached the disk.  The volume
\* stops.
write_sector_fails ==
    /\ At(Writes)
    /\ \E d \in {disk} \cup Written : DiskBecomes(d)
    /\ volume' = [volume EXCEPT !.failed = TRUE]
    /\ Return("err")
    /\ faulted' = TRUE
    /\ UNCHANGED geometry

\* A read fails: of an FSInfo sector before it is rewritten, or of the directory
\* in insert and update.
read_fails ==
    /\ \/ At({"info"})
       \/ At({"insert", "update"}) /\ op.publishing
    /\ SoftError
    /\ faulted' = TRUE

\* insert and update begin: from here on errors give the new clusters back.
Publish ==
    /\ At({"insert", "update"}) /\ ~op.publishing
    /\ op' = [op EXCEPT !.publishing = TRUE]
    /\ UNCHANGED <<geometry, disk, volume, todo, files, before, result, faulted>>

Slots == load_dir(volume.fat, disk.sector, op.dir)

Name == Last(op.path)

FreeSlots == free_slots(Slots, Lfn[Name] + 1)

\* insert: the entry set is written where it fits.
insert ==
    /\ At({"insert"}) /\ op.publishing
    /\ FreeSlots # 0
    /\ LET set == entry_set(Name, short_name(Name, Slots), op.attr, op.first,
                            op.size)
       IN todo' = InsertWrites(volume.fat, op.dir, Slots, FreeSlots, set) \o Tail(todo)
    /\ UNCHANGED <<geometry, disk, volume, op, files, before, result, faulted>>

MayGrow == ~FixedRoot(op.dir) /\ Len(Slots) < MAX_METADATA * EPS /\ Room(1)

\* insert: a cluster is added to the directory, zeroed and then linked.
InsertGrows ==
    /\ At({"insert"}) /\ op.publishing
    /\ FreeSlots = 0 /\ MayGrow
    /\ LET new == selected(1)[1]
           tail == Last(chain(volume.fat, op.dir.cluster))
       IN todo' = allocate(<<new>>) \o <<Put(new, Zero), Set(tail, new)>> \o todo
    /\ UNCHANGED <<geometry, disk, volume, op, files, before, result, faulted>>

InsertFull ==
    /\ At({"insert"}) /\ op.publishing
    /\ FreeSlots = 0 /\ ~MayGrow
    /\ SoftError
    /\ UNCHANGED faulted

\* update: the entry is rewritten in place.
update ==
    /\ At({"update"}) /\ op.publishing
    /\ LET i == Head(todo).cluster
           new == [Slots EXCEPT ![i].cluster = op.first, ![i].size = op.size]
       IN todo' = store_dir(volume.fat, op.dir, new, i, i) \o Tail(todo)
    /\ UNCHANGED <<geometry, disk, volume, op, files, before, result, faulted>>

\* free begins.  Errors from here on leave the rest of the chain lost.
BeginFree ==
    /\ At({"free"})
    /\ op' = [op EXCEPT !.publishing = FALSE]
    /\ todo' = free(Head(todo).cluster) \o Tail(todo)
    /\ UNCHANGED <<geometry, disk, volume, files, before, result, faulted>>

Finish ==
    /\ op # Idle /\ todo = <<>>
    /\ UNCHANGED <<geometry, disk, volume, files, faulted>>
    /\ Return(op.result)

\* Power fails, and the volume is mounted again.
Crash ==
    /\ op # Idle \/ volume.failed
    /\ volume' = probe(Table)
    /\ op' = Idle
    /\ todo' = <<>>
    /\ before' = files
    /\ faulted' = TRUE
    /\ UNCHANGED <<geometry, disk, files, result>>

Next ==
    \/ \E p \in geometry.paths, d \in geometry.data : create("create", p, d) \/ write_file(p, d) \/ append_file(p, d)
    \/ \E p \in geometry.paths : mkdir(p) \/ delete(p)
    \/ MemoryStep \/ write_sector \/ write_sector_fails \/ read_fails
    \/ Publish \/ insert \/ InsertGrows \/ InsertFull \/ update \/ BeginFree
    \/ Finish \/ Crash

Spec == Init /\ [][Next]_vars

-----------------------------------------------------------------------------
(* Properties *)

\* The directories on the disk, and every record in them with its directory.
Dirs ==
    {RootDir} \cup {[cluster |-> r.cluster, root |-> FALSE] :
        r \in {s \in records(load_dir(Table, disk.sector, RootDir)) : s.attr = "dir"}}

Entries == UNION {{<<d, r>> : r \in records(load_dir(Table, disk.sector, d))} : d \in Dirs}

Owned(e) == ToSet(chain(Table, e[2].cluster))

RootClusters == IF geometry.fat32 THEN ToSet(chain(Table, geometry.root)) ELSE {}

\* Whatever fails, and whenever power goes, every entry on the disk has its own
\* unbroken chain of the length it states: an interrupted write leaves lost
\* clusters and nothing worse ("publish new data before releasing old
\* allocations"), and without faults not even those.
FatSpace ==
    /\ \A e \in Entries :
        /\ IsChain(Table, e[2].cluster)
        /\ e[2].attr # "dir" => Cardinality(Owned(e)) = e[2].size
        /\ Owned(e) \cap RootClusters = {}
        /\ \A g \in Entries : e = g \/ Owned(e) \cap Owned(g) = {}
    /\ op = Idle /\ ~faulted =>
        {c \in Clusters : Table[c] # 0} = RootClusters \cup UNION {Owned(e) : e \in Entries}

\* Between calls a volume that has not stopped caches the table that is on the
\* disk, and its free count and its hint fit it.
FatCache ==
    op = Idle /\ ~volume.failed =>
        /\ volume.fat = Table
        /\ volume.free_count = Cardinality({c \in Clusters : Table[c] = 0})
        /\ volume.hint \in Clusters
        /\ ~faulted => \A i \in DOMAIN geometry.copies : disk.fat[geometry.copies[i]] = Table
=============================================================================
