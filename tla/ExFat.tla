------------------------------- MODULE ExFat -------------------------------
(***************************************************************************)
(* The exFAT driver (fs/exfat.rs).  It keeps nothing in memory between     *)
(* requests: every call reads what it needs from the disk, writes sector   *)
(* by sector, and undoes its allocations when a request fails.  A request  *)
(* fails with an error, and the next one may succeed; or it times out,     *)
(* and the virtio queue is poisoned: nothing reaches the disk until the    *)
(* next boot (VirtioBlk).  Power may go between any two writes.            *)
(*                                                                         *)
(* Calls that change the volume do not overlap.  It is not VOLUME that     *)
(* sees to that, which write_file and append_file release and take again,  *)
(* but their callers: demo, at boot, and then the one shell task.          *)
(*                                                                         *)
(* A cluster is one sector, lengths are counted in clusters, the bitmap    *)
(* has one or more sectors, an entry of the allocation table lies in one,  *)
(* and an entry set has three entries.                                     *)
(***************************************************************************)
EXTENDS Naturals, FiniteSets, SequencesExt

CONSTANTS
    Paths,       \* what clients name
    MAX_FILE,    \* longest file clients write, in clusters
    Volumes,     \* [count: clusters, eps: entries per sector, bits: clusters per bitmap
                 \*  sector, transient: requests fail and succeed again, lands: a write that
                 \*  is answered with an error may have been done, paths, data: what clients
                 \*  name and write on it]
    LookupFails, \* append_file's first look-up may fail
    Idle

VARIABLES
    geometry,    \* one of Volumes
    disk,        \* [fat, bitmap, sector]
    device,      \* "up", or "gone" after a timeout
    op,          \* the call under way, or Idle
    todo,        \* what it still has to do
    files,       \* what a mount of the disk would show (auxiliary)
    before, result, \* files when the call under way began; what the last call returned
    leaked       \* clusters may be lost: power went, or an undo or a release failed, or a
                 \* bitmap_set after its first sector

vars == <<geometry, disk, device, op, todo, files, before, result, leaked>>

N == geometry.count     \* number of clusters

Clusters == 2 .. N + 1

Root == 2        \* where the root directory begins

EntriesPerSector == geometry.eps

FAT_EOF == 1

-----------------------------------------------------------------------------
(* Directories *)

End == [k |-> "end"]

Unused == [k |-> "unused"]

FileEntry(attr) == [k |-> "file", attr |-> attr]

Stream(first, len, contiguous) ==
    [k |-> "stream", first |-> first, len |-> len, no_fat_chain |-> contiguous]

NameEntry(n) == [k |-> "name", name |-> n]

Zero == [i \in 1 .. EntriesPerSector |-> End]

Bytes(v) == [i \in 1 .. EntriesPerSector |-> [k |-> "bytes", value |-> v]]

build_entry_set(n, attr, first, len, contiguous) ==
    <<FileEntry(attr), Stream(first, len, contiguous), NameEntry(n)>>

Shown(slots, i) == \A j \in 1 .. i : slots[j] # End

\* parse_entries: the sets all of whose entries are in use.
parse_entries(slots) ==
    {[name |-> slots[i + 2].name, attr |-> slots[i].attr, first |-> slots[i + 1].first,
      len |-> slots[i + 1].len, no_fat_chain |-> slots[i + 1].no_fat_chain, offset |-> i] :
        i \in {j \in 1 .. Len(slots) - 2 :
            /\ Shown(slots, j)
            /\ slots[j].k = "file" /\ slots[j + 1].k = "stream" /\ slots[j + 2].k = "name"}}

\* One more cluster of a chain that begins with p, unless p ends or the next one repeats.
Extended(f, p) == IF f[Last(p)] \in Clusters \ ToSet(p) THEN Append(p, f[Last(p)]) ELSE p

\* collect_chain: contiguous clusters, or along the table f.
collect_chain(f, r) ==
    LET w[n \in 0 .. N] == IF n = 0 THEN <<r.first>> ELSE Extended(f, w[n - 1])
    IN IF r.first < 2 THEN <<>>
       ELSE IF r.no_fat_chain THEN [i \in 1 .. r.len |-> r.first + i - 1]
       ELSE w[N]

root_ref == [first |-> Root, no_fat_chain |-> FALSE, len |-> 0, is_root |-> TRUE]

dir_ref_of(r) ==
    [first |-> r.first, no_fat_chain |-> r.no_fat_chain, len |-> r.len, is_root |-> FALSE]

NoDir == [first |-> 0, no_fat_chain |-> FALSE, len |-> 0, is_root |-> FALSE]

load_dir(d, dir) ==
    LET c == collect_chain(d.fat, dir) IN FlattenSeq([i \in DOMAIN c |-> d.sector[c[i]]])

Named(d, dir, n) == {r \in parse_entries(load_dir(d, dir)) : r.name = n}

\* resolve_parent: the directory that holds the last component of p.
resolve_parent(d, p) ==
    IF Len(p) = 1 THEN root_ref
    ELSE LET up == {r \in Named(d, root_ref, p[1]) : r.attr = "dir"}
         IN IF up = {} THEN NoDir ELSE dir_ref_of(CHOOSE r \in up : TRUE)

\* lookup: what p names, at most one entry.
lookup(d, p) ==
    LET dir == resolve_parent(d, p)
        found == Named(d, dir, Last(p))
    IN IF dir = NoDir THEN {} ELSE {r \in found : \A s \in found : r.offset =< s.offset}

\* read_file_inner
contents(d, r) ==
    LET c == collect_chain(d.fat, r)
    IN [i \in 1 .. r.len |-> d.sector[c[i]][1].value]

FilesOn(d) ==
    [p \in Paths |->
        LET found == lookup(d, p)
            r == CHOOSE s \in found : TRUE
        IN IF found = {} THEN <<"absent">>
           ELSE IF r.attr = "dir" THEN <<"directory">>
           ELSE contents(d, r)]

Init ==
    /\ geometry \in Volumes
    /\ disk = [fat |-> [c \in Clusters |-> IF c = Root THEN FAT_EOF ELSE 0],
               bitmap |-> {Root},
               sector |-> [c \in Clusters |-> Zero]]
    /\ device = "up"
    /\ op = Idle
    /\ todo = <<>>
    /\ files = FilesOn(disk)
    /\ before = files
    /\ result = "ok"
    /\ leaked = FALSE

-----------------------------------------------------------------------------
(* Steps: requests to the disk, with what to do when one fails *)

\* bitmap_set: a write for every sector of the bitmap that has bits of S, in order, until
\* one fails.
Bitmap(S, b) == [k |-> "bitmap", clusters |-> S, to |-> b, later |-> FALSE]

SectorOfBit(c) == (c - 2) \div geometry.bits

InFirstSector(S) == {c \in S : \A e \in S : SectorOfBit(c) =< SectorOfBit(e)}

FatWrite(c, v) == [k |-> "fat", cluster |-> c, to |-> v]

Put(c, slots) == [k |-> "sector", cluster |-> c, to |-> slots]

\* Requests whose failure ends the call after undoing u.
Must(steps, u) == [i \in DOMAIN steps |-> steps[i] @@ [must |-> TRUE, undo |-> u]]

\* Requests whose failure is ignored.
Try(steps) == [i \in DOMAIN steps |-> steps[i] @@ [must |-> FALSE, undo |-> <<>>]]

\* A function of the driver that reads before it writes.
Call(f, arg, u) == <<[k |-> f, arg |-> arg, undo |-> u]>>

\* bitmap_alloc: the first run of count free clusters, as a set.
Runs(count) ==
    {c \in Clusters : c + count - 1 =< N + 1 /\ c .. c + count - 1 \cap disk.bitmap = {}}

Room(count) == count = 0 \/ Runs(count) # {}

bitmap_alloc(count) ==
    LET c == CHOOSE s \in Runs(count) : \A t \in Runs(count) : s =< t
    IN IF count = 0 THEN {} ELSE c .. c + count - 1

First(run) == IF run = {} THEN 0 ELSE CHOOSE c \in run : \A e \in run : c =< e

rollback_contiguous(run) == IF run = {} THEN <<>> ELSE Try(<<Bitmap(run, FALSE)>>)

\* write_data_contiguous
write_data_contiguous(run, d) ==
    IF run = {} THEN <<>>
    ELSE Must(<<Bitmap(run, TRUE)>>, <<>>)
         \o Must([i \in DOMAIN d |-> Put(First(run) + i - 1, Bytes(d[i]))], rollback_contiguous(run))

\* store_dir_range: the sectors with entries lo .. hi of directory dir.
store_dir_range(dir, slots, lo, hi) ==
    LET c == collect_chain(disk.fat, dir)
        from == (lo - 1) \div EntriesPerSector
    IN [i \in 1 .. ((hi - 1) \div EntriesPerSector) + 1 - from |->
            Put(c[from + i], SubSeq(slots, (from + i - 1) * EntriesPerSector + 1,
                                           (from + i) * EntriesPerSector))]

Patched(slots, s, set) ==
    [i \in DOMAIN slots |-> IF i \in s .. s + Len(set) - 1 THEN set[i - s + 1] ELSE slots[i]]

\* place_entry_set: a run of unused entries, or the place of the end mark.
PlaceAt(slots, needed) ==
    LET runs == {s \in 1 .. Len(slots) + 1 - needed :
                    \A i \in s .. s + needed - 1 : slots[i] = Unused /\ Shown(slots, i)}
        ends == {i \in DOMAIN slots : slots[i] = End} \cup {Len(slots) + 1}
    IN CHOOSE s \in IF runs # {} THEN runs ELSE ends :
            \A t \in IF runs # {} THEN runs ELSE ends : s =< t

-----------------------------------------------------------------------------
(* The calls.  One that is refused before its first write changes nothing and *)
(* is not shown.                                                              *)

Start(kind, p, d, steps) ==
    /\ op' = [kind |-> kind, path |-> p, data |-> d, result |-> "ok"]
    /\ todo' = steps
    /\ before' = files
    /\ UNCHANGED <<geometry, disk, device, files, result>>

Ready == op = Idle /\ device = "up"

Parent(p) == resolve_parent(disk, p)

Found(p) == lookup(disk, p)

create_file(kind, p, d) ==
    LET run == bitmap_alloc(Len(d))
        set == build_entry_set(Last(p), "file", First(run), Len(d), run # {})
    IN /\ Ready
       /\ Parent(p) # NoDir /\ Found(p) = {}
       /\ Room(Len(d))
       /\ Start(kind, p, d, write_data_contiguous(run, d)
                            \o Call("place", <<Parent(p), set>>, rollback_contiguous(run)))

\* Mutant: the old clusters are freed before the entry names the new ones.
OverwriteFreesFirst(kind, p, d, r, new) ==
    LET run == bitmap_alloc(Len(new))
    IN /\ Ready
       /\ r.attr = "file"
       /\ Room(Len(new))
       /\ Start(kind, p, d,
                write_data_contiguous(run, new)
                \o Call("free", r, <<>>)
                \o Call("update", <<Parent(p), r.offset, Stream(First(run), Len(new), run # {})>>,
                        rollback_contiguous(run)))

\* write_file over entry r: new clusters, then the entry, then the old clusters.
OverwriteWith(kind, p, d, r, new) ==
    LET run == bitmap_alloc(Len(new))
    IN /\ Ready
       /\ r.attr = "file"
       /\ Room(Len(new))
       /\ Start(kind, p, d,
                write_data_contiguous(run, new)
                \o Call("update", <<Parent(p), r.offset, Stream(First(run), Len(new), run # {})>>,
                        rollback_contiguous(run))
                \o Call("free", r, <<>>))

WriteWith(kind, p, d) ==
    \/ create_file(kind, p, d)
    \/ \E r \in Found(p) : OverwriteWith(kind, p, d, r, d)

write_file(p, d) == WriteWith("write", p, d) /\ UNCHANGED leaked

append_file(p, d) ==
    /\ \/ create_file("append", p, d)
       \/ \E r \in Found(p) :
            /\ r.attr = "file" /\ r.len + Len(d) =< MAX_FILE
            /\ OverwriteWith("append", p, d, r, contents(disk, r) \o d)
    /\ UNCHANGED leaked

\* A read fails in append_file's look-up, which then finds no file; write_file
\* looks again.
append_lookup_fails(p, d) ==
    /\ LookupFails /\ geometry.transient
    /\ WriteWith("append", p, d)
    /\ UNCHANGED leaked

mkdir(p) ==
    LET c == First(bitmap_alloc(1))
        undo == Try(<<FatWrite(c, 0), Bitmap({c}, FALSE)>>)
    IN /\ Ready
       /\ Parent(p) # NoDir /\ Found(p) = {}
       /\ Room(1)
       /\ Start("mkdir", p, <<>>,
                Must(<<Bitmap({c}, TRUE)>>, <<>>)
                \o Must(<<Put(c, Zero), FatWrite(c, FAT_EOF)>>, undo)
                \o Call("place", <<Parent(p), build_entry_set(Last(p), "dir", c, 1, FALSE)>>, undo))
       /\ UNCHANGED leaked

\* delete: the entries first, then the clusters.
delete(p) ==
    \E r \in Found(p) :
        LET slots == load_dir(disk, Parent(p))
        IN /\ Ready
           /\ r.attr = "dir" => parse_entries(load_dir(disk, dir_ref_of(r))) = {}
           /\ Start("delete", p, <<>>,
                    Must(store_dir_range(Parent(p), Patched(slots, r.offset, <<Unused, Unused, Unused>>),
                                         r.offset, r.offset + 2), <<>>)
                    \o Call("free", r, <<>>))
           /\ UNCHANGED leaked

-----------------------------------------------------------------------------
(* The steps of a call *)

At(kinds) == op # Idle /\ todo # <<>> /\ Head(todo).k \in kinds

Requests == {"bitmap", "fat", "sector"}

Written ==
    LET s == Head(todo) IN
    CASE s.k = "bitmap" -> [disk EXCEPT !.bitmap = IF s.to THEN @ \cup InFirstSector(s.clusters)
                                                           ELSE @ \ InFirstSector(s.clusters)]
      [] s.k = "fat" -> [disk EXCEPT !.fat[s.cluster] = s.to]
      [] s.k = "sector" -> [disk EXCEPT !.sector[s.cluster] = s.to]

DiskBecomes(d) == disk' = d /\ files' = FilesOn(d)

\* The call gives up and undoes u.
GiveUp(u) ==
    /\ op' = [op EXCEPT !.result = "err"]
    /\ todo' = u

\* What is left to do once the request at the head of todo is done.
Rest ==
    LET s == Head(todo)
    IN IF s.k = "bitmap" /\ s.clusters # InFirstSector(s.clusters)
       THEN <<[s EXCEPT !.clusters = @ \ InFirstSector(@), !.later = TRUE]>> \o Tail(todo)
       ELSE Tail(todo)

\* What the driver does when the request at the head of todo fails.
Failed ==
    IF Head(todo).must THEN GiveUp(Head(todo).undo)
    ELSE todo' = Tail(todo) /\ UNCHANGED op

write_sector ==
    /\ At(Requests) /\ device = "up"
    /\ DiskBecomes(Written)
    /\ todo' = Rest
    /\ UNCHANGED <<geometry, device, op, before, result, leaked>>

\* The device reports an error.  The sector keeps what it had, unless writes land.
RequestFails ==
    /\ At(Requests) /\ device = "up" /\ geometry.transient
    /\ \E d \in IF geometry.lands THEN {disk, Written} ELSE {disk} : DiskBecomes(d)
    /\ Failed
    /\ leaked' = (leaked \/ ~Head(todo).must \/ (At({"bitmap"}) /\ Head(todo).later))
    /\ UNCHANGED <<geometry, device, before, result>>

\* The request times out, done or not, and the device is given up.
RequestTimesOut ==
    /\ At(Requests) /\ device = "up"
    /\ \E d \in {disk, Written} : DiskBecomes(d)
    /\ device' = "gone"
    /\ Failed
    /\ leaked' = TRUE
    /\ UNCHANGED <<geometry, before, result>>

RequestRefused ==
    /\ At(Requests) /\ device = "gone"
    /\ Failed
    /\ UNCHANGED <<geometry, disk, device, files, before, result, leaked>>

\* place_entry_set
place_entry_set ==
    /\ At({"place"}) /\ device = "up"
    /\ LET s == Head(todo)
           dir == s.arg[1]
           set == s.arg[2]
           slots == load_dir(disk, dir)
           at == PlaceAt(slots, Len(set))
           new == First(bitmap_alloc(1))
           tail == Last(collect_chain(disk.fat, dir))
           undo == Try(<<FatWrite(new, 0), Bitmap({new}, FALSE)>>) \o s.undo
       IN IF at + Len(set) - 1 =< Len(slots)
          THEN /\ todo' = Must(store_dir_range(dir, Patched(slots, at, set), at, at + Len(set) - 1),
                               s.undo) \o Tail(todo)
               /\ UNCHANGED op
          ELSE IF dir.is_root /\ Room(1)
          THEN /\ todo' = Must(<<Bitmap({new}, TRUE)>>, s.undo)
                          \o Must(<<Put(new, Zero), FatWrite(new, FAT_EOF), FatWrite(tail, new)>>, undo)
                          \o todo
               /\ UNCHANGED op
          ELSE GiveUp(s.undo)
    /\ UNCHANGED <<geometry, disk, device, files, before, result, leaked>>

\* update_stream_entry
update_stream_entry ==
    /\ At({"update"}) /\ device = "up"
    /\ LET s == Head(todo)
           slots == load_dir(disk, s.arg[1])
           at == s.arg[2]
       IN todo' = Must(store_dir_range(s.arg[1], [slots EXCEPT ![at + 1] = s.arg[3]], at, at + 2),
                       s.undo) \o Tail(todo)
    /\ UNCHANGED <<geometry, disk, device, op, files, before, result, leaked>>

\* free_clusters
free_clusters ==
    /\ At({"free"}) /\ device = "up"
    /\ LET r == Head(todo).arg
           c == collect_chain(disk.fat, r)
       IN todo' = (IF c = <<>> THEN <<>> ELSE Try(<<Bitmap(ToSet(c), FALSE)>>))
                  \o (IF r.no_fat_chain THEN <<>> ELSE Try([i \in DOMAIN c |-> FatWrite(c[i], 0)]))
                  \o Tail(todo)
    /\ UNCHANGED <<geometry, disk, device, op, files, before, result, leaked>>

\* A read of one of these three fails: the first two give up, the last frees
\* nothing.
CallReadFails ==
    /\ At({"place", "update", "free"})
    /\ geometry.transient \/ device = "gone"
    /\ IF At({"free"}) THEN todo' = Tail(todo) /\ UNCHANGED op ELSE GiveUp(Head(todo).undo)
    /\ leaked' = (leaked \/ At({"free"}))
    /\ UNCHANGED <<geometry, disk, device, files, before, result>>

Finish ==
    /\ op # Idle /\ todo = <<>>
    /\ op' = Idle
    /\ result' = op.result
    /\ before' = files
    /\ UNCHANGED <<geometry, disk, device, todo, files, leaked>>

\* Power fails; the next boot mounts the volume.
Crash ==
    /\ op # Idle \/ device = "gone"
    /\ device' = "up"
    /\ op' = Idle
    /\ todo' = <<>>
    /\ before' = files
    /\ leaked' = TRUE
    /\ UNCHANGED <<geometry, disk, files, result>>

Next ==
    \/ \E p \in geometry.paths, d \in geometry.data :
        \/ create_file("create", p, d) /\ UNCHANGED leaked
        \/ write_file(p, d) \/ append_file(p, d) \/ append_lookup_fails(p, d)
    \/ \E p \in geometry.paths : mkdir(p) \/ delete(p)
    \/ write_sector \/ RequestFails \/ RequestTimesOut \/ RequestRefused
    \/ place_entry_set \/ update_stream_entry \/ free_clusters \/ CallReadFails
    \/ Finish \/ Crash

Spec == Init /\ [][Next]_vars

-----------------------------------------------------------------------------
(* Properties *)

Dirs ==
    {root_ref} \cup {dir_ref_of(r) :
        r \in {s \in parse_entries(load_dir(disk, root_ref)) : s.attr = "dir"}}

Entries == UNION {{<<d, r>> : r \in parse_entries(load_dir(disk, d))} : d \in Dirs}

Owned(e) == ToSet(collect_chain(disk.fat, e[2]))

RootClusters == ToSet(collect_chain(disk.fat, root_ref))

\* Whatever fails, every entry on the disk has clusters of its own that the
\* bitmap shows as allocated ("never a live entry pointing at freed space",
\* delete).  A call that fails undoes what it allocated and one that succeeds
\* releases what it replaced: unless power went, an undo or a release itself failed,
\* or an allocation failed after the first of its bitmap sectors, no cluster is
\* allocated without an owner.
ExfatSpace ==
    /\ RootClusters \subseteq disk.bitmap
    /\ \A e \in Entries :
        /\ Owned(e) \subseteq disk.bitmap \ RootClusters
        /\ \A g \in Entries : e = g \/ Owned(e) \cap Owned(g) = {}
    /\ op = Idle /\ ~leaked =>
        /\ disk.bitmap = RootClusters \cup UNION {Owned(e) : e \in Entries}
        /\ \A c \in Clusters : disk.fat[c] # 0 => c \in disk.bitmap
=============================================================================
