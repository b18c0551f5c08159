--------------------------- MODULE MCFileSystems ---------------------------
(***************************************************************************)
(* Small volumes for FileSystems.  Two directory entries to a FAT sector   *)
(* make directories grow and entry sets cross sectors; on exFAT the three  *)
(* entries of a set fill a sector, or cross one when there are four.       *)
(***************************************************************************)
EXTENDS FileSystems

MCLfn == [n \in {"a", "d", "Long", "old"} |-> IF n = "Long" THEN 1 ELSE 0]

A == <<"a">>
D == <<"d">>
DA == <<"d", "a">>
L == <<"Long">>
DL == <<"d", "Long">>
Old == <<"old">>

MCPaths == {A, D, DA, L, DL, Old}

X1 == {<<"x">>}
X2 == {<<"x">>, <<"y", "x">>}

\* The end mark of Fat, and a directory's first sector with it alone.
EndMark == [k |-> "end"]

Empty == <<EndMark, EndMark>>

\* What is behind the end mark is unspecified.
Stale == <<EndMark, [k |-> "short", alias |-> "old", attr |-> "file", cluster |-> 0, size |-> 0]>>

Fat32(n, mirrors, infos, entries, paths, data) ==
    [fat32 |-> TRUE, count |-> n, copies |-> mirrors, infos |-> infos, root |-> 2,
     entries |-> entries, straddle |-> {}, paths |-> paths, data |-> data]

\* FAT16, and FAT12 with some entries across two sectors.
Fat12(n, copies, straddle, paths, data) ==
    [fat32 |-> FALSE, count |-> n, copies |-> copies, infos |-> 0, root |-> 1,
     entries |-> Empty, straddle |-> straddle, paths |-> paths, data |-> data]
Fat16(n, paths, data) == Fat12(n, <<1>>, {}, paths, data)

MCFatVolumes ==
    {Fat32(4, <<1, 2>>, 1, Stale, {A}, X1), Fat32(4, <<2>>, 0, Empty, {A}, X2),
     Fat32(4, <<1>>, 0, Empty, {D, DL}, X1), Fat32(3, <<1>>, 0, Empty, {A, L}, X1),
     Fat16(2, {A, L}, X1), Fat12(2, <<1>>, {2, 3}, {A}, X2)}

\* The entry of a directory's only cluster lies across two sectors.
GrowingFat12 == {Fat12(4, <<1>>, {2}, {D, DL}, X1)}

ExFat(n, eps, bits, transient, paths, data) ==
    [count |-> n, eps |-> eps, bits |-> bits, transient |-> transient, lands |-> FALSE,
     paths |-> paths, data |-> data]

MCExFatVolumes ==
    {ExFat(3, 3, 8, TRUE, {D, DA}, X1), ExFat(3, 3, 8, TRUE, {A, D}, X1),
     ExFat(3, 3, 8, TRUE, {A}, X1 \cup {<<>>}), ExFat(4, 3, 2, TRUE, {A}, X2),
     ExFat(4, 4, 8, FALSE, {A, D}, X1)}

OneSector == ExFat(4, 3, 8, TRUE, {A}, X2)

AppendVolumes == {OneSector}

\* An entry set across two sectors; and writes that are done in spite of an error.
EntryUpdates == {ExFat(4, 2, 8, TRUE, {A}, {<<"x">>, <<"y">>}), [OneSector EXCEPT !.lands = TRUE]}

NoVolumes == {}
=============================================================================
