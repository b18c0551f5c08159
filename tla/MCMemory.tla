------------------------------ MODULE MCMemory ------------------------------
EXTENDS Memory

R(a, b) == [start |-> a, end |-> b]

MCMaps ==
    {[usable |-> <<R(0, 15)>>, reserved |-> <<R(3, 4)>>],
     [usable |-> <<R(1, 4), R(5, 17)>>, reserved |-> <<R(6, 7), R(2, 3)>>],
     [usable |-> <<R(4, 6), R(6, 12)>>, reserved |-> <<>>]}

MCLayouts == {[size |-> 2, align |-> 1], [size |-> 3, align |-> 2], [size |-> 2, align |-> 8]}

\* Program headers: kind, flags, vaddr, memsz, filesz, offset, align.
Hd(kind, flags, vaddr, memsz, filesz, offset, align) ==
    [kind |-> kind, flags |-> flags, vaddr |-> vaddr, memsz |-> memsz, filesz |-> filesz,
     offset |-> offset, align |-> align]

RX == {"R", "X"}

RW == {"R", "W"}

Elf(pie, entry, headers, tags, rela) ==
    [kind |-> "elf", pie |-> pie, entry |-> entry, headers |-> headers, file |-> <<11, 12, 13, 14>>,
     tags |-> tags, rela |-> rela]

\* Two segments near address b that may overlap, share a page or stick out of the
\* file or the window.
Code(b) == {Hd("load", RX, b + v, m, 2, v, al) : v \in 0 .. 1, m \in 2 .. 3, al \in {1, 4}}

Data(b) == {Hd("load", fl, b + v, m, f, 1, 1) : fl \in {RW, RW \cup RX}, v \in 2 .. 4,
                                                m \in 1 .. 3, f \in {0, 1, 3}}

Pies == {Elf(TRUE, 1, <<c, d>>, <<>>, <<>>) : c \in Code(0), d \in Data(0)}

Execs == {Elf(FALSE, entry, <<c, d>>, <<>>, <<>>) :
            entry \in {11, 19}, c \in Code(10), d \in Data(10) \cup Data(20)}

Text == Hd("load", RX, 0, 2, 2, 0, 2)

\* Other headers, good and bad.
Others ==
    {Elf(TRUE, 0, <<Text, Hd("load", RW, 2, 4, 2, 0, 1), Hd("dynamic", RW, 2, 2, 2, 0, 1), h>>, <<>>, <<>>) :
        h \in {Hd("relro", {"R"}, v, 2, 0, 0, 1) : v \in 2 .. 4}
             \cup {Hd("interp", {"R"}, 3, 2, 0, 0, 1), Hd("stack", RX, 3, 2, 0, 0, 1)}}

\* An alignment that is no power of two, and a permission the loader does not know.
Odd ==
    {Elf(TRUE, 0, <<Text, h>>, <<>>, <<>>) :
        h \in {Hd("load", RW, 3, 1, 1, 3, 3), Hd("load", RW \cup {"os"}, 2, 2, 1, 1, 1)}}

Relocating ==
    {Elf(TRUE, 0, <<Text, Hd("load", RW, 2, 4, 4, 0, 1), Hd("dynamic", RW, 2, 4, 4, 0, 1)>> \o relro,
         <<<<"RELA", va>>, <<"RELASZ", 1>>, <<"RELAENT", ent>>>>,
         <<[relative |-> TRUE, target |-> target, addend |-> addend]>>) :
        va \in {2, 7}, ent \in {1, 2}, target \in {0, 2, 3, 5}, addend \in {0, 6, 7},
        relro \in {<<>>, <<Hd("relro", {"R"}, 2, 2, 0, 0, 1)>>}}

Flat(n) == [kind |-> "flat", code |-> [i \in 1 .. n |-> 20 + i]]

Sc(n, slots, words, progs, copies) ==
    [frames |-> 101 .. 100 + n, slots |-> slots, words |-> words, programs |-> progs, copies |-> copies]

\* Every image alone; one of them with too few frames; two loads at once, with too
\* few frames or IDs; and user copies.
MCScenarios ==
    {Sc(10, {1}, {0, 1}, <<{p}>>, FALSE) : p \in Pies \cup Execs \cup Others \cup Odd \cup Relocating}
    \cup {Sc(n, {1}, {0}, <<{Elf(TRUE, 0, <<Text, Hd("load", RW, 2, 4, 2, 0, 1)>>, <<>>, <<>>)}>>, FALSE) :
            n \in 3 .. 9}
    \cup {Sc(8, {1, 2}, {0}, <<{Flat(1)}, {Flat(2)}>>, FALSE),
          Sc(7, {1}, {0}, <<{Flat(1)}, {Flat(2)}>>, FALSE),
          Sc(8, {1}, {0}, <<{Flat(3), Flat(0), Flat(5)}>>, TRUE)}
    \cup {[Sc(n, {1, 2}, {0}, <<{Flat(1)}, {Flat(2)}>>, FALSE) EXCEPT !.frames = @ \cup {0}] : n \in {0, 6}}
=============================================================================
