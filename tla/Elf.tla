-------------------------------- MODULE Elf --------------------------------
(***************************************************************************)
(* Validation of executables (memory/elf.rs) and the pages their load      *)
(* makes (memory/user.rs, user_layout.rs).  Addresses count 8-byte words,  *)
(* so every relocation target is aligned; a dynamic-table entry and a      *)
(* relocation take one word of the file.  An image is                      *)
(*   pie, entry, headers : its program headers, in order                   *)
(*   file                : the words of the file                           *)
(*   tags                : the dynamic table's entries, <<tag, value>>     *)
(*   rela                : what its relocations decode to                  *)
(* Errors differ only in their message, so parse is the set of images it   *)
(* accepts.                                                                *)
(***************************************************************************)
EXTENDS Integers, SequencesExt, FiniteSetsExt

CONSTANTS
    PAGE,           \* words to a page
    USER_BASE, IMAGE_LIMIT, USER_END,
    MAX_IMAGE, MAX_ALIGN, MAX_RELOCS, MAX_DYNAMIC, MAX_SEGMENTS,
    MAX_FLAT_IMAGE,
    STACK_PAGES,
    STACK_GAP       \* pages from IMAGE_LIMIT to the lowest stack's edge

PageDown(a) == (a \div PAGE) * PAGE

PageUp(a) == PageDown(a + PAGE - 1)

End(h) == h.vaddr + h.memsz

Loads(img) == SelectSeq(img.headers, LAMBDA h : h.kind = "load" /\ h.memsz # 0)

OfKind(img, kind) == SelectSeq(img.headers, LAMBDA h : h.kind = kind)

Relro(img) == SelectSeq(img.headers, LAMBDA h : h.kind = "relro" /\ h.memsz # 0)

IsPowerOfTwo(n) == \E k \in 0 .. n : 2^k = n

\* One loadable segment, on its own.
SegmentOK(img, h) ==
    /\ h.align > 1 => IsPowerOfTwo(h.align) /\ h.vaddr % h.align = h.offset % h.align
    /\ img.pie => h.align =< MAX_ALIGN
    /\ "R" \in h.flags /\ h.flags \subseteq {"R", "W", "X"}
    /\ h.filesz =< h.memsz /\ h.offset + h.filesz =< Len(img.file)
    /\ ~({"W", "X"} \subseteq h.flags)
    /\ IF img.pie THEN End(h) =< MAX_IMAGE
       ELSE h.vaddr >= USER_BASE /\ End(h) =< IMAGE_LIMIT

\* Mutant: segments are compared by their addresses, not by their pages.
ShareAddress(h, s) == h.vaddr < End(s) /\ s.vaddr < End(h)

SharePage(h, s) == PageDown(h.vaddr) < PageUp(End(s)) /\ PageDown(s.vaddr) < PageUp(End(h))

LoadsOK(img) ==
    LET segs == Loads(img) IN
    /\ \A i \in DOMAIN segs : SegmentOK(img, segs[i])
    /\ \A i, j \in DOMAIN segs : i < j => ~SharePage(segs[j], segs[i])
    /\ FoldSeq(LAMBDA h, sum : h.memsz + sum, 0, segs) =< MAX_IMAGE
    /\ Len(segs) =< MAX_SEGMENTS
    /\ \E i \in DOMAIN segs : "X" \in segs[i].flags /\ img.entry \in segs[i].vaddr .. End(segs[i]) - 1

RelroOK(img) ==
    LET r == Relro(img) IN
    /\ Len(r) =< 1
    /\ \A i \in DOMAIN r :
        /\ r[i].vaddr % PAGE = 0 /\ End(r[i]) % PAGE = 0
        /\ \E s \in ToSet(Loads(img)) :
            "W" \in s.flags /\ r[i].vaddr >= s.vaddr /\ End(r[i]) =< End(s)

\* file_range: where in the file the first segment that holds [va, va + len) has it.
file_range(img, va, len) ==
    LET segs == Loads(img)
        has == {i \in DOMAIN segs : va >= segs[i].vaddr /\ va - segs[i].vaddr + len =< segs[i].filesz}
    IN IF has = {} THEN -1 ELSE segs[Min(has)].offset + va - segs[Min(has)].vaddr

\* The dynamic table up to its terminator.
Values(img, tag) == {i \in DOMAIN img.tags : img.tags[i][1] = tag}

RelaTags == {"RELA", "RELASZ", "RELAENT"}

RelocationOK(img, r) ==
    /\ r.relative
    /\ \E s \in ToSet(Loads(img)) : "W" \in s.flags /\ r.target >= s.vaddr /\ r.target + 1 =< End(s)
    /\ r.addend \in 0 .. MAX_IMAGE

RelaOK(img) ==
    LET va == img.tags[Min(Values(img, "RELA"))][2]
        size == img.tags[Min(Values(img, "RELASZ"))][2]
    IN /\ img.tags[Min(Values(img, "RELAENT"))][2] = 1
       /\ size =< MAX_RELOCS
       /\ file_range(img, va, size) # -1
       /\ \A i \in DOMAIN img.rela : RelocationOK(img, img.rela[i])

DynamicOK(img) ==
    LET d == OfKind(img, "dynamic") IN
    /\ Len(d) =< 1
    /\ d # <<>> =>
        /\ img.pie /\ d[1].filesz \in 1 .. Min({d[1].memsz, MAX_DYNAMIC})
        /\ file_range(img, d[1].vaddr, d[1].filesz) = d[1].offset
        /\ Len(img.tags) < d[1].filesz                  \* a terminator is left
        /\ Values(img, "unsupported") = {}
        /\ \A tag \in RelaTags : Cardinality(Values(img, tag)) =< 1
        /\ \/ \A tag \in RelaTags : Values(img, tag) = {}
           \/ (\A tag \in RelaTags : Values(img, tag) # {}) /\ RelaOK(img)

parse(img) ==
    /\ OfKind(img, "interp") = <<>>
    /\ \A i \in DOMAIN OfKind(img, "stack") : "X" \notin OfKind(img, "stack")[i].flags
    /\ LoadsOK(img) /\ RelroOK(img) /\ DynamicOK(img)

relocations(img) == IF OfKind(img, "dynamic") = <<>> \/ Values(img, "RELA") = {} THEN <<>> ELSE img.rela

readonly_page(img, page) ==
    \E i \in DOMAIN Relro(img) : page >= Relro(img)[i].vaddr /\ page + PAGE =< End(Relro(img)[i])

-----------------------------------------------------------------------------
(* Placement: user_layout.rs *)

\* choose, of random words reduced by their mask.
choose(code, stack) ==
    [bias |-> USER_BASE + PAGE + code * PAGE, stack_edge |-> IMAGE_LIMIT + (STACK_GAP + stack) * PAGE]

Placements(words) == {choose(code, stack) : code \in words, stack \in words}

alignment(img) == Max({PAGE} \cup {h.align : h \in ToSet(Loads(img))})

image_bias(layout, align) == (layout.bias \div align) * align + align

-----------------------------------------------------------------------------
(* What a load does, in order: pages to map and relocations to apply *)

NoWords == [i \in 0 .. PAGE - 1 |-> 0]

MapPage(va, words, w, x) == [op |-> "map", va |-> va, words |-> words, w |-> w, x |-> x]

Stack(edge, block) ==
    [i \in 1 .. STACK_PAGES |-> MapPage(edge - i * PAGE, IF i = 1 THEN block ELSE NoWords, TRUE, FALSE)]

\* load_elf: the page of segment h at address page.
SegmentPage(img, bias, h, page) ==
    LET low == Max({page, h.vaddr})
        high == Min({page + PAGE, h.vaddr + h.filesz})
        words == [i \in 0 .. PAGE - 1 |->
                    IF page + i >= low /\ page + i < high
                    THEN img.file[h.offset + page + i - h.vaddr + 1] ELSE 0]
    IN MapPage(bias + page, words, "W" \in h.flags /\ ~readonly_page(img, page), "X" \in h.flags)

SegmentPages(img, bias, h) ==
    [i \in 1 .. (PageUp(End(h)) - PageDown(h.vaddr)) \div PAGE |->
        SegmentPage(img, bias, h, PageDown(h.vaddr) + (i - 1) * PAGE)]

STARTUP == 99       \* the startup block's magic and canary

Startup == [NoWords EXCEPT ![PAGE - 1] = STARTUP]

ElfSteps(img, layout) ==
    LET bias == IF img.pie THEN image_bias(layout, alignment(img)) ELSE 0
    IN FlattenSeq([i \in DOMAIN Loads(img) |-> SegmentPages(img, bias, Loads(img)[i])])
       \o [i \in DOMAIN relocations(img) |->
            [op |-> "relocate", va |-> bias + relocations(img)[i].target,
             value |-> bias + relocations(img)[i].addend]]
       \o Stack(layout.stack_edge, Startup)

\* populate: a flat binary's code, then its stack.
CodePages(code) == (Len(code) + PAGE - 1) \div PAGE

FlatSteps(code, layout) ==
    [i \in 1 .. CodePages(code) |->
        MapPage(layout.bias + PAGE + (i - 1) * PAGE,
                [k \in 0 .. PAGE - 1 |-> IF (i - 1) * PAGE + k < Len(code) THEN code[(i - 1) * PAGE + k + 1] ELSE 0],
                FALSE, TRUE)]
    \o Stack(layout.stack_edge, NoWords)
=============================================================================
