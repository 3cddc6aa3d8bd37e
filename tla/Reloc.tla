-------------------------------- MODULE Reloc --------------------------------
(***************************************************************************)
(* Where an executable goes (loader_reloc.c), and what wiipax makes of one *)
(* (wiipax/client) so that its stub can put it there (wiipax/stub).        *)
(*                                                                         *)
(* Memory is a function from addresses; the address space has four         *)
(* quarters, the third is cached memory.  A byte of a file is any tuple;   *)
(* a header is as long as the code says and what it says are the fields of *)
(* the record.  Addresses, positions and lengths are u32, and so are the   *)
(* sums loader_reloc.c makes of them.  The compressor is a pair of         *)
(* inverses.                                                               *)
(***************************************************************************)
EXTENDS Integers, Sequences, FiniteSets

CONSTANTS Quarter,                        \* 2^30
          LD_MIN_ADDR, LD_MAX_ADDR, ARGS_MAX_LEN,
          CrtOffset, MagicOffset, ArgvOffset,   \* in the start code: what is patched, the magic, the struct __argv
          EhdrSize, PhdrSize, ALIGNOFFSET, AesBlock   \* of the packer

ASSUME RelocAssumption ==
    /\ {Quarter, ALIGNOFFSET, AesBlock} \subseteq Nat \ {0}
    /\ {LD_MIN_ADDR, LD_MAX_ADDR, ARGS_MAX_LEN, EhdrSize, PhdrSize} \subseteq Nat
    /\ LD_MIN_ADDR <= LD_MAX_ADDR
    /\ 2 * Quarter <= LD_MIN_ADDR /\ LD_MAX_ADDR + 1 + ARGS_MAX_LEN <= 3 * Quarter
    /\ {CrtOffset, MagicOffset, ArgvOffset} \subseteq Nat
    /\ CrtOffset # MagicOffset /\ MagicOffset # ArgvOffset /\ ArgvOffset # CrtOffset

U32 == 0..(4 * Quarter - 1)
Uint32(n) == n % (4 * Quarter)   \* a u32 wraps around

Cached(a) == (a % Quarter) + 2 * Quarter
OrHigh(a) == IF a < 2 * Quarter THEN a + 2 * Quarter ELSE a   \* | 0x80000000
LD_ARGS_ADDR == LD_MAX_ADDR + 1
BASE_ADDR == LD_MAX_ADDR + 1 + ARGS_MAX_LEN   \* where the channel itself begins
Addresses == 2 * Quarter..(3 * Quarter - 1)

\* A byte of a file; past its end is whatever follows it in memory.
ByteOf(f, i) == IF i < f.size THEN f.bytes[i] ELSE <<"beyond">>

\* memmove of n bytes from position pos of f
Copied(mem, to, f, pos, n) ==
    [a \in DOMAIN mem |-> IF Uint32(a - to) < n THEN ByteOf(f, Uint32(pos + Uint32(a - to))) ELSE mem[a]]

---------------------------------------------------------------------------
(* loader_reloc                                                            *)

\* A faulty version: only where a section begins is looked at.
InRangeStart(start, n) == start >= LD_MIN_ADDR /\ start <= LD_MAX_ADDR

\* A section whose end is above 2^32 can pass.
InRange(start, n) == start >= LD_MIN_ADDR /\ Uint32(start + n) <= LD_MAX_ADDR

\* One section of a DOL: text and data are alike.
DolSection(st, f, s, check_overlap) ==
    IF ~st.ok \/ s.size = 0 THEN st
    ELSE IF Uint32(s.pos + s.size) > f.size \/ (check_overlap /\ ~InRange(s.start, s.size)) THEN [st EXCEPT !.ok = FALSE]
    ELSE [st EXCEPT !.mem = Copied(@, s.start, f, s.pos, s.size)]

\* One program header of an ELF.
ElfSegment(st, f, p, check_overlap) ==
    LET to == Cached(p.paddr) IN
    IF ~st.ok \/ p.type # "LOAD" THEN st
    ELSE IF p.filesz > p.memsz THEN [st EXCEPT !.ok = FALSE]
    ELSE IF p.filesz = 0 THEN st
    ELSE IF check_overlap /\ ~InRange(to, p.filesz) THEN [st EXCEPT !.ok = FALSE]
    ELSE [st EXCEPT !.mem = Copied(@, to, f, p.off, p.filesz)]

\* is_valid_elf and the first checks of reloc_elf are valid and phdrs # <<>>.
Sections(f) == IF f.kind = "elf" THEN f.phdrs ELSE f.sections
Readable(f) == f.kind = "dol" \/ (f.valid /\ f.phdrs # <<>>)
Entry(f) == IF f.kind = "elf" THEN Cached(f.entry) ELSE f.entry

PlaceOne(st, f, s, check_overlap) ==
    IF f.kind = "elf" THEN ElfSegment(st, f, s, check_overlap) ELSE DolSection(st, f, s, check_overlap)

Relocated(mem, f, check_overlap) ==
    LET after[i \in 0..Len(Sections(f))] ==
            IF i = 0 THEN [ok |-> Readable(f), mem |-> mem]
            ELSE PlaceOne(after[i - 1], f, Sections(f)[i], check_overlap)
    IN  after[Len(Sections(f))]

patch_crt0(mem, ep) == IF mem[ep + CrtOffset] = <<"0x41">> THEN [mem EXCEPT ![ep + CrtOffset] = <<"0x40">>] ELSE mem

set_argv(mem, ep, args) ==
    IF mem[ep + MagicOffset] # <<"magic">> THEN mem
    ELSE [a \in DOMAIN mem |->
            IF a = ep + ArgvOffset THEN <<"argv", LD_ARGS_ADDR, Len(args)>>
            ELSE IF a \in LD_ARGS_ADDR..(LD_ARGS_ADDR + Len(args) - 1) THEN args[a - LD_ARGS_ADDR + 1]
            ELSE mem[a]]

loader_reloc(mem, f, args, check_overlap) ==
    LET r == Relocated(mem, f, check_overlap)
        patched == patch_crt0(r.mem, Entry(f))
    IN  IF ~r.ok THEN r
        ELSE [ok |-> TRUE, mem |-> IF args = <<>> THEN patched ELSE set_argv(patched, Entry(f), args)]

---------------------------------------------------------------------------
(* The packer.                                                             *)

round_up(n, k) == ((n + k - 1) \div k) * k
Kept(p) == p.type = "LOAD" /\ p.filesz >= 1 /\ p.memsz >= 1

\* Where strip_elf puts the segments ps, and after the last of them the end of the file.
Places(ps) ==
    LET place[k \in 1..(Len(ps) + 1)] ==
            IF k = 1 THEN round_up(EhdrSize, ALIGNOFFSET) + round_up(Len(ps) * PhdrSize, ALIGNOFFSET)
            ELSE place[k - 1] + round_up(ps[k - 1].filesz, ALIGNOFFSET)
    IN  place

\* strip_elf: what is loaded, each segment in a place of its own.
strip_elf(f) ==
    LET ps == SelectSeq(f.phdrs, Kept)
        to == Places(ps)
        in(i) == {k \in DOMAIN ps : i \in to[k]..(to[k] + ps[k].filesz - 1)}
    IN  [kind |-> "elf", valid |-> TRUE, entry |-> f.entry, size |-> to[Len(ps) + 1],
         phdrs |-> [k \in DOMAIN ps |-> [ps[k] EXCEPT !.off = to[k]]],
         bytes |-> [i \in 0..(to[Len(ps) + 1] - 1) |->
                      IF in(i) = {} THEN <<"0">>
                      ELSE LET k == CHOOSE k \in in(i) : TRUE IN ByteOf(f, ps[k].off + (i - to[k]))]]

\* map_file_offset: the first segment that has the position, its end included.
Holds(p, offset) == p.type = "LOAD" /\ p.filesz >= 1 /\ offset \in p.off..(p.off + p.filesz)
map_file_offset(f, offset) == CHOOSE i \in DOMAIN f.phdrs : Holds(f.phdrs[i], offset)
                                   /\ \A j \in 1..(i - 1) : ~Holds(f.phdrs[j], offset)

\* inject_elf: src follows the last segment, whose address decides the alignment.
inject_elf(f, src) ==
    LET n == Len(f.phdrs)
        p == f.phdrs[n]
        pos == p.vaddr + p.filesz
        pos_d == round_up(pos, ALIGNOFFSET) - pos
        size_d == pos_d + round_up(Len(src), ALIGNOFFSET)
        to == p.off + p.filesz + pos_d
    IN  [dataaddr |-> OrHigh(pos + pos_d - p.vaddr + p.paddr),
         elf |-> [f EXCEPT !.size = @ + size_d,
                           !.phdrs[n] = [p EXCEPT !.filesz = @ + size_d, !.memsz = @ + size_d, !.vaddr = p.paddr],
                           !.bytes = [i \in 0..(f.size + size_d - 1) |->
                               CASE i \in to..(to + Len(src) - 1) -> src[i - to + 1]
                                 [] i \notin to..(to + Len(src) - 1) /\ i < f.size -> f.bytes[i]
                                 [] OTHER -> <<"0">>]]]

\* The compressed file: len_out bytes that stand for f.
Compressed(f, len_out) == [i \in 1..len_out |-> <<"lzma", i, f>>]

\* main of the packer: payload_t goes where .payload was, its data after the stub.
wiipax(stub, f, len_out) ==
    LET packed == strip_elf(f)
        padded == [i \in 1..round_up(len_out, AesBlock) |->
                      IF i <= len_out THEN Compressed(packed, len_out)[i] ELSE <<"0">>]
        i == map_file_offset(stub, stub.payload)
        k == Cardinality({j \in 1..i : Kept(stub.phdrs[j])})
        out == inject_elf(strip_elf(stub), padded)
        at == out.elf.phdrs[k].off + (stub.payload - stub.phdrs[i].off)
    IN  [out.elf EXCEPT !.bytes[at] = <<"payload", out.dataaddr, len_out>>]

\* What the packer refuses to pack, or to pack with.
Packs(stub, f) ==
    /\ f.valid /\ f.phdrs # <<>>
    /\ \E i \in DOMAIN stub.phdrs : Holds(stub.phdrs[i], stub.payload)
    /\ Kept(stub.phdrs[map_file_offset(stub, stub.payload)])
    /\ LET p == strip_elf(stub).phdrs IN p[Len(p)].filesz = p[Len(p)].memsz

---------------------------------------------------------------------------
(* The stub, which runs from a copy of itself.                             *)

\* decode: what is compressed at the address the payload says, or nothing.
decode(mem, pl) ==
    LET first == mem[pl[2]] IN
    IF first[1] = "lzma" /\ \A i \in 1..pl[3] : mem[pl[2] + i - 1] = <<"lzma", i, first[3]>>
    THEN first[3] ELSE [valid |-> FALSE]

\* load_elf_image: as reloc_elf without the range; what was copied is cleared.
load_elf_image(mem, f) ==
    LET segment(st, p) ==
            LET to == Cached(p.paddr) IN
            IF ~st.ok \/ p.type # "LOAD" THEN st
            ELSE IF p.filesz > p.memsz THEN [st EXCEPT !.ok = FALSE]
            ELSE IF p.filesz = 0 THEN st
            ELSE [st EXCEPT !.mem = Copied(@, to, st.f, p.off, p.filesz),
                            !.f.bytes = [i \in DOMAIN @ |-> IF i \in p.off..(p.off + p.filesz - 1) THEN <<"0">> ELSE @[i]]]
        after[i \in 0..Len(f.phdrs)] ==
            IF i = 0 THEN [ok |-> f.phdrs # <<>>, mem |-> mem, f |-> f] ELSE segment(after[i - 1], f.phdrs[i])
    IN  after[Len(f.phdrs)]

\* stubmain, once the packed file has been loaded: payload is where the linker put it.
stubmain(mem, payload) ==
    LET f == decode(mem, mem[payload])
    IN  IF ~f.valid THEN [ok |-> FALSE, mem |-> mem, entry |-> 0]
        ELSE [ok |-> load_elf_image(mem, f).ok, mem |-> load_elf_image(mem, f).mem, entry |-> f.entry]

---------------------------------------------------------------------------
Memory == [a \in Addresses |-> <<"channel">>]

\* The addresses that are a section's, and what it says of one of them.
Reach(f, s) ==
    IF f.kind = "elf"
    THEN IF s.type = "LOAD" THEN Cached(s.paddr)..(Cached(s.paddr) + s.filesz - 1) ELSE {}
    ELSE s.start..(s.start + s.size - 1)
Said(f, s, a) ==
    IF f.kind = "elf" THEN ByteOf(f, Uint32(s.off + (a - Cached(s.paddr)))) ELSE ByteOf(f, Uint32(s.pos + (a - s.start)))

\* The last section, if any, whose copy decides what address a holds.
Owner(f, a) ==
    LET S == {i \in DOMAIN Sections(f) : a \in Reach(f, Sections(f)[i])}
    IN  IF S = {} THEN 0 ELSE CHOOSE i \in S : \A j \in S : j <= i
Content(f, a) == Said(f, Sections(f)[Owner(f, a)], a)

IsSection(f, s) ==
    IF f.kind = "elf" THEN {s.paddr, s.off, s.filesz, s.memsz} \subseteq U32 ELSE {s.start, s.pos, s.size} \subseteq U32

\* The address of a section and its length do not wrap around: the code takes
\* this of a file, and does not test it.
EndsInU32(f, s) == IF f.kind = "elf" THEN Cached(s.paddr) + s.filesz \in U32 ELSE s.start + s.size \in U32

\* A file whose headers can be read, whose sections end below 2^32, and whose
\* start code is in its sections.
IsExecutable(f) ==
    /\ f.kind \in {"elf", "dol"} /\ Entry(f) \in Nat /\ f.size \in Nat
    /\ Len(Sections(f)) \in Nat /\ DOMAIN Sections(f) = 1..Len(Sections(f))
    /\ \A i \in DOMAIN Sections(f) : IsSection(f, Sections(f)[i]) /\ EndsInU32(f, Sections(f)[i])
    /\ \A o \in {CrtOffset, MagicOffset, ArgvOffset} :
          \E i \in DOMAIN Sections(f) : Entry(f) + o \in Reach(f, Sections(f)[i])

\* An executable (IsExecutable: no section wraps around, its start code is its
\* own) and arguments of at most ARGS_MAX_LEN bytes: the file goes where it
\* says and nowhere else.  The running channel is never overwritten, not even by
\* a file that is refused halfway, and what was loaded is the file but for the
\* one patched byte and, if its start code asks for them, the arguments.
RelocPlaced(f, args) ==
    LET r == loader_reloc(Memory, f, args, TRUE)
        ep == Entry(f)
    IN  /\ \A a \in Addresses : r.mem[a] # <<"channel">> =>
              a \in LD_MIN_ADDR..(LD_MAX_ADDR - 1) \/ (r.ok /\ a \in LD_ARGS_ADDR..(BASE_ADDR - 1))
        /\ r.ok => \A a \in Addresses \ {ep + ArgvOffset} : Owner(f, a) # 0 =>
              r.mem[a] = Content(f, a) \/ (a = ep + CrtOffset /\ Content(f, a) = <<"0x41">> /\ r.mem[a] = <<"0x40">>)
        /\ r.ok /\ args # <<>> =>
              LET argv == r.mem[ep + ArgvOffset] IN
              IF r.mem[ep + MagicOffset] = <<"magic">>
              THEN argv[3] = Len(args) /\ \A i \in 1..Len(args) : r.mem[argv[2] + i - 1] = args[i]
              ELSE \A a \in LD_ARGS_ADDR..(BASE_ADDR - 1) : r.mem[a] = <<"channel">>

\* A packed executable leaves memory as the executable itself would: its
\* stub, loaded as any other, finds its data, and the segments and the
\* entry point come out as they were.
PackedRuns(stub, f, len_out) ==
    Packs(stub, f) =>
        LET packed == wiipax(stub, f, len_out)
            loaded == loader_reloc(Memory, packed, <<>>, TRUE)
            p == stub.phdrs[map_file_offset(stub, stub.payload)]
            ran == stubmain(loaded.mem, Cached(p.paddr + stub.payload - p.off))
            alone == Relocated(Memory, f, FALSE)
        IN  loaded.ok =>
              /\ ran.ok = alone.ok
              /\ ran.ok => ran.entry = f.entry
                           /\ \A a \in Addresses : Owner(f, a) # 0 => ran.mem[a] = alone.mem[a]
=============================================================================
