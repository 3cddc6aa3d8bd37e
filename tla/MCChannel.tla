------------------------------ MODULE MCChannel ------------------------------
(* From an upload to a running program and back, and what texts and files  *)
(* go through, each module by itself: the first component of input says    *)
(* which one moves, and what follows is what an algorithm is given.        *)
(*   LoaderLoad in a small arena: the heap can grow until the second       *)
(*     buffer, or the first, no longer fits.  The uploads cover every kind,*)
(*     with and without compression and arguments, a header whose two      *)
(*     lengths are equal, and a file that has become shorter.              *)
(*   Reloc: sections around both ends of the range a program may use and   *)
(*     over each other, and positions in the file that wrap around 2^32;   *)
(*     stubs of one or two segments.                                       *)
(*   DvdMotor: handles with zero among them.  Stub: an IOS with two handles*)
(*     and any tickets.                                                    *)
(*   Fonts: three fonts, two of which share a default; themes that name    *)
(*     good, broken, missing and shared files.                             *)
(*   Text: every text of four bytes of every class of UTF-8.               *)
(*   Codecs: texts around a byte of flags and with matches of every kind,  *)
(*     silence, tones and steps of every loudness, textures of up to nine  *)
(*     tiles, texts in three parts around a block.                         *)
(*   Controls: three remotes.  Meta: every two choices of an order over     *)
(*     applications with and without meta.xml, name and date, two of each  *)
(*     date; up to three arguments, the empty one among them, up to a      *)
(*     length that no longer can be counted; a theme with two theme.xml and*)
(*     one after it.                                                       *)
EXTENDS LoaderLoad, Reloc, DvdMotor, Stub, Fonts, Text, Codecs, Controls, Meta

VARIABLE input

part == input[1]

Upload(kind, len, un, n, avail) ==
    [kind |-> kind, len |-> len, un |-> un, args |-> n, avail |-> avail]

MCUploads ==
    {Upload("FILE", 3, 0, 0, 3), Upload("FILE", 3, 0, 0, 2),
     Upload("GECKO", 2, 5, 1, 3), Upload("GECKO", 3, 0, 0, 3),
     Upload("TCP", 2, 5, 1, 3), Upload("TCP", 2, 0, 1, 3), Upload("TCP", 3, 3, 0, 3)}

---------------------------------------------------------------------------
\* Start code number k: with or without room for arguments, patched or not.
StartCode(k) ==
    [i \in 0..7 |-> CASE i = 1 /\ k % 2 = 1 -> <<"magic">>
                      [] i = 3 /\ k > 2 -> <<"0x41">>
                      [] OTHER -> <<"file", k, i>>]

Dols == {[kind |-> "dol", size |-> 8, bytes |-> StartCode(k),
          sections |-> <<[pos |-> 0, start |-> s, size |-> n], [pos |-> 4, start |-> t, size |-> m]>>, entry |-> s] :
            k \in 1..3, s \in (126..136) \cup (146..150), n \in {4, 6}, t \in {0} \cup (133..136) \cup (147..156), m \in {0, 4, 5}}
        \cup {[kind |-> "dol", size |-> 8, bytes |-> StartCode(1), entry |-> 130,
               sections |-> <<[pos |-> 0, start |-> 130, size |-> 4], [pos |-> p, start |-> t, size |-> m]>>] :
                 p \in 249..255, t \in 132..136, m \in {4, 6}}

Elf(k, ps, v) == [kind |-> "elf", valid |-> v, size |-> 8, bytes |-> StartCode(k), phdrs |-> ps, entry |-> ps[1].paddr]
Segment(off, va, to, n, m) == [type |-> "LOAD", off |-> off, vaddr |-> va, paddr |-> to, filesz |-> n, memsz |-> m]

Elfs == {Elf(k, <<Segment(0, 0, s, 4, 5), Segment(4, 0, t, n, m)>>, v) :
            k \in 1..3, s \in (0..6) \cup (18..22), t \in (0..6) \cup (16..25), n \in {0, 2, 6}, m \in {2, 6}, v \in BOOLEAN}

ASSUME MCExecutables == \A f \in Dols \cup Elfs : IsExecutable(f)

MCArgs == {<<>>, <<<<"a">>>>, <<<<"a">>, <<"b">>>>}

Stubs == {[kind |-> "elf", valid |-> TRUE, size |-> 32, bytes |-> [i \in 0..31 |-> <<"stub", i>>], payload |-> pl,
           entry |-> 6, phdrs |-> front \o <<Segment(8, va, 5, n, n)>>] :
            front \in {<<>>, <<Segment(20, 3, 2, 2, 2)>>}, pl \in {9, 11}, va \in {65, 66, 70}, n \in {4, 5}}
Packable == {f \in Elfs : f.valid /\ f.bytes = StartCode(1) /\ f.entry < 4}

---------------------------------------------------------------------------
MCData == <<"bold", "bold", "regular">>
MCSize == <<16, 20, 16>>
MCKind == [good |-> "good", other |-> "good", bad |-> "bad", missing |-> "missing"]
MCThemes == {[file |-> f, size |-> <<0, s, 0>>, default |-> d, default_size |-> s2] :
               f \in [1..3 -> {"none", "good", "bad", "missing", "other"}],
               s \in {0, 16}, d \in {"none", "good"}, s2 \in {0, 20}}
MCDrawn == {<<1, x>> : x \in {0, 3, 5}} \cup {<<2, 3>>, <<3, 5>>}

MCAdvance(x) == IF x > 127 THEN 3 ELSE IF x = 63 THEN 2 ELSE 1
Letters == {32, 10, 13, 65, 195, 169, 226, 240}

---------------------------------------------------------------------------
Texts == UNION {[1..n -> {1, 2}] : n \in 0..9}
         \cup {[i \in 1..n |-> IF i \in S THEN i % k ELSE 7] :
                 n \in {17, 26, 40}, k \in {1, 5, 30}, S \in {{}, 1..40, 4..20, 10..12, 18..30}}

Shape(n) ==
    [i \in 1..14 |-> CASE n = 1 -> 0 [] n = 2 -> (-1)^i [] n = 3 -> i \div 8 [] n = 4 -> 1
                       [] n = 5 -> IF i % 5 = 0 THEN -1 ELSE 0 [] n = 6 -> (-1)^(i \div 2)]
Waves == {[i \in 1..14 |-> Shape(n)[i] * a] : n \in 1..6, a \in {1, 300, 9000, 32767}}
         \cup {[i \in 1..14 |-> (i - 7) * a] : a \in {1, 100, 4000}}

Named(c, n) == [i \in 1..n |-> <<c, i>>]

MCApps == {[dirname |-> d, meta |-> FALSE, name |-> 0, date |-> 0, size |-> 1] : d \in 1..2}
          \cup [dirname : 3..4, meta : {TRUE}, name : 0..2, date : 0..2, size : {1, 2}]
Chosen == UNION {[1..n -> {"NAME", "DATE", "SIZE"}] : n \in 0..2}
MetaArgs == UNION {[1..n -> {NoText, <<>>, <<"a">>, <<"b", "b">>}] : n \in 0..3}
MCFontElements == [file : BOOLEAN, targets : {<<>>, <<1>>, <<2>>, <<9>>}]
MCDocuments == {[parses |-> TRUE, elements |-> e] : e \in UNION {[1..n -> MCFontElements] : n \in 0..2}}

---------------------------------------------------------------------------
\* What each module is given; a texture is split at a row of tiles it has.
Inputs ==
    {<<"load">>, <<"dvd">>, <<"stub">>, <<"fonts">>, <<"rumble">>}
    \cup {<<"list", c>> : c \in Chosen} \cup {<<"dir", d>> : d \in [1..3 -> -1..5]}
    \cup {<<"args", a>> : a \in MetaArgs}
    \cup {<<"theme", <<<<d, e>>, <<d>>>>>> : d \in MCDocuments, e \in MCDocuments}
    \cup {<<"text", t>> : t \in UNION {[1..n -> Letters] : n \in 0..4}}
    \cup {<<"reloc", f, a>> : f \in Dols \cup Elfs, a \in MCArgs}
    \cup {<<"packer", s, f, n>> : s \in Stubs, f \in Packable, n \in {1, 3, 4}}
    \cup {<<"lz", t, b>> : t \in Texts, b \in {0, 2}}
    \cup {<<"adpcm", <<a, b>>>> : a \in Waves, b \in Waves}
    \cup {<<"tex", 4 * w, 4 * h, 4 * s>> : w \in 1..3, h \in 2..3, s \in 0..2}
    \cup {<<"sha", <<Named("m", a), Named("n", b), Named("o", d)>>>> : a \in 0..9, b \in 0..5, d \in 0..9}

MCInit ==
    /\ Init /\ DvdInit /\ FontsInit /\ StubInit /\ ControlsInit
    /\ input \in
         IF wanted = MY_TITLEID /\ replies.stale = 0 /\ given = {} /\ \A t \in AllTitles : views[t] = 0
         THEN IF up = Upload("FILE", 3, 0, 0, 3) THEN Inputs ELSE {<<"load">>}
         ELSE IF up = Upload("FILE", 3, 0, 0, 3) THEN {<<"stub">>} ELSE {}

MCNext ==
    /\ UNCHANGED input
    /\ \/ part = "load" /\ Next /\ UNCHANGED <<dvdVars, stubVars, fontVars, controlsVars>>
       \/ part = "dvd" /\ DvdNext /\ UNCHANGED <<vars, stubVars, fontVars, controlsVars>>
       \/ part = "stub" /\ StubNext /\ UNCHANGED <<vars, dvdVars, fontVars, controlsVars>>
       \/ part = "fonts" /\ FontsNext /\ UNCHANGED <<vars, dvdVars, stubVars, controlsVars>>
       \/ part = "rumble" /\ Frame /\ UNCHANGED <<vars, dvdVars, stubVars, fontVars>>
       \/ part \notin {"load", "dvd", "stub", "fonts", "rumble"}
          /\ UNCHANGED <<vars, dvdVars, stubVars, fontVars, controlsVars>>

\* The fairness of LoaderLoad and of Stub, each for the part that moves.
MCFairness ==
    /\ WF_vars(part = "load" /\ Main) /\ WF_vars(part = "load" /\ Thread)
    /\ WF_stubVars(part = "stub" /\ StubRuns) /\ WF_stubVars(part = "stub" /\ IgnoreStale)
    /\ WF_stubVars(part = "stub" /\ Answer)

MCSpec == MCInit /\ [][MCNext]_<<input, vars, dvdVars, stubVars, fontVars, controlsVars>> /\ MCFairness

---------------------------------------------------------------------------
\* What runs is what was loaded: RelocPlaced of each executable, none of whose
\* sections wraps around 2^32 (MCExecutables), and its arguments, which fit
\* (loader_reloc and what loader_exec finds in memory), PackedRuns
\* of each stub, program and length (wiipax and its stub).
ProgramsPlaced ==
    /\ part = "reloc" => RelocPlaced(input[2], input[3])
    /\ part = "packer" => PackedRuns(input[2], input[3], input[4])

\* What the card says of applications and themes is what is used: an order
\* for every choice, but for two of the same date, which are each before the
\* other; an application that can be loaded; its arguments, up to the length
\* a u16 can count; and the file names of themes with one target to an element.
MetaRead ==
    /\ part = "list" => ListingSorted(input[2], MCApps)
    /\ part = "dir" => ListingStarts(input[2])
    /\ part = "args" => ArgsDeliveredFromMeta(<<"/">>, input[2])
    /\ part = "theme" => NamesOwned(input[2])

\* TextWhole of each text, in columns of one to five pixels.
TextsWhole == part = "text" => TextWhole(input[2], 1..5)

\* The two sides of each conversion agree: LZ_Compress and pywii, but for
\* the last three bytes; repack_adpcm and unpack_adpcm; tex_from_png and the
\* parts tex_from_tex_vsplit makes; SHA1Update for every way to cut a text.
CodecsAgree ==
    /\ part = "lz" => LzHead(input[2], input[3])
    /\ part = "adpcm" => AdpcmKept(input[2])
    /\ part = "tex" => TilesWhole(input[2], input[3], input[4])
    /\ part = "sha" => ShaWhole(input[2])

\* StubEnds, where it is the stub that runs.
StubReturns == part = "stub" => StubEnds

\* "LZ_Compress() - Compress a block of data using an LZ77 coder" (lz77.c):
\* what it compresses comes out of a decoder as it was.
LzRoundTrip == part = "lz" => LzWhole(input[2], input[3])
=============================================================================
