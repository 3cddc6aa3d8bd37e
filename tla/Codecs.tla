------------------------------- MODULE Codecs -------------------------------
(***************************************************************************)
(* The conversions of the project that have two sides: LZ77 (banner tools, *)
(* read by pywii), the ADPCM of banner sounds (mkbns.c), the tiles of a    *)
(* texture (tex.c), and SHA-1's blocks (sha1.c), which must be the same    *)
(* however a text is handed to it.                                         *)
(***************************************************************************)
EXTENDS Integers, Sequences, FiniteSetsExt, SequencesExt

Least(a, b) == IF a < b THEN a ELSE b

---------------------------------------------------------------------------
(* lz77.c                                                                  *)

LZ_MAX_OFFSET == 4096

\* The byte at position i of the input; after is what follows it in memory.
InByte(in, after, i) == IF i < Len(in) THEN in[i + 1] ELSE after

StringCompare(in, after, inpos, offset) ==
    LET maxlength == Least(18, inpos + 1)
        differ == {n \in 0..(maxlength - 1) : InByte(in, after, inpos + n) # InByte(in, after, inpos + n - offset)}
    IN  Min(differ \cup {maxlength})

\* The longest match that is longer than two, the nearest of them.
Match(in, after, inpos) ==
    LET length == [o \in 3..Least(LZ_MAX_OFFSET, inpos) |-> StringCompare(in, after, inpos, o)]
        best == Max({length[o] : o \in DOMAIN length} \cup {2})
    IN  [length |-> best, offset |-> IF best = 2 THEN 0 ELSE Min({o \in DOMAIN length : length[o] = best})]

Reference(n, disp) == <<(n * 16) + ((disp \div 256) % 16), disp % 256>>   \* bundle2, bundle1

\* A faulty version: a match is coded one byte too long.
CodedLong(in, after, st) ==
    LET m == Match(in, after, st.inpos) IN
    IF m.length > 2
    THEN [bit |-> st.mask, bytes |-> Reference(m.length - 2, m.offset - 1), n |-> m.length]
    ELSE [bit |-> 0, bytes |-> <<InByte(in, after, st.inpos)>>, n |-> 1]

\* A reference to the history or one byte, with its flag.
Coded(in, after, st) ==
    LET m == Match(in, after, st.inpos) IN
    IF m.length > 2
    THEN [bit |-> st.mask, bytes |-> Reference(m.length - 3, m.offset - 1), n |-> m.length]
    ELSE [bit |-> 0, bytes |-> <<InByte(in, after, st.inpos)>>, n |-> 1]

\* One round of the main loop; flags is the position of the flags byte.
Put(st, c) ==
    LET out == [st.out EXCEPT ![st.flags] = @ + c.bit] \o c.bytes
        full == st.mask = 1
    IN  [out |-> IF full THEN Append(out, 0) ELSE out,
         flags |-> IF full THEN Len(out) + 1 ELSE st.flags,
         mask |-> IF full THEN 128 ELSE st.mask \div 2,
         inpos |-> st.inpos + c.n]

LzRound(in, after, st) == Put(st, Coded(in, after, st))

RECURSIVE LzLoop(_, _, _)
LzLoop(in, after, st) ==
    IF Len(in) - st.inpos > 3 THEN LzLoop(in, after, LzRound(in, after, st)) ELSE st

\* The rest goes out as it is, and zeros up to a multiple of four.
Dumped(in, st) ==
    LET dumped == st.out \o SubSeq(in, st.inpos + 1, Len(in))
    IN  dumped \o [k \in 1..((-Len(dumped)) % 4) |-> 0]

\* The first round is made whatever the length.
LZ_Compress(in, after) ==
    IF in = <<>> THEN <<>>
    ELSE Dumped(in, LzLoop(in, after, LzRound(in, after,
             [out |-> <<16, Len(in) % 256, (Len(in) \div 256) % 256, Len(in) \div 65536, 0>>,
              flags |-> 5, mask |-> 128, inpos |-> 0])))

\* WiiLZ77.uncompress: what comes out of the bytes from position p on; it
\* stops where its input does.
RECURSIVE Copy(_, _, _, _), LzUncompress(_, _, _, _, _)
Copy(dout, ptr, num, length) ==
    IF num = 0 \/ Len(dout) >= length THEN dout
    ELSE Copy(Append(dout, dout[ptr + 1]), ptr + 1, num - 1, length)

LzUncompress(data, p, flags, dout, bits) ==
    LET length == data[2] + 256 * data[3] + 65536 * data[4]
        info == data[p] * 256 + data[p + 1]
        ptr == Len(dout) - (info % 4096) - 1
    IN  CASE Len(dout) >= length \/ p > Len(data) -> dout
          [] Len(dout) < length /\ p <= Len(data) /\ bits = 0 -> LzUncompress(data, p + 1, data[p], dout, 8)
          [] Len(dout) < length /\ p <= Len(data) /\ bits > 0 /\ flags < 128 ->
               LzUncompress(data, p + 1, (flags * 2) % 256, Append(dout, data[p]), bits - 1)
          [] OTHER ->
               IF p + 1 > Len(data) \/ ptr < 0 THEN dout
               ELSE LzUncompress(data, p + 2, (flags * 2) % 256, Copy(dout, ptr, 3 + info \div 4096, length), bits - 1)

Uncompressed(data) == IF data = <<>> THEN <<>> ELSE LzUncompress(data, 5, 0, <<>>, 0)

\* All but the last three bytes of a text come out of pywii as they went in.
LzHead(in, after) ==
    LET out == Uncompressed(LZ_Compress(in, after)) IN
    \A i \in 1..(Len(in) - 3) : i <= Len(out) /\ out[i] = in[i]

\* What "compress a block of data using an LZ77 coder" and a decoder promise.
LzWhole(in, after) == Uncompressed(LZ_Compress(in, after)) = in

---------------------------------------------------------------------------
(* mkbns.c: a block of samples, with the history of one channel.           *)

deftbl == <<674, 1040, 3598, -1738, 2270, -583, 3967, -1969, 1516, 381, 3453, -1468, 2606, -617, 3795, -1759>>
Clamp16(x) == IF x > 32767 THEN 32767 ELSE IF x < -32768 THEN -32768 ELSE x
Predicted(h, t) == h[2] * deftbl[2 * t + 1] + h[1] * deftbl[2 * t + 2]   \* before the shift
Toward0(x, d) == IF x >= 0 THEN x \div d ELSE -((-x) \div d)

\* findexp for a residual that is not negative: how often it is halved.
findexp(residual) == Min({e \in 0..17 : 2 * residual <= 15 * 2^e})

\* The real samples are the history here; only the largest residual counts.
determine_std_exponent(h, t, inbuf) ==
    LET all == h \o inbuf
        res == {inbuf[i] - Toward0(Predicted(<<all[i], all[i + 1]>>, t), 2048) : i \in DOMAIN inbuf}
    IN  findexp(Max(res \cup {0}))

\* Errors count up to the limit of repack_adpcm, in whole numbers.
BestError == 99999999
Square(x) == IF x \in -9999..9999 THEN x * x ELSE BestError

\* One block with one exponent, up to the first sample that does not fit.
RECURSIVE Encoded(_, _, _, _, _)
Encoded(st, t, exp, inbuf, i) ==
    IF i > Len(inbuf) THEN st
    ELSE LET predictor == Predicted(st.h, t) \div 2048
             nybble == (inbuf[i] - predictor) \div 2^exp
             sample == Clamp16(predictor + nybble * 2^exp)
         IN  IF nybble > 7 \/ nybble < -8 THEN [st EXCEPT !.fits = FALSE]
             ELSE Encoded([fits |-> TRUE, h |-> <<st.h[2], sample>>, data |-> Append(st.data, nybble),
                           error |-> Least(BestError, st.error + Square(sample - inbuf[i]))],
                          t, exp, inbuf, i + 1)

RECURSIVE compress_adpcm(_, _, _, _)
compress_adpcm(h, t, exp, inbuf) ==
    LET st == Encoded([fits |-> TRUE, h |-> h, data |-> <<>>, error |-> 0], t, exp, inbuf, 1)
    IN  IF st.fits \/ exp = 15 THEN [exp |-> exp, t |-> t, end |-> st]
        ELSE compress_adpcm(h, t, exp + 1, inbuf)

\* The table with the least error below the limit, the first of them; none
\* if every table is as bad as that.
repack_adpcm(h, inbuf) ==
    LET tried == {compress_adpcm(h, t, determine_std_exponent(h, t, inbuf), inbuf) : t \in 0..7}
        good == {c \in tried : c.end.error < BestError}
        best == {c \in good : \A d \in good : c.end.error < d.end.error \/ (c.end.error = d.end.error /\ c.t <= d.t)}
    IN  best

\* The samples unpack_adpcm makes of a block, from the history h.
RECURSIVE Unpacked(_, _, _, _)
Unpacked(h, t, exp, data) ==
    IF data = <<>> THEN <<>>
    ELSE LET sample == Clamp16((Predicted(h, t) \div 2048) + Head(data) * 2^exp)
         IN  <<sample>> \o Unpacked(<<h[2], sample>>, t, exp, Tail(data))

\* Of two blocks that could be coded, the decoder's history after each is the
\* encoder's, so its errors do not add up, and no sample is off by more than
\* the step of its exponent.
AdpcmKept(blocks) ==
    \A c \in repack_adpcm(<<0, 0>>, blocks[1]) :
        LET one == Unpacked(<<0, 0>>, c.t, c.exp, c.end.data) IN
        /\ c.end.fits /\ c.exp <= 15 /\ SubSeq(one, Len(one) - 1, Len(one)) = c.end.h
        /\ \A e \in repack_adpcm(c.end.h, blocks[2]) :
              LET two == Unpacked(c.end.h, e.t, e.exp, e.end.data) IN
              \A i \in DOMAIN two : two[i] - blocks[2][i] \in (-(2^e.exp) + 1)..(2^e.exp - 1)

---------------------------------------------------------------------------
(* tex.c: components 0 and 1, then 2 and 3, of 4 by 4 pixels.              *)

\* Where in the rows each byte of the texture comes from.
RECURSIVE Tiles(_, _, _, _)
Tiles(w, h, y, x) ==
    IF y >= h THEN <<>>
    ELSE IF x >= w THEN Tiles(w, h, y + 4, 0)
    ELSE LET half(c) == FlattenSeq([r \in 1..4 |->
                          FlattenSeq([k \in 1..4 |-> <<<<y + r - 1, x + k - 1, c>>, <<y + r - 1, x + k - 1, c + 1>>>>])])
         IN  half(0) \o half(2) \o Tiles(w, h, y, x + 4)

tex_from_png(w, h) == Tiles(w, h, 0, 0)

\* tex_from_tex_vsplit: the same bytes, from a row on.
tex_from_tex_vsplit(tex, w, hstart, hend) == SubSeq(tex, w * hstart * 4 + 1, w * hend * 4)

\* Each component of each pixel is in the texture once, and a part of one is
\* the texture of its rows.
TilesWhole(w, h, hstart) ==
    LET tex == tex_from_png(w, h) IN
    /\ Len(tex) = w * h * 4
    /\ {tex[i] : i \in DOMAIN tex} = (0..(h - 1)) \X (0..(w - 1)) \X (0..3)
    /\ LET part == tex_from_tex_vsplit(tex, w, hstart, h)
           own == tex_from_png(w, h - hstart)
       IN  part = [i \in DOMAIN own |-> <<own[i][1] + hstart, own[i][2], own[i][3]>>]

---------------------------------------------------------------------------
(* sha1.c, with blocks of Block items, of which the length takes the last. *)

Block == 4

\* The blocks that go through SHA1Transform are kept in done.
SHA1Update(ctx, data) ==
    LET j == ctx.count % Block
        i == Block - j
        whole == (Len(data) - i) \div Block
    IN  IF j + Len(data) > Block - 1
        THEN [count |-> ctx.count + Len(data),
              done |-> ctx.done \o <<ctx.buffer \o SubSeq(data, 1, i)>>
                       \o [k \in 1..whole |-> SubSeq(data, i + (k - 1) * Block + 1, i + k * Block)],
              buffer |-> SubSeq(data, i + whole * Block + 1, Len(data))]
        ELSE [count |-> ctx.count + Len(data), done |-> ctx.done, buffer |-> ctx.buffer \o data]

RECURSIVE Padded(_)
Padded(ctx) == IF ctx.count % Block = Block - 1 THEN ctx ELSE Padded(SHA1Update(ctx, <<"0">>))

SHA1Final(ctx) == SHA1Update(Padded(SHA1Update(ctx, <<"0x80">>)), <<<<"length", ctx.count>>>>).done

RECURSIVE Updated(_, _)
Updated(ctx, chunks) == IF chunks = <<>> THEN ctx ELSE Updated(SHA1Update(ctx, Head(chunks)), Tail(chunks))

\* However a text is cut, the blocks are those of the text, closed, padded
\* and followed by its length.
ShaWhole(chunks) ==
    LET text == FlattenSeq(chunks)
        done == SHA1Final(Updated([count |-> 0, done |-> <<>>, buffer |-> <<>>], chunks))
        all == FlattenSeq(done)
    IN  /\ \A k \in DOMAIN done : Len(done[k]) = Block
        /\ Len(all) \in (Len(text) + 2)..(Len(text) + 1 + Block)
        /\ SubSeq(all, 1, Len(text)) = text /\ all[Len(text) + 1] = "0x80" /\ all[Len(all)] = <<"length", Len(text)>>
        /\ \A i \in (Len(text) + 2)..(Len(all) - 1) : all[i] = "0"
=============================================================================
