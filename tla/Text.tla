-------------------------------- MODULE Text --------------------------------
(***************************************************************************)
(* How font.c cuts a text: characters, lines and queue entries.            *)
(*                                                                         *)
(* A text is a sequence of bytes, without the NUL that ends it; positions  *)
(* count from 0 as in C.  A glyph is as wide as Advance says and is not    *)
(* kerned; every glyph can be rendered.                                    *)
(***************************************************************************)
EXTENDS Integers, Sequences, SequencesExt

CONSTANT Advance(_)   \* how far the pen moves after a code point

Newline == 10
Return == 13
Space == 32

At(s, i) == IF i < Len(s) THEN s[i + 1] ELSE 0

Follows(b) == b \in 128..191   \* (b & 0xc0) == 0x80

\* A faulty version: the bytes after a bad lead byte are skipped, whatever they are.
SkipBlind(s, i, n) == i + n

\* What is skipped of a bad sequence of n bytes: never the NUL.
Skip(s, i, n) ==
    LET end == {k \in 1..n : k = n \/ At(s, i + k) = 0} IN i + CHOOSE k \in end : \A j \in end : k <= j

\* utf8_get_char: the code point at position i and the position after it.
utf8_get_char(s, i) ==
    LET c == At(s, i)
        n == CASE c \in 0..127 -> 1 [] c \in 192..223 -> 2 [] c \in 224..239 -> 3 [] c \in 240..247 -> 4 [] OTHER -> 1
        value == CASE n = 1 -> c
                   [] n = 2 -> (c % 32) * 64 + (At(s, i + 1) % 64)
                   [] n = 3 -> (c % 16) * 4096 + (At(s, i + 1) % 64) * 64 + (At(s, i + 2) % 64)
                   [] n = 4 -> (c % 8) * 262144 + (At(s, i + 1) % 64) * 4096
                               + (At(s, i + 2) % 64) * 64 + (At(s, i + 3) % 64)
    IN  CASE c = 0 -> [mbc |-> 0, next |-> i]
          [] c \in (128..191) \cup (248..255) -> [mbc |-> 63, next |-> i + 1]
          [] c \in 1..127 \/ (c \in 192..247 /\ \A k \in 1..(n - 1) : Follows(At(s, i + k))) ->
               [mbc |-> value, next |-> i + n]
          [] OTHER -> [mbc |-> 63, next |-> Skip(s, i, n)]

RECURSIVE Codes(_, _)
Codes(s, i) ==
    LET c == utf8_get_char(s, i) IN IF c.mbc = 0 THEN <<>> ELSE <<c.mbc>> \o Codes(s, c.next)

\* The glyphs of a text that is measured, counted or plotted: a newline is
\* a space unless it is the last character, a return is nothing.
GlyphsOf(c) ==
    SelectSeq([k \in DOMAIN c |-> IF c[k] = Newline /\ k < Len(c) THEN Space ELSE c[k]],
              LAMBDA x : x \notin {Newline, Return})

Glyphs(s) == GlyphsOf(Codes(s, 0))

RECURSIVE Pen(_, _)
Pen(g, n) == IF n = 0 THEN 0 ELSE Pen(g, n - 1) + Advance(g[n])

WidthOf(g, count) == Pen(g, IF count \in 1..Len(g) THEN count ELSE Len(g))
font_get_string_width(s, count) == WidthOf(Glyphs(s), count)

\* The glyphs before the first one whose pen is at max_width or beyond.
CountOf(g, max_width) ==
    LET out == {i \in 0..(Len(g) - 1) : max_width # 0 /\ Pen(g, i) >= max_width}
    IN  CHOOSE i \in out \cup {Len(g)} : \A j \in out : i <= j

font_get_char_count(s, max_width) == CountOf(Glyphs(s), max_width)

\* font_plot_string: entries that are filled, of count that were allocated.
font_plot_string(s, count) ==
    LET n == Len(Glyphs(s)) IN IF count < n THEN count ELSE n

\* font_wrap_string: what has been cut, the line that is being filled, the
\* place after its last space.
Broken(st) ==
    IF st.ls <= st.start
    THEN LET i == IF st.p = st.start THEN st.p + 1 ELSE st.p
         IN  [st EXCEPT !.lines = Append(@, <<st.start, i>>), !.start = i, !.p = i, !.cx = 0]
    ELSE [st EXCEPT !.lines = Append(@, <<st.start, st.ls>>), !.start = st.ls, !.p = st.ls, !.cx = 0]

\* A line that ends at the place p, before the character c.
Ended(st, c) == [st EXCEPT !.lines = Append(@, <<st.start, st.p>>), !.start = c.next, !.p = c.next, !.cx = 0]

\* One round: st after it has seen the character c.
Wrapped(st, c, max_width) ==
    CASE c.mbc = Newline -> Ended(st, c)
      [] c.mbc = Return -> [st EXCEPT !.p = c.next]
      [] OTHER -> IF st.cx + Advance(c.mbc) >= max_width THEN Broken(st)
                  ELSE [st EXCEPT !.cx = @ + Advance(c.mbc), !.p = c.next]

Spaced(st, c) == [st EXCEPT !.ls = IF c.mbc = Space THEN c.next ELSE @]

RECURSIVE WrapFrom(_, _, _, _)
WrapFrom(s, st, max_width, fuel) ==
    LET c == utf8_get_char(s, st.p) IN
    CASE fuel = 0 -> [st EXCEPT !.lines = <<>>]
      [] fuel > 0 /\ c.mbc = 0 -> Ended(st, c)
      [] OTHER -> WrapFrom(s, Wrapped(Spaced(st, c), c, max_width), max_width, fuel - 1)

\* Each byte is looked at no more than once on each of two lines.
font_wrap_string(s, max_width) ==
    WrapFrom(s, [lines |-> <<>>, start |-> 0, ls |-> -1, p |-> 0, cx |-> 0], max_width, 1 + 4 * Len(s)).lines

\* widget_scroll_memo: where the text is after it was asked to move.
widget_scroll_memo(y, modifier, y_min, y_max) ==
    LET low == IF y + modifier < y_min THEN y_min ELSE y + modifier IN IF low > y_max THEN y_max ELSE low

---------------------------------------------------------------------------
Slice(s, l) == SubSeq(s, l[1] + 1, l[2])

CountsAgree(s, w, n) ==
    /\ font_plot_string(s, n) = n
    /\ w # 0 /\ n > 0 => font_get_string_width(s, n - 1) < w \/ n = 1

LinesWhole(s, l) ==
    /\ l # <<>> /\ l[1][1] = 0 /\ l[Len(l)][2] = Len(s)
    /\ \A k \in 1..(Len(l) - 1) :
          \/ l[k + 1][1] = l[k][2] /\ l[k][2] > l[k][1]
          \/ l[k + 1][1] = l[k][2] + 1 /\ At(s, l[k][2]) = Newline
    /\ \A k \in DOMAIN l : ~Contains(Codes(Slice(s, l[k]), 0), Newline)

\* Whatever bytes a text has, no byte is looked at past the end of it, every
\* entry that was counted for it is plotted ("BUG: %d queue entries empty"),
\* and its lines, which end after finitely many steps in any column, are all
\* of it, in order, without the newlines.
TextWhole(s, widths) ==
    /\ \A i \in 0..(Len(s) - 1) : utf8_get_char(s, i).next \in (i + 1)..Len(s)
    /\ \A w \in widths \cup {0} : CountsAgree(s, w, font_get_char_count(s, w))
    /\ \A w \in widths : LinesWhole(s, font_wrap_string(s, w))
=============================================================================
