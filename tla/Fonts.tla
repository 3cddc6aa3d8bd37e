-------------------------------- MODULE Fonts --------------------------------
(***************************************************************************)
(* The fonts (font.c) and the font files of a theme (theme.c, xml.c).      *)
(*                                                                         *)
(* Seven font ids share what they can: ids with the same file and size are *)
(* one font_face, font_faces with the same file have one FreeType face,    *)
(* theme fonts with the same file name one buffer.  All of it is loaded    *)
(* when a text first needs it and freed by font_clear and theme_deinit.    *)
(* What is allocated is named by the id it was allocated for.              *)
(***************************************************************************)
EXTENDS Integers, Sequences, FiniteSets

CONSTANTS FONT_MAX, DefaultData, DefaultSize,   \* default_fonts
          FileKind,         \* the files a theme may name: "good", "bad" (no font) or "missing"
          Themes,           \* the <font> elements of the themes: file and size of each target and of the default
          Drawn_,           \* the texts: pairs of a font id and a code point
          CACHE_ROOT, CACHE_INIT, CACHE_GROW,   \* GLYPH_CACHE_*
          CapitalM          \* 'M', the first glyph of each font

Ids == 1..FONT_MAX
FontFiles == DOMAIN FileKind \cup {"none"}

ASSUME FontsAssumption ==
    /\ FONT_MAX \in Nat \ {0} /\ {CACHE_ROOT, CACHE_INIT, CACHE_GROW} \subseteq Nat \ {0}
    /\ CapitalM \in Nat /\ Drawn_ \subseteq Ids \X Nat
    /\ DefaultSize \in [Ids -> Nat]
    /\ Themes \subseteq [file : [Ids -> FontFiles], size : [Ids -> Nat], default : FontFiles, default_size : Nat]

None0 == 0

VARIABLES
    fonts,        \* the font_face of each id
    face_of,      \* the font_faces: data, size, FreeType face and glyphs
    faces,        \* the FreeType faces that are not done
    theme_fonts,  \* file, data and size of each id
    bufs,         \* the files of the theme that are in memory
    asked,        \* the code points each font_face was asked for
    font_pc,      \* "up", or what is next in refresh_theme
    freed_twice   \* something was freed that was not allocated

fontVars == <<fonts, face_of, faces, theme_fonts, bufs, asked, font_pc, freed_twice>>

NoFont == [data |-> <<"none", 0>>, em |-> 0, face |-> None0, glyphs |-> <<>>, max |-> 0]
NoThemeFont == [file |-> "none", data |-> None0, size |-> 0]

---------------------------------------------------------------------------
(* The glyphs of a font_face: CACHE_ROOT chains by the low bits of the     *)
(* code point.  Slots are numbered from 0, glyphs holds the used ones.     *)

EmptySlot == [codepoint |-> -1, next_idx |-> -1]
NoGlyphs == [g \in 0..(CACHE_ROOT - 1) |-> EmptySlot]

num_glyphs(f) == Cardinality(DOMAIN f.glyphs)
Root(c) == c % CACHE_ROOT

\* Where a look-up ends: the code point, an empty slot or the end of its chain.
StopsAt(g, slot, c) == g[slot].codepoint \in {-1, c} \/ g[slot].next_idx = -1
Chain(g, c) ==
    LET at[k \in 0..Cardinality(DOMAIN g)] ==
            IF k = 0 THEN Root(c) ELSE IF StopsAt(g, at[k - 1], c) THEN at[k - 1] ELSE g[at[k - 1]].next_idx
    IN  at[Cardinality(DOMAIN g)]

\* A faulty version: what is at the end of a chain is overwritten, not continued.
GetCharOverwrites(f, c) ==
    LET last == Chain(f.glyphs, c)
    IN  [f EXCEPT !.glyphs[last] = [codepoint |-> c, next_idx |-> -1]]

\* font_get_char on a loaded font_face.
font_get_char(f, c) ==
    LET last == Chain(f.glyphs, c)
        slot == [codepoint |-> c, next_idx |-> -1]
        n == num_glyphs(f)
    IN  CASE f.glyphs[last].codepoint = c -> f
          [] f.glyphs[last].codepoint = -1 -> [f EXCEPT !.glyphs[last] = slot]
          [] OTHER ->
               [f EXCEPT !.glyphs = [g \in 0..n |->
                                        IF g = n THEN slot
                                        ELSE IF g = last THEN [@[g] EXCEPT !.next_idx = n] ELSE @[g]],
                         !.max = IF n = @ THEN @ + CACHE_GROW ELSE @]

---------------------------------------------------------------------------
(* font_load                                                               *)

\* What id is loaded from: the theme's file and size, or the defaults.
Wanted(id, tf) ==
    [data |-> IF tf[id].data # None0 THEN <<"theme", tf[id].data>> ELSE <<"default", DefaultData[id]>>,
     em |-> IF tf[id].size # 0 THEN tf[id].size ELSE DefaultSize[id]]

Opens(data) == data[1] = "default" \/ FileKind[theme_fonts[data[2]].file] = "good"

\* The ids whose font is open on data; the first of some ids, or None0.
OpenOn(data) == {i \in Ids : fonts[i] # None0 /\ face_of[fonts[i]].data = data}

FirstId(S) == IF S = {} THEN None0 ELSE CHOOSE i \in S : \A j \in S : i <= j

\* FreeType refuses the theme's file: the id goes back to the default, its size too.
Falls(id) ==
    LET w == Wanted(id, theme_fonts)
    IN  w.data[1] = "theme" /\ ~Opens(w.data) /\ OpenOn(w.data) = {}

Loads(id, w, tf) ==
    LET clone == FirstId({i \in OpenOn(w.data) : face_of[fonts[i]].em = w.em})
        sharer == FirstId(OpenOn(w.data))
        face == IF sharer # None0 THEN face_of[fonts[sharer]].face ELSE id
        new == [data |-> w.data, em |-> w.em, face |-> face, glyphs |-> NoGlyphs, max |-> CACHE_ROOT + CACHE_INIT]
    IN  /\ theme_fonts' = tf
        /\ IF clone # None0
           THEN fonts' = [fonts EXCEPT ![id] = fonts[clone]] /\ UNCHANGED <<face_of, faces, asked>>
           ELSE /\ fonts' = [fonts EXCEPT ![id] = id]
                /\ face_of' = [face_of EXCEPT ![id] = font_get_char(new, CapitalM)]
                /\ asked' = [asked EXCEPT ![id] = {CapitalM}]
                /\ faces' = faces \cup {face}

font_load(id) ==
    /\ font_pc = "up" /\ fonts[id] = None0
    /\ IF Falls(id)
       THEN Loads(id, [data |-> <<"default", DefaultData[id]>>, em |-> DefaultSize[id]],
                  [theme_fonts EXCEPT ![id].data = None0])
       ELSE Loads(id, Wanted(id, theme_fonts), theme_fonts)
    /\ UNCHANGED <<bufs, font_pc, freed_twice>>

\* A text draws, or is measured with, one more character.
Draw ==
    /\ font_pc = "up"
    /\ \E d \in Drawn_ :
          LET id == d[1]
              c == d[2]
              o == fonts[id]
          IN  /\ o # None0
              /\ face_of' = [face_of EXCEPT ![o] = font_get_char(@, c)]
              /\ asked' = [asked EXCEPT ![o] = @ \cup {c}]
    /\ UNCHANGED <<fonts, faces, theme_fonts, bufs, font_pc, freed_twice>>

---------------------------------------------------------------------------
(* A change of theme.                                                      *)

\* One round of font_clear: the clones of id, its glyphs, its face, the others that had it.
ClearOne(st, id) ==
    IF st.fonts[id] = None0 THEN st
    ELSE LET o == st.fonts[id]
             face == st.of[o].face
             others == [i \in Ids |-> IF st.of[i].face = face THEN [st.of[i] EXCEPT !.face = None0] ELSE st.of[i]]
         IN  [fonts |-> [i \in Ids |-> IF st.fonts[i] = o THEN None0 ELSE st.fonts[i]],
              of |-> [others EXCEPT ![o] = NoFont],
              faces |-> IF face = None0 THEN st.faces ELSE st.faces \ {face},
              twice |-> st.twice \/ (face # None0 /\ face \notin st.faces)]

font_clear ==
    /\ font_pc = "up" /\ font_pc' = "cleared"
    /\ LET after[i \in 0..FONT_MAX] ==
               IF i = 0 THEN [fonts |-> fonts, of |-> face_of, faces |-> faces, twice |-> freed_twice]
               ELSE ClearOne(after[i - 1], i)
           end == after[FONT_MAX]
       IN  fonts' = end.fonts /\ face_of' = end.of /\ faces' = end.faces /\ freed_twice' = end.twice
    /\ asked' = [i \in Ids |-> {}]
    /\ UNCHANGED <<theme_fonts, bufs>>

\* One round of theme_deinit's loop over the fonts.
DeinitOne(st, i) ==
    LET data == st.tf[i].data
    IN  [tf |-> [j \in Ids |-> IF j = i THEN NoThemeFont
                               ELSE IF data # None0 /\ st.tf[j].data = data THEN [st.tf[j] EXCEPT !.data = None0]
                               ELSE st.tf[j]],
         bufs |-> st.bufs \ {data}, twice |-> st.twice \/ (data # None0 /\ data \notin st.bufs)]

theme_deinit ==
    /\ font_pc = "cleared" /\ font_pc' = "bare"
    /\ LET after[i \in 0..FONT_MAX] ==
               IF i = 0 THEN [tf |-> theme_fonts, bufs |-> bufs, twice |-> freed_twice]
               ELSE DeinitOne(after[i - 1], i)
           end == after[FONT_MAX]
       IN  theme_fonts' = end.tf /\ bufs' = end.bufs /\ freed_twice' = end.twice
    /\ UNCHANGED <<fonts, face_of, faces, asked>>

\* theme_load_fonts for one id: the file it names, or the default one; in
\* memory already, unless it is the first to name it.
LoadOne(st, i, t) ==
    LET file == IF t.file[i] # "none" THEN t.file[i] ELSE t.default
        size == IF t.size[i] # 0 THEN t.size[i] ELSE t.default_size
        sharers == {j \in Ids : st.tf[j].file = file /\ st.tf[j].data # None0}
    IN  CASE file = "none" -> [st EXCEPT !.tf[i].size = size]
          [] file # "none" /\ sharers # {} ->
               [st EXCEPT !.tf[i].size = size,
                          !.tf[i].data = st.tf[CHOOSE j \in sharers : \A k \in sharers : j <= k].data]
          [] file # "none" /\ sharers = {} /\ FileKind[file] = "missing" -> [st EXCEPT !.tf[i].size = size]
          [] OTHER -> [tf |-> [st.tf EXCEPT ![i] = [file |-> file, data |-> i, size |-> size]],
                       bufs |-> st.bufs \cup {i}]

theme_init ==
    /\ font_pc = "bare" /\ font_pc' = "up"
    /\ \E t \in Themes :
          LET after[i \in 0..FONT_MAX] ==
                  IF i = 0 THEN [tf |-> [j \in Ids |-> NoThemeFont], bufs |-> bufs] ELSE LoadOne(after[i - 1], i, t)
          IN  theme_fonts' = after[FONT_MAX].tf /\ bufs' = after[FONT_MAX].bufs
    /\ UNCHANGED <<fonts, face_of, faces, asked, freed_twice>>

FontsInit ==
    /\ fonts = [i \in Ids |-> None0] /\ face_of = [i \in Ids |-> NoFont] /\ faces = {}
    /\ theme_fonts = [i \in Ids |-> NoThemeFont] /\ bufs = {} /\ asked = [i \in Ids |-> {}]
    /\ font_pc = "up" /\ freed_twice = FALSE

FontsNext ==
    \/ \E id \in Ids : font_load(id)
    \/ Draw \/ font_clear \/ theme_deinit \/ theme_init

FontsSpec == FontsInit /\ [][FontsNext]_fontVars

---------------------------------------------------------------------------
\* What the fonts share lives as long as it is used and is freed once: the
\* FreeType face and the file in memory of every font_face a text can reach
\* are there, over fallbacks, clones and changes of theme, and a change of
\* theme leaves no face behind.
FacesOwned ==
    /\ ~freed_twice
    /\ \A i \in Ids : fonts[i] # None0 =>
          LET f == face_of[fonts[i]]
          IN  /\ f.face \in faces
              /\ f.data[1] = "theme" => f.data[2] \in bufs
    /\ font_pc # "up" => faces = {}
    /\ font_pc = "bare" => \A i \in Ids : theme_fonts[i] = NoThemeFont

\* The cache of a font_face holds exactly the characters it was asked for,
\* each once and where a look-up finds it, however often it has grown.
GlyphsWhole ==
    \A o \in {fonts[i] : i \in Ids} \ {None0} :
        LET f == face_of[o]
            used == {g \in DOMAIN f.glyphs : f.glyphs[g].codepoint # -1}
        IN  /\ {f.glyphs[g].codepoint : g \in used} = asked[o]
            /\ Cardinality(used) = Cardinality(asked[o])
            /\ num_glyphs(f) <= f.max
            /\ \A c \in asked[o] : f.glyphs[Chain(f.glyphs, c)].codepoint = c

\* Both, over every way to use the fonts.
FontsWhole == FacesOwned /\ GlyphsWhole
=============================================================================
