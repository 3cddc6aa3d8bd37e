-------------------------------- MODULE Meta --------------------------------
(***************************************************************************)
(* What the files of the card say: an application's directory and its      *)
(* meta.xml (appentry.c, xml.c), the arguments that come from it (xml.c,   *)
(* loader.c), and the <font> elements of theme.xml (xml.c).                *)
(*                                                                         *)
(* A text that is only compared is its place in the order of strcasecmp; a *)
(* text that is copied is a sequence of letters, NUL a letter of its own.  *)
(***************************************************************************)
EXTENDS Integers, Sequences, FiniteSets, SequencesExt

CONSTANTS LD_MAX_SIZE, MAX_THEME_ZIP_SIZE,
          META_ARGS_MAX,   \* ARGS_MAX_LEN in xml.c
          U16,             \* 2^16
          FontTargets      \* the fonts a theme can name

NUL == "NUL"
NoText == <<"null">>    \* a text that is not there, unlike the empty one
Overrun == <<"overrun">>   \* what was written does not fit where it was written to
NoApp == [type |-> "none", size |-> 0]

---------------------------------------------------------------------------
(* The list of applications.                                               *)

\* The files that start an application or are a theme, as they are looked for.
Starts == <<"boot.elf", "boot.dol", "theme.zip">>

\* app_entry_load_single: dir is the size of each file, -1 if it is not there.
app_entry_load_single(dir) ==
    LET there == {i \in 1..3 : dir[i] >= 0}
        first == CHOOSE i \in there : \A j \in there : i <= j
    IN  IF \/ there = {}
           \/ first = 3 /\ dir[3] > MAX_THEME_ZIP_SIZE
           \/ dir[first] \notin 1..LD_MAX_SIZE
        THEN NoApp
        ELSE [type |-> Starts[first], size |-> dir[first]]

Sign(x, y) == IF x < y THEN -1 ELSE IF x > y THEN 1 ELSE 0

\* A faulty version: the same date is greater both ways round.
ByDateAfter(a, b) ==
    CASE a = 0 /\ b = 0 -> 0 [] a = 0 /\ b # 0 -> -1 [] a # 0 /\ b = 0 -> 1 [] b # 0 /\ a >= b -> 1 [] OTHER -> -1

\* By date: without one first, the same date is smaller both ways round.
ByDate(a, b) ==
    CASE a = 0 /\ b = 0 -> 0 [] a = 0 /\ b # 0 -> -1 [] a # 0 /\ b = 0 -> 1 [] b # 0 /\ a > b -> 1 [] OTHER -> -1

\* What has a name (0: none) before what has none; among these the directory decides.
ByName(a, b) ==
    CASE a.name = 0 /\ b.name = 0 -> Sign(a.dirname, b.dirname)
      [] a.name = 0 /\ b.name # 0 -> 1 [] a.name # 0 /\ b.name = 0 -> -1 [] OTHER -> Sign(a.name, b.name)

\* cmp_app_entry without cmp_descending; an application has no meta.xml
\* unless meta, and then perhaps a name and a date (0: none).
Ascending(sort, a, b) ==
    CASE ~a.meta /\ ~b.meta -> Sign(a.dirname, b.dirname)
      [] ~a.meta /\ b.meta -> 1 [] a.meta /\ ~b.meta -> -1
      [] OTHER -> IF sort = "DATE" THEN ByDate(a.date, b.date)
                  ELSE IF sort = "SIZE" THEN Sign(b.size, a.size) ELSE ByName(a, b)

cmp_app_entry(order, a, b) ==
    IF order.descending THEN Ascending(order.sort, b, a) ELSE Ascending(order.sort, a, b)

\* app_entry_set_sort: by size leaves filter and direction as they were.
app_entry_set_sort(order, sort) ==
    CASE sort = "DATE" -> [sort |-> "DATE", filter |-> "DATEONLY", descending |-> TRUE]
      [] sort = "SIZE" -> [order EXCEPT !.sort = "SIZE"]
      [] OTHER -> [sort |-> "NAME", filter |-> "ALL", descending |-> FALSE]

\* By date, two applications of the same date are each before the other.
SameDate(order, a, b) == order.sort = "DATE" /\ a.meta /\ b.meta /\ a.date = b.date /\ a.date # 0

\* qsort needs an order: whatever was chosen in the options dialog, one after
\* the other, to compare two applications the other way round turns the
\* answer round, and after and "neither is after" are transitive.  The one
\* exception is SameDate, for which the code answers -1 both ways round: of
\* these, only that neither is after the other is claimed.
ListingSorted(chosen, apps) ==
    LET start == [sort |-> "NAME", filter |-> "ALL", descending |-> FALSE]
        order == FoldLeft(app_entry_set_sort, start, chosen)
        cmp(a, b) == cmp_app_entry(order, a, b)
        after == {p \in apps \X apps : cmp(p[1], p[2]) > 0}
        tied == {p \in apps \X apps : p \notin after /\ <<p[2], p[1]>> \notin after}
    IN  \A a, b \in apps :
          /\ IF SameDate(order, a, b) THEN <<a, b>> \in tied ELSE cmp(a, b) = -cmp(b, a)
          /\ \A c \in apps :
                /\ {<<a, b>>, <<b, c>>} \subseteq after => <<a, c>> \in after
                /\ {<<a, b>>, <<b, c>>} \subseteq tied => <<a, c>> \in tied

\* What is listed can be loaded: the file that app_entry_get_filename names
\* is the one whose size was looked at.
ListingStarts(dir) ==
    LET e == app_entry_load_single(dir) IN
    e # NoApp => /\ dir[CHOOSE i \in 1..3 : Starts[i] = e.type] = e.size
                 /\ e.size \in 1..LD_MAX_SIZE
                 /\ e.type = "theme.zip" => e.size <= MAX_THEME_ZIP_SIZE

---------------------------------------------------------------------------
(* The arguments of an application.                                        *)

\* The texts of the <arg> elements that have one, with a NUL between two; the
\* NUL is left out as long as nothing has been written.
Joined(args) ==
    FoldLeft(LAMBDA block, arg : CASE arg = NoText -> block
                                   [] arg # NoText /\ block = <<>> -> arg
                                   [] OTHER -> block \o <<NUL>> \o arg, <<>>, args)

\* Their length with the NULs between them, counted in a u16.
Counted(args) ==
    FoldLeft(LAMBDA len, arg : IF arg = NoText THEN len ELSE (len + Len(arg) + IF len = 0 THEN 0 ELSE 1) % U16, 0, args)

\* _get_args: the block without the NUL that ends it, or NoText.  One whose
\* count has wrapped around is larger than what was allocated for it.
_get_args(args) ==
    LET block == Joined(args)
        len == (Counted(args) + 1) % U16
    IN  IF Counted(args) = 0 \/ len > META_ARGS_MAX THEN NoText
        ELSE IF Len(block) + 1 > len THEN Overrun ELSE block

\* loader_load: what result->args is for a file that is started from the card.
ResultArgs(filename, meta_args) ==
    (IF meta_args = NoText THEN filename ELSE filename \o <<NUL>> \o meta_args) \o <<NUL, NUL>>

\* The start code of the program: texts that end in a NUL, up to an empty one.
Ends(block) == {i \in DOMAIN block : block[i] = NUL}
FirstEnd(block) == CHOOSE i \in Ends(block) : \A j \in Ends(block) : i <= j
RECURSIVE Argv(_)
Argv(block) ==
    IF Ends(block) = {} \/ FirstEnd(block) = 1 THEN <<>>
    ELSE <<SubSeq(block, 1, FirstEnd(block) - 1)>> \o Argv(SubSeq(block, FirstEnd(block) + 1, Len(block)))

\* The program gets its own name and the arguments of meta.xml, none of them
\* cut or run together, up to an empty one; if they are too long it gets none,
\* as long as their length is one that a u16 can count.
ArgsDeliveredFromMeta(filename, args) ==
    LET given == SelectSeq(args, LAMBDA a : a # NoText)
        text == SelectSeq(given, LAMBDA a : a # <<>>)
        length == FoldLeft(LAMBDA n, a : n + Len(a) + 1, 0, given)
        got == Argv(ResultArgs(filename, _get_args(args)))
    IN  length < U16 =>
          /\ Head(got) = filename
          /\ given = text => Tail(got) = IF length > META_ARGS_MAX THEN <<>> ELSE given

---------------------------------------------------------------------------
(* The file names of theme.xml.  A name is <<theme, document, element>>,   *)
(* where it was allocated.                                                 *)

NoName == <<0, 0, 0>>

NoNames == [default |-> NoName, fonts |-> [i \in FontTargets |-> NoName], live |-> {}, twice |-> FALSE]

Free(t, name) ==
    IF name = NoName THEN t ELSE [t EXCEPT !.live = @ \ {name}, !.twice = @ \/ name \notin t.live]

\* A target takes the name; the one it had is freed.
Takes(t, i, name) ==
    IF name = NoName THEN t
    ELSE LET f == Free(t, t.fonts[i]) IN [f EXCEPT !.fonts[i] = name]

\* _get_font: an element without targets is for the default font.
_get_font(t, element, name) ==
    LET new == IF name = NoName THEN t ELSE [t EXCEPT !.live = @ \cup {name}]
    IN  IF element.targets # <<>>
        THEN FoldLeft(LAMBDA u, i : IF i \in FontTargets THEN Takes(u, i, name) ELSE u, new, element.targets)
        ELSE IF name = NoName THEN new
             ELSE [Free(new, new.default) EXCEPT !.default = name]

\* load_theme_xml: the old names are freed, and forgotten if the text parses.
load_theme_xml(t, at, document) ==
    LET freed == FoldLeft(LAMBDA u, i : Free(u, t.fonts[i]), Free(t, t.default), SetToSeq(FontTargets))
        bare == [freed EXCEPT !.default = NoName, !.fonts = [i \in FontTargets |-> NoName]]
        name(k) == IF document.elements[k].file THEN Append(at, k) ELSE NoName
    IN  IF ~document.parses THEN freed
        ELSE FoldLeft(LAMBDA u, k : _get_font(u, document.elements[k], name(k)), bare,
                      [k \in DOMAIN document.elements |-> k])

\* theme_init's memset: the names of the last theme are forgotten, not freed.
Forgotten(t) == [NoNames EXCEPT !.live = t.live, !.twice = t.twice]

\* theme_init, which calls theme_load: each record of the archive that is called
\* theme.xml is loaded, as a rule one.
theme_load(t, d, documents) ==
    FoldLeft(LAMBDA u, e : load_theme_xml(u, <<d, e>>, documents[e]), Forgotten(t), [e \in DOMAIN documents |-> e])

\* Theme after theme, as long as each document parses and no element has two
\* targets: every name a font has is its own and is there, and none is freed
\* twice.  Nothing is claimed of the names of the theme before.
NamesOwned(themes) ==
    (\A d \in DOMAIN themes : \A e \in DOMAIN themes[d] :
        LET document == themes[d][e] IN
        document.parses /\ \A k \in DOMAIN document.elements : Len(document.elements[k].targets) <= 1)
    => LET t == FoldLeft(LAMBDA u, d : theme_load(u, d, themes[d]), NoNames, [d \in DOMAIN themes |-> d])
           held == {i \in FontTargets : t.fonts[i] # NoName}
       IN  /\ ~t.twice
           /\ \A i \in held : t.fonts[i] \in t.live \ {t.default}
           /\ \A i, j \in held : t.fonts[i] = t.fonts[j] => i = j
           /\ t.default # NoName => t.default \in t.live
=============================================================================
