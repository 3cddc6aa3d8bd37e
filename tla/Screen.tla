------------------------------- MODULE Screen -------------------------------
(***************************************************************************)
(* What the channel draws and when what it draws is freed: the views and   *)
(* their widgets (view.c, widgets.c, dialogs.c, m_main.c), the queue they  *)
(* are drawn from (gfx.c), the bubbles (bubbles.c) and the steps of main   *)
(* that build, show and free them (main.c).                                *)
(*                                                                         *)
(* A queue entry points to a texture of the theme, to a glyph of a font or *)
(* to the icon of an application, and nothing tells it when that is freed: *)
(* dangling is the set of <<holder, kind>> whose pointer dangles.  main is *)
(* one thread; todo is what it has left to call in this round of its loop. *)
(* Positions, captions, colours, hovering and which page is shown (see     *)
(* Browser) are left out; a bank of widgets is one widget.                 *)
(***************************************************************************)
EXTENDS Integers, Sequences, FiniteSets, SequencesExt

CONSTANTS MaxBubbles,   \* MAX_BUBBLE_COUNT
          Installed,    \* which of "bootmii" and "priiloader" the console has
          OriginStack   \* GFX_ORIGIN_STACK_SIZE

ASSUME ScreenAssumption ==
    MaxBubbles \in Nat /\ OriginStack \in Nat /\ OriginStack >= 2 /\ Installed \subseteq {"bootmii", "priiloader"}

VARIABLES
    views,        \* "browser", "m_main" and the dialog that is open
    dangling,     \* pointers to what was freed
    theme_gfx,    \* "live", or "null" between theme_deinit and theme_init
    bubble_count, popped,
    ui,           \* v_current, menu_index, viewing, cursor_enabled, first_set
    apps,         \* are there entries to show?
    todo, bd,     \* what main calls next, the button pressed in the last frame
    answer,       \* what the last message returned
    exit          \* the flags main leaves its loop with

screenVars == <<views, dangling, theme_gfx, bubble_count, popped, ui, apps, todo, bd, answer, exit>>

---------------------------------------------------------------------------
(* Widgets and their layers.  A layer with flags is drawn when they, some  *)
(* of them inverted, are all set.                                          *)

Layer(flags, invert, op, needs) == [flags |-> flags, invert |-> invert, op |-> op, needs |-> needs]
Always(op, needs) == Layer({}, {}, op, needs)

Faces ==
    <<Layer({"FOCUSED", "ENABLED"}, {"FOCUSED"}, "entity", {"theme"}),
      Layer({"ENABLED"}, {"ENABLED"}, "entity", {"theme"}),
      Layer({"FOCUSED", "ENABLED"}, {}, "entity", {"theme"})>>

Layers ==
    [none |-> <<>>,
     label |-> <<Always("entity", {"glyph"})>>,
     image |-> <<Layer({"ENABLED"}, {}, "entity", {"theme"})>>,
     lamp |-> <<Layer({"ENABLED"}, {}, "entity", {"theme"}), Layer({"ENABLED"}, {"ENABLED"}, "entity", {"theme"})>>,
     picture |-> <<Layer({"ENABLED"}, {}, "entity", {"icon"})>>,
     button |-> Append(Faces, Always("entity", {"glyph"})),
     app_entry |-> Append(Faces, Always("entity", {"glyph", "icon"})),
     progress |-> <<Always("entity", {}), Always("entity", {"theme"}), Always("entity", {"glyph"})>>,
     memo |-> <<Always("scissor", {}), Always("entity", {"glyph"}), Always("scissor_reset", {})>>]

Needs(type) == UNION {Layers[type][i].needs : i \in DOMAIN Layers[type]}

Shows(w, l) == l.flags \subseteq (w.flags \ l.invert) \cup (l.invert \ w.flags)

\* widget_init
Widget(type) ==
    [type |-> type,
     flags |-> {"VISIBLE", "ENABLED"} \cup IF type \in {"button", "app_entry"} THEN {"FOCUSABLE"} ELSE {}]
NoWidget == [type |-> "none", flags |-> {}]

FocusFlags == {"VISIBLE", "ENABLED", "FOCUSABLE"}
TakesFocus(w) == FocusFlags \subseteq w.flags

\* widget_set_flag
Enabled(w, on) == [w EXCEPT !.flags = IF on THEN @ \cup {"ENABLED"} ELSE @ \ {"ENABLED"}]

\* What the pointer can be over and makes a difference: a widget that takes
\* the focus, and the text of the detail view, which can be dragged.
Memo == 6
Sized(v) == {i \in DOMAIN v.widgets : TakesFocus(v.widgets[i]) \/ (v.kind = "detail" /\ i = Memo)}

---------------------------------------------------------------------------
(* Views.                                                                  *)

NewView(kind, ws, sub, drag_btn) ==
    [kind |-> kind, widgets |-> ws, focus |-> -1, sub |-> sub, drag_btn |-> drag_btn, drag |-> -1]
NoView == NewView("none", <<>>, "none", FALSE)

Flagged(v, i, set) ==
    IF i = -1 THEN v
    ELSE [v EXCEPT !.widgets[i].flags = IF set THEN @ \cup {"FOCUSED"} ELSE @ \ {"FOCUSED"}]

\* A faulty version: the widget that loses the focus keeps its flag.
SetFocusKeeps(v, f) == Flagged([v EXCEPT !.focus = f], f, TRUE)

view_set_focus(v, f) == Flagged([Flagged(v, v.focus, FALSE) EXCEPT !.focus = f], f, TRUE)

view_set_focus_next(v) ==
    LET S == {i \in DOMAIN v.widgets : i > v.focus /\ TakesFocus(v.widgets[i])}
    IN  IF S = {} THEN v ELSE view_set_focus(v, CHOOSE i \in S : \A j \in S : i <= j)

view_set_focus_prev(v) ==
    LET S == {i \in DOMAIN v.widgets : i < v.focus /\ TakesFocus(v.widgets[i])}
    IN  IF v.focus < 1 \/ S = {} THEN v ELSE view_set_focus(v, CHOOSE i \in S : \A j \in S : i >= j)

\* By a row of the options dialog: -1 counts as a place, place 0 is never reached.
view_move_focus(v, mod) ==
    LET f == v.focus + mod
    IN  IF f >= 1 /\ f \in DOMAIN v.widgets /\ TakesFocus(v.widgets[f]) THEN view_set_focus(v, f) ELSE v

\* The pointer in view_plot: Off, over nothing (-1) or over a widget.
Off == -2
Pointed(v, p) ==
    IF p = Off THEN v
    ELSE LET blurred == view_set_focus(v, -1)
         IN  IF p # -1 /\ TakesFocus(v.widgets[p]) THEN view_set_focus(blurred, p) ELSE blurred

\* Dragging starts over a widget and ends when the button is seen to go up.
Dragged(v, p, b, up) ==
    IF ~v.drag_btn THEN v
    ELSE [v EXCEPT !.drag = IF b = "B" /\ p = Memo THEN p ELSE IF up \/ b = "B" THEN -1 ELSE @]

---------------------------------------------------------------------------
(* The queue a frame is drawn from.                                        *)

VisibleIn(v) == {i \in DOMAIN v.widgets : "VISIBLE" \in v.widgets[i].flags}
LayersShown(w) == {k \in DOMAIN Layers[w.type] : Shows(w, Layers[w.type][k])}

\* view_push_view of one view: what is done in which order, and the pointers it takes.
WidgetQueue(w) ==
    <<"push">>
    \o FlattenSeq([k \in DOMAIN Layers[w.type] |-> IF k \in LayersShown(w) THEN <<Layers[w.type][k].op>> ELSE <<>>])
    \o <<"pop">>
ViewQueue(v) ==
    <<"push">>
    \o FlattenSeq([k \in 1..Cardinality(DOMAIN v.widgets) |->
                      IF k - 1 \in VisibleIn(v) THEN WidgetQueue(v.widgets[k - 1]) ELSE <<>>])
    \o <<"pop">>

Takes(w) == UNION {Layers[w.type][k].needs : k \in LayersShown(w)}
ViewRefs(n) ==
    UNION {{<<<<n, i>>, kind>> : kind \in Takes(views[n].widgets[i])} : i \in VisibleIn(views[n])}

Background == {<<<<"entry_bg", 0>>, "theme">>, <<<<"entry_logo", 0>>, "theme">>, <<<<"entry_throbber", 0>>, "theme">>}

\* bubble_update: entries_bubbles, and entries_sub_bubbles of those that have popped.
BubbleRefs ==
    {<<<<"bubble", i>>, "theme">> : i \in 0..(bubble_count - 1)}
    \cup {<<<<"sub_bubble", i>>, "theme">> : i \in popped \cap 0..(bubble_count - 1)}

\* A whole frame: what is behind the views, the view below a dialog and the view itself.
Frames(n) == IF views[n].sub = "none" THEN <<n>> ELSE <<views[n].sub, n>>
view_push_view(n) ==
    <<"entity">> \o FlattenSeq([k \in DOMAIN Frames(n) |-> Append(ViewQueue(views[Frames(n)[k]]), "entity")])
Refs(n) == Background \cup BubbleRefs \cup UNION {ViewRefs(m) : m \in ToSet(Frames(n))}

\* origin_stack_size, its largest value and GX's scissor.
gfx_frame_push(g, e) ==
    [depth |-> CASE e = "push" -> g.depth + 1
                 [] e = "pop" /\ g.depth > 0 -> g.depth - 1
                 [] OTHER -> g.depth,
     most |-> IF e = "push" /\ g.depth + 1 > g.most THEN g.depth + 1 ELSE g.most,
     scissor |-> CASE e = "scissor" -> TRUE [] e = "scissor_reset" -> FALSE [] OTHER -> g.scissor]
gfx_frame_start == [depth |-> 0, most |-> 0, scissor |-> FALSE]

---------------------------------------------------------------------------
(* What holds pointers, and what happens to them.                          *)

Fixtures == Background \cup {<<<<"tex_bubbles", 0>>, "theme">>} \cup BubbleRefs

Holders(kind) ==
    (UNION {{<<<<n, i>>, kind>> : i \in {j \in DOMAIN views[n].widgets : kind \in Needs(views[n].widgets[j].type)}}
              : n \in DOMAIN views})
    \cup (IF kind = "theme" THEN Fixtures ELSE {})

\* The widgets ws of view n are built or freed.
Rebuilt(n, ws, s) ==
    {h \in s : h[1] \notin {<<n, i>> : i \in DOMAIN ws}}
    \cup IF theme_gfx = "live" THEN {}
         ELSE {<<<<n, i>>, "theme">> : i \in {j \in DOMAIN ws : "theme" \in Needs(ws[j].type)}}

Build(n, ws) ==
    /\ views' = [views EXCEPT ![n].widgets = [i \in DOMAIN @ |-> IF i \in DOMAIN ws THEN ws[i] ELSE @[i]]]
    /\ dangling' = Rebuilt(n, ws, dangling)

\* bubble_rand or bubble_pop for the holders in S: they point where tex_bubbles does.
Plotted(S, s) ==
    LET refs == {<<d, "theme">> : d \in S}
    IN  IF <<<<"tex_bubbles", 0>>, "theme">> \in s THEN s \cup refs ELSE s \ refs

---------------------------------------------------------------------------
(* The views of the channel.                                               *)

\* The arrows, two lamps and the logo, and the banks: browser_gen_view fills them.
BrowserWidgets ==
    [i \in 0..6 |-> IF i \in 0..1 THEN [Widget("image") EXCEPT !.flags = @ \ {"VISIBLE"}]
                    ELSE IF i \in 2..3 THEN [Widget("lamp") EXCEPT !.flags = @ \ {"ENABLED"}]
                    ELSE IF i = 4 THEN Widget("lamp")
                    ELSE NoWidget]

ExitButtons == {2, 3, 4} \cup (IF "bootmii" \in Installed THEN {0} ELSE {}) \cup (IF "priiloader" \in Installed THEN {1} ELSE {})
Buttons(menu) == IF menu = "HOME" THEN 0..3 ELSE ExitButtons

\* m_main_theme_reinit frees all nine widgets; m_main_update builds the last.
MainWidgets(menu, updated) ==
    [i \in 0..8 |-> IF i \in Buttons(menu) THEN Widget("button")
                    ELSE IF i \in {6, 7} \/ (i = 8 /\ updated) THEN Widget("label")
                    ELSE NoWidget]

Message == <<"image", "image", "label", "image", "memo", "image">>
Types(kind) ==
    CASE kind = "detail" -> <<"image", "label", "picture", "label", "label", "image", "memo", "image", "button", "button", "button">>
      [] kind = "about" -> <<"image", "image", "memo">>
      [] kind = "none" -> Message
      [] kind = "ok" -> Append(Message, "button")
      [] kind = "yesno" -> Message \o <<"button", "button">>
      [] kind = "progress" -> <<"progress">>
      [] kind = "options" -> <<"image", "label", "label", "label">> \o [i \in 1..9 |-> "button"]

\* dialog_app, dialog_about, dialog_message, dialog_progress, show_options_dialog
Dialog(kind, sub, f) ==
    LET ws == [i \in 0..(Len(Types(kind)) - 1) |-> Widget(Types(kind)[i + 1])]
    IN  view_set_focus(NewView(kind, ws, sub, kind = "detail"), f)

Ask(kind, f) == <<<<"open", kind, f>>, <<"dialog_fade">>, <<"loop">>, <<"dialog_fade">>, <<"close">>>>
OpenDialog(kind, f) == <<<<"open", kind, f>>, <<"dialog_fade">>>>
CloseDialog == <<<<"dialog_fade">>, <<"close">>>>
\* manage_run and loader_load: a progress dialog, then an outcome.
Progress(then) == OpenDialog("progress", -1) \o <<<<"progress">>>> \o CloseDialog \o <<then>>

Gen(action) == <<<<"gen", action>>, <<"slide">>, <<"half", action>>, <<"slide">>, <<"slid">>>>

\* A faulty version: the bubbles are forgotten.
RefreshNoBubbles ==
    Gen("REMOVE") \o <<<<"fade">>, <<"font_clear">>, <<"theme_deinit">>, <<"theme_init">>,
      <<"view_theme_reinit">>, <<"browser_theme_reinit">>, <<"m_main_theme_reinit">>, <<"fade">>>> \o Gen("REFRESH")

\* refresh_theme of main.c, and what it calls, in order.
refresh_theme ==
    Gen("REMOVE") \o <<<<"fade">>, <<"font_clear">>, <<"theme_deinit">>, <<"theme_init">>,
      <<"bubbles_theme_reinit">>, <<"view_theme_reinit">>, <<"browser_theme_reinit">>, <<"m_main_theme_reinit">>,
      <<"fade">>>> \o Gen("REFRESH")

ScreenInit ==
    /\ theme_gfx = "live" /\ dangling = {} /\ bubble_count = 0 /\ popped = {}
    /\ apps = FALSE
    /\ views = [browser |-> NewView("browser", BrowserWidgets, "none", FALSE),
                m_main |-> view_set_focus(NewView("m_main", MainWidgets("HOME", TRUE), "none", FALSE), 0),
                dialog |-> NoView]
    /\ ui = [v_current |-> "browser", menu_index |-> "HOME", viewing |-> TRUE, cursor_enabled |-> TRUE, first_set |-> TRUE]
    /\ todo = <<>> /\ bd = "none" /\ answer = 0 /\ exit = {}

---------------------------------------------------------------------------
(* One frame.                                                              *)

\* What happens to the bubbles: at most one thing in a frame.  One that is
\* not drawn holds nothing, it is plotted when it comes or pops.
BubblesAs(count, pop, s) ==
    /\ bubble_count' = count /\ popped' = pop \cap 0..(count - 1)
    /\ dangling' = {h \in s : /\ h[1][1] = "bubble" => h[1][2] < count
                              /\ h[1][1] = "sub_bubble" => h[1][2] \in popped'}

BubbleUpdate ==
    \/ BubblesAs(bubble_count, popped, dangling)
    \/ bubble_count > 0 /\ BubblesAs(bubble_count - 1, popped, dangling)
    \/ /\ bubble_count < MaxBubbles
       /\ BubblesAs(bubble_count + 1, popped \ {bubble_count}, Plotted({<<"bubble", bubble_count>>}, dangling))
    \/ \E i \in 0..(bubble_count - 1) :
          IF i \in popped
          THEN BubblesAs(bubble_count, popped \ {i}, Plotted({<<"bubble", i>>}, dangling))
          ELSE BubblesAs(bubble_count, popped \cup {i}, Plotted({<<"sub_bubble", i>>}, dangling))

\* The buttons a loop looks at; the others are "none" to it.
Pad(kind) ==
    {"none"} \cup CASE kind = "browser" -> {"HOME", "A", "1", "2", "UP", "DOWN", "LEFT", "RIGHT"}
                    [] kind = "m_main" -> {"HOME", "A", "B", "UP", "DOWN"}
                    [] kind = "options" -> {"A", "B", "1", "UP", "DOWN", "LEFT", "RIGHT"}
                    [] kind = "about" -> {"A", "B"}
                    [] OTHER -> {"A", "B", "LEFT", "RIGHT"}

Pointers(n) == IF ui.viewing /\ ui.cursor_enabled THEN {-1} \cup Sized(views[n]) ELSE {}

\* What a frame sees: a bubble, the pointer or a button.  A frame that sees
\* two of them is two frames, but for B on a text, which starts to drag it.
Seen(n, B) ==
    ({Off} \X B) \cup (Pointers(n) \X {"none"}) \cup (Pointers(n) \cap {Memo}) \X (B \cap {"B"})
Behind(e) == IF e = <<Off, "none">> THEN BubbleUpdate ELSE UNCHANGED <<bubble_count, popped, dangling>>

\* view_plot of the view n with the buttons B.  Holders 2 and pressing 1
\* hides or shows the views (viewing) and is no other command.
view_plot(n, B) ==
    \/ /\ ui' = [ui EXCEPT !.viewing = ~@] /\ bd' = "none"
       /\ UNCHANGED <<views, bubble_count, popped, dangling>>
    \/ \E e \in Seen(n, B), up \in BOOLEAN :
          /\ Behind(e)
          /\ views' = [views EXCEPT ![n] = IF ui.viewing THEN Pointed(Dragged(@, e[1], e[2], up), e[1]) ELSE @]
          /\ bd' = e[2] /\ UNCHANGED ui

\* The first call that is left to make, its argument, and what follows it.
Do(op) == todo # <<>> /\ Head(todo)[1] = op
Arg == Head(todo)[2]
Then(steps) == todo' = steps \o Tail(todo)
Current == views[ui.v_current]
Done == Then(<<>>)
GoesOn == Done \/ UNCHANGED todo

\* The frames of a loop that goes on by itself: 15 of dialog_fade, 20 of
\* browser_gen_view, 32 of view_fade.  They are alike: one or more stand for all.
DialogFade ==
    /\ Do("dialog_fade") /\ view_plot("dialog", {"none"}) /\ GoesOn
    /\ UNCHANGED <<theme_gfx, apps, answer, exit>>
ProgressFrames ==
    /\ Do("progress") /\ view_plot("dialog", {"none"})
    /\ \/ UNCHANGED <<todo, answer>>
       \/ Done /\ \E ok \in BOOLEAN : answer' = IF ok THEN 0 ELSE 1
    /\ UNCHANGED <<theme_gfx, apps, exit>>
\* The gradient is a view of its own above v_current: the pointer finds nothing there.
ViewFade ==
    /\ Do("fade") /\ BubbleUpdate /\ GoesOn
    /\ UNCHANGED <<views, ui, theme_gfx, apps, bd, answer, exit>>

\* browser_gen_view: the hidden bank is filled, both are drawn while they
\* slide; half way the first entry has the focus, then the old bank is freed.
GenBank ==
    /\ Do("gen")
    /\ ui' = [ui EXCEPT !.first_set = ~@]
    /\ LET new == IF ui.first_set THEN 6 ELSE 5
       IN  Build("browser", [i \in {new} |-> IF Arg # "REMOVE" /\ apps THEN Widget("app_entry") ELSE NoWidget])
    /\ Done
    /\ UNCHANGED <<theme_gfx, bubble_count, popped, apps, bd, answer, exit>>
NewBank == IF ui.first_set THEN 5 ELSE 6
Slide ==
    /\ Do("slide") /\ view_plot("browser", {"none"}) /\ GoesOn
    /\ UNCHANGED <<theme_gfx, apps, answer, exit>>
\* The arrows are visible when there is a page on their side.
Half ==
    /\ Do("half")
    /\ \E arrows \in BOOLEAN :
         LET v == view_set_focus(views["browser"], NewBank)
             seen(w) == IF arrows /\ Arg # "REMOVE" THEN [w EXCEPT !.flags = @ \cup {"VISIBLE"}]
                        ELSE [w EXCEPT !.flags = @ \ {"VISIBLE"}]
         IN  views' = [views EXCEPT !["browser"] = [v EXCEPT !.widgets[0] = seen(@), !.widgets[1] = seen(@)]]
    /\ Done
    /\ UNCHANGED <<dangling, theme_gfx, bubble_count, popped, ui, apps, bd, answer, exit>>
Slid ==
    /\ Do("slid") /\ Build("browser", [i \in {11 - NewBank} |-> NoWidget]) /\ Done
    /\ UNCHANGED <<theme_gfx, bubble_count, popped, ui, apps, bd, answer, exit>>

---------------------------------------------------------------------------
(* Dialogs.                                                                *)

\* The view below is the current one; the detail and the about dialog become it.
Open ==
    /\ Do("open")
    /\ LET v == Dialog(Arg, ui.v_current, Head(todo)[3])
       IN  /\ views' = [views EXCEPT !["dialog"] = v]
           /\ dangling' = Rebuilt("dialog", v.widgets, dangling)
    /\ ui' = [ui EXCEPT !.v_current = IF Arg \in {"detail", "about"} THEN "dialog" ELSE @,
                        !.cursor_enabled = IF Arg = "about" THEN FALSE ELSE @]
    /\ answer' = 0 /\ Done
    /\ UNCHANGED <<theme_gfx, bubble_count, popped, apps, bd, exit>>

\* view_free, after v_current has gone back to the view below.
Close ==
    /\ Do("close")
    /\ views' = [views EXCEPT !["dialog"] = NoView]
    /\ dangling' = {h \in dangling : h[1][1] # "dialog"}
    /\ ui' = [ui EXCEPT !.v_current = IF @ = "dialog" THEN views["dialog"].sub ELSE @,
                        !.cursor_enabled = IF views["dialog"].kind = "about" THEN TRUE ELSE @]
    /\ Done
    /\ UNCHANGED <<theme_gfx, bubble_count, popped, apps, bd, answer, exit>>

\* show_message and show_options_dialog: frames until a button ends them.  UP
\* and DOWN go on by two rows where the first row takes no focus, and, when
\* the compiler calls view_move_focus before it reads v->focus (late), always.
Row(v, n, late) ==
    LET w == view_move_focus(v, n) IN IF late \/ w.focus = v.focus THEN view_move_focus(w, 2 * n) ELSE w
Moved(v, b, late) ==
    CASE b = "LEFT" -> view_set_focus_prev(v)
      [] b = "RIGHT" -> view_set_focus_next(v)
      [] b = "UP" /\ v.kind = "options" -> Row(v, -2, late)
      [] b = "DOWN" /\ v.kind = "options" -> Row(v, 2, late)
      [] OTHER -> v
Ends(v, b) ==
    IF v.kind = "options"
    THEN b \in {"B", "1"} \/ (b = "A" /\ v.focus \in {11, 12})
    ELSE (b = "A" /\ v.focus # -1) \/ (b = "B" /\ v.kind = "none")

\* One frame and what follows it.  The devices that are there are enabled
\* before the next.
Loop ==
    /\ Do("loop") /\ UNCHANGED <<ui, bd>>
    /\ \E e \in Seen("dialog", Pad(views["dialog"].kind)), late \in BOOLEAN :
         LET v == Moved(Pointed(views["dialog"], e[1]), e[2], late)
             still == v.kind = "options" /\ e = <<Off, "none">>
         IN
         /\ Behind(e)
         /\ \/ views' = [views EXCEPT !["dialog"] = v]
            \/ \E i \in {4, 5}, on \in BOOLEAN :
                 still /\ views' = [views EXCEPT !["dialog"].widgets[i] = Enabled(@, on)]
         /\ IF Ends(v, e[2])
            THEN Done /\ answer' = (IF v.kind \in {"ok", "yesno"} THEN v.focus - Memo ELSE 0)
            ELSE UNCHANGED <<todo, answer>>
    /\ UNCHANGED <<theme_gfx, apps, exit>>

---------------------------------------------------------------------------
(* What refresh_theme and the application table call.                      *)

\* The glyphs go with their faces, the textures and the icons with their owner.
Free ==
    /\ \/ Do("font_clear") /\ dangling' = dangling \cup Holders("glyph") /\ UNCHANGED <<theme_gfx, apps>>
       \/ Do("theme_deinit") /\ dangling' = dangling \cup Holders("theme") /\ theme_gfx' = "null" /\ UNCHANGED apps
       \/ /\ Do("app_entries_free") /\ dangling' = dangling \cup Holders("icon") /\ apps' = FALSE
          /\ UNCHANGED theme_gfx
       \/ /\ Do("app_entry_remove") /\ dangling' = dangling \cup Holders("icon") /\ apps' \in BOOLEAN
          /\ UNCHANGED theme_gfx
    /\ Done
    /\ UNCHANGED <<views, bubble_count, popped, ui, bd, answer, exit>>

\* app_entry_add frees the entry of the same directory first: the page on
\* the screen may be showing its icon ("replaced").
AddEntry ==
    /\ Do("app_entry_add")
    /\ dangling' \in {dangling, dangling \cup {<<h[1], "replaced">> : h \in Holders("icon")}}
    /\ apps' = TRUE /\ Done
    /\ UNCHANGED <<views, theme_gfx, bubble_count, popped, ui, bd, answer, exit>>

\* bubble_count = -1: all the bubbles of the hour start again.
BubblesReinit ==
    /\ Do("bubbles_theme_reinit")
    /\ \E n \in 0..MaxBubbles :
          LET fresh == dangling \ {<<<<"tex_bubbles", 0>>, "theme">>}
          IN  BubblesAs(n, popped \ 0..(n - 1), Plotted({<<"bubble", i>> : i \in 0..(n - 1)}, fresh))
    /\ Done /\ UNCHANGED <<views, theme_gfx, ui, apps, bd, answer, exit>>

\* theme_init, view_theme_reinit, browser_theme_reinit and m_main_theme_reinit.
Reinit ==
    /\ \/ Do("theme_init") /\ theme_gfx' = "live" /\ UNCHANGED <<views, dangling>>
       \/ /\ Do("view_theme_reinit")
          /\ dangling' = IF theme_gfx = "live" THEN dangling \ Background ELSE dangling \cup Background
          /\ UNCHANGED <<views, theme_gfx>>
       \/ Do("browser_theme_reinit") /\ Build("browser", BrowserWidgets) /\ UNCHANGED theme_gfx
       \/ /\ Do("m_main_theme_reinit") /\ Build("m_main", MainWidgets(ui.menu_index, FALSE))
          /\ UNCHANGED theme_gfx
    /\ Done
    /\ UNCHANGED <<bubble_count, popped, ui, apps, bd, answer, exit>>

---------------------------------------------------------------------------
(* The loop of main.                                                       *)

\* app_entry_action, in the browser before the frame.
AppEntryAction ==
    /\ todo = <<>> /\ exit = {} /\ ui.v_current = "browser"
    /\ \/ /\ todo' = Gen("REMOVE") \o <<<<"app_entries_free">>>> /\ UNCHANGED apps
          \* bubble_popall
          /\ popped' = 0..(bubble_count - 1)
          /\ dangling' = Plotted({<<"sub_bubble", i>> : i \in 0..(bubble_count - 1) \ popped}, dangling)
       \/ ~apps /\ apps' \in BOOLEAN /\ todo' = Gen("ADD") /\ UNCHANGED <<popped, dangling>>
    /\ UNCHANGED <<views, theme_gfx, bubble_count, ui, bd, answer, exit>>

Frame ==
    /\ todo = <<>> /\ exit = {}
    /\ todo' = <<<<"plot">>, <<"input">>>> /\ answer' = 0
    /\ UNCHANGED <<views, dangling, theme_gfx, bubble_count, popped, ui, apps, bd, exit>>
Plot ==
    /\ Do("plot") /\ view_plot(ui.v_current, Pad(Current.kind)) /\ Done
    /\ UNCHANGED <<theme_gfx, apps, answer, exit>>

Input == Do("input") /\ bd' = "none" /\ UNCHANGED <<theme_gfx, bubble_count, popped, apps, answer>>
Goes(steps) == Then(steps) /\ UNCHANGED <<views, dangling, ui, exit>>
Refocused(v) == views' = [views EXCEPT ![ui.v_current] = v] /\ Done /\ UNCHANGED <<dangling, ui, exit>>
Exits(flags) == exit' = flags /\ Done /\ UNCHANGED <<views, dangling, ui>>

\* m_main_theme_reinit and m_main_update.  The focus stays where it was.
ToMenu(menu, v) ==
    /\ views' = [views EXCEPT !["m_main"] = [v EXCEPT !.widgets = MainWidgets(menu, TRUE)]]
    /\ dangling' = Rebuilt("m_main", MainWidgets(menu, TRUE), dangling)
    /\ Done /\ UNCHANGED exit

MainAnew ==
    /\ LET v == [views["m_main"] EXCEPT !.widgets = MainWidgets("HOME", TRUE)]
       IN  views' = [views EXCEPT !["m_main"] = view_set_focus(v, 0)]
    /\ dangling' = Rebuilt("m_main", MainWidgets("HOME", TRUE), dangling)

\* How the menu was left is forgotten: HOME, the only way back, makes it anew.
ToBrowser ==
    /\ ui' = [ui EXCEPT !.v_current = "browser", !.menu_index = "HOME"]
    /\ MainAnew /\ Done /\ UNCHANGED exit

InputHome ==
    /\ Input /\ bd = "HOME" /\ ui.viewing
    /\ \/ /\ ui.v_current = "browser" /\ ui' = [ui EXCEPT !.menu_index = "HOME", !.v_current = "m_main"]
          /\ MainAnew /\ Done /\ UNCHANGED exit
       \/ ui.v_current = "m_main" /\ ToBrowser
       \/ ui.v_current = "dialog" /\ Goes(<<>>)

\* HOME: settings (unimplemented), system information, about, exit.
MenuPick ==
    /\ Input /\ bd = "A" /\ ui.viewing /\ ui.v_current = "m_main"
    /\ CASE ui.menu_index = "HOME" /\ Current.focus = 0 -> Goes(Ask("ok", 6))
         [] ui.menu_index = "HOME" /\ Current.focus = 1 -> Goes(Ask("none", -1))
         [] ui.menu_index = "HOME" /\ Current.focus = 2 -> Goes(OpenDialog("about", -1))
         [] ui.menu_index = "HOME" /\ Current.focus = 3 ->
              ToMenu("EXIT", Current) /\ ui' = [ui EXCEPT !.menu_index = "EXIT"]
         [] ui.menu_index = "EXIT" /\ Current.focus \in 0..4 ->
              Exits({<<"bootmii", "priiloader", "exit", "reboot", "shutdown">>[Current.focus + 1]})
         [] OTHER -> Goes(<<>>)

MenuMove ==
    /\ Input /\ ui.viewing /\ ui.v_current = "m_main" /\ bd \notin {"A", "HOME"}
    /\ CASE bd = "B" /\ ui.menu_index = "HOME" -> ToBrowser
         [] bd = "B" /\ ui.menu_index = "EXIT" ->
              ToMenu("HOME", Current) /\ ui' = [ui EXCEPT !.menu_index = "HOME"]
         [] bd = "UP" -> Refocused(view_set_focus_prev(Current))
         [] bd = "DOWN" -> Refocused(view_set_focus_next(Current))
         [] OTHER -> Goes(<<>>)

\* browser_sel: an entry has the focus.
Selected == apps /\ views["browser"].focus >= 5

\* NEXT and PREV do nothing at the ends of the list.
BrowserPad ==
    /\ Input /\ ui.viewing /\ ui.v_current = "browser"
    /\ \/ bd \in {"none", "B"} /\ Goes(<<>>)
       \/ bd = "1" /\ Goes(Ask("options", 12))
       \/ bd \in {"2", "A", "LEFT", "RIGHT"} /\ apps /\ Goes(Gen("REFRESH"))
       \/ bd = "UP" /\ Refocused(view_set_focus_prev(Current))
       \/ bd = "DOWN" /\ Refocused(view_set_focus_next(Current))
       \/ bd = "A" /\ Selected /\ Goes(OpenDialog("detail", 10))
       \/ bd \in {"2", "A", "LEFT", "RIGHT"} /\ Goes(<<>>)

\* An upload is taken whatever is on the screen: an application to install,
\* a theme, or an executable, which ends main.
TakeUpload ==
    /\ Input /\ ui.v_current = "browser" /\ (bd = "none" \/ ~ui.viewing)
    /\ \/ Goes(Progress(<<"received">>))
       \/ ~ui.viewing /\ Goes(<<>>)
Received ==
    /\ Do("received")
    /\ \/ answer = 0 /\ (Then(Ask("yesno", 6) \o <<<<"extract">>>>) \/ Then(refresh_theme)) /\ UNCHANGED exit
       \/ answer = 0 /\ exit' = {"executable"} /\ Done
       \/ answer # 0 /\ (Done \/ Then(Ask("ok", 6))) /\ UNCHANGED exit
    /\ UNCHANGED <<views, dangling, theme_gfx, bubble_count, popped, ui, apps, bd, answer>>

\* What follows an answer or the end of manage_run.
Answered ==
    /\ \/ Do("extract") /\ IF answer = 0 THEN Then(Progress(<<"extracted">>)) ELSE Done
       \/ Do("extracted") /\ IF answer = 0 THEN Then(<<<<"app_entry_add">>>> \o Gen("REFRESH")) ELSE Then(Ask("ok", 6))
       \/ /\ Do("delete")
          /\ IF answer = 1 THEN Done ELSE Then(Gen("REMOVE") \o Progress(<<"deleted">>))
       \/ /\ Do("deleted")
          /\ Then((IF answer = 0 THEN <<<<"app_entry_remove">>>> ELSE Ask("ok", 6)) \o Gen("REFRESH"))
    /\ UNCHANGED <<views, dangling, theme_gfx, bubble_count, popped, ui, apps, bd, answer, exit>>

\* The detail view: while its text is dragged, B does not close it, and
\* nothing else is looked at.
DetailPad ==
    /\ Input /\ ui.v_current = "dialog" /\ Current.kind = "detail" /\ ~(ui.viewing /\ bd = "HOME")
    /\ IF ~ui.viewing THEN Goes(<<>>) ELSE
       CASE bd = "B" /\ Current.drag # Memo -> Goes(CloseDialog)
         [] bd = "A" /\ Current.focus = 10 -> Goes(CloseDialog)
         [] bd = "A" /\ Current.focus = 8 -> Goes(CloseDialog \o Ask("yesno", 7) \o <<<<"delete">>>>)
         [] bd = "A" /\ Current.focus = 9 -> Goes(CloseDialog \o Progress(<<"received">>))
         [] bd = "LEFT" -> Refocused(view_set_focus_prev(Current))
         [] bd = "RIGHT" -> Refocused(view_set_focus_next(Current))
         [] OTHER -> Goes(<<>>)

AboutPad ==
    /\ Input /\ ui.v_current = "dialog" /\ Current.kind = "about" /\ ~(ui.viewing /\ bd = "HOME")
    /\ Goes(IF ui.viewing /\ bd \in {"A", "B"} THEN CloseDialog ELSE <<>>)

MenuHidden == Input /\ ui.v_current = "m_main" /\ ~ui.viewing /\ Goes(<<>>)

\* The reset and the power button, in any view.
PowerButton ==
    /\ todo = <<>> /\ exit = {} /\ exit' \in {{"exit"}, {"shutdown"}}
    /\ UNCHANGED <<views, dangling, theme_gfx, bubble_count, popped, ui, apps, todo, bd, answer>>

\* The end of main: what is open fades out, then everything is freed.
Leave ==
    /\ todo = <<>> /\ exit # {} /\ theme_gfx = "live"
    /\ ui' = [ui EXCEPT !.cursor_enabled = FALSE]
    /\ todo' = (IF Current.sub # "none" THEN <<<<"dialog_fade">>>> ELSE <<>>)
                \o <<<<"fade">>, <<"font_clear">>, <<"theme_deinit">>>>
    /\ UNCHANGED <<views, dangling, theme_gfx, bubble_count, popped, apps, bd, answer, exit>>

ScreenNext ==
    \/ DialogFade \/ ProgressFrames \/ ViewFade \/ GenBank \/ Slide \/ Half \/ Slid \/ Open \/ Close \/ Loop
    \/ Free \/ AddEntry \/ BubblesReinit \/ Reinit \/ AppEntryAction \/ Frame \/ Plot
    \/ InputHome \/ MenuPick \/ MenuMove \/ BrowserPad \/ TakeUpload \/ Received \/ Answered
    \/ DetailPad \/ AboutPad \/ MenuHidden \/ PowerButton \/ Leave

ScreenSpec == ScreenInit /\ [][ScreenNext]_screenVars

---------------------------------------------------------------------------
Draws == {"plot", "slide", "fade", "dialog_fade", "loop", "progress"}
Drawn == CASE Head(todo)[1] \in {"plot", "fade"} -> ui.v_current
           [] Head(todo)[1] = "slide" -> "browser"
           [] OTHER -> "dialog"

\* Every frame the channel draws, in the middle of a change of theme, a
\* deletion or with a dialog open, takes nothing that was freed, puts every
\* widget at its own origin and leaves no scissor behind.  An icon that an
\* upload replaced is excluded: app_entry_add frees it while the page shows
\* it, and browser_gen_view(BA_REFRESH) draws that page once more.
DrawnIsLive ==
    todo # <<>> /\ Head(todo)[1] \in Draws =>
        LET q == view_push_view(Drawn)
            after[i \in 0..Len(q)] == IF i = 0 THEN gfx_frame_start ELSE gfx_frame_push(after[i - 1], q[i])
            g == after[Len(q)]
        IN  /\ Refs(Drawn) \cap dangling = {}
            /\ g.depth = 0 /\ g.most <= OriginStack /\ ~g.scissor

\* What looks focused is what A acts on: at most one widget of a view has
\* the focused face, and it is the one its focus names.
FocusIsShown ==
    \A n \in DOMAIN views : \A i \in DOMAIN views[n].widgets :
        "FOCUSED" \in views[n].widgets[i].flags => views[n].focus = i

\* main does what the screen offered: it leaves for BootMii or Priiloader
\* only where they are installed, and a message returns the number of one of
\* its buttons (only a 1 keeps main from deleting).
ChoiceIsOffered ==
    /\ exit \cap {"bootmii", "priiloader"} \subseteq Installed
    /\ answer \in 0..1

\* What the user chooses with is a widget of the view on the screen, and the
\* answer is one the dialog offered.
ChoiceIsShown == FocusIsShown /\ ChoiceIsOffered
=============================================================================
