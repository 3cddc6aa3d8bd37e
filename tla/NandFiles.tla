----------------------------- MODULE NandFiles -----------------------------
(***************************************************************************)
(* The channel's three files on the console's NAND and what it does with   *)
(* them from one start to the next: isfs_get and isfs_put (isfs.c), the    *)
(* settings and the banner that announces them to the system menu (xml.c), *)
(* and the theme (theme.c).                                                *)
(*                                                                         *)
(* Each call of the file system may fail, and between any two of them the  *)
(* power may go.  isfs_put replaces a file by deleting it first.           *)
(***************************************************************************)
EXTENDS Integers

CONSTANTS
    Settings,   \* values of settings_t
    Default,    \* the one settings_load starts from
    Themes,     \* theme.zip files
    NoTheme,    \* the theme built into the channel
    None, Torn  \* a file that is not there, or not written to its end

ASSUME NandAssumption ==
    /\ Default \in Settings /\ NoTheme \notin Themes
    /\ None \notin Settings \union Themes /\ Torn \notin Settings \union Themes
    /\ None # Torn /\ NoTheme \notin {None, Torn}
    /\ {None, Torn} \intersect {"old", "good"} = {}

VARIABLES
    fs,            \* what the NAND holds
    titlepath,     \* is the channel installed, so that it has a data directory?
    pc, file,      \* where it is; the file isfs_put replaces
    settings, loaded_settings, write_banner, theme,
    stored,        \* history: what the last settings_save that returned true wrote
    err,           \* history: has a call failed since the start?
    cut            \* history: did a save end with a power cut, or a deletion
                   \* fail that should have undone it, and none succeed since?

ram == <<settings, loaded_settings, write_banner, theme>>
hist == <<stored, err, cut>>
vars == <<fs, titlepath, pc, file, ram, hist>>

Files == {"banner", "settings", "theme"}
Writing == {"delete", "create", "open", "write", "close", "undo"}

\* A new installation, or an update of one with another banner.
Init ==
    /\ titlepath \in BOOLEAN
    /\ \/ fs = [f \in Files |-> None]
       \/ \E s \in Settings :
             fs = [[f \in Files |-> None] EXCEPT !["banner"] = "old", !["settings"] = s]
    /\ pc = "off" /\ file = "theme"
    /\ settings = Default /\ loaded_settings = Default /\ write_banner = TRUE /\ theme = NoTheme
    /\ stored = None /\ err = FALSE /\ cut = FALSE

---------------------------------------------------------------------------
(* Starting.                                                               *)

\* What isfs_get can return, Torn standing for failure too.  A torn banner has the wrong size, a torn XML
\* file or ZIP is read but not understood.
isfs_get(f) == {Torn} \union ({fs[f]} \ {None})

Failed(f, g) == g = Torn /\ fs[f] \notin {None, Torn}

Start ==
    /\ pc \in {"off", "exit"}
    /\ settings' = Default /\ loaded_settings' = Default /\ write_banner' = TRUE /\ theme' = NoTheme
    /\ pc' = IF titlepath THEN "theme" ELSE "run"
    /\ err' = FALSE
    /\ UNCHANGED <<fs, titlepath, file, stored, cut>>

LoadTheme ==
    /\ pc = "theme"
    /\ \E g \in isfs_get("theme") :
          /\ theme' = IF g = Torn THEN NoTheme ELSE g
          /\ err' = (err \/ Failed("theme", g))
    /\ pc' = "banner"
    /\ UNCHANGED <<fs, titlepath, file, settings, loaded_settings, write_banner, stored, cut>>

\* A banner that cannot be read, or is another, is deleted.
LoadBanner ==
    /\ pc = "banner"
    /\ \E g \in isfs_get("banner") :
          /\ write_banner' = (g # "good")
          /\ err' = (err \/ Failed("banner", g))
    /\ pc' = IF write_banner' THEN "delbanner" ELSE "settings"
    /\ UNCHANGED <<fs, titlepath, file, settings, loaded_settings, theme, stored, cut>>

\* ISFS_Delete, which may fail.
Delete(f) == fs' \in {fs, [fs EXCEPT ![f] = None]}

DeleteBanner ==
    /\ pc = "delbanner"
    /\ Delete("banner")
    /\ err' = (err \/ fs'["banner"] # None)
    /\ pc' = "settings"
    /\ UNCHANGED <<titlepath, file, ram, stored, cut>>

\* A faulty version: loaded_settings stays what it was.
LoadSettingsOnce ==
    /\ pc = "settings"
    /\ \E g \in isfs_get("settings") :
          /\ settings' = IF g = Torn THEN Default ELSE g
          /\ err' = (err \/ Failed("settings", g))
    /\ pc' = "run"
    /\ UNCHANGED <<fs, titlepath, file, loaded_settings, write_banner, theme, stored, cut>>

LoadSettings ==
    /\ pc = "settings"
    /\ \E g \in isfs_get("settings") :
          /\ settings' = IF g = Torn THEN Default ELSE g
          /\ err' = (err \/ Failed("settings", g))
    /\ loaded_settings' = settings'
    /\ pc' = "run"
    /\ UNCHANGED <<fs, titlepath, file, write_banner, theme, stored, cut>>

---------------------------------------------------------------------------
(* Running.                                                                *)

Change ==
    /\ pc = "run"
    /\ settings' \in Settings
    /\ UNCHANGED <<fs, titlepath, pc, file, loaded_settings, write_banner, theme, hist>>

\* theme_init with the theme of an entry or an upload.
NewTheme ==
    /\ pc = "run"
    /\ theme' \in Themes
    /\ IF titlepath THEN pc' = "delete" /\ file' = "theme" ELSE UNCHANGED <<pc, file>>
    /\ UNCHANGED <<fs, titlepath, settings, loaded_settings, write_banner, hist>>

Leave ==
    /\ pc = "run"
    /\ pc' = "save"
    /\ UNCHANGED <<fs, titlepath, file, ram, hist>>

\* settings_save writes what has changed, after the banner if that is missing.
Save ==
    /\ pc = "save"
    /\ IF ~titlepath \/ settings = loaded_settings
       THEN pc' = "exit" /\ file' = file
       ELSE pc' = "delete" /\ file' = IF write_banner THEN "banner" ELSE "settings"
    /\ UNCHANGED <<fs, titlepath, ram, hist>>

---------------------------------------------------------------------------
(* isfs_put.                                                               *)

Content == IF file = "banner" THEN "good" ELSE IF file = "settings" THEN settings ELSE theme

\* A faulty version of Return: the banner of settings that are lost stays.
ReturnKeepsBanner(r) ==
    \/ file = "theme" /\ pc' = "run" /\ UNCHANGED <<file, stored, cut>>
    \/ file = "banner" /\ r = "failed" /\ pc' = "exit" /\ UNCHANGED <<file, stored, cut>>
    \/ file = "banner" /\ r # "failed" /\ pc' = "delete" /\ file' = "settings" /\ UNCHANGED <<stored, cut>>
    \/ file = "settings" /\ r = "ok" /\ pc' = "exit" /\ stored' = settings /\ cut' = FALSE /\ UNCHANGED file
    \/ file = "settings" /\ r # "ok" /\ pc' = "exit" /\ UNCHANGED <<file, stored, cut>>

\* Back in theme_init or settings_save.  A banner that could not be replaced
\* because it exists (-105) will do; without settings there is to be none.
Return(r) ==
    \/ file = "theme" /\ pc' = "run" /\ UNCHANGED <<file, stored, cut>>
    \/ file = "banner" /\ r = "failed" /\ pc' = "exit" /\ UNCHANGED <<file, stored, cut>>
    \/ file = "banner" /\ r # "failed" /\ pc' = "delete" /\ file' = "settings" /\ UNCHANGED <<stored, cut>>
    \/ file = "settings" /\ r = "ok" /\ pc' = "exit" /\ stored' = settings /\ cut' = FALSE /\ UNCHANGED file
    \/ file = "settings" /\ r # "ok" /\ pc' = "dropbanner" /\ UNCHANGED <<file, stored, cut>>

PutDelete ==
    /\ pc = "delete"
    /\ Delete(file)
    /\ err' = (err \/ fs'[file] # None)
    /\ stored' = IF file = "settings" THEN None ELSE stored
    /\ pc' = "create"
    /\ UNCHANGED <<titlepath, file, ram, cut>>

PutCreate ==
    /\ pc = "create"
    /\ \/ /\ fs[file] = None
          /\ fs' = [fs EXCEPT ![file] = Torn]
          /\ pc' = "open"
          /\ UNCHANGED <<file, hist>>
       \/ /\ Return(IF fs[file] = None THEN "failed" ELSE "exists")
          /\ err' = TRUE /\ UNCHANGED fs
    /\ UNCHANGED <<titlepath, ram>>

PutOpen ==
    /\ pc = "open"
    /\ \/ pc' = "write" /\ UNCHANGED err
       \/ pc' = "undo" /\ err' = TRUE
    /\ UNCHANGED <<fs, titlepath, file, ram, stored, cut>>

\* A faulty version of PutWrite: a short write counts as one.
PutWriteShort ==
    /\ pc = "write"
    /\ \/ pc' = "close" /\ fs' \in {fs, [fs EXCEPT ![file] = Content]} /\ UNCHANGED <<file, hist>>
       \/ Return("ok") /\ UNCHANGED <<fs, err>>
    /\ UNCHANGED <<titlepath, ram>>

\* The data may reach the flash before the file is closed.
PutWrite ==
    /\ pc = "write"
    /\ \/ pc' = "close" /\ fs' \in {fs, [fs EXCEPT ![file] = Content]} /\ UNCHANGED err
       \/ pc' = "undo" /\ err' = TRUE /\ UNCHANGED fs
    /\ UNCHANGED <<titlepath, file, ram, stored, cut>>

PutClose ==
    /\ pc = "close"
    /\ \/ /\ fs' = [fs EXCEPT ![file] = Content]
          /\ Return("ok") /\ UNCHANGED err
       \/ pc' = "undo" /\ err' = TRUE /\ UNCHANGED <<fs, file, stored, cut>>
    /\ UNCHANGED <<titlepath, ram>>

\* After a failure the new file is deleted; this may fail as well.
PutUndo ==
    /\ pc = "undo"
    /\ Delete(file)
    /\ IF file = "banner" /\ fs' = fs
       THEN pc' = "exit" /\ cut' = TRUE /\ UNCHANGED <<file, stored>>
       ELSE Return("failed")
    /\ UNCHANGED <<titlepath, ram, err>>

DropBanner ==
    /\ pc = "dropbanner"
    /\ Delete("banner")
    /\ cut' = (cut \/ fs'["banner"] # None)
    /\ pc' = "exit"
    /\ UNCHANGED <<titlepath, file, ram, stored, err>>

---------------------------------------------------------------------------
\* The power goes.
PowerCut ==
    /\ pc \notin {"off", "exit"}
    /\ pc' = "off"
    /\ cut' = (cut \/ pc = "dropbanner" \/ (pc \in Writing /\ file # "theme"))
    /\ UNCHANGED <<fs, titlepath, file, ram, stored, err>>

Put == PutDelete \/ PutCreate \/ PutOpen \/ PutWrite \/ PutClose \/ PutUndo
Load == LoadTheme \/ LoadBanner \/ DeleteBanner \/ LoadSettings

Next ==
    \/ Start \/ Load \/ Change \/ NewTheme \/ Leave \/ Save \/ Put \/ DropBanner \/ PowerCut

Spec == Init /\ [][Next]_vars

---------------------------------------------------------------------------
TypeOK ==
    /\ fs \in [Files -> Settings \union Themes \union {None, Torn, "old", "good"}]
    /\ fs["banner"] \in {None, Torn, "old", "good"}
    /\ fs["settings"] \in Settings \union {None, Torn}
    /\ fs["theme"] \in Themes \union {None, Torn}
    /\ titlepath \in BOOLEAN /\ file \in Files
    /\ pc \in {"off", "theme", "banner", "delbanner", "settings", "run", "save", "dropbanner", "exit"} \union Writing
    /\ settings \in Settings /\ loaded_settings \in Settings
    /\ write_banner \in BOOLEAN /\ theme \in Themes \union {NoTheme}
    /\ stored \in Settings \union {None} /\ err \in BOOLEAN /\ cut \in BOOLEAN

\* Once settings_save has returned true the next start uses what it wrote,
\* through any number of power cuts and of failing reads of other starts,
\* until the next save begins.
SavedIsLoaded ==
    (pc = "run" /\ ~err /\ stored # None) => loaded_settings = stored

\* The channel may skip a save only if it changes nothing: unless a call has
\* failed, the NAND holds what was in force when the channel was left, or
\* nothing usable if that is what it started without.
ExitAgrees ==
    (pc = "exit" /\ titlepath /\ ~err) =>
        /\ fs["settings"] = settings \/ (settings = Default /\ fs["settings"] \in {None, Torn})
        /\ fs["theme"] = theme \/ (theme = NoTheme /\ fs["theme"] \in {None, Torn})

\* The system menu is shown a banner only where there are settings: each way
\* out of a save that fails leaves both or neither.  Left out: a cut in a
\* save, or an undo that fails, until a save succeeds.
BannerMeansSave ==
    (~cut /\ pc \notin Writing \union {"dropbanner"} /\ fs["banner"] # None) => fs["settings"] \in Settings
=============================================================================
