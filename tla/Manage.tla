------------------------------- MODULE Manage -------------------------------
(***************************************************************************)
(* Installing an uploaded ZIP and deleting an application (manage.c, with  *)
(* loader_handle_zip_app of loader.c and the delete button of main.c).     *)
(* A worker thread unpacks the archive to the card or removes a directory, *)
(* while main shows its progress; any call on the card may fail, and the   *)
(* card may fill up in the middle of a file.                               *)
(*                                                                         *)
(* CardPaths are below app_path.  A name of a record is that of a file or  *)
(* of a directory in the one before it (PlainNames): the code refuses a    *)
(* leading slash, a backslash and a colon, and puts app_path before the    *)
(* rest; "..", which the file system would resolve, is left out, and so    *)
(* are two names that only differ in their case.  The records of an        *)
(* archive are explained in Unzip; z.size, z.sigs, z.end are what the      *)
(* search for its directory sees: its length, the signatures in it, and    *)
(* where the real one is.                                                  *)
(***************************************************************************)
EXTENDS Unzip

CONSTANTS
    Zips,        \* the archives that may be uploaded
    Installed,   \* [paths -> contents]: what the card may hold at first
    MaxAppEntries,   \* number_entry an application may have
    MaxThemeEntries, MaxThemeSize,  \* and a theme; MAX_THEME_ZIP_SIZE
    OutBuf       \* bytes of one unzReadCurrentFile

VARIABLES
    card, root,            \* [paths -> contents]; directories outside app_path
    mPlace,                \* main
    zip, dirname, bytes,   \* the upload, result->dirname, result->bytes
    shown, warned,         \* the progress bar; did the dialog warn of files that exist?
    wpc, uf, pf, written,  \* the worker, its walk, its file
    running, success, progress, stack  \* manage_zip_arg; rmdir_hier_iter's frames

manageMain == <<mPlace, zip, dirname, bytes, shown, warned>>
worker == <<wpc, uf, pf, written, stack>>
manageArg == <<running, success, progress>>
manageVars == <<card, root, manageMain, worker, manageArg>>

CardPaths == DOMAIN card

---------------------------------------------------------------------------
(* What main makes of an upload.                                           *)

unzOpen(z) == SearchCentralDir(z.size, z.sigs) = z.end /\ z.end # 0

\* The records that stand for a file; directories have no length.
FilesOf(z) == {n \in 1..z.number_entry : z.files[n].u > 0}

Path(e) == e.dirs \o <<e.name>>

\* No name that the file system takes for something else; the code accepts them.
PlainNames(e) == \A k \in DOMAIN Path(e) : Path(e)[k] \notin {"", ".", ".."}

\* The walk over all records gets through, and none is refused.
Sound(z, most) ==
    /\ unzOpen(z)
    /\ z.number_entry <= most /\ z.number_entry <= Len(z.files)
    /\ \A n \in 1..z.number_entry : z.files[n].legal

Dirname(z) == z.files[CHOOSE n \in FilesOf(z) : \A k \in FilesOf(z) : n <= k].dirs[1]

\* One directory, and in it one program or one theme.
manage_check_zip_app(z) ==
    /\ Sound(z, MaxAppEntries) /\ z.number_entry >= 2
    /\ FilesOf(z) # {}
    /\ \A n \in FilesOf(z) : z.files[n].dirs # <<>>
    /\ \A n \in FilesOf(z) : z.files[n].dirs[1] = Dirname(z)
    /\ LET got(name) == \E n \in FilesOf(z) : Path(z.files[n]) = <<Dirname(z), name>> IN
       got("theme.zip") # (got("boot.dol") \/ got("boot.elf"))

\* No directory, a theme.xml and nothing but the files of themes.
manage_check_zip_theme(z) ==
    /\ z.size <= MaxThemeSize
    /\ Sound(z, MaxThemeEntries) /\ z.number_entry >= 1
    /\ \A n \in FilesOf(z) : z.files[n].dirs = <<>> /\ z.files[n].name \in {"theme.xml", "theme.png"}
    /\ \E n \in FilesOf(z) : z.files[n].name = "theme.xml"

\* The sizes of the first n records; the channel takes their sum to stay below
\* 2^32.
BytesTo(z) ==
    LET bytes_to[n \in 0..z.number_entry] == IF n = 0 THEN 0 ELSE bytes_to[n - 1] + z.files[n].u
    IN  bytes_to
Bytes(z) == BytesTo(z)[z.number_entry]

\* A card's directories are there for everything in them.
Tree(c) ==
    \A p \in DOMAIN c : \A n \in 1..(Len(p) - 1) :
        SubSeq(p, 1, n) \in DOMAIN c /\ (c[p] # "none" => c[SubSeq(p, 1, n)] = "dir")

\* Paths and records are what they are in the code, a stored file unpacks to
\* what is stored, and a card has a place for all that may be installed on it.
Entry(e) ==
    /\ e.dirs \in Seq(STRING) /\ e.name \in STRING /\ PlainNames(e)
    /\ {e.c, e.u} \subseteq Nat /\ e.real \in Nat \cup {Bad}
    /\ {e.legal, e.stored, e.coherent} \subseteq BOOLEAN
    /\ (e.stored /\ e.real # Bad) => e.real = e.c

ASSUME ManageAssumption ==
    /\ {MaxAppEntries, MaxThemeEntries, MaxThemeSize} \subseteq Nat /\ OutBuf \in Nat \ {0}
    /\ \A z \in Zips :
          /\ z.sigs \subseteq Nat /\ {z.size, z.number_entry, z.end} \subseteq Nat
          /\ Len(z.files) \in Nat /\ DOMAIN z.files = 1..Len(z.files)
          /\ \A n \in 1..Len(z.files) : Entry(z.files[n])
    /\ \A c \in Installed :
          /\ DOMAIN c \subseteq Seq(STRING) \ {<<>>}
          /\ c \in [DOMAIN c -> {"none", "dir", "old", "part", "new"}] /\ Tree(c)
          /\ \A z \in Zips : manage_check_zip_app(z) =>
                \A n \in FilesOf(z) : Path(z.files[n]) \in DOMAIN c

NoWalk == [num_file |-> 0, ok |-> FALSE]
NoZip == [files |-> <<>>, number_entry |-> 0, size |-> 0, sigs |-> {}, end |-> 0]

ManageInit ==
    /\ card \in Installed /\ root \in SUBSET {p[1] : p \in DOMAIN card}
    /\ mPlace = "frame" /\ zip = NoZip /\ dirname = "" /\ bytes = 0 /\ shown = 0 /\ warned = FALSE
    /\ wpc = "gone" /\ uf = NoWalk /\ pf = Closed /\ written = 0 /\ stack = <<>>
    /\ running = FALSE /\ success = FALSE /\ progress = 0

Upload ==
    /\ mPlace = "frame" /\ wpc = "gone"
    /\ zip' \in Zips
    /\ IF manage_check_zip_app(zip')
       THEN mPlace' = "confirm" /\ dirname' = Dirname(zip') /\ bytes' = Bytes(zip')
       ELSE /\ mPlace' = IF manage_check_zip_theme(zip') THEN "theme" ELSE "refused"
            /\ UNCHANGED <<dirname, bytes>>
    /\ UNCHANGED <<card, root, shown, warned, worker, manageArg>>

\* A theme is installed by refresh_theme; an invalid archive is reported.
Dismiss ==
    /\ mPlace \in {"theme", "refused", "added", "deleted", "failed"}
    /\ mPlace' = "frame" /\ zip' = NoZip /\ dirname' = "" /\ bytes' = 0 /\ shown' = 0 /\ warned' = FALSE
    /\ progress' = 0 /\ success' = FALSE
    /\ UNCHANGED <<card, root, worker, running>>

---------------------------------------------------------------------------
(* manage_run.                                                             *)

Run(place) ==
    \/ /\ running' = TRUE /\ progress' = 0
       /\ wpc' = place /\ mPlace' = "poll"
       /\ UNCHANGED success
    \/ mPlace' = "failed" /\ UNCHANGED <<wpc, manageArg>>

\* loader_handle_zip_app asks; its test for an old directory looks at the
\* card's root instead of app_path.
Confirm ==
    /\ mPlace = "confirm"
    /\ warned' = (dirname \in root)
    /\ \/ mPlace' = "frame" /\ UNCHANGED <<wpc, manageArg>>
       \/ Run("open")
    /\ UNCHANGED <<card, root, zip, dirname, bytes, shown, uf, pf, written, stack>>

\* The delete button of an entry that is listed.
DeleteApp ==
    /\ mPlace = "frame" /\ wpc = "gone"
    /\ \E p \in CardPaths :
          /\ Len(p) = 1 /\ card[p] = "dir"
          /\ dirname' = p[1]
    /\ zip' = NoZip
    /\ Run("opendir")
    /\ UNCHANGED <<card, root, bytes, shown, warned, uf, pf, written, stack>>

\* One frame of the progress dialog.
Poll ==
    /\ mPlace = "poll" /\ running
    /\ shown' = progress
    /\ UNCHANGED <<card, root, mPlace, zip, dirname, bytes, warned, worker, manageArg>>

\* app_entry_add or app_entry_remove follow a success.
Finish ==
    /\ mPlace = "poll" /\ ~running
    /\ mPlace' = IF ~success THEN "failed" ELSE IF zip = NoZip THEN "deleted" ELSE "added"
    /\ UNCHANGED <<card, root, zip, dirname, bytes, shown, warned, worker, manageArg>>

---------------------------------------------------------------------------
(* manage_extract_zip.                                                     *)

WOpen ==
    /\ wpc = "open"
    /\ uf' = unzGoToFirstFile(zip) /\ wpc' = "info"
    /\ UNCHANGED <<card, root, manageMain, manageArg, pf, written, stack>>

\* unzGetCurrentFileInfo and, for a file, unzOpenCurrentFile; the worker
\* fails if they do.
WInfo ==
    /\ wpc = "info"
    /\ IF uf.ok /\ Current(zip, uf).u = 0 THEN wpc' = "next" /\ UNCHANGED pf
       ELSE IF uf.ok /\ Current(zip, uf).coherent
       THEN wpc' = "mkdir" /\ pf' = Opened(Current(zip, uf))
       ELSE wpc' = "fail" /\ UNCHANGED pf
    /\ UNCHANGED <<card, root, manageMain, manageArg, uf, written, stack>>

Prefixes(p) == {SubSeq(p, 1, n) : n \in 1..(Len(p) - 1)}

\* mkdir_hier: makes what is missing, from the top; a file of that name, or a
\* failing mkdir, ends it half way.
WMkdir ==
    /\ wpc = "mkdir"
    /\ LET dirs == Prefixes(Path(Current(zip, uf)))
           stuck == {d \in dirs : card[d] \notin {"dir", "none"}} IN
       \E made \in SUBSET {d \in dirs : card[d] = "none"} :
          /\ \A d \in made, s \in stuck : Len(d) < Len(s)
          /\ \A d \in made, e \in dirs : Len(e) < Len(d) => e \in made \/ card[e] = "dir"
          /\ card' = [d \in CardPaths |-> IF d \in made THEN "dir" ELSE card[d]]
          /\ \/ wpc' = "create" /\ stuck = {} /\ \A d \in dirs : card'[d] = "dir"
             \/ wpc' = "fail"
    /\ UNCHANGED <<root, manageMain, manageArg, uf, pf, written, stack>>

\* open with O_TRUNC.
WCreate ==
    /\ wpc = "create"
    /\ \/ /\ card[Path(Current(zip, uf))] # "dir"
          /\ card' = [card EXCEPT ![Path(Current(zip, uf))] = "part"]
          /\ written' = 0 /\ pf' = ReadCall(pf, OutBuf) /\ wpc' = "read"
       \/ wpc' = "fail" /\ UNCHANGED <<card, written, pf>>
    /\ UNCHANGED <<root, manageMain, manageArg, uf, stack>>

\* One round of unzReadCurrentFile; 0 and errors end the file.
WRead ==
    /\ wpc = "read" /\ pf.want > 0
    /\ \E r \in ReadRound(Current(zip, uf), pf) :
          /\ pf' = r[1]
          /\ wpc' = IF r[2] = More THEN "read"
                    ELSE IF r[2] = Bad THEN "closebad" ELSE IF r[2] = 0 THEN "close" ELSE "write"
    /\ UNCHANGED <<card, root, manageMain, manageArg, uf, written, stack>>

\* Nothing is left to read.
WReadEnd ==
    /\ wpc = "read" /\ pf.want = 0
    /\ wpc' = "close"
    /\ UNCHANGED <<card, root, manageMain, manageArg, uf, pf, written, stack>>

\* A faulty version: a short write is not noticed.
WWriteShort ==
    /\ wpc = "write"
    /\ written' \in {written, written + pf.iRead} /\ progress' = progress + pf.iRead
    /\ pf' = ReadCall(pf, OutBuf) /\ wpc' = "read"
    /\ UNCHANGED <<card, root, manageMain, running, success, uf, stack>>

WWrite ==
    /\ wpc = "write"
    /\ \/ /\ written' = written + pf.iRead /\ progress' = progress + pf.iRead
          /\ pf' = ReadCall(pf, OutBuf) /\ wpc' = "read"
       \/ wpc' = "closebad" /\ UNCHANGED <<written, progress, pf>>
    /\ UNCHANGED <<card, root, manageMain, running, success, uf, stack>>

\* close and unzCloseCurrentFile, whose verdict on the CRC is not looked at.
WClose ==
    /\ wpc \in {"close", "closebad"}
    /\ card' = [card EXCEPT ![Path(Current(zip, uf))] = IF written = Current(zip, uf).u THEN "new" ELSE "part"]
    /\ pf' = Closed
    /\ wpc' = IF wpc = "close" THEN "next" ELSE "fail"
    /\ UNCHANGED <<root, manageMain, manageArg, uf, written, stack>>

\* The last record by number_entry ends the loop.
WNext ==
    /\ wpc = "next"
    /\ uf' = unzGoToNextFile(zip, uf)
    /\ wpc' = IF uf.num_file + 1 = zip.number_entry THEN "good" ELSE IF uf'.ok THEN "info" ELSE "fail"
    /\ UNCHANGED <<card, root, manageMain, manageArg, pf, written, stack>>

---------------------------------------------------------------------------
(* rmdir_hier.                                                             *)

Children(d) == {p \in CardPaths : Len(p) = Len(d) + 1 /\ SubSeq(p, 1, Len(d)) = d /\ card[p] # "none"}

WOpendir ==
    /\ wpc = "opendir"
    /\ \/ stack' = <<<<dirname>>>> /\ wpc' = "readdir"
       \/ wpc' = "fail" /\ UNCHANGED stack
    /\ UNCHANGED <<card, root, manageMain, manageArg, uf, pf, written>>

Unlink(p) == card' = [card EXCEPT ![p] = "none"]

\* The entries come in any order; a directory is emptied before it goes.
WReaddir ==
    /\ wpc = "readdir"
    /\ LET d == stack[Len(stack)] IN
       \/ \E p \in Children(d) : card[p] = "dir" /\ stack' = Append(stack, p) /\ UNCHANGED <<card, wpc>>
       \/ \E p \in Children(d) : card[p] # "dir" /\ Unlink(p) /\ UNCHANGED <<stack, wpc>>
       \/ /\ Children(d) = {} /\ Unlink(d)
          /\ stack' = SubSeq(stack, 1, Len(stack) - 1)
          /\ wpc' = IF Len(stack) = 1 THEN "good" ELSE "readdir"
       \/ wpc' = "fail" /\ stack' = <<>> /\ UNCHANGED card
    /\ UNCHANGED <<root, manageMain, manageArg, uf, pf, written>>

---------------------------------------------------------------------------
(* manage_func.                                                            *)

\* A faulty version: a failure returns without telling main.
WEndSilent ==
    \/ /\ wpc \in {"good", "fail"}
       /\ success' = (wpc = "good")
       /\ uf' = NoWalk /\ pf' = Closed /\ written' = 0 /\ stack' = <<>>
       /\ wpc' = IF wpc = "good" THEN "stored" ELSE "gone"
       /\ UNCHANGED <<card, root, manageMain, running, progress>>
    \/ /\ wpc = "stored"
       /\ running' = FALSE /\ wpc' = "gone"
       /\ UNCHANGED <<card, root, manageMain, uf, pf, written, stack, success, progress>>

\* success and then running, without the mutex; then the thread ends.
WEnd ==
    \/ /\ wpc \in {"good", "fail"}
       /\ success' = (wpc = "good") /\ wpc' = "stored"
       /\ uf' = NoWalk /\ pf' = Closed /\ written' = 0 /\ stack' = <<>>
       /\ UNCHANGED <<card, root, manageMain, running, progress>>
    \/ /\ wpc = "stored"
       /\ running' = FALSE /\ wpc' = "gone"
       /\ UNCHANGED <<card, root, manageMain, uf, pf, written, stack, success, progress>>

Work ==
    \/ WOpen \/ WInfo \/ WMkdir \/ WCreate \/ WRead \/ WReadEnd \/ WWrite \/ WClose \/ WNext
    \/ WOpendir \/ WReaddir \/ WEnd

ManageNext ==
    Upload \/ Dismiss \/ Confirm \/ DeleteApp \/ Poll \/ Finish \/ Work

ManageSpec == ManageInit /\ [][ManageNext]_manageVars

\* The worker's calls return, and main draws frames until it is done.
ManageFairness == WF_manageVars(Work) /\ WF_manageVars(Finish)

---------------------------------------------------------------------------
ManageTypeOK ==
    /\ card \in [CardPaths -> {"none", "dir", "old", "part", "new"}] /\ root \subseteq {p[1] : p \in CardPaths}
    /\ mPlace \in {"frame", "confirm", "theme", "refused", "poll", "added", "deleted", "failed"}
    /\ zip \in Zips \cup {NoZip} /\ {bytes, shown, progress, written} \subseteq Nat
    /\ {warned, running, success} \subseteq BOOLEAN
    /\ wpc \in {"gone", "open", "info", "mkdir", "create", "read", "write", "close", "closebad", "next",
                "opendir", "readdir", "good", "fail", "stored"}
    /\ uf \in [num_file : 0..Len(zip.files), ok : BOOLEAN]
    /\ pf \in OpenFile
    /\ stack \in Seq(CardPaths)

\* No file of the archive is damaged.
Whole(z) == \A n \in FilesOf(z) : z.files[n].coherent /\ z.files[n].real = z.files[n].u

\* An archive is refused only for what it is, never because its directory was
\* missed at the border of two windows of the search.
SearchFinds ==
    zip # NoZip => SearchCentralDir(zip.size, zip.sigs) = LastSignature(zip.size, zip.sigs)

\* When manage_run reports that a whole archive is installed, every file of
\* it is on the card to its last byte, however the reads were cut up; and
\* the bar has a place for all of it at any time.
ExtractHonest ==
    /\ ManageTypeOK
    /\ (mPlace = "added" /\ Whole(zip)) =>
          /\ \A n \in FilesOf(zip) : card[Path(zip.files[n])] = "new"
          /\ progress = bytes
    /\ (zip # NoZip /\ mPlace = "poll") => shown <= progress /\ progress <= bytes

\* What manage_run reports is what is on the card.  The table loses an
\* application only when nothing of it is left, and a deletion, however many
\* directories it is in, removes nothing of another application.
ManageHonest ==
    [][/\ ExtractHonest'
       /\ (mPlace' = "deleted" /\ mPlace # "deleted") => \A p \in CardPaths : p[1] = dirname => card[p] = "none"
       /\ zip = NoZip => \A p \in CardPaths : card'[p] # card[p] => p[1] = dirname]_manageVars

\* Every installation and every deletion comes to an end, whichever call on the
\* card fails.
ManageEnds == mPlace = "poll" ~> mPlace # "poll"

\* text_warn_overwrite: a file that was there is only overwritten after the
\* dialog said that files in its directory will be.
WarnedOverwrite ==
    [][\A p \in CardPaths : card[p] = "old" /\ card'[p] = "part" => warned]_manageVars
=============================================================================
