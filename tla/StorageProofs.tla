--------------------------- MODULE StorageProofs ---------------------------
(***************************************************************************)
(* Theorems about what the channel keeps on the NAND (NandFiles), for      *)
(* every set of settings and of themes, and about what it installs on and  *)
(* deletes from the card (Manage), for every card and every archive whose  *)
(* names are plain (ManageAssumption; the code accepts others).            *)
(***************************************************************************)
EXTENDS NandFiles, Manage, SequenceTheorems, WellFoundedInduction, TLAPS

---------------------------------------------------------------------------
(* NandFiles.                                                              *)

Pcs == {"off", "theme", "banner", "delbanner", "settings", "run", "save", "dropbanner", "exit"} \union Writing

\* isfs_put is replacing file f.
Putting(f) == pc \in Writing /\ file = f

\* Where the channel is past settings_load and not yet saving.
Running == pc \in {"run", "save"} \/ Putting("theme")

\* Without a data directory nothing is read or written; a theme is only
\* written when there is one to write; what is undone has failed.
Control ==
    /\ ~titlepath => pc \in {"off", "run", "save", "exit"} /\ stored = None
    /\ Putting("theme") => theme \in Themes
    /\ pc \in {"undo", "dropbanner"} => err

\* A save that has returned true is on the NAND until the next one deletes it.
Kept ==
    /\ stored # None => fs["settings"] = stored
    /\ (Putting("settings") /\ pc # "delete") => stored = None
    /\ (Running /\ ~err /\ stored # None) => loaded_settings = stored

\* Until something fails the NAND agrees with what was loaded from it.
SettingsAgree ==
    (Running /\ titlepath /\ ~err) =>
        fs["settings"] = loaded_settings \/ (loaded_settings = Default /\ fs["settings"] \in {None, Torn})

ThemeAgrees ==
    (titlepath /\ ~err /\ pc \notin {"off", "theme"} /\ ~Putting("theme")) =>
        fs["theme"] = theme \/ (theme = NoTheme /\ fs["theme"] \in {None, Torn})

\* BannerMeansSave also holds while a theme is written, and in the banner's
\* own isfs_put until it has created the new file.
Together ==
    (~cut /\ fs["banner"] # None /\ pc # "dropbanner" /\ ~Putting("settings")
        /\ (Putting("banner") => pc \in {"delete", "create"})) =>
        fs["settings"] \in Settings

IInv == TypeOK /\ Control /\ Kept /\ SettingsAgree /\ ThemeAgrees /\ ExitAgrees /\ Together

---------------------------------------------------------------------------
\* The invariant holds on a new console and after an update.
LEMMA InitIInv == Init => IInv
BY NandAssumption
   DEF Init, IInv, TypeOK, Control, Kept, SettingsAgree, ThemeAgrees, ExitAgrees, Together,
       Running, Putting, Writing, Files

---------------------------------------------------------------------------
(* Starting: nothing is written but the deletion of a banner.              *)

\* A start forgets what is in RAM and a power cut leaves the NAND alone.
LEMMA StartKeepsIInv == IInv /\ (Start \/ PowerCut) => IInv'
<1> USE NandAssumption
        DEF ram, hist, IInv, TypeOK, Control, Kept, SettingsAgree, ThemeAgrees, ExitAgrees,
            Together, Running, Putting, Writing, Files
<1>1. IInv /\ Start => IInv'
  <2>1. IInv /\ Start => TypeOK' /\ Control'
    <3>1. CASE titlepath
      BY <3>1 DEF Start
    <3>2. CASE ~titlepath
      BY <3>2 DEF Start
    <3> QED
      BY <3>1, <3>2
  <2>2. IInv /\ Start => Kept'
    BY DEF Start
  <2>3. IInv /\ Start => SettingsAgree' /\ ThemeAgrees' /\ ExitAgrees'
    BY DEF Start
  <2>4. IInv /\ Start => Together'
    BY DEF Start
  <2> QED
    BY <2>1, <2>2, <2>3, <2>4
<1>2. IInv /\ PowerCut => IInv'
  <2>1. IInv /\ PowerCut => TypeOK' /\ Control' /\ Kept'
    BY DEF PowerCut
  <2>2. IInv /\ PowerCut => SettingsAgree' /\ ThemeAgrees' /\ ExitAgrees'
    BY DEF PowerCut
  <2>3. IInv /\ PowerCut => Together'
    BY DEF PowerCut
  <2> QED
    BY <2>1, <2>2, <2>3
<1> QED
  BY <1>1, <1>2

\* Each file is loaded as it is, or counts as missing; only a banner is
\* deleted, never the settings.
LEMMA LoadKeepsIInv == IInv /\ Load => IInv'
<1> USE NandAssumption
        DEF Load, ram, hist, IInv, TypeOK, Control, Kept, SettingsAgree, ThemeAgrees, ExitAgrees,
            Together, Running, Putting, Writing, Files, isfs_get, Failed, Delete
<1>1. IInv /\ LoadTheme => IInv'
  BY DEF LoadTheme
<1>2. IInv /\ LoadBanner => IInv'
  BY DEF LoadBanner
<1>3. IInv /\ DeleteBanner => IInv'
  BY DEF DeleteBanner
<1>4. IInv /\ LoadSettings => IInv'
  BY DEF LoadSettings
<1> QED
  BY <1>1, <1>2, <1>3, <1>4 DEF Load

\* Running changes RAM; leaving decides what must be saved.
LEMMA RunKeepsIInv == IInv /\ (Change \/ NewTheme \/ Leave \/ Save) => IInv'
BY NandAssumption
   DEF Change, NewTheme, Leave, Save, ram, hist, IInv, TypeOK, Control, Kept, SettingsAgree, ThemeAgrees,
       ExitAgrees, Together, Running, Putting, Writing, Files

\* What isfs_put writes is of the file's own kind: a theme that is written
\* is never the built-in one.
LEMMA ContentType ==
    IInv /\ pc \in Writing =>
        /\ file = "banner" => Content = "good"
        /\ file = "settings" => Content \in Settings
        /\ file = "theme" => Content \in Themes
BY DEF IInv, TypeOK, Control, Putting, Content

\* The first four conjuncts of TypeOK, for any contents of the NAND.
FsOK(g) ==
    /\ g \in [Files -> Settings \union Themes \union {None, Torn, "old", "good"}]
    /\ g["banner"] \in {None, Torn, "old", "good"}
    /\ g["settings"] \in Settings \union {None, Torn}
    /\ g["theme"] \in Themes \union {None, Torn}

\* Writing a file its own kind of content leaves the NAND well typed.
LEMMA WriteTyped ==
    ASSUME IInv, pc \in Writing
    PROVE  FsOK([fs EXCEPT ![file] = Content])
<1> DEFINE g == [fs EXCEPT ![file] = Content]
<1>1. FsOK(fs) /\ file \in Files
  BY DEF IInv, TypeOK, FsOK
<1>2. Content \in Settings \union Themes \union {None, Torn, "old", "good"}
  BY <1>1, ContentType DEF Files
<1>3. g \in [Files -> Settings \union Themes \union {None, Torn, "old", "good"}]
  BY <1>1, <1>2 DEF FsOK
<1>4. g[file] = Content /\ \A f \in Files \ {file} : g[f] = fs[f]
  BY <1>1 DEF FsOK
<1>5. g["banner"] \in {None, Torn, "old", "good"}
  BY <1>1, <1>4, ContentType DEF FsOK, Files
<1>6. g["settings"] \in Settings \union {None, Torn}
  BY <1>1, <1>4, ContentType DEF FsOK, Files
<1>7. g["theme"] \in Themes \union {None, Torn}
  BY <1>1, <1>4, ContentType DEF FsOK, Files
<1> QED
  BY <1>3, <1>5, <1>6, <1>7 DEF FsOK

\* Each step of isfs_put, with each outcome, and the deletion of a banner
\* whose settings are lost.
LEMMA PutKeepsIInv == IInv /\ (Put \/ DropBanner) => IInv'
<1> USE NandAssumption
        DEF ram, hist, IInv, TypeOK, Control, Kept, SettingsAgree, ThemeAgrees, ExitAgrees,
            Together, Running, Putting, Writing, Files, Delete, Return, Content
<1>1. IInv /\ PutDelete => IInv'
  BY DEF PutDelete
<1>2. IInv /\ PutCreate => IInv'
  <2>1. IInv /\ PutCreate => TypeOK'
    <3> HIDE DEF Control, Kept, SettingsAgree, ThemeAgrees, ExitAgrees, Together
    <3>1. IInv /\ PutCreate => fs' \in {fs, [fs EXCEPT ![file] = Torn]}
      BY DEF PutCreate
    <3>2. IInv /\ PutCreate => FsOK(fs')
      BY <3>1 DEF FsOK
    <3> QED
      BY <3>2 DEF PutCreate, FsOK
  <2>2. IInv /\ PutCreate => Control' /\ Kept'
    BY DEF PutCreate
  <2>3. IInv /\ PutCreate => SettingsAgree' /\ ThemeAgrees'
    BY DEF PutCreate
  <2>4. IInv /\ PutCreate => ExitAgrees' /\ Together'
    BY DEF PutCreate
  <2> QED
    BY <2>1, <2>2, <2>3, <2>4
<1>3. IInv /\ PutOpen => IInv'
  <2>1. IInv /\ PutOpen => TypeOK'
    BY DEF PutOpen
  <2>2. IInv /\ PutOpen => Control' /\ Kept'
    BY DEF PutOpen
  <2>3. IInv /\ PutOpen => SettingsAgree' /\ ThemeAgrees'
    BY DEF PutOpen
  <2>4. IInv /\ PutOpen => ExitAgrees' /\ Together'
    BY DEF PutOpen
  <2> QED
    BY <2>1, <2>2, <2>3, <2>4
<1>4. IInv /\ PutWrite => IInv'
  <2>1. IInv /\ PutWrite => TypeOK'
    <3> HIDE DEF Control, Kept, SettingsAgree, ThemeAgrees, ExitAgrees, Together
    <3>1. IInv /\ PutWrite => fs' \in {fs, [fs EXCEPT ![file] = Content]} /\ pc \in Writing
      BY DEF PutWrite
    <3>2. IInv /\ PutWrite => FsOK(fs')
      BY <3>1, WriteTyped DEF FsOK
    <3> QED
      BY <3>2 DEF PutWrite, FsOK
  <2>2. IInv /\ PutWrite => Control' /\ Kept'
    BY DEF PutWrite
  <2>3. IInv /\ PutWrite => SettingsAgree' /\ ThemeAgrees'
    BY DEF PutWrite
  <2>4. IInv /\ PutWrite => ExitAgrees' /\ Together'
    BY DEF PutWrite
  <2> QED
    BY <2>1, <2>2, <2>3, <2>4
<1>5. IInv /\ PutClose => IInv'
  <2>1. IInv /\ PutClose => TypeOK'
    <3> HIDE DEF Control, Kept, SettingsAgree, ThemeAgrees, ExitAgrees, Together
    <3>1. IInv /\ PutClose => fs' \in {fs, [fs EXCEPT ![file] = Content]} /\ pc \in Writing
      BY DEF PutClose
    <3>2. IInv /\ PutClose => FsOK(fs')
      BY <3>1, WriteTyped DEF FsOK
    <3> QED
      BY <3>2 DEF PutClose, FsOK
  <2>2. IInv /\ PutClose => Control' /\ Kept'
    BY DEF PutClose
  <2>3. IInv /\ PutClose => SettingsAgree' /\ ThemeAgrees'
    BY DEF PutClose
  <2>4. IInv /\ PutClose => ExitAgrees' /\ Together'
    BY DEF PutClose
  <2> QED
    BY <2>1, <2>2, <2>3, <2>4
<1>6. IInv /\ PutUndo => IInv'
  <2>1. IInv /\ PutUndo => TypeOK'
    BY DEF PutUndo
  <2>2. IInv /\ PutUndo => Control' /\ Kept'
    BY DEF PutUndo
  <2>3. IInv /\ PutUndo => SettingsAgree' /\ ThemeAgrees'
    BY DEF PutUndo
  <2>4. IInv /\ PutUndo => ExitAgrees' /\ Together'
    BY DEF PutUndo
  <2> QED
    BY <2>1, <2>2, <2>3, <2>4
<1>7. IInv /\ DropBanner => IInv'
  BY DEF DropBanner
<1> QED
  BY <1>1, <1>2, <1>3, <1>4, <1>5, <1>6, <1>7 DEF Put

---------------------------------------------------------------------------
\* The seven parts hold together in every reachable state.
THEOREM Invariance == Spec => []IInv
<1>1. IInv /\ [Next]_vars => IInv'
  <2>1. IInv /\ UNCHANGED vars => IInv'
    BY DEF vars, ram, hist, IInv, TypeOK, Control, Kept, SettingsAgree, ThemeAgrees,
           ExitAgrees, Together, Running, Putting
  <2> QED
    BY <2>1, StartKeepsIInv, LoadKeepsIInv, RunKeepsIInv, PutKeepsIInv DEF Next
<1> QED
  BY InitIInv, <1>1, PTL DEF Spec

\* Every field and every file holds what its C type or the file's writer
\* allows.
THEOREM TypeCorrect == Spec => []TypeOK
<1>1. IInv => TypeOK
  BY DEF IInv
<1> QED
  BY <1>1, Invariance, PTL

\* settings_save keeps its promise: what it wrote when it returned true is
\* what later starts load, whatever power cuts and failing reads lie between.
THEOREM SavedSettingsKept == Spec => []SavedIsLoaded
<1>1. IInv => SavedIsLoaded
  BY DEF IInv, Kept, Running, SavedIsLoaded
<1> QED
  BY <1>1, Invariance, PTL

\* Leaving without a failed call leaves on the NAND the settings and the theme
\* that were in force, also when settings_save found nothing to write.
THEOREM ExitsAgree == Spec => []ExitAgrees
<1>1. IInv => ExitAgrees
  BY DEF IInv
<1> QED
  BY <1>1, Invariance, PTL

\* The system menu finds a banner only next to settings, except after a power
\* cut in a save or a failed undo of one.
THEOREM BannersMeanSaves == Spec => []BannerMeansSave
<1>1. IInv => BannerMeansSave
  BY DEF IInv, Together, Putting, Writing, BannerMeansSave
<1> QED
  BY <1>1, Invariance, PTL

---------------------------------------------------------------------------
(* Manage.                                                                 *)

Extracting == {"open", "info", "mkdir", "create", "read", "write", "close", "closebad", "next"}
Unpacking == {"read", "write", "close", "closebad"}
Cur == Current(zip, uf)
Nth == uf.num_file + 1

\* The card: a tree, with a place for every file that may come.
CardWhole ==
    /\ CardPaths \subseteq Seq(STRING) \ {<<>>}
    /\ card \in [CardPaths -> {"none", "dir", "old", "part", "new"}] /\ Tree(card)
    /\ \A z \in Zips : manage_check_zip_app(z) => \A n \in FilesOf(z) : Path(z.files[n]) \in CardPaths

\* Who runs, and what main knows.
Order ==
    /\ running <=> wpc # "gone"
    /\ running => mPlace = "poll"
    /\ success => wpc \in {"stored", "gone"} /\ mPlace \in {"poll", "added", "deleted"}
    /\ wpc \in {"gone", "stored"} => uf = NoWalk /\ stack = <<>>
    /\ mPlace = "added" => success /\ zip # NoZip
    /\ mPlace = "deleted" => success /\ zip = NoZip
    /\ mPlace \notin {"poll", "added", "deleted", "failed"} => shown = 0
    /\ wpc \in Extracting => zip # NoZip
    /\ wpc \in {"opendir", "readdir"} => zip = NoZip

\* What is installed was checked.
Checked ==
    mPlace = "confirm" \/ (mPlace \in {"poll", "added"} /\ zip # NoZip) =>
        /\ zip \in Zips /\ manage_check_zip_app(zip)
        /\ dirname = Dirname(zip) /\ bytes = Bytes(zip)

\* The walk is at a record of the archive, and at one for a file when it unpacks.
Walking ==
    /\ wpc \in Extracting \ {"open"} => Nth \in 1..zip.number_entry
    /\ wpc \in Unpacking \cup {"mkdir", "create"} => Nth \in FilesOf(zip)
    /\ wpc \in Unpacking \cup {"create"} => \A d \in Prefixes(Path(Cur)) : card[d] = "dir"
    /\ wpc \in Unpacking => card[Path(Cur)] = "part"

\* The open file of record e, of which w bytes are written: all of it is read,
\* in the buffer or still to come.
Reads(e, q, w) ==
    /\ q \in OpenFile
    /\ q.out + q.ru = e.u /\ q.want <= q.ru
    /\ q.out = w + q.iRead
    /\ q.fed + q.ai + q.rc = e.c
    /\ e.real # Bad => q.out <= e.real
    /\ e.stored => q.out = q.fed

\* A worker's open file.
Unpacked ==
    /\ wpc \in {"mkdir", "create"} => pf = Opened(Cur)
    /\ wpc \in {"read", "write"} => Reads(Cur, pf, written)
    /\ wpc = "read" /\ pf.want = 0 => pf.ru = 0 /\ pf.iRead = 0
    /\ wpc \in {"close", "closebad"} => written <= Cur.u
    /\ wpc = "close" /\ Whole(zip) => written = Cur.u

\* How many bytes are behind the worker.
Reached ==
    CASE wpc = "open" -> 0
      [] wpc \in {"info", "mkdir", "create"} -> BytesTo(zip)[uf.num_file]
      [] wpc \in Unpacking -> BytesTo(zip)[uf.num_file] + written
      [] wpc = "next" -> BytesTo(zip)[Nth]
      [] OTHER -> bytes

Counted ==
    /\ wpc \in Extracting => progress <= Reached /\ (Whole(zip) => progress = Reached)
    /\ mPlace = "poll" /\ zip # NoZip => shown <= progress /\ progress <= bytes

\* The files behind the worker are on the card, but one that is written anew.
Done(k) == \A n \in FilesOf(zip) : n <= k => card[Path(zip.files[n])] = "new"
Installing ==
    wpc \in Extracting /\ Whole(zip) =>
        /\ wpc \in {"info", "mkdir", "create"} => Done(uf.num_file)
        /\ wpc \in Unpacking =>
              \A n \in FilesOf(zip) : n <= uf.num_file /\ Path(zip.files[n]) # Path(Cur) =>
                  card[Path(zip.files[n])] = "new"
        /\ wpc = "next" => Done(Nth)

\* What a success means, from the worker to main's last dialog.
Successful == success \/ wpc = "good"
Reported ==
    /\ Successful /\ zip # NoZip /\ Whole(zip) => Done(zip.number_entry) /\ progress = bytes
    /\ Successful /\ zip = NoZip => \A p \in CardPaths : p[1] = dirname => card[p] = "none"

\* The frames of rmdir_hier_iter.
Deleting ==
    /\ wpc \in {"opendir", "readdir"} => <<dirname>> \in CardPaths
    /\ wpc = "readdir" =>
          /\ Len(stack) >= 1 /\ stack[1] = <<dirname>>
          /\ \A n \in 1..Len(stack) : stack[n][1] = dirname

ManageIInv ==
    /\ ManageTypeOK /\ CardWhole /\ Order /\ Checked /\ Walking /\ Unpacked
    /\ Counted /\ Installing /\ Reported /\ Deleting

---------------------------------------------------------------------------
(* Numbers.                                                                *)

\* A set of numbers is empty or has a least one.
LEMMA Smallest ==
    ASSUME NEW T \in SUBSET Nat, T # {}
    PROVE  \E n \in T : \A m \in Nat : m < n => m \notin T
<1>1. PICK n \in T : \A m \in T : ~(<<m, n>> \in OpToRel(<, Nat))
  BY WFMin, NatLessThanWellFounded
<1>2. ASSUME NEW m \in Nat, m < n PROVE m \notin T
  BY <1>1, <1>2 DEF OpToRel
<1> QED
  BY <1>2

\* s adds up the first k numbers of u.
Adds(u, k, s) == s = [n \in 0..k |-> IF n = 0 THEN 0 ELSE s[n - 1] + u[n]]

\* One more number.
LEMMA AddsOnce ==
    ASSUME NEW u, NEW k \in Nat, u[k + 1] \in Nat, NEW s \in [0..k -> Nat], Adds(u, k, s)
    PROVE  \E next \in [0..(k + 1) -> Nat] : Adds(u, k + 1, next)
<1> DEFINE next == [n \in 0..(k + 1) |-> IF n = k + 1 THEN s[k] + u[k + 1] ELSE s[n]]
<1>1. s[k] \in Nat
  OBVIOUS
<1>2. next \in [0..(k + 1) -> Nat]
  BY <1>1
<1>3. ASSUME NEW n \in 0..(k + 1)
      PROVE  next[n] = IF n = 0 THEN 0 ELSE next[n - 1] + u[n]
  <2>1. CASE n = k + 1
    BY <2>1
  <2>2. CASE n \in 0..k
    <3>1. next[n] = s[n] /\ (n # 0 => next[n - 1] = s[n - 1])
      BY <2>2
    <3>2. s[n] = IF n = 0 THEN 0 ELSE s[n - 1] + u[n]
      BY <2>2 DEF Adds
    <3> QED
      BY <3>1, <3>2
  <2> QED
    BY <2>1, <2>2
<1>4. Adds(u, k + 1, next)
  BY <1>3 DEF Adds
<1> HIDE DEF next
<1> QED
  BY <1>2, <1>4

\* There are sums, however many numbers there are.
LEMMA AddsExist ==
    ASSUME NEW u, NEW k \in Nat, \A n \in 1..k : u[n] \in Nat
    PROVE  \E s \in [0..k -> Nat] : Adds(u, k, s)
<1> DEFINE Fails == {n \in 0..k : ~\E s \in [0..n -> Nat] : Adds(u, n, s)}
<1>1. Fails \subseteq Nat
  OBVIOUS
<1>2. CASE Fails = {}
  BY <1>2
<1>3. CASE Fails # {}
  <2> HIDE DEF Fails
  <2>1. PICK n \in Fails : \A m \in Nat : m < n => m \notin Fails
    BY <1>1, <1>3, Smallest
  <2>2. CASE n = 0
    <3>1. [i \in 0..0 |-> 0] \in [0..0 -> Nat] /\ Adds(u, 0, [i \in 0..0 |-> 0])
      BY DEF Adds
    <3> QED
      BY <2>1, <2>2, <3>1 DEF Fails
  <2>3. CASE n # 0
    <3>0. n \in 0..k
      BY <2>1 DEF Fails
    <3>1. n - 1 \in Nat /\ n - 1 \notin Fails /\ n - 1 \in 0..k
      BY <2>1, <2>3, <3>0
    <3>2. PICK s \in [0..(n - 1) -> Nat] : Adds(u, n - 1, s)
      BY <3>1 DEF Fails
    <3>3. u[n - 1 + 1] \in Nat /\ n - 1 + 1 = n
      BY <2>3, <3>0
    <3>4. \E next \in [0..(n - 1 + 1) -> Nat] : Adds(u, n - 1 + 1, next)
      BY <3>1, <3>2, <3>3, AddsOnce
    <3> QED
      BY <2>1, <3>3, <3>4 DEF Fails
  <2> QED
    BY <2>2, <2>3
<1> QED
  BY <1>2, <1>3

\* The only sums are numbers that grow.
LEMMA AddsTyped ==
    ASSUME NEW u, NEW k \in Nat, \A n \in 1..k : u[n] \in Nat, NEW s, Adds(u, k, s)
    PROVE  /\ s[0] = 0 /\ \A n \in 1..k : s[n] = s[n - 1] + u[n]
           /\ \A n \in 0..k : s[n] \in Nat
           /\ \A n \in 0..k : s[n] <= s[k]
<1>1. \A n \in 0..k : s[n] = IF n = 0 THEN 0 ELSE s[n - 1] + u[n]
  BY DEF Adds
<1>2. \A n \in 0..k : s[n] \in Nat
  <2> DEFINE Odd == {n \in 0..k : s[n] \notin Nat}
  <2>1. Odd \subseteq Nat
    OBVIOUS
  <2>2. ASSUME Odd # {} PROVE FALSE
    <3> HIDE DEF Odd
    <3>1. PICK n \in Odd : \A m \in Nat : m < n => m \notin Odd
      BY <2>1, <2>2, Smallest
    <3> USE DEF Odd
    <3>2. n \in 0..k /\ s[n] \notin Nat
      BY <3>1
    <3>3. n # 0
      BY <1>1, <3>2
    <3>4. n - 1 \in 0..k /\ n - 1 < n /\ n \in 1..k
      BY <3>2, <3>3
    <3>5. s[n - 1] \in Nat
      BY <3>1, <3>4
    <3> QED
      BY <1>1, <3>2, <3>3, <3>4, <3>5
  <2> QED
    BY <2>2
<1>3. \A n \in 0..k : s[n] <= s[k]
  <2> DEFINE Above == {i \in 0..k : ~(s[k - i] <= s[k])}
  <2>1. Above \subseteq Nat
    OBVIOUS
  <2>2. ASSUME Above # {} PROVE FALSE
    <3> HIDE DEF Above
    <3>1. PICK i \in Above : \A m \in Nat : m < i => m \notin Above
      BY <2>1, <2>2, Smallest
    <3> USE DEF Above
    <3>2. i \in 0..k /\ ~(s[k - i] <= s[k])
      BY <3>1
    <3>3. i # 0
      <4>1. k - 0 = k /\ s[k] \in Nat
        BY <1>2
      <4> QED
        BY <3>2, <4>1
    <3>4. i - 1 \in 0..k /\ i - 1 < i /\ k - i + 1 \in 1..k /\ k - (i - 1) = k - i + 1
      BY <3>2, <3>3
    <3>5. s[k - i + 1] <= s[k]
      BY <3>1, <3>4
    <3>6. k - i \in 0..k /\ k - i + 1 - 1 = k - i
      BY <3>2
    <3>7. s[k - i + 1] = s[k - i] + u[k - i + 1]
      BY <1>1, <3>4, <3>6
    <3>8. s[k - i] \in Nat /\ s[k - i + 1] \in Nat /\ s[k] \in Nat /\ u[k - i + 1] \in Nat
      BY <1>2, <3>4, <3>6
    <3> QED
      BY <3>2, <3>5, <3>7, <3>8
  <2>3. ASSUME NEW n \in 0..k PROVE s[n] <= s[k]
    <3>1. k - n \in 0..k /\ k - (k - n) = n
      OBVIOUS
    <3> QED
      BY <2>2, <3>1
  <2> QED
    BY <2>3
<1> QED
  BY <1>1, <1>2, <1>3

---------------------------------------------------------------------------
(* The archive.                                                            *)

\* What an archive that passed the check is.
Good(z) ==
    /\ z \in Zips /\ z # NoZip /\ z.number_entry \in Nat \ {0}
    /\ FilesOf(z) \subseteq 1..z.number_entry
    /\ \A n \in 1..z.number_entry : n \in 1..Len(z.files) /\ z.files[n].u \in Nat /\ z.files[n].c \in Nat
    /\ \A n \in 1..z.number_entry : n \notin FilesOf(z) => z.files[n].u = 0
    /\ BytesTo(z)[0] = 0 /\ Bytes(z) \in Nat
    /\ \A n \in 1..z.number_entry :
          /\ BytesTo(z)[n - 1] \in Nat /\ BytesTo(z)[n] \in Nat
          /\ BytesTo(z)[n] = BytesTo(z)[n - 1] + z.files[n].u
          /\ BytesTo(z)[n] <= Bytes(z)

\* What manage_check_zip_app accepts is an archive whose records can all be read,
\* and whose sizes add up.
LEMMA GoodZip ==
    ASSUME NEW z \in Zips, manage_check_zip_app(z)
    PROVE  Good(z)
<1> DEFINE K == z.number_entry
           u == [n \in 1..K |-> z.files[n].u]
<1>1. /\ K \in Nat /\ K >= 2 /\ K <= Len(z.files) /\ Len(z.files) \in Nat
      /\ \A n \in 1..Len(z.files) : Entry(z.files[n])
  BY ManageAssumption DEF manage_check_zip_app, Sound
<1>2. z # NoZip
  BY <1>1 DEF NoZip
<1>3. ASSUME NEW n \in 1..K
      PROVE  n \in 1..Len(z.files) /\ z.files[n].u \in Nat /\ z.files[n].c \in Nat /\ u[n] = z.files[n].u
  <2>1. n \in 1..Len(z.files)
    BY <1>1
  <2> QED
    BY <1>1, <2>1 DEF Entry
<1>4. ASSUME NEW n \in 1..K, n \notin FilesOf(z) PROVE z.files[n].u = 0
  <2>1. z.files[n].u \in Nat
    BY <1>3
  <2>2. ~(z.files[n].u > 0)
    BY <1>4 DEF FilesOf
  <2> QED
    BY <2>1, <2>2
<1>5. PICK s \in [0..K -> Nat] : Adds(u, K, s)
  BY <1>1, <1>3, AddsExist
<1>6. Adds(u, K, BytesTo(z))
  <2> DEFINE f == [n \in 0..K |-> IF n = 0 THEN 0 ELSE s[n - 1] + z.files[n].u]
  <2>1. s = [n \in 0..K |-> IF n = 0 THEN 0 ELSE s[n - 1] + u[n]]
    BY <1>5 DEF Adds
  <2>2. ASSUME NEW n \in 0..K PROVE s[n] = IF n = 0 THEN 0 ELSE s[n - 1] + z.files[n].u
    <3>1. CASE n = 0
      BY <2>1, <3>1
    <3>2. CASE n # 0
      <4>1. n \in 1..K
        BY <3>2, <1>1
      <4>2. u[n] = z.files[n].u
        BY <4>1, <1>3
      <4>3. s[n] = s[n - 1] + u[n]
        BY <2>1, <3>2, <1>1
      <4> QED
        BY <4>2, <4>3, <3>2
    <3> QED
      BY <3>1, <3>2
  <2>3. s = f
    BY <2>2
  <2>4. \E b : b = [n \in 0..K |-> IF n = 0 THEN 0 ELSE b[n - 1] + z.files[n].u]
    BY <2>3
  <2>5. BytesTo(z) = CHOOSE b : b = [n \in 0..K |-> IF n = 0 THEN 0 ELSE b[n - 1] + z.files[n].u]
    BY DEF BytesTo
  <2>6. BytesTo(z) = [n \in 0..K |-> IF n = 0 THEN 0 ELSE BytesTo(z)[n - 1] + z.files[n].u]
    BY <2>4, <2>5
  <2>7. \A n \in 0..K : n # 0 => u[n] = z.files[n].u
    BY <1>3, <1>1
  <2> HIDE DEF u
  <2>8. [n \in 0..K |-> IF n = 0 THEN 0 ELSE BytesTo(z)[n - 1] + z.files[n].u]
        = [n \in 0..K |-> IF n = 0 THEN 0 ELSE BytesTo(z)[n - 1] + u[n]]
    BY <2>7
  <2> QED
    BY <2>6, <2>8 DEF Adds
<1>7. \A n \in 1..K : u[n] \in Nat
  BY <1>3
<1> HIDE DEF u
<1>8. /\ BytesTo(z)[0] = 0 /\ \A n \in 1..K : BytesTo(z)[n] = BytesTo(z)[n - 1] + u[n]
      /\ \A n \in 0..K : BytesTo(z)[n] \in Nat /\ BytesTo(z)[n] <= BytesTo(z)[K]
  BY <1>1, <1>6, <1>7, AddsTyped
<1>9. ASSUME NEW n \in 1..K
      PROVE  /\ BytesTo(z)[n - 1] \in Nat /\ BytesTo(z)[n] \in Nat
             /\ BytesTo(z)[n] = BytesTo(z)[n - 1] + z.files[n].u
             /\ BytesTo(z)[n] <= Bytes(z)
  <2>1. n \in 0..K /\ n - 1 \in 0..K
    BY <1>1
  <2> QED
    BY <1>3, <1>8, <2>1 DEF Bytes
<1>10. Bytes(z) \in Nat /\ K \in Nat \ {0} /\ FilesOf(z) \subseteq 1..K
  BY <1>1, <1>8 DEF Bytes, FilesOf
<1> QED
  BY <1>2, <1>3, <1>4, <1>8, <1>9, <1>10 DEF Good

\* A path of the card, and the directories it is in.
LEMMA Above ==
    ASSUME NEW p \in Seq(STRING), NEW n \in 1..(Len(p) - 1)
    PROVE  /\ SubSeq(p, 1, n) \in Seq(STRING) /\ Len(SubSeq(p, 1, n)) = n
           /\ SubSeq(p, 1, n)[1] = p[1] /\ SubSeq(p, 1, n) # p
           /\ \A m \in 1..(n - 1) : SubSeq(SubSeq(p, 1, n), 1, m) = SubSeq(p, 1, m)
<1>1. n \in Int /\ 1 <= n /\ 1 \in 1..n /\ \A i \in 1..n : p[i] \in STRING
  OBVIOUS
<1>2. /\ SubSeq(p, 1, n) \in Seq(STRING) /\ Len(SubSeq(p, 1, n)) = n
      /\ \A i \in 1..n : SubSeq(p, 1, n)[i] = p[i]
  BY <1>1, SubSeqProperties
<1>3. ASSUME NEW m \in 1..(n - 1)
      PROVE  SubSeq(SubSeq(p, 1, n), 1, m) = SubSeq(p, 1, m)
  BY <1>2
<1> QED
  BY <1>1, <1>2, <1>3

\* The path of a record.
LEMMA PathOf ==
    ASSUME NEW e, Entry(e), e.dirs # <<>>
    PROVE  Path(e) \in Seq(STRING) /\ Len(Path(e)) >= 2 /\ Path(e)[1] = e.dirs[1]
<1>1. e.dirs \in Seq(STRING) /\ <<e.name>> \in Seq(STRING) /\ Len(e.dirs) >= 1 /\ Len(<<e.name>>) = 1
  BY DEF Entry
<1> QED
  BY <1>1, ConcatProperties DEF Path

\* Where the files of an archive that passed the check go.
LEMMA FilePath ==
    ASSUME NEW z \in Zips, manage_check_zip_app(z), NEW n \in FilesOf(z)
    PROVE  /\ Path(z.files[n]) \in Seq(STRING) /\ Len(Path(z.files[n])) >= 2
           /\ Path(z.files[n])[1] = Dirname(z) /\ Entry(z.files[n])
<1>1. n \in 1..Len(z.files) /\ z.files[n].dirs # <<>> /\ z.files[n].dirs[1] = Dirname(z)
  BY ManageAssumption DEF manage_check_zip_app, Sound, FilesOf
<1>2. Entry(z.files[n])
  BY <1>1, ManageAssumption
<1> QED
  BY <1>1, <1>2, PathOf
---------------------------------------------------------------------------
(* The card stays a tree.                                                  *)

Paths == Seq(STRING) \ {<<>>}

\* A file comes, changes or goes.
LEMMA TreeFile ==
    ASSUME NEW c, DOMAIN c \subseteq Paths, Tree(c), NEW p \in DOMAIN c, c[p] # "dir",
           NEW v, v # "none" => \A d \in Prefixes(p) : c[d] = "dir"
    PROVE  Tree([c EXCEPT ![p] = v])
<1> DEFINE c2 == [c EXCEPT ![p] = v]
<1>1. DOMAIN c2 = DOMAIN c /\ c2[p] = v /\ \A q \in DOMAIN c : q # p => c2[q] = c[q]
  OBVIOUS
<1>2. ASSUME NEW q \in DOMAIN c2, NEW n \in 1..(Len(q) - 1)
      PROVE  SubSeq(q, 1, n) \in DOMAIN c2 /\ (c2[q] # "none" => c2[SubSeq(q, 1, n)] = "dir")
  <2> DEFINE d == SubSeq(q, 1, n)
  <2>1. d \in DOMAIN c /\ (c[q] # "none" => c[d] = "dir")
    BY <1>1, <1>2 DEF Tree
  <2>2. d # q
    BY <1>1, <1>2, Above DEF Paths
  <2>3. CASE q = p
    <3>1. d \in Prefixes(p)
      BY <1>2, <2>3 DEF Prefixes
    <3> QED
      BY <1>1, <2>1, <2>2, <2>3, <3>1
  <2>4. CASE q # p
    BY <1>1, <2>1, <2>4
  <2> QED
    BY <2>3, <2>4
<1> QED
  BY <1>2 DEF Tree

\* An empty directory goes.
LEMMA TreeRmdir ==
    ASSUME NEW c, DOMAIN c \subseteq Paths, Tree(c), NEW p \in DOMAIN c,
           \A q \in DOMAIN c : Len(q) = Len(p) + 1 /\ SubSeq(q, 1, Len(p)) = p => c[q] = "none"
    PROVE  Tree([c EXCEPT ![p] = "none"])
<1> DEFINE c2 == [c EXCEPT ![p] = "none"]
<1>1. DOMAIN c2 = DOMAIN c /\ c2[p] = "none" /\ \A q \in DOMAIN c : q # p => c2[q] = c[q]
  OBVIOUS
<1>2. ASSUME NEW q \in DOMAIN c2, NEW n \in 1..(Len(q) - 1)
      PROVE  SubSeq(q, 1, n) \in DOMAIN c2 /\ (c2[q] # "none" => c2[SubSeq(q, 1, n)] = "dir")
  <2> DEFINE d == SubSeq(q, 1, n)
  <2>0. q \in DOMAIN c /\ q \in Seq(STRING) /\ Len(q) \in Nat /\ n \in Nat
    BY <1>1, <1>2 DEF Paths
  <2>1. d \in DOMAIN c /\ (c[q] # "none" => c[d] = "dir")
    BY <1>1, <1>2 DEF Tree
  <2>2. Len(d) = n
    BY <1>2, <2>0, Above
  <2>3. ASSUME d = p PROVE c[q] = "none"
    <3>1. CASE n + 1 = Len(q)
      BY <2>0, <2>2, <2>3, <3>1
    <3>2. CASE n + 1 # Len(q)
      <4> DEFINE e == SubSeq(q, 1, n + 1)
      <4>1. n + 1 \in 1..(Len(q) - 1) /\ n \in 1..(n + 1 - 1)
        BY <1>2, <2>0, <3>2
      <4>2. e \in DOMAIN c /\ (c[q] # "none" => c[e] = "dir")
        BY <2>0, <4>1 DEF Tree
      <4>3. Len(e) = n + 1 /\ SubSeq(e, 1, n) = d
        BY <2>0, <4>1, Above
      <4>4. c[e] = "none"
        <5> HIDE DEF d, e
        <5> QED
          BY <2>2, <2>3, <4>2, <4>3
      <4> QED
        BY <4>2, <4>4
    <3> QED
      BY <3>1, <3>2
  <2> HIDE DEF d
  <2>4. c2[q] # "none" => c[q] # "none"
    BY <1>1, <2>0
  <2> QED
    BY <1>1, <2>1, <2>3, <2>4 DEF d
<1> QED
  BY <1>2 DEF Tree

\* Directories are made from the top.
LEMMA TreeMkdir ==
    ASSUME NEW c, DOMAIN c \subseteq Paths, Tree(c), NEW p \in DOMAIN c, NEW made \in SUBSET Prefixes(p),
           \A d \in made : c[d] = "none",
           \A d \in made, e \in Prefixes(p) : Len(e) < Len(d) => e \in made \/ c[e] = "dir"
    PROVE  Tree([d \in DOMAIN c |-> IF d \in made THEN "dir" ELSE c[d]])
<1> DEFINE c2 == [d \in DOMAIN c |-> IF d \in made THEN "dir" ELSE c[d]]
<1>0. p \in Seq(STRING) /\ Len(p) \in Nat
  BY DEF Paths
<1>1. ASSUME NEW q \in DOMAIN c2, NEW n \in 1..(Len(q) - 1)
      PROVE  SubSeq(q, 1, n) \in DOMAIN c2 /\ (c2[q] # "none" => c2[SubSeq(q, 1, n)] = "dir")
  <2> DEFINE d == SubSeq(q, 1, n)
  <2>1. d \in DOMAIN c /\ (c[q] # "none" => c[d] = "dir")
    BY <1>1 DEF Tree
  <2>2. CASE q \in made
    <3>1. PICK k \in 1..(Len(p) - 1) : q = SubSeq(p, 1, k)
      BY <2>2 DEF Prefixes
    <3>2. Len(q) = k
      BY <1>0, <3>1, Above
    <3>3. n \in 1..(k - 1) /\ n \in 1..(Len(p) - 1) /\ k \in Nat
      BY <1>0, <1>1, <3>1, <3>2
    <3>4. d = SubSeq(p, 1, n) /\ Len(d) = n
      BY <1>0, <3>1, <3>3, Above
    <3>5. d \in Prefixes(p) /\ Len(d) < Len(q)
      BY <3>2, <3>3, <3>4 DEF Prefixes
    <3>6. d \in made \/ c[d] = "dir"
      BY <2>2, <3>5
    <3> HIDE DEF d
    <3>7. c2[d] = "dir"
      BY <2>1, <3>6
    <3> QED
      BY <2>1, <3>7 DEF d
  <2>3. CASE q \notin made
    <3> HIDE DEF d
    <3>1. c2[q] = c[q] /\ (c[d] = "dir" => c2[d] = "dir")
      BY <1>1, <2>1, <2>3
    <3> QED
      BY <2>1, <3>1 DEF d
  <2> QED
    BY <2>2, <2>3
<1> QED
  BY <1>1 DEF Tree

\* Nothing is below what is gone.
LEMMA Emptied ==
    ASSUME NEW c, DOMAIN c \subseteq Paths, Tree(c), NEW d, c[<<d>>] = "none",
           NEW p \in DOMAIN c, p[1] = d
    PROVE  c[p] = "none"
<1>1. p \in Seq(STRING) /\ Len(p) \in Nat /\ Len(p) >= 1
  BY DEF Paths
<1>2. CASE Len(p) = 1
  <2>1. p = <<d>>
    BY <1>1, <1>2
  <2> QED
    BY <2>1
<1>3. CASE Len(p) > 1
  <2>1. 1 \in 1..(Len(p) - 1)
    BY <1>1, <1>3
  <2>2. c[p] # "none" => c[SubSeq(p, 1, 1)] = "dir"
    BY <2>1 DEF Tree
  <2>3. SubSeq(p, 1, 1) = <<d>>
    <3> DEFINE q == SubSeq(p, 1, 1)
    <3>1. Len(q) = 1 /\ q[1] = d /\ q \in Seq(STRING)
      BY <1>1, <2>1, Above
    <3> HIDE DEF q
    <3>2. q = <<d>>
      BY <3>1
    <3> QED
      BY <3>2 DEF q
  <2> QED
    BY <2>2, <2>3
<1> QED
  BY <1>1, <1>2, <1>3
---------------------------------------------------------------------------
(* The open file.                                                          *)

\* Filling the input buffer moves bytes and loses none.
LEMMA Filled ==
    ASSUME NEW e, NEW w \in Nat, NEW q, Reads(e, q, w)
    PROVE  /\ Reads(e, Fill(q), w) /\ Fill(q).want = q.want /\ Fill(q).iRead = q.iRead
           /\ Fill(q).ai = 0 => Fill(q).rc = 0
<1>1. q \in OpenFile /\ UNZ_BUFSIZE \in Nat \ {0}
  BY UnzipAssumption DEF Reads
<1> DEFINE n == Least(UNZ_BUFSIZE, q.rc)
<1>2. CASE q.ai = 0 /\ q.rc > 0
  <2>1. n \in Nat /\ n <= q.rc /\ n # 0
    BY <1>1, <1>2 DEF Least, OpenFile
  <2> HIDE DEF n
  <2> DEFINE f == [q EXCEPT !.rc = @ - n, !.ai = n]
  <2>2. /\ f.rc = q.rc - n /\ f.ai = n /\ f.ru = q.ru /\ f.fed = q.fed
        /\ f.out = q.out /\ f.want = q.want /\ f.iRead = q.iRead
    BY <1>1 DEF OpenFile
  <2>3. f \in OpenFile
    <3>1. q.rc - n \in Nat
      BY <1>1, <2>1 DEF OpenFile
    <3> QED
      BY <1>1, <2>1, <3>1 DEF OpenFile
  <2>4. Fill(q) = f
    BY <1>2 DEF Fill, n
  <2> HIDE DEF f
  <2>5. f.fed + f.ai + f.rc = q.fed + q.ai + q.rc
    BY <1>1, <1>2, <2>1, <2>2 DEF OpenFile
  <2> QED
    BY <2>1, <2>2, <2>3, <2>4, <2>5 DEF Reads
<1>3. CASE ~(q.ai = 0 /\ q.rc > 0)
  <2>1. Fill(q) = q
    BY <1>3 DEF Fill
  <2>2. q.ai = 0 => q.rc = 0
    BY <1>1, <1>3 DEF OpenFile
  <2> QED
    BY <2>1, <2>2
<1> QED
  BY <1>2, <1>3

\* Neither does a part of the buffer that becomes output.
LEMMA MovedOn ==
    ASSUME NEW e, NEW w \in Nat, NEW q, Reads(e, q, w), NEW i \in Nat, i <= q.ai, NEW o \in Nat, o <= q.want,
           e.u \in Nat, e.c \in Nat, e.real # Bad => e.real \in Nat /\ o <= e.real - q.out,
           e.stored => i = o
    PROVE  /\ Reads(e, Moved(q, i, o), w)
           /\ Moved(q, i, o).want = q.want - o /\ Moved(q, i, o).iRead = q.iRead + o
           /\ Moved(q, i, o).fed = q.fed + i /\ Moved(q, i, o).out = q.out + o
<1> DEFINE f == Moved(q, i, o)
<1>1. q \in OpenFile
  BY DEF Reads
<1>2. /\ f.rc = q.rc /\ f.ai = q.ai - i /\ f.ru = q.ru - o /\ f.fed = q.fed + i
      /\ f.out = q.out + o /\ f.want = q.want - o /\ f.iRead = q.iRead + o
  BY <1>1 DEF OpenFile, Moved
<1>3. q.want <= q.ru /\ q.rc \in Nat /\ q.ru \in Nat /\ q.ai \in Nat /\ q.fed \in Nat /\ q.out \in Nat
      /\ q.want \in Nat /\ q.iRead \in Nat
  BY <1>1 DEF OpenFile, Reads
<1> HIDE DEF f
<1>4. q.ai - i \in Nat /\ q.ru - o \in Nat /\ q.want - o \in Nat /\ q.fed + i \in Nat /\ q.out + o \in Nat
      /\ q.iRead + o \in Nat
  BY <1>3
<1>5. f \in OpenFile
  BY <1>1, <1>4 DEF OpenFile, Moved, f
<1>6. f.out + f.ru = e.u /\ f.want <= f.ru /\ f.out = w + f.iRead /\ f.fed + f.ai + f.rc = e.c
  BY <1>2, <1>3 DEF Reads
<1>7. e.real # Bad => f.out <= e.real
  BY <1>2, <1>3
<1>8. e.stored => f.out = f.fed
  BY <1>2, <1>3 DEF Reads
<1>9. Reads(e, f, w)
  BY <1>5, <1>6, <1>7, <1>8 DEF Reads
<1> QED
  BY <1>2, <1>9 DEF f

\* One round of unzReadCurrentFile loses nothing of the file, and a result of 0
\* is only possible at its end.
LEMMA Round ==
    ASSUME NEW e, Entry(e), NEW w \in Nat, NEW q0, Reads(e, q0, w), q0.want > 0, NEW r \in ReadRound(e, q0)
    PROVE  /\ Reads(e, r[1], w)
           /\ r[2] = More => r[1].want # 0
           /\ r[2] \in Nat \cup {Bad, More}
           /\ r[2] = 0 /\ e.real = e.u => w = e.u
<1> DEFINE q == Fill(q0)
<1>1. Reads(e, q, w) /\ q.want = q0.want /\ (q.ai = 0 => q.rc = 0)
  BY Filled
<1>2. /\ e.u \in Nat /\ e.c \in Nat /\ e.real \in Nat \cup {Bad} /\ e.stored \in BOOLEAN
      /\ (e.stored /\ e.real # Bad) => e.real = e.c
  BY DEF Entry
<1>3. /\ q.rc \in Nat /\ q.ru \in Nat /\ q.ai \in Nat /\ q.fed \in Nat /\ q.out \in Nat
      /\ q.want \in Nat /\ q.iRead \in Nat
  BY <1>1 DEF Reads, OpenFile
<1>4. CASE e.real = Bad
  <2>1. r = <<q, Bad>>
    BY <1>4 DEF ReadRound
  <2> HIDE DEF q
  <2> QED
    BY <1>1, <1>2, <1>4, <2>1 DEF Bad, More
<1>5. CASE e.real # Bad /\ e.stored /\ q.ai = 0
  <2>1. r = <<q, q.iRead>>
    BY <1>5 DEF ReadRound
  <2> HIDE DEF q
  <2>2. q.out = e.c /\ e.real = e.c
    BY <1>1, <1>2, <1>3, <1>5 DEF Reads
  <2>3. q.iRead = 0 /\ e.real = e.u => w = e.u
    BY <1>1, <1>2, <1>3, <2>2 DEF Reads
  <2> QED
    BY <1>1, <1>3, <2>1, <2>3 DEF Bad, More
<1>6. CASE e.real # Bad /\ e.stored /\ q.ai # 0
  <2> DEFINE n == Least(q.want, q.ai)
             m == Moved(q, n, n)
  <2>1. r = <<m, IF m.want = 0 THEN m.iRead ELSE More>>
    BY <1>6 DEF ReadRound
  <2> HIDE DEF q
  <2>2. n \in Nat /\ n <= q.want /\ n <= q.ai /\ n # 0
    BY <1>1, <1>3, <1>6 DEF Least, Reads
  <2>3. n <= e.real - q.out /\ e.real \in Nat
    <3>1. e.real = e.c /\ q.out = q.fed /\ q.fed + q.ai + q.rc = e.c
      BY <1>1, <1>2, <1>6 DEF Reads
    <3> HIDE DEF n, m
    <3> QED
      BY <1>2, <1>3, <2>2, <3>1
  <2> HIDE DEF n
  <2>4. Reads(e, m, w) /\ m.want = q.want - n /\ m.iRead = q.iRead + n
    BY <1>1, <1>2, <2>2, <2>3, MovedOn
  <2> HIDE DEF m
  <2>5. m.iRead \in Nat /\ m.iRead # 0
    BY <1>3, <2>2, <2>4
  <2>6. r[1] = m /\ r[2] = IF m.want = 0 THEN m.iRead ELSE More
    BY <2>1
  <2> QED
    BY <2>4, <2>5, <2>6 DEF More, Bad
<1>7. CASE e.real # Bad /\ ~e.stored
  <2>1. PICK i \in Inflated(e, q) :
          r = LET m == Moved(q, i[1], i[2]) IN
              <<m, IF StreamEnd(e, m) \/ m.want = 0 THEN m.iRead ELSE More>>
    BY <1>7 DEF ReadRound
  <2> DEFINE m == Moved(q, i[1], i[2])
  <2>2. r[1] = m /\ r[2] = IF StreamEnd(e, m) \/ m.want = 0 THEN m.iRead ELSE More
    BY <2>1
  <2> HIDE DEF q
  <2>3. i[1] \in 0..q.ai /\ i[2] \in 0..Least(q.want, e.real - q.out)
    BY <2>1 DEF Inflated
  <2>4. e.real \in Nat /\ q.out <= e.real
    BY <1>1, <1>2, <1>7 DEF Reads
  <2>5. i[1] \in Nat /\ i[1] <= q.ai /\ i[2] \in Nat /\ i[2] <= q.want /\ i[2] <= e.real - q.out
    BY <1>3, <2>3, <2>4 DEF Least
  <2>6. /\ Reads(e, m, w) /\ m.want = q.want - i[2] /\ m.iRead = q.iRead + i[2]
        /\ m.out = q.out + i[2]
    BY <1>1, <1>2, <1>7, <2>4, <2>5, MovedOn
  <2> HIDE DEF m
  <2>7. m.iRead \in Nat /\ q.want # 0
    BY <1>1, <1>3, <2>5, <2>6
  <2>8. ASSUME r[2] = 0, e.real = e.u PROVE w = e.u
    <3>1. m.iRead = 0 /\ i[2] = 0
      BY <1>3, <2>2, <2>5, <2>6, <2>8 DEF More
    <3>2. m.want # 0
      BY <1>3, <2>6, <2>7, <3>1
    <3>3. StreamEnd(e, m)
      BY <2>2, <2>8, <3>2 DEF More
    <3>4. m.out = e.real /\ m.out = w + m.iRead
      BY <2>6, <3>3 DEF StreamEnd, Reads
    <3> QED
      BY <2>8, <3>1, <3>4
  <2> QED
    BY <2>2, <2>6, <2>7, <2>8 DEF More
<1> QED
  BY <1>4, <1>5, <1>6, <1>7
---------------------------------------------------------------------------
(* Where the worker is.                                                    *)

\* An archive is unpacked only after it passed the check.
LEMMA Here ==
    ASSUME ManageIInv, wpc \in Extracting
    PROVE  /\ zip \in Zips /\ zip # NoZip /\ manage_check_zip_app(zip) /\ Good(zip)
           /\ dirname = Dirname(zip) /\ bytes = Bytes(zip) /\ bytes \in Nat
           /\ running /\ mPlace = "poll" /\ success = FALSE
<1>1. running /\ mPlace = "poll" /\ success = FALSE /\ zip # NoZip
  BY DEF ManageIInv, ManageTypeOK, Order, Extracting
<1>2. zip \in Zips /\ manage_check_zip_app(zip) /\ dirname = Dirname(zip) /\ bytes = Bytes(zip)
  BY <1>1 DEF ManageIInv, Checked
<1> QED
  BY <1>1, <1>2, GoodZip DEF Good

\* The record, its file and the directories of it.
LEMMA HereFile ==
    ASSUME ManageIInv, wpc \in Unpacking \cup {"mkdir", "create"}
    PROVE  /\ Nth \in FilesOf(zip) /\ Nth \in 1..zip.number_entry /\ uf.num_file \in Nat /\ Cur = zip.files[Nth]
           /\ Entry(Cur) /\ Cur.u \in Nat /\ Path(Cur) \in CardPaths /\ Path(Cur)[1] = dirname
           /\ \A d \in Prefixes(Path(Cur)) : d \in CardPaths /\ d[1] = dirname /\ d # Path(Cur)
<1>0. wpc \in Extracting
  BY DEF Unpacking, Extracting
<1>1. zip \in Zips /\ manage_check_zip_app(zip) /\ Good(zip) /\ dirname = Dirname(zip)
  BY <1>0, Here
<1>2. Nth \in FilesOf(zip) /\ Cur = zip.files[Nth]
  BY DEF ManageIInv, Walking, Cur, Current, Nth
<1>3. Nth \in 1..zip.number_entry /\ zip.number_entry \in Nat
  BY <1>1, <1>2 DEF Good
<1>4. uf.num_file \in Nat
  BY DEF ManageIInv, ManageTypeOK
<1>5. Path(Cur) \in Seq(STRING) /\ Path(Cur)[1] = dirname /\ Entry(Cur)
  BY <1>1, <1>2, FilePath
<1>6. Path(Cur) \in CardPaths
  BY <1>1, <1>2 DEF ManageIInv, CardWhole
<1>7. ASSUME NEW d \in Prefixes(Path(Cur))
      PROVE  d \in CardPaths /\ d[1] = dirname /\ d # Path(Cur)
  <2> DEFINE p == Path(Cur)
  <2> HIDE DEF Cur
  <2>1. PICK n \in 1..(Len(p) - 1) : d = SubSeq(p, 1, n)
    BY <1>7 DEF Prefixes
  <2>2. d[1] = p[1] /\ d # p
    BY <1>5, <2>1, Above
  <2>3. d \in CardPaths
    BY <1>6, <2>1 DEF ManageIInv, CardWhole, Tree, CardPaths
  <2> QED
    BY <1>5, <2>2, <2>3
<1>8. Cur.u \in Nat
  BY <1>5 DEF Entry
<1> QED
  BY <1>2, <1>3, <1>4, <1>5, <1>6, <1>7, <1>8

\* The card is left alone.
LEMMA CardKept ==
    ASSUME ManageIInv, card' = card
    PROVE  CardWhole'
BY DEF ManageIInv, CardWhole, CardPaths

---------------------------------------------------------------------------
(* The steps of main.                                                      *)

\* An upload is checked when it comes.
LEMMA UploadKeeps ==
    ASSUME ManageIInv, Upload
    PROVE  ManageIInv'
<1> USE DEF ManageIInv
<1>1. /\ mPlace = "frame" /\ wpc = "gone" /\ zip' \in Zips
      /\ mPlace' \in {"confirm", "theme", "refused"} /\ (mPlace' = "confirm" => manage_check_zip_app(zip'))
      /\ mPlace' = "confirm" => dirname' = Dirname(zip') /\ bytes' = Bytes(zip')
      /\ mPlace' # "confirm" => bytes' = bytes
      /\ card' = card /\ root' = root /\ shown' = shown /\ warned' = warned
      /\ wpc' = wpc /\ uf' = uf /\ pf' = pf /\ written' = written /\ stack' = stack
      /\ running' = running /\ success' = success /\ progress' = progress
  BY DEF Upload, worker, manageArg
<1>2. bytes' \in Nat
  <2>1. CASE mPlace' = "confirm"
    BY <1>1, <2>1, GoodZip DEF Good
  <2>2. CASE mPlace' # "confirm"
    BY <1>1, <2>2 DEF ManageTypeOK
  <2> QED
    BY <2>1, <2>2
<1>3. uf = NoWalk /\ running = FALSE /\ success = FALSE /\ shown = 0
  BY <1>1 DEF Order, ManageTypeOK
<1>4. uf' \in [num_file : 0..Len(zip'.files), ok : BOOLEAN]
  BY <1>1, <1>3, ManageAssumption DEF NoWalk
<1>5. ManageTypeOK'
  BY <1>1, <1>2, <1>4 DEF ManageTypeOK, CardPaths
<1>6. CardWhole'
  BY <1>1, CardKept
<1>7. Order' /\ Checked'
  BY <1>1, <1>3 DEF Order, Checked, Extracting
<1>8. Walking' /\ Unpacked' /\ Counted' /\ Installing' /\ Deleting'
  BY <1>1 DEF Walking, Unpacked, Counted, Installing, Deleting, Extracting, Unpacking
<1>9. Reported'
  BY <1>1, <1>3 DEF Reported, Successful
<1> QED
  BY <1>5, <1>6, <1>7, <1>8, <1>9

\* The last dialog goes.
LEMMA DismissKeeps ==
    ASSUME ManageIInv, Dismiss
    PROVE  ManageIInv'
<1> USE DEF ManageIInv
<1>1. /\ mPlace \in {"theme", "refused", "added", "deleted", "failed"}
      /\ mPlace' = "frame" /\ zip' = NoZip /\ bytes' = 0 /\ shown' = 0 /\ warned' = FALSE
      /\ progress' = 0 /\ success' = FALSE /\ running' = running
      /\ card' = card /\ root' = root
      /\ wpc' = wpc /\ uf' = uf /\ pf' = pf /\ written' = written /\ stack' = stack
  BY DEF Dismiss, worker
<1>2. uf = NoWalk /\ running = FALSE /\ wpc = "gone"
  BY <1>1 DEF Order, ManageTypeOK
<1>3. uf' \in [num_file : 0..Len(zip'.files), ok : BOOLEAN]
  BY <1>1, <1>2 DEF NoWalk, NoZip
<1>4.ManageTypeOK'
  <2>1. zip' \in Zips \cup {NoZip} /\ {bytes', shown', progress', written'} \subseteq Nat
        /\ {warned', running', success'} \subseteq BOOLEAN
    <3>1. zip' \in Zips \cup {NoZip}
      BY <1>1 DEF ManageTypeOK
    <3>2. bytes' \in Nat /\ shown' \in Nat /\ progress' \in Nat /\ written' \in Nat
      BY <1>1 DEF ManageTypeOK
    <3>3. warned \in BOOLEAN /\ running \in BOOLEAN /\ success \in BOOLEAN
      BY DEF ManageTypeOK
    <3>4. warned' \in BOOLEAN /\ running' \in BOOLEAN /\ success' \in BOOLEAN
      BY <1>1, <3>3
    <3> QED
      BY <3>1, <3>2, <3>4
  <2>2. uf' \in [num_file : 0..Len(zip'.files), ok : BOOLEAN]
    BY <1>1, <1>3 DEF ManageTypeOK
  <2>3. mPlace' \in {"frame", "confirm", "theme", "refused", "poll", "added", "deleted", "failed"}
        /\ wpc' \in {"gone", "open", "info", "mkdir", "create", "read", "write", "close", "closebad", "next",
                     "opendir", "readdir", "good", "fail", "stored"}
    BY <1>1 DEF ManageTypeOK
  <2>4. /\ card' \in [CardPaths' -> {"none", "dir", "old", "part", "new"}] /\ root' \subseteq {p[1] : p \in CardPaths'}
        /\ pf' \in OpenFile /\ stack' \in Seq(CardPaths')
    BY <1>1 DEF ManageTypeOK, CardPaths
  <2> QED
    BY <2>1, <2>2, <2>3, <2>4 DEF ManageTypeOK
<1>5. CardWhole'
  BY <1>1, CardKept
<1>6. Order' /\ Checked'
  BY <1>1, <1>2 DEF Order, Checked, Extracting
<1>7. Walking' /\ Unpacked' /\ Counted' /\ Installing' /\ Deleting'
  BY <1>1, <1>2 DEF Walking, Unpacked, Counted, Installing, Deleting, Extracting, Unpacking
<1>8. Reported'
  BY <1>1, <1>2 DEF Reported, Successful
<1> QED
  BY <1>4, <1>5, <1>6, <1>7, <1>8

\* The user answers, and the worker starts or does not.
LEMMA ConfirmKeeps ==
    ASSUME ManageIInv, Confirm
    PROVE  ManageIInv'
<1> USE DEF ManageIInv
<1>1. /\ mPlace = "confirm" /\ warned' \in BOOLEAN
      /\ card' = card /\ root' = root /\ zip' = zip /\ dirname' = dirname /\ bytes' = bytes /\ shown' = shown
      /\ uf' = uf /\ pf' = pf /\ written' = written /\ stack' = stack /\ success' = success
      /\ \/ mPlace' \in {"frame", "failed"} /\ wpc' = wpc /\ running' = running /\ progress' = progress
         \/ mPlace' = "poll" /\ wpc' = "open" /\ running' = TRUE /\ progress' = 0
  BY DEF Confirm, Run, manageArg
<1>2. uf = NoWalk /\ running = FALSE /\ wpc = "gone" /\ success = FALSE /\ shown = 0
  BY <1>1 DEF Order, ManageTypeOK
<1>3. zip # NoZip /\ bytes \in Nat
  <2>1. zip \in Zips /\ manage_check_zip_app(zip)
    BY <1>1 DEF Checked
  <2> QED
    BY <2>1, GoodZip DEF Good, ManageTypeOK
<1>4.ManageTypeOK'
  <2>1. zip' \in Zips \cup {NoZip} /\ {bytes', shown', progress', written'} \subseteq Nat
        /\ {warned', running', success'} \subseteq BOOLEAN
    <3>1. zip' \in Zips \cup {NoZip}
      BY <1>1 DEF ManageTypeOK
    <3>2. bytes' \in Nat /\ shown' \in Nat /\ progress' \in Nat /\ written' \in Nat
      BY <1>1 DEF ManageTypeOK
    <3>3. warned \in BOOLEAN /\ running \in BOOLEAN /\ success \in BOOLEAN
      BY DEF ManageTypeOK
    <3>4. warned' \in BOOLEAN /\ running' \in BOOLEAN /\ success' \in BOOLEAN
      BY <1>1, <3>3
    <3> QED
      BY <3>1, <3>2, <3>4
  <2>2. uf' \in [num_file : 0..Len(zip'.files), ok : BOOLEAN]
    BY <1>1 DEF ManageTypeOK
  <2>3. mPlace' \in {"frame", "confirm", "theme", "refused", "poll", "added", "deleted", "failed"}
        /\ wpc' \in {"gone", "open", "info", "mkdir", "create", "read", "write", "close", "closebad", "next",
                     "opendir", "readdir", "good", "fail", "stored"}
    BY <1>1 DEF ManageTypeOK
  <2>4. /\ card' \in [CardPaths' -> {"none", "dir", "old", "part", "new"}] /\ root' \subseteq {p[1] : p \in CardPaths'}
        /\ pf' \in OpenFile /\ stack' \in Seq(CardPaths')
    BY <1>1 DEF ManageTypeOK, CardPaths
  <2> QED
    BY <2>1, <2>2, <2>3, <2>4 DEF ManageTypeOK
<1>5. CardWhole'
  BY <1>1, CardKept
<1>6. Order' /\ Checked'
  BY <1>1, <1>2, <1>3 DEF Order, Checked, Extracting
<1>7. Walking' /\ Unpacked' /\ Installing' /\ Deleting'
  BY <1>1, <1>2 DEF Walking, Unpacked, Installing, Deleting, Extracting, Unpacking
<1>8. Counted'
  <2>1. CASE wpc' = "open"
    <3>1. Reached' = 0
      BY <2>1 DEF Reached, Unpacking
    <3> QED
      BY <1>1, <1>2, <1>3, <2>1, <3>1 DEF Counted
  <2>2. CASE wpc' # "open"
    BY <1>1, <1>2, <2>2 DEF Counted, Extracting
  <2> QED
    BY <2>1, <2>2
<1>9. Reported'
  BY <1>1, <1>2 DEF Reported, Successful
<1> QED
  BY <1>4, <1>5, <1>6, <1>7, <1>8, <1>9

\* An application that is listed has its directory on the card.
LEMMA DeleteAppKeeps ==
    ASSUME ManageIInv, DeleteApp
    PROVE  ManageIInv'
<1> USE DEF ManageIInv
<1>1. /\ mPlace = "frame" /\ wpc = "gone" /\ zip' = NoZip
      /\ card' = card /\ root' = root /\ bytes' = bytes /\ shown' = shown /\ warned' = warned
      /\ uf' = uf /\ pf' = pf /\ written' = written /\ stack' = stack /\ success' = success
      /\ \/ mPlace' = "failed" /\ wpc' = wpc /\ running' = running /\ progress' = progress
         \/ mPlace' = "poll" /\ wpc' = "opendir" /\ running' = TRUE /\ progress' = 0
  BY DEF DeleteApp, Run, manageArg
<1>2. <<dirname'>> \in CardPaths
  <2>1. PICK p \in CardPaths : Len(p) = 1 /\ dirname' = p[1]
    BY DEF DeleteApp
  <2>2. p = <<p[1]>>
    BY <2>1 DEF CardWhole
  <2> QED
    BY <2>1, <2>2
<1>3. uf = NoWalk /\ running = FALSE /\ success = FALSE /\ shown = 0
  BY <1>1 DEF Order, ManageTypeOK
<1>4. uf' \in [num_file : 0..Len(zip'.files), ok : BOOLEAN]
  BY <1>1, <1>3 DEF NoWalk, NoZip
<1>5.ManageTypeOK'
  <2>1. zip' \in Zips \cup {NoZip} /\ {bytes', shown', progress', written'} \subseteq Nat
        /\ {warned', running', success'} \subseteq BOOLEAN
    <3>1. zip' \in Zips \cup {NoZip}
      BY <1>1 DEF ManageTypeOK
    <3>2. bytes' \in Nat /\ shown' \in Nat /\ progress' \in Nat /\ written' \in Nat
      BY <1>1 DEF ManageTypeOK
    <3>3. warned \in BOOLEAN /\ running \in BOOLEAN /\ success \in BOOLEAN
      BY DEF ManageTypeOK
    <3>4. warned' \in BOOLEAN /\ running' \in BOOLEAN /\ success' \in BOOLEAN
      BY <1>1, <3>3
    <3> QED
      BY <3>1, <3>2, <3>4
  <2>2. uf' \in [num_file : 0..Len(zip'.files), ok : BOOLEAN]
    BY <1>1, <1>4 DEF ManageTypeOK
  <2>3. mPlace' \in {"frame", "confirm", "theme", "refused", "poll", "added", "deleted", "failed"}
        /\ wpc' \in {"gone", "open", "info", "mkdir", "create", "read", "write", "close", "closebad", "next",
                     "opendir", "readdir", "good", "fail", "stored"}
    BY <1>1 DEF ManageTypeOK
  <2>4. /\ card' \in [CardPaths' -> {"none", "dir", "old", "part", "new"}] /\ root' \subseteq {p[1] : p \in CardPaths'}
        /\ pf' \in OpenFile /\ stack' \in Seq(CardPaths')
    BY <1>1 DEF ManageTypeOK, CardPaths
  <2> QED
    BY <2>1, <2>2, <2>3, <2>4 DEF ManageTypeOK
<1>6. CardWhole'
  BY <1>1, CardKept
<1>7. Order' /\ Checked'
  BY <1>1, <1>3 DEF Order, Checked, Extracting
<1>8. Walking' /\ Unpacked' /\ Counted' /\ Installing'
  BY <1>1 DEF Walking, Unpacked, Counted, Installing, Extracting, Unpacking
<1>9. Deleting'
  BY <1>1, <1>2 DEF Deleting, CardPaths
<1>10. Reported'
  BY <1>1, <1>3 DEF Reported, Successful
<1> QED
  BY <1>5, <1>6, <1>7, <1>8, <1>9, <1>10

\* A frame of the progress dialog.
LEMMA PollKeeps ==
    ASSUME ManageIInv, Poll
    PROVE  ManageIInv'
<1> USE DEF ManageIInv
<1>1. /\ mPlace = "poll" /\ mPlace' = mPlace /\ shown' = progress
      /\ card' = card /\ root' = root /\ zip' = zip /\ dirname' = dirname /\ bytes' = bytes /\ warned' = warned
      /\ wpc' = wpc /\ uf' = uf /\ pf' = pf /\ written' = written /\ stack' = stack
      /\ running' = running /\ success' = success /\ progress' = progress
  BY DEF Poll, worker, manageArg
<1>2. ManageTypeOK'
  BY <1>1 DEF ManageTypeOK, CardPaths
<1>3. CardWhole'
  BY <1>1, CardKept
<1>4. Order' /\ Checked'
  BY <1>1 DEF Order, Checked
<1>5. Cur' = Cur /\ Nth' = Nth /\ Reached' = Reached
  BY <1>1 DEF Cur, Nth, Reached
<1>6. Walking' /\ Unpacked'
  BY <1>1, <1>5 DEF Walking, Unpacked
<1>7. Installing'
  BY <1>1, <1>5 DEF Installing, Done
<1>8. Counted'
  BY <1>1, <1>5 DEF Counted, ManageTypeOK
<1>9. Reported' /\ Deleting'
  BY <1>1 DEF Reported, Successful, Done, Deleting, CardPaths
<1> QED
  BY <1>2, <1>3, <1>4, <1>6, <1>7, <1>8, <1>9

\* main takes the worker's result.
LEMMA FinishKeeps ==
    ASSUME ManageIInv, Finish
    PROVE  ManageIInv'
<1> USE DEF ManageIInv
<1>1. /\ mPlace = "poll" /\ ~running
      /\ mPlace' = IF ~success THEN "failed" ELSE IF zip = NoZip THEN "deleted" ELSE "added"
      /\ card' = card /\ root' = root /\ zip' = zip /\ dirname' = dirname /\ bytes' = bytes
      /\ shown' = shown /\ warned' = warned
      /\ wpc' = wpc /\ uf' = uf /\ pf' = pf /\ written' = written /\ stack' = stack
      /\ running' = running /\ success' = success /\ progress' = progress
  BY DEF Finish, worker, manageArg
<1>2. wpc = "gone"
  BY <1>1 DEF Order
<1>3. ManageTypeOK'
  BY <1>1 DEF ManageTypeOK, CardPaths
<1>4. CardWhole'
  BY <1>1, CardKept
<1>5. Order' /\ Checked'
  BY <1>1, <1>2 DEF Order, Checked, ManageTypeOK
<1>6. Walking' /\ Unpacked' /\ Counted' /\ Installing' /\ Deleting'
  BY <1>1, <1>2 DEF Walking, Unpacked, Counted, Installing, Deleting, Extracting, Unpacking
<1>7. Reported'
  BY <1>1 DEF Reported, Successful, Done, CardPaths
<1> QED
  BY <1>3, <1>4, <1>5, <1>6, <1>7
---------------------------------------------------------------------------
(* The steps of the worker.                                                *)

Places ==
    {"gone", "open", "info", "mkdir", "create", "read", "write", "close", "closebad", "next",
     "opendir", "readdir", "good", "fail", "stored"}

\* The types after a step of the worker, from what it changes.
LEMMA TypeKept ==
    ASSUME ManageIInv, UNCHANGED <<root, manageMain>>,
           card' \in [CardPaths -> {"none", "dir", "old", "part", "new"}],
           wpc' \in Places, uf' \in [num_file : 0..Len(zip.files), ok : BOOLEAN], pf' \in OpenFile,
           written' \in Nat, progress' \in Nat, running' \in BOOLEAN, success' \in BOOLEAN,
           stack' \in Seq(CardPaths)
    PROVE  ManageTypeOK' /\ CardPaths' = CardPaths
<1>1. CardPaths' = CardPaths
  BY DEF CardPaths
<1>2. zip' \in Zips \cup {NoZip} /\ bytes' \in Nat /\ shown' \in Nat /\ mPlace' = mPlace
      /\ uf' \in [num_file : 0..Len(zip'.files), ok : BOOLEAN]
  BY DEF manageMain, ManageIInv, ManageTypeOK
<1>3. warned' \in BOOLEAN
  BY DEF manageMain, ManageIInv, ManageTypeOK
<1>4. mPlace' \in {"frame", "confirm", "theme", "refused", "poll", "added", "deleted", "failed"}
  BY <1>2 DEF ManageIInv, ManageTypeOK
<1>5. card' \in [CardPaths' -> {"none", "dir", "old", "part", "new"}] /\ root' \subseteq {p[1] : p \in CardPaths'}
  BY <1>1 DEF ManageIInv, ManageTypeOK
<1>6. stack' \in Seq(CardPaths')
  BY <1>1
<1> HIDE DEF CardPaths
<1>7. {bytes', shown', progress', written'} \subseteq Nat /\ {warned', running', success'} \subseteq BOOLEAN
  BY <1>2, <1>3
<1> QED
  BY <1>1, <1>2, <1>4, <1>5, <1>6, <1>7 DEF ManageTypeOK, Places

\* The card after a step of the worker.
LEMMA CardStep ==
    ASSUME ManageIInv, card' \in [CardPaths -> {"none", "dir", "old", "part", "new"}], Tree(card')
    PROVE  CardWhole'
<1>1. CardPaths' = CardPaths
  BY DEF CardPaths
<1> QED
  BY <1>1 DEF ManageIInv, CardWhole

\* A step of manage_extract_zip that fails or goes on.
LEMMA Goes ==
    ASSUME ManageIInv, wpc \in Extracting, wpc' \in Extracting \cup {"fail", "good"},
           UNCHANGED <<root, manageMain, running, success, stack>>
    PROVE  Order' /\ Checked' /\ Deleting' /\ (wpc' # "good" => Reported')
<1> USE DEF manageMain
<1>1. Order'
  BY DEF ManageIInv, ManageTypeOK, Order, Extracting
<1>2. Checked'
  BY DEF ManageIInv, Checked
<1>3. Deleting'
  BY DEF Deleting, Extracting
<1>4. wpc' # "good" => Reported'
  <2>1. success' = FALSE
    BY Here
  <2> QED
    BY <2>1 DEF Reported, Successful
<1> QED
  BY <1>1, <1>2, <1>3, <1>4

\* What the worker leaves alone in a step that ends in failure.
LEMMA GivesUp ==
    ASSUME ManageIInv, wpc \in Extracting, wpc' = "fail", UNCHANGED <<manageMain, progress>>
    PROVE  Walking' /\ Unpacked' /\ Installing' /\ Counted'
<1>1. Walking' /\ Unpacked' /\ Installing'
  BY DEF Walking, Unpacked, Installing, Extracting, Unpacking
<1>2. Counted'
  BY DEF ManageIInv, Counted, manageMain, Extracting
<1> QED
  BY <1>1, <1>2

\* The walk begins at the first record.
LEMMA WOpenKeeps ==
    ASSUME ManageIInv, WOpen
    PROVE  ManageIInv'
<1>1. /\ wpc = "open" /\ wpc \in Extracting /\ wpc' = "info" /\ wpc' \in Extracting
      /\ UNCHANGED <<card, root, manageMain, manageArg, pf, written, stack>>
      /\ uf' = [num_file |-> 0, ok |-> 0 < Len(zip.files)]
  BY DEF WOpen, Extracting, unzGoToFirstFile, Readable
<1>2. Good(zip) /\ zip \in Zips
  BY <1>1, Here
<1>3. uf' \in [num_file : 0..Len(zip.files), ok : BOOLEAN] /\ uf'.num_file = 0
  <2>1. Len(zip.files) \in Nat
    BY <1>2, ManageAssumption
  <2>2. (0 < Len(zip.files)) \in BOOLEAN
    OBVIOUS
  <2> QED
    BY <1>1, <2>1, <2>2
<1>4. ManageTypeOK'
  BY <1>1, <1>3, TypeKept DEF Places, ManageIInv, ManageTypeOK, manageArg
<1>5. CardWhole'
  BY <1>1, CardKept
<1>6. Order' /\ Checked' /\ Deleting' /\ Reported'
  BY <1>1, Goes DEF manageArg
<1>7. Nth' \in 1..zip'.number_entry
  BY <1>1, <1>2, <1>3 DEF Nth, Good, manageMain
<1>8. Walking' /\ Unpacked'
  BY <1>1, <1>7 DEF Walking, Unpacked, Unpacking
<1>9. Installing'
  <2>1. Done(uf.num_file)'
    BY <1>1, <1>2, <1>3 DEF Done, Good, manageMain
  <2> QED
    BY <1>1, <2>1 DEF Installing, Unpacking
<1>10. Counted'
  <2>1. Reached = 0
    BY <1>1 DEF Reached, Unpacking
  <2>2. Reached' = BytesTo(zip)[0]
    BY <1>1, <1>3 DEF Reached, Unpacking, manageMain
  <2>3. Reached' = Reached
    BY <1>2, <2>1, <2>2 DEF Good
  <2> QED
    BY <1>1, <2>3 DEF ManageIInv, Counted, manageMain, manageArg
<1> QED
  BY <1>4, <1>5, <1>6, <1>8, <1>9, <1>10 DEF ManageIInv

\* A directory is passed over, a file is opened.
LEMMA WInfoKeeps ==
    ASSUME ManageIInv, WInfo
    PROVE  ManageIInv'
<1>1. /\ wpc = "info" /\ wpc \in Extracting
      /\ UNCHANGED <<card, root, manageMain, manageArg, uf, written, stack>>
      /\ \/ Cur.u = 0 /\ wpc' = "next" /\ pf' = pf
         \/ Cur.u # 0 /\ wpc' = "mkdir" /\ pf' = Opened(Cur)
         \/ wpc' = "fail" /\ pf' = pf
  BY DEF WInfo, Extracting, Cur
<1>2. Good(zip) /\ zip \in Zips
  BY <1>1, Here
<1>3. wpc' \in Extracting \cup {"fail"} /\ wpc' \in Places
  BY <1>1 DEF Extracting, Places
<1>4. Nth \in 1..zip.number_entry /\ Cur = zip.files[Nth] /\ uf.num_file \in Nat /\ uf.num_file = Nth - 1
  BY <1>1 DEF ManageIInv, ManageTypeOK, Walking, Extracting, Nth, Cur, Current
<1>5. Cur.u \in Nat /\ Cur.c \in Nat
  BY <1>2, <1>4 DEF Good
<1>6. pf' \in OpenFile
  <2>1. Opened(Cur) \in OpenFile
    BY <1>5 DEF Opened, OpenFile, Closed
  <2> QED
    BY <1>1, <2>1 DEF ManageIInv, ManageTypeOK
<1>7. ManageTypeOK'
  BY <1>1, <1>3, <1>6, TypeKept DEF ManageIInv, ManageTypeOK, manageArg
<1>8. CardWhole'
  BY <1>1, CardKept
<1>9. Order' /\ Checked' /\ Deleting' /\ Reported'
  BY <1>1, <1>3, Goes DEF manageArg, Extracting
<1>10. Cur' = Cur /\ Nth' = Nth /\ zip' = zip
  BY <1>1 DEF Cur, Nth, manageMain
<1>11. CASE wpc' = "fail"
  <2>1. Walking' /\ Unpacked' /\ Installing' /\ Counted'
    BY <1>1, <1>11, GivesUp DEF manageArg
  <2> QED
    BY <1>7, <1>8, <1>9, <2>1 DEF ManageIInv
<1>12. CASE wpc' # "fail"
  <2>1. wpc' = "mkdir" => Nth \in FilesOf(zip)
    BY <1>1, <1>2, <1>4 DEF Good
  <2>2. Walking'
    BY <1>1, <1>4, <1>10, <1>12, <2>1 DEF Walking, Unpacking
  <2>3. Unpacked'
    BY <1>1, <1>10, <1>12 DEF Unpacked
  <2>4. Installing'
    <3>1. Whole(zip) => Done(uf.num_file)
      BY <1>1 DEF ManageIInv, Installing
    <3>2. ASSUME wpc' = "next", Whole(zip) PROVE Done(Nth)'
      <4>1. Nth \notin FilesOf(zip)
        BY <1>1, <1>4, <1>5, <3>2 DEF FilesOf
      <4>2. \A n \in FilesOf(zip) : n <= Nth => n <= uf.num_file
        BY <1>2, <1>4, <4>1 DEF Good
      <4> QED
        BY <1>1, <1>10, <3>1, <3>2, <4>2 DEF Done
    <3>3. wpc' = "mkdir" /\ Whole(zip) => Done(uf.num_file)'
      BY <1>1, <1>10, <3>1 DEF Done
    <3> QED
      BY <1>1, <1>10, <3>2, <3>3 DEF Installing, Unpacking
  <2>5. Counted'
    <3>1. Reached = BytesTo(zip)[uf.num_file]
      BY <1>1 DEF Reached, Unpacking
    <3>2. wpc' = "next" => Reached' = BytesTo(zip)[Nth]
      BY <1>10 DEF Reached, Unpacking
    <3>3. wpc' = "mkdir" => Reached' = BytesTo(zip)[uf.num_file]
      BY <1>1, <1>10 DEF Reached, Unpacking
    <3>4. wpc' = "next" => BytesTo(zip)[Nth] = BytesTo(zip)[uf.num_file]
      BY <1>1, <1>2, <1>4 DEF Good
    <3>5. Reached' = Reached
      BY <1>1, <1>12, <3>1, <3>2, <3>3, <3>4
    <3> QED
      BY <1>1, <3>5 DEF ManageIInv, Counted, manageMain, manageArg
  <2> QED
    BY <1>7, <1>8, <1>9, <2>2, <2>3, <2>4, <2>5 DEF ManageIInv
<1> QED
  BY <1>11, <1>12
\* The directories that one call of mkdir_hier makes.
Makes(made) ==
    /\ made \subseteq Prefixes(Path(Cur)) /\ \A d \in made : card[d] = "none"
    /\ \A d \in made, e \in Prefixes(Path(Cur)) : Len(e) < Len(d) => e \in made \/ card[e] = "dir"
    /\ card' = [d \in CardPaths |-> IF d \in made THEN "dir" ELSE card[d]]
    /\ \/ wpc' = "create" /\ \A d \in Prefixes(Path(Cur)) : card'[d] = "dir"
       \/ wpc' = "fail"

\* What WMkdir does, without the names of its LET.
LEMMA MkdirMakes ==
    ASSUME WMkdir
    PROVE  \E made : Makes(made)
<1> DEFINE dirs == Prefixes(Path(Cur))
           stuck == {d \in dirs : card[d] \notin {"dir", "none"}}
<1>1. PICK made \in SUBSET {d \in dirs : card[d] = "none"} :
         /\ \A d \in made, e \in dirs : Len(e) < Len(d) => e \in made \/ card[e] = "dir"
         /\ card' = [d \in CardPaths |-> IF d \in made THEN "dir" ELSE card[d]]
         /\ \/ wpc' = "create" /\ stuck = {} /\ \A d \in dirs : card'[d] = "dir"
            \/ wpc' = "fail"
  BY DEF WMkdir, Cur
<1>2. made \subseteq dirs /\ \A d \in made : card[d] = "none"
  BY <1>1
<1>3. Makes(made)
  BY <1>1, <1>2 DEF Makes
<1> QED
  BY <1>3

\* mkdir_hier, whole or half way.
LEMMA WMkdirKeeps ==
    ASSUME ManageIInv, WMkdir
    PROVE  ManageIInv'
<1>1. /\ wpc = "mkdir" /\ wpc \in Extracting
      /\ UNCHANGED <<root, manageMain, manageArg, uf, pf, written, stack>>
  BY DEF WMkdir, Extracting
<1>2. PICK made : Makes(made)
  BY MkdirMakes
<1>3. wpc' \in {"create", "fail"} /\ wpc' \in Extracting \cup {"fail"} /\ wpc' \in Places
  BY <1>2 DEF Makes, Extracting, Places
<1>4. /\ Nth \in FilesOf(zip) /\ Nth \in 1..zip.number_entry /\ Path(Cur) \in CardPaths
      /\ \A d \in Prefixes(Path(Cur)) : d \in CardPaths
  BY <1>1, HereFile
<1>5. CardPaths \subseteq Paths /\ Tree(card) /\ card \in [CardPaths -> {"none", "dir", "old", "part", "new"}]
  BY DEF ManageIInv, CardWhole, Paths
<1>6. card' \in [CardPaths -> {"none", "dir", "old", "part", "new"}]
      /\ \A p \in CardPaths : card[p] \in {"old", "part", "new", "dir"} => card'[p] = card[p]
  BY <1>2, <1>5 DEF Makes
<1>7. Tree(card')
  BY <1>2, <1>4, <1>5, TreeMkdir DEF Makes, CardPaths
<1>8. ManageTypeOK'
  BY <1>1, <1>3, <1>6, TypeKept DEF ManageIInv, ManageTypeOK, manageArg
<1>9. CardWhole'
  BY <1>6, <1>7, CardStep
<1>10. Order' /\ Checked' /\ Deleting' /\ Reported'
  BY <1>1, <1>3, Goes DEF manageArg, Extracting
<1>11. Cur' = Cur /\ Nth' = Nth /\ zip' = zip
  BY <1>1 DEF Cur, Nth, manageMain
<1>12. CASE wpc' = "fail"
  <2>1. Walking' /\ Unpacked' /\ Installing' /\ Counted'
    BY <1>1, <1>12, GivesUp DEF manageArg
  <2> QED
    BY <1>8, <1>9, <1>10, <2>1 DEF ManageIInv
<1>13. CASE wpc' = "create"
  <2>1. Walking'
    <3>1. \A d \in Prefixes(Path(Cur)) : card'[d] = "dir"
      BY <1>2, <1>13 DEF Makes
    <3> HIDE DEF Cur, Nth
    <3> QED
      BY <1>4, <1>11, <1>13, <3>1 DEF Walking, Unpacking
  <2>2. Unpacked'
    BY <1>1, <1>11, <1>13 DEF ManageIInv, Unpacked
  <2>3. Installing'
    <3>1. Whole(zip) => Done(uf.num_file)
      BY <1>1 DEF ManageIInv, Installing
    <3>2. \A n \in FilesOf(zip) : Path(zip.files[n]) \in CardPaths
      BY <1>1, Here DEF ManageIInv, CardWhole
    <3>3. Whole(zip) => Done(uf.num_file)'
      BY <1>1, <1>6, <1>11, <3>1, <3>2 DEF Done
    <3> QED
      BY <1>11, <1>13, <3>3 DEF Installing, Unpacking
  <2>4. Counted'
    <3>1. Reached = BytesTo(zip)[uf.num_file]
      BY <1>1 DEF Reached, Unpacking
    <3>2. Reached' = BytesTo(zip)[uf.num_file]
      BY <1>1, <1>11, <1>13 DEF Reached, Unpacking
    <3> QED
      BY <1>1, <3>1, <3>2 DEF ManageIInv, Counted, manageMain, manageArg
  <2> QED
    BY <1>8, <1>9, <1>10, <2>1, <2>2, <2>3, <2>4 DEF ManageIInv
<1> QED
  BY <1>3, <1>12, <1>13

\* A call of unzReadCurrentFile begins.
LEMMA Called ==
    ASSUME NEW e, e.u \in Nat, NEW w \in Nat, NEW q, Reads(e, q, w)
    PROVE  /\ Reads(e, ReadCall(q, OutBuf), q.out)
           /\ ReadCall(q, OutBuf).want = 0 => ReadCall(q, OutBuf).ru = 0
           /\ ReadCall(q, OutBuf).iRead = 0
<1> DEFINE f == ReadCall(q, OutBuf)
           n == Least(OutBuf, q.ru)
<1>1. q \in OpenFile /\ OutBuf \in Nat \ {0}
  BY ManageAssumption DEF Reads
<1>2. n \in Nat /\ n <= q.ru /\ (n = 0 => q.ru = 0)
  BY <1>1 DEF Least, OpenFile
<1> HIDE DEF n
<1>3. f = [q EXCEPT !.want = n, !.iRead = 0]
  BY DEF ReadCall, n
<1>4. /\ f \in OpenFile /\ f.want = n /\ f.iRead = 0 /\ f.rc = q.rc /\ f.ru = q.ru /\ f.ai = q.ai /\ f.fed = q.fed
      /\ f.out = q.out
  <2> HIDE DEF f
  <2>1. f \in OpenFile
    BY <1>1, <1>2, <1>3 DEF OpenFile
  <2>2. f.want = n /\ f.iRead = 0 /\ f.rc = q.rc /\ f.ru = q.ru
    BY <1>1, <1>3 DEF OpenFile
  <2>3. f.ai = q.ai /\ f.fed = q.fed /\ f.out = q.out
    BY <1>1, <1>3 DEF OpenFile
  <2> QED
    BY <2>1, <2>2, <2>3
<1> HIDE DEF f
<1>5. q.out = q.out + f.iRead
  BY <1>1, <1>4 DEF OpenFile
<1>6. Reads(e, f, q.out)
  BY <1>2, <1>4, <1>5 DEF Reads
<1> QED
  BY <1>2, <1>4, <1>6 DEF f

\* The file is created, and nothing of it is written.
LEMMA WCreateKeeps ==
    ASSUME ManageIInv, WCreate
    PROVE  ManageIInv'
<1>1. /\ wpc = "create" /\ wpc \in Extracting
      /\ UNCHANGED <<root, manageMain, manageArg, uf, stack>>
      /\ \/ /\ card[Path(Cur)] # "dir" /\ card' = [card EXCEPT ![Path(Cur)] = "part"]
            /\ written' = 0 /\ pf' = ReadCall(pf, OutBuf) /\ wpc' = "read"
         \/ wpc' = "fail" /\ UNCHANGED <<card, written, pf>>
  BY DEF WCreate, Extracting, Cur
<1>2. wpc' \in {"read", "fail"} /\ wpc' \in Extracting \cup {"fail"} /\ wpc' \in Places
  BY <1>1 DEF Extracting, Places
<1>3. /\ Nth \in FilesOf(zip) /\ Nth \in 1..zip.number_entry /\ Path(Cur) \in CardPaths /\ Entry(Cur) /\ Cur.u \in Nat
      /\ \A d \in Prefixes(Path(Cur)) : d \in CardPaths /\ d # Path(Cur)
  BY <1>1, HereFile
<1>4. Order' /\ Checked' /\ Deleting' /\ Reported'
  BY <1>1, <1>2, Goes DEF manageArg, Extracting
<1>5. Cur' = Cur /\ Nth' = Nth /\ zip' = zip
  BY <1>1 DEF Cur, Nth, manageMain
<1>6. CASE wpc' = "fail"
  <2>1. Walking' /\ Unpacked' /\ Installing' /\ Counted'
    BY <1>1, <1>6, GivesUp DEF manageArg
  <2>2. UNCHANGED <<card, written, pf>>
    BY <1>1, <1>6
  <2>3. ManageTypeOK'
    BY <1>1, <1>2, <2>2, TypeKept DEF ManageIInv, ManageTypeOK, manageArg
  <2>4. CardWhole'
    BY <2>2, CardKept
  <2> QED
    BY <1>4, <2>1, <2>3, <2>4 DEF ManageIInv
<1>7. CASE wpc' = "read"
  <2> HIDE DEF Cur, Nth
  <2>1. card[Path(Cur)] # "dir" /\ card' = [card EXCEPT ![Path(Cur)] = "part"]
        /\ written' = 0 /\ pf' = ReadCall(pf, OutBuf)
    BY <1>1, <1>7
  <2>2. CardPaths \subseteq Paths /\ Tree(card) /\ card \in [CardPaths -> {"none", "dir", "old", "part", "new"}]
    BY DEF ManageIInv, CardWhole, Paths
  <2>3. /\ card' \in [CardPaths -> {"none", "dir", "old", "part", "new"}] /\ card'[Path(Cur)] = "part"
        /\ \A p \in CardPaths : p # Path(Cur) => card'[p] = card[p]
    BY <1>3, <2>1, <2>2
  <2>4. \A d \in Prefixes(Path(Cur)) : card[d] = "dir"
    BY <1>1 DEF ManageIInv, Walking
  <2>5. Tree(card')
    BY <1>3, <2>1, <2>2, <2>4, TreeFile DEF CardPaths
  <2>6. CardWhole'
    BY <2>3, <2>5, CardStep
  <2>7. Reads(Cur, pf', 0) /\ pf'.iRead = 0 /\ (pf'.want = 0 => pf'.ru = 0)
    <3>1. pf = Opened(Cur)
      BY <1>1 DEF ManageIInv, Unpacked
    <3>2. Cur.c \in Nat /\ (Cur.real # Bad => Cur.real \in Nat)
      BY <1>3 DEF Entry
    <3>3. pf = [rc |-> Cur.c, ru |-> Cur.u, ai |-> 0, fed |-> 0, out |-> 0, want |-> 0, iRead |-> 0]
      BY <3>1 DEF Opened, Closed
    <3>4. Reads(Cur, pf, 0) /\ pf.out = 0
      BY <1>3, <3>2, <3>3 DEF Reads, OpenFile
    <3> QED
      BY <1>3, <2>1, <3>4, Called
  <2>8. ManageTypeOK'
    <3>1. pf' \in OpenFile
      BY <2>7 DEF Reads
    <3> QED
      BY <1>1, <1>2, <2>1, <2>3, <3>1, TypeKept DEF ManageIInv, ManageTypeOK, manageArg
  <2>9. Walking'
    <3>1. \A d \in Prefixes(Path(Cur)) : card'[d] = "dir"
      BY <1>3, <2>3, <2>4
    <3> QED
      BY <1>3, <1>5, <1>7, <2>3, <3>1 DEF Walking, Unpacking
  <2>10. Unpacked'
    BY <1>5, <1>7, <2>1, <2>7 DEF Unpacked
  <2>11. Installing'
    <3>1. Whole(zip) => Done(uf.num_file)
      BY <1>1 DEF ManageIInv, Installing
    <3>2. \A n \in FilesOf(zip) : Path(zip.files[n]) \in CardPaths
      BY <1>1, Here DEF ManageIInv, CardWhole
    <3> QED
      BY <1>1, <1>5, <1>7, <2>3, <3>1, <3>2 DEF Installing, Unpacking, Done
  <2>12. Counted'
    <3>1. Reached = BytesTo(zip)[uf.num_file]
      BY <1>1 DEF Reached, Unpacking
    <3>2. Reached' = BytesTo(zip)[uf.num_file] + 0
      BY <1>1, <1>5, <1>7, <2>1 DEF Reached, Unpacking
    <3>3. BytesTo(zip)[uf.num_file] \in Nat
      <4>1. uf.num_file = Nth - 1
        BY <1>1, HereFile DEF Nth
      <4> QED
        BY <1>1, <1>3, <4>1, Here DEF Good
    <3>4. Reached' = Reached
      BY <3>1, <3>2, <3>3
    <3> QED
      BY <1>1, <3>4 DEF ManageIInv, Counted, manageMain, manageArg
  <2> QED
    BY <1>4, <2>6, <2>8, <2>9, <2>10, <2>11, <2>12 DEF ManageIInv
<1> QED
  BY <1>2, <1>6, <1>7
\* A round of the read.
LEMMA WReadKeeps ==
    ASSUME ManageIInv, WRead
    PROVE  ManageIInv'
<1>1. /\ wpc = "read" /\ wpc \in Extracting /\ pf.want > 0
      /\ UNCHANGED <<card, root, manageMain, manageArg, uf, written, stack>>
  BY DEF WRead, Extracting
<1>2. PICK r \in ReadRound(Cur, pf) :
         /\ pf' = r[1]
         /\ wpc' = IF r[2] = More THEN "read"
                   ELSE IF r[2] = Bad THEN "closebad" ELSE IF r[2] = 0 THEN "close" ELSE "write"
  BY DEF WRead, Cur
<1>3. /\ Nth \in FilesOf(zip) /\ Nth \in 1..zip.number_entry /\ Path(Cur) \in CardPaths /\ Entry(Cur) /\ Cur.u \in Nat
      /\ Cur = zip.files[Nth]
  BY <1>1, HereFile DEF Unpacking
<1>4. Reads(Cur, pf, written) /\ written \in Nat
  BY <1>1 DEF ManageIInv, ManageTypeOK, Unpacked
<1>5. /\ Reads(Cur, pf', written) /\ (r[2] = More => pf'.want # 0)
      /\ r[2] = 0 /\ Cur.real = Cur.u => written = Cur.u
  <2> HIDE DEF Cur
  <2> QED
    BY <1>1, <1>2, <1>3, <1>4, Round
<1>6. wpc' \in {"read", "write", "close", "closebad"} /\ wpc' \in Unpacking /\ wpc' \in Extracting /\ wpc' \in Places
  BY <1>2 DEF Extracting, Places, Unpacking
<1>7. written <= Cur.u
  <2>1. pf' \in OpenFile
    BY <1>5 DEF Reads
  <2> HIDE DEF Cur
  <2> QED
    BY <1>3, <1>4, <1>5, <2>1 DEF Reads, OpenFile
<1>8. ManageTypeOK'
  <2>1. pf' \in OpenFile
    BY <1>5 DEF Reads
  <2> QED
    BY <1>1, <1>6, <2>1, TypeKept DEF ManageIInv, ManageTypeOK, manageArg
<1>9. CardWhole'
  BY <1>1, CardKept
<1>10. Order' /\ Checked' /\ Deleting' /\ Reported'
  BY <1>1, <1>6, Goes DEF manageArg, Extracting
<1>11. Cur' = Cur /\ Nth' = Nth /\ zip' = zip
  BY <1>1 DEF Cur, Nth, manageMain
<1> HIDE DEF Cur, Nth
<1>12. Walking'
  BY <1>1, <1>3, <1>6, <1>11 DEF ManageIInv, Walking, Unpacking, Extracting
<1>13. Unpacked'
  <2>1. wpc' = "read" => pf'.want # 0
    BY <1>2, <1>5
  <2>2. wpc' = "close" /\ Whole(zip) => written = Cur.u
    <3>1. wpc' = "close" => r[2] = 0
      BY <1>2
    <3>2. Whole(zip) => Cur.real = Cur.u
      BY <1>3 DEF Whole
    <3> QED
      BY <1>5, <3>1, <3>2
  <2> QED
    BY <1>1, <1>5, <1>6, <1>7, <1>11, <2>1, <2>2 DEF Unpacked
<1>14. Installing'
  BY <1>1, <1>6, <1>11 DEF ManageIInv, Installing, Unpacking, Extracting
<1>15. Counted'
  <2>1. Reached = BytesTo(zip)[uf.num_file] + written
    BY <1>1 DEF Reached, Unpacking
  <2>2. Reached' = BytesTo(zip)[uf.num_file] + written
    BY <1>1, <1>6, <1>11 DEF Reached, Unpacking
  <2> QED
    BY <1>1, <2>1, <2>2 DEF ManageIInv, Counted, manageMain, manageArg
<1> QED
  BY <1>8, <1>9, <1>10, <1>12, <1>13, <1>14, <1>15 DEF ManageIInv

\* All of the file is read.
LEMMA WReadEndKeeps ==
    ASSUME ManageIInv, WReadEnd
    PROVE  ManageIInv'
<1>1. /\ wpc = "read" /\ wpc \in Extracting /\ pf.want = 0 /\ wpc' = "close" /\ wpc' \in Extracting /\ wpc' \in Places
      /\ UNCHANGED <<card, root, manageMain, manageArg, uf, pf, written, stack>>
  BY DEF WReadEnd, Extracting, Places
<1>2. Nth \in FilesOf(zip) /\ Nth \in 1..zip.number_entry /\ Cur.u \in Nat
  BY <1>1, HereFile DEF Unpacking
<1>3. Reads(Cur, pf, written) /\ written \in Nat /\ pf.ru = 0 /\ pf.iRead = 0
  BY <1>1 DEF ManageIInv, ManageTypeOK, Unpacked
<1>4. written = Cur.u
  <2> HIDE DEF Cur
  <2> QED
    BY <1>2, <1>3 DEF Reads, OpenFile
<1>5. ManageTypeOK'
  BY <1>1, TypeKept DEF ManageIInv, ManageTypeOK, manageArg
<1>6. CardWhole'
  BY <1>1, CardKept
<1>7. Order' /\ Checked' /\ Deleting' /\ Reported'
  BY <1>1, Goes DEF manageArg, Extracting
<1>8. Cur' = Cur /\ Nth' = Nth /\ zip' = zip
  BY <1>1 DEF Cur, Nth, manageMain
<1> HIDE DEF Cur, Nth
<1>9. Walking'
  BY <1>1, <1>2, <1>8 DEF ManageIInv, Walking, Unpacking, Extracting
<1>10. Unpacked'
  BY <1>1, <1>2, <1>4, <1>8 DEF Unpacked
<1>11. Installing'
  BY <1>1, <1>8 DEF ManageIInv, Installing, Unpacking, Extracting
<1>12. Counted'
  <2>1. Reached = BytesTo(zip)[uf.num_file] + written
    BY <1>1 DEF Reached, Unpacking
  <2>2. Reached' = BytesTo(zip)[uf.num_file] + written
    BY <1>1, <1>8 DEF Reached, Unpacking
  <2> QED
    BY <1>1, <2>1, <2>2 DEF ManageIInv, Counted, manageMain, manageArg
<1> QED
  BY <1>5, <1>6, <1>7, <1>9, <1>10, <1>11, <1>12 DEF ManageIInv

\* What was read is written and counted.
LEMMA WWriteKeeps ==
    ASSUME ManageIInv, WWrite
    PROVE  ManageIInv'
<1>1. /\ wpc = "write" /\ wpc \in Extracting
      /\ UNCHANGED <<card, root, manageMain, running, success, uf, stack>>
      /\ \/ /\ written' = written + pf.iRead /\ progress' = progress + pf.iRead
            /\ pf' = ReadCall(pf, OutBuf) /\ wpc' = "read"
         \/ wpc' = "closebad" /\ UNCHANGED <<written, progress, pf>>
  BY DEF WWrite, Extracting
<1>2. wpc' \in {"read", "closebad"} /\ wpc' \in Unpacking /\ wpc' \in Extracting /\ wpc' \in Places
  BY <1>1 DEF Extracting, Places, Unpacking
<1>3. /\ Nth \in FilesOf(zip) /\ Nth \in 1..zip.number_entry /\ Cur.u \in Nat /\ Cur = zip.files[Nth]
      /\ uf.num_file = Nth - 1
  BY <1>1, HereFile DEF Unpacking, Nth
<1>4. /\ Reads(Cur, pf, written) /\ written \in Nat /\ progress \in Nat /\ pf \in OpenFile
      /\ pf.out = written + pf.iRead /\ pf.out + pf.ru = Cur.u
  BY <1>1 DEF ManageIInv, ManageTypeOK, Unpacked, Reads
<1>5. pf.iRead \in Nat /\ pf.ru \in Nat /\ pf.out \in Nat
  BY <1>4 DEF OpenFile
<1>6. written <= Cur.u /\ written + pf.iRead <= Cur.u /\ written + pf.iRead = pf.out
  <2> HIDE DEF Cur
  <2> QED
    BY <1>3, <1>4, <1>5
<1>7. Order' /\ Checked' /\ Deleting' /\ Reported'
  BY <1>1, <1>2, Goes DEF Extracting
<1>8. Cur' = Cur /\ Nth' = Nth /\ zip' = zip /\ bytes' = bytes /\ shown' = shown /\ mPlace' = mPlace
  BY <1>1 DEF Cur, Nth, manageMain
<1> HIDE DEF Cur, Nth
<1>9. CardWhole'
  BY <1>1, CardKept
<1>10. Walking'
  BY <1>1, <1>2, <1>3, <1>8 DEF ManageIInv, Walking, Unpacking, Extracting
<1>11. Installing'
  BY <1>1, <1>2, <1>8 DEF ManageIInv, Installing, Unpacking, Extracting
<1>12. Reached = BytesTo(zip)[uf.num_file] + written
  BY <1>1 DEF Reached, Unpacking
<1>13. Reached' = BytesTo(zip)[uf.num_file] + written'
  BY <1>1, <1>2, <1>8 DEF Reached, Unpacking
<1>14. CASE wpc' = "closebad"
  <2>1. UNCHANGED <<written, progress, pf>>
    BY <1>1, <1>14
  <2>2. ManageTypeOK'
    BY <1>1, <1>2, <2>1, TypeKept DEF ManageIInv, ManageTypeOK
  <2>3. Unpacked'
    BY <1>6, <1>8, <1>14, <2>1 DEF Unpacked
  <2>4. Counted'
    BY <1>1, <1>8, <1>12, <1>13, <2>1 DEF ManageIInv, Counted
  <2> QED
    BY <1>7, <1>9, <1>10, <1>11, <2>2, <2>3, <2>4 DEF ManageIInv
<1>15. CASE wpc' = "read"
  <2>1. written' = pf.out /\ progress' = progress + pf.iRead /\ pf' = ReadCall(pf, OutBuf)
    BY <1>1, <1>6, <1>15
  <2>2. Reads(Cur, pf', written') /\ pf'.iRead = 0 /\ (pf'.want = 0 => pf'.ru = 0)
    BY <1>3, <1>4, <2>1, Called
  <2>3. pf' \in OpenFile /\ written' \in Nat /\ progress' \in Nat
    BY <1>4, <1>5, <2>1, <2>2 DEF Reads
  <2>4. ManageTypeOK'
    BY <1>1, <1>2, <2>3, TypeKept DEF ManageIInv, ManageTypeOK
  <2>5. Unpacked'
    BY <1>8, <1>15, <2>2 DEF Unpacked
  <2>6. Counted'
    <3>1. /\ BytesTo(zip)[uf.num_file] \in Nat /\ BytesTo(zip)[Nth] \in Nat /\ bytes \in Nat
          /\ BytesTo(zip)[Nth] = BytesTo(zip)[uf.num_file] + Cur.u /\ BytesTo(zip)[Nth] <= bytes
      BY <1>1, <1>3, Here DEF Good
    <3>2. /\ progress <= Reached /\ (Whole(zip) => progress = Reached)
          /\ mPlace = "poll" /\ zip # NoZip => shown <= progress
      BY <1>1 DEF ManageIInv, Counted
    <3>3. shown \in Nat
      BY DEF ManageIInv, ManageTypeOK
    <3>4. Reached \in Nat /\ Reached' = Reached + pf.iRead /\ Reached' <= bytes
      BY <1>3, <1>4, <1>5, <1>6, <1>12, <1>13, <2>1, <3>1
    <3>5. progress' <= Reached' /\ (Whole(zip) => progress' = Reached')
      BY <1>4, <1>5, <2>1, <3>2, <3>4
    <3>6. progress' <= bytes
      BY <2>3, <3>1, <3>4, <3>5, <1>5
    <3>7. mPlace = "poll" /\ zip # NoZip => shown <= progress'
      BY <1>4, <1>5, <2>1, <3>2, <3>3
    <3> QED
      BY <1>8, <3>5, <3>6, <3>7 DEF Counted
  <2> QED
    BY <1>7, <1>9, <1>10, <1>11, <2>4, <2>5, <2>6 DEF ManageIInv
<1> QED
  BY <1>2, <1>14, <1>15
\* The file is on the card, whole or not.
LEMMA WCloseKeeps ==
    ASSUME ManageIInv, WClose
    PROVE  ManageIInv'
<1> DEFINE v == IF written = Cur.u THEN "new" ELSE "part"
<1>1. /\ wpc \in {"close", "closebad"} /\ wpc \in Unpacking /\ wpc \in Extracting
      /\ UNCHANGED <<root, manageMain, manageArg, uf, written, stack>>
      /\ card' = [card EXCEPT ![Path(Cur)] = v] /\ pf' = Closed
      /\ wpc' = IF wpc = "close" THEN "next" ELSE "fail"
  BY DEF WClose, Extracting, Unpacking, Cur
<1>2. wpc' \in {"next", "fail"} /\ wpc' \in Extracting \cup {"fail"} /\ wpc' \in Places
  BY <1>1 DEF Extracting, Places
<1>3. /\ Nth \in FilesOf(zip) /\ Nth \in 1..zip.number_entry /\ Path(Cur) \in CardPaths /\ Cur.u \in Nat
      /\ Cur = zip.files[Nth] /\ uf.num_file = Nth - 1
  BY <1>1, HereFile DEF Nth
<1>4. /\ card[Path(Cur)] = "part" /\ written <= Cur.u /\ written \in Nat
      /\ wpc = "close" /\ Whole(zip) => written = Cur.u
  BY <1>1 DEF ManageIInv, ManageTypeOK, Walking, Unpacked
<1>5. Order' /\ Checked' /\ Deleting' /\ Reported'
  BY <1>1, <1>2, Goes DEF manageArg, Extracting
<1>6. Cur' = Cur /\ Nth' = Nth /\ zip' = zip
  BY <1>1 DEF Cur, Nth, manageMain
<1> HIDE DEF Cur, Nth
<1>7. CardPaths \subseteq Paths /\ Tree(card) /\ card \in [CardPaths -> {"none", "dir", "old", "part", "new"}]
  BY DEF ManageIInv, CardWhole, Paths
<1>8. v \in {"new", "part"}
  OBVIOUS
<1>9. /\ card' \in [CardPaths -> {"none", "dir", "old", "part", "new"}] /\ card'[Path(Cur)] = v
      /\ \A p \in CardPaths : p # Path(Cur) => card'[p] = card[p]
  <2> HIDE DEF v
  <2> QED
    BY <1>1, <1>3, <1>7, <1>8
<1>10. Tree(card')
  <2>1. \A d \in Prefixes(Path(Cur)) : card[d] = "dir"
    BY <1>1 DEF ManageIInv, Walking
  <2> HIDE DEF v
  <2> QED
    BY <1>1, <1>3, <1>4, <1>7, <2>1, TreeFile DEF CardPaths
<1>11. CardWhole'
  BY <1>9, <1>10, CardStep
<1>12. ManageTypeOK'
  <2>1. pf' \in OpenFile
    BY <1>1 DEF Closed, OpenFile
  <2> QED
    BY <1>1, <1>2, <1>9, <2>1, TypeKept DEF ManageIInv, ManageTypeOK, manageArg
<1>13. CASE wpc' = "fail"
  <2>1. Walking' /\ Unpacked' /\ Installing' /\ Counted'
    BY <1>1, <1>13, GivesUp DEF manageArg
  <2> QED
    BY <1>5, <1>11, <1>12, <2>1 DEF ManageIInv
<1>14. CASE wpc' = "next"
  <2>1. Walking' /\ Unpacked'
    BY <1>3, <1>6, <1>14 DEF Walking, Unpacked, Unpacking
  <2>2. Whole(zip) => written = Cur.u
    BY <1>1, <1>4, <1>14
  <2>3. Installing'
    <3>1. \A n \in FilesOf(zip) : Path(zip.files[n]) \in CardPaths
      BY <1>1, Here DEF ManageIInv, CardWhole
    <3>2. ASSUME Whole(zip), NEW n \in FilesOf(zip), n <= Nth
          PROVE  card'[Path(zip.files[n])] = "new"
      <4>1. CASE Path(zip.files[n]) = Path(Cur)
        BY <1>9, <2>2, <3>2, <4>1
      <4>2. CASE Path(zip.files[n]) # Path(Cur)
        <5>1. n # Nth
          BY <1>3, <4>2
        <5>2. n <= uf.num_file
          BY <1>3, <3>2, <5>1 DEF FilesOf
        <5>3. card[Path(zip.files[n])] = "new"
          BY <1>1, <3>2, <4>2, <5>2 DEF ManageIInv, Installing
        <5> QED
          BY <1>9, <3>1, <4>2, <5>3
      <4> QED
        BY <4>1, <4>2
    <3>3. Whole(zip) => Done(Nth)'
      BY <1>6, <3>2 DEF Done
    <3> QED
      BY <1>6, <1>14, <3>3 DEF Installing, Unpacking
  <2>4. Counted'
    <3>1. /\ BytesTo(zip)[uf.num_file] \in Nat /\ BytesTo(zip)[Nth] \in Nat
          /\ BytesTo(zip)[Nth] = BytesTo(zip)[uf.num_file] + Cur.u
      BY <1>1, <1>3, Here DEF Good
    <3>2. Reached = BytesTo(zip)[uf.num_file] + written
      BY <1>1 DEF Reached, Unpacking
    <3>3. Reached' = BytesTo(zip)[Nth]
      BY <1>6, <1>14 DEF Reached, Unpacking
    <3>4. /\ progress <= Reached /\ (Whole(zip) => progress = Reached) /\ progress \in Nat
          /\ mPlace = "poll" /\ zip # NoZip => shown <= progress /\ progress <= bytes
      BY <1>1 DEF ManageIInv, ManageTypeOK, Counted
    <3>5. progress <= Reached' /\ (Whole(zip) => progress = Reached')
      BY <1>3, <1>4, <2>2, <3>1, <3>2, <3>3, <3>4
    <3> QED
      BY <1>1, <1>6, <3>4, <3>5 DEF Counted, manageMain, manageArg
  <2> QED
    BY <1>5, <1>11, <1>12, <2>1, <2>3, <2>4 DEF ManageIInv
<1> QED
  BY <1>2, <1>13, <1>14

\* The next record, or the end with all of them on the card.
LEMMA WNextKeeps ==
    ASSUME ManageIInv, WNext
    PROVE  ManageIInv'
<1>1. /\ wpc = "next" /\ wpc \in Extracting
      /\ UNCHANGED <<card, root, manageMain, manageArg, pf, written, stack>>
      /\ uf' = unzGoToNextFile(zip, uf)
      /\ wpc' = IF Nth = zip.number_entry THEN "good" ELSE IF uf'.ok THEN "info" ELSE "fail"
  BY DEF WNext, Extracting, Nth
<1>2. wpc' \in {"good", "info", "fail"} /\ wpc' \in Extracting \cup {"fail", "good"} /\ wpc' \in Places
  BY <1>1 DEF Extracting, Places
<1>3. Good(zip) /\ zip \in Zips /\ zip # NoZip /\ bytes = Bytes(zip)
  BY <1>1, Here
<1>4. Nth \in 1..zip.number_entry /\ uf \in [num_file : 0..Len(zip.files), ok : BOOLEAN] /\ uf.num_file \in Nat
  BY <1>1 DEF ManageIInv, ManageTypeOK, Walking, Extracting
<1>5. zip.number_entry \in Nat /\ Len(zip.files) \in Nat /\ Nth \in 1..Len(zip.files)
  BY <1>3, <1>4, ManageAssumption DEF Good
<1>6. uf' \in [num_file : 0..Len(zip.files), ok : BOOLEAN]
  <2>1. CASE AtEnd(zip, uf)
    BY <1>1, <1>4, <2>1 DEF unzGoToNextFile
  <2>2. CASE ~AtEnd(zip, uf)
    <3>1. uf' = [num_file |-> uf.num_file + 1, ok |-> uf.num_file + 1 < Len(zip.files)]
      BY <1>1, <2>2 DEF unzGoToNextFile, Readable
    <3>2. uf.num_file + 1 \in 0..Len(zip.files)
      BY <1>5 DEF Nth
    <3>3. (uf.num_file + 1 < Len(zip.files)) \in BOOLEAN
      OBVIOUS
    <3> QED
      BY <3>1, <3>2, <3>3
  <2> QED
    BY <2>1, <2>2
<1>7. ASSUME wpc' = "info" PROVE uf'.num_file = Nth /\ Nth # zip.number_entry
  <2>1. Nth # zip.number_entry /\ uf'.ok
    BY <1>1, <1>7
  <2>2. ~AtEnd(zip, uf)
    BY <1>1, <2>1 DEF AtEnd, unzGoToNextFile, Nth
  <2>3. uf'.num_file = Nth
    BY <1>1, <2>2 DEF unzGoToNextFile, Nth
  <2> QED
    BY <2>1, <2>3
<1>8. ManageTypeOK'
  BY <1>1, <1>2, <1>6, TypeKept DEF ManageIInv, ManageTypeOK, manageArg
<1>9. CardWhole'
  BY <1>1, CardKept
<1>10. Order' /\ Checked' /\ Deleting' /\ (wpc' # "good" => Reported')
  BY <1>1, <1>2, Goes DEF manageArg
<1>11. zip' = zip /\ bytes' = bytes /\ progress' = progress /\ shown' = shown /\ mPlace' = mPlace
  BY <1>1 DEF manageMain, manageArg
<1>12. Reached = BytesTo(zip)[Nth]
  BY <1>1 DEF Reached, Unpacking
<1>13. /\ progress <= BytesTo(zip)[Nth] /\ (Whole(zip) => progress = BytesTo(zip)[Nth])
       /\ mPlace = "poll" /\ zip # NoZip => shown <= progress /\ progress <= bytes
  BY <1>1, <1>12 DEF ManageIInv, Counted
<1>14. Whole(zip) => Done(Nth)
  BY <1>1 DEF ManageIInv, Installing
<1>15. CASE wpc' = "fail"
  <2>1. Walking' /\ Unpacked' /\ Installing' /\ Counted'
    BY <1>1, <1>15, GivesUp DEF manageArg
  <2> QED
    BY <1>8, <1>9, <1>10, <1>15, <2>1 DEF ManageIInv
<1>16. CASE wpc' = "good"
  <2>1. Nth = zip.number_entry
    BY <1>1, <1>16
  <2>2. Walking' /\ Unpacked' /\ Installing'
    BY <1>16 DEF Walking, Unpacked, Installing, Extracting, Unpacking
  <2>3. Counted'
    BY <1>11, <1>13, <1>16 DEF Counted, Extracting
  <2>4. Reported'
    <3>1. Whole(zip) => Done(zip.number_entry) /\ progress = bytes
      BY <1>3, <1>13, <1>14, <2>1 DEF Bytes
    <3>2. Whole(zip) => Done(zip.number_entry)'
      BY <1>1, <1>11, <3>1 DEF Done
    <3> QED
      BY <1>3, <1>11, <3>1, <3>2 DEF Reported
  <2> QED
    BY <1>8, <1>9, <1>10, <2>2, <2>3, <2>4 DEF ManageIInv
<1>17. CASE wpc' = "info"
  <2>1. uf'.num_file = Nth /\ Nth' = Nth + 1 /\ Nth # zip.number_entry
    BY <1>7, <1>17 DEF Nth
  <2> HIDE DEF Nth
  <2>2. Nth + 1 \in 1..zip.number_entry
    BY <1>4, <1>5, <2>1
  <2>3. Walking' /\ Unpacked'
    BY <1>11, <1>17, <2>1, <2>2 DEF Walking, Unpacked, Unpacking
  <2>4. Installing'
    <3>1. Whole(zip) => Done(uf.num_file)'
      BY <1>1, <1>11, <1>14, <2>1 DEF Done
    <3> QED
      BY <1>11, <1>17, <3>1 DEF Installing, Unpacking
  <2>5. Counted'
    <3>1. Reached' = BytesTo(zip)[Nth]
      BY <1>11, <1>17, <2>1 DEF Reached, Unpacking
    <3> QED
      BY <1>11, <1>13, <3>1 DEF Counted
  <2> QED
    BY <1>8, <1>9, <1>10, <1>17, <2>3, <2>4, <2>5 DEF ManageIInv
<1> QED
  BY <1>2, <1>15, <1>16, <1>17

\* A step of rmdir_hier.
LEMMA Removing ==
    ASSUME ManageIInv, wpc \in {"opendir", "readdir"}, wpc' \in {"readdir", "good", "fail"},
           UNCHANGED <<root, manageMain, manageArg, uf, pf, written>>
    PROVE  /\ Order' /\ Checked' /\ Walking' /\ Unpacked' /\ Installing' /\ Counted'
           /\ wpc' # "good" => Reported'
           /\ zip = NoZip /\ <<dirname>> \in CardPaths /\ mPlace = "poll"
<1> USE DEF manageMain, manageArg
<1>1. zip = NoZip /\ mPlace = "poll" /\ success = FALSE /\ <<dirname>> \in CardPaths
  BY DEF ManageIInv, ManageTypeOK, Order, Deleting
<1>2. Order' /\ Checked'
  BY <1>1 DEF ManageIInv, Order, Checked, Extracting
<1>3. Walking' /\ Unpacked' /\ Installing' /\ Counted'
  BY <1>1 DEF Walking, Unpacked, Installing, Counted, Extracting, Unpacking
<1>4. wpc' # "good" => Reported'
  BY <1>1 DEF Reported, Successful
<1> QED
  BY <1>1, <1>2, <1>3, <1>4

\* The deletion begins at the application's directory.
LEMMA WOpendirKeeps ==
    ASSUME ManageIInv, WOpendir
    PROVE  ManageIInv'
<1>1. /\ wpc = "opendir"
      /\ UNCHANGED <<card, root, manageMain, manageArg, uf, pf, written>>
      /\ \/ stack' = <<<<dirname>>>> /\ wpc' = "readdir"
         \/ stack' = stack /\ wpc' = "fail"
  BY DEF WOpendir
<1>2. wpc' \in {"readdir", "fail"} /\ wpc' \in Places
  BY <1>1 DEF Places
<1>3. /\ Order' /\ Checked' /\ Walking' /\ Unpacked' /\ Installing' /\ Counted' /\ Reported'
      /\ <<dirname>> \in CardPaths
  BY <1>1, <1>2, Removing
<1>4. stack' \in Seq(CardPaths)
  <2>1. CASE stack' = <<<<dirname>>>>
    BY <1>3, <2>1
  <2>2. CASE stack' = stack
    BY <2>2 DEF ManageIInv, ManageTypeOK
  <2> QED
    BY <1>1, <2>1, <2>2
<1>5. ManageTypeOK' /\ CardPaths' = CardPaths
  BY <1>1, <1>2, <1>4, TypeKept DEF ManageIInv, ManageTypeOK, manageArg
<1>6. CardWhole'
  BY <1>1, CardKept
<1>7. Deleting'
  <2>1. wpc' = "readdir" => stack' = <<<<dirname>>>>
    BY <1>1
  <2>2. dirname' = dirname
    BY <1>1 DEF manageMain
  <2> QED
    BY <1>2, <1>3, <1>5, <2>1, <2>2 DEF Deleting
<1> QED
  BY <1>3, <1>5, <1>6, <1>7 DEF ManageIInv

\* What is found in a directory of the application.
LEMMA Child ==
    ASSUME ManageIInv, wpc = "readdir"
    PROVE  /\ Len(stack) \in Nat \ {0}
           /\ stack[Len(stack)] \in CardPaths /\ stack[Len(stack)][1] = dirname
           /\ \A p \in Children(stack[Len(stack)]) : p \in CardPaths /\ p[1] = dirname
<1> DEFINE d == stack[Len(stack)]
<1>1. stack \in Seq(CardPaths) /\ Len(stack) \in Nat \ {0}
  BY DEF ManageIInv, ManageTypeOK, Deleting
<1>2. d \in CardPaths /\ d[1] = dirname
  BY <1>1 DEF ManageIInv, Deleting
<1>3. ASSUME NEW p \in Children(d) PROVE p \in CardPaths /\ p[1] = dirname
  <2>1. p \in CardPaths /\ Len(p) = Len(d) + 1 /\ SubSeq(p, 1, Len(d)) = d
    BY <1>3 DEF Children
  <2> HIDE DEF d
  <2>2. p \in Seq(STRING) /\ Len(d) \in 1..(Len(p) - 1)
    BY <1>2, <2>1 DEF ManageIInv, CardWhole
  <2>3. SubSeq(p, 1, Len(d))[1] = p[1]
    BY <2>2, Above
  <2> QED
    BY <1>2, <2>1, <2>3
<1> QED
  BY <1>1, <1>2, <1>3
\* An entry of the directory goes, or the directory itself when it is empty.
LEMMA WReaddirKeeps ==
    ASSUME ManageIInv, WReaddir
    PROVE  /\ ManageIInv'
           /\ \A p \in CardPaths : card'[p] # card[p] => p[1] = dirname
<1> DEFINE d == stack[Len(stack)]
<1>1. /\ wpc = "readdir"
      /\ UNCHANGED <<root, manageMain, manageArg, uf, pf, written>>
  BY DEF WReaddir
<1>2. \/ \E p \in Children(d) : card[p] = "dir" /\ stack' = Append(stack, p) /\ card' = card /\ wpc' = "readdir"
      \/ \E p \in Children(d) : card[p] # "dir" /\ Unlink(p) /\ stack' = stack /\ wpc' = "readdir"
      \/ /\ Children(d) = {} /\ Unlink(d)
         /\ stack' = SubSeq(stack, 1, Len(stack) - 1)
         /\ wpc' = IF Len(stack) = 1 THEN "good" ELSE "readdir"
      \/ wpc' = "fail" /\ stack' = <<>> /\ card' = card
  BY DEF WReaddir
<1>3. wpc' \in {"readdir", "good", "fail"} /\ wpc' \in Places
  BY <1>2 DEF Places
<1>4. /\ Order' /\ Checked' /\ Walking' /\ Unpacked' /\ Installing' /\ Counted'
      /\ wpc' # "good" => Reported'
      /\ zip = NoZip /\ <<dirname>> \in CardPaths
  BY <1>1, <1>3, Removing
<1>5. /\ Len(stack) \in Nat \ {0} /\ d \in CardPaths /\ d[1] = dirname
      /\ \A p \in Children(d) : p \in CardPaths /\ p[1] = dirname
  BY <1>1, Child
<1>6. /\ stack \in Seq(CardPaths) /\ stack[1] = <<dirname>>
      /\ \A n \in 1..Len(stack) : stack[n][1] = dirname
  BY <1>1 DEF ManageIInv, ManageTypeOK, Deleting
<1>7. CardPaths \subseteq Paths /\ Tree(card) /\ card \in [CardPaths -> {"none", "dir", "old", "part", "new"}]
  BY DEF ManageIInv, CardWhole, Paths
<1>8. dirname' = dirname /\ zip' = zip
  BY <1>1 DEF manageMain
<1>9. SUFFICES ASSUME /\ card' \in [CardPaths -> {"none", "dir", "old", "part", "new"}] /\ Tree(card')
                      /\ stack' \in Seq(CardPaths)
                      /\ wpc' = "readdir" => /\ Len(stack') >= 1 /\ stack'[1] = <<dirname>>
                                             /\ \A n \in 1..Len(stack') : stack'[n][1] = dirname
                      /\ wpc' = "good" => card'[<<dirname>>] = "none"
                      /\ \A p \in CardPaths : card'[p] # card[p] => p[1] = dirname
               PROVE  ManageIInv'
  <2> DEFINE Card == card' \in [CardPaths -> {"none", "dir", "old", "part", "new"}] /\ Tree(card')
             Stack == stack' \in Seq(CardPaths)
             Frames == wpc' = "readdir" => /\ Len(stack') >= 1 /\ stack'[1] = <<dirname>>
                                           /\ \A n \in 1..Len(stack') : stack'[n][1] = dirname
             Gone == wpc' = "good" => card'[<<dirname>>] = "none"
             Own == \A p \in CardPaths : card'[p] # card[p] => p[1] = dirname
  <2>1. CASE \E p \in Children(d) : card[p] = "dir" /\ stack' = Append(stack, p) /\ card' = card /\ wpc' = "readdir"
    <3>1. PICK p \in Children(d) : stack' = Append(stack, p) /\ card' = card /\ wpc' = "readdir"
      BY <2>1
    <3> HIDE DEF d
    <3>2. p \in CardPaths /\ p[1] = dirname
      BY <1>5, <3>1
    <3>3. /\ Stack /\ Len(stack') = Len(stack) + 1 /\ stack'[Len(stack) + 1] = p
          /\ \A n \in 1..Len(stack) : stack'[n] = stack[n]
      BY <1>6, <3>1, <3>2, AppendProperties
    <3>4. stack'[1] = <<dirname>> /\ Len(stack') >= 1
      BY <1>5, <1>6, <3>3
    <3>5. ASSUME NEW n \in 1..Len(stack') PROVE stack'[n][1] = dirname
      <4>1. CASE n = Len(stack) + 1
        BY <3>2, <3>3, <4>1
      <4>2. CASE n # Len(stack) + 1
        <5>1. n \in 1..Len(stack)
          BY <1>5, <3>3, <3>5, <4>2
        <5> QED
          BY <1>6, <3>3, <5>1
      <4> QED
        BY <4>1, <4>2
    <3>6. Card /\ Own /\ Gone /\ Frames
      BY <1>7, <3>1, <3>4, <3>5
    <3> QED
      BY <3>3, <3>6
  <2>2. CASE \E p \in Children(d) : card[p] # "dir" /\ Unlink(p) /\ stack' = stack /\ wpc' = "readdir"
    <3>1. PICK p \in Children(d) : card[p] # "dir" /\ Unlink(p) /\ stack' = stack /\ wpc' = "readdir"
      BY <2>2
    <3>2. p \in CardPaths /\ p[1] = dirname /\ card' = [card EXCEPT ![p] = "none"]
      BY <1>5, <3>1 DEF Unlink
    <3> HIDE DEF d
    <3>3. Tree(card')
      BY <1>7, <3>1, <3>2, TreeFile DEF CardPaths
    <3>4. Card /\ Own
      BY <1>7, <3>2, <3>3
    <3>5. Stack /\ Frames /\ Gone
      BY <1>5, <1>6, <3>1
    <3> QED
      BY <3>4, <3>5
  <2>3. CASE /\ Children(d) = {} /\ Unlink(d)
             /\ stack' = SubSeq(stack, 1, Len(stack) - 1)
             /\ wpc' = IF Len(stack) = 1 THEN "good" ELSE "readdir"
    <3>1. card' = [card EXCEPT ![d] = "none"]
      BY <2>3 DEF Unlink
    <3>2. \A q \in CardPaths : Len(q) = Len(d) + 1 /\ SubSeq(q, 1, Len(d)) = d => card[q] = "none"
      BY <2>3 DEF Children
    <3>3. Len(stack) = 1 => d = <<dirname>>
      BY <1>6
    <3> HIDE DEF d
    <3>4. Tree(card')
      BY <1>5, <1>7, <3>1, <3>2, TreeRmdir DEF CardPaths
    <3>5. Card /\ Own
      BY <1>5, <1>7, <3>1, <3>4
    <3>6. Gone
      BY <1>5, <1>7, <2>3, <3>1, <3>3
    <3>7. /\ Stack /\ Len(stack') = Len(stack) - 1
          /\ \A n \in 1..(Len(stack) - 1) : stack'[n] = stack[n]
      <4> DEFINE k == Len(stack) - 1
      <4>1. k \in Nat /\ 1 \in Int /\ \A n \in 1..k : stack[n] \in CardPaths
        BY <1>5, <1>6
      <4> HIDE DEF k
      <4>2. /\ SubSeq(stack, 1, k) \in Seq(CardPaths)
            /\ Len(SubSeq(stack, 1, k)) = IF 1 <= k THEN k - 1 + 1 ELSE 0
            /\ \A i \in 1..(k - 1 + 1) : SubSeq(stack, 1, k)[i] = stack[1 + i - 1]
        BY <4>1, SubSeqProperties
      <4>3. stack' = SubSeq(stack, 1, k)
        BY <2>3 DEF k
      <4>4. Len(stack') = k
        BY <4>1, <4>2, <4>3
      <4>5. \A n \in 1..k : stack'[n] = stack[n]
        BY <4>1, <4>2, <4>3
      <4> QED
        BY <4>2, <4>3, <4>4, <4>5 DEF k
    <3>8. Frames
      BY <1>5, <1>6, <2>3, <3>7
    <3> QED
      BY <3>5, <3>6, <3>7, <3>8
  <2>4. CASE wpc' = "fail" /\ stack' = <<>> /\ card' = card
    <3>1. Card /\ Own /\ Stack /\ Frames /\ Gone
      BY <1>7, <2>4
    <3> QED
      BY <3>1
  <2> QED
    BY <1>2, <2>1, <2>2, <2>3, <2>4
<1> HIDE DEF d
<1>10. ManageTypeOK' /\ CardPaths' = CardPaths
  BY <1>1, <1>3, <1>9, TypeKept DEF ManageIInv, ManageTypeOK, manageArg
<1>11. CardWhole'
  BY <1>9, CardStep
<1>12. Deleting'
  BY <1>3, <1>4, <1>8, <1>9, <1>10 DEF Deleting
<1>13. Reported'
  <2>1. CASE wpc' # "good"
    BY <1>4, <2>1
  <2>2. CASE wpc' = "good"
    <3>1. DOMAIN card' \subseteq Paths /\ DOMAIN card' = CardPaths
      BY <1>7, <1>9
    <3>2. ASSUME NEW p \in CardPaths, p[1] = dirname PROVE card'[p] = "none"
      BY <1>9, <2>2, <3>1, <3>2, Emptied
    <3> QED
      BY <1>4, <1>8, <1>10, <3>2 DEF Reported
  <2> QED
    BY <2>1, <2>2
<1> QED
  BY <1>4, <1>10, <1>11, <1>12, <1>13 DEF ManageIInv

\* success, then running: main sees both.
LEMMA WEndKeeps ==
    ASSUME ManageIInv, WEnd
    PROVE  ManageIInv'
<1>1. UNCHANGED <<card, root, manageMain, progress>>
  BY DEF WEnd
<1>2. CardWhole'
  BY <1>1, CardKept
<1>3. zip' = zip /\ bytes' = bytes /\ dirname' = dirname /\ mPlace' = mPlace /\ shown' = shown /\ CardPaths' = CardPaths
  BY <1>1 DEF manageMain, CardPaths
<1>4. CASE /\ wpc \in {"good", "fail"}
           /\ success' = (wpc = "good") /\ wpc' = "stored"
           /\ uf' = NoWalk /\ pf' = Closed /\ written' = 0 /\ stack' = <<>> /\ running' = running
  <2>1. running /\ mPlace = "poll" /\ success = FALSE
    BY <1>4 DEF ManageIInv, ManageTypeOK, Order
  <2>2. /\ success' \in BOOLEAN /\ pf' \in OpenFile /\ stack' \in Seq(CardPaths)
        /\ uf' \in [num_file : 0..Len(zip.files), ok : BOOLEAN]
    <3>1. Len(zip.files) \in Nat
      BY ManageAssumption DEF ManageIInv, ManageTypeOK, NoZip
    <3>2. pf' \in OpenFile
      BY <1>4 DEF Closed, OpenFile
    <3>3. success' \in BOOLEAN
      BY <1>4
    <3> QED
      BY <1>4, <3>1, <3>2, <3>3 DEF NoWalk
  <2>3. ManageTypeOK'
    BY <1>1, <1>4, <2>2, TypeKept DEF ManageIInv, ManageTypeOK, Places
  <2>4. Order' /\ Checked'
    BY <1>3, <1>4, <2>1 DEF ManageIInv, Order, Checked, Extracting
  <2>5. Walking' /\ Unpacked' /\ Installing' /\ Deleting'
    BY <1>4 DEF Walking, Unpacked, Installing, Deleting, Extracting, Unpacking
  <2>6. Counted'
    BY <1>1, <1>3, <1>4 DEF ManageIInv, Counted, Extracting
  <2>7. Reported'
    <3>1. success' => wpc = "good"
      BY <1>4
    <3> QED
      BY <1>1, <1>3, <1>4, <3>1 DEF ManageIInv, Reported, Successful, Done
  <2> QED
    BY <1>2, <2>3, <2>4, <2>5, <2>6, <2>7 DEF ManageIInv
<1>5. CASE /\ wpc = "stored" /\ running' = FALSE /\ wpc' = "gone"
           /\ UNCHANGED <<uf, pf, written, stack, success>>
  <2>1. ManageTypeOK'
    BY <1>1, <1>5, TypeKept DEF ManageIInv, ManageTypeOK, Places
  <2>2. Order' /\ Checked'
    BY <1>3, <1>5 DEF ManageIInv, Order, Checked, Extracting
  <2>3. Walking' /\ Unpacked' /\ Installing' /\ Deleting'
    BY <1>5 DEF Walking, Unpacked, Installing, Deleting, Extracting, Unpacking
  <2>4. Counted'
    BY <1>1, <1>3, <1>5 DEF ManageIInv, Counted, Extracting
  <2>5. Reported'
    BY <1>1, <1>3, <1>5 DEF ManageIInv, Reported, Successful, Done
  <2> QED
    BY <1>2, <2>1, <2>2, <2>3, <2>4, <2>5 DEF ManageIInv
<1> QED
  BY <1>4, <1>5 DEF WEnd

---------------------------------------------------------------------------
(* The theorems.                                                           *)

\* The card as it is at first.
LEMMA InitKeeps ==
    ASSUME ManageInit
    PROVE  ManageIInv
<1>1. CardWhole /\ card \in [CardPaths -> {"none", "dir", "old", "part", "new"}]
  BY ManageAssumption DEF ManageInit, CardWhole, CardPaths
<1>2. /\ mPlace = "frame" /\ zip = NoZip /\ bytes = 0 /\ shown = 0 /\ warned = FALSE
      /\ wpc = "gone" /\ uf = NoWalk /\ pf = Closed /\ written = 0 /\ stack = <<>>
      /\ running = FALSE /\ success = FALSE /\ progress = 0
      /\ root \subseteq {p[1] : p \in CardPaths}
  BY DEF ManageInit, CardPaths
<1>3. ManageTypeOK
  <2>1. pf \in OpenFile
    BY <1>2 DEF Closed, OpenFile
  <2>2. uf \in [num_file : 0..Len(zip.files), ok : BOOLEAN]
    <3>1. zip.files = <<>> /\ Len(<<>>) = 0
      BY <1>2 DEF NoZip
    <3>2. uf = [num_file |-> 0, ok |-> FALSE] /\ 0 \in 0..Len(zip.files)
      BY <1>2, <3>1 DEF NoWalk
    <3> QED
      BY <3>2
  <2>3. stack \in Seq(CardPaths)
    BY <1>2
  <2>4. zip \in Zips \cup {NoZip} /\ {bytes, shown, progress, written} \subseteq Nat
        /\ {warned, running, success} \subseteq BOOLEAN
    <3>1. bytes \in Nat /\ shown \in Nat /\ progress \in Nat /\ written \in Nat
      BY <1>2
    <3>2. warned \in BOOLEAN /\ running \in BOOLEAN /\ success \in BOOLEAN
      BY <1>2
    <3> QED
      BY <1>2, <3>1, <3>2
  <2> QED
    BY <1>1, <1>2, <2>1, <2>2, <2>3, <2>4 DEF ManageTypeOK
<1>4. Order /\ Checked
  BY <1>2 DEF Order, Checked, Extracting
<1>5. Walking /\ Unpacked /\ Counted /\ Installing /\ Reported /\ Deleting
  BY <1>2 DEF Walking, Unpacked, Counted, Installing, Reported, Deleting, Extracting,
     Unpacking, Successful
<1> QED
  BY <1>1, <1>3, <1>4, <1>5 DEF ManageIInv

\* Every step keeps the invariant.
LEMMA NextKeeps ==
    ASSUME ManageIInv, [ManageNext]_manageVars
    PROVE  ManageIInv'
<1>1. CASE Upload
  BY <1>1, UploadKeeps
<1>2. CASE Dismiss
  BY <1>2, DismissKeeps
<1>3. CASE Confirm
  BY <1>3, ConfirmKeeps
<1>4. CASE DeleteApp
  BY <1>4, DeleteAppKeeps
<1>5. CASE Poll
  BY <1>5, PollKeeps
<1>6. CASE Finish
  BY <1>6, FinishKeeps
<1>7. CASE WOpen \/ WInfo \/ WMkdir \/ WCreate
  BY <1>7, WOpenKeeps, WInfoKeeps, WMkdirKeeps, WCreateKeeps
<1>8. CASE WRead \/ WReadEnd \/ WWrite \/ WClose \/ WNext
  BY <1>8, WReadKeeps, WReadEndKeeps, WWriteKeeps, WCloseKeeps, WNextKeeps
<1>9. CASE WOpendir \/ WReaddir \/ WEnd
  BY <1>9, WOpendirKeeps, WReaddirKeeps, WEndKeeps
<1>10. CASE UNCHANGED manageVars
  <2>1. /\ card' = card /\ root' = root /\ mPlace' = mPlace /\ zip' = zip /\ dirname' = dirname /\ bytes' = bytes
        /\ shown' = shown /\ warned' = warned /\ wpc' = wpc /\ uf' = uf /\ pf' = pf /\ written' = written
        /\ stack' = stack /\ running' = running /\ success' = success /\ progress' = progress
    BY <1>10 DEF manageVars, manageMain, worker, manageArg
  <2>2. CardWhole'
    BY <2>1, CardKept
  <2>3. ManageTypeOK'
    BY <2>1 DEF ManageIInv, ManageTypeOK, CardPaths
  <2>4. Cur' = Cur /\ Nth' = Nth /\ Reached' = Reached /\ CardPaths' = CardPaths
    BY <2>1 DEF Cur, Nth, Reached, CardPaths
  <2>5. Order' /\ Checked' /\ Walking' /\ Unpacked'
    BY <2>1, <2>4 DEF ManageIInv, Order, Checked, Walking, Unpacked
  <2>6. Counted' /\ Installing' /\ Reported' /\ Deleting'
    BY <2>1, <2>4 DEF ManageIInv, Counted, Installing, Reported, Deleting, Done, Successful
  <2> QED
    BY <2>2, <2>3, <2>5, <2>6 DEF ManageIInv
<1> QED
  BY <1>1, <1>2, <1>3, <1>4, <1>5, <1>6, <1>7, <1>8, <1>9, <1>10 DEF ManageNext, Work

\* The inductive invariant holds in every state of an installation of an archive
\* whose names are plain (the code does not refuse others) and of a deletion.
THEOREM ManageInvariance == ManageSpec => []ManageIInv
<1>1. ManageInit => ManageIInv
  BY InitKeeps
<1>2. ManageIInv /\ [ManageNext]_manageVars => ManageIInv'
  BY NextKeeps
<1> QED
  BY <1>1, <1>2, PTL DEF ManageSpec

\* What the invariant says of a finished installation.
LEMMA Honest ==
    ASSUME ManageIInv
    PROVE  ExtractHonest
<1>1. ASSUME mPlace = "added", Whole(zip)
      PROVE  (\A n \in FilesOf(zip) : card[Path(zip.files[n])] = "new") /\ progress = bytes
  <2>1. success /\ zip # NoZip
    BY <1>1 DEF ManageIInv, Order
  <2>2. Done(zip.number_entry) /\ progress = bytes
    BY <1>1, <2>1 DEF ManageIInv, Reported, Successful
  <2>3. Good(zip)
    BY <1>1, <2>1, GoodZip DEF ManageIInv, Checked
  <2>4. \A n \in FilesOf(zip) : n <= zip.number_entry
    BY <2>3 DEF Good
  <2> QED
    BY <2>2, <2>4 DEF Done
<1>2. (zip # NoZip /\ mPlace = "poll") => shown <= progress /\ progress <= bytes
  BY DEF ManageIInv, Counted
<1> QED
  BY <1>1, <1>2 DEF ManageIInv, ExtractHonest

\* Only the application's own directory is changed.
LEMMA OwnOnly ==
    ASSUME ManageIInv, [ManageNext]_manageVars
    PROVE  \A p \in CardPaths : card'[p] # card[p] => p[1] = dirname
<1>1. CASE WMkdir
  <2>1. PICK made : Makes(made)
    BY <1>1, MkdirMakes
  <2>2. \A d \in Prefixes(Path(Cur)) : d[1] = dirname
    BY <1>1, HereFile DEF WMkdir
  <2> HIDE DEF Cur
  <2> QED
    BY <2>1, <2>2 DEF Makes
<1>2. CASE WCreate \/ WClose
  <2>1. Path(Cur)[1] = dirname
    BY <1>2, HereFile DEF WCreate, WClose, Unpacking
  <2>2. card' = card \/ \E v : card' = [card EXCEPT ![Path(Cur)] = v]
    BY <1>2 DEF WCreate, WClose, Cur
  <2> HIDE DEF Cur
  <2> QED
    BY <2>1, <2>2 DEF CardPaths
<1>3. CASE WReaddir
  BY <1>3, WReaddirKeeps
<1>4. CASE card' = card
  BY <1>4
<1>5. WMkdir \/ WCreate \/ WClose \/ WReaddir \/ card' = card
  BY DEF ManageNext, Work, manageVars, Upload, Dismiss, Confirm, DeleteApp, Poll, Finish,
     WOpen, WInfo, WRead,
     WReadEnd, WWrite, WNext, WOpendir, WEnd
<1> QED
  BY <1>1, <1>2, <1>3, <1>4, <1>5

\* What manage_run reports is what is on the card, and a deletion stays in its
\* directory, for archives whose names are plain.
THEOREM InstallsHonest == ManageSpec => ManageHonest
<1>1. ManageIInv => ExtractHonest
  BY Honest
<1>2. ASSUME ManageIInv, [ManageNext]_manageVars
      PROVE  [/\ (mPlace' = "deleted" /\ mPlace # "deleted") =>
                    \A p \in CardPaths : p[1] = dirname => card[p] = "none"
              /\ zip = NoZip => \A p \in CardPaths : card'[p] # card[p] => p[1] = dirname]_manageVars
  <2>1. ASSUME mPlace' = "deleted", mPlace # "deleted", NEW p \in CardPaths, p[1] = dirname
        PROVE  card[p] = "none"
    <3>1. Finish
      BY <1>2, <2>1 DEF ManageNext, Work, manageVars, Upload, Dismiss, Confirm, DeleteApp,
         Poll, Run, WOpen, WInfo,
         WMkdir, WCreate, WRead, WReadEnd, WWrite, WClose, WNext, WOpendir, WReaddir, WEnd, manageMain
    <3>2. success /\ zip = NoZip
      BY <2>1, <3>1 DEF Finish
    <3> QED
      BY <1>2, <2>1, <3>2 DEF ManageIInv, Reported, Successful
  <2>2. \A p \in CardPaths : card'[p] # card[p] => p[1] = dirname
    BY <1>2, OwnOnly
  <2> QED
    BY <2>1, <2>2
<1> QED
  BY <1>1, <1>2, ManageInvariance, PTL DEF ManageSpec, ManageHonest
---------------------------------------------------------------------------
(* The search for the directory.                                           *)

\* f walks from b to nxt[b] until it meets something or arrives at the end.
Walk(f, from, back, hit, nxt) ==
    f = [b \in from..back |-> IF b >= back THEN 0 ELSE IF hit[b] # 0 THEN hit[b] ELSE f[nxt[b]]]

\* One more place in front.
LEMMA WalkOnce ==
    ASSUME NEW back \in Nat, NEW hit, NEW nxt, NEW a \in Nat, a < back,
           nxt[a] \in (a + 1)..back, \A b \in (a + 1)..back : b < back => nxt[b] \in (a + 1)..back,
           NEW f, Walk(f, a + 1, back, hit, nxt)
    PROVE  \E g : Walk(g, a, back, hit, nxt)
<1> DEFINE g == [b \in a..back |-> IF b = a THEN (IF hit[a] # 0 THEN hit[a] ELSE f[nxt[a]]) ELSE f[b]]
<1>1. \A b \in (a + 1)..back :
        f[b] = IF b >= back THEN 0 ELSE IF hit[b] # 0 THEN hit[b] ELSE f[nxt[b]]
  BY DEF Walk
<1>2. \A b \in (a + 1)..back : g[b] = f[b]
  OBVIOUS
<1>3. ASSUME NEW b \in a..back
      PROVE  g[b] = IF b >= back THEN 0 ELSE IF hit[b] # 0 THEN hit[b] ELSE g[nxt[b]]
  <2>1. CASE b = a
    <3>1. g[nxt[a]] = f[nxt[a]]
      BY <1>2
    <3>2. g[a] = IF hit[a] # 0 THEN hit[a] ELSE f[nxt[a]]
      OBVIOUS
    <3> QED
      BY <2>1, <3>1, <3>2
  <2>2. CASE b # a
    <3>1. b \in (a + 1)..back
      BY <2>2
    <3>2. g[b] = f[b]
      BY <1>2, <3>1
    <3>3. b < back => g[nxt[b]] = f[nxt[b]]
      BY <1>2, <3>1
    <3> HIDE DEF g
    <3> QED
      BY <1>1, <3>1, <3>2, <3>3
  <2> QED
    BY <2>1, <2>2
<1>4. g = [b \in a..back |-> g[b]]
  OBVIOUS
<1> HIDE DEF g
<1>5. Walk(g, a, back, hit, nxt)
  BY <1>3, <1>4 DEF Walk
<1> QED
  BY <1>5

\* There is such a walk, however many windows there are.
LEMMA WalkExists ==
    ASSUME NEW back \in Nat, NEW hit, NEW nxt,
           \A b \in 0..back : b < back => nxt[b] \in (b + 1)..back
    PROVE  \E f : Walk(f, 0, back, hit, nxt)
<1> DEFINE Fails == {k \in 0..back : ~\E f : Walk(f, back - k, back, hit, nxt)}
<1>1. Fails \subseteq Nat
  OBVIOUS
<1>2. CASE Fails = {}
  <2>1. back \in 0..back /\ back - back = 0
    OBVIOUS
  <2>2. \E f : Walk(f, back - back, back, hit, nxt)
    BY <1>2, <2>1
  <2> QED
    BY <2>1, <2>2
<1>3. CASE Fails # {}
  <2> HIDE DEF Fails
  <2>1. PICK k \in Fails : \A m \in Nat : m < k => m \notin Fails
    BY <1>1, <1>3, Smallest
  <2>2. k \in 0..back /\ ~\E f : Walk(f, back - k, back, hit, nxt)
    BY <2>1 DEF Fails
  <2>3. CASE k = 0
    <3> DEFINE g == [b \in back..back |-> 0]
    <3>1. Walk(g, back, back, hit, nxt)
      BY DEF Walk
    <3>2. back - k = back
      BY <2>3
    <3> HIDE DEF g
    <3> QED
      BY <2>2, <3>1, <3>2
  <2>4. CASE k # 0
    <3> DEFINE a == back - k
    <3>1. k - 1 \in 0..back /\ k - 1 < k /\ a \in Nat /\ a < back /\ back - (k - 1) = a + 1 /\ a \in 0..back
      BY <2>2, <2>4
    <3>2. k - 1 \notin Fails
      BY <2>1, <3>1
    <3>3. PICK f : Walk(f, back - (k - 1), back, hit, nxt)
      BY <3>1, <3>2 DEF Fails
    <3>4. ~\E g : Walk(g, a, back, hit, nxt)
      BY <2>2
    <3> HIDE DEF a
    <3>5. Walk(f, a + 1, back, hit, nxt)
      BY <3>1, <3>3
    <3>6. nxt[a] \in (a + 1)..back
      BY <3>1
    <3>7. ASSUME NEW b \in (a + 1)..back, b < back PROVE nxt[b] \in (a + 1)..back
      <4>1. b \in 0..back /\ b >= a + 1
        BY <3>1
      <4>2. nxt[b] \in (b + 1)..back
        BY <3>7, <4>1
      <4> QED
        BY <3>1, <4>1, <4>2
    <3> QED
      BY <3>1, <3>4, <3>5, <3>6, <3>7, WalkOnce
  <2> QED
    BY <2>3, <2>4
<1> QED
  BY <1>2, <1>3

\* The last of a window's signatures.
LEMMA Last ==
    ASSUME NEW sigs \in SUBSET Nat, NEW pos \in Nat, NEW n \in Nat
    PROVE  \/ /\ InWindow(sigs, pos, n) = 0
              /\ \A p \in sigs : p >= pos /\ p + 4 <= pos + n => p = 0
           \/ /\ InWindow(sigs, pos, n) \in sigs /\ InWindow(sigs, pos, n) # 0
              /\ InWindow(sigs, pos, n) >= pos /\ InWindow(sigs, pos, n) + 4 <= pos + n
              /\ \A p \in sigs : p >= pos /\ p + 4 <= pos + n => p <= InWindow(sigs, pos, n)
<1> DEFINE hits == {p \in sigs : p >= pos /\ p + 4 <= pos + n}
           w == InWindow(sigs, pos, n)
<1>1. CASE hits = {}
  BY <1>1 DEF InWindow
<1>2. CASE hits # {}
  <2> DEFINE far == {i \in 0..(pos + n) : pos + n - i \in hits}
  <2>1. far \subseteq Nat
    OBVIOUS
  <2>2. far # {}
    <3>1. PICK p \in hits : TRUE
      BY <1>2
    <3>2. p \in Nat /\ pos + n - p \in 0..(pos + n) /\ pos + n - (pos + n - p) = p
      BY <3>1
    <3> QED
      BY <3>1, <3>2
  <2> HIDE DEF hits, far
  <2>3. PICK i \in far : \A j \in Nat : j < i => j \notin far
    BY <2>1, <2>2, Smallest
  <2>4. i \in 0..(pos + n) /\ pos + n - i \in hits
    BY <2>3 DEF far
  <2>5. ASSUME NEW q \in hits PROVE q <= pos + n - i
    <3>1. q \in Nat /\ q <= pos + n
      BY <2>5 DEF hits
    <3>2. pos + n - q \in 0..(pos + n) /\ pos + n - (pos + n - q) = q
      BY <3>1
    <3>3. pos + n - q \in far
      BY <2>5, <3>2 DEF far
    <3>4. ~(pos + n - q < i)
      BY <2>3, <3>2, <3>3
    <3> QED
      BY <2>4, <3>1, <3>4
  <2>6. w = CHOOSE p \in hits : \A q \in hits : q <= p
    BY <1>2 DEF InWindow, hits
  <2> HIDE DEF w
  <2>7. w \in hits /\ \A q \in hits : q <= w
    BY <2>4, <2>5, <2>6
  <2>8. w \in sigs /\ w >= pos /\ w + 4 <= pos + n /\ w \in Nat
    BY <2>7 DEF hits
  <2>9. \A p \in sigs : p >= pos /\ p + 4 <= pos + n => p <= w
    BY <2>7 DEF hits
  <2>10. CASE w = 0
    <3>1. \A p \in sigs : p >= pos /\ p + 4 <= pos + n => p = 0
      BY <2>9, <2>10
    <3> QED
      BY <2>10, <3>1 DEF w
  <2>11. CASE w # 0
    BY <2>8, <2>9, <2>11 DEF w
  <2> QED
    BY <2>10, <2>11
<1> QED
  BY <1>1, <1>2

\* The windows overlap enough.
LEMMA Overlap ==
    ASSUME NEW size \in Nat, NEW back \in Nat, back <= size, NEW b \in 4..back, b < back,
           NEW nb, nb = Least(b + BUFREADCOMMENT, back)
    PROVE  /\ nb \in (b + 1)..back /\ Window(size, nb).pos = size - nb /\ size - nb \in Nat
           /\ Window(size, nb).n \in Nat
           /\ size - b + 4 <= size - nb + Window(size, nb).n
           /\ size - nb + Window(size, nb).n <= size
<1>1. BUFREADCOMMENT \in Nat \ {0}
  BY UnzipAssumption
<1>2. nb \in (b + 1)..back /\ size - nb \in Nat /\ nb <= b + BUFREADCOMMENT
  BY <1>1 DEF Least
<1>3. Window(size, nb).pos = size - nb /\ Window(size, nb).n = Least(BUFREADCOMMENT + 4, nb)
  BY DEF Window
<1>4. Least(BUFREADCOMMENT + 4, nb) \in Nat /\ Least(BUFREADCOMMENT + 4, nb) <= nb
  BY <1>1, <1>2 DEF Least
<1>5. nb <= b + BUFREADCOMMENT => size - b + 4 <= size - nb + (BUFREADCOMMENT + 4)
  BY <1>1, <1>2
<1>6. size - b + 4 <= size - nb + nb
  BY <1>2
<1>7. size - b + 4 <= size - nb + Least(BUFREADCOMMENT + 4, nb)
  BY <1>2, <1>5, <1>6 DEF Least
<1> QED
  BY <1>2, <1>3, <1>4, <1>7

\* The search returns the last signature in the part that is searched.
LEMMA Search ==
    ASSUME NEW size \in Nat, NEW sigs \in SUBSET Nat
    PROVE  SearchCentralDir(size, sigs) = LastSignature(size, sigs)
<1> DEFINE back == Least(MaxBack, size)
           nxt == [b \in 0..back |-> Least(b + BUFREADCOMMENT, back)]
           hit == [b \in 0..back |-> InWindow(sigs, Window(size, nxt[b]).pos, Window(size, nxt[b]).n)]
           F == CHOOSE f : f = [b \in 0..back |->
                   IF b >= back THEN 0
                   ELSE LET nb == Least(b + BUFREADCOMMENT, back)
                            w == Window(size, nb)
                            p == InWindow(sigs, w.pos, w.n) IN
                        IF p # 0 THEN p ELSE f[nb]]
           last == LastSignature(size, sigs)
<1>1. back \in Nat /\ back <= size /\ MaxBack \in Nat /\ MaxBack > 4 /\ BUFREADCOMMENT \in Nat \ {0}
      /\ (back <= 4 => back = size)
  BY UnzipAssumption DEF Least
<1>2. SearchCentralDir(size, sigs) = IF back > 4 THEN F[4] ELSE 0
  BY DEF SearchCentralDir
<1>3. last = InWindow(sigs, size - back, back) /\ size - back \in Nat
  BY <1>1 DEF LastSignature
<1> HIDE DEF back
<1>4. \/ /\ last = 0
         /\ \A p \in sigs : p >= size - back /\ p + 4 <= size => p = 0
      \/ /\ last \in sigs /\ last # 0
         /\ last >= size - back /\ last + 4 <= size
         /\ \A p \in sigs : p >= size - back /\ p + 4 <= size => p <= last
  <2>1. size - back + back = size
    BY <1>1
  <2> HIDE DEF last
  <2> QED
    BY <1>1, <1>3, <2>1, Last
<1> HIDE DEF last
<1>5. CASE back <= 4
  <2>1. back = size /\ ~(back > 4)
    BY <1>1, <1>5
  <2>2. last = 0
    <3>1. ASSUME last \in sigs, last # 0, last + 4 <= size PROVE FALSE
      <4>1. last \in Nat
        BY <3>1
      <4> QED
        BY <1>1, <1>5, <2>1, <3>1, <4>1
    <3> QED
      BY <1>4, <3>1
  <2> QED
    BY <1>2, <2>1, <2>2 DEF last
<1>6. CASE back > 4
  <2>1. \A b \in 0..back : b < back => nxt[b] \in (b + 1)..back
    BY <1>1 DEF Least
  <2>2. PICK f : Walk(f, 0, back, hit, nxt)
    <3> HIDE DEF hit, nxt
    <3> QED
      BY <1>1, <2>1, WalkExists
  <2>3. f = [b \in 0..back |->
                IF b >= back THEN 0
                ELSE LET nb == Least(b + BUFREADCOMMENT, back)
                         w == Window(size, nb)
                         p == InWindow(sigs, w.pos, w.n) IN
                     IF p # 0 THEN p ELSE f[nb]]
    <3>1. f = [b \in 0..back |-> IF b >= back THEN 0 ELSE IF hit[b] # 0 THEN hit[b] ELSE f[nxt[b]]]
      BY <2>2 DEF Walk
    <3>2. \A b \in 0..back :
            /\ nxt[b] = Least(b + BUFREADCOMMENT, back)
            /\ hit[b] = InWindow(sigs, Window(size, Least(b + BUFREADCOMMENT, back)).pos,
                                 Window(size, Least(b + BUFREADCOMMENT, back)).n)
      OBVIOUS
    <3> HIDE DEF hit, nxt
    <3> QED
      BY <3>1, <3>2
  <2>4. F = [b \in 0..back |->
                IF b >= back THEN 0
                ELSE LET nb == Least(b + BUFREADCOMMENT, back)
                         w == Window(size, nb)
                         p == InWindow(sigs, w.pos, w.n) IN
                     IF p # 0 THEN p ELSE F[nb]]
    BY <2>3
  <2> HIDE DEF F, hit
  <2>5. ASSUME NEW b \in 0..back, b < back
        PROVE  LET nb == Least(b + BUFREADCOMMENT, back)
                   p == InWindow(sigs, Window(size, nb).pos, Window(size, nb).n) IN
               F[b] = IF p # 0 THEN p ELSE F[nb]
    BY <1>1, <2>4, <2>5
  <2>6. F[back] = 0
    BY <1>1, <2>4
  <2> DEFINE Open(b) == /\ \A p \in sigs : p >= size - back /\ p + 4 <= size => p <= size - b
                        /\ b = back => last = 0
             Odd == {i \in 0..(back - 4) : Open(back - i) /\ F[back - i] # last}
  <2>7. Odd \subseteq Nat
    OBVIOUS
  <2>8. ASSUME Odd # {} PROVE FALSE
    <3> HIDE DEF Odd
    <3>1. PICK i \in Odd : \A j \in Nat : j < i => j \notin Odd
      BY <2>7, <2>8, Smallest
    <3> DEFINE b == back - i
               nb == Least(b + BUFREADCOMMENT, back)
               W == Window(size, nb).n
               p0 == InWindow(sigs, size - nb, W)
    <3>2. i \in 0..(back - 4) /\ Open(b) /\ F[b] # last
      BY <3>1 DEF Odd
    <3>3. b \in 4..back /\ b \in 0..back /\ i = back - b
      BY <1>1, <1>6, <3>2
    <3> HIDE DEF b
    <3>4. b # back
      BY <2>6, <3>2
    <3>5. b < back
      BY <1>1, <3>3, <3>4
    <3>6. /\ nb \in (b + 1)..back /\ Window(size, nb).pos = size - nb /\ size - nb \in Nat
          /\ W \in Nat /\ size - b + 4 <= size - nb + W /\ size - nb + W <= size
      BY <1>1, <3>3, <3>5, Overlap
    <3>7. F[b] = IF p0 # 0 THEN p0 ELSE F[nb]
      BY <2>5, <3>3, <3>5, <3>6
    <3> HIDE DEF nb, W
    <3>8. \/ /\ p0 = 0
             /\ \A p \in sigs : p >= size - nb /\ p + 4 <= size - nb + W => p = 0
          \/ /\ p0 \in sigs /\ p0 # 0
             /\ p0 >= size - nb /\ p0 + 4 <= size - nb + W
             /\ \A p \in sigs : p >= size - nb /\ p + 4 <= size - nb + W => p <= p0
      BY <3>6, Last
    <3> HIDE DEF p0
    <3>9. /\ b \in Nat /\ nb \in Nat /\ W \in Nat /\ nb <= back /\ b < nb /\ size - back <= size - nb
          /\ \A p \in sigs : p >= size - back /\ p + 4 <= size => p <= size - b
      BY <1>1, <3>2, <3>3, <3>6
    <3>10. CASE p0 # 0
      <4>1. p0 \in Nat /\ p0 >= size - back /\ p0 + 4 <= size
        <5>1. p0 \in sigs /\ p0 >= size - nb /\ p0 + 4 <= size - nb + W
          BY <3>8, <3>10
        <5>2. p0 \in Nat
          BY <5>1
        <5> QED
          BY <1>1, <3>6, <3>9, <5>1, <5>2
      <4>2. last # 0 /\ last \in sigs /\ last >= size - back /\ last + 4 <= size /\ p0 <= last
        BY <1>4, <3>8, <3>10, <4>1
      <4>3. last <= size - b /\ last >= size - nb
        <5>1. last <= size - b
          BY <3>9, <4>2
        <5>2. last \in Nat /\ p0 >= size - nb
          BY <3>8, <3>10, <4>2
        <5> QED
          BY <3>6, <4>1, <4>2, <5>1, <5>2
      <4>4. last + 4 <= size - nb + W
        <5>1. last \in Nat
          BY <4>2
        <5> QED
          BY <3>6, <3>9, <4>3, <5>1
      <4>5. last <= p0
        BY <3>8, <3>10, <4>2, <4>3, <4>4
      <4>6. last = p0
        BY <4>1, <4>2, <4>5
      <4> QED
        BY <3>2, <3>7, <3>10, <4>6
    <3>11. CASE p0 = 0
      <4>1. ASSUME NEW p \in sigs, p >= size - back, p + 4 <= size, p >= size - nb PROVE p = 0
        <5>1. p <= size - b /\ p \in Nat
          BY <3>9, <4>1
        <5>2. p + 4 <= size - nb + W
          BY <3>6, <3>9, <5>1
        <5> QED
          BY <3>8, <3>11, <4>1, <5>2
      <4>2. Open(nb)
        <5>1. ASSUME NEW p \in sigs, p >= size - back, p + 4 <= size PROVE p <= size - nb
          <6>1. p \in Nat
            OBVIOUS
          <6> QED
            BY <3>6, <4>1, <5>1, <6>1
        <5>2. nb = back => last = 0
          BY <1>4, <4>1
        <5> QED
          BY <5>1, <5>2
      <4>3. back - nb \in Nat /\ back - nb < i /\ back - nb \in 0..(back - 4) /\ back - (back - nb) = nb
        BY <1>1, <3>2, <3>3, <3>9
      <4>4. back - nb \notin Odd
        BY <3>1, <4>3
      <4>5. F[nb] = last
        BY <4>2, <4>3, <4>4 DEF Odd
      <4> QED
        BY <3>2, <3>7, <3>11, <4>5
    <3> QED
      BY <3>10, <3>11
  <2>9. Open(4)
    <3>1. ASSUME NEW p \in sigs, p + 4 <= size PROVE p <= size - 4
      BY <3>1
    <3> QED
      BY <1>6, <3>1
  <2>10. back - 4 \in 0..(back - 4) /\ back - (back - 4) = 4
    BY <1>1, <1>6
  <2>11. F[4] = last
    BY <2>8, <2>9, <2>10
  <2> QED
    BY <1>2, <1>6, <2>11 DEF last
<1> QED
  BY <1>1, <1>5, <1>6

\* unzlocal_SearchCentralDir returns the last end record within MaxBack of the
\* end of every archive, wherever the windows' borders fall.
THEOREM ArchivesFound == ManageSpec => []SearchFinds
<1>1. ManageIInv => SearchFinds
  <2>1. ASSUME ManageIInv, zip # NoZip
        PROVE  SearchCentralDir(zip.size, zip.sigs) = LastSignature(zip.size, zip.sigs)
    <3>1. zip \in Zips
      BY <2>1 DEF ManageIInv, ManageTypeOK
    <3>2. zip.size \in Nat /\ zip.sigs \in SUBSET Nat
      BY <3>1, ManageAssumption
    <3> QED
      BY <3>2, Search
  <2> QED
    BY <2>1 DEF SearchFinds
<1> QED
  BY <1>1, ManageInvariance, PTL
=============================================================================
