------------------------------- MODULE Unzip -------------------------------
(***************************************************************************)
(* Reading a ZIP archive that lies in a blob (unzip.c over unzip_io.c):    *)
(* finding its directory, walking through it, and unpacking one file       *)
(* through an input buffer of UNZ_BUFSIZE.  Operators over two records,    *)
(* the walk (unz_s) and the open file (file_in_zip_read_info_s), that the  *)
(* modules of the callers keep in their variables.                         *)
(*                                                                         *)
(* Data is counted in units.  An entry is what its directory record says:  *)
(*   dirs, name   its path, as a sequence of directories and a name        *)
(*   legal        no absolute path, no odd character, not encrypted        *)
(*   c, u         compressed_size and uncompressed_size                    *)
(*   stored       compression_method 0, else deflated                      *)
(*   coherent     its local header agrees with the record                  *)
(*   real         how much its data really unpacks to; Bad: to an error    *)
(***************************************************************************)
EXTENDS Integers, Sequences

CONSTANTS
    UNZ_BUFSIZE,     \* input buffer of one open file
    BUFREADCOMMENT,  \* step of the search for the directory
    MaxBack          \* the part of the archive that is searched

ASSUME UnzipAssumption ==
    {UNZ_BUFSIZE, BUFREADCOMMENT, MaxBack} \subseteq Nat \ {0} /\ MaxBack > 4

Bad == -1   \* an error
More == -2  \* the loop goes on
Least(a, b) == IF a < b THEN a ELSE b

---------------------------------------------------------------------------
(* unzlocal_SearchCentralDir.  sigs are the places where the four bytes of *)
(* the end record are found; the archive is read in windows, backwards.    *)

\* The last signature that lies inside the window, or 0.
InWindow(sigs, pos, n) ==
    LET hits == {p \in sigs : p >= pos /\ p + 4 <= pos + n} IN
    IF hits = {} THEN 0 ELSE CHOOSE p \in hits : \A q \in hits : q <= p

\* A faulty version: windows that do not overlap.
WindowShort(size, b) == [pos |-> size - b, n |-> Least(BUFREADCOMMENT, b)]

\* The window read when uBackRead is b.
Window(size, b) == [pos |-> size - b, n |-> Least(BUFREADCOMMENT + 4, b)]

SearchCentralDir(size, sigs) ==
    LET back == Least(MaxBack, size)
        from[b \in 0..back] ==
            IF b >= back THEN 0
            ELSE LET nb == Least(b + BUFREADCOMMENT, back)
                     w == Window(size, nb)
                     p == InWindow(sigs, w.pos, w.n) IN
                 IF p # 0 THEN p ELSE from[nb]
    IN IF back > 4 THEN from[4] ELSE 0

---------------------------------------------------------------------------
(* The walk.                                                               *)

\* The record of file n can be read: behind the last one is the end record.
Readable(z, n) == n < Len(z.files)

unzGoToFirstFile(z) == [num_file |-> 0, ok |-> Readable(z, 0)]

\* At the last file, by number_entry, the walk stays.
AtEnd(z, uf) == ~uf.ok \/ uf.num_file + 1 = z.number_entry

unzGoToNextFile(z, uf) ==
    IF AtEnd(z, uf) THEN uf
    ELSE [num_file |-> uf.num_file + 1, ok |-> Readable(z, uf.num_file + 1)]

Current(z, uf) == z.files[uf.num_file + 1]

\* unzLocateFile, without regard to case: the first record of that path from the
\* beginning; a walk that fails on its way, or ends, stays where it was.
unzLocateFile(z, uf, path) ==
    LET hits == {n \in 1..Least(z.number_entry, Len(z.files)) : z.files[n].dirs \o <<z.files[n].name>> = path} IN
    IF ~uf.ok \/ hits = {} THEN [uf |-> uf, found |-> FALSE]
    ELSE [uf |-> [num_file |-> (CHOOSE n \in hits : \A k \in hits : n <= k) - 1, ok |-> TRUE], found |-> TRUE]

---------------------------------------------------------------------------
(* The open file.  ai is what the input buffer still holds, want what this *)
(* call of unzReadCurrentFile has still to produce, iRead what it has.     *)

OpenFile == [rc : Nat, ru : Nat, ai : Nat, fed : Nat, out : Nat, want : Nat, iRead : Nat]
Closed == [rc |-> 0, ru |-> 0, ai |-> 0, fed |-> 0, out |-> 0, want |-> 0, iRead |-> 0]

\* unzOpenCurrentFile: the local header must agree, and nothing is read yet.
Opened(e) == [Closed EXCEPT !.rc = e.c, !.ru = e.u]

\* A call with a buffer of len: at most what the directory promises.
ReadCall(pf, len) == [pf EXCEPT !.want = Least(len, pf.ru), !.iRead = 0]

Fill(pf) ==
    IF pf.ai = 0 /\ pf.rc > 0
    THEN LET n == Least(UNZ_BUFSIZE, pf.rc) IN [pf EXCEPT !.rc = @ - n, !.ai = n]
    ELSE pf

\* The state after i units of input have become o units of output.
Moved(pf, i, o) ==
    [pf EXCEPT !.ai = @ - i, !.fed = @ + i, !.out = @ + o, !.ru = @ - o, !.want = @ - o, !.iRead = @ + o]

\* inflate with Z_SYNC_FLUSH: <<input, output>> of one call.  It goes on until
\* one buffer is used up, and with all of its input it has all of its output.
Inflated(e, pf) ==
    {m \in (0..pf.ai) \X (0..Least(pf.want, e.real - pf.out)) :
        /\ m[1] = pf.ai \/ m[2] = pf.want
        /\ pf.fed + m[1] = e.c => m[2] = Least(pf.want, e.real - pf.out)}

\* Both the data and the code that ends it are through.
StreamEnd(e, pf) == pf.fed = e.c /\ pf.out = e.real

\* One round of the loop in unzReadCurrentFile: <<state, result>>, where the
\* result Bad is an error and More goes on.
ReadRound(e, pf0) ==
    LET pf == Fill(pf0) IN
    IF e.real = Bad THEN {<<pf, Bad>>}
    ELSE IF e.stored
    THEN IF pf.ai = 0 THEN {<<pf, pf.iRead>>}
         ELSE LET n == Least(pf.want, pf.ai)
                  q == Moved(pf, n, n) IN {<<q, IF q.want = 0 THEN q.iRead ELSE More>>}
    ELSE {LET q == Moved(pf, m[1], m[2]) IN
          <<q, IF StreamEnd(e, q) \/ q.want = 0 THEN q.iRead ELSE More>> : m \in Inflated(e, pf)}

---------------------------------------------------------------------------
\* What the search is to return: the last signature that begins within
\* MaxBack of the end, wherever the windows' borders fall.
\* (A signature at 0 counts as none: that archive has no files.)
LastSignature(size, sigs) ==
    LET back == Least(MaxBack, size) IN InWindow(sigs, size - back, back)
=============================================================================
