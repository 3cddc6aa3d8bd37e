# Verification of the Homebrew Channel

The Homebrew Channel (`src/channel/channelapp`) is a Wii program that lists
the applications on an SD card or USB stick, starts one, and receives others
over the network or a USB Gecko.  Beside it the repository holds `wiiload`,
which sends them, `wiipax`, which packs them, and the tools that build the
channel's banner.  This directory holds TLA+ models of these, the TLC
configurations that check them and the TLAPS proofs about them.  Paths such as
`loader.c` are relative to `src/channel/channelapp/source`.

## The system

One CPU core, libogc's preemptive threads: the highest-priority thread that is
ready runs (main 64, app entry thread 62, update 58, loader, http and manage
threads 48), a mutex can be tried (`LWP_MutexTryLock`, 0 is success), a
condition wait gives the mutex back, and a broadcast nobody waits for is lost.

| component | state | operations | interaction |
|---|---|---|---|
| blob allocator (`blob.c`) | table of up to 8 blobs, the top of the MEM2 arena | `blob_alloc`, `blob_free`, interrupts disabled | called by loader, themes, NAND files, manage; shares the arena with the C heap |
| app entry thread (`appentry.c`) | `ta_ae` (command, action, `umount`, `mount`, `loading`), `device_active`, `device_prefered`, the tables `entries_all` and `entries` | commands SCAN, POLLSTATUS, EXIT; mounting, loading, removing and adding entries | main posts a command and signals; the thread leaves an action; the tables have no lock |
| main loop (`main.c`) | `v_current`, `frame`, `app_sel`, `should_exit` | one frame: action, scan, plot, input | drives everything, never waits for another thread's mutex |
| browser (`browser.c`) | two banks of widgets, the offset and focus of a page | generate a page, select, switch layout | draws entries while the thread may free them |
| views, widgets, bubbles, dialogs, menus (`view.c`, `widgets.c`, `bubbles.c`, `dialogs.c`, `m_main.c`, `gfx.c`) | widgets with layers that point to textures, glyphs and icons; the focus; the queue of a frame | build, plot, free; answers | point to what themes and the app entry thread free |
| fonts and texts (`font.c`) | faces, files and glyph caches shared by seven font ids | load on demand, cut a text into lines, clear | files come from a theme |
| themes, xml (`theme.c`, `xml.c`) | ZIP blob, textures, font files | load, install, fall back | everything drawn is built anew after a change |
| handshake threads (`loader.c`) | `ta_gecko`, `ta_tcp`, the listening socket | POLL, INIT, ACCEPT, EXIT | polled by main once per browser frame; hand a header and a socket over |
| loading (`loader.c`) | `ld_load_arg` on main's stack, two blobs, a file or socket | receive, uncompress, sort out, hand on | a thread per load, a progress loop in main |
| tcp helpers (`tcp.c`), wiiload | a socket, timeouts; the bytes on the line | listen, connect, read, write | used by loader and http; the client at the other end |
| relocation (`loader_reloc.c`), wiipax | the image and its destination | check, copy, set arguments; strip, inject, unpack | consumes the payload |
| http, updates (`http.c`, `update.c`) | a request slot, the update state | request, poll, download, verify, install | compiled with `ENABLE_UPDATES` |
| NAND files, settings (`isfs.c`, `xml.c`) | three files | read into a blob, replace | power can go at any time |
| manage, unzip (`manage.c`, `unzip.c`) | worker thread, the walk through an archive, the card | extract, delete | a progress loop like the loader's |
| dvd (`dvd.c`) | callback state, handle | stop the motor | IOS callbacks against shutdown |
| controllers (`controls.c`) | owner of the pointer, rumble counters | one scan per frame | the pointer moves the focus |
| return stub (`channelapp/stub`) | IPC registers, one request at a time | reload IOS, launch a title | runs after an application, with its stale replies |
| build tools (`banner/tools`, pywii) | none | LZ77, ADPCM, signatures | read back by pywii and the system menu |

What is hard about it: the threads share plain variables; main's frame order
and try-locks stand in for locks; devices and clients come and go at any
moment; blocking calls (device I/O, the network) take as long as they take;
buffers must be freed in stack order over every error path; what is drawn
points to memory that uploads, deletions and themes free; every one of these
has to be over when the channel exits into another program.  The list, with
lines and the properties that cover each entry, is `hazards` in
`PROJECT.json`.

What makes each part correct:

* blob allocator: blobs and the heap never overlap; freeing restores the arena
  exactly; a caller's pointer stays valid until it frees it.
* app entry thread: one volume is mounted; a pending action is true; main
  never draws or uses a freed entry; the exit command is never lost; the
  browser ends up showing what is on the device.
* browser: the table with holes never loses or overwrites an entry; the pages
  partition the listed entries; what A opens and "delete" deletes is what the
  focused widget draws.
* views, dialogs, themes: nothing that is drawn was freed; what looks focused
  is what A acts on; main does only what the screen offered.
* fonts and texts: shared faces and files live as long as they are used and are
  freed once; no loop over a text passes its end.
* handshake threads: one reader of the USB channel; each socket has one owner
  until it is closed; an accepted upload is served with its own header;
  shutdown always ends.
* loading and wiiload: the payload handed on is what one client sent; blobs
  come back in stack order; nothing stays open; each load ends.
* relocation and wiipax: a program that is accepted lies in memory as its
  headers say, inside the range it may use, with its arguments.
* http and updates: a received body has one owner and is freed once; only the
  download is installed; an update ends if the network answers.
* NAND files and settings: what a save wrote is used by every later start;
  nothing changed is left unsaved; the system menu's banner goes with settings.
* manage: what it reports is what is on the card; an application leaves the
  table only with its files; a deletion touches nothing outside its directory.
* dvd, controllers: nothing runs on after the channel has left: no callback
  that stops the motor of the next program's drive, no remote left rumbling.
* stub: it always launches something, in spite of replies to another program.
* build tools: a decoder gets back what a coder wrote.

## Modules

| module | models |
|---|---|
| `BlobStack`, `BlobStackProofs` | `blob.c`, with the heap below it and callers that free in any order; its theorems |
| `AppEntry`, `AppEntryProofs` | `appentry.c`'s thread with the part of `main.c`, `browser.c`, `dialogs.c` that uses it; its theorems |
| `Browser` | the table of `appentry.c` (slots, filter, order) under `browser.c`'s pages, focus and layouts |
| `Screen` | views, widgets, dialogs, menus, bubbles, the queue of a frame, changes of theme, main's way through all of them |
| `ScreenProofs` | the theorems of `Browser` and `Screen` |
| `Fonts` | the sharing of faces, files and glyphs between fonts, over changes of theme |
| `Text` | `font.c`'s decoding, measuring, wrapping and plotting of a text, as operators |
| `LoaderThreads`, `LoaderThreadsProofs` | the handshake threads, sockets, main's polls, `loader_deinit`; its theorems |
| `Transfer`, `TransferProofs` | the bytes of an upload from `wiiload` to `ld_load_func`; its theorems |
| `LoaderLoad` | `loader_load` to the end of the payload, composed with `BlobStack` |
| `Reloc` | `loader_reloc.c`, and `wiipax` with its stub, as operators over memory |
| `HttpUpdate`, `HttpUpdateProofs` | `http.c`'s thread and `update.c`'s state machine, as `main.c` drives them; its theorems |
| `NandFiles` | `isfs.c`, `settings_load`, `settings_save`, the stored theme, from one start to the next |
| `Unzip` | `unzip.c` as it is used, as operators over the walk and the open file |
| `Manage` | `manage.c` on top of `Unzip`, with `loader_handle_zip_app` and the delete button |
| `StorageProofs` | the theorems of `NandFiles` and `Manage` |
| `DvdMotor` | `dvd.c` and the IOS callbacks |
| `Controls` | the owner of the pointer and the rumble motors |
| `ChannelProofs` | the theorems of `LoaderLoad`, `DvdMotor`, `Controls`, `Fonts` and `Reloc` |
| `Stub` | the return stub over IPC |
| `Meta` | what `appentry.c`, `xml.c` and `loader.c` make of the card's files: directories, orders, arguments, font names |
| `Codecs` | LZ77, ADPCM, tiles of textures, SHA-1's blocks, each with its other side |
| `MC*` | the instances |

How they are composed:

* `LoaderLoad` takes its buffers from `BlobStack` (`B == INSTANCE BlobStack`),
  which is the abstract specification of what callers of the allocator may do;
  `UsesBlobs` is the refinement, model-checked and proved.
* `Manage` extends `Unzip`: an archive's walk and its open file are variables of
  the worker.
* `AppEntry` and `Browser` share the table: `AppEntry` has the thread's full
  protocol and devices over a table that is a set; `Browser` has slots and pages
  over a thread reduced to its legal order of reloads.
* An `MC` module puts together modules of one area that do not share variables:
  a variable (`part`, or `input` in `MCChannel`) is chosen at the start, the
  module it names moves and the others stay at an initial state.  This adds no
  behaviour to any of them; fairness is then stated for the part that moves.
  Modules of operators (`Text`, `Reloc`, `Codecs`, `Meta`) are evaluated on the
  value of `input`.

### The app entry thread and the browser

**AppEntry.**  `aePc` is the place of the thread between two device calls,
`mpc` that of main between two calls that block.  A C pointer to an entry is
the entry, `NoApp` or `Freed`; freeing (`FreePointers`) turns the pointers main
keeps into `Freed`.  `cmutex` is not a variable: the thread owns it everywhere
but in its condition wait (`MutexFree`), and main only tries it.  `page` stands
for the widgets of the browser and `appSel` for `app_sel`.  The three history
variables mark the windows the code really leaves open, so that the
properties can say exactly what holds outside them:

* `lostRemove`: a reload came before main, in the detail view, could read the
  REMOVE, so the entries main draws are gone until the ADD is read;
* `clobbered`: `app_entry_add` freed an entry that is on the screen, or touched
  the table while the thread was scanning;
* `switched`: the two devices of which the options dialog wrote one to `ta->mount` or
  `device_prefered` while `_mount` was blocked on the other: the one is active and
  the other mounted.  A device leaves the set when the thread mounts it for itself
  or unmounts it.  `OneVolume` claims nothing of the devices in it and everything of
  the others.

**Browser.**  A transition is `GenView` (the view filled, the focus to come
remembered) and `SlideEnd` (20 frames later: the focus may be where the pointer
was, the old bank is freed).  Between the two the thread moves.  `drawn` is what
each of the two banks draws; `browser_sel` is the code's arithmetic, with
`Garbage` for an index outside the listing.  Two history variables mark what
the code leaves open:

* `clobbered`: an upload was added while the thread was filling the table (it
  may be counted in a slot the load overwrites, or be stored behind the table);
  the model admits one such upload per load;
* `stale`: the screen shows a page of an older listing: a failed upload removed
  an entry and nothing draws the page again, the device went before main read
  that it had come, or the entry to focus is hidden by the filter and
  `browser_set_top_offset` keeps the old offset, which can leave an empty page.

**Meta.**  The side of the table that comes from the card: which file of a
directory starts it (`app_entry_load_single`), the comparisons of `cmp_app_entry`
and what qsort may be given by `set_sort`, the arguments of `meta.xml` on their
way through `_get_args` and the loader into a program, and the file names that
`_get_font` gives to the fonts of a theme.  `_get_args` counts in a `u16`; the
property is about arguments whose length it can hold.  Two applications of the same date
answer -1 both ways round (`SameDate`), and every other pair the opposite.
`theme_init` forgets the names of the last theme (`memset`) before it loads another, so only a
second `theme.xml` of the same archive meets names to free.

### What is drawn

**Screen.**  main is one thread, so the model is about order: `todo` is the
list of calls main has left in this round of its loop, each an action that can
draw frames.  A widget has layers, a layer points to a texture, a glyph or an
icon, and `dangling` is the set of the pointers whose target was freed.
`DrawnIsLive` builds the queue of each frame as `view_push_view` and
`gfx_frame_push` do and looks for such pointers, over changes of theme
(`refresh_theme` frees and rebuilds in a fixed order), uploads, deletions,
reloads, bubbles that pop and dialogs that are open or fade meanwhile.  Every
dialog, menu and view has its own widgets; which button is focused, what it
looks like and what main does on A are three different pieces of state, related
by `ChoiceIsShown`.  What the pages show is `Browser`'s part.

**Fonts.**  What is shared is named by the font id it was allocated for: a
`font_face`, a FreeType face, a file of the theme.  `font_clear`, `theme_deinit`
and `theme_init` are one step each, as main calls them one after the other;
`font_load` runs when a text first needs a font.  The glyph cache keeps the
code's chains and its growth.

**Text.**  Operators on a text as a sequence of bytes: `utf8_get_char` with its
way through bad sequences, the lines of `font_wrap_string`, the counts and the
plot; `TextWhole` says that they agree on where characters and lines are.

**Controls.**  A frame of `controls_scan` and of `view_plot`'s rumble.  Remotes
come, go and turn away between frames.

### The network and the loader

**LoaderThreads.**  `gPc`, `tPc` and `lPc` are the threads; a thread at
"woken" does not own its mutex yet, at "again" it does.  `sock` gives each
descriptor its use.  The payload is left out.  Only the number of ENETRESETs
is bounded (`MaxResets`).  `HandshakeKept` includes the loader's stack, arguments and
socket, which the next load uses again: only a failed TCP transfer's thread
may still be in `net_close` then.

**Transfer.**  Both ends of an upload.  `wiiload` writes the units of its
`Stream` in any parts; over TCP they belong to a connection, over the Gecko to
one line with a FIFO for all clients, which `ld_gecko_func` flushes.  `clock`
counts the receiver's sleeps, and both limits are those of `tcp_read` and of the
Gecko's loop.  The Gecko has no acknowledgement: the flush after a handshake
can eat the start of the payload, and `TransferHonest` says exactly what can then
be taken for a program (only one that the next client's header has completed).  The
loading thread closes the socket itself, when all has arrived or nothing more comes,
so a client may connect before main has seen the result.

**LoaderLoad.**  The variables of `BlobStack` are part of its state and the
buffers come from `B!AllocDone`, `B!AllocFail` and `B!blob_free`.  Bytes are
counted in units; an upload is a header (`len`, `un`, `args`) and, for a file,
what is really there (`avail`).  What the payload is, is decided in `Sort`.

**Reloc.**  Memory is a function from addresses to bytes, and a byte of a file
is any value.  `loader_reloc` checks and copies DOL and ELF files, with sums that wrap around
like the code's `u32` (a section whose end does can pass the checks); the packer strips
an ELF file, injects it into a stub, and the stub puts it there; the compressor
is a pair of inverses.  `ProgramsPlaced` compares what is in memory in the end
with what the headers ask for; it takes headers that ask for something: sections that
end below 2^32 in memory, with the start code in them (`IsExecutable`).  A place in the
file may wrap; what is copied is then what follows the file in memory (`ByteOf`).

**HttpUpdate.**  `http` is `ta_http` with the fields the two threads share, among them
`done`, which main polls.  A buffer is the
body of one request or none, so that a double free and a lost buffer show as
wrong counts of owners.  Every network call may block, and answers with any
outcome the code distinguishes.  `status` and `length` of a response keep their
values when the next one does not send them.  Main's part is
`update_signal`, `update_busy` and `update_execute`; `http_get_result` is
`Content` followed by `Forget`, without the mutex, as in the code.  Stores of one
thread are seen in program order: the console has one core.

### Memory, files, hardware

**BlobStack.**  `blob_alloc(size)` is `AllocPanic`, `AllocFail` or `AllocDone`;
`blob_free(p)` keeps the order of the code, where `num_blobs` goes down before
the two comparisons that can panic.  `held` is the callers' side: the pointers
they still have to free.  `LosePointer` is `isfs_get`, which gives a blob to
libc's `free()` when a read fails.  `HeapGrow` is libogc's `sbrk`.  Addresses
are `u32`: subtraction is `% Word`.

**NandFiles.**  `fs` is what the NAND holds of three files; `Torn` is a file
that was created and not written to its end.  A start reads the theme, the
banner and the settings; each step of `isfs_put` is an action, with `file` the
file it replaces and `Return` what its caller does with the result; the power
can go before any step.  Settings and themes are values: the XML that
`settings_save` writes is read back as the same settings, and half of it is not
read at all, like a torn ZIP.  `isfs_get` is one step (it changes no file), and
the descriptor it leaks when the size cannot be read is left out.  Three history
variables say what the properties may expect: `stored`, what the last save that
returned true wrote; `err`, a call has failed since the start; `cut`, a save
ended with a power cut or with an undo that failed.

**Unzip, Manage.**  An archive is a list of records with what their data really
unpacks to; `Unzip` finds the directory (backwards, in windows that overlap),
walks it and unpacks a file through an input buffer.  `Manage` is the worker over
it, on a card whose every call may fail and that may fill up within a file, and
main with its progress dialog, the checks of `loader_handle_zip_app` before it
and what happens to the table after it.  A name in an archive is that of a file or of a
directory in the one before it (`PlainNames`): the code refuses a leading slash, a backslash and a
colon, but neither `..`, `.` nor an empty name, and what a FAT file system makes of those
is not modelled.  Deletion walks the directories with the
code's own stack of frames.

**DvdMotor.**  The chain open, stop, close as callbacks that can come between
any two stores of `WiiDVD_ShutDown`; a request that IOS cannot queue has no
callback.  A handle of 0 is a handle to IOS and none to the code.

**Stub.**  The stub sends one request at a time and skips the replies of the
program that ended.  IOS is external: it answers in any order.

**Codecs.**  Each conversion with its other side, as operators: `LZ_Compress` and
pywii's decoder, the ADPCM coder and the decoder in the same tool, tiles of a
texture and its vertical split, and the cutting of a text into SHA-1's blocks.

## Runs

| run | question | bounds |
|---|---|---|
| `screen` | is what is drawn alive, does it stand for what it shows, and is the memory below whole? | `Browser`: 3 applications, one without a date, a table of 3, pages of 1 (list) or 2 (grid): holes, a full table, a first, middle and last page; `Screen`: 1 bubble, BootMii installed so that a menu has an entry that may be missing; `BlobStack`: 3 slots, sizes 3, 4, 9 against an alignment of 4, an arena of 26 cells, so that rounding, slack and a full table all decide |
| `app_entry` | the protocol with two devices, and the table it edits | 2 devices (switching needs two), 1 application (partial edits of a longer table are in `screen`), a scan every second frame, 1 retry |
| `app_entry_live` | exit ends, the browser catches up | 1 device, 1 application, 2 retries |
| `loader_threads` | exclusive use and ownership | 2 clients, 3 descriptors (numbers are used again), 2 retries, 2 tries, 1 reset; clients and descriptors are symmetric |
| `network` | does everything that waits for a peer end, and is what main takes what was sent? | `LoaderThreads`: 1 client, 2 descriptors; `HttpUpdate`: one check and one download, lengths from too small to too big for both, every failure of every call; `Transfer`: 2 runs of wiiload, a ZIP, a program that shrinks and one that does not, one argument or two, a FIFO of 2 units |
| `network_meta` | violation: a failed connection read as a good response | as `network` |
| `channel` | from an upload to a running program and back; what texts and files go through | `LoaderLoad`: 7 uploads (every kind, compressed or not, with equal lengths, a file that shrank), an arena the heap can make too small for one or both buffers; `Reloc`: sections around both ends of the range and over each other; `Fonts`: 3 fonts, 2 of which share a default, themes with good, broken, missing and shared files; `Text`: every text of up to 4 bytes of every class of UTF-8; `Codecs`: texts around a byte of flags; `Controls`: 3 remotes; `DvdMotor`: handles 0, 1, 2; `Stub`: 2 stale replies, any tickets; `Meta`: up to 2 choices of an order, 3 arguments, also too long for the limit and for the count, 2 themes of up to 2 `theme.xml` |
| `loader_load_args` | violation: arguments of an uncompressed upload | as `channel` |
| `lz77` | violation: texts whose last bytes are literals | as `channel` |
| `browser_stray` | violation: focus on a freed widget | as `screen` |
| `storage` | what is saved is used, and what `manage_run` reports is on the card | `NandFiles`: 3 settings (the default and two others, so that a save can go to a third and back), 2 themes, any number of starts; `Manage`: 2 applications with a subdirectory, archives that are incoherent, too short, too long, illegal or themes; archives with a signature at every place of every window |
| `storage_overwrite` | violation: files overwritten without a warning | as `storage` |

`screen` and `browser_stray` do not check deadlock: a panic stops `BlobStack`,
and after `Leave` main has ended.  Every other run does.

The type invariant of a module is the first conjunct of one of its properties.  Where the order between two matters (devices, clients, uploads, pages) there are two
or three; where a second would only repeat the first (the application in
`app_entry`, the client in `network`, the bubble in `screen`) there is one.

## Findings

1. `loader_load` copies the arguments behind a payload only when it
was compressed (`loader.c:860`); a program sent uncompressed starts without
the arguments wiiload was given.  `loader_load_args` shows it.

2. When the connection fails, `http_func` sets `done` before `res`
(`http.c:128`), and `update_busy` reads both without the mutex; `res` is still
`HTTPR_OK` from the `memset`, so a NULL body can be taken for the text of a good
response.  `network_meta` shows it: the http thread has to lose the core
between the two stores.

3. `browser_sel` (`browser.c:326`) does not bound its index.  If the pointer is
on a widget of the page that slides out and then leaves the screen, the focus
stays on the freed widget, and the number is before the first or behind the
last entry.  `browser_stray` shows it.

4. `loader_handle_zip_app` (`loader.c:982`) looks for the directory of an
application that is installed below the device, not below `/apps`, so its
warning that files will be overwritten is left out.  `storage_overwrite` shows it.

5. `LZ_Compress` (`banner/tools/lz77.c:237`) copies the last bytes without
starting a new byte of flags when a group of eight ends among them: a decoder
takes a literal for flags.  `lz77` shows it.  All but the last three bytes
come out right (`LzHead`, part of `CodecsAgree`).

Other places where the code relies on luck are not contradicted by anything it
says of itself.  They are history variables or exclusions instead of findings:

* an upload during a reload, a reload that overwrites a REMOVE, the options
  dialog during a mount (`AppEntry`, `Browser`);
* an icon that `app_entry_add` frees while the page is drawn once more (`Screen`);
* a `<font>` with several targets gives them one name, which a later `<font>`, or
  another `theme.xml` of the same archive, frees once for each (`xml.c:155`;
  `NamesOwned` excludes it); the names of the theme before are never freed
  (`theme.c:346`);
* arguments of `meta.xml` are counted in a `u16` (`xml.c:193`), so that more than 65535
  letters pass the test (`Overrun`; `ArgsDeliveredFromMeta` excludes it); together with
  the file name they can be longer than `ARGS_MAX_LEN` (`loader.c:917`), and empty
  ones are dropped;
* two applications of the same date are each before the other (`appentry.c:85`;
  `ListingSorted` claims only that neither is after the other);
* a section of an executable whose end is above 2^32 passes the checks of its range
  (`loader_reloc.c:91`, `202`; `IsExecutable` excludes it);
* `..` in the names of an archive is passed to the file system (`manage.c:182`, `207`, `373`;
  `PlainNames` excludes it);
* `tcp_connect` returns a positive `errno` for a host that is not found (`tcp.c:58`), which
  is taken for a socket, used and closed: in `HttpUpdate` the request on it is one more
  that fails or is answered, and whose descriptor it really is, is left out;
* after HOME and EXIT the focus is on a button that does not look focused (`main.c:522`;
  `ChoiceIsShown` is about those that do);
* an ADPCM block that no table codes better than the limit has no table
  (`mkbns.c`; `AdpcmKept` is about the others);
* the stub waits for ever after a refused launch of a title without tickets
  (`StubEnds` says so);
* a drag is not ended when the pointer goes to another remote (`view.c:196`), and
  a sort by size keeps filter and direction of the last one (`appentry.c:156`).

## Fairness

* `AppEntry!Spec`: both threads keep running, because neither waits without a
  limit except in the condition wait, and device calls return.  Nothing is
  assumed of the user or the devices.
* `LoaderThreads!Spec`: main's shutdown is made of sleeps and one join; the
  gecko thread's receive has a timeout (`LD_TIMEOUT`).  The tcp thread gets no
  fairness, since network calls may block for ever.  `Answering` assumes it
  in the one conjunct of `HandshakesEnd` that is about an answering network.
* `HttpUpdate`, `HttpFairness`: main and the http thread run when they do not wait for
  the network: `http_deinit` must end with these alone.  `HttpAnswers` assumes
  that network calls return, for the end of an update; without it
  `update_execute` really turns for ever.
* `Transfer`, `TransferFairness`: the channel's threads run.  The client and the line
  may stop at any unit, for ever; that is what the timeouts are for.
* `LoaderLoad!Spec`: main and the loading thread run, and their calls return.
* `Manage`, `ManageFairness`: the worker and main's progress loop run, and calls on the card
  return, well or not.
* `Stub`, `StubFairness`: the stub runs, and IOS answers each request.
* `Browser`, `Screen`, `BlobStack`, `NandFiles`, `DvdMotor`, `Controls` and `Fonts` have none:
  only safety is checked.

## Proofs

Each `*Proofs` module has an inductive invariant, one lemma for each action (or
small group of them) that keeps it, `Invariance`, and the theorems that follow.
The invariants were checked by TLC on the instances above before they were
proved.  The assumptions are those of the models, named in them (`...Assumption`):
that lengths and bounds are natural numbers within the limits the code
checks, and that markers such as `NoApp` or `Torn` are none of the values they are
told from.  TLC evaluates them on every run.

**`BlobStackProofs`** proves, for every number of slots, alignment, slack, arena
and set of sizes, from `SizesAssumption` (a request is smaller than the address
MEM2 starts at, true of the limits `LD_MAX_SIZE` and `MAX_THEME_ZIP_SIZE`) and
`ArenaAssumption`: `ArenaWhole` (with `TypeOK`, `Disjoint`, `ArenaTop`),
`HeldIsLive` and `ReachablePanics`.  The properties are not inductive alone.
`Disjoint` needs to know where the arena's top is when a blob is taken, and
after a free it must be known that the saved top is the blob below: that is
`Chained`.  The invariant `IInv` is `TypeOK`, `ReachablePanics` and, unless the
program has panicked, `Chained`, `ArenaTop`, `Disjoint` and `HeldIsLive`.
`ModBound` and `ModSmall` are the arithmetic of `& ~0x1f`; `BlobAddrBound` says
no request wraps around.

**`ChannelProofs`** proves of the loader, for every set of uploads and every
arena, from `UploadsAssumption` (lengths are natural numbers within the limits
the header checks enforce) and `MemoryAssumption` (what `BlobStack` assumes, for
these sizes): `MemoryInOrder` (types, no panic, buffers held), `PayloadWhole`,
`NothingLeft`, and `UsesBlobs`, the refinement of `BlobStack`.  That a free is in
stack order depends on which buffers main holds at each of its places, on the
thread's progress (a buffer is only freed by main once the thread has published
a result) and on the allocator's own invariant.  The inductive invariant is
therefore `BP!IInv`, taken over from `BlobStackProofs` through
`INSTANCE`, with `LoaderTypes`, `Stack` (the blobs on the stack at each place of
main), `Progress` (what the thread has done at each of its) and `Files` (what is
open).  The refinement maps each step to an allocation, a free, a growth of the
heap or a stutter of `BlobStack`.

Of `DvdMotor` it proves `DvdQuiet` for every set of handles IOS may give out.  The
argument: `WiiDVD_ShutDown` goes on only with a handle above zero, so the chain's
first callback is behind it and nothing will be opened any more (`Opening`);
as long as main has not begun, an open handle is the one in `_dvd_fd` (`Alone`);
from then on it is the copy main closes, and once the state is DONE a late
callback does nothing (`Killing`).  Of `Controls` it proves `RumbleEnds`, for any number of remotes:
a motor that runs is that of the owner of the pointer, and what `rumbling` says of it is
true while its time is counted down.

Of `Fonts` it proves `FontsWhole`, for any number of font ids, any sizes of the
caches, themes and texts (`FontsAssumption` is that ids, sizes and code points are
numbers and the themes name known files).  The invariant `FontsIInv` says who frees
what: each font_face that is in use is that of an id that owns it, its FreeType face
and file are there, and no face is there without an owner (`FacesHeld`), so that the round of
`font_clear` that meets a face first frees it and leaves no other owner of it
(`ClearedTo`), and a round of `theme_deinit` takes its file from all ids that share it
(`BaredTo`).  Of a glyph cache it says how its slots are linked (`Linked`): each behind
the roots has a lower one of the same root that leads to it.  A look-up that misses a
code point would have missed the one before it, so there is no first one it misses
(`WalkEnds`), and as it goes to higher slots it ends.  The loops and the look-up are
recursive functions; that these have values is proved by counting up (`CountUp`, from
the least counterexample).

**`LoaderThreadsProofs`**: `UsbReaderExclusive`, `SocketsOwned` and `HandshakeKept`, for
every set of clients and descriptors and any number of attempts and resets of
the network.  Neither a lock nor a flag keeps a handshake thread from reading the
Gecko beside the loading thread.  The argument is that main posts a command only
to a thread in its wait, and a posted one leaves the wait at once (`GeckoOrder`,
`TcpOrder`): a POLL that is still there when main starts a load has been reset
by it, and main posts nothing while a load runs (`LoadOrder`, `Transferring`).
For the descriptors the invariant says what each open one is: the listening
socket (`Listening`), a client being read or accepted (`Accepted`), the one of the
running transfer, and no other (`NoneLost`).  `HandshakeKept` is an action
property of two states that satisfy it.

**`HttpUpdateProofs`**: `BuffersOwned` and `ResultHonest`, for all lengths a server may
send, limits and delays.  `ta_http` changes hands with `done` (`ThreadOrder`); its host
is kept exactly while a result is awaited, so that a published result belongs to
the request that is awaited (`HostKept`, `MainOrder`).  `http_get_result` takes
no lock, and a failed connection shows its default result for a moment (finding
2): what can be taken there is the result of the request before, and before the check
there was none (`FirstRequest`).  `LiveOwned` counts the owners of each body.

**`AppEntryProofs`**: `HideBeforeFree`, `OneVolume`, `ActionIsCurrent` and `TableAgrees`, for
any number of devices and applications.  `ThreadOrder` and `MainOrder` say which places
of the two go together: main reads an action with the mutex, at a place of the frame
where a thread it has signalled has run, so the thread sleeps until main posts
again.  `NothingShown` carries the argument about freed entries: once main has read a
REMOVE nothing is drawn until it reads an ADD, and before that the REMOVE is still
there to be read.  Outside of what the history variables mark, this needs no lock;
inside, nothing is claimed: not of entries that an upload or a reload freed under the
screen (`HideBeforeFree`), nor of the two devices in `switched` (`OneVolume`).

**`TransferProofs`**: `TransferHonest`, for every set of files, size of block, buffer and
FIFO, every timeout and any number of runs of wiiload.  The invariant is about
`Seen`, the units in the buffer followed by those on the line.  `KnownIn`: each is the unit of its
run that its place says.  `OrderedIn` and `BeginsIn`: runs follow each other, each
from its first unit, and units keep their order and their distance.  `UnbrokenIn`: a
run of the Gecko that lost nothing is there without a gap, up to what it has sent.  After a
header was accepted, `BehindIn` says that what follows of its run comes behind the header,
and `AllBehind` that, if nothing was lost, it is all of it.  When the payload is
complete, its length is the run's and its units are the run's in increasing
order, so each is in its place (`WholeIs`); or a unit of another run is
among them, and then the run has lost some.  Steps append to `Seen` (`RunsAppended`,
`UnbrokenAppended`, `AllAppended`), or drop a part of it while runs go on (`RunsKept`,
`UnbrokenKept`, `AllKept`).  `HeaderIs` says that four units which pass the
header checks are the header of one run.  `ArgsLen` is wiiload's loop over the
arguments, a recursive function.  That it has a value and that this is a number is proved with
the least counterexample (`Least`, `LoopOnce`, `LoopEnds`): induction over the
natural numbers through `WFMin`, whose parameter is a set.

Of `Reloc` it proves `RelocStaysPlaced`: `RelocPlaced`, the first half of `ProgramsPlaced`, for every
executable (`IsExecutable`: a DOL or ELF file with any number of sections, its start code in them, each
section ending below 2^32 in memory) and arguments of up to `ARGS_MAX_LEN` bytes, from
`RelocAssumption` (the range of a program lies in cached memory below the arguments and the channel, and the three
places of the start code differ).  The code makes sure of neither in every case: its sum of address and length wraps, and
only an upload's arguments are measured (`loader.c:119`, `316`), a card file's are not (`loader.c:912`).
Where that sum does not wrap, the range check and the copy of `Reloc` are those of the numbers (`NothingWraps`).  `Placed` says what is in memory after the first
i sections: outside the range nothing has changed, refused or not; and while none was refused, each address
is as the last of the sections that reach it says (`LastDecides`).  `PlaceOneKeeps` is its step; that
`patch_crt0` and `set_argv` write where they should rests on the start code being in the range
once no section was refused.

**`StorageProofs`** proves of `NandFiles`, for every set of settings and of themes, from
`NandAssumption` (the markers `None`, `Torn` and `NoTheme` are none of the
values): `SavedIsLoaded`, `ExitAgrees` and `BannerMeansSave`.  These
speak of the places where the user or the system menu looks; between them a
file is half replaced.  The invariant adds what holds there: `Control` (without
a data directory nothing is written; what is undone has failed), `Kept` (a save
that returned true is on the NAND until the next one deletes it), `SettingsAgree`
and `ThemeAgrees` (until something fails the NAND agrees with what was loaded
from it) and `Together` (banner and settings, up to the step of the banner's
`isfs_put` that creates it).

Of `Manage` it proves `ManageHonest` and `SearchFinds`, for every set of archives of plain names,
every card, buffer and limit.  `ManageAssumption` says what archives and cards are: names are
plain (`PlainNames`, which the code does not check), lengths are natural numbers, a stored file unpacks to what is stored, everything on
the card lies in directories, and the card has a place for every file that may come.
The invariant: the card stays a tree (`CardWhole`; `TreeFile`, `TreeMkdir` and `TreeRmdir`
are what a file, `mkdir_hier` and an emptied directory do to one); what the worker
unpacks was checked (`Checked`); the bytes of the open file are written, in the
buffer, in the input or still to come, and a read returns 0 only at its end (`Reads`, `Round`);
the bar counts the records behind the worker (`Counted`, over the recursive function
`BytesTo`); those records are on the card, but for one that a later record of the same path is
writing anew (`Installing`); and every frame of `rmdir_hier_iter` is inside the application's
directory (`Deleting`), so that when the last is empty nothing is left (`Emptied`).
`SearchFinds` needs no invariant but the types: `Search` goes through the windows by their least
counterexample and rests on `Overlap`, four bytes that two windows share, and on a `MaxBack` that is more than
the length of a signature.

**`ScreenProofs`** proves of `Browser` `TableWhole`, `SelIsDrawn` and `PagesPartition`, for
every finite set of applications, every listing and order of them, every size of the
table and of a page, from `BrowserAssumption`.  None of the three is inductive.  That the count is that of the slots
rests on how the thread fills them, one after the other (`Filled`), and on the count never being
below them even after an edit that raced with it (`Counted`); that no application is
listed twice, on the filter, whose sequence of sequences is joined by a recursive function
(`JoinsExist`, `FilterResult`).  What A acts on is what is
drawn because of a relation between the page, both banks of widgets and the focus that
has to hold in the middle of a slide too (`PageDrawn`, `Focused`, `SlideOK`): the hidden bank becomes the
shown one, and the focus left for it stands for its first entry.  It holds as long as
nothing that changed the entries is still to be shown (`Fresh`), and `OffsetStarts` says that
each way to another page ends at a multiple of its size below the number of entries.

Of `Screen` it proves `ChoiceIsShown` and `DrawnIsLive`, for any number of
bubbles, any origin stack of at least two places (`ScreenAssumption`) and whatever is installed.  Both
follow from the invariant `ScreenIInv`.  The choice of a menu or a
message is a number that main compares with constants, so the invariant says of each view
which of its widgets are buttons and that a dialog's or the exit menu's focus is one of them, also
where the menu was exchanged below a focus that stays (`MenuView`, `DialogView`).
The rest is the order of main's calls.  `Program` says which sequences of calls can be
left in `todo`: what may follow a call (`Follows`), that a loop is followed by the fade and the end of its
dialog (`Closes`), and that what frees icons comes after a page without entries has
slid in (`Hides`).  `DialogFits` and `Conceals` relate the sequence to the dialog and to the
banks, and `Dangles` says whose pointers may dangle before each call: a holder's
do between the call that frees its target and the one that builds it anew.  All of this
is kept by every step that calls something further (`Then`) since the sequences it puts in front
are themselves such programs.  A call that draws is none of those before which a texture, a
glyph or an icon is missing, which is the first half of `DrawnIsLive`.  The second is about the queue: `Carries(q, A, B)`
says that `gfx_frame_push` along `q` leads from each state in A to one in B; it is proved of the
entities of a widget, of a text between its two scissors (`WidgetCarries`), and, through `FlattenSeq`
with the least counterexample (`CarriesAll`), of a view and of a frame.

## Only model-checked

* Liveness (`ExitEnds`, `BrowserCatchesUp`, `HandshakesEnd`, `ConnectionsEnd`, `LoadEnds`,
  `ManageEnds`, `StubReturns`), on the instances above: the prover does not reach fairness.
* What is computed over data by recursion: `TextsWhole`, `CodecsAgree` and `MetaRead`, and of
  `ProgramsPlaced` what is packed (`PackedRuns`), on bounded inputs.
  The modules of the first three declare RECURSIVE operators or fold over sequences, and the induction
  theorems of the library take operators as parameters.

## Not modelled

* Arithmetic and libraries: LZMA, zlib, libpng, FreeType, the rounds of SHA-1,
  signatures (`ecdsa.c` is commented out as a whole), the drawing commands of
  GX, the parsing of XML.
* I/O without state the rest depends on: `panic.c` and debug output, languages
  (`i18n.c`), `playtime.c` (one write), `nand.c` and `title.c` (files of the system
  that are read once), `wiiinfo.c` (queries), `fileops.c`.
* Start-up, statistics of memory, screenshots, the score of the bubbles.
* `controls.c`'s mapping of buttons and sticks: the other modules choose any button.
* The size order in `Browser`: its comparison is in `Meta`, and to the pages it is
  one more order with the filter of the last one.
* The sizes of an archive's files are taken to add up to less than 2^32.
* Executables with a section that ends above 2^32 in memory, or whose start code is in none:
  `Reloc` computes what the code's checks make of them, and no property is about them
  (`IsExecutable` is evaluated for every executable of the run).  How libogc takes arguments apart at start is external.
* What a file system makes of `..`, `.`, an empty name or another case in an archive.
* `mkbns.c`'s float arithmetic is rounded to whole numbers; containers and command
  lines of the tools, and pywii apart from its LZ77 decoder, are conversions of
  files without state.

## Plan

What is left is proof: a refinement of `AppEntry`'s table by `Browser`'s slots, and
`TextsWhole`, once `Text`'s recursion over a text is written with functions as that of
`Fonts` is.
