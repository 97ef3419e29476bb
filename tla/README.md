# A formal model of brscan-mac

brscan-mac makes Brother network scanners usable from macOS: a scan library that speaks the
device's protocol over TCP, an Image Capture module on top of it, a daemon that lets the
scanner's own Scan button start a scan, a command-line tool and a configuration app. This
directory holds TLA+ models of the parts of it whose correctness depends on order, failure or
concurrency, the TLC runs that check them on small instances, and machine-checked proofs (TLAPS)
about all seven detailed models, for every value of their constants.

Contents: [the system](#the-system), [the models](#the-models), [the runs](#the-runs),
[fairness](#fairness), [what is proved](#what-is-proved),
[where code and comments disagree](#where-code-and-comments-disagree),
[observations](#observations), [what is not modelled](#what-is-not-modelled),
[the plan](#the-plan).

## The system

```
  Image Capture ──> ICA module ─┐                                 ┌─ RLENGTH readout
  brscan-cli ───────────────────┼─> RunScan / RunButtonScan ──────┼─ color readout     <── scanner
  Scan button ─> daemon loop ───┘     (libbrscan, one TCP         └─ raw gray loop
                   │   ^               connection per job)
   SNMP register ──┘   └── SIGHUP <── configuration app (writes the config file)
```

| Component (source) | State | Operations | What makes it correct |
|---|---|---|---|
| RLENGTH readout (`libbrscan/scanner.cpp`, `RunRlengthScan`) | per-page row buffers, row counters, band cursors, slop counter, finished pages | read a row block, an end-of-page marker, a stray byte, the job-final byte; emit a band; flush | rows go to their own page; bands reproduce the page; pages whole and in document order; `kOk` only for a whole job; every sound job succeeds |
| Color readout (`RunColorScan`, `ReadOneChunkBody`, `IncrementalJpegDecoder`) | per-page JPEG bytes and decoders, finished pages, look-ahead | read a chunk of declared or undeclared length, a marker, the job-final byte; feed and drain the decoder | as above, for chunks whose end has to be searched for |
| Scan session (`RunScan`, `RunButtonScan`, `session.cpp`) | framer buffer, granted area | greeting, capability query, source select, offer, execute, readout | replies are matched to requests; a lone status byte is told from data |
| Framer and transport (`scanner.cpp`, `transport_tcp.cpp`) | buffered bytes, socket, deadline | Peek, PeekUpTo, ReadExact, DrainQuiet, Connect | a read ends by its deadline; nothing buffered is lost |
| Wire codecs (`command.cpp`, `response.cpp`, `decode_*.cpp`) | none | encode, parse, decode | what is decoded is what was encoded |
| Scan-button daemon (`tools/brscan-scand.mm`) | configuration, two deadlines, cached addresses, signal flags | stop, reload, resolve, register, receive, ACK, dedupe, connect, scan | caches belong to the configured printer; registered before it waits; reload and stop take effect |
| Registrar, listener, retransmit filter, sender check (`daemon/*.cpp`) | endpoint cache; UDP socket; last presses; none | Send, InvalidateCache; Receive, Ack; IsDuplicate; ResolveHostIps, IsAllowedSender | a press is scanned once; an acknowledged press is handled, not taken for another |
| Event handling, output (`daemon/handle_event.mm`, `daemon/actions.cpp`, `output/*`) | temporary directory, files, `saved_path` | plan, scan, rotate, skip blanks, write, act, clean up | the action gets the whole scan or nothing; EMAIL leaves no copy; the caller is told where the files are |
| Configuration and plan (`daemon/config.cpp`, `button_config.cpp`, `button_plan.cpp`, `paper_size.cpp`) | none | parse the file, parse the pushed command, plan the scan and its output | a plan can always be scanned; nonsense leaves a setting as it was |
| Image Capture module (`ica-module/*`) | device context, staged transfer, retained URL, a scan's flags | open, close, SetParameters, Start with its bands, pages and outcome; the translation of a selection | the host is told the truth, once; one owner per URL; no hang; a scan is of the unit the host chose, and a window that keeps to what was offered lies on it |
| Configuration app (`gui/*`) | loaded document, form, load state | load, edit, save, create a starter, signal the daemon | the file is never half written; what the app does not own survives; the daemon reads what the app shows |

The interactions are calls, except for four: the byte stream between the scanner and a readout;
the callback `on_band`, by which a caller can cancel; UDP notifications and SNMP Sets between the
printer and the daemon; and the configuration file with the SIGHUP that announces it.

The hard behaviours are: pages of a duplex feed that interleave on one stream and may complete
out of order; framing that has to be guessed (stray bytes, chunks of undeclared length, a job
end that is one byte); a link that stalls or closes at any byte; a cancel at any band; signals
between any two steps of the daemon; presses that are retransmitted, reordered or sent by a
printer that is no longer configured; registrations that expire while a scan runs; failures
that coincide and must be reported once; a write that fails after others succeeded; a temporary
directory to remove on every way out; a configuration file that an editor, the app and the
daemon share, each with its own idea of a key that occurs twice or a value that makes no sense. `PROJECT.json` lists them line by line under
`hazards`, each with the properties that cover it or the reason why none does.

## The models

| Module | Models | Role |
|---|---|---|
| `PageDelivery` | the contract of `RunScan` in `scanner.h` | abstract specification |
| `RlengthReadout` | `RunRlengthScan` with the device and the link | detailed; implements `PageDelivery` |
| `ColorReadout` | `RunColorScan` with the device and the link | detailed; implements `PageDelivery` |
| `ScanSession` | `RunScan` and `RunButtonScan` around the readouts, `Session::Open`, the framer's drains, with the device and the link | detailed; a readout is one step with the outcomes of `PageDelivery` |
| `ButtonDaemon` | the loop of `brscan-scand.mm` and the four `daemon/` components it calls, with printers, user and network | detailed |
| `ScanTranslate` | `scan_translate.cpp`: from the host's selection to the parameters of a scan | operators, used by `IcaScan` |
| `IcaScan` | `module_main.mm`: host callbacks and one synchronous scan | detailed; its `RunScan` is the promise of `PageDelivery` |
| `DaemonConfig` | `config.cpp`: what the daemon reads in the configuration file | operators, used by the next three |
| `ButtonPlan` | `button_config.cpp`, `button_plan.cpp`, `paper_size.cpp` | operators, used by `ButtonPress` |
| `ButtonPress` | `handle_event.mm`, `actions.cpp` and the writers: one press, from the FUNC check to the return | detailed; in `ButtonDaemon` it is the step that ends a scan |
| `ConfigStore` | `ConfigStore.swift`, the document and the view models, with an editor and crashes | detailed; the file it leaves is read by `DaemonConfig` |
| `MC*` | instances for TLC | |
| `RlengthReadout_proofs`, `ColorReadout_proofs`, `ScanSession_proofs`, `ButtonDaemon_proofs`, `IcaScan_proofs`, `ButtonPress_proofs`, `ConfigStore_proofs` | theorems about the module of the name (and about `ScanTranslate`, `DaemonConfig` and `ButtonPlan`) | proofs |
| `FoldFacts` | what folding a sequence computes and preserves | lemmas, used by `ButtonPress_proofs` |

`PROJECT.json` maps every definition to the lines it stands for. Definitions commented "Mutant"
are plausible mistakes in the definition that follows them; no specification uses them. They
show, for each property, a change of the code that breaks it.

**PageDelivery.** Its variables are what a caller sees: the bands shown per page, the pages that
are complete with their content, the result and the pages handed back. A step shows a band
(which extends what was shown), completes a page (equal to its bands, if bands were asked for),
or returns: `kOk` and `kCancelled` with exactly the complete pages in ascending order, any other
status with none.

**RlengthReadout.** `open`, `pixels`, `rowsRead`, `bandStart` are the fields of the
`in_progress` map, `finished` and `out` the map and vector of the same name, `slop` is
`slop_skipped`. A pixel row is the pair of its page and its number, so a row in the wrong
place is visible. `pc` names the points where the code loops: the top of the loop
(`boundary`), the band loop of the marker branch (`drain`), the byte after a marker (`tail`), the
walk of `flush_finished` (`flush`). One action is one pass through a branch of the loop, bands and
callback included; the callback answers freely, so a cancel can come at any band. The device sends
rows in page order but interleaves pages freely, inserts stray bytes, and may be unsound: rows
that do not decode, one row too many, markers for unknown pages, an early end. The link stalls
or closes at any time, cutting an element in two. `Lead80` says whether stray or cut-off bytes
may have the value of the job-final byte; see the findings.

**ColorReadout.** A JPEG is a sequence of units, one per band of rows, then its EOI. A chunk
carries units of one page and either its length or the sentinel `0xfff4`; then the readout looks
ahead for its end, and the model keeps what decides that look: whether a full window has arrived,
whether the link is quiet or closed, and what follows. Sizes are scaled (a header and the smallest
body fill the anchors behind a full chunk, a marker and the job-final byte do not, as with 12 + 1,
13, 10 and 1 bytes). The decoder may lag behind what it was fed, by any amount. The device commits
up to `MaxFaults` departures from the framing: data that does not decode, data past the EOI, a
marker too early or for a page it never began, bytes that are neither, an early end. An element is
sent when the readout looks for it; because TCP keeps order and the steps in between read neither
stream nor link, nothing is lost by that.

**ScanSession.** `pc` is the command or reply the call has come to, `cmds` what it has sent.
A reply is a first part and a rest, a lone byte only a first part; the connection delivers parts in
any groups (`Deliver`) and may go silent or close (`LinkFails`). `wire` is what has arrived and
`buf` the framer's buffer. `DrainFirst` and `DrainRest` are `DrainQuiet`, whose idle window may
pass before the first part of a reply, and with a late device inside one (`GoesQuiet`). A garbled
device answers with bytes that are no reply. `usable` is the verdict of `params_from_config`.
`SplitGreeting` says whether the greeting's line end may arrive apart from its first seven
bytes; see the findings.

**ButtonDaemon.** `pc` follows the loop: stop and reload at the top, registration if due, one
notification. `cache` joins what the code keeps in three places (the registrar's host and
endpoint, `cached_local_ip`, `allowed_sender_ips`); an address is a printer with a generation
that changes when it moves. The two deadlines count down in ticks that pass while the loop waits
or scans. Every printer numbers its presses by itself (`presses`), so two printers do use the same
REGID and SEQ; a printer is taken not to start its count again. Each FUNC's Set is its own step, and may fail, be lost, or arrive. The socket is a bag
of datagrams. The user replaces the file and then signals; both are separate steps, possible
between any two steps of the loop, also between the clearing of the flag and the read of the file.

**IcaScan.** `unit` and `staged` are the device context, `retained` counts outstanding
retains of security-scoped URLs, `job` is what `Start` took. `OnBand` is one band through the
callback with its page boundary and the host's answer; `Conclude` is the outcome logic,
`PostFilePage` one page of the file loop, `AntiHangGuard` and `Finish` the end. `notes` are the
notifications in order. `SetParameters` runs the selection through `ScanTranslate`: the domain of a
selection is the set of keys the host sent, measures are in hundredths, and the result is the
`params` of the context that the next `Start` takes. `asked` and `selected` are the host's: its last
selection, and the units that may be what it wants. `selected` has two members after a request that only
switches the feeder off, because the comments differ on what that means: the unit tracked from before is
the fallback of a request that "carries neither an explicit unit nor CAP_FEEDERENABLED"
(`module_main.mm:311-312`), and "CAP_FEEDERENABLED == 0 does not force the feeder; it falls through"
(`scan_translate_test.cpp:895`). `WellFormed` is what every selection translates to; `Offered` says
that a request keeps to the resolutions and the physical extent `scan_parameters.mm` advertises, and
`OnUnit` that a window lies on the unit. Offset and extent are rounded to pixels each by itself, so an
offered window may hang over a far edge of the glass by up to one pixel; `OnUnit` allows that.

**DaemonConfig, ButtonPlan.** A file or a pushed command is a sequence of lines, a line a key and
the words of its value. `ParseConfig` folds the lines onto `DefaultConfig`, a value that does not
parse leaving its field alone; one record per destination stands for the fifteen `...ForDestPrefix`
and `...ForFunc` functions. `PlanButtonScan` has the two Touch-Panel branches, the paper table and
the final safety net for the area. Areas are unbounded integers under `DpiAssumption`: no resolution
above `MaxDpi`, about 127 million, at which `ScaleCoord`'s cast to a 32-bit int would wrap. The code
accepts such a resolution and the model says nothing of it.

**ButtonPress.** `pc` follows `HandleButtonEvent`. A page is a sheet and its looks (printed, blank,
undecodable). `files` is what is on the disk, with the pages in each file and whether it was closed
properly; `written` the list the writers return; `armed` whether `temp_dir_cleanup` still owns the
directory. The scan, every encode, recognition, the directory, the path and the action may fail.
A close that fails after every write succeeded is not in the model: the code does not ask.

**ConfigStore.** A save is three steps (apply to the document, write the temporary file, rename),
each of which the app may crash after or fail in; a load and a start are one each. `Edit` is a field
of a tab with the coercions of the view models. `EditorWrites` replaces the file at any moment.
`saved` and `edited` only record whose file it is and whether it changed since the app read it. The write
of the temporary file is one step, which fails as a whole: a temporary file with half of its bytes is
not a state, and `FileIsWhole` is about what a rename, a crash or the editor can leave at the path.

## The runs

All runs take at most two minutes on two cores.

| Run | Instance | Question |
|---|---|---|
| `rlength` | 3 pages x 3 rows, bands of 2, one stray byte at a boundary | is a job of interleaved pages delivered whole, in order, and answered correctly whatever fails |
| `color` | 2 pages x 2 bands + EOI, chunks of up to 2 units, 1 fault | the same for color |
| `session` | each of the three command flows against 5 kinds of device, any segmentation | does a reply stay out of the next one and of the image, and is the status what the device said |
| `daemon` | 2 printers with 2 presses each and up to 2 copies, 2 edits, 1 move of each; `MaxEvents` of 4, where a press counts 1, an edit or a move 2 | do the caches follow configuration and network, is a press scanned once and on its printer |
| `press` | 5 FUNCs, 4 files, 7 pushed commands, scans of up to 3 pages | does the action get the whole scan, and what is left behind |
| `ica` | 3 pages x 2 bands, 3 connects, 2 requests of 6 selections, any number of scans | is the host told the truth, once, are URLs released, is the scan the one selected |
| `config` | 3 versions of the file, 7 edits, 2 edits, 1 external write and 1 crash in any order | does the file stay whole and mean to the daemon what the app shows |
| `rlength_stub80`, `color_close`, `session_split`, `press_broken`, `config_stuck` | small | statements of comments that the code does not keep |

Properties, beyond type invariants:

* `RlengthReadout`: `BandsReproducePage` (bands and page agree through padding, cropping and the
  final drain), `FinishedPagesAreWhole` (de-interleaving), `OkIsWholeJob`, `SoundJobSucceeds`,
  `DeliversPages` (implements `PageDelivery`, document order included), `Termination`.
* `ColorReadout`: `FinishedPagesAreWhole`, `OkIsWholeJob`, `SoundJobSucceeds`, `DeliversPages`,
  `Termination`.
* `ScanSession`: `ReadoutStartsClean` (the framing heuristics never let a reply into the image,
  with any device), `EmptyFeederIsLeftAlone`, `StatusIsTheDevices` (a lone status byte against
  an image that begins with the same byte, among others), `SessionEnds`.
* `ButtonDaemon`: `CachesFollowConfig`, `AddressesAreFresh`, `ReloadTakesEffect`,
  `WaitsRegistered`, `ScansThePressedPrinter`, `OncePerPress`, `AckedIsHandled` (no press is lost to
  another press of its printer), `StopExits`.
* `ButtonPress`: `ActsOnWholeScan` (no sheet lost, repeated or out of order between scan and
  hand-off, for every format and separation), `EmailLeavesNothing`, `SavedPathIsThere`,
  `PlanIsScannable`.
* `IcaScan`: `DoneIsTrue`, `OneAlert`, `CancelIsClean`, `URLHasOneOwner`,
  `ScansSelectedUnit` (the unit the host chose, well-formed parameters, and for a request within what
  was offered a window on the unit), `ScanIsReportedDone`.
* `ConfigStore`: `DaemonReadsWhatIsSaved` (two parsers and one writer agree, whatever else is in the
  file; the file that is read and the view it is compared with were both written by `Apply`, so a
  spelling that is wrong in the same way for both shows only where lines differ), `SaveKeepsTheRest`, `FileIsWhole`.

Why the bounds are enough. Three pages are the least at which a page completes between two others
and order can go wrong in the middle; with three rows and bands of two a page has a full band, a
partial one and can be short by one or two rows. In color the treatment of a page does not depend
on how many others there are, so two pages interleave in every way that matters; chunks of one and
two units are the short and the full chunk. Faults beyond the first meet a readout that has
returned, except data past the EOI or a marker for a page never begun, each of which is itself the
first. Two printers are one that is configured and one that was. The daemon's filter
has a capacity below the number of presses and copies, so a retransmit arrives both within and past
it; its intervals keep the order of the code's (register before expiry). `MaxEvents` lets any two of its
presses, edits and moves meet at every step of the loop (a second press during a reload, a move before
an edit, two edits before one signal), and a third event when two are presses: a press of the first
printer, a reload to the second and a press of that one with the same REGID and SEQ. Nothing tells
the printers apart, so `FirstHosts`, what the daemon may start with, is one of them. Three pages in a press are
a first, a last and a middle one, and with two pages per document a full document and a short one.
The files of `press` and `config` hold every kind of line: set, set twice with the last one
unreadable, unknown, a comment, a value of each parser that is out of range. Two edits are one that
follows a save. Deadlock checking is off where the system really stops: a readout that has
returned, a session that has, a press that has, a daemon that has exited. `ScanSession` has no bound: a session
is finite.

Bounds that exist for TLC only: `MaxFaults`, `MaxEvents`, `MaxPresses`, `MaxCopies`, `MaxQueue`,
`MaxEdits`, `MaxMoves`, `MaxRequests`, `MaxPages` of `ButtonPress`, `MaxVersions`, `MaxCrashes`;
`MaxDpi` bounds what is modelled; `Literal`, `Frames`, `Configs`, `Selections`, `Versions` and `Edits` are the inputs tried. All other
constants are the code's own parameters.

## Fairness

* Readouts: `WF(Readout)`, because every read has a deadline (`TcpTransport::Read`), so the
  thread always proceeds; `WF(Device)` says only that the device eventually does something, and
  going quiet for ever is one of the things it may do (`LinkFails`), so no good behaviour of the
  device is assumed.
* Session: `WF(Caller)`, because every read has a deadline; `WF` of the device and the connection
  says only that something arrives or the link fails. A device has finitely much to send; one that dribbles
  bytes for ever inside `DrainQuiet`, which has an idle window and no overall deadline, is outside the model.
* Daemon: `WF(Daemon)`, because `Receive` returns at least once a second, lookups and Sets
  have timeouts and a scan returns (`Termination` of the readouts is why); and a saved file is
  signalled, which is what the app does after a save.
* Image Capture: `WF(Scan)`, because the scan runs on the callback's thread to its end.
* `ButtonPress` and `ConfigStore` state safety only and assume no fairness.

## What is proved

Every theorem below holds for all values of its module's constants that satisfy the module's named
assumption, and all proofs are checked down to their leaves. An assumption only types the constants
and states relations the code's own constants have (`ReregisterSec < DurationSec`,
`PageCap > Height`). Each theorem about an invariant follows from an inductive strengthening; each
strengthening was first checked by TLC on the instance of a run.

### The readouts

| Theorem of `RlengthReadout_proofs` | Statement |
|---|---|
| `TypeCorrect` | `Spec => []TypeOK` |
| `BuffersInPlace` | `Spec => []PixelsInPlace` |
| `PagesAreWhole` | `Spec => []FinishedPagesAreWhole` |
| `BandsAreThePage` | `Spec => []BandsReproducePage` |
| `ResultsInDocumentOrder` | `Spec => []DocumentOrder` |
| `OkMeansWholeJob` | `Lead80 = FALSE => (Spec => []OkIsWholeJob)` |
| `SoundJobsSucceed` | `Lead80 = FALSE => (Spec => []SoundJobSucceeds)` |
| `ReadoutDelivers` | `Spec => DeliversPages` |

`PixelsInPlace` and `DocumentOrder` are stages of the argument and are not in a run's list:
`FinishedPagesAreWhole` and `DeliversPages` contain them. None of the properties is inductive by
itself. The proof is in layers, each an invariant that uses the ones before it:

1. `TypeFit`: `TypeOK` and `Fit`, which ties the counters together (a cursor never passes the
   rows, the rows never pass the height, a closed page's fields are reset).
2. `Stream`: what is in flight is the last row sent (`WireInv`), buffers hold their page's rows
   in order and white after them (`Place`), and what was sent has been read unless it is in
   flight (`Counts`, `Rows`). `PixelsInPlace` and `FinishedPagesAreWhole` follow.
3. `Bands`: what was shown of an open page is its buffer up to the band cursor, which with the
   drain gives the whole page at the end. The hardest step is a band of a page that is being
   padded.
4. `Order`: nothing is in `out` before the flush, and the flush takes the least page.
5. `Answer` and `WholeJob`: a status other than "running" is set only on the way out; `kOk` is
   set only with no page open and the job-final byte in view.
6. `Framed`, for `SoundJobsSucceed`: as long as the device has not departed from the framing, all
   it has sent and all that is in flight is what the framing allows, so no branch that ends in an
   error is open to the readout.
7. `ReadoutDelivers`: `Init` maps to the abstract `Init`; a callback's band maps to `ShowBand`,
   `FinishPage` to `CompletePage`, the last step to a return, everything else to a stutter.

The assumption `Lead80 = FALSE` is necessary. Run `rlength_stub80` shows `OkIsWholeJob` fail without
it; and a stray 0x80 between the rows of an open page ends a job that is otherwise in order with
`kProtocolError`, so `SoundJobSucceeds` needs it too.

| Theorem of `ColorReadout_proofs` | Statement |
|---|---|
| `PagesAreWhole` | `Spec => []FinishedPagesAreWhole` |
| `OkMeansWholeJob` | `Spec => []OkIsWholeJob` |
| `SoundJobsSucceed` | `Spec => []SoundJobSucceeds` |
| `ReadoutDelivers` | `Spec => DeliversPages` |

Any number of chunks may be on their way here, so the argument is about the whole stream:

1. `Stream`. `Flow`: for every page that is not complete there is a history `got`, one value for each
   position of the stream, which begins with what the page's buffer holds, grows by the chunks of
   that page and ends with all that was sent of it (`Received`). `Markers`: a page's marker comes
   behind its last chunk, the job-final byte behind everything. `Over`: of a page whose marker was
   read nothing is on its way. With `Buffers` and `WholeImages` this gives whole pages although chunks
   of other pages lie between.
2. `Bands`: what a caller has been shown is the beginning of what the decoder can make of the bytes so
   far (`Yield`), and more bytes never change rows that were shown.
3. `Order` and `WholeJob`, as above. The flush is one page a step, least index first.
4. `Framed`, of four parts: what was sent of each page (`SentWell`), what of it is still on the way
   (`Arriving`), which pages are open and where their markers are (`Placed`), and that the job-final
   byte comes right behind a marker and last (`Final`). With `Flow` it shows that a chunk of a sound
   device never takes a page past its cap (`ReceivedFits`, `ChunkFits`), that a page is decodable when
   its marker comes (`NothingBad`), and that no page is open at the job-final byte (`NoneOpen`).
   `Answered` carries the verdict to the return.

### A session and the daemon

| Theorem of `ScanSession_proofs` | Statement |
|---|---|
| `TypeCorrect` | `Spec => []TypeOK` |
| `ImageComesFirst` | `Spec => []ReadoutStartsClean` |
| `EmptyFeederIsNotScanned` | `SplitGreeting = FALSE` implies `Spec => []EmptyFeederIsLeftAlone` |
| `CallerIsToldTheTruth` | `SplitGreeting = FALSE` implies `Spec => []StatusIsTheDevices` |

The idea is one sequence, `Stream == buf \o (wire \o toSend)`: the parts on their way to the caller in the
order they were sent. Deliveries and fills leave it as it is, a command appends a reply, a read or
a drain takes from its front. `InOrder` says what may be in it at each `pc`; until the offer has been
read that is any part of any earlier reply, late or out of step, and afterwards nothing of one. The
proof shows why: the scan offer is asked for last, and an offer that is read whole has nothing
behind it, which is also why a split greeting, whose rest stays in the stream, cannot reach the image.
`Greeted` adds that a greeting in one piece leaves nothing in the stream; with it `NeverScanned` follows
an empty feeder's three parts to the acknowledgement. For a device
with manners on a link that holds, `Told` is exact: `Expected` names the reply that is in the stream,
`Learned` what the thread knows of the device, `Deserved` the status that calls for. That
`SplitGreeting` be `FALSE` is necessary for the two theorems that say so: run `session_split` is the
counterexample of one; for the other, the rest of the greeting can use up the wait for the
capabilities, which then stand where the feeder's acknowledgement is looked for.

| Theorem of `ButtonDaemon_proofs` | Statement |
|---|---|
| `TypeCorrect` | `Spec => []TypeOK` |
| `CachesFollow` | `Spec => []CachesFollowConfig` |
| `PressScansItsPrinter` | `Spec => []ScansThePressedPrinter` |
| `RegisteredWhileWaiting` | `Spec => []WaitsRegistered` |
| `WaitsOnFreshAddresses` | `Spec => []AddressesAreFresh` |
| `ScannedOncePerPress` | `Spec => []OncePerPress` |
| `AcknowledgedPressIsHandled` | `Spec => []AckedIsHandled` |

One invariant for each thing the loop carries from pass to pass, over any printers, intervals, filter
capacity and number of presses, edits and moves:

1. `Caches`: what was looked up is of the configured printer, except between a reload and the
   registration that follows in the same pass (`Follows`, and the exception with `needsResolve`).
2. `Sender`: the address a press came from stays on the list it was checked against until the scan,
   since no reload comes between.
3. `Deadlines`: the leases and the addresses outlive the next registration's deadline (`Outlives`),
   until it is missed; then the loop registers before it waits. The step that needs it is a tick
   during a scan, which may run past every deadline.
4. `Memory`: the filter holds the keys of the last `Capacity` presses let through.
5. `Identity`: a printer's SEQ belongs to one of its presses, wherever copies of the notification are
   (`Known`). With `Memory` this makes "dropped as a retransmit" mean "handled before", or that another
   printer's press with the same REGID and SEQ was; the third case of `AckedIsHandled` is there because
   the code does drop such a press, see the observations.

### Image Capture

`IcaScan_proofs` holds for any set of selections (finite or not, with any integers in them):

| Theorem | Statement |
|---|---|
| `FeederWindowCentered` | a feeder window no wider than the sensor lies on it, its margins a pixel apart at most, at every resolution |
| `SelectionWellFormed` | `WellFormed(TranslateScanParams(sel, tracked))` for every selection and every tracked unit |
| `OfferedWindowOnUnit` | `OnUnit(TranslateScanParams(sel, tracked))` for every selection that is `Offered` of the unit it is for |
| `TypeCorrect` | `Spec => []TypeOK` |
| `ScansWhatWasSelected` | `Spec => []ScansSelectedUnit` |
| `URLsReleasedOnce` | `Spec => []URLHasOneOwner` |
| `AlertedOnce` | `Spec => []OneAlert` |
| `ScanDoneIsTrue` | `Spec => []DoneIsTrue` |
| `CancelLeavesNothing` | `Spec => []CancelIsClean` |

1. The arithmetic: `AlignedInside` (alignment takes less than one JPEG unit of a window's width and
   leaves some), `CenteredOnSensor` (centering stays on the sensor), and `WindowNotEmpty` (a
   window has an extent and a place, or is none), over integer corners (`RequestAreaInt`), which may
   be negative. For a window on the unit: `RoundedInside` and `EdgeInside` (a measure within an
   extent is within it by less than a pixel after rounding, and two of them add up to at most one), with
   which `WindowWithin` bounds both far edges.
2. `ScansSelectedUnit` speaks of the running scan and is not inductive. `StagedIsSelected` adds what
   waits in the context: the tracked unit is one the host may want, and the staged parameters were
   translated from its last selection for it. The case that needs care is a request that carries no unit: its translation
   falls back to the tracked one.
3. `URLHasOneOwner` counts retains against the staged transfer and the job; a `Start` moves a URL
   from one to the other, so `URLsAreOwned` adds that an idle job holds none.
4. The end of a scan is five statements kept together (`Outcomes`): until the outcome is known
   nothing has gone wrong (`Undecided`), an alert comes with an error (`Alerts`), a cancel is a status
   and not an error (`Cancels`), without an error the pages up to the one at hand are written and
   announced (`Written`), and the last notification is what `finalErr` says (`Reported`). They use
   `ScanTyping`, which is `TypeOK` with the ranges of the counters, and count notifications by
   cardinality (`CountAppend`).

### A press and its configuration

The configuration file, the pushed command and the pages of a scan are read by folds, and no theorem of
the library can be instantiated for a fold with an operator of ours. `FoldFacts` closes that gap:
it takes the step and the invariant as CONSTANT operators, derives induction on the naturals from the
well-foundedness of `<` (`Induction`), and proves what every use needs: a fold is the end of a chain
of steps (`FoldSteps`), the only one (`FoldIs`), and keeps what its base has and each step keeps
(`FoldKeeps`). A module uses it by `INSTANCE FoldFacts WITH op <- ..., Good <- ...`.

| Theorem of `ButtonPress_proofs` | Statement |
|---|---|
| `TypeCorrect` | `Spec => []TypeOK` |
| `PlansAreScannable` | `Spec => []PlanIsScannable` |
| `ActsOnTheWholeScan` | `Spec => []ActsOnWholeScan` |
| `EmailIsNotKept` | `Spec => []EmailLeavesNothing` |
| `ReportedPathIsThere` | `Spec => []SavedPathIsThere` |

1. For a file and a command of any length: `GoodConfig` and `GoodCommand` are kept by every line
   (fields stay in the range their parser accepts), so `PlanButtonScan` gives a plan of the kind its
   function asks for (`GoodPlan`).
2. `IInv` is the inductive invariant of a press. `PressTypes` types it; `Marks` ties `pc` to what is
   armed and where the files are; `Writes` says which documents are complete after n writes (`Wrote(n)`)
   and which after a failed one was unwound; `Keeps` follows the pages through blank-page removal and
   rotation, which must not lose or reorder a sheet (`SameSheets`).
3. `EmailLeavesNothing` needs `EarlyReturn`: a return before Mail takes the files goes through the
   cleanup that is still armed.

| Theorem of `ConfigStore_proofs` | Statement |
|---|---|
| `FileStaysWhole` | `Spec => []FileIsWhole` |
| `SavesKeepTheRest` | `Spec => SaveKeepsTheRest` |
| `DaemonReadsTheSave` | `Spec => []DaemonReadsWhatIsSaved` |

`FileIsWhole` needs that a rename is reached only with the temporary file written in full
(`TempIsWhole`). `SaveKeepsTheRest` is an action property; it needs `Read`, that a file nobody changed
since the app read it is the document the app holds, and that applying any setting, empty or not,
leaves the lines the app does not own as they were: four instances of `FoldFacts`, for the removal of a
key (`NameFold`), the lines kept (`ForeignFold`) and the two passes over the settings (`ShownFold`,
`DefaultFold`).

`DaemonReadsWhatIsSaved` relates the writer of the app to the parser of the daemon, for files of any
length. Its argument has three parts:

1. What a save leaves. `Found` is the value of the last line of a key, or nothing; setting and
   removing a value change it for that key only (`FoundSet`, `FoundRemove`), so a file that was
   just saved *carries* the view it was saved from (`Carries`, by `SaveCarries`), whatever other lines,
   duplicates and comments it has.
2. What the daemon makes of it. `Says` is what a configuration holds of one key. Another key leaves it
   alone (`OtherKeys`), and a value in the app's spelling sets it to the same whatever stood there before
   (`KeyMeans`: the daemon's fallback to the value before is never taken). By induction over
   the lines the daemon reads what the last line of each key says (`LastLineCounts`,
   `ReadsWhatIsCarried`).
3. What the app makes of it. `Agreed` is the inductive invariant, on top of `TempIsWhole` and `Read`: the
   views are in the app's spelling with formats their modes allow (`GoodView`), a save under way
   carries the view it took, and a file the app saved carries the view the app would read from it
   (`SavedIsKnown`), which differs from the last saved one in nothing the tabs show (`SameTabs`). The
   steps that need it are a load of the saved file (`ReadAsCarried`: it is read as the view it carries;
   `CoerceKeepsGood`: no format is changed) and the end of a save during which the user went on editing.

It assumes, by name, `SpellingAssumption` (the two defaults that are numbers are literals, and a
quality that was clamped has a spelling: `String(clamped)` in the code) and `EditAssumption` (the controls of
the app change its own keys, to values it would read back as they are: pickers of fixed options,
sliders and steppers with bounds, and free text). TLC evaluates both in `config`.

Two definitions were corrected because a proof would not go through: in `ApplyKey` (`DaemonConfig`) and
in `Kept` (`ButtonPress`) two CASE guards overlapped. TLC takes the first that holds; TLA+ leaves
the choice open.

### Only model-checked

Every invariant and every action property of the passing runs is proved. With TLC stay:

* Every liveness property (`Termination` of the readouts, `SessionEnds`, `ScanIsReportedDone`,
  `ReloadTakesEffect` and `StopExits`): TLAPS has no proofs of liveness under fairness.
* What the runs that expect a violation show.

## Where code and comments disagree

Each of these is a run that violates one property, which is what a comment says; `PROJECT.json`
quotes it.

* `rlength_stub80`: if the link stalls inside a block header between two pages, the part that
  arrived is skipped byte by byte, and a `0x80` in it ends the job with `kOk` and pages missing.
* `color_close`: the look-ahead for a chunk of undeclared length gives up with `kIoError` when
  the connection closes, although all it looks for has arrived; a job of the button flow, which
  ends with a close, can be lost that way.
* `session_split`: the greeting is read to its line end or to seven bytes, whichever comes first;
  if its line end is delivered later, the button flow takes it for the header of the configuration
  frame and fails with `kProtocolError`. The comment promises that a split greeting is no error.
* `press_broken`: when text recognition fails on a page, the searchable PDF with the pages before it
  stays in the save directory and no path is reported; the other writers remove such a file, as the
  comment of `RemovePartialFile` says.
* `config_stuck`: a save that creates the configuration file leaves the load state at "missing", so the
  next save of that window is refused, although the file holds what the app wrote.

## Observations

Seen while modelling, part of the models, and not the subject of a run:

* A device that goes quiet between two row blocks ends a job with `kProtocolError`, not with the
  timeout that `scanner.h:69-71` describes for a stall; inside a row it is the timeout.
* The loop registers between scans only. A scan longer than the 60 s between re-registration and
  expiry lets a registration lapse, where `brscan-scand.mm:38-41` says one always lands before
  that; `WaitsRegistered` therefore speaks of the moments when the loop waits.
* The page splitter takes every change of the page index as a boundary. A duplex job that
  interleaves its bands has more boundaries than the N - 1 of `page_delivery.h:25-26`; the model has
  it so, and no property says otherwise.
* An app save resets `ocr.jpeg_quality` to 90, although the daemon uses the key.
* `notification_deduper.cpp:7-8` folds SEQ into the key "so two distinct presses can never collide even
  if a REGID were ever reused". Two presses of one printer never do. Two printers can: the key has no
  sender and the filter is not cleared by a reload, so a press of the new printer that has the REGID
  and SEQ of one among the last `capacity` presses of the old printer is acknowledged and never scanned.
  `daemon` contains such behaviours, and `AckedIsHandled` lets this one case through.
* "A translated Params can never ask the device for an impossible value" (`scan_translate.h:275-276`)
  is so for the resolution and, on the feeder, for where a window begins. The host's rectangle is not
  compared with the unit: a window left of the glass or beyond its far edges is asked for as it is,
  and an area of a request beyond the unit's maximum resolution stays in pixels of the requested
  resolution while the resolution is clamped. `OnUnit` is therefore asked of offered requests only.
* A request with CAP_FEEDERENABLED off, no unit and a tracked feeder scans the feeder, where
  `module_main.mm:311-312` and `scan_translate.h:213-215` reserve the fallback for requests with
  neither key, while `scan_translate_test.cpp:895` says that such a request falls through (its test has
  no tracked unit); `ScansSelectedUnit` accepts either unit.
* A write of the configuration that fails or crashes leaves its temporary file. An edit of the file
  between the app's load and its save is overwritten by the save; both are in `ConfigStore`, and
  `SaveKeepsTheRest` speaks of the file the app had read.

## What is not modelled

* Bytes: header anchors, PackBits and JPEG data, BER, dictionaries. The color model leaves out an
  anchor that appears inside entropy-coded data, and the segments of a JPEG before its first band.
* ImageIO, CoreGraphics, Vision, libjpeg-turbo and Image Capture itself: external, represented by
  the outcomes the code distinguishes.
* The raw gray loop, which reads one page at a time and has the outcomes of `PageDelivery` in
  `ScanSession`, and the connect before a session.
* Of the output pipeline: the numbering in a file name beyond "one or several", rotation and
  blank-page detection as computations (they are facts about a page), and the close of a file.
* Of the configuration file: letter case, quoting and the splitting into lines; a line is a key
  and the words of its value. `GetParameters` of the Image Capture module only reads.
* The command-line tool, the pixel helpers and the SwiftUI views, which keep no state between
  two calls.
* A device that reuses a page index within a job.
* Start-up of the daemon, before its loop.

## The plan

Done: 1. `PageDelivery` and `RlengthReadout`, with proofs. 2. `ButtonDaemon`. 3. `IcaScan`.
4. `ColorReadout`. 5. `ScanSession`.

6. `ButtonPress` with `DaemonConfig` and `ButtonPlan`. 7. `ConfigStore`. 8. `ScanTranslate`, with
proofs of it and of `IcaScan`.

Next, in this order:

9. `ConfigStore` and `ButtonDaemon` in one module: a save, its signal and the reload, with the
   values of the file and not only its version.
10. Pure algorithms over bounded inputs against a reference definition: the PackBits decoder, and the
    chunk-boundary search with header look-alikes inside entropy-coded data.
11. Proofs: every invariant and action property of the runs is proved. New modules bring their own;
    liveness stays with TLC.

Every module is written to be proved about: constants with a named assumption, one action per
operation, invariants as conjunctions of named parts, no RECURSIVE operator.
