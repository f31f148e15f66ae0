# A TLA+ model of the Javad GREIS refclock driver

This directory models `src/ntpd/refclock_javad.c`, the ntpd driver for Javad
GREIS GPS receivers. It holds TLA+ modules, the TLC configurations that
model-check them, and TLAPS proofs. `PROJECT.json` lists the components,
runs, mutants, the source lines every definition models, the findings, the
hazards and the theorems.

## The system

The driver has these parts:

| Part | Code | Compiled? | Model |
|---|---|---|---|
| Line receiver | `javad_receive` (515-597) | yes | `LineReceiver`, `LineBuffer` |
| GPS time tracker | `javad_parse_t`, `javad_parse_gpos` (600-760) | no (`#ifdef notdef`) | `GpsTime`, `GpsClock` |
| Session | `javad_start`, `javad_config`, `javad_send`, `javad_control`, `javad_shutdown` | yes | `Session` (the PPS parameters aside) |
| PPS correlator | `javad_ppsapi`, `javad_pps` (324-429), the edge switch of `javad_control` | yes, but `javad_pps` is never called | `Pps` |
| Checksum | `javad_cksum` (905-916) | yes, called only from disabled code | `Checksum` |
| Frame scanner | `javad_recv` (918-1002) | no; uses a field `sbuf` the struct lacks | `FrameScanner` |
| Message requests | `javad_reqmsg`, `javad_canmsg`, `javad_platform`, `javad_poll` | bodies disabled | not modelled: no state |
| Debug output | `javad_debug`, the billboard in `javad_parse_t` | yes | not modelled: logging only |

**How the parts interact.** ntpd calls all of these from one thread:
- `javad_receive` for every chunk read from the serial line;
- `javad_poll` on the timer;
- `javad_control` on a configuration change.

`javad_receive` appends the chunk to `instance->ibuf` and looks for a CR LF
line. In the compiled driver it only prints that line to stderr and drops
it. In the design the spec describes, the line or frame goes to the tracker:
- a position message (`javad_parse_gpos`) anchors the GPS week;
- a pulse message (`javad_parse_t`) follows the week and computes
  `timecode`, the Unix time of the next PPS edge.

`javad_control` calls `javad_config` when the mode flag changes.
`javad_config` resets the tracker's fields and `ssize`, then sends three
command lines, and the edge switch (fudge flag 3) re-selects the PPS
capture edge through `javad_ppsapi`. In the spec's design the timer also
polls `javad_pps`, which takes the last edge the kernel captured as a new
sample, and binary messages are framed by `javad_recv`, which checks them
with `javad_cksum`.

**State.** Everything lives in `struct instance`:
- `ibuf[512]` and `ssize` (the line buffer);
- `gpos_gweek`, `gpos_sweek`, `gweek`, `lastsweek` and `timecode` (the tracker);
- the PPS fields.

Nothing is persisted across restarts.

## Modules

- **`GpsTime`**: the tracker.
  - Variables: the five fields, plus `tresult`, the value the last `javad_parse_t` returned.
  - `TrackerInit` and `Config`: `javad_config`.
  - `ParseTUnknownWeek` and `ParseT(raw, valid, utc)`: `javad_parse_t`, with
    `AnchorWeek` (the half-week tie-break, lines 633-647), `FollowWeek` (the
    natural rollover, 649-653) and `ParseTResult` (the flag checks, made
    *after* the state update, as in the code).
  - `ParseGposInvalid` and `ParseGpos(gw, sw)`: `javad_parse_gpos`, the
    `while` loop as `\div`/`%`.
  - The diagnostics of lines 655-676 and the billboard change no state the
    driver reads, and are left out.
- **`GpsClock`**: drives the tracker from a receiver that knows the true time.
  - `now` is the time of the last PPS edge.
  - `Pulse`: one or more edges happen (`MaxGap` > 1 lets pulse messages be
    lost), and the message of the last one is parsed.
  - `Gpos`: a position message at the next edge's time plus a skew from
    `GposSkew`, its `sweek` folded or carrying one extra week.
  - `GposInvalid`.
  - `Reconfig`: the mode switch of `javad_control`.
  - `GarbageSweek` lets a message flagged not valid carry any `sweek`.
- **`LineReceiver`**: `javad_receive`.
  - `ibuf` is a function over `0 .. CAP+1`. The two bytes past the array are
    there because the code writes them; what that does to the fields after
    `ibuf` is not modelled.
  - Bytes are the model values `CR`, `LF`, `NUL` and `A`.
  - `Clamp` is the clamp of lines 543-544; `Strlcpy`/`Copied` is strlcpy,
    which stops at a NUL; `LineEnds` is the scan.
  - `Shift` is the `memcpy` of the housekeeping. Its direction is chosen from
    `MemcpyOutcomes`, because the regions overlap. Memory read past
    `ibuf[CAP+1]` reads as `OutsideByte`. `Shift` is written in closed
    form, not as a recursion over the bytes. Copied forward, byte `j`
    gets byte `len + j`. Copied backward, it gets byte `len + t`, where
    `t` is the last of `j, j + len, j + 2 len, ...` that is at most
    `size`. TLC checked that this equals the byte-by-byte copy on small
    buffers. The closed form keeps `LineReceiver` free of recursion, so
    TLAPS can reason about it.
  - The three outcomes of a call are the actions `ReceivePartial`,
    `ReceiveLine` and `ReceiveShift`. The `abort()` branch is unreachable,
    since the scan only finds lines within `ssize`.
  - `Reset` is `ssize = 0` in `javad_config`.
  - `emitted` is the line the call printed, and `chunk` is the
    `recv_buffer` it was called with.
- **`LineBuffer`**: the abstract line buffer `javad_receive` promises.
  - `pending` holds the accepted bytes not yet handed out.
  - A chunk is appended, less what does not fit in `Room`, and the first CR
    LF line, if any, is handed out.
  - `LineReceiver` instantiates it with `pending <- Held` (the first `ssize`
    bytes of `ibuf`) and `Room <- CAP + 1`. The refinement is the property
    `LineSpec`.
  - Once `Room` bytes with no CR LF are held, every later chunk is
    dropped whole, for good, as in the code. Spec sections 3 and 4.2 say
    the buffer is truncated and reception continues. `LineBuffer` states
    what the code does, so `LineSpec` does not flag this difference.
- **`Session`**: one peer's life, with the variables `drv`, `rx`, `peer` and
  `ppflag2`.
  - `drv` is what the driver holds: the line (registered or closed), the
    instance, `pp->unitptr` (null, live or dangling), the PPS handle, the
    FLAG2 bit, and a fault flag set by a second free.
  - `Start` is `javad_start`, with one disjunct for each way through:
    - `refclock_open` or `io_addclock` fails;
    - `javad_ppsapi` fails, leading to `clean_up`;
    - `javad_config` runs, and `clean_up` follows if a write fails.
  - `ConfigSends` is `javad_config`'s three `javad_send` calls, stopping at
    the first failure. `Send` covers the three outcomes of `write`: all,
    part or none of the command.
  - `Control(f2)` is the mode switch of `javad_control`, which ignores what
    `javad_config` returns.
  - `Shutdown` is `javad_shutdown`, and `CleanUp` is the `clean_up` label.
  - `Unpeer` is ntpd calling `javad_shutdown`: for a running peer, and again
    after a failed start. That is what ntpd's `refclock_unpeer` does; it is
    not part of this repository.
  - `rx` is the receiver. It executes a CR-terminated line that is exactly
    one command and rejects any other line (spec section 6). A short write
    leaves a fragment in its command line.
- **`Pps`**: the PPS correlator.
  - The kernel is the environment: `Pulse` is edge `now + 1` of the
    pulse (odd edges assert, even ones clear), which the kernel records in
    `kinfo` (sequence number and stamp per edge) if the edge is in `kmode`,
    the mode it was last given. Timestamps are edge indices.
  - `PpsApi(a, getcapOk, setparamsOk)` is `javad_ppsapi`: a failed getcap
    changes nothing; otherwise `mode` is the selected edge if the device
    can capture it, and it reaches the kernel only if setparams succeeds
    and there is a PPS handle. `kcbind` is unreachable (`hardpps` stays 0).
  - `Init` is the PPS part of what `javad_start` leaves: no handle, or a
    handle with the assert edge selected.
  - `Control(f3, ...)` is the edge switch of `javad_control`, which
    ignores `javad_ppsapi`'s result.
  - `Pps(fetchOk)` is `javad_pps`: `PpsSkip` (no handle or a failed fetch),
    `PpsNoEdge` and `PpsSample`, the fetch overwriting `info` first.
    `Selected` and `NewEdge` are the edge choice and the sequence and
    timestamp checks. The conversion of the timestamp to `lastrec` is left
    out: no property tells it apart.
- **`PpsSampler`**: what the correlator promises, with no kernel records
  and no copy of the previous fetch. Its state is `now`, the selection
  `mode` and the last sample `ts`. Edges happen (`Tick`), the selection
  changes at will (`Select`), and a `Sample` is the time of an edge that
  has happened, of a selected kind, later than the last sample. `Pps`
  instantiates it with its own `now`, `mode` and `ts` (`Sampler`), and
  `SamplerSpec` is its specification.
- **`Checksum`**: `JavadCksum` is `javad_cksum`, the running sum wrapping
  at 2^16 after every word, `~sum + 1` computed in `int` and cut back to
  `u_short`. `CksumSpec` is the spec's definition, a fold of the plain sum.
  A small state machine enumerates word sequences to compare them on.
- **`FrameScanner`**: `javad_recv`.
  - `sbuf` is the byte sequence of the buffer, its length `ssize`.
    `JAVAD_SYNC` and `struct jheader` are defined nowhere in the
    repository, so the sync word is the constant `Sync` and the header is
    the six words of spec section 6.
  - `wire` is the receiver's remaining bytes, from a stream of pieces
    (valid messages or not); `Arrive` appends a chunk of up to `MaxChunk`
    bytes. `sent` records the valid messages and `out` the reported ones.
  - `SyncSkip` is the sync search with its two-byte skip; `Shuffle` is the
    overlapping `memcpy`, in the direction `MemcpyOutcomes` allows;
    `Checked` is the header checksum and flush, the payload wait, and the
    payload checksum and flush.
  - `RecvSynced` and `RecvResync` are the calls that find the sync word at
    the front or have to search. `RawWord` is the compare at line 969,
    which reads the sync word without `getshort`; the constant `BigEndian`
    selects the host.
  - `Consume` is the caller the spec describes, which removes a reported
    message. No such caller exists in the code.
- **`MCGpsClock`**, **`MCLineReceiver`**, **`MCSession`**, **`MCPps`**,
  **`MCChecksum`**, **`MCFrameScanner`**: constants for TLC. `MCFrameScanner`
  builds messages with `JavadCksum` and the little-endian bytes of words.
- **`GpsClockProofs`**, **`LineReceiverProofs`**, **`SessionProofs`**,
  **`PpsProofs`**: TLAPS proofs.

## Runs

| Run | Expect | Checks | What it shows |
|---|---|---|---|
| `gps_reliable` | pass | `TypeOK`, `TimecodeCorrect` | Reliable receiver: the time of the next edge is always right |
| `gps_lossy` | violation | `TimecodeCorrect` | A lost pulse message at the week boundary: the week is never incremented (line 649) |
| `gps_garbage` | violation | `TimecodeCorrect` | An invalid pulse message moves the week before the flags are checked (line 708); the spec says it is rejected |
| `line_refines` | pass | `TypeOK`, `LineSpec` | `javad_receive` implements `LineBuffer` for NUL-free chunks and a forward memcpy |
| `line_overflow` | violation | `BufferBounds` | The clamp is one byte too generous: data and NUL written past `ibuf` (line 543) |
| `session_release` | pass | `Released`, `NoDoubleFree` | Every failure path of `javad_start` releases what it acquired, exactly once, even though `javad_shutdown` runs twice |
| `session_short_write` | violation | `CommandsTakeEffect` | A short write leaves a fragment in the receiver's command line, and the next command, reported as sent, is rejected (line 801) |
| `pps_correlate` | pass | `SamplerSpec` | `javad_pps` implements `PpsSampler` across edge switches and failing PPSAPI calls: every sample is an edge that happened, of the selected kind, later than the last |
| `pps_mode_mismatch` | violation | `ModeAgrees` | A failed setparams in the edge switch leaves the kernel capturing the old edge while `javad_pps` reads the new one. `javad_ppsapi` logs the failure (line 353), but `javad_control` ignores its result (line 497) |
| `checksum_reference` | pass | `CksumMatchesSpec` | `javad_cksum` is the spec's negated sum modulo 2^16 |
| `frame_accepts_only_sent` | pass | `AcceptsOnlySent` | Only intact messages are reported, in order, each once |
| `frame_stray_low_byte` | violation | `FramesDelivered` | A stray low sync byte makes the two-byte skip jump over the real sync word (line 958); the spec scans byte by byte |


**Further configurations.** These cfg files are not among the runs
`PROJECT.json` lists, and the full check does not run them. Each is run
the same way, for example `tlc -config MCLineReceiverNul.cfg MCLineReceiver`.
The findings they support are recorded in `PROJECT.json` without a run.

| Configuration | Expect | Checks | What it shows |
|---|---|---|---|
| `MCLineReceiverNul.cfg` | violation | `LineSpec` | A NUL in a chunk: `ssize` counts bytes strlcpy did not copy, so stale bytes become data (line 548) |
| `MCLineReceiverBackward.cfg` | violation | `LineSpec` | The overlapping memcpy is right only if it copies forward (line 589) |
| `MCLineReceiverLines.cfg` | violation | `NoLineLeft` | Two lines in one chunk: the second waits for the next chunk, unlike the spec's chunking invariance |
| `MCSessionFailed.cfg` | violation | `RunningConfigured` | A failed write in the mode switch leaves the receiver silenced while the peer runs (line 506) |
| `MCPpsStale.cfg` | violation | `Fresh` | After a switch to the other edge, the first sample is the last edge of that kind captured before the switch, seconds old (line 407) |
| `MCFrameScannerHost.cfg` | pass | `FramesDelivered` | The raw sync compare on a big-endian host delays a message by one call but loses none |
| `MCFrameScannerSpecLayout.cfg` | violation | `FramesDelivered` | A message laid out as spec section 6 says (`payload_length + 1` words) is flushed: the code reads `len` words and a checksum (line 984) |
| `MCFrameScannerBackward.cfg` | violation | `FramesDelivered` | The resync's overlapping `memcpy` destroys the message if it copies backward (line 966) |

**The properties.**
- `TimecodeCorrect`: whenever the last pulse message was accepted, `timecode`
  is `GPS_EPOCH + now + 1`, the true time of the next edge. It takes the
  anchoring, the tie-break and the rollover together to be right over every
  interleaving of pulse, position, invalid-position and reset events.
- `LineSpec`: the buffer and the printed lines are exactly those of the
  abstract line buffer. This covers the clamp, the count added to `ssize`,
  the scan and the shift together.
- Each passing property has a mutant, a plausible bug TLC finds:
  - `FollowWeek` comparing `lastsweek` with `WEEKSECS` breaks `TimecodeCorrect`;
  - `ParseGpos` without the fold breaks `TypeOK`;
  - the clamp letting one more byte in breaks `TypeOK`;
  - the shift starting one byte early breaks `LineSpec`;
  - `javad_shutdown` not destroying the PPS handle breaks `Released`;
  - `clean_up` not clearing `pp->unitptr` breaks `NoDoubleFree`;
  - the clear branch of `javad_pps` reading the assert timestamp breaks
    `SamplerSpec`;
  - `javad_cksum` without the `+ 1` breaks `CksumMatchesSpec`;
  - `javad_recv` not checking the payload checksum breaks `AcceptsOnlySent`;
  - a resync that flushes the buffer on a raw sync mismatch breaks
    `FramesDelivered` on a big-endian host.
- `SamplerSpec` and `Fresh`: whether a new `instance->ts` is an edge that
  happened, of the selected kind and later than the last, and whether it
  is the latest edge of its kind. The first holds because the sequence
  check is against the previous fetch. The second fails after an edge
  switch.
- `AcceptsOnlySent`: the reported messages are a subsequence of the valid
  messages sent, whatever garbage, corrupted messages, chunking and copy
  direction. `FramesDelivered`: once the stream is read and less than a
  header is buffered, every valid message has been reported. It is checked
  only on streams with no corrupted message, since the spec itself
  flushes everything buffered on a checksum error.

**Bounds.**
- Tracker: a week of 6 seconds, skews `-2..2`, `now` up to 4 weeks. A
  skew of 2 is within half a week (3), so both directions of the tie-break
  and the rollover all happen, as do anchors taken in the week before or
  after the edge's (2247 states).
- Line buffer: `CAP = 4` with chunks of up to 3 bytes over `{CR, LF, A}`.
  Together these reach:
  - a full buffer, with the clamp cutting a chunk;
  - a buffer held at `CAP+1`;
  - a line split over chunks;
  - two lines in one chunk;
  - leftovers after a line;
  - a reset between chunks.

  That is 17,784 states. The code's 512 bytes change none of the index
  arithmetic, only its scale.
- Session: every outcome of every system call, and peers restarted after
  removal (158 states). The state space is finite, so nothing is bounded.
- PPS: both edges capturable, 6 edges (three seconds), every outcome of
  getcap, setparams and fetch. Three seconds allow an edge switch, edges
  of both kinds captured before and after it, and missed polls (11,706
  states).
- Checksum: every sequence of up to 4 words from 0, 1, 2, 32767, 32768,
  65534, 65535, so that the sum wraps once and twice and is 0 (2,801 states).
- Frames: four streams, with garbage before, between and after messages,
  messages with no payload and with one word, a bad header checksum, a
  bad payload checksum and a stray low sync byte. Chunks of up to 5 bytes
  split headers and payloads, so the waits for a header and for a payload
  both happen (888 states). The sync word is `0x81FF`, whose two bytes
  differ, so the two-byte skip and the raw compare are both visible.

**Fairness.** No module assumes fairness, and every property is a
safety property. The driver runs only when ntpd calls it, and nothing in
it must happen by itself. In particular nothing calls `javad_pps`: the
body of `javad_poll` is compiled out. So whether a captured PPS edge is
ever emitted is not a property of this code, and `Pps` is checked only
for what it emits (`SamplerSpec`). The liveness question of the line
buffer (a line left in the buffer) is stated as the invariant
`NoLineLeft`.

## What is proved

`GpsClockProofs` proves with TLAPS, for every `WEEKSECS >= 2`, every
`GPS_EPOCH \in Nat` and every set of skews with `2|k| < WEEKSECS`:

- **`TypeCorrect`**: `Spec => []TypeOK`. It goes through `TypeInv` (TypeOK
  and `now >= WEEKSECS`). Without the bound on `now`, a position message at
  a negative time could not be represented.
- **`ReliableTimecode`**: under `MaxGap = 1` and `~GarbageSweek`,
  `Spec => []TimecodeCorrect`. The inductive invariant `IInv` adds two
  facts, and TLC checks it as well:
  - `WeekTracked`: while the week is known, `gweek * WEEKSECS + lastsweek`
    is the time of the next edge.
  - `AnchorFresh`: while the week is unknown, a stored anchor is within a
    skew of the next edge.

  The argument runs in three steps:
  - Lemma `AnchorCorrect` proves the tie-break right for any anchor less
    than half a week away.
  - Lemma `FollowCorrect` proves the follow-on step right.
  - Lemma `GposAnchor` shows that folded and unfolded position messages
    store the same time.

`LineReceiverProofs` proves, for every `CAP >= 2` and every `MaxChunk`:

- **`LineTypeCorrect`**: `Spec => []TypeOK`, for every set of memcpy
  directions. `TypeOK` is inductive as it stands. It bounds `ssize` by
  `CAP + 1` and keeps every byte written inside `ibuf` and the two bytes
  past it. That includes strlcpy's NUL, the NUL after a printed line and
  the memcpy in either direction. It does not say those writes stay in
  `ibuf`; the run `line_overflow` shows they do not.
- **`LineRefinement`**: `Spec => LineSpec`, the refinement checked by the
  run `line_refines`. It has two hypotheses: no chunk byte is `NUL`, and
  the memcpy copies forward. These are the conditions of that run, and
  `MCLineReceiverNul.cfg` and `MCLineReceiverBackward.cfg` show that the
  refinement fails without either one. The proof goes step by step:
  - `Init` maps to `LBInit`, since `Held` is empty when `ssize = 0`.
  - Lemma `AcceptedClamp`: the abstract `Accepted(c)` is the part of the
    chunk the clamp lets in, because `Room - Len(Held)` equals
    `sizeof(ibuf) - (ssize - 1)`.
  - Lemma `CopiedAll`: with no NUL in the chunk, strlcpy copies all the
    bytes the clamp allows. `CopiedSpec` and `NatMin` show that the
    `CHOOSE` in `Copied` has a witness.
  - Lemma `AppendHeld`: after strlcpy, the first `Appended(c)` bytes of
    `ibuf` are `Held \o Accepted(c)`.
  - Lemma `LineEndsHeld`: the scan of `javad_receive` finds the abstract
    line ends, so `FirstLine(c)` is the abstract `CHOOSE`.
  - Lemma `RefineReceive` takes each outcome of a call:
    - `ReceivePartial` keeps the accumulated bytes;
    - `ReceiveLine` prints all of them and empties `Held`;
    - `ReceiveShift` prints the line, and the forward memcpy leaves the
      suffix of the accumulated bytes (lemma `SubSeqSuffix`).
  - Lemma `RefineStep`: `Reset` maps to `LBReset`, and a stutter maps to
    a stutter.

`SessionProofs` proves **`SessionReleased`**:
`Spec => [](Released /\ NoDoubleFree)`, for every set of write outcomes.
The inductive invariant `SInv` adds two facts:
- a failed peer has `pp->unitptr` null, so the second `javad_shutdown`
  does nothing;
- a running peer holds a live instance that `pp->unitptr` points to, so
  `javad_shutdown` frees it.

Lemma `ShutdownLive` states what `javad_shutdown` and `clean_up` do to a
live instance. **`SessionNoDoubleFree`** (`Spec => []NoDoubleFree`) states
the second half of `SessionReleased` on its own, as the run
`session_release` checks it.

`PpsProofs` proves, for every set of capturable edges, every number of
edges and every set of PPSAPI outcomes that includes success:

- **`PpsTypeCorrect`**: `Spec => []TypeOK`. It goes through the
  inductive invariant `IInv`, which adds three facts (TLC checks it too):
  - the kernel's sequence numbers and stamps are at most `now`;
  - the last sample `ts` is at most `now`;
  - an edge whose sequence number differs from the copy of the previous
    fetch is stamped later than `ts`. This is why the sequence check makes
    the samples advance: the fetch that emits a sample also refreshes the
    copy, so only an edge captured since then can pass the check.
- **`PpsRefinement`**: `Spec => SamplerSpec`, so `javad_pps` implements
  the abstract sampler. The mapping is the identity on `now`, `mode` and
  `ts`. The argument has three parts:
  - `Init` maps to the sampler's initial state.
  - A `Pulse` is a `Tick`, and a `javad_control` is a `Select`.
  - A `javad_pps` that sets `ts` is a `Sample` (lemma `SampleRefines`).
    Every other `javad_pps` is a stutter.

  The sample is `kinfo.stamp[k]` for the selected edge `k`, which is in
  `mode`. `IInv` puts that stamp in `ts + 1 .. now`. To show it is an
  edge of kind `k`, `IInv` is not enough: `StampKinds` adds that a
  nonzero stamp of kind `k` is an edge of that kind. It holds because
  only `Pulse` stamps, and it stamps the record of its own kind. TLC
  checked `IInv /\ StampKinds` on the `pps_correlate` instance before it
  was proved.

## What is only model-checked

- The violations, including `LineSpec` with NUL bytes or a backward
  memcpy.
- The inductive invariants, on the small instances, before they were proved.

- `CksumMatchesSpec`, and everything about `FrameScanner`.

`CksumMatchesSpec` is beyond TLAPS for
every word sequence: it needs induction over the sequence, which the
provers cannot instantiate. `Checksum` and `FrameScanner` also use the
folds of `SequencesExt`, which are `RECURSIVE`, and `FrameScanner` uses
recursive functions for the sync search and the backward memcpy. These
are checked only by TLC.

## What is not modelled, and the plan

Not modelled, and why:
- **Neighbouring fields:** what the writes past `ibuf` do to the fields
  after it.
- **Week overflow:** the 32-bit overflow of `gweek * WEEKSECS`, centuries
  away.
- **`lastrec`:** the conversion of the PPS timestamp into an `l_fp`. No
  property tells it apart.
- **`kcbind`:** `time_pps_kcbind`, unreachable because `hardpps` is never set.
- **PPSAPI with no device:** `javad_control` calls `javad_ppsapi` with
  `pps_handle` 0 after `time_pps_create` failed, so getcap and setparams
  act on descriptor 0. What that descriptor is belongs to ntpd.
- **Big-endian payload words:** only the sync compare depends on the host;
  `getshort` makes every checked word the same on both.
- **Message requests and debug output:** no state.

The plan for later work, in order:
1. A stronger abstract correlator that samples only the latest edge of
   its kind, refined when the edge is never switched. With switches,
   `Fresh` is violated (`MCPpsStale.cfg`), so `PpsSampler` promises
   less.
2. A caller of `javad_recv` that dispatches messages to `GpsTime`,
   composing `FrameScanner` with the tracker.
