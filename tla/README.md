# A verification model of the Nexus Q appliance software

This directory models the programs that make a Nexus Q a speaker again: the shell scripts
that `tools/build_debian_rootfs.py` installs, the C daemons beside them, and the proxy that
feeds them. Each module is written from the code; `PROJECT.json` names the lines of every
definition. TLC checks each module on small instances, TLAPS proves the most important
invariants for every value of the constants.

## The system

One board, one amplifier (`hw:0,0`), no service manager. Boot scripts start background
programs, which find each other through pid files and one-line state files in `/run`, and stop
each other by pid or by process name. Nothing takes a lock, except for the threads inside one
program.

| Part | State it keeps | Operations | Talks to |
|---|---|---|---|
| `nq-audio-owner` | `/run/nexusq-audio-owner` | claim, release, check-free, status, drop a stale record | every audio source |
| `nq-somafm-play`, its supervisor, `nq-play` | `/run/nq-somafm.pid`, `nq-somafm-player.pid`, the pipeline | play, `--stop`, restart the player | owner record, amplifier, Bluetooth |
| `nq-start-bluetooth-audio` (tap loop) | `active`, the codec, the pipeline | follow the A2DP stream, take over, give back, restart | BlueALSA, owner record, SomaFM, squeezelite |
| `nq-start-squeezelite` | `/run/nq-squeezelite.pid` | start, if the owner record allows | owner record |
| `nq-pcm-level-tap` | conversion carry, delay line, meter, gate, chime | filter PCM from a decoder to `aplay` | pipes, `/run` trigger files |
| `nq-adbd-lite` | channels, a stream per service, a process per connection | shells, push, pull, list, root, reboot | the host's `adb`, pseudo-terminals |
| `nq_somafm_usb_proxy.py` | warm buffers, the jukebox selection, the playlist cache | warm, select, stream, status | SomaFM, players over USB networking |
| `nq-nfc-poll`, `nq-nfc-jukebox`, `nq-nfc-map`, `nq-nfc-ack` | last tag and its time, pid file, tag map | poll for tags, play, bind a tag, chime | kernel NFC netlink, `nq-somafm-play`, owner record |
| `nq-knob-volume` | cached volume and mute, cooldown | turn, press | ALSA mixer, Bluetooth player, owner record |
| `nq-led-visualizer`, `nq-avr-i2c` | level history, cue files, animation | show levels, cues and volume | level file, cue files, front panel over I2C |
| `nqstreamd` | one stream connection | accept, play a stream | amplifier |
| boot: `initramfs/init`, `debian-loader-init`, `/sbin/nq-init` | marker files, mounts, watchdog | bring up USB, mount, switch root, start services | everything above |
| network, Wi-Fi, Bluetooth, time, provisioning | configuration files, leases | start, restart, write configuration | kernel, `wpa_supplicant`, BlueZ |
| rootfs and image builders | package sets, account files, sparse images | resolve packages, add accounts, write images | build host only |
| probe and analysis tools | captured logs | run sweeps on a bench device, classify results | build host only |

Hard behaviours: shell scripts of several boot services interleave between any two commands;
a check (owner record, pid file) and the act it justifies are separate commands; programs are
killed at any point, by pid or by name, and leave files behind; retry loops restart what
somebody stopped; streams are cut into reads and messages of any size; TCP peers stop talking or
talk ahead of the protocol; threads read a selection under one lock and act under another.

What makes each part correct is stated below for the parts that are modelled. For the others:
a reader that never goes deaf to the next card; the volume and the mute of the knob agree with the mixer; a cue
shows for its time and gives the ring back; a sparse image expands to its source.

## Modules

* `AudioOwner` - the owner record and the commands of `nq-audio-owner`. A command of the script is
  an action: test for staleness, remove, read, remove. `AudioArbitration` extends it.
* `AudioArbitration` - every program that opens or silences the amplifier, as listed in its
  header. `pc[r]` is the line a run of a program has come to; `sup` and `player` are the supervisor
  a play leaves behind and its `nq-play`; `tap` and `script` are the tap loop and a rerun of its
  script. `stop_player_tree` is three steps: it lists a supervisor and its players (`listed`), kills
  what it has listed, and removes the files. In the tap loop, where the `kill` follows the read at
  once, the two are one step and the removal of the file is another.
* `DelayedStream` - the abstract specification of the filter in front of `aplay`: each sample of the
  source once and in order, behind a fixed silence, and the delayed rest at the end.
* `PcmTap` - the path of a sample through `nq-pcm-level-tap`: a read of any length, conversion with
  carry, the ring buffer of the delay, write, and the flush at the end; signals and an `aplay` that dies.
  A sample is named by the input bytes it was made of (`NextSample`), so bytes that the carry drops show
  in what is heard.
  `Stream` instantiates `DelayedStream` with a refinement mapping, and `IsDelayedStream` says that the
  filter implements it.
* `SomaProxy` - the threads of the proxy: a warmer for each station, a handler for each connection.
  What is done under one lock is one step, a blocking write is another.
* `AdbTransport` - one connection of `nq-adbd-lite`. `toDev` and `toHost` are the TCP stream in each
  direction; `pc` says whether `handle_transport` is in `select`, blocked in `write_full`, or inside a
  service, which reads the same connection by itself. The host and the commands in the shells are
  the environment.
* `AdbdStart` - `nq-start-adbd`: `lockDir` is the lock directory, `listener` the daemon that has the
  port, `conns` the processes it forked for open connections and that outlive it. An attempt is look,
  spawn, verify, retry; a signal runs the trap and lets the script go on.
* `NfcJukebox` - `nq-nfc-jukebox` (`jukebox[l]`, a loop), `nq-start-nfc-jukebox` (`starter`, and
  its `start_default_station` in `autostart`) and `nq-nfc-map` (`mapper`), which know each other by
  `jukePid`. A kill, the removal of the file, the start and the write of the file are steps, and so are
  `trap -` and the start behind it. A player a loop started is in its process group and goes with it.
  `onExit` is the trap of a registration: `Signal` is one it catches, `Killed` and `StartCut` end the
  registration or the start it waits for.
* `Services` - the start scripts of the knob, the LED ring and Bluetooth: `alive` and `dying` are the
  processes of a daemon, `pidFile` what its file says, `run[r]` where a run of a script is.
* `Boot` - the stages of the loader and of `nq-init`, the three feeders of `/dev/watchdog` (`dog` is the
  device with the timeout written last, its holder and the holder's sleep), the autoreboot timer with its
  cancel, and the stages of `nq-reboot-fastboot`, its two calls of `sync` among them (`hung`: one that does
  not return). Loader and `nq-init` sleep by `nq.watchdog`, the remote tool by its own setting; each writes
  its timeout over the one before, and the driver may refuse it.
* `Network` - `nq-provision` (`prov`: what it still has to clear and to copy) and overlapping runs of
  `nq-start-network` (`netRun`), with power cuts. `disk` is what the medium holds of the secret files:
  nobody calls `sync`, so `WriteBack` happens at some time or never, and `loose` are the files that got
  their name before it. The state of Wi-Fi, DHCP, the clock and the firmware is there for the guards of
  the steps, and no property but the type invariant reads it.
* `BluetoothPlayer` - `nq-bluetooth-player`: it asks, picks and calls while phones change under it.
* `RootfsBuild` - `build_debian_rootfs.py` on the build host: the worklist of `resolve`, the download
  cache, the tree, and the image, over interrupted builds.
* `MC*` - instances for TLC. `MCStreams` and `MCAppliance` each hold several programs that share no
  state, so one variable, `which`, picks the one that runs in a behaviour; the others stay as they
  started. `*_proofs` - theorems.

`AudioArbitration` composes the owner record with its clients. The other modules meet it only at an
end: `PcmTap` is the pipeline that `nq-play` and the tap loop own in `AudioArbitration`; `SomaProxy` is one
source that feeds it; `NfcJukebox` sees `nq-somafm-play` as one step that works or fails and Bluetooth
as an owner that comes and goes; `AdbdStart` starts what `AdbTransport` models one connection of;
`Boot` reaches the stages at which `Services`, `Network` and `AdbdStart` begin.

### What is left out of the modelled parts

* Arbitration: pids are not reused; the jukebox-stream mode of `nq-somafm-play`, the NFC chime, the
  loading cue and the `bluealsa-aplay` fallback; what squeezelite itself does with the amplifier (only
  that it runs). Sleeps are steps without a duration. Three merges: the kills by name of `stop_players`
  (3821-3841) are one step; so are the claim of the tap loop and its `active=1` (1591-1592); and a rerun
  of the Bluetooth script starts the next loop only when an `nq-audio-owner` the old one had begun is over.
* PCM tap: errors of `read`, the meter, the startup gate and the chime, which change or look at one
  sample in place.
* ADB: the CNXN exchange, the listener (each connection is a process of its own), file names and
  contents, signals. A pseudo-terminal holds a fixed number of chunks and a command in a shell is a
  filter. An item of the sync protocol is never cut in two. The host acknowledges at once, drops what
  belongs to a stream it has closed, and never breaks the order of the sync protocol.
* Proxy: the direct stream of a station that is not warm (a connection that needs it stays there), the
  playlist cache, status pages, the prompt, and the search for an MP3 frame in the first chunk.
* NFC: the continuous scan (`NQ_NFC_SCAN_LOOP=1`), the cues of the LED ring, the listing of the map. Scans
  give a card or nothing: the kernel reader and its fallback are not told apart.
* Start scripts: options that are handed to the daemons, wait loops (a step that works or does not).
* Boot: the rescue init, mounts and the USB gadget; links and files `nq-init` sets up without a choice.
  Settings that leave a feeder no time are in the state space but not in `FedInTime` (`TooShort`): a
  timeout of 5 seconds or less, which is the least sleep; an interval of the remote tool that reaches its
  timeout; a timeout a third of `nq.watchdog` or less, since the driver refused the other or the remote
  tool wrote its own. A fallback that hangs in its second `sync` is left out as one in its first is.
* Network: two of the eight files of `nq-provision` stand for all of them, since the script treats each
  alike; the random seed, ntpsec and the exit status. The file system is assumed to write out a file
  before the name under which it replaces another one (ext4 with its default `auto_da_alloc`), but not
  before a name that was free.
* Builder: contents of packages, links, modes and accounts, which take input to output without a choice.
  So it is not seen that the exit statuses of `ar` and of `xz` or `zstd` are not looked at (213-230), and that
  a download whose connection closes early is taken for whole and kept in the cache (87-89).
  A package index has two packages, a virtual name and a name nobody provides.

## Runs

| Run | What it shows | Bounds |
|---|---|---|
| `arb_two` | two plays against a phone: one supervisor at a time; none while Bluetooth claims and streams | two plays, one phone connection |
| `arb_stop` | `--stop` silences; a Bluetooth record has a loop behind it | a play, a stop, a viewer, a phone, a rerun of the script |
| `arb_live` | the claim is released after the stream; a phone that keeps streaming gets the amplifier | a play, squeezelite, a phone |
| `arb_replace` (violation) | a play that has passed its check overwrites the claim of Bluetooth | a play, a phone |
| `streams` | the filter: no byte lost, it is a delayed stream, it ends; the proxy: each selection in order and once, one stale batch, selection and reconnection followed | 13 bytes, buffer of 5, reads of 3 to 5, delays 0, 1, 3; two stations, buffer of 3 bytes, chunks of 1 or 2, two selections |
| `pcm_short` (violation) | reads of one byte lose a carried sample | 7 bytes |
| `adb_shells` | input in order to the right command, output whole before its end, one unacknowledged write | two shells of one chunk each, a text service, all overlapping |
| `adb_sync` | every OPEN answered; every request answered or its stream ended; a host that waits for each answer is served to the end | two shells for one channel, a push, a list, a second push; connection loss |
| `adb_push` (violation) | requests sent ahead of the answers end the sync stream | the same, two items in a write |
| `nfc` | one jukebox at a time; one stopped for a registration comes back, with signals at any moment; the station of a card that stays is played | a boot, a registration, two stations, a card, three loops, one phone |
| `appliance` | start scripts, ADB start, boot, network, Bluetooth command and builder, one per behaviour | two runs of each script, one death, two faults, `nq.watchdog` of 4, 9 and 39 s with 10 s of the driver and 12 s, every 7 s, of the remote tool, two phones, 126 indexes, two builds |
| `boot_watchdog` (violation) | the remote feeder tool takes the lease of the loader for a root feeder, and the board resets | the boot of `appliance` |

Why the bounds are enough: two plays are the smallest number that race for the pid file, and a third
would only repeat what the second does to the first, as no program looks at more than one pid; one
phone connection is enough because the loop forgets everything but `active` between streams, and
`active` starts and ends FALSE. The PCM bounds include a delay longer and one shorter than a buffer, an input that
ends inside a sample, and reads that leave every remainder; the theorems cover the rest. A second shell is enough
to reuse a slot and to be mistaken for the first; the number of messages in transit is not bounded.
In `adb_sync` the shells send nothing and there is one channel, so that an OPEN finds none; in
`adb_shells` the terminals are larger than what is sent, so that `write_full` returns (see the hazard of `PROJECT.json`).
The proxy buffer takes two chunks or has to drop two for one, so the eviction loop runs more
than once; connections share nothing but the buffers, so one at a time is enough.
In `nfc` three loops let an old, a new and a spare one exist, and the mapper's own restart can meet the
boot's. In `appliance` two runs of a script are the smallest number that can overlap, and one run leaves
state for the other when they do not; the watchdog timeouts fall below and above the least interval
and below and above three times another one, and the lease ends between two feeds of one of them. `Network` is run by
halves, as the product of both is large: runs of `nq-start-network` beside `nq-provision` within one boot
(`which = "network"`), and `nq-provision` with the medium and power cuts over any number of boots (`"files"`).
They share the secret files only, which `nq-start-network` does not write; the theorems are about both at once. The 126 indexes are the combinations of no, plain,
virtual, missing and alternative dependencies of two packages, cycles among them.

Deadlock is not checked: all these programs may come to rest (the bounds of the environment are used
up, the phone is away, the host is silent, the device is down).

### History variables and the stretches that must not overlap

Several properties are false of the scripts without a condition, because scripts without a lock can overlap. What does
hold is that each fails only after two operations overlapped, and history variables record that.

* `overlaps` (arbitration) is the set of kinds that ever did: "fork", a supervisor that forked a player after a
  stop had listed it and before the kill; "pidfile", two runs between their
  look at the pid file and the file they write or remove, and "takeover", a play that has passed its check of the
  owner record while the tap loop takes over. `OneSupervisor` and `StopSilences` are stated for behaviours without
  the first (two overlapping plays do leave two supervisors, of which no stop reaches the first),
  `TakeoverSilencesSomaFM` for those without "pidfile" and "takeover". What `StopSilences` says of players is stated
  without "fork" too: a player forked in that moment does survive `--stop`, though its supervisor does not. `BluetoothClaimIsHeld` is stated for behaviours
  without a rerun of the Bluetooth script (a rerun during a stream strands the claim until the next phone).
* `mixed` (NFC): a start ran beside another start, or beside the stop of a registration (a start by its own
  trap included, which the rest of the stop undoes). `cut` (NFC): a signal ended a start before its spawn, or a
  registration where no trap brings the jukebox back ("unstarted": HUP, which is not trapped, and any signal
  between `trap -` and the start), or a start between its spawn and the pid file ("unnamed").
  `JukeboxRestored` is stated without either, `OneJukebox` without "unnamed".
* `crowded` (start scripts): a script ran beside another run of itself.
* `torn` (network): a power cut caught a file that had its name and was not written out.
* `hung` (boot): a `sync` of the reboot does not return. The first one runs before the fallback is forked, so
  nothing reboots then, and `FiredReboots` is stated for the rest.
* `broken` (ADB start): a signal took the lock from a run, or a killed run left it.
* `moved` (Bluetooth command): a phone changed under the command.
* `cancelled` (boot): a cancel has killed a sleeping timer; `CancelHolds` is about what comes after.

The mutants show that the conditions do not empty the properties: forgetting one kill, a pid file or a trap breaks
each of them without any overlap.

## Fairness

* Arbitration: weak fairness of each program that has a next command, as every runnable process is
  scheduled. Nothing is assumed of phones, of people who run commands, or of streams that
  end. `BluetoothGetsDevice` is stated for one play, since a second one can come at any time.
* PCM tap: weak fairness of the filter. `aplay` reads or dies; nothing makes the source send or end.
* ADB: weak fairness of the daemon, of commands that can read or write, and of a host that reads its
  messages and sends what it may. A connection that is not read is one the host has given up.
* Proxy: weak fairness of each connection's thread (its waits have time-outs). Nothing is assumed of the
  stations: a silent one must not keep a jukebox player from the next selection.
* NFC: weak fairness of the loop of the jukebox, of the reader that sees a card that stays, and of time
  (the cooldown ends). Strong fairness of `TagPlaySucceeds`: a play tried without end works in the end; this
  is an assumption about the network and the station, not about the scripts, and without it no
  retry could promise anything. Starts and registrations are under no fairness.
* ADB start: weak fairness of a run, whose waits are all bounded.
* Boot: weak fairness of the next stage of `nq-reboot-fastboot`: a `sync` that does not hang returns, the fallback runs in
  the background beside a reboot that hangs, and its last resort, sysrq, works. `SyncHangs` may happen instead at both
  calls of `sync`, and nothing is assumed of the reboots before the last.

## Proofs

`AudioArbitration_proofs` holds for every set of plays, stops, starters and viewers and any number of
connections and restarts, from `ArbitrationAssumption` (the sets are disjoint, a pid names its play).

* `TypeCorrect`: `TypeOK` with `PcOK`, which says what kind of run reaches which line.
* `OneSupervisorHolds`: needs `PidFileInv`. Until two operations on the pid file overlap, whoever has removed the
  file is alone with it, and nobody is alive between the kill and the next file.
* `TakeoverSilences`: needs `TakeoverInv`. No supervisor is alive at any line of the loop from its kill to the end
  of the stream.
* `ClaimHeld`: needs `ClaimInv`. At the release of the loop the command it runs is its own, and when that is done
  the record is not Bluetooth's.
* `StopSilencesHolds`: needs `PidFileInv` and `StopInv`. Until a phone has streamed, a shell of `nq-play` has its supervisor,
  and a stop that is about to kill has listed both, or a supervisor forked in between.

None of these is inductive as it stands, because each kill acts on what a file says, so the
invariants have to say what the file says at every line in between.

`PcmTap_proofs` holds for every buffer, delay and input length. `ReadsComplete` says that a read
returns at least what completes a carried sample; without it `AllBytesKept` is false (`pcm_short`).

* `BytesKept`: the arithmetic of the carry, by the two sample sizes.
* `TypeCorrect`, `OutputCorrect`, `CompleteWhenDone`: one invariant, `LineInv`. `RingOK` says which sample each cell of
  the ring holds, on both sides of the position; `CountsOK` relates what was converted, what
  is in the buffer and what the flush still owes. Only together are they kept by a step. `OutputCorrect` has the hypothesis
  `ReadsComplete`, and so has the refinement: with shorter reads aplay hears samples that are made of bytes of two,
  and TLC finds that. The other two need no hypothesis, as they count what was converted.
* `ImplementsDelayedStream` (under `ReadsComplete`): the initial states map to initial states of `DelayedStream`, and under `LineInv` each step
  maps to one of its steps or a stutter. A read is `Sends`, a write is `Hears`, the end of the input `Drains`; conversions
  and ring positions are stutters.

`SomaProxy_proofs`, for every set of stations and connections, chunks of any sizes, any buffer and any number of selections:

* `AtMostOneStale` needs `StaleInv`. A connection that took a batch of a station no longer selected
  has an older selection, and is at a line from which it looks at the selection before it takes more.
* `ProxyTyped`, `StationsHeardInOrder`: one invariant, `HearInv`, of `WarmInv` (a buffer is numbered without a gap
  up to the chunk read last), `JukeboxInv` and `ClientInv`. `Listened` relates what a player has heard, the batch its
  thread is about to write and the selection it serves.
* `Bytes` (a fold) and the batch of chunks after a number are recursive functions. They are unfolded by hand, and
  a sum is bounded by the least counterexample: the least length at which the claim fails has a shorter prefix at which it
  holds. For this `After` is a fold and not `SelectSeq`, about which the library has no fact.
* `StreamsTyped` carries the invariants of the filter and the proxy to the specification of the run.

`AdbTransport_proofs`, for every set of streams, script of the host, size of the channel table, of terminals and of writes,
overlapping or not, with or without connection loss. `Invariant` proves one inductive invariant, `Inv`, whose parts need
each other; the theorems below read their property off it.

* `TypeInv`, `PlaceInv`: types, and what `pc` says of `blocked`, `pending` and `serv`. `PairInv`: ids are handed out once, so an
  id names one stream for good. `HostInv`: what each message on its way says of the state of its sender. An action is first
  shown to be an append, a removal of the head, or neither, and the lemmas about those three
  (`OneAppend`, `Bars`, `AtMostOne`) do the rest.
* `Typing`: `TypeOK`. `OneWrite`: `OneOutstanding`, from `FlowInv` and `TurnInv`: of each shell there is at most one
  credit in each direction: the leave to send, the WRTE that used it, or the OKAY that gives it back.
* `InputOrder`: `InputInOrder`, from `InputInv`: what the command has read, what its terminal holds, what
  waits in `write_full` and what is on its way are, in this order, the numbers from 1 on.
* `OutputOrder`: `OutputComplete`, from `EndInv` (nothing follows a CLSE), `GreetInv`, `OutputInv` and `CompleteInv`: what the host
  has, what is on its way and what the terminal holds make up the output.
* `PatientIsServed`: `PatientHostServed`, from `Inv` and `PatientInv`: request and answer take turns, so the OKAY the
  service waits for is never behind a request. It has two hypotheses. `QuitsLast`: the host sends nothing behind QUIT.
  `Alone`: no other stream is open beside a sync stream. Both hold in `adb_sync`; without `Alone` the property is
  false, as TLC shows, since the service takes the CLSE of any stream for the end of its own.

`NfcJukebox_proofs`, for every set of starters, mappers, cards and stations, any retries and phones:

* `JukeboxIsOne` from `JukeInv`. Its part `Records` says which loop a start at each line has spawned; its part `Alone`,
  kept until something `mixed`, says that a loop that runs is the one the pid file names, or the one the only start has
  spawned and not yet written.
* `TypeCorrect`: `NfcTypeOK`, with `Spare`: the loops that starts may still spawn and those that are taken
  are together no more than `MaxLoops`, which makes the bound one on starts and not on pids.
* `JukeboxComesBack`: `JukeboxRestored` from `RestoreInv`: at each line of a registration between its stop and its end, it
  owes a restart, by its trap or by its next line, or a start that was begun owes a loop. It is proved for one
  registration (`OneMapper`): one that looks, and stops only after another has restarted the jukebox, stops what it has not seen.

`Scripts_proofs`:

* `LockIsExclusive` from `LockInv`. The lock is taken while a run is inside, until a signal takes it away.
* `DaemonsAreSingle` from `SvcInv`, for any number of runs: while nothing is `crowded`, one run of a script is at work,
  and what it has not yet stopped or written is what the pid file does not tell.
* `PhoneIsCalled` from `BtInv`, for any number of phones: a phone that is connected by its control is also connected as a media
  device, so the two ways of the command to choose one agree while nothing has `moved`.

`Appliance_proofs`:

* `HolderFeedsInTime`, for every `nq.watchdog`, lease, timeout of the driver, and timeout and interval of the remote tool.
  The seconds unfed and the seconds still to sleep add up to the sleep of the holder, which is less than the timeout
  unless the settings are `TooShort`. `CancelledForGood`: a cancelled timer does not sleep again, since the stage
  that arms it is past.
* `SecretsAreWhole` from `SecretInv`: a part, in memory or on the medium, is a file that a power cut caught loose, and
  what is moved is whole. `SshIsBack` from `ServerInv`, for any
  number of runs: if a run is done and none was hung up, the server listens or some run has killed it and is about to
  start it.
* `TypesCorrect`: the type invariants of all the programs of `MCAppliance` at once, from the invariant of each: `SvcInv`, `AdbdInv`
  (the daemons spawned are no more than the attempts begun, so a pid never runs out), `BootInv`, `BtInv`, `BuildInv`.

`RootfsBuild_proofs`, for every index and request: `SelectionIsClosed` from `ResolveInv`; the
property exempts the groups of the package in hand that are still to look at, without which it would hold only at the
end of a package. `ImageIsWhole` from `TreeInv`: what is unpacked at each step lies
within the selection, and is all of it from the configuration on.

The assumptions are those the modules declare. They name no size, except that a table, a buffer or a count of attempts is
not zero where the code has a positive constant; that sets of runs are finite (`NfcAssumption`, `AdbdAssumption`), because
loops and attempts are counted; and that names that mean "none" are not members of the sets.

Every invariant a passing run checks is proved. Model-checked only: liveness (`ClaimReleasedAfterStream`,
`BluetoothGetsDevice`, `EndsAfterSource`, `FollowsSelection`, `NewChunkHeard`, `OpenAnswered`, `RequestAnswered`,
`CardIsPlayed`, `AdbComesUp`, `FiredReboots`), which needs fairness and ENABLED.

## What the violations say

1. `arb_replace`: the promise that SomaFM does not stop Bluetooth holds only at the moment of the check.
2. `pcm_short`: very short reads shift a 24- or 32-bit stream by bytes. Pipes from the usual decoders deliver
   whole samples, so this needs an unusual source.
3. `adb_push`: a host that does not wait for the status of a file before it sends the next one loses the
   sync stream. One that waits is served (`PatientHostServed` in `adb_sync`).
4. `boot_watchdog`: with settings that leave every feeder time, the remote feeder tool, run while the loader's lease still holds the device, starts
   nothing, and when the lease is over nobody feeds.

## Not modelled

* NFC reader (`nq_nfc_poll.c`): one thread over a netlink socket. What the jukebox needs of it, a card or nothing, is `Scan`.
  Its order of messages and its continuous mode are hazards without a property.
* Knob and mute key: one event loop that turns keys into mixer writes; its start script is in `Services`.
* LED ring visualizer and front panel: frames drawn from a level and a cue file; its start script is in `Services`.
* Audio stream server: one connection at a time between a socket and the sound driver, and no state outlives it.
* Image tools: bytes laid out in one pass. Checking them means computing sparse formats, not exploring states.
* Audio probes and their analysis: signal processing and reports over recorded files, without state or concurrency.
* Bench scripts and amplifier tools: a fixed sequence run by hand against one device.
* Kernel patches and device tree: changes to a kernel whose source is not in the repository.

`PROJECT.json` lists every hazard of the code with the properties that would catch it, and says of the others why none does.

## Next

In this order: `NfcReader` (start poll, target event, recovery of a busy adapter, the continuous mode) under the `Scan` of
`NfcJukebox`; `KnobVolume` (cached volume and mute against the mixer); the direct stream and the playlist cache of the proxy; an
abstract amplifier (one source at a time, handed over) that `AudioArbitration` implements while nothing overlaps. Theorems:
action properties that say what no step may do (an id is never handed out again, the owner record changes hands only through
a command, a package is never taken out of the selection), and the refinement of the abstract amplifier.
