# benchpod-cli in TLA+

This directory holds TLA+ specifications of `benchpod`, the command line tool for BenchPod
hardware-in-the-loop test pods, the TLC configurations that check them on small instances, and
TLAPS proofs. Paths are relative to the repository (`src/` is its root); `PROJECT.json` maps every
definition to the lines it stands for.

```
tlc -workers 2 -config MCPodSession.cfg MCPodSession     # model-check a run (PROJECT.json, "runs")
tlapm PodSession_proofs.tla                              # check the proofs of a component
```

## 1. The system

`benchpod` is a process per command. It keeps no daemon, except `usb-bridge` as a service. It talks
to a pod over its TCP API (8080 plaintext, 8443 TLS), over its USB serial console, or through the
embeddedci.com cloud; to the cloud's HTTP API; to OpenOCD and dfu-util as child processes; and it
keeps a few files in `~/.config/benchpod-cli` that all processes share.

| component | state | operations | what makes it hard |
|---|---|---|---|
| pod session, `tcpclient/session.go` | connection, mutex, `broken`, the connection's deadline | `Open`, `Command`, `Broken`, `Close`, a watcher goroutine per command | replies owed after a timeout, deadlines shared by commands, Ctrl-C |
| pod client, `tcpclient/client.go` | none between commands | `Command`, `Samples`, `dialWithRetry` | retry budget, chunked replies |
| LAN TLS, `tcpclient/tls.go`, `lantls.go` | `known_pods.json`, `noTLS` of the process, the mutex `pinMu` | dial plan, probe, `checkPin`, `SetPin`, `DeletePin`; `lan-tls` trust, forget, regenerate, set-cert | downgrade, processes that share a file, a file that cannot be read, a certificate changing meanwhile |
| saved TLS sessions, `tcpclient/tls_sessions.go` | `tls_sessions.json` | `Get`, `Put`, `forgetSessions` | the same file in several processes; a resumed session shows the certificate it was made with |
| SPI flash, `spiflash/spiflash.go`, `spiflash.go` | `started`, `resetHeld`, the session; on the pod the SPI engine's owner and the reset line | status, hold reset, `spi_start`, flash commands, `spi_stop`, release | cleanup after lost replies and Ctrl-C, other clients; ranges cut into requests, sectors wider than the range |
| USB bridge, `usbbridge*.go` | the listener, `setByUs`/`setOn`, the pod's proxy setting | pick, read, listen, set, serve, wait, clear; `uninstall` | unplugging, kills, an `Accept` that fails, a setting left on a device |
| uploads, `serialconsole/upload.go`, `blobs*.go`, `flash_self_network.go` | offset, attempt, manifest; on the pod staging area and slots | manifest halves, begin, chunks, status, end, commit, wait for the pod | a lossy console, late answers, retries, a pod that restarts by design |
| serial console and Wi-Fi, `serialconsole/*.go`, `commands_serial.go` | the byte stream, what was captured of it | `sendCommandWait`, set-wifi, show-network, scan-wifi, clear-wifi, bootsel, dfu, power | where a reply ends; dropped and interleaved lines; ports that vanish; a bridge that joins later |
| flash, `openocd/*.go`, `flash.go`, `tcpclient/dap.go` | child process, listener, two copy goroutines, both links | options, arm, listen, start, accept, copy, wait, close, verdict | accept against exit, exit against end of stream, Ctrl-C against everything |
| account, `authstore`, `serverapi`, `helpers.go` | `token.json` | login, `ensureTokens`, save, logout | refresh tokens that may work once, several processes, a crash before the save |
| firmware reports, `fwreport.go` | `firmware-reports.jsonl` | report, retry once, cap | two processes, a send failing half way |
| registration, `commands_register.go`, `commands_deregister.go` | the account's pods, the pod's cloud settings | register then provision; deregister then clear | half of it done |
| discovery and connection, `commands_discover.go`, `connection*.go`, `usbnet.go`, `benchpodconfig` | `config.json`, `podNameCache` | discover and its verdict, `--save`, set-connection, resolve a name or `usb` | pods that move and are seen twice, device paths and addresses that become another pod's |
| DFU update, `flash_self.go`, `serialconsole/probe.go`, `select.go` | consoles held open, `LastSerial`, `flashedPodSerial` | probe and choose a console, `--enter-dfu`, wait, dfu-util, wait, blobs | several pods, a port with a twin, a tool killed half way, buttons pressed |
| others | | setup wizard, signature checks, pod settings, instruments | sequences of the above, external programs, or pure functions |

How they interact. `lanSession` (uploads, LAN TLS set-cert, Wi-Fi over USB) and `runSPIWith` run on
a `Session`. Every other network command is one `Client.Command`, a connection of its own. Both
start in `Client.dial`, which reads and may write the pins. Before that the command has resolved
which pod it is for (discovery and connection), which may take a console of its own. The USB bridge
asks pods over one-shot connections. Uploads run on a `Session` or on the console. `flash-self`
reboots a pod into its bootloader or uploads firmware, waits, and installs blobs; `reportFirmware`
runs at the end of both. `flash` bridges OpenOCD to the pod over the network or over the console,
whose port is then the link.

What makes each correct, in one line:

- session: a reply goes to its own request, or the session is dead; a command ends when its context does;
- pins: a first certificate is recorded, only that one is accepted, a pinned pod is not dialled in plaintext, a pin that was reported is in the file, and an alarm has a cause;
- SPI flash: whatever a run claimed it gives back, in the order safe for the target, and nothing else is touched;
  a reported success is one, and the flash next to the range stays as it was;
- USB bridge: it clears what it set, does not replace someone else's proxy that it has seen, serves again after a replug;
- uploads: the outcome reported is true, no chunk is skipped or resent blindly, a few losses are survived, it ends;
- console: a reply is read to its end, what is reported is what the pod did, and the command ends;
- flash: the verdict is what happened, nothing runs on, and the pod leaves its debug mode;
- account: however many commands refresh at once, the saved session is one the server takes;
- reports: answered, tried twice, or waiting in a queue that stays short;
- registration: the account and the pod agree, or a command said that they do not;
- discovery: the advice is about the pods that are there; a name reaches its pod or none; a default survives a move;
- DFU update: one console is opened, the right one; success means a whole image and its blobs.

## 2. The modules

| module | models | state and actions against the code |
|---|---|---|
| `RequestReply` | the contract of `Session.Command` (doc comment of `session.go`) | `outcome` of each command, `dead`; `Answer`, `Reject`, `Lose`, `Refuse` |
| `PodSession` | `Session.Command` step by step, `watchContext` | `mu`, `broken`, `deadline` are the fields; one action per statement that other goroutines can see (`Acquire`, `SetDeadline`, `StartWatcher`, `Write`, `ReadReply`, ...); `toPod`, `toCli`, `link` are the connection |
| `SpiFlashSession` | `runSPIWith`, `spiflash.Session`, `cleanupCommander` | `at` is the request the run is at; `started`, `resetHeld` as in the code; `Send`, `Receive`, `Lose`, `FailUnsent`, `FnReturns` |
| `SpiFlashRange` | `spiWrite`, `Pod.Erase`, `Pod.Write`, `Pod.ChipErase`, the refusals of `checkRange` and `fits` | `step` is the loop, `pos` is `Erase`'s `at` and `Write`'s `addr + off`; `EraseStep`, `WriteStep`, `ChipErase` are one request each, `RequestFails` is one that is refused or unanswered; `cell` is the flash, `wear` counts erases |
| `SpiFlashRun` | a whole `write` or `erase`: the run of `SpiFlashSession` with the requests of `SpiFlashRange` as its flash commands | each action is one of the session's, with what it means to the loops of `fn`: `RunReceives` an answer, `RunLoses` and `RunFailsUnsent` none; `LoopEnds` and `RunReturns` are `fn` between its requests |
| `UsbBridge` | `watchBridge`, `serveBridge`, `clearBridgeProxy` | `at` follows the loop body, `uat` uninstall; `setOn` as in the code; `leaked` are the links whose listener a failed `Accept` left open; `late` is a request the pod executes after its client gave up; a proxy is ours, ours on another port (the bridge compares host and port, uninstall the host), or foreign |
| `KnownPods` | `Client.dial`, `checkPin`, `SetPin`, `DeletePin`, the `lan-tls` commands, saved TLS sessions | a thread is a process with its one command, `noTLS` its memory; `pins` and `session` are the two files; `snap` is what `loadPins` returned and `savePins` writes back; a read of the pins may fail (`blind`: a look-up of the dial could not read them) and so may a write; `pinMu` orders nothing here, for no command has two goroutines that use the pins |
| `PodUpload` | `Console.UploadSigned`, `lanBlobs.UploadSigned`, `uploadFirmwareLAN`, `waitForPodOnNetwork`, `installBlobsList` | `at` is the exchange the host is in; `toPod`, `toHost` the lines in flight; `stage`, `sigs`, `slot` the pod, after the tests' `podUploadSim`; `exit` is which of the reports the command ends with: nothing was written (`kept`), written but did not come back (`away`), updated but for its blobs (`updated`), success, or another error |
| `Account` | `ensureTokens`, `saveTokensFromResponse`, login, logout, `reportFirmware`, `runRegister`, `runDeregister` | one command per process, one action per read, request, save or truncation; `file` is `token.json`, `queue` is `firmware-reports.jsonl`, `pend` and `keep` are `reportFirmware`'s lists; `valid` and `device` are the server, `podCfg` the pod |
| `FlashBridge` | `runFlash`, `openDAP`, `openocd.Flash`, `runBridge` and its goroutines, `dapConn` | `pc` is main; `accept`, `waiter`, `toPod`, `fromPod` are the other four goroutines; `listener`, `conn`, `ocConn` what the deferred calls close; `exited`, `podDropped` as in the code; six counters say where the packets are; `lostAt` says when the pod's side was lost: before OpenOCD's exit, or after it and before main heard of it |
| `SerialConsole` | `sendCommandWait` and the commands that read their outcome out of what it captured | `acc` is the captured text, `grace` the shorter deadline once a prompt was seen; `out` is the unread stream, as tokens; `podIn`, `todo` are the pod's shell |
| `Discovery` | discover, `correlate`, `printRegistrationVerdict`, `--save`, `runSetConnection`, `parseTarget`, `networkTarget`, `localUSBPod`, `usbNetAddr` | `pc` is the command's place; `usbPods`, `netPods` what it found; `heard` is `podNameCache`; `conn` is the saved default and `meant` the pod it was saved for. A target is a device path, a LAN address, a USB link or a name; `port` and `lease` say which pod is behind a path or an address now, `had` which have been, and `Move` plugs pods and moves them to other paths and addresses |
| `DfuUpdate` | `runFlashSelf`, `enterDfuViaConsole`, `openBenchpodSerial`, `selectPort`, `installBlobsAfterFlash` | `todo`, `found`, `held` are the ports of a probe; `serial` is `flashedPodSerial`, `hint` is `LastSerial`; the pods, dfu-util and the person's buttons are actions of their own |
| `MCPodSession`, `MCUsbBridge`, `MCKnownPods`, `MCPodUpload`, `MCAccount`, `MCDiscovery` | the instances and symmetries for TLC | `SpiFlashRun`, `FlashBridge`, `SerialConsole` and `DfuUpdate` need none: their `.cfg` files give all they declare |
| `PodSession_proofs`, `KnownPods_proofs`, `UsbBridge_proofs`, `Account_proofs`, `FlashBridge_proofs`, `Discovery_proofs` | theorems about the module they extend | section 5 |
| `Updates_proofs` | theorems about `DfuUpdate` and `PodUpload`, which it extends both | section 5; for its sake the names of `PodUpload` that `DfuUpdate` has too begin with `Upload` (`UploadSpec`, `UploadTypeOK`) |
| `SpiAndConsole_proofs` | theorems about `SpiFlashSession`, `SpiFlashRange`, `SpiFlashRun` and `SerialConsole`, which it extends all | section 5; likewise the names of `SpiFlashRange` that would clash begin with `Range`, the names of `SerialConsole` that `SpiFlashSession` has too begin with `Console` (`ConsoleSpec`, `ConsoleTypeOK`), and its `Send` is `SendLine` |

Composition. `PodSession` implements `RequestReply` through a refinement mapping. `SpiFlashSession` and the
network half of `PodUpload` stand on that contract: they take a session as one round trip at a time that is
broken by its first lost reply, and leave open whether the pod executes a request whose reply was lost, and
when. `SpiFlashRun` composes `SpiFlashSession` with `SpiFlashRange`, what the flash commands in the middle of
its run do to the part: a step of the command is a step of each module or a stutter of one (theorem
`RunIsBoth`). `Discovery` takes the probing of
consoles as one step with the outcomes that `DfuUpdate`'s `OneConsole` leaves; `FlashBridge` takes the reply
to a console's power command as true or an error, which `ReportIsTrue` says of `SerialConsole`'s `power` flow.

What is external: the pod's side of each protocol (modelled from the repository's fakes and tests
and from how the code uses it), the network, the cable, the user, the service manager, OpenOCD,
dfu-util, the server and other clients. Each can do at any step whatever the code must expect:
refuse, answer late, never answer, restart, drop the connection.

Abstractions. A certificate, a pod, a proxy address, an image, a network are model values or members
of small sets. A pod's key, serial number and device id are the pod itself, or missing. Timeouts are
choices: a wait may end once the answer cannot have come (`CanTimeOut`, `Lose`, `CanFail`). A failed
write is a lost request. The byte format of lines is left out; which line a wait takes for its answer
is kept (`PodUpload.Wire` maps `upload-sig` queries and halves to the first words they share;
`SerialConsole`'s tokens keep what a prompt, an echo and a field look like to the code, so that a
fragment of a log line is the same token as a prompt). A packet of the debug bridge is only counted.

## 3. The runs

| run | instance | shows |
|---|---|---|
| `session` | 3 commands, 1 timed | `ReplyMatchesRequest`, `NothingOwed`, `ImplementsRequestReply`, a reply is only lost for a reason (`LostForAReason`); with fairness `EndedContextUnblocks` |
| `spiflash` | `SpiFlashRun`: 8 cells in sectors of 2, erase requests of 4, write requests of 3; every range, with and without erase and verify, a part of 4 or 8 cells, whose size the pod knows or does not (a range beyond it wraps around), good or bad, a pod that says what it erased or does not, a refusal at any request. One of the writes (`Disturbed`) also with and without `--nreset`, on pods that serve one client or many, prompt or not, with Ctrl-C, resets and another client | what a run claimed it undoes (`EverythingIsCleanedUp`), a busy engine it leaves alone (`BusyIsLeftAlone`), order of pins and reset (`PinsFreeBeforeReset`); a success is one (`ResultIsTrue`), what lies outside the range is kept (`NeighboursKept`), no sector is erased twice (`ErasedOnce`), the loops end (`RangeEnds`) |
| `usbbridge` | 2 pods, named and unnamed, one-shot and watching, another client that sets or clears the proxy `MaxOthers` = 1 time, `MaxLeaks` = 1 link with a listener left open | `StopClears`, `UninstallHeals`, `ForeignProxyStays`, `PicksUpAgain` |
| `knownpods` | 2 processes, 2 pods, 2 certificates, every pair of commands and TLS modes, plain commands that connect up to `MaxDials` = 2 times; reads and writes of the pin file that fail, lost replies, a certificate changed elsewhere | `PinnedNeverPlain`, `PinAsReported`, `AlarmHasACause` |
| `upload` | 2 blobs, images of 2 chunks, 3 attempts, 2 lost messages, 2 late answers, both transports | `OutcomeIsTrue`, `NeverAheadOfThePod`, `ChunksGetThrough`, `ManifestAsReported`, `UploadEnds` |
| `account` | 3 commands, `MaxAtOnce` = 2 at a time, tokens that age `MaxExpiries` = 2 times, a server that does or does not end used refresh tokens, with and without an API key | `SessionSurvives`, `QueueHoldsOne`, `ReportSettled`, `HalfDoneIsTold` |
| `flash` | 2 packets, 2 in flight, both transports; a pod on the network may stop reading | `VerdictIsTrue`, `NothingLeftRunning`, `EndsDisarmed` |
| `flash_stalled` | the same, a pod on serial may stop reading | `FlashEnds` fails (finding 1) |
| `console` | every command, set-wifi for the old and a new network; 1 fragment like a prompt, 1 dropped line, 1 more poll of a bridge | `ReadToItsEnd`, `ReportIsTrue`, `CommandEnds` |
| `discovery` | 2 pods, 2 device paths, 2 LAN addresses, 2 commands one after the other, 2 moves, of which `ScanMoves` = 1 within a discover | `VerdictIsTrue`, `NameReachesIt`, `NoLinkSaved` |
| `dfu` | 2 pods with 2 ports each, 1 press of a button beyond the start | `OneConsole`, `UpdateIsTrue` |
| `dfu_blobs` | the same, no press | `BlobsAreThere` fails (finding 2) |

No run checks a type invariant: that of every module with a component's state is proved (section 5).

Why the bounds are enough. Three commands are the least for a late watcher of one, the reply owed to a second
and a third that would read it. The write that is disturbed sends three flash commands, which gives every
position of an interrupt: first, between and last; what its session can run into does not depend on the range,
so the other ranges are refused or answered only (`MaxWork` = 6 is more than any of them needs). In the flash
of 8 cells a range can begin and end within a sector, take two erase requests and three write requests, the
last for less than a whole one, and pieces straddle sectors. Two pods are what it takes to set the proxy on
one and clear the other, to mistake one for the other, and to be told there is more than one. Two processes,
pods and certificates give every pair of operations on the same and on different entries of the file; the second
connection of a command is the first that finds a saved session of its own or remembers a refused port. Two
chunks make a first and a last one, two blobs a second round with what the first left on the wire; three
attempts with two losses reach the last attempt, and more losses than attempts are not promised anything. The
code makes five attempts (`uploadChunkAttempts`); nothing depends on the number but the bound on losses. Three
commands of an account are a report, the run that retries it and one more, or two that refresh at once and one
that comes after; two agings take a session from fresh to dead. `Mixes` keeps the reports and the commands on
the pod in separate behaviours: they share `token.json` only, and there both take the same steps
(`Credential`, `Refresh`, `SaveTokens`). Two packets with a window of two have one on its way when the other
is answered, and one unanswered when OpenOCD leaves. One fragment ends one read early and leaves its reply to
the next; one dropped line takes any line of any reply; one more poll is one in which the bridge has moved on.
Two commands of `Discovery` are one that saves a default and one that uses it; two moves are the pod that was
meant leaving and another taking its path or its address. `discover` is started only before a default is saved, which it
does not read. Symmetry is used where no property is temporal with a quantifier over the symmetric set
(`account` and its two and `discovery`, whose properties are all invariants; `knownpods`, whose
`AlarmHasACause` is about single steps and invariant under permutation).

`CHECK_DEADLOCK FALSE` is set where the system stops without a step of its own to say so: every
command ends, and then nothing more has to happen. The four modules written with a final stuttering
step check deadlock: `FlashBridge`, `SerialConsole`, `Discovery`, `DfuUpdate`.

Fairness.

- `PodSession`: goroutines keep running (`RoundTrip`, `Watch` of each command); nothing is asked of
  the pod, the link or the clock. `Acquire` has no fairness, so `EndedContextUnblocks` says nothing of a
  command that waits for the mutex: the code does not watch the context there.
- `SpiFlashRun`: the process runs, and a request without an answer comes to its timeout (a chip erase to its
  context): `HostStep`. A prompt pod answers what it serves (`PodServes`); one that is not need not.
- `UsbBridge`: the process runs and its requests time out (10 s in `bridgeSetProxy` and around each
  question), the service manager restarts a service that died (`Restart=always`, `KeepAlive`: launchd and
  systemd; the Windows task starts it again only at the next logon, and there `PicksUpAgain` is not
  claimed after a kill). Nothing collects a listener that a failed `Accept` left open (`Collected` is not fair).
- `PodUpload`: the host runs and its timeouts fire; the pod handles what arrives.
- `FlashBridge`: each goroutine runs when it can; a closed listener ends `Accept`; the total timeout
  comes (`CtxDone`); a killed process exits; a pod that can still read acts on dap_start and on the
  closed connection or the leave frame. Nothing is asked of OpenOCD, of the link, or of a pod that stalls.
- `SerialConsole`: the process runs, and the deadline of its context comes (`CtxExpires`): every console
  command has one. Nothing is asked of the pod.
- `KnownPods`, `Account`, `Discovery` and `DfuUpdate` claim no liveness: what they
  wait for has a timeout which is a step of the model, but nothing checks that they end.

Users, cables, other clients, kills and losses are never fair.

Properties that exclude something say so in their formula. Excluded are: answers that came after
their timeout where the code cannot tell them from the right ones (`NeverAheadOfThePod`,
`ManifestAsReported`), lost answers to a request that is not repeated, and a bridge that
served two pods (`StopClears`), a proxy set between the look and the request (`ForeignProxyStays`), a link whose
listener was left open (`PicksUpAgain`), a pin file that could not be read (`PinnedNeverPlain`), a write by a
process that had read the pins before (`PinAsReported`), a commit whose answer was lost (`OutcomeIsTrue`, of
firmware said to be written), a refused or lost `spi_stop` (`PinsFreeBeforeReset`), a report without a credential
(`ReportSettled`), a link that is lost between OpenOCD's exit and main's hearing of it (`VerdictIsTrue` of
`FlashBridge`), a path or an address that has been both pods' (`NameReachesIt`, `VerdictIsTrue` of `Discovery`), new tokens that never arrived or were never saved (`SessionSurvives`),
commands of one kind that overlap or are killed (`ReportSettled`, `HalfDoneIsTold`; reporting is
best-effort and nothing is promised there), consoles that do not echo and, for some outcomes, log
fragments or dropped lines (`ReadToItsEnd`, `ReportIsTrue`: the code has then nothing to go by), joining
through a bridge the network the pod already had (`ReportIsTrue`: the bridge's status is of the network), a
second pod put in DFU mode by hand (`UpdateIsTrue`). `flash` excludes the stall on serial by its
constant `Stalls`; that is `flash_stalled`; `usbbridge` has no foreign
proxy on our host and another port, which the theorem `ForeignStays` does have. Each of these cases is a hazard
of its own in `PROJECT.json`, or part of one, and where a comment or the help promises the opposite a
configuration of section 4 shows it.

## 4. What the runs found

Two disagreements between the code and what its comments say are runs that expect a violation:

1. `flash_stalled`. On serial the pod's end of the bridge is `dapConn`, whose `Close` writes the leave
   frame before it closes the port, with no write deadline. A pod that has stopped reading while a
   packet fills the port blocks that write; `runBridge` never gets to `wg.Wait`, and neither Ctrl-C nor the
   total timeout, which only stop OpenOCD, ends it. The comment in `openocd.go` says that the bridge closes
   the connection so that it "never has to write an in-band "leave" frame (which could block on a stalled
   pod)".
2. `dfu_blobs`. A pod put in DFU mode with its buttons has no serial number to `flash-self`, and stays off
   USB after the update until RESET is pressed. With another pod plugged in, the blobs go to that one, and
   `flash-self` reports success for a pod that is missing its own.

Further disagreements can be reproduced with configurations that are not runs of the project:

| configuration | property | what it shows |
|---|---|---|
| `MCPodSessionStale` | `OwnContextOnly` | `watchContext`'s goroutine is not waited for: it may take `ctx.Done()` after its command has returned (`spiflash.Pod.call` cancels at once) and push the connection's deadline into the past under the next command, which fails and breaks the session. `Command` says "ctx bounds this round trip only". `LostForAReason`, which the code does have, says that this is the only way a context of another command gets to a round trip. |
| `SpiFlashSessionPins` | `PinsReleasedAtEnd` | After an interrupted command cleanup dials a fresh connection, but the broken main one is closed only after cleanup (`spiflash.go`: 149); a pod that serves one client at a time does not get to it. The help (`cmd/benchpod-cli/spiflash.go`: 42-43) says "The SPI pins are always released at the end, also on an error or Ctrl-C." Whether a pod serves one client at a time is the firmware's business; `client.go` (4 and 48) says that it does. |
| `MCUsbBridgeLeft` | `NothingLeftSet` | Set on A, unplug A, set on B, plug A in again, Ctrl-C: only B's proxy is cleared, and the run ends without an error. The help says that it "clears the pod's proxy again". |
| `MCUsbBridgeRace` | `NeverReplaced` | The pod's proxy is read in one connection and set in a later one: a proxy that another client sets in between is replaced, although the help says "It refuses to replace a proxy the pod already has". |
| `MCUsbBridgeLeak` | `ServesAgain` | When `Accept` fails, `serve` returns and nobody closes the listener: with --watch every later `net.Listen` on the link's address fails, because the process itself holds it, until the finalizer runs. The help says that it "picks the pod up again when it comes back". |
| `MCKnownPodsTwo` | `PinsAddUp` | `pinMu` guards one process, and a command is a process. Two that change different pods' pins lose one change, after both reported success. |
| `MCKnownPodsUnread` | `NeverDowngraded` | `GetPin` takes a `known_pods.json` that cannot be read for one without a pin, so a pinned pod whose 8443 refuses is dialled in plaintext. The comment at `tls.go`: 10 says "With a pin, a pod that stops answering TLS is an error, never a silent downgrade." |
| `MCPodUploadWritten` | `WrittenIsWritten` | A commit that is not answered is taken for done (`uploadFirmwareLAN`: the pod restarts). When the request itself was lost the pod keeps its firmware, and `flash-self --network` ends with success, with "the firmware was written, but the pod did not come back", or with "the firmware is updated, but ..": it compares no version. |
| `MCAccountOffline` | `OfflineReportKept` | `fwReportPost` takes every failure of the credential for "not signed in": offline with an expired access token the refresh fails, and the report is dropped although the user is signed in. |
| `MCAccountRerun` | `RerunClears` | When `cloud_clear` fails, deregister warns: "re-run with the pod reachable". The second run looks the pod up in the account's list, which leaves deregistered pods out, and never reaches `cloud_clear`. |
| `MCDiscoverySave` | `SaveNeverGuesses` | With one pod on the network and another on USB, `discover --save` saves the network pod without asking; `saveTarget` says it "never guesses between two pods". |
| `MCDiscoveryMoved` | `DefaultIsThePod` | A default is an address or a device path, and nothing compares the pod that answers there with the one it was saved for: when another pod has taken the lease or the path, commands go to that one. `helpers.go` (53-57) knows of the stale address, but hints at it only when nothing answers. |
| `FlashBridgeCleanExit` | `CleanExitIsSuccess` | OpenOCD exits with 0, the pod's link ends, and `runBridge` hears of the latter first: `flash` says that the link dropped "before OpenOCD finished". The comment at `openocd.go`: 9-10 says "OpenOCD owns the flash verdict: a clean exit (code 0) is success." |
| `SerialConsoleJoin` | `JoinIsConfirmed` | Without a Wi-Fi bridge, when the lines that tell of the failed join are dropped, the state read back may be taken for a join that was not made. |

## 5. The proofs

TLC checks small instances; these theorems hold for every value of the constants that the modules'
named assumptions allow (any number of commands, pods, packets, moves).

| theorem | says | run that checks it too |
|---|---|---|
| `PodSession_proofs!GoodSessionOwesNothing`, `RepliesMatch` | `[]NothingOwed`, `[]ReplyMatchesRequest` | `session` |
| `PodSession_proofs!LostForItsReason` | `LostForAReason` | `session` |
| `PodSession_proofs!MutexHeld` | `[]MutexHeldInside` | none |
| `PodSession_proofs!Implements` | `ImplementsRequestReply` | `session` |
| `SpiAndConsole_proofs!BusyStaysAlone`, `CleanedUp`, `PinsFree` | `[]BusyIsLeftAlone`, `[]EverythingIsCleanedUp`, `PinsFreeBeforeReset` | `spiflash` |
| `SpiAndConsole_proofs!ResultsAreTrue`, `NeighboursStay`, `NoSectorTwice` | `[]ResultIsTrue`, `[]NeighboursKept`, `[]ErasedOnce` | `spiflash` |
| `SpiAndConsole_proofs!RunIsBoth` | `RunSpec => Spec /\ RangeSpec`: the three theorems above on the session and the three on the range hold of the whole command | none |
| `SpiAndConsole_proofs!ConsoleReadsToTheEnd`, `ConsoleReportIsTrue` | `[]ReadToItsEnd`, `[]ReportIsTrue` | `console` |
| `KnownPods_proofs!NeverPlain`, `PinsAsReported`, `AlarmsHaveCauses` | `[]PinnedNeverPlain`, `[]PinAsReported`, `AlarmHasACause`, for any number of processes | `knownpods` |
| `UsbBridge_proofs!StopCleared`, `UninstallHealed`, `ForeignStays` | `[]StopClears`, `[]UninstallHeals`, `ForeignProxyStays` | `usbbridge` |
| `Account_proofs!SessionStaysValid`, `QueueStaysShort`, `ReportsSettle`, `HalfDoneTold` | `[]SessionSurvives`, `[]QueueHoldsOne`, `[]ReportSettled`, `[]HalfDoneIsTold` | `account` |
| `FlashBridge_proofs!NothingRunsOn`, `VerdictHolds` | `[]NothingLeftRunning`, `[]VerdictIsTrue` | `flash` |
| `Discovery_proofs!NameReaches`, `DefaultsMove`, `VerdictHolds` | `[]NameReachesIt`, `[]NoLinkSaved`, `[]VerdictIsTrue` | `discovery` |
| `Updates_proofs!ConsoleIsTheOne`, `UpdateTrue` | `[]OneConsole`, `[]UpdateIsTrue` of `DfuUpdate` | `dfu` |
| `Updates_proofs!OutcomesAreTrue`, `NeverAhead`, `ChunksGet`, `ManifestIsAsReported` | `[]OutcomeIsTrue`, `[]NeverAheadOfThePod`, `[]ChunksGetThrough`, `[]ManifestAsReported` | `upload` |
| `TypeCorrect` of every module of proofs but `Discovery_proofs`, whose `Invariance` says it with the rest; `Updates_proofs!UploadTypeCorrect`, `SpiAndConsole_proofs!RangeTypeCorrect`, `ConsoleTypes` | the type invariants: `[]TypeOK` (of `DfuUpdate` and `SpiFlashSession` in the last two modules), `[]UploadTypeOK`, `[]RangeTypeOK`, `[]ConsoleTypeOK` | none |

Every module of proofs has the same shape: named parts of an inductive invariant `IInv`; one lemma per part,
with one step per action of `Next`; `InitHolds`; `Invariance`, which combines them; and the theorems, which
read the property off the invariant. A leaf the provers are slow at names its prover and a time limit well
above what it takes (`SMTT(60)`, `ZenonT(60)`), so that whether a proof passes does not depend on the
machine's load. The parts are there for these reasons.

*PodSession.* `ReplyMatchesRequest` is not inductive: a command may read the head of `toCli`, and
nothing in the property says whose reply that is. `NothingOwed` says it: while the session is good,
the wire holds nothing, or exactly the request or the reply of the one command that has written and
not read. That in turn needs the mutex: `MutexHeldInside` says that the command inside is the one
that holds it, and that no command is past the check of `broken` on a broken session, so that a
second writer, or a writer on a session that still owes a reply, does not exist. A read that fails is
where the mark matters: it leaves the reply owed, and `NothingOwed` is kept because `broken` becomes
true in the same step. `Implements` maps each step of `PodSession` to a step of `RequestReply` or to a
stutter: `Refuse`, `MarshalFails`, `WriteFails`, `ReadReply` and `ReadFails` settle one command's outcome;
`ReplyMatchesRequest` makes a read an `Answer` to the right command, and the mutex makes it the first
outcome. `LostForAReason` rests on two more parts: `OwnDeadline`, the connection's deadline is the one the
command inside has set, or a watcher has moved it to the past; and `WatcherOfOne`, a watcher that fired
belongs to a command whose context ended. The mutex again makes that command the one inside, or one that
has returned.

*SpiFlashSession.* `Marks` relates the two variables cleanup goes by to what the run was told: a
request that was sent and not refused as busy is marked, and what is marked has been asked to be
undone when the run is past it. `Links` says which connections may be open. `Clean` says that as long as
nothing has gone wrong the only request in flight is the one the run is at, so that what the pod holds
is what is marked: this is what a successful run's empty hands rest on. `Calls` says which request may be in flight
on which connection: on the main one the run's, and on a fresh one, once the session is broken, cleanup's.
`Claimed` and `Freed` follow the pod's SPI engine: only the run's one `spi_start` gives it the engine, a pod
that serves one client at a time has taken or dropped that request before it serves `spi_stop` on another
connection, so once `spi_stop` is answered "ok" the engine is not the run's any more, and reset, which is
released after it, finds the pins free.

*SpiFlashRange.* Cells and sectors are any number, and neither the range nor the size of a request has to be
whole sectors, so the proof begins with rounding: `FloorOf` and `CeilFacts` say that a multiple of the sector
is its own sector's start, `FloorGrows` and `CeilGrows` that rounding keeps the order, `EraseEndFacts` where a
step ends. `Loops` is the bound of each loop, `Blanked` what an erase has blanked so far, `Written` what
`Write` has written so far, each up to `pos`. `Unworn` is what makes `ErasedOnce` inductive: with a pod that
reports, no cell from `pos` on has been erased, and `pos` is the start of a sector once the first request was
answered. `NeighboursKept` holds because a step touches no sector that the range does not (`Within`).

*KnownPods.* `Control` says which command can be where, and with what in its hands. `Fallback` is the
reason why no pinned pod is dialled in plaintext: a process that is about to probe for a fallback has
found no pin, or could not look. With several processes what one has loaded need not be what the file holds when
it saves, so `PinAsReported` is kept by `Copies`: as long as a reported pin stands, whoever read the file after the
report has that pin in its copy, and a process that read it before ends what stands. `AlarmHasACause` is
an action property read off two more parts. `Sure`: while there is no doubt about a pod, the pin and the saved session
are of its certificate or of none; a change of the certificate and a pin lost to a concurrent write begin a
doubt, and a reported pin or a forgotten one ends it. `Shown`: a process during which nothing of the kind happened was
shown that certificate, so what it compares agrees.

*UsbBridge.* `Picked` ties the pods the loop, uninstall and a late request are about to the set of pods the
run has set; `Looked` says that a pod whose proxy the bridge or uninstall has looked at, and for which a request is
still to come or under way, has a foreign one only if another client set it after that look (`since`). `StopClears` and `UninstallHeals` are kept by the steps with these two, so they are in the invariant
themselves; `ForeignProxyStays` is an action property read off it, again one step per action.

*Account.* `Lists` says what `reportFirmware` holds at each of its steps: its own report, untried, behind
at most one other that has been tried once; so what it keeps is at most one report tried once, which is
what the next run may read, at any moment and whoever else is writing. (This is why two overlapping runs
can lose a report but not grow the queue, and why `Capped` never cuts: lemma `CappedIsAll`.) `Tokens` says
that the tokens a command has been given and not saved are ones the server takes, that no other command
holds them unsaved, and that they are not the file's; a refresh by another command, which may end the
token it used, therefore cannot end them. When the last of those that wait has saved, the file holds a
token the server takes, unless one was mislaid. `Places` says which command is where, and that commands
of a kind that never met run one at a time; `Agree` then follows the pod and the server's record through the one
command on the pod, which may have changed the one and not yet the other, and `Told` stays true once it is.
`Settling` follows a report: as long as one run reports at a time, what waits in the queue was sent by its
own run only and not answered (or is being sent again by the run that is about to replace the queue), so no
report has more than two senders who counted it (`Once`; a run that lost its credential halfway counts nothing and
keeps the queue as it was, `Halfway`), and `Turn` says for each step of `reportFirmware` what becomes of the
report it carries. The count of tries is over a set that must be finite, which the invariant says too:
any number of processes is allowed.

*FlashBridge.* `Shape` says what there is of the run at each place main can be: no process before the
start, the bridge only after an accepted connection, everything closed on the way out. `NothingLeftRunning`
is its last line, once `join` has waited for both copies. `Cause` keeps, for each thing the verdict is
read from (OpenOCD's exit, `podDropped`, a copy that ended), what must have happened for it to be so; for a link that was lost also when: before OpenOCD's exit or after it
(`lostAt`), since only the former can have made `flash` stop OpenOCD.

*Discovery.* A target is an address or a path, not a pod, so the invariant follows what it stands for: `Of(a, p)`
says that it names the pod or is a place the pod has had, and `had` only grows (`HadGrows`). `SamePod`
keeps this from the target as given to the one resolved, dialled and saved: each stands for the pod asked for, or for
one that a path of that pod's has led to (`Led`); then a command that ends with another pod went by a place that
was both's. `Default`, a part of it, is `NoLinkSaved`. `Stage` says with which kinds of target a step can be
reached. `Reads` is what the verdict rests on: one entry for each identity of a pod on USB and one on the network, each
saying what is so of its pod, or of one that has taken its address, and from `report` on every network pod matched
with the USB pods (`Matched`); that two entries matched are one pod's, by key or by an address that did
not change hands, makes the total the number of pods (`OnePerPod`).

*DfuUpdate.* `Search` is the loop invariant of the probe: the consoles found are those held open, each of a
pod that answered. `Rebooted` says who can be in DFU mode (pods of the person's and the one rebooted),
`Written` what has been written when, `BySerial` that a console opened by serial number is that pod's.

*PodUpload.* The two directions are one queue, `Wired` (answers, then requests, oldest first), and the
lemmas `ThinKeeps`, `AddFacts`, `HeadFacts` and `CutFacts` say what a send, an answer, a loss and a read do
to the order and number of the messages in it. On the console a late answer is still there when the host
has gone on, so which answer the host takes for its own is the heart of it. `Once` says that begin, commit
and abort are on the wire at most once, and not at all while the host is elsewhere; `ChunksOnce` says the
same of a chunk and its upload-status, in that order, for as long as every upload-status was answered:
one that was not lets the host send the same chunk again, and both answers may come. Then
`Committed` is what makes `OutcomeIsTrue` inductive (an "ok" to commit on its way means that the slot is
written, and of the firmware's own upload the commit is still on its way, or refused, or answered "ok"),
with `Staged`: the pod's upload is the host's item. `OnTheWay` and `InPlace` carry the firmware reported as written:
while nothing goes wrong what was asked is on its way, no commit is refused, and past the commit the slot is new. `Received` tells for each phase what the pod has of the
image, and that an answer on its way tells it truly; `NeverAheadOfThePod` and the first half of
`ChunksGetThrough` are read off it. The rest is about a pod that answers in time. `OneAtATime` says that at
most one message is on the wire then, and for the host's question; `Counted` that every attempt but the first
was paid for by a loss; `Halves` how many halves of a manifest the pod holds, told from the phase, from what is
on the wire and from what was lost (a half that was lost sends the host to "clear", and a clear that was lost
too is the second loss). `Bare` says the little there is to say of halves on the network.

*SerialConsole.* The stream is three queues end to end, `Stream`: what was captured, what is unread, what the
pod has still to print. A step moves lines from one to the next, and then the whole is as it was, or cuts or
adds some, and then what is left is `Thinner`: the same lines in the same order. So the invariant speaks
of kinds of line that are not there (`Without`), that never come after others (`NeverThen`), or only as the last
(`EndsAt`), and the first lemmas say what moving, cutting and adding do to these three. `Piped` is why an
answer is the right one's: while the deadline has not passed the pod has taken the line under way and
echoed it once, or has that line to take and no other, so an echo in the stream is of this command.
`AtTheEnd` then gives `ReadToItsEnd`: a prompt that comes after the echo, or after the end of a
scan, is the last line of all. For set-wifi, `SetOnce` and `Kept` tie what wifi-set printed to what the pod keeps,
`ReadWhole` says that no field of an earlier wifi-show is read by a later one, `Carried` that set-wifi knows of the
bridge when there is one (unless a line was lost), `Joins` that without one the outcome named is the
pod's, and `Told` that the status polled through one is about the new network. `Joined` is the first line of
`ReportIsTrue` with all of these behind it; `Listed`, `Powering` and `Leaving` are the other three. The
deadline is where most of them stop: a command that timed out may leave its line, its echo and its
answer to the next, which is then under a context that has ended and can conclude nothing from them. Any
number of polls, fragments and dropped lines is allowed, and a wired address as well.

Only model-checked: what holds under fairness (`EndedContextUnblocks`, `PicksUpAgain`, `UploadEnds`,
`EndsDisarmed`, `CommandEnds`, `RangeEnds`), for liveness and ENABLED are out of the prover's reach. Every invariant
and every action property a passing run checks is a theorem. Out of reach is also what a recursive definition
computes for every input, for induction theorems take an operator as parameter; no module has a
RECURSIVE operator.

## 6. Not modelled

`PROJECT.json` lists every component with its status and reason. Left out altogether:

- signature checks and refusal tables: cryptography and look-ups, no state;
- the text of output, units, the parsers of identity, policy, voltage and cloud settings: one reply to one value;
- cloud pods: one HTTP request per command;
- the setup wizard: it calls the other commands one after the other and keeps only its own variables;
- instruments: flags to one request, reply to text.

Left out of components that are modelled, because they keep no state the properties see:

- the pieces of `Read` of the SPI flash (it changes nothing), and the chunks of `Samples`;
- addresses on the USB link, `--tls-ca` and `https_only` of the dial plan; `tls_sessions.json` is read and written
  in one step, for a ticket that a concurrent write loses costs one full handshake;
- the CONNECT proxy of the USB bridge, and the files of launchd and systemd;
- the image of a DFU update, its size and its download; an explicit device path there.

Known limits of what is modelled:

- `SerialConsole`: a failed `wifi-show` before the write is not an error in the code, so after a Ctrl-C
  or deadline `wifi-set` may still be sent; that is in the model, and nothing is claimed of it. A bridge that
  is given the network it already had may report its old join (its status is about the network asked for). A
  wired address counts as joined; the run has no wired pods. Lines `[wifi] connected` printed between
  commands are not modelled, nor is the count in `scan done`. `EchoGraceOver` and `ReplyGraceOver` take the grace
  periods to be long enough for a pod that is not busy. A line is written in one step: `writeLine` has no deadline
  (`serialconsole.go`: 427), so a port that takes nothing would block a command there, which `CommandEnds` does not see.
- `KnownPods`: when it starts, the pins and sessions there are agree with the pods' certificates; one certificate may
  change outside these commands. A process that is killed takes no more steps.
- `Discovery`: with `usb` the pod reached is whichever single one answers when it is resolved, not
  necessarily the one the default was saved for; a console command
  given a name that is heard on the LAN auto-detects a pod on USB, which may be another (`NameReachesIt` claims
  nothing of it); a network pod whose registration is not known is left out of the verdict. A pod's LAN and Wi-Fi
  addresses come and go together. A USB link's address is its pod's: it is made from the unique ID, and two
  pods whose addresses collide are not modelled. `discover` is started before a default is saved. `config.json` is
  read, changed and written back without a lock, as `known_pods.json` is; commands that overlap and cloud
  connections are not modelled.
- `DfuUpdate`: ports keep their names; with `--enter-dfu` a second pod that already is in DFU mode may be the
  one dfu-util writes, which `UpdateIsTrue` excludes.
- `FlashBridge`: a stalled pod stalls for good; the build is checked once, before the run.
