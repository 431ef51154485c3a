# A verification project for remote60 / GNLink

remote60 (GNLink) is a remote desktop: a Windows *host* captures and encodes
its screen and takes input, *clients* on Windows and Android show it, and a
*directory* server keeps accounts, tells clients where hosts are, and relays
their traffic when they cannot reach each other. This directory holds TLA+
models of the parts of it whose correctness depends on the order of events,
the TLC configurations that check them on small instances, and proofs, checked
by TLAPS, of what matters most about them.

Run from this directory:

    tlc -config MCDirectory_devices.cfg MCDirectory     # any run of the table below
    tlapm DirectoryProofs.tla                           # any module of proofs

`PROJECT.json` is the index: components, runs, seeded bugs, the source lines
behind every definition, findings, hazards and theorems.

## 1. Inventory

### What there is

| component | where (under `src/`) | state it keeps | operations |
|---|---|---|---|
| device credentials | `apps/directory/device_credentials.js` | none (decides about records) | createFamily, classify, rotate, revoke, prune |
| accounts, sessions, admin | `apps/directory/server.js`, `accounts.js` | store file (accounts, hosts, devices), host-token index, sessions, password checks in flight | sign-up, login, refresh, logout, revoke, register, admin calls, `--add-account`, restart |
| hosts, connections, wake | `server.js`, `wake_target.js` | heartbeats, capabilities, pending punches, wake timers | heartbeat, connect, punch, wake and its resend |
| relay | `server.js`, `relay_diag.js` | tokens, sessions, indexes by client, by host address and by host | grant, bind, forward, follow a host's wire, drain |
| update manifests | `update_manifest.js`, `version_compare.js` | published manifests | validate, compare, serve |
| Windows sign-in | `apps/native_poc/src/login_credential_store.cpp`, `login_flow.cpp` | three files and a lock file | come back, sign in, remember, sign out, settle |
| Windows client shell | `client_shell_main.cpp` | owner epoch, session, viewer process, reconnection | sign-in operations, connect, reconnect, update |
| directory clients | `directory_client.cpp`, `directory_session_client.cpp`, `directory_rendezvous.cpp` | poll state, candidates | register, heartbeat, punch, session calls |
| viewer | `viewer_*.cpp/.hpp`, `native_video_client_*.cpp` | frame gate, selection, control link, jitter | receive, assemble, retransmit, present, resume control, select a monitor, paste |
| host | `host_*.cpp/.hpp` | main loop and mailbox, epochs, sender queue, encoder, rates, backends | capture, encode, send, adapt, recover, kick, inject input |
| control channel | `udp_control_channel.cpp`, `control_resume.hpp` | windows of datagrams, resume tickets | send, acknowledge, retransmit, resume |
| bulk and clipboard | `bulk_*.hpp`, `clip_image_*`, `clipboard_sync.hpp`, `file_copy_*` | who may send, transfers, last clipboard seen | offer, send, cancel, replace, paste |
| updater | `update_*`, `updater_*` | state file, staged and previous versions | check, stage, hand off, swap, prove healthy, roll back |
| pre-login, secure input, unlock | `prelogin_*`, `secure_input_*`, `sealed_unlock.cpp` | which host runs, desktop fences, one-time keys | supervise, hand over, inject, unlock |
| Android client | `apps/android_direct_client/app/src/main` | parked session, vault, update, composer | park, resume, sign in, update, compose |
| capture and common libraries | `libs/` | device objects | capture, input records |
| automation, tests, documents | `automation`, `apps/*/test`, `docs` | -- | -- |

### How they interact

Clients and hosts call the directory over HTTP; each request is answered once
or not at all, and a caller cannot tell an answer that was lost from a request
that was. The directory is one Node.js thread: a handler runs without
interruption up to an `await`, and the only waits that matter are those for a
password hash and for a request body. The directory writes its store before
it answers. Client windows are processes of their own that share files in the
user's profile; inside a window, operations run on workers and come back to the
UI thread as posted closures, which an *epoch* tells apart from what the user
has moved on from. Hosts and clients talk to one another over UDP, directly or
through the relay. The updater, the pre-login service and the secure input
service are processes beside these, talking through pipes and state files.

### Where it is hard, and what makes it correct

* **Device credentials.** A credential is exchanged for the next on every use,
  the answer may be lost, and a copy must be told from a repetition. Correct:
  at most two of a family's credentials are accepted at any time, a refused one
  is refused for good, and one interruption does not end a device.
* **Directory store.** Writes fail, the process restarts, hashes take time.
  Correct: memory is the file, an answer survives a restart, sessions end with
  what they stand on, nothing stands on an old password.
* **Windows sign-in.** Three files, one lock that is let go for requests,
  several processes, and failures of each single step. Correct: the user never
  comes back as somebody they left, a late answer is not kept, no live device
  is lost track of, and what is owed is told in the end.
* **Relay.** Three indexes of one set of sessions, addresses that change.
  Correct: each live session is found by exactly its own addresses, a host has
  one, and a session that ends leaves nothing behind.
* **Connections and wake.** Punches consumed by an answer that may be lost,
  timers that fire late. Correct: a request that is still wanted reaches a host
  that is up, and a wake stops when it is no longer wanted.
* **Updater.** A crash between any two effects. Correct: there is always a
  version that starts, and one that was rolled back is not installed again.
* **Control channel, video, bulk.** Loss, duplication, reordering, replaced
  transfers. Correct: control is delivered once and in order, no frame of an
  earlier selection is shown, and no bulk sender starves another or waits for
  an answer that cannot come.
* **Pre-login and parking.** Two hosts for one machine, two clients for one
  session. Correct: at most one is in charge, and there is one in the end.

## 2. The modules

| module | what it is |
|---|---|
| `DeviceCredentials` | the rules of a device family as operators: no variables, like its source |
| `DeviceLife` | abstract: what the directory promises the holder of a device |
| `Directory` | accounts, hosts' tokens, families, sessions, the store file; one action per stretch of a handler |
| `DirectoryProofs` | theorems about `Directory`; that it implements `DeviceLife`, and keeps to the limit of families |
| `LoginFlow` | the Windows client's sign-in, between windows and failures, with the directory's side of a device |
| `Relay` | connects, capabilities, heartbeats, the wake's timers, and the relay's sessions with their indexes |
| `OrderedStream` | abstract: what the control protocol is promised by the channel under it |
| `ControlChannel` | the reliable control channel, both ends and the network between |
| `ControlResume` | repairing control while the video runs: the viewer's worker, the host's reader and dispatcher |
| `Update` | an update with everything it does to files, registry and programs, and the program that started it |
| `Prelogin` | the service that serves the logon desktop and hands over to the user's Host |
| `VideoStream` | the pictures from the host's encoder to the viewer's decoder, and the keyframes asked for on the way back |
| `LoginFlowProofs`, `RelayProofs`, `ControlChannelProofs`, `ControlResumeProofs`, `UpdateProofs`, `PreloginProofs`, `VideoStreamProofs` | theorems about the modules of those names |
| `MC...` | symmetry sets and constants for TLC |

### DeviceCredentials and DeviceLife

A family's credentials are numbered in the order of issue; hashes compare as
the numbers do, and 0 is a made-up value. `Classify`, `Rotate`, `Revoke` and
`Prune` are the functions of the same names. `prune` sorts with a stable sort
over an object that keeps insertion order; `UsedBefore` is that order, the
position being the record's `place`.

`DeviceLife` knows neither clock nor store nor restart: a family is unborn,
live or ended; the newest credential and at most the one before it are
accepted. `Directory` is checked to implement it (`KeepsThePromise`), with
`life`, `newest` and `accepted` computed from the records and the clock.

### Directory

State: `accounts`, `hosts`, `devices` are `store`; `disk` is the file;
`hostTokens` and `sessions` are the maps of those names; `checking` is
`authInFlight` with what the handler read before the hash; `resetting` is what
`adminPassword` read before its own. `told` and `proof` are history: what
callers were told of a family, and with which password each family, session
and host token was obtained. `minted` keeps random values from being given out
twice; `editions` numbers passwords and accounts made.

An action is one stretch of a handler between awaits. A failed write restores
memory and answers 503, which changes no variable, so it is the stuttering step
(that the ways back of `commitStore` and `commitDevices` restore everything is read
from the code, and not checked by `MemoryIsDisk`);
the one handler with a way back of its own is sign-up (`SignupUnwritten`). A
server that dies after the write and before the answer is the action with
`heard = FALSE`, then `Restart`. Callers are not modelled: whatever was told to
anybody may be presented at any time, any number of times.

Left out: rate limits and failure delays (a refusal changes nothing modelled),
`lastLoginAt` and what heartbeats write, logs, the relay and punch state that
`closeHostsNow` clears (module `Relay`), and who may reach the admin page. A password check that
fails is `CheckRefused`. `AddAccountFromCli` is `--add-account` with the server
stopped before and started after it, which the code does not see to
(`server.js:2265`; with the server running its next write would lose the account).

### LoginFlow

State: the files `cred`, `owed`, `aside`, `gen` and the lock `holder`; the
session of each window, `win`; each worker, `work`; and the directory's side
(`devices`, `minted`, `active`, and `late`, the refreshes given up that may
still arrive). `last` and `disowned` are history; `disowned` are the devices whose
token nobody can have or keep: the answer with it was lost, the process died with
it, a credential that could not be read was overwritten, or the log said so.

A worker's record holds the operation it runs, where in it, and its local
variables; an action is what it does between two points that another worker,
the directory or a crash could tell apart: at most one write, one request with
its answer, or one look at the window's epoch. `Remember` .. `Keep` are
`remember_sign_in`, with its second pass (`ended` set is pass 2);
`ComeBack`, `Refresh`, `SaveNext`, `EraseRefused` are `come_back`;
`SignOut` .. `EraseEnded` are `sign_out`; the settle actions are
`settle_owed_sign_outs`. Every read, write, request and process may fail, and
an instance says in `Faults` which kinds happen and in `MaxFaults` how many.

Left out: a second server origin; the logout of a plain session, which changes
no file; a worker that cannot be launched; unreadable files that stay
unreadable (a failed read is transient); pruning and password checks at the
directory, which only end or refuse (`EndElsewhere`, `DirectoryLogin`'s last
disjunct). An `Erase` that fails leaves the credential, as it mostly does; when
only the `.tmp` beside it cannot be deleted, the code deletes the credential and
still says that it failed (`login_credential_store.cpp:301`). The redundant
second comparison of account ids in `begin_refresh_hosts` is covered by the
first, in `come_back`.

### Relay

State: `where`, `held`, `acks` are the world (where each host's socket is, the
capabilities it holds, its answers in flight); `host`, `pendingPunch`, `auth`,
`latest`, `resend` are `hosts[..]` heartbeat data, `pendingPunch`,
`relayAuthByToken`, `relayLatestTokenByHost`, `wakeResendByHost`; `sessions`,
`byClient`, `byHost`, `lease` are `relaySessions` and the maps into it, kept as
four variables because the code keeps them as four and changes them one after
the other. Node runs a handler to its end, so an action is one whole handler or
timer: `Connect` is `handleConnect`, `Hello` the listener's two ways for a
packet with a capability, `HostAck` the host's answer, `Heartbeat`
`handleHostHeartbeat` with `relayFollowHostWire` and the pick-up of waiting
capabilities, `Tick` one firing of the wake's timer, `SweepSession`,
`AuthExpires`, `PunchExpires`, `HostSilent` what the sweeps and the clock do,
`Close` `closeHostsNow` for one host. Left out: rate limits (refusals), the
choice of an address on the same LAN, diagnostics, punch replies. A closing
that leaves the account as it is (a new password, `server.js:2496`) is a step of
the model too; `ClosedHostHasNothing` is about those that do not, since after it
the host may be asked for again at once.

### ControlChannel and OrderedStream

Each end's channel is a record: `key` (of the two stream ids), `queue`, `tries`,
`acked` of what is sent; `parts`, `done`, `ready` of what is received; the
probe; and why it is closed. `net` holds every datagram ever sent: one that is
lost is never taken, one that is repeated is taken twice. Operations take the
channel's lock and are single steps, but `Close` takes none, and `ResumeWith` is
two steps for that reason. A message is a number, its fragments numbered; what
`Receive` hands over is a number only if all fragments were of one message.
A probe's chunk ahead of what was delivered, which the code would deliver as a
message of one byte, is ignored: `InStep` says that none is. That a NACK restarts
the time of an attempt (`udp_control_channel.cpp:334`) is left out: in the model
attempts run out, and `HeardOrBroken` rests on it (*Departures*).
`OrderedStream` counts messages; `DeliversInOrder` is its specification, with
the variables of the same names.

### ControlResume

Three processes as three records: the viewer `v` (connecting, running,
resuming, proving), the reader `r` (reads hellos and asks; waits for the
dispatcher), the dispatcher `d` (waits, is woken, re-keys or resets, publishes,
serves). `h` is what the host's threads share. A channel is its key and whether
it is open; how it carries messages is `ControlChannel`.
Each step ends where the other thread can come in between, so `Accept`,
`HoldStream`, `CloseForResume`, `AnswerServed` are one pass of the reader and
`Wake` to `Left` one turn of the dispatcher. Assumptions, each an operator or a
constant of the module: a wait of seconds does not run out while the dispatcher
is between its wait and `Serve` (`Prompt`); an ask is not delayed past the
recovery it belongs to (`Delayed = FALSE`); of the reader's waits, the one of an
ask may run out (`LateWaits`), the one of a hello does not.

### Update

`pc` is the state of `run_update`, with the steps of `Swap` and `Rollback` made
one per file (`MoveAside`, `Place`, `Undo`), because the updater may die between
any two. `live`, `back`, `registered` are the install directory, the backups and
the registry; `run`, `closing` the programs; `caller` the program that started
the update and waits in `await_handoff`; `u` what the updater has in memory.
`Payload` lists the files of the release in order, three of which are programs.
`Faults` names the steps that may fail. `torn` notes that an attempt died among
its files or could not undo one; the run `update` lets no attempt follow such a
one (`RetryTorn = FALSE`; what happens otherwise is told under *Departures*).
Left out: a second
updater (the lock refuses it), backups that cannot be deleted and get a number,
a registration that cannot be read.

### Prelogin

`console`, `user`, `host`, `shut` are the machine; `sup`, `watch`, `policy`,
`worker`, `since` what the service keeps: the supervisor with its lease and
pending handoff, the user Host it watches, the policy that decides whether one
is started, the SYSTEM worker, and since when a user is logged on. A tick is two
actions, `Observe` and `Act`, because sessions and processes change between
them, and a third, `LaunchHost`, if a Host is to be started: between the search
for one (`find_user_host_in_session`, in `ReconcileHost`) and the launch the user
or the Run entry may start another. One Host runs in a session: the second to
start leaves with exit code 0 (`host_app_main.cpp:2817`, `Yields`). Left out: the
child that streams, the launch nonce, a logon query that fails, an owed
revocation.

### VideoStream

`pipe` is every picture under way, oldest first, each with its place (in the
encoder, in the batch one call gave out, in the sender's queue, in the sender's
hands, on the wire, held by the viewer's assembler), whether all of its chunks
are there, and what it *misses*: a picture that is no keyframe needs the one
before it, so whoever drops a picture leaves a mark on the next (`Gone`), with
`gap` where the sequence numbers show it. `next` is the mark of the picture that
is encoded next. `h` is the host's main loop with its encoder manager, epoch
gate, mailbox and the key state it shares with the sender; `s` the sender thread;
`v` the viewer's receiver, frame gate and decoder.

`TakeReasons` .. `Rollover` are the main loop: the mailbox, the encode call with
a new frame or, as a kick, with the last one again (`Inputs`), the judgement of
what came out (`epoch_gate_judge`, the kick's drop in `DropKick`,
`decide_sender_queue_action`), a flush, another viewer. Of the kick's timer it is
kept that it may be due whenever the barrier is closed; with the barrier open a
kick is a frame like another. `Dequeue` .. `Post` are the sender thread between the
points where the loop can come in, and `Shed` .. `EndPass` one pass of the
receiver, whose maintenance has a clock of its own. `Faults` names what may go
wrong, once each time it is drawn: a forced key that is refused or ignored, an
encode call that fails, an output of unknown origin, a rebuilt encoder, a flush,
another viewer, a stalled sender, a failed send, a picture lost, cut short or
pushed out of the ingress queue, one that is stale, lags, or does not decode.

Left out: single datagrams, parity and NACK rounds (a picture is whole, cut or
gone; `Waits` and `Complete` say what becomes of a cut one), the selection
generations and the gates that keep frames of another monitor out, the wire
cap's grants (the cap is taken to be on, which is when the key state counts), keys the
encoder makes by schedule or by itself, the repair after a streak of rejected
keys, the 6 s after which a key's mark no longer counts, the assembler's
saturated state, a decoder that accepts a frame and gives nothing out, TCP, and
Android's own pipeline. Two paths are off unless a variable of the environment
turns them on, and left out: encoding from a surface
(`REMOTE60_NATIVE_NV12_SURFACE`, `host_stage_encode_send_h264.cpp:380`), which can
lose units without asking for a key, and `REMOTE60_NATIVE_GUARD_STALE_ENCODED`.
The drop of deltas of a new selection (`host_stage_encode_send_h264_au.cpp:302`) is
that of the epoch gate, which waits for the same keyframe.

## 3. The runs

Each passing run's properties have a seeded bug (an operator marked "A bug"
before the definition it changes) that the run finds.

| run | instance | states | shows |
|---|---|---|---|
| `devices` | 1 account, 2 families, 3 sessions, 4 ticks, `PerAccount` 1, `--add-account` | 82 000 | rotation, grace, reuse, expiry, making room, restarts; refinement of `DeviceLife` |
| `accounts` | 1 account made up to 3 times, 1 family, 2 hosts of a machine, 2 sessions | 230 000 | checks and password changes in flight across deletion and re-creation; the token index |
| `windows` | 2 windows, 2 workers, 2 devices, 2 sign-ins/outs, 2 failures of 5 kinds | 2 700 000 | the safety promises of the client |
| `settle` | 1 window, 1 worker, 2 devices, a failure of any kind, a clock of 2, fairness | 170 000 | what is owed is told in the end; lock discipline |
| `relay` | 2 hosts on 2 addresses, 2 clients behind one NAT, 2 connects, 3 moves or 2 and a closing, fairness | 1 330 000 | the indexes agree; a closed host has nothing; a wake ends |
| `channel` | 2 messages of 2 fragments, 2 attempts, 1 re-keying, closing | 630 000 | refinement of `OrderedStream`; the ends stay in step; heard or known to be broken |
| `resume` | 2 viewers, 3 resume ids, 3 breaks, 2 waits that run out | 125 000 | answers are honest, working channels stay, broken ones are repaired |
| `update` | 4 files, 2 attempts, 13 places to fail, one death, one program started | 266 000 | nothing is lost, an attempt ends whole and what ran comes back |
| `prelogin` | 2 sessions, 5 events | 725 000 | one server at a time, and in the end the right one |
| `stream` | 2 pictures under way, a queue of 1, 2 held, 2 faults of 15 kinds | 4 690 000 | what is dropped is followed by a keyframe, a key's mark is true, nothing undecodable is decoded |
| `stream_back` | the same with 1 held and 1 fault of 14 kinds (not a failed send), fairness | 221 000 | a viewer that waits for a keyframe shows pictures again |

A type invariant is checked where bugs can break it (`devices`, `settle`,
`channel`, `relay`); `Update`, `Prelogin` and `VideoStream` state theirs, which
held in every run, as the shape of their variables.

Runs that end in a violation, each of one sentence of the repository's own:

| run | sentence | what happens |
|---|---|---|
| `resume_reset` | `Reset()` puts the base stream ids back (`control_resume_test.cpp:582`) | it leaves those of the last resume, and the next viewer, told that the host is ready, is not heard |

### Departures

What the modelling showed besides, where the code and a sentence about it, or a
promise one would expect of it, part. No run lists these; the passing runs leave
out the case, as said here.

* *Sign-in.* A password set by `--add-account` on an account that exists ends
  no sign-in (`accounts.js:162` with `server.js:2268`, against
  `accounts.js:213`). A counter that cannot be read starts over at 1
  (`login_credential_store.cpp:310`, against `login_flow.cpp:455`). A refresh
  that was given up and arrives after its retry supersedes what the retry got
  (`device_credentials.js:144`, against :138). A stored sign-in that cannot be
  read at the moment it is replaced, by one without a credential, is not erased
  (`login_flow.cpp:351`, against :396). A client that refreshes while its
  account is disabled erases a credential that enabling would have brought back
  (`login_flow.cpp:252`, against `server.js:985`). The run `windows` leaves the
  kinds `counter`, `late`, `older`, `disable` out, `accounts` has
  `OperatorCli = FALSE`; `settle` has every kind.
* *Relay.* Binding at an address that another host's live session is indexed by
  overwrites the entry without ending that session, and a heartbeat from the
  same address does not index it again (`server.js:1786`, comment :1610). A
  host's answer that is in flight when a session is bound anew makes the new one
  active (:1911). `IndexesAgree` asks what does hold: an index never names a
  session that is over or elsewhere.
* *Control channel.* `Close` takes no lock, and a shutdown that falls between
  `ResumeWith`'s look at the flag (`udp_control_channel.cpp:88`) and its opening
  of the channel (:104) is undone, against the comment at :85. A repeated
  acknowledgement of the last message is taken for the answer to a probe
  (`udp_control_channel.hpp:140`). A NACK restarts the time of an attempt, so
  the attempts do not run out while one fragment of a message is always lost.
* *Resume.* The reader raises the number of a resume (`host_startup_control.cpp:726`)
  before it marks it pending (:735); a rollover published between absorbs the
  number, and the repeated asks join a wake nobody serves until their ceiling,
  against the comment at :761. Modelled; `Repaired` holds because the viewer
  gives up then.
* *Update.* `Swap` undoes itself without looking at the result
  (`update_effects.cpp:984`), so a file it failed to restore is forgotten by the
  rollback after it; `EndsWhole` leaves attempts with `torn` out. An attempt that
  died had moved a file aside, and the next one begins by deleting the stale
  backups (`update_effects.cpp:262`), the only copy of it among them, against "the
  previous version stays restorable" (`update_state_machine.hpp:205`): with
  `RetryTorn = TRUE`, `NothingIsLost` is violated. After a
  rollback the old host is judged by the version expected when the effects were
  built (`updater_effects.cpp:505`). A service started in the relaunch has no
  handle the rollback could stop it by (`update_relaunch.cpp:677`), which ends
  in `RollbackFailed`. A program started between the capture and the stop (in
  `Prepare` or `Quiesce`) is asked to close like the others and not brought back,
  one started while files are moved runs a version that is not installed any
  more: `StartsAt` leaves these steps out. One that takes longer than
  `closingGraceMs` to close is taken for running (`SlowClose`).
* *Pre-login.* A session event between the last tick without and the first with
  a ready Host makes the pending handoff stale for good: every tick discards it,
  nothing begins it again, and the bound of 30 s is looked at only on ticks that
  start a Host; the SYSTEM worker stays (`prelogin_handoff.hpp:60`, against
  `secure_input_service_main.cpp:1457`). `UserIsServed` leaves this case out, by
  `sup.pending = "stale"`. A Host that starts between the service's search and its
  launch (`secure_input_service_main.cpp:1437`, :1449) stays, the launched one
  leaves with exit code 0, and the policy takes that for a user who closed it
  (`prelogin_user_host_policy.hpp:75`): if the one that stays crashes later, nobody
  starts it again in this logon. Modelled; `UserIsServed` counts such a session as
  one where a Host was closed (`shut`).
* *Video.* A failed send is noticed after the next encode call that gives
  something out, and everything that call gave out is thrown away without asking for a keyframe
  (`host_stage_encode_send_h264.cpp:649`); if a keyframe was queued after the
  sender re-armed its barrier, what follows stands on pictures nobody gets,
  without a gap in the numbers, though "Dropped output breaks the reference
  chain" (:462). What a kick brings out is judged by the barrier as it was before the
  encode call (`host_stage_pop_frame.cpp:253`): if the call gives out a keyframe
  and the picture behind it ("One encode call can legitimately release [key, delta]
  together", `host_stage_encode_send_h264_au.cpp:496`), the keyframe opens the
  barrier, the other is dropped before it has a number (:299, against "An ordinary
  trailing-edge kick on an OPEN stream, however, ... let it through"), nothing asks
  for a keyframe, and the next picture is sent standing on it. No fault is needed
  for this; the model does all of it (`DropKick`), and `HostSendsWholeChains`
  excepts these two. The receiver handles one
  gap in a pass of its loop (`viewer_video_receiver.cpp:145`): a keyframe that
  opens the gate in the same pass, with a gap behind it, is decoded over.
  `OnlyARepeatedGapShows` says that nothing else is.

### Bounds, and why they are enough

`MaxTime`, `MaxCred`, `MaxEdition`, `MaxAsked`, `MaxFaults`, `MaxTokens`,
`MaxMoves`, `MaxCloses`, `MaxChanges`, `MaxSaid`, `MaxKey`, `Why`, `MaxViewers`, `MaxIds`,
`MaxBreaks`, `MaxLate`, `MaxRaised`, `MaxAttempts` (of `Update`), `MaxKilled`,
`MaxStarts`, `StartsAt`, `MaxEvents`, `PipeMax` bound the models and nothing in the
code. The limits of the code are set small so that they are met.

* Directory: `PerAccount = 1` makes the second family a surplus one,
  `IssuedKept = 2` makes a credential drop out of those issued after two
  rotations; `GraceTime` 1 of a clock of 4 has presentations in grace, at its
  last moment and past it; `DeviceTtl` 2 has families expire. `SessionTtl <=
  DeviceTtl` holds as 12 hours and 90 days do.
* Sign-in: `MaxOwed = 1` makes the list of owed sign-outs full at once. Two
  sign-ins and sign-outs over two windows are the least in which one is late
  behind another; two failures are the least in which a way out of a failure
  fails too.
* Relay: two clients share an address, and the second connect replaces the
  first; one resend and one timer make both limits bind. Two addresses and three
  moves are the least with which two hosts exchange theirs (one leaves, the other
  arrives at its address, where the first's session still is indexed, and the
  first comes back at that of the other); with a closing among the changes there
  are two moves, which still bring one host to the address of the other. The instance fixes names that lose no
  behaviour (`NextUpToNames`): where each host is at first, which of them is
  connected to first, and which client binds when none has a session; the two
  hosts with their addresses can be exchanged, and so can the clients, and no
  property tells them apart. A wake ends only as there are finitely many connects:
  each new one has ten resends of its own (`server.js:1461`), so `ResendEnds` rests
  on `MaxTokens`.
* Channel: two fragments can be mixed, lost or reordered; two messages can
  overtake each other; `MaxQueued` 2 and `MaxHeld` 1 are met; one re-keying has
  datagrams of both keys in flight. Only one end speaks, since the directions
  share nothing but the key and the closing.
* Resume: the second viewer meets what the first left; the third id is a
  recovery after one that failed after one that worked.
* Update: the four files are two programs that are required, one that is not,
  and one that only the release brings; the second attempt meets what the first
  left. One failure can be followed by any other.
* Pre-login: five events are a logon, a switch away and back, and a crash and a
  restart between them, or a logon, a Host the user starts, one that yields to it,
  and a crash.
* Video: `QueueMax` 1 (for 6) makes every second picture meet a full queue,
  `HeldMax` 1 or 2 (for 8) an assembler without room, `EncoderHolds` 1 a batch of
  none, one or two. Two pictures under way are a keyframe and the delta that
  stands on it, or one on the wire and one still encoded; two faults are the least
  that drop a picture behind the keyframe that repaired the first, and they reach all
  three departures. `stream_back` leaves a failed send out: with it the liveness
  check is too large for a run; what a failed send leads to is in `stream`.

Device ids, tokens, workers, windows and hosts are interchangeable where the
symmetry sets say so; runs that check liveness use no symmetry. Deadlock is not
checked where the bounded system really stops: two closed channels with nothing
to say (`channel`, `resume`), spent connects (`relay`), spent attempts
(`update`).

### Fairness

* `LoginFlow`: a worker that can go on does; and, strongly, a client is started
  and closed again and again, the list can be read and a lock be had if this is
  tried often enough, and a directory asked often enough answers. Nothing is
  assumed of when a user signs in or out, and failures are finitely many. A start
  settles before anything else (`begin_auto_login`), and an attempt that fails
  leaves the list as it is for the next.
* `ControlChannel`: the end that speaks calls `Tick` (its threads do, in a
  loop), both read what is ready, and `ResumeWith` ends. Of the network nothing
  is assumed: it may lose everything.
* `ControlResume`: threads go on; and of an ask that is repeated for as long as
  the recovery runs, one is looked at in the end.
* `Relay`: armed timers fire. No host, client or answer is assumed to come.
* `Update`: the updater goes on unless it dies, the program that started it
  answers a signal it got, and a program asked to close does or does not, in the
  end.
* `Prelogin`: the loop ticks, a launch it has begun goes on, and the 30 seconds
  and the backoffs pass.
* `VideoStream`: the main loop takes its mail in every round, encodes and deals
  with the output; the sender and the receiver go on; latches, holds and back-offs
  run out. Strongly: maintenance is put off by 5 ms at most, the clock of a wait
  asks anew within 2 s, and of requests repeated for ever a limiter lets one
  through. Nothing is assumed of the network beyond the number of faults.

## 4. The proofs

Checked for every value of the constants (every number of accounts, devices,
hosts, tokens, sessions, files, fragments, messages, repairs, attempts, every
limit, every queue and hold, every set of faults) and for runs of any length. Assumed of the constants:

* `Directory`: `NoneAssumption`, `LimitsAssumption` (limits are numbers, and a
  credential in grace may be used at least once), `DirectoryAssumption`,
  `RandomAssumption` (random values of different kinds never coincide),
  `SessionTtlAssumption`; for the theorem on passwords only, `OperatorCli = FALSE`.
* `Prelogin`: `PreloginConstants`, no session is `None`. `Relay`:
  `RelayConstants`, there are finitely many hosts. `VideoStream`:
  `StreamConstants`, the queue, the viewer's hold and the pipe take at least one
  picture; no theorem has a further hypothesis, all fifteen kinds of fault may
  happen. `ControlChannel`: `Sizes`,
  two ends, and limits of at least 1. `ControlResume`: nothing; both theorems
  have the hypothesis `~Delayed`, that an ask to resume does not arrive after
  its viewer has gone on to another id, as in the run `resume`. Without it TLC
  finds `AnswersAreHonest` violated.
* `LoginFlow`: `NoneAssumption`, `LimitsAssumption`, `LoginFlowAssumption` (`None`
  is no window and no worker, and the bounds are numbers). Four theorems leave
  kinds of failure out, each told under *Departures*: `"counter" \notin Faults`
  for late answers; not both `"older"` and `"read"` for whom a window comes back
  as; and `"disable"` for the devices that are alive, with `IssuedKept > 1` if
  `"late"` is among the kinds (the code has `ISSUED_KEPT: 32`,
  `device_credentials.js:39`; with 1 a request that comes late makes the directory
  take the client's credential for unknown, and refuse it without ending the
  device); and `"late"` for the interruption that is forgiven. Every other kind may happen any number of times. Each hypothesis is
  weaker than what the run `windows` has, and without it TLC finds the property
  violated.
* `Update`: `UpdateConstants`, the release names each file once, and the three
  programs are three files. Three theorems have hypotheses besides, each of
  which leaves out a case told under *Departures*, where TLC finds the property
  violated: `~RetryTorn` (no attempt follows one that left files undone),
  `StartsOutsideSwap` (nobody starts a program between the wait for those that
  close and the moving of files), `StartsOutsideStop` (nor while they are asked
  to close), `~SlowClose` (programs close within the grace). The constants of
  the run `update` satisfy them.

The directory:

* `TypeInvariant` -- types, and a clock that has started. The lemmas about
  `Rotate`, `Revoke`, `Prune` and `Classify` state what each does to a record.
* `StoreIsConsistent`, `AnswersAreKept` -- by `StoreInv`: types, `MemoryIsDisk`,
  `OwnersExist`, and `FamiliesAreGood`, which says of each device that a family
  in the store was given out, has told nobody a credential ahead of its own,
  stands at a place not beyond the number of families ever made, and is ended if anybody was
  told so. What was told would survive a restart because memory is the file and
  families are good; neither half is inductive without the other, because a
  restart copies one into the other.
* `SessionsEndInTime`, `NewFamiliesLive` -- by `SessionInv`: sessions *follow*
  their account and family. The invariant leaves the clock out of a family's
  life (a family expires without anybody acting) and bounds the session's end by
  the family's expiry instead; `NewFamilyIsKept` counts families used earlier
  than the new one, which is where the order of the store matters.
* `TheIndexIsTheStore` -- with `TokensAreGivenOut`: a token that some host has
  was given out, so a fresh one is nobody's.
* `OldPasswordsAreWorthNothing` -- by `PasswordInv`: sessions, families and
  tokens each stand on the account's present password. What carries it through a
  check in flight is `stillTheSame`, through an admin's change that all three
  are ended in the same step. With `OperatorCli = TRUE` it is false
  (*Departures*, sign-in).

* `NothingWithoutOwner` -- `OwnersExist` is a part of `StoreInv`.
* `AccountsAreWithinTheLimit` -- by `LimitInv`. `Prune` keeps a live family of
  an account only if fewer than `PerAccount` of them come before it in the
  order of the list, and each place of that order is taken once, so the map of a
  survivor to the number of those before it is an injection into
  `0 .. PerAccount - 1`.
* `DirectoryKeepsThePromise` -- the refinement of `DeviceLife`, by `PromiseInv`
  (a credential that was replaced is an earlier one than the newest), one family
  at a time: in every handler and tick each family stays, starts, is exchanged,
  lapses out of grace or ends. That at most the newest credential and the one
  before it are accepted comes from the lemmas about `Classify`; that a refused one
  stays refused from `FamiliesAreGood`, which a restart needs as well.

The others:

* `Relay` -- `RelayTypes`, `TheIndexesAgree`, `NothingStaysOpen`, by `Inv`. Beside
  the three it says that an id is the name of one session only (`OneOfEachName`):
  sessions are dropped by their id, so the indexes alone are not inductive. The
  variables of the relay are taken together as one record, and `Bind`, `Drop` and
  the following of a host are lemmas about that record.
* `ControlChannel` -- `QueuesAreLimited`, `EndsStayInStep`,
  `ChannelDeliversInOrder` (the refinement of `OrderedStream`), by `ChannelInv`,
  which is about every datagram ever sent, as the network may bring any of them
  at any time. On a stream, numbers and bodies of fragments differ by what the
  sender had given up when it took the stream's key (`PiecesInv`); none is more
  than one ahead of what the receiver delivered (`ReceivedInv`), and no
  acknowledgement is ahead of it at all (`AcksInv`); so what completes is the next
  message and of one body. An end that was re-keyed first finds nothing on its
  new stream; what the other still reads under the old key is given up, and what
  was heard before is what was read under the key on top of it (`HeardInv`). Every
  operation is first shown to be one of six kinds (`Kinds`), and each part of
  the invariant is shown to survive the kinds.
* `ControlResume` -- `AnswersHold` and `WorkingChannelsStay` (an action property),
  by `ResumeInv`. A viewer draws an id only while the dispatcher waits or serves,
  and only when nothing is raised that it would still turn to (`NothingLeft`);
  what it turns to from then on is that id (`TurnsToIt`), and the number the
  reader waits for is the one raised for it (`RaisedForIt`). A number that is
  announced was served with the key of its id (`ServedIsTrue`). Once the ask is
  answered host and cache agree and the dispatcher is settled, so the reader
  only repeats the answer (`AnswerStands`), and nobody is left who would close the
  channel. That the reader may join a wait it finds under way, and that a wait may
  run out and be taken up again, is what makes the parts depend on each other.
* `LoginFlow` -- `LoginFlowTypes`, by `Typed`, which says besides what a worker
  knows at each place, and that the lock is with the worker that is between
  taking it and letting it go; every other part rests on that, because a worker
  that finds the lock free may then assume that nobody stands there.
  `LateAnswersAreDropped`, by `LateInv`: a worker that was overtaken took a number
  that is behind the counter for good, and the one that keeps has its number
  compared under the lock. `ComesBackForTheLast`, by `LastInv`: what is stored is
  the last sign-in kept or nothing, and who works on it has the lock.
  `LiveDevicesStayHeld`, by `HeldInv`: where a device that is alive can be (`Held`)
  is inductive only with what workers have learned about the devices they are
  about to forget (`WorkersKnow`: they are owed, or ended), with the directory
  knowing the credential that is stored (`StoreIsKnown`, `FreshIsKnown`: as the
  current one, the one before it, or the one that a late request superseded with
  nothing left in grace; so it is refused only if its device ends), and with new
  devices being one worker's (`Apart`). No request that is late is of a credential
  after the stored one (`NoneLater`), which is why one cannot supersede twice.
  `InterruptionsAreForgiven`, by `LuckInv`: until a second failure what is stored is
  the current credential or the one before it, and if the latter, its answer is
  still with the worker that has the lock or the one failure was the losing of it
  (`StoreIsForgiven`); it has its use in grace then, unless that use is what the
  answer on the way came of. What a worker is about to store is the current one
  (`FreshIsCurrent`), so a write that succeeds sets all this back, and one that
  fails is the failure counted.
  The steps are first restated by the fields of the worker they change, and those
  that only end devices are told from the three that do more (`EndsStep`).
* `Update` -- `TheCallerIsHeard` by `CallerInv` (nothing is moved unless the
  caller answered that it leaves), for every constant; `NoFileIsLost` by
  `FilesInv` (what was moved aside has its copy until it is back: where the loops
  over the files stand says which); `AttemptsEndWhole` by `VersionInv` (a file that
  was not moved is the former one, one that was placed is the new one, and a
  program runs the version of its file); `WhatRanComesBack` by `ProgramsInv` (what
  ran is captured before anybody is asked to close, who was asked and has not
  closed is known to run, and each relaunch starts the rest).
* `Prelogin` -- `PreloginTypes`, `OneServerAtATime`, `TicksLeaveUsersHosts` (an
  action property), by `PreloginInv`: a Host runs and is watched only where
  somebody has logged on, and what a tick has read of the user still holds when
  it acts, or the service watches no Host of that session (`SeenStillHolds`). A
  launch ends no Host: it adds one, or yields to the one it meets.

* `VideoStream` -- `TypeOK`, `KeyStateIsTrue`, `HostSendsWholeChains`,
  `OnlyARepeatedGapShows`, by `Inv`. The pictures form one line along which they
  never overtake (`InLine`: held, wire, hand, queue, batch, encoder), keys have
  their number from the queue to the wire (`Numbered`), and what is of an older
  epoch is in front of the rest (`OldFirst`). `HostSendsWholeChains` is only about
  what has left, so it needs to be said of every place what misses one the host
  dropped (`HostMisses`), but for the two drops without a number and a request
  that are told under *Departures*: behind the gates it is the very next to be judged, and
  then a gate is closed or it is a key; in the queue it is of an older epoch, or
  the sender stands between a failed send and arming the barrier; in hand it
  meets one of the fences. That leans on `OldWaits` (while something old is under way
  the gate waits for a key, or one is queued behind it), which in turn needs the
  queue to be of one epoch and a key to be the first in it. `MarksAreTrue` says
  where the key of a mark is, which `KeyStateIsTrue` does not, and why `FreeId`
  always finds a number. `OnlyARepeatedGapShows` needs `LossShows` (who misses
  what was lost later shows a gap, or the barrier is armed) and what the gate's
  being open says of the decoder (`GateIsTrue`): it is in step with what was sent, or a gap
  was passed over. Every step is proved twice over: what it does to a line, by
  order and functions alone, and that the action does that to `pipe`
  (`GoneFacts` for whatever is dropped, which rests on the ranks of a finite set
  of numbers, `RankFacts`).

Every invariant and action property of the passing runs is stated by a theorem;
the runs check the same on small instances, and are broken by the mutants.

Only model-checked: liveness. `OwedIsSettled`, `HeardOrBroken`, `Repaired`,
`ResendEnds`, `AttemptEnds`, `LogonIsServed`, `UserIsServed` and
`PictureComesBack` stay with TLC, as the proof system does not handle fairness.
There are no recursive definitions in these modules.

## 5. Plan

Done: the directory with its proofs, sign-in, relay and wake, the control
channel and its repair, updates, the pre-login service, the pictures from encoder
to decoder, each with its proofs. Next, the behaviour that most depends on interleaving first:

1. Parking: the fence that confirms a park, the gate of connect operations, and
   the Android client's `SessionPark` above them.
2. Retransmission: the host's cache of datagrams and the viewer's NACK rounds;
   the gates that keep frames of an earlier selection out.
3. Bulk transfers: who may send, transfers replaced and given up; the echo guards
   of the text clipboard, images and files on it.
4. The host's punches and the client's polling of a connect, composed with
   `Relay`; the sealed unlock exchange.

### Not modelled

Capture, encoding, decoding, rendering, window messages and drawing (device
access with little protocol of its own); rate and resolution control (numeric
loops over measured time); the validation of update manifests (pure, and
covered by vectors the tests share); scripts, tests and documents. What else is
left out of a modelled part is said with its module in section 2, and in
`PROJECT.json` for each component. The hazards there without a property say why
no property covers them.
