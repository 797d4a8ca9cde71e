# A verification of portable_terminal in TLA+

portable_terminal is the firmware of a handheld terminal (an ESP32-P4 board
with a touch display): a VT/xterm terminal emulator over SSH, Telnet or a USB
serial adapter, with a settings menu, an idle lock, a soft keyboard, a
reconnect supervisor, over-the-air updates, and a Tailscale client of its own
(control protocol, network map, DISCO, DERP relays, WireGuard). It is C++ and C
on FreeRTOS: some dozen tasks, one recursive UI lock, several atomics, and much
state that is shared with neither.

This directory holds TLA+ modules for its core, the TLC configurations that
check them on small instances, and theorems that TLAPS checks for every value
of the constants. `PROJECT.json` maps every definition to the source lines it
stands for, and lists the runs, the hazards and the theorems.

    tlc -workers 2 -config Ui.cfg Ui.tla      # model-check a run
    tlapm AppProofs.tla                       # check the proofs

## 1. The system

### Components, their state and operations

| Component | Source | State | Operations | Correct when |
|---|---|---|---|---|
| Terminal screen | `term_core/screen.cpp` | grid of cells, cursor, deferred wrap, scroll region, pen, saved cursor, main and alternate page, one damage rectangle | one per control function; resize; `render_dirty` | every index stays in the grid; no repaint is lost; wraps, pairs, pages and the region keep their rules |
| Parser | `term_core/parser.cpp` | state of the VT500 automaton, parameters, partial UTF-8 character | `feed(byte)` | a cut sequence leaves nothing behind; the calls are what the stream writes (an ESC within a sequence and overlong UTF-8 excepted, section 5) |
| Connection | `connection.hpp` | none of its own | `start`, `send`, `resize`, `is_connected`, on-closed | one session at a time, opened from scratch and over before the next |
| SSH transport | `ssh_connection.cpp` | the static `g_sess`: two atomics, socket, session, channel, TX stream buffer, pending resize | `start` on the caller's task, `ssh_task`, `send` and `resize` from any task | `g_sess` has one owner; every exit cleans up; a resize is lost only by a refused request |
| Telnet transport | `telnet_connection.cpp` | socket, `running`, decoder, size and its pending flag | like SSH; negotiation | both streams keep their bytes; the server has the last size |
| USB serial | `usbserial_connection.cpp`, `ftdi_sio_host.c` | device handle, list of devices, three transfers | open, plug and unplug events, control requests, TX | no byte lost or added on the way in; the rate is the configured one; a plugged device comes back |
| Reconnect supervisor | `reconnect.cpp` | `backoff`, `was_connected` | one polling loop | a lost session comes back, promptly at first, with the right size |
| User interface | `app_main.cpp`, `ui_root.cpp`, `screen_lock.cpp`, `menu.cpp`, `soft_keyboard.cpp`, `ap_qr_screen.cpp`, `touch_input.cpp` | lock, PIN entry and lockout, menu state, visible overlays, overlay flag, keyboard sink | taps, bytes, timer, restart, settings POST | one modal owns display and input; nothing gets round the lock |
| Byte sources | `input_uart.cpp`, `input_usb_jtag.cpp`, `input_usb_hid.cpp` | none | hand bytes to one sink | a byte goes to who owns the input |
| Stored settings | `profiles.cpp`, `tofu.cpp`, `wifi_config.cpp` | NVS keys, `selected_` | add, remove, select, trust | the selected profile is the one the user chose, over crashes too |
| Update task | `ota_task.cpp` | image states of two slots, pinned version, streak, cool-down | poll, download, deferred restart, confirmation | the device always has a sound image to start, and ends up with the one that was published |
| DERP pool | `tailscale_derp.c` | four slots: `in_use`, `connecting`, `running`, TLS, queue; per slot a receiver, a writer, a keepalive task | `derp_ensure_region`, connect task, teardown, `ts_derp_disconnect` | one link per region; no link destroyed under its users |
| DISCO | `tailscale_disco.c` | 64 pending pings, `s_verified` and direct address per peer | ping, pong, sweep, reset | a peer that falls silent goes back to its relay |
| Network map | `tailscale_netmap.c` | peer table | full and delta updates, lookups | the table and the WireGuard device hold the same peers |
| Control client | `tailscale_control.c`, `tailscale_pubip.c`, `tailscale_esp32.c` | connection, stream being read, endpoints, `s_stop` | register, map request, segments, probe of the public address, stop | the map never goes back; the client always ends up listening |
| WireGuard | `wireguard.c`, `wireguardif.c` | three keypairs per peer, handshake, replay window | handshake, data, timer | no datagram is accepted twice, none refused without cause, no nonce used twice |
| Wi-Fi and VPN bring-up | `wifi_setup.cpp`, `vpn.cpp` | flags | events | - |
| Display, cursor, status bar, boot progress | `display_m5gfx.cpp` and others | pixels | drawing | - |
| C6 updater | `c6_updater/` | none | writes one image | - |

### How they interact

* `app_main` builds **one sink** for physical bytes. Each source task runs it on
  its own; it asks the lock, the QR overlay and the menu, in this order and
  without the UI lock, and then feeds the first that wants the byte, else
  `Connection::send`. The soft keyboard has a sink of its own, which an editor
  of the menu borrows.
* The **UI lock** (a recursive mutex) protects the terminal, the compositor and
  the handlers. It is taken after the decision which handler to run.
* The **I/O task** of a transport hands received bytes to `remote_rx`, which
  feeds the parser and the screen under the UI lock and paints unless
  `ui_root`'s overlay flag is set.
* The **boot task** brings up Wi-Fi, the VPN and the first session, then
  registers the connection; the **supervisor** watches it from then on. The
  **touch task** resizes the grid, and through `active_connection()` the remote
  pty, when the soft keyboard comes or goes.
* **WireGuard** runs on the tcpip thread and sends through the DISCO path or a
  **DERP** link; DISCO also on a timer task, and the **control task** changes
  the network map under all of them.

### What is hard about it

Unlocked reads followed by locked actions (the sink); atomics that stand for
ownership (`running`, `task_alive`, `connecting`); a fixed delay in the place of
a join (`derp_conn_teardown`); one static session object reused for ever; modal
state kept in four places (`locked`, `state_`, `visible`, the overlay flag); a
hull rectangle in the place of a list of damage; links that come up and die
under their users. `PROJECT.json` lists all of it under `hazards`, at the line
where each one bites, also what no property covers yet.

## 2. The modules

| Module | Models | Composed with |
|---|---|---|
| `Screen` | the screen, one operator per control function, and `render_dirty` | - |
| `MCScreen` | instances of `Screen`, with a bound on the length of a program | `Screen` |
| `Parser` | the control sequence parser, one `Feed` per byte | - |
| `ControlSequences` | what a stream means, told from whole sequences and characters | `Parser` |
| `Connection` | abstract: what `IConnection` promises | - |
| `SshSession` | the SSH transport, one step per atomic access or libssh2 call | implements `Connection` |
| `Telnet`, `MCTelnet` | the telnet transport and a server that negotiates | implements `Connection` |
| `Serial` | the USB serial transport over the FTDI driver | - |
| `Reconnect` | boot connect, supervisor, keyboard toggles | runs over `Connection` |
| `MCSessions` | the three above, each by itself, in one run | `SshSession`, `Serial`, `Reconnect` |
| `Ui` | lock, menu, soft keyboard, QR overlay, compositor, input tasks | - |
| `Settings` | the profile store and its two writers, one NVS write a step | - |
| `Ota` | the update task over the bootloader's two slots | - |
| `Device` | both on the chip that restarts under them | `Ota`, `Settings` |
| `Control` | the Tailscale control task, the address probe, start and stop | - |
| `Disco` | the peer table, DISCO's arrays and the WireGuard device's peers | - |
| `Derp` | the pool of relay links | - |
| `WireGuard`, `MCWireGuard` | two ends of a tunnel over a bad network | - |
| `TerminalProofs` | theorems | `Screen`, `Parser`, `ControlSequences` |
| `SshSessionProofs`, `TelnetProofs`, `DerpProofs`, `ControlProofs` | theorems | the module of the name |
| `AppProofs` | theorems | `Ui`, `Reconnect`, `Serial` |
| `TunnelProofs` | theorems | `WireGuard`, `Disco` |
| `DeviceProofs` | theorems | `Device`, with `Ota` and `Settings` |

Each module says in its heading what a step is and what it leaves out. What
follows is how their state and actions correspond to the code.

### Screen and Parser

The grid is a function of functions, a cell has a character, a pen (all of the
colours and attributes: a model value) and the two width flags as `half`. One
action is one call from the parser, with everything the call does: `PutNarrow`
and `PutWide` are `put_char` with the deferred wrap, the orphans it blanks, the
line feed and the marks. Each operation updates `damage`, the hull of
`mark_rect`, and `RenderDirty` copies the damaged cells to `shown`, what the
panel holds, a ghost of the real display. Parameters keep their 16 bits where
the code truncates them (`U16`, `Count`).

`Parser` is `feed()`: a record for the object, its fixed arrays as sequences
with their limits as constants, one operator per state of the automaton, and
the call that the byte makes as its value. `ControlSequences` adds no behaviour:
it records the sequence and the character begun, and states from the finished
whole which call the grammar asks for: a parameter is the sum of its digits times
their powers of ten, the intermediates are what stands after all the rest. The
grammar is the one of a parser after Williams, which `parser.hpp:35` claims to
be, for the sequences that the sink has a call for (DCS, SOS, PM and APC strings
are to it and to the code escape sequences followed by text; a byte from 128 on
spoils a sequence). An ESC begins a new sequence and a DEL is overlooked wherever
they stand in an escape or control sequence. The code does neither, so from
such a byte (`LeadsAstray`) until both are at rest (`AtRest`) the history
variable `astray` is set and `CallsAsWritten` is silent; without that exception it
is `EveryCallAsWritten`, which is false (section 5). `IsEncoding` is UTF-8 with
shortest forms, without surrogates and up to 10FFFF; of bytes that look like a
character and encode none `ShownAsEncoded` says nothing, and the code shows them.
`Screen` takes calls, `Parser` makes them; together they would be no more than
the two.

### Connection, SshSession, Telnet, Serial

`Connection` has one variable with four phases. `SshSession` steps at what
another task can observe: each atomic access, each libssh2 call, each free.
`starter` is where `start()` stands, `task` where `ssh_task` does, `sender` and
`resizer` the callers. The refinement (`ImplementsConnection`) maps the atomics
and the owner of `g_sess` to a phase; `Abort`, by which a start fails with
something to clean up, is what the code does when `xTaskCreate` fails. libssh2
and lwIP are external: a link is up, stalled or down. The session does not
block, so a pty request may be refused with EAGAIN on any link; the code has then
cleared the pending columns already and only logs the failure
(`ssh_connection.cpp:236-243`). `refusedRows` keeps what the last request asked for
if it was refused, and `ResizeHonoured` says that nothing else loses a resize.
What libssh2 does with a request it has refused, when the next is made before it
is sent, is not modelled.

`Telnet` has the decoder, the answers to `DO`, `DONT`, `WILL`, `WONT`, the NAWS
sub-negotiation and the loop of `telnet_task`; `resize()` stores columns, rows
and the pending flag in three steps. TCP is `down` and `up`, and `chunk` is
what one `recv` returned, cut anywhere. The server acknowledges as RFC 854 has
it and reads at all times, so `write_raw` is one step. What the stream buffer
holds is written byte by byte, each escaped, which leaves room for any cut.

`Serial` has `start()` with its discovery, claim and settings, the driver's
client task, and the three transfers; every plugging in is a new device, and
`gone` holds those the driver has yet to report. The numbers of `setBaud` are
the code's: `RateHonoured` decodes what is sent as the chip does. A request goes
through one transfer that all share; one that finds it in flight is written over
the other, and either may fail, which nobody looks at: `lost` says that this
happened to the session. `RateHonoured` says that no adapter obeys a wrong rate,
and that a session that has settled and lost nothing has obeyed its own. `Fits`
excepts the rates whose divisor has more than 14 bits.

### Reconnect

The boot task's `start()`, its registration, the supervisor's loop with its
real delays (1 s, doubled up to 30 s), and `repaint_kbd` as two steps, all over
`Connection` with a network that comes and goes. The transport may fail to send a
size (`lostRows`, as above). `upSince`, `opener` and `toggled` are history
variables that the properties need.

`MCSessions` puts `SshSession`, `Serial` and `Reconnect` next to each other
without joining them: they have no variable in common, `followed` chooses one for
the whole behaviour and the other two stand still. It is three checks in one run
and not a composition; what composes them is that each of the transports is used
by `Reconnect` as `Connection` allows.

### Ui

The handlers are translated whole, and each runs in one step, for it holds the
UI lock. The tests in front of them are steps of their own: `at[s]` is where a
source's task stands between two tests, `touch` the touch task. Time is in half
minutes, the period of the lock's timer. `shown` is the last thing painted over
the terminal's area. A PIN entry is `empty`, a `match` or `other`: which one a
digit makes is chosen freely. `SaveConfig` is the settings server's effect.

### Settings, Ota, Device

`slot` and `nvsCount` are flash, `count` and `selected` the copies in RAM, `op`
the writes that an edit from the menu or from a request has yet to make. The
menu and the HTTP server hold no common lock; `raced` says that they have
overlapped, after which nothing is promised. `Ota` has the state and the image
of each slot (`st`, `img`), the bootloader's choice and the task's own steps.
`Device` puts both on one chip: an update, a crash of a bad image, a tapped
profile or a power cut restarts the one in the middle of the other's work.

### Control, Disco, Derp

`Control` has one action per step of the task between two blocking calls
(register, build the request, clear the dirty flag, send, headers, segments,
poll), the probe's task, and `tailscale_esp32_stop`. The coordinator and the
connection (`server`, `pipe`) are external: requests may be refused, streams
end or be superseded, the connection breaks as a whole.

`Disco` has the three threads with a step per access to what they share:
`ctrl` walks a map (`keep`, `todo`), `send` is a ping that has been written but
not registered, `rx` a Pong between its lookup and the promotion. The WireGuard
device is `wg` (who) and `path` (where). `pongAge` replaces the clock of a verified
path. A node of `Homed` has a DERP region and is put on its relay; for any other
the map carries an address or none (`Offered`), and an update without an address
leaves the path alone (`tailscale_netmap.c:545,572`). `FallsBack` is about peers
with a relay: one whose path is neither the relay nor where it is (`Misrouted`)
comes back, or keeps sending pings from elsewhere (`SignOfLife`), which refresh the
age of the dead path. It says nothing of peers without a relay, which have nothing
to come back to.

`Derp` has per slot the record of `derp_conn_t` and the number of workers alive
on it; per sender and per connect task where it stands. What runs under the
pool's mutex is one step; reaping, dialling, the settle delay and the workers'
exits are steps of their own, because they run without it. `net` stands for
everything outside: it must be false for a dial, a task creation or a lookup to
fail, and for a link to break. That `xTaskCreate` of a worker succeeds is assumed.

### WireGuard

A handler runs on lwIP's thread, so it is one step. A peer has the three slots
`curr`, `prev`, `next` and an initiation that waits; a session is named by the
response that created it. `net` is every message that was ever sent: anything in
it may arrive any number of times, or never. Ages are chosen at each test, so
that every timer may have run out. `handed`, `confirming` and `refused` are what
the receiver did with each packet, a history. `bitmap` is a set of distances,
`Window` the 4 that `sizeof(replay_bitmap)` is in the code.

## 3. The runs

| Run | Constants | Distinct states | Shows |
|---|---|---|---|
| `screen` | 3x2 grid, resize to 2x1, two narrow and one wide character, parameters 1, 2, 65535, programs of 5 functions | 705,089 | `TypeOK`, `DisplayFaithful`, `WrapOnlyAtMargin`, `PairsSurvive`, `MainPagePreserved`, `ScrollConfined` |
| `parser` | fourteen bytes that reach every state (DEL and an overlong lead among them), one intermediate, two parameters, no text in a string, sequences of 6 bytes | 973,955 | `NoResidue`, `CallsAsWritten` |
| `sessions` | SSH: one sender, two resizers, two heights. Serial: two pluggings, both clocks, three rates (300 baud on 12 MHz does not fit), packets of 4 bytes. Reconnect: the program's own delays and heights | 571,704 | `OneOwner`, `CleanWhenDown`, `ResizeHonoured`, `DropCleansUp`, refinement `ImplementsConnection`; `StreamIntact`, `RateHonoured`, `ComesBack`; `SizeReplayed`, `Reconnects` |
| `resize_notified` | as `sessions` for SSH | violated | `RemoteIsNotified` is false (finding) |
| `esc_begins_anew` | six bytes | violated | `EveryCallAsWritten` is false (finding) |
| `telnet` | two sessions, one byte (255) typed and shown, one resize, two offers | 1,152,112 | `StreamsIntact`, `WindowKept`, refinement `ImplementsConnection` |
| `ui` | one source besides the touch task, lock after 1 min, lockout after 1 wrong PIN, one doubling, two wrong PINs | 816,444 | `OverlayFlagTracks`, `DarkOnlyWhenLocked`, `LockoutHolds`, `IdleLocks` |
| `device` | three versions, the second bad, three profile slots, one cut | 609,634 | `NoProfileLost`, `Recovers`, `UpdateArrives` |
| `control` | one address, three versions of the map, two faults, two frames in the pipe | 243,928 | `MapNeverBack`, `ListensAgain` |
| `disco` | two nodes, one of them without a relay, two addresses, two slots, two pending pings | 1,197,467 | `TablesAgree`, `FallsBack` |
| `derp` | two slots, three regions, two senders, two connect tasks, two workers of a kind per slot | 411,984 | `OnePerRegion`, `OneConnector`, `LinkWhole`, `RegionComesUp` |
| `wireguard` | two ends (interchangeable), two initiations and sessions, four packets, one restart, window 2 | 763,252 | `DeliveredOnce`, `RefusedForCause`, `NonceNeverReused`, `ResponderWaits` |

### Bounds, and why they are enough

* **Screen** (`MaxOps` = 5). On 3x2 each of a first, a middle and a last column
  exists, a pair can fit or not, a region can be one line or the screen, and
  2x1 forces every index down. Rendering is free between any two functions.
  All six properties are proved for every size and every length.
* **Parser** (`MaxSeq` = 6; the limits at 2, 1 and 0, the code's at 16, 2
  and 256). A sequence of six bytes overflows each of them, and every stream
  over the fourteen bytes is explored, since the state returns to idle. With no
  room for text only an empty OSC string is reported and a longer one is dropped;
  what the text is, is left to the theorem. `MaxAstray` = 2 stops the grammar's
  sequences early while the parser is astray: nothing is claimed there, and both
  still come to rest. Both properties are proved for every set of bytes, all limits
  and any length.
* **SshSession** has no bound on sessions: its state returns to `Init`. Two
  resizers are enough for two resizes to overtake each other and the consumer;
  the theorem covers any number.
* **Telnet**: two sessions, for what a first one may leave to a second; the byte
  is 255, the one that has to be doubled; a sequence of negotiation is never
  longer than five bytes and is cut at each of them.
* **Serial** (`MaxPlugs` = 2): one adapter and the next; `MaxData` gives two
  packets with two bytes each, that is, a status head inside a transfer.
* **Reconnect** is finite as it is.
* **Ui**: `MaxWrong` bounds the wrong PINs in a row. `LockoutAfter` is 1 (the
  code: 5) and `MaxShift` 1 (the code: 3), which makes lockouts and one doubling
  happen within the bound. The theorems hold for any number of sources.
* **Device**: a sound version in flash, a bad one and a sound one published in
  turn; a full list is three profiles; one power cut besides the restarts that
  updates and bad images cause, at any write.
* **Control**: `MaxFaults` = 2, so that a reconnect can fail as well;
  `MaxRecent` = 2 lets an address be dropped from the list.
* **Disco**: two addresses let a peer move from the verified one to another and go
  on pinging; two nodes for two slots exercise reuse of an index, a full table and,
  with two pending pings, a full pool.
* **Derp**: `MaxWorkers` bounds the writers and receivers that linger on one
  slot. Two slots for three regions make the pool full. A stop begins only while
  the network is up, nobody sends once it has begun and the network is then
  frozen: these bounds cut the state space after the stop, and every property
  speaks of the time before it.
* **WireGuard**: two handshakes fill the three slots at both ends; with window 2
  four packets suffice for a jump beyond the window. All four properties are
  proved for any window up to 32 and any bounds.

Deadlock is not checked where a bound or the system itself ends a behaviour: a
stopped client (`derp`, `control`), the last
session (`telnet`), the last version with no cut left (`device`), the longest
sequence (`parser`). In `sessions` the last plugging is an explicit step
(`Exhausted`), so that any other standstill would be reported.

### Fairness, and why the code justifies it

In `sessions` each of these holds for as long as its module is followed.

* **SshSession**: weak fairness of the task's and of `start()`'s steps (the
  scheduler runs every ready task; libssh2's calls return) and of a stalled link
  being given up or coming back (TCP retransmission limits, `SO_KEEPALIVE`).
  None for senders, resizers and the user's `start()`.
* **Telnet**: weak fairness of the task and of `start()`, for the refinement.
* **Serial**: weak fairness of the driver's task, of a start once begun, of the
  host's enumeration and of the transfers' completion. Strong fairness of the
  claim alone: it is one of several candidates, and the supervisor tries again
  for ever while devices come and go.
* **Reconnect**: weak fairness of the boot task, the supervisor, the I/O task and
  of the end of a session's clean-up. The network is free; `Reconnects` assumes
  that it is up for good from some time on.
* **Ui**: weak fairness of `Clock` and of the lock's periodic timer alone: nobody
  has to touch the device, so a lock that waited for input would be found.
* **Device**: weak fairness of the update task's steps, of the health timer, of
  restarts, and of the crash of an image that is not sound (that is what not
  sound means). Strong fairness of a complete download: a server that keeps
  serving an image is reached in the end.
* **Control**: weak fairness of the control task, of the stop once begun, of the
  coordinator's answer and of its closing an idle connection. Faults are free
  but for their number.
* **Disco**: weak fairness of the threads; strong fairness of a full map being
  applied (the coordinator sends one per stream, and `Control` shows that streams
  come again and again); of time passing on a path (`Older`) and of the sweep,
  which a periodic timer runs.
* **Derp**: weak fairness of senders, connect tasks and workers. Strong fairness
  of *some* sender asking for each region: WireGuard repeats its handshake to a
  peer it has no session with (`REKEY_TIMEOUT`), so a region that is wanted is
  asked for again at moments when its slot can be claimed too.

## 4. The proofs

| Theorem | States, for every value of the constants |
|---|---|
| `TerminalProofs!TypeCorrect` | `[]TypeOK`: every index the screen dereferences without a check is in the grid |
| `TerminalProofs!Faithful` | `[]DisplayFaithful`: no repaint is lost |
| `TerminalProofs!WrapAtMargin`, `!PairsStay`, `!MainPageWaits`, `!Confined` | `[]WrapOnlyAtMargin`, `PairsSurvive`, `MainPagePreserved`, `ScrollConfined` |
| `TerminalProofs!WithinItsArrays` | no array of the parser is written past its end |
| `TerminalProofs!Forgets` | `[]NoResidue` |
| `TerminalProofs!SaysWhatIsWritten` | `[]CallsAsWritten`: the sink is told of the control functions and characters in the stream, as the whole of their bytes writes them, and of nothing else, from an ESC or DEL within a sequence to the next rest excepted |
| `SshSessionProofs!OneOwnerAlways`, `!CleanAlways` | `[]OneOwner`, `[]CleanWhenDown` |
| `SshSessionProofs!StepsOfAConnection` | the safety half of `ImplementsConnection` |
| `SshSessionProofs!ResizesArrive` | `[]ResizeHonoured`: only a refusal of its own request loses a resize |
| `TelnetProofs!TelnetStreams`, `!TelnetWindow` | `[]StreamsIntact`, `[]WindowKept` |
| `TelnetProofs!StepsOfASession` | the safety half of its `ImplementsConnection` |
| `AppProofs!OverlayFlag`, `!DarkMeansLocked`, `!Lockouts` | `[]OverlayFlagTracks`, `[]DarkOnlyWhenLocked`, `LockoutHolds` |
| `AppProofs!SizesAgree`, `!PromptRetry` | `[]SizeReplayed`; a session that was up is retried after the initial delay |
| `AppProofs!UsesOneSession` | every step of boot task and supervisor is a step of `Connection`, or none |
| `AppProofs!StreamArrives`, `!LetsGo` | `[]StreamIntact`; a serial transport that is down has let go of every device |
| `AppProofs!RatesArrive`, `!SlowClocksFit` | `[]RateHonoured`; on a chip of at most 3 MHz every rate the driver accepts `Fits` |
| `DeviceProofs!AlwaysBootable`, `!AlwaysFallsBack`, `!CoolDownNotEntered` | there is always a whole image to start, and a confirmed one behind an image on trial; the running slot is never `ABORTED` |
| `DeviceProofs!DeviceRunsTheUpdate`, `!DeviceAlwaysBoots` | every behaviour of the device is one of the update task, so the above holds with the store and its restarts around it |
| `DeviceProofs!ProfilesStay` | `[]NoProfileLost` |
| `ControlProofs!MapOnlyAdvances` | `MapNeverBack` |
| `TunnelProofs!AlwaysAgree` | `[]TablesAgree` |
| `TunnelProofs!AtMostOnce`, `!RefusalsAreDue`, `!NoncesAreNew`, `!AnswererWaits` | `[]DeliveredOnce`, `[]RefusedForCause`, `[]NonceNeverReused`, `[]ResponderWaits` |
| `DerpProofs!NoSecondLink`, `!OneOwner`, `!LinksAreWhole` | `[]OnePerRegion`, `[]OneConnector`, `[]LinkWhole` |

**Assumptions.** `Screen`: parameters are naturals, every size has two columns
and a line at least (the program uses 80x30 and 80x14), the space is narrow, no
character is both narrow and wide, the default pen is a pen. `Parser`: the
limits are positive, bytes are bytes. `Ui`: the timeouts are naturals. `Ota`:
there is a sound version, the one in flash. `Derp`: the sets of regions, senders
and tasks are finite. `Disco`: the sentinels are no members. `WireGuard`: the
window is between 1 and the bitmap's 32 bits, every end has another.
`Reconnect`: the delays are positive and the first is the least. `Serial`: a
packet has a data byte besides its two of status. `Telnet`: bytes are bytes, a
size is two numbers from 1 to 254 (255 is not escaped, section 5), and the server
never refuses the window size (a refusal is not remembered, section 5). `Settings`: the store has
room for one. `RatesArrive` has no hypothesis: `RateHonoured` itself
speaks only of rates that the driver accepts and whose divisor has an integral
part of 14 bits (`Fits`), which the code does not test. On a 12 MHz chip 300 to 732
baud are accepted and do not fit (section 5); `SlowClocksFit` shows that on the 3
MHz chips whatever is accepted fits.

**Screen.** `TypeOK` is inductive. One lemma per group of control functions
shows that it keeps its type; below them, that marking keeps a rectangle within
bounds (`MarkType`), that scrolling looks no further than the grid (`ShiftType`)
and that the stages of `put_char`, line feed, orphans, writing, hand valid
positions to each other (`LineFedType`, `UnpairedType`, `WrittenLineType`,
`WideStage`). `Faithful` rests on one observation, `Covered`: a step keeps the
display faithful when every cell it changes is in the damage it leaves, and the
damage it found is too. Marks only grow (`MarkKeeps`) and contain what they
mark (`MarkCovers`); what is left to show, operation by operation, is that its
edits stay inside its marks (`ShiftCovered`, `NarrowLocal`, `WideLocal`,
`EraseLocal`). This is what the code never states and what a new control
function would have to obey. `WrapAtMargin` needs the type invariant, and that a
pending wrap travels with its cursor through page switches. `Confined` rests on
`ShiftInside`: every shift begins inside the region and is cut off at its end.
`PairsStay` uses a weaker form of pairedness, `PairedBut(line, S)`: outside the
columns of S every half has its other half, and outside S. `clear_orphan_pair`
lets one column go (`UnpairedLetsGo`), and what is then printed fills just the
columns let go (`NarrowPaired`, `WidePaired`).

**Parser.** `NoResidue` speaks of a second parser, made new whenever the first
is idle. The invariant `Alike` says that the two agree on whatever their state
still reads: a state that does not read the OSC text may differ in it.
`FeedAlike` is the step: alike parsers make the same call and stay alike.

`CallsAsWritten` compares the parser, which goes byte by byte, with a grammar that
reads finished sequences. The invariant `SequenceSeen` gives each state of the
automaton its meaning in terms of the bytes so far: `CsiIgnore` says that they are
malformed, `csiOverflow` that the values written do not fit the arrays,
`params` and `intermediates` are those values and those bytes, `EscIntermediate`
that there was more than ESC. `TextSeen` does so for a character begun: `remaining`
is how many bytes it lacks, `cp` the bits of those that have come. Then there is one
lemma for each branch of the handlers (`CsiDigit` to `CsiMalformed`, `CsiGoesOn`,
`OscGoesOn`, `EscGoesOn`, and `CsiEnds` and the like for the call), and `FeedAside`:
what is no text leaves the character alone. Two facts make it go. What does not fit
once never fits again (`NeverFitsAgain`), so that a flag that is only ever set is
enough: once a parameter is above `MaxParam`, the next digit makes it too large for
good. And a digit more makes ten times the number and that digit (`ValueGrows`,
`DigitAdds`), where the number is a sum over a set of positions. That is an
induction over the digits. The library's principle takes an operator, which the
provers cannot instantiate, but it follows for a set of numbers from the least
element of its complement (`Induction`, from `WFMin`); the recursive definitions of
`Power` and of the library's sum are unfolded by showing that functions which obey
the equation up to n exist for every n and agree (`SumsExist`, `SumsAgree`,
`PowersExist`, `PowersAgree`).
The whole holds as long as the parser is not `astray`; it begins again at the first
byte after a rest, for there nothing is begun and so everything was seen
(`AtRestSeen`).

**SshSession.** The invariant says what exists at each point of `start()`, of
`ssh_task` and of `shutdown_session`, which either may run, and that
`task_alive` is the task's own flag. That `running` is set before the task is
created, and `task_alive` cleared last, is what leaves no moment at which a
second `start()` finds both false. The refinement follows from the points.
`ResizesArrive` adds where the rows due are when no resize is pending and none
about to be published (`Delivered`): in `pending_rows` until the task loads them,
then in its hand, then at the remote or refused. A resizer that overwrites `pending_rows`
meanwhile ends by publishing, which is why rows are stored before columns.

**Telnet.** Where a parser is depends on all the bytes it has read. Rather than
compute that by recursion over the streams, the proof takes the decoder (`Reads`)
and what the server listens for (`Hears`) as sets of transitions, and the invariant
says that there is a path over the bytes under way. `Inbound`: `chunk` and `down` lead from
the decoder's state to one between two commands, with all that the server wrote
pushed and, if it asked for the window size, with that agreed on. `Outbound`: `up`
leads from what the server has to what it will have, all that was taken from the
stream buffer and a last size; that is the terminal's, or it will be told (`Told`:
the flag is set, a resizer has not come to it, or the task holds the columns of
now). A path can be joined, split and shortened by its first byte (`PathJoin`,
`PathSplit`, `PathHead`); `SaidArrives`, `CommandArrives`, `SubArrives`,
`DataLeaves`, `AnswerLeaves` and `SizeLeaves` are the paths of what is written,
and `TokenRead` shows that the server takes whole tokens off its own. When
nothing is under way the path is empty and its two ends are one.

**Ui.** The inductive invariant is `UiInv == OverlayFlagTracks /\
DarkOnlyWhenLocked /\ LockoutOwned`: a lockout runs only under the lock
(`LockoutOwned`), without which a step that locks an unlocked device could be
one inside a lockout; and the flag is claimed only while unlocked, since
`dismiss_qr_screen_if_visible` may clear it under a lock that came in between.
The proof has the shape of the program: `ViewStep` is what a handler of the
menu, keyboard or QR overlay may do to the lock and the flag, `PadStep` what the
PIN pad may do; each action runs such handlers (`StepKinds`).

**Reconnect.** The refinement needs no invariant: the steps of `Reconnect` are
those of `Connection` beside its own variables. `SizesAgree` is about who opened
the session (`Openers`) and about the height that the remote pty has, or will
have once what is pending was sent (`NewHeights`: that, or the one that was lost). From the replay on that is the
height of the grid, whatever the last session left pending and whenever the I/O
task gets to it (`Replayed`); `toggled` excepts a keyboard that moved between the
read of the size and its sending, the gap of section 5.

**Serial.** `Arriving` says where the next byte is: at the adapter, in the
transfer that is under way, or received. `InPacket` is the arithmetic of
`in_xfer_cb`: data byte k of a transfer is at `(k \div (Mps - 2)) * Mps + 2` and
further, for every packet size and length, also where the last packet is short
or has nothing but its status. `Holding` lists what is open at each point of
`start()`; it is what makes every exit clean. `Requested` says that each request
in the transfer, the one in flight and the one written over it alike, is for the
rate of this session on this chip, so that it does not matter which one the host
sends. `Rounded` and `CodeRead` then give the eighth: the code of the fraction can
be read back, and nothing gets under it as long as the integral part has 14 bits.
`Asked` is the other half: from the baud request on, the device that is still there
has obeyed one or will, unless something was lost; `Numbered`, that no device has
the number of an earlier one, keeps the requests of one session off the next.

**Ota.** `Runs`: the running slot is confirmed, or pending before a confirmed
one. `Newest`: the newest slot is the running one unless it failed or waits for
its first start. `Writes`: only a confirmed image downloads another, so that
what is overwritten is never the only sound image.

**Device.** A restart of the chip is, for the update task, a restart of its own,
whatever asked for it; no other step of the store changes what the task reads, so
that what holds of `Ota` holds of `Device` (`DeviceRunsTheUpdate`). For the store,
`Held` says where a profile that the user keeps is: in a slot below the stored
count, and not in the one that the menu is shifting over. A removal copies
upwards first and lowers the count last, so that at each write the profiles above
the gap are held twice or once, but never not at all (`Gap`); an addition writes
its slot before the count. `OneWriter` is the hypothesis without which none of
this holds: once the menu and a request have overlapped, `raced` is set and
nothing is claimed.

**Control.** A frame does not say how old its content is, so the argument is one
about streams. On one stream changes arrive in the order in which they were made
(`InOrder`). The stream that is read carries nothing older than what is known
(`Newest`), and neither does the one that is waited for: it begins with the whole
map as it is when the coordinator answers, and meanwhile nothing else is applied.

**Disco.** A peer enters and leaves the two tables in two steps each. `Agree`
holds but for the one peer that the control task has in hand, and `InHand` says
what is known of that one; `WalkKeeps` carries it along the loop over the map.

**Derp.** `connecting` is a lock with one owner, a sender about to spawn or a
connect task (`Locked`); the owner knows its slot's link is down and the region,
TLS link and queue are those it set (`Held`); a running link has one receiver
(`Whole`). `DialKeeps` to `FinishKeeps` show it for every point of the task.

**WireGuard.** The invariant is one of a keypair, wherever it is: its counter is
ahead of all it sent (`Ahead`), its session was begun by a response (`Begun`), a
responder that has heard has heard something (`Spoken`), and its window
remembers exactly what was passed (`Remembers`, as far as it reaches). Rotation
then costs nothing, since a slot only receives a keypair that was sound; what
must be shown is that a new session is in no slot yet (`Unused`), and that one
packet per session, the confirming one, is all that goes past the window.

**Only model-checked.** Liveness (`DropCleansUp`, `Reconnects`, `RegionComesUp`,
`ListensAgain`, `FallsBack`, `ComesBack`, `IdleLocks`, `Recovers`, `UpdateArrives`)
and the fairness in the refinements, which the prover does not do. Every
invariant and every action property of the runs is proved.

## 5. What the checks and the reading found

Most of what is easiest to doubt holds: the hull rectangle never loses a
repaint, the two atomics do make `g_sess` have one owner, the unlocked tests of
the byte sources neither end a lockout nor type in the dark, the `connecting`
flag is a lock although nothing says so, the peer table and the WireGuard device
agree although three threads share them, the bootloader always has a slot to
start.

What follows does not. The first group are properties that a comment of the
program states; the modules define them, and they are false. The first two are
checked, by the runs `resize_notified` and `esc_begins_anew`, and are the findings
of `PROJECT.json`. The others no run of this project checks: the definitions are
kept in the modules, and TLC refutes each when it is put in the place of the
properties of the cfg of its module (with the constants in brackets where there
are any; `Reconnect` and `Serial` with `MCSessions.cfg`, `SshSession` with
`SshSession.cfg`).

| Property | The program says | What happens |
|---|---|---|
| `SshSession!RemoteIsNotified` (run) | `connection.hpp:34`: notify the remote of a new pty size | the pending size is taken before the request is made; a request refused with EAGAIN is logged and not repeated (`ssh_connection.cpp:238-243`) |
| `ControlSequences!EveryCallAsWritten` (run) | `parser.hpp:35`: a Williams-style parser | an ESC within a sequence is executed and the old sequence goes on (`parser.cpp:182,198,203,230,249,260`) |
| `Screen!NoDanglingPair` | `screen.hpp:121`: the renderer never sees a dangling half | erasing, inserting, deleting or resizing parts a pair; only `put_char` repairs |
| `SshSession!SendsToLiveBuffer` | `connection.hpp` on `send` | `send()` (543) has read `tx` when the session task deletes the buffer |
| `Reconnect!SizeAgreesAfterReconnect` | `reconnect.hpp`: replays the current size | the size is read under the lock and sent after it (`reconnect.cpp:40`); a toggle in between is overtaken |
| `Reconnect!SizeAgreesAfterBoot` | `app_main.cpp` on the soft keyboard | the connection is registered after `start()` (`app_main.cpp:470`): a toggle before has nothing to resize |
| `Ui!SinkRestored` | `menu.cpp:964`: until `close_editor()` restores it | a menu closed by the lock (`app_main.cpp:819`) keeps the keyboard |
| `Ui!NothingOverPinPad` | `app_main.cpp`: nothing may paint over the PIN pad | boot messages do (`term_write`, 558) |
| `Derp!FreedAfterExit` | `tailscale_derp.c:513`: only after the tasks have exited | 100 ms of delay, and the writer waits up to 500 ms on the queue that is deleted |
| `Disco!Reprobed` | `tailscale_disco.c:87`: the next netmap apply re-probes | a map pings new peers only; a known one gets a CallMeMaybe (`tailscale_netmap.c:562-588`) and waits for the other side (with one address) |
| `Serial!SendsArrive` | `data_tx_blocking` "blocks until all data is transmitted" | it returns at once; the next call finds the transfer in flight and its bytes are dropped (with `MaxSends` = 2 and two bytes in `Typed`) |
| `Control!UpdateLands` | `ts_ctrl_signal_endpoints_dirty`: lands on the next segment or reconnect | the flag is cleared after the list was read (1020): a list that is set in between is forgotten (with two addresses and two probes) |

The second group came up while modelling; the models have the behaviour, and
the properties that hold are stated around it.

* **WireGuard.** `ReplayWindowSize` is 4, not the 32 of its comment
  (`wireguard.c:329`). Counter 0 is always refused, so the first packet of a
  session is lost unless it is the empty confirmation. The packet that moves
  `next` to `curr` is judged by the window of the slot that was just cleared
  (`wireguardif.c:409`): it may be delivered a second time. Two initiations that
  cross lose both. `generate_unique_index` compares with the last peer only.
* **Control.** `s_stop` and `pubip_inited` are never reset: a stopped client
  does not start again. `ts_ctrl_stop` frees `s_tls` under the task. A segment for
  which there is no memory is dropped as if it had been applied. After a reconnect
  the result of the map request is ignored (1113); the next poll notices.
* **Parser.** A DEL within a sequence ends or spoils it (185, 199, 226, 245, 256);
  Williams overlooks it. Overlong forms (C0 80), surrogates and values beyond
  10FFFF are put on the screen as what their bits say (138-152). Nothing resets the
  parser when a session ends: what the last session cut short takes the first bytes
  of the next.
* **SSH and supervisor.** A size that the transport loses is not sent again; with
  the next session comes the size of that moment.
* **Serial.** The three control requests of `start()` share one transfer
  (`ftdi_sio_host.c:578`): a request that finds it in flight overwrites it, so that
  the baud request can be lost and the chip keeps the rate it had. Rates from 300 to
  732 baud are accepted on a 12 MHz chip and overflow the 14 bits of the divisor
  (`ftdi_host_protocol.c:207`). A receive transfer that ends with an error loses
  its data and is submitted again (172-177; not modelled). An
  adapter removed while `start()` is at work leaves `running` set without a device
  (`missed`). The gone callback closes the device inside a critical section.
* **Telnet.** A size with a 255 in it is not escaped (154-164); a refused NAWS
  is not remembered (`DONT`); two ends that both repeat acknowledgements never
  stop (174); `write_raw` waits for ever on a server that does not read (137).
* **Update.** The ABORTED mark is looked for on the running slot (584), where
  the bootloader never puts it (`CoolDownNotEntered`): the cool-down that the
  header promises is not armed, and a version that fails is downloaded again.
  The wait for a session to end is limited to 30 minutes.
* **Profiles.** Removing one below the selected one changes which host the
  selection denotes (176). The result of `save_slot` is ignored while shifting
  (172). A restart between the erasure and the count leaves a hole. The menu and
  the settings page edit the store with no lock.
* **DISCO.** A ping that is not answered keeps its entry of the pool until its peer
  is removed (133): after 64 of them nobody is probed any more. A peer that moves and
  keeps pinging from its new address refreshes the age of the old path, which
  stays (`tailscale_disco.c:574-587`), although the comment at 87 names roaming. A peer without a DERP region is never put back
  on anything when its path dies (`tailscale_netmap.c:545,572`). A Pong that comes
  before its ping is registered (363) is dropped.
* **DERP.** A stop releases a slot whose connect task still dials (768): the link
  comes up in a free slot. A receive timeout in the middle of a frame loses the
  framing (327).

## 6. The plan

Built: all modules of section 2, and the theorems of section 4. What is left, in
the order of its use:

1. Host keys (`tofu.cpp`) and Wi-Fi settings in `Settings`.
2. DERP frames: the receiver's framing under a timeout in the middle of one.
3. `Parser` and `Screen` composed, with the transport's chunks in front.

## 7. What is not modelled

Drawing (no state that others read); codecs, keys and cryptography (functions of
bytes, partly third-party code); the boot progress bar; the C6 updater, a
sequential one-shot program; Wi-Fi and VPN bring-up beyond their place in the
boot task, which is glue around the vendor's event loop: a model of it would
consist of assumptions about that stack. Of the parts marked *partly*: the
drivers' polling and key translation, the forms of the settings server other
than profiles, what the menu's views show, packets and frame formats of DERP and
its keepalive task, WireGuard's cookies (`wireguard_is_under_load()` is always
false here) and its routing, the framing below the control protocol's messages,
USB descriptors.
