# vmette: a TLA+ verification project

vmette runs Linux microVMs on macOS: a library over Apple's Virtualization framework, a daemon
that hosts one-shot runs and desktop sessions, a CLI, an MCP server, root filesystem providers
and a desktop agent inside the guest. This directory holds TLA+ modules for the parts whose
correctness depends on the order of events, the TLC configurations that check them, and TLAPS
proofs of the theorems about them. `PROJECT.json` is the index: components, runs, the source lines
behind each definition, the hazards, the findings and the theorems.

Paths below are relative to `src/crates/` unless they start with `guest/`, `scripts/` or `images/`.

## 1. Inventory

### Parts with concurrency or persistent state

| Part | State it keeps | Operations | Correct when |
|---|---|---|---|
| Desktop session registry (`vmette-daemon/src/registry.rs`, `main.rs`) | map of live sessions, count of boots in flight, last use, live view, daemon phase | start, action, screenshot when settled, what_changed, view, stop, idle sweep, stop_all | the cap holds; every reservation is given back once; a removed session is torn down once; no VM is left without an owner; nothing in use is reaped; shutdown ends once the one-shot runs have |
| Agent connection and demultiplexer (`vmette/src/session.rs`) | lazily built connection, id counter, waiter map, poison, write lock, a channel per request | request, reader thread, poison, drain | one reader; each caller gets its own reply or an error; nobody is stranded; the reader never blocks |
| Session end (`vmette/src/session.rs`, `vz/delegate.rs`) | write-once end slot, timed-out flag, exit file | delegate callbacks, failing start, timer, stop, wait | everyone sees one verdict; success is not made up; a timeout is not masked; stops and timeouts end the wait |
| One-shot run lane (`vmette-daemon/src/main.rs`, capture thread of `session.rs`) | stop slot, bounded channel of frames, capture channel | boot, stream, exit frame, hang-up | output in order and complete before the exit frame; a hang-up stops the VM; the run returns |
| Tar provider cache (`vmette-provider-tar/src/lib.rs`) | directories on disk: cache entry, staging, trash; ready marker and its mtime | provide, prune_cache | nothing unfinished is used; a failing refetch keeps the predecessor; nothing is left behind that could be removed |
| OCI provider cache (`vmette-provider-oci/src/lib.rs`) | ref entry, image directories, ready marker | provide: fast path, offline scan, resolve, pull, apply layers, mark | the marker means that the layers of its digest, and no others, were applied; a tree that was handed out stays; layers mean what the image specification says |
| Squashfs provider (`vmette-provider-squashfs/src/lib.rs`) | cached file, staging files | provide: lookup, download, verify, rename | only a whole image is published; staging files go |
| VNC view server (`vmette-daemon/src/view.rs`) | accept loop, connection map and count, closing flag | accept, serve, leave, shutdown | count and map are exact; shutdown returns and closes the connections it knows of |
| One view connection (`view.rs`) | update requests, incremental flag, alive flag, last frame | handshake, read, capture, compare, send, kill | every request is served by a later frame, none is lost, both threads end |
| Viewer's hand and RFB codec (`vmette-daemon/src/rfb.rs`) | button mask, pointer, press anchor, modifiers | pointer_actions, key_action; changed_rects, pixel formats, handshake | a drag starts at its press; a chord has the held modifiers; the viewer sees the captured frame |
| Settle detector (`vmette-daemon/src/settle.rs`) | per tile: run of still frames, window of changes | push, churn_rects | settled means still but for the named areas; one blinking spot does not block the verdict |
| Desktop tools (`vmette-mcp/src/server.rs`) | baseline, pointer and clipboard of the shared desktop | click at a point, paste, launch | what is reported happened |
| MCP workspaces and sandbox (`vmette-mcp/src/workspace.rs`, `sandbox.rs`) | base directory per server, table of workspaces, stop slot | create, run in, destroy, reap; run with a host guard | an open workspace keeps its directory; an answered run leaves no VM |
| Daemon client (`vmette-daemon-client/src/lib.rs`) and socket (`vmette-daemon/src/main.rs`) | socket path, spawn lock | connect, spawn, poll, bind, remove | the threads of a process start one daemon, and can reach it |
| Session construction (`session.rs`, `vz/config.rs`, `boot.rs`, `cmdline.rs`) | control directory, scratch image, pipe, boot.env | start, drop; init's reading of it | guest and host agree; a failed start leaves nothing |
| Guest desktop agent (`guest/vmette-desktop-agent.c`) | job table, receive buffer | select loop, exec_capture, wait, expire | each job answered once, with its own result; no child left behind |
| vsock listener (`vmette/src/vz/vsock.rs`) | one-shot senders, READY scan window | accept, scan | READY is found across reads; the agent's fd is delivered once |

### Parts that are sequential or pure

The provider framework, the CLI, the single-request MCP tools, the library surface (builders, C ABI,
framing, terminal, snapshots), the wire types, the assets lookup and the guest's small programs. They
have little or no state that outlives a call; `PROJECT.json` lists each with what stands for it or
the reason it has no module.

### How they interact

- A daemon client sends one request per connection. `desktop_*` requests run on blocking threads
  that share the registry's mutex; every guest round-trip and every teardown happens outside it.
- `start()` spawns one OS thread per session, which owns the `Session` and answers over a channel.
  The registry keeps a stop handle and an agent client, never the session itself.
- An agent client sends framed requests over one fd; a reader thread routes answers by id.
- A `Session` ends through its end slot. Delegate callbacks and completion handlers run on the VM's
  private serial queue; `wait()` blocks on a condition variable on other threads.
- A one-shot run has a blocking worker, the session's capture thread and an async task that writes
  to the client, joined by an unbounded and a bounded channel.
- Providers of different processes share only the cache directories, MCP servers the directory
  their bases are in, and daemons the path of the socket.
- A viewer's connection captures the screen through the same agent client as everyone else, and the
  idle sweep reads the number of connections.
- The MCP server's desktop tools share the session, its detector's previous frame, and the guest's
  pointer and clipboard with every other caller.

### What is hard

Overlapping boots against one cap; removal by three competing parties; settle polls against the
idle sweep; shutdown against a boot in flight; poison against registration of a waiter; late
answers; five writers of one end slot; hang-up against a handle not yet published; a full channel
that nobody reads; rename races by path between processes; kills in the middle of an extraction;
a kill that must wake a parked thread; update requests that arrive while a frame is under way; two
pulls into one directory; removals that fail half way on directories without write permission; reapers
against live owners; tools of several requests on a shared desktop; clicks whose echo comes later.
`PROJECT.json` "hazards" has each at its line, with the properties that watch over it, or the reason why none does.

## 2. Modules

| Module | Models | Notes |
|---|---|---|
| `Registry` | registry.rs and the sweeper and shutdown of main.rs | one action per critical section of the sessions mutex or per blocking call |
| `SlotPool` | what admission promises: a pool of `Max` slots | refined by `Registry` |
| `Demux` | AgentConn, Demux, demux_reader, and the agent at the far end | one action per critical section, channel operation or frame |
| `Rpc` | what a request promises: its own reply or an error | refined by `Demux` |
| `SessionEnd` | EndSlot and its writers | one action per block on the VM's queue |
| `RunLane` | run_workload_inproc and drain_capture | one action per channel operation or state change of a thread |
| `RunStream` | what the client of a run is promised | refined by `RunLane` |
| `TarCache` | provide() and prune_cache() for one cache entry | one action per rename, marker write or step of a directory removal |
| `ViewServer` | ViewServer, accept_loop, ConnGuard | one action per lock, flag or socket operation |
| `ViewConn` | Conn, reader_loop, writer_loop of one connection | one action per critical section, capture or write |
| `Input` | pointer_actions, key_action | one action per event of the viewer |
| `Rfb` | changed_rects, PixelFormat, handshake | pure, beside the viewer's side of the protocol |
| `Settle` | SettleDetector | one action per frame |
| `SessionStart` | Session::start, build_vz_config, BootParams, init's reading of it | one action per step that can fail |
| `AgentJobs` | the guest agent's select loop, job table and commands | one action per look at a slot, read, wait or request, and per step of a process |
| `Output` | drain_capture, the conversion to text in run_workload_inproc, echo_loop | pure functions of the reads |
| `AutoStart` | Client::connect, start_and_connect, the daemon's socket | one action per system call on the socket or change of the lock |
| `DesktopTools` | click_at with the agent's presses and echo, desktop_paste, desktop_launch | one action per request to the daemon, or per step of the agent that others can see between |
| `OciCache` | pull_with_options for one reference | one action per step on the shared directory |
| `Layers` | extract_layer | pure, beside the image specification |
| `Squashfs` | resolve_remote, download_to | one action per step of a download |
| `Workspace` | WorkspaceState, reap_orphans, Sandbox::run, workspace_run | one action per step on disk or on the stop slot |
| `RegistryProofs`, `DemuxProofs`, `TarCacheProofs` | theorems and proofs about the module they are named after | |
| `SessionProofs`, `RequestsProofs`, `HostProofs`, `ViewProofs` | theorems and proofs about the components that the MC module of that name composes, and about the composition | |
| `Counting` | least elements, induction over an interval, functions defined by recursion | what the proofs need of the natural numbers |
| `MC*` | TLC instances: compositions, symmetry, and statements of the sources that the code does not keep | |

The modules meet at their edges: `Registry` sees a guest round-trip as a bounded call (what `Demux`
provides), a stop as something that ends the VM (what `SessionEnd` provides) and a view as a number
of connections (what `ViewServer!GuardExact` says of it); `RunLane` sees a session as running or
ended; `Demux` sees the agent as one that answers in any order, which `AgentJobs` says more of;
`ViewServer` sees a connection as a thread that ends when its socket is shut (what
`ViewConn!ConnEnds` shows). Inside a module the composition is real: `Workspace` has servers,
reapers, runs and their VMs, `SessionStart` both ends of the boot contract, `AutoStart` clients and
daemons, `Demux` host and agent.

### Registry

A session id is random and never reused, so a session is named by the `start()` call that makes it.
`boot[b]` is the program counter of that call: `new` → `reserved` (check-and-reserve under the lock)
→ `booting` (thread spawned) → `inserted` → `committed` (guard released) → `settling` (the readiness
barrier polls) → `returned`, or `refused` / `failed`. `sessions`, `reserving`, `idle` and `view` are
the fields of the registry and its entries. `vm[b]` is the session's own thread. `queue[f]` is the
list of entries a thread took out of the map, and `teardown[b]` how far `finish()` is (close view,
stop, join). `phase` is main: `serving`, `draining` (accept loop left), `stopping` (stop_all),
`dropping` (the runtime waits for blocking calls), `exited`. `runs` counts the one-shot runs that
have a worker on the blocking pool: the runtime's drop waits for them as for the registry's calls,
but the task that could stop their VMs is gone. What happens inside one is `RunLane`. `last_used` is
kept as an age that saturates one past the TTL, since no code tells larger ages apart.

### Demux

`pc[r]` is the program counter of one `request()`: look for the demultiplexer, take `init`, wait for
the fd, enter, register, look at poison again, take the write lock, write, wait. `waiters` is the
map, `chan[r]` the one-slot channel of a request, `wire[r]` where its frame and then its answer is.
The agent takes frames up in any order and answers in any order, because exec_capture and wait are
jobs of its select loop. `WireCap` is the number of unread frames the socket holds: a write beyond
it blocks.

### SessionEnd

`end` is the slot, `ask[a]` how far each stop (the timer's included) has come, `seen[w]` what each
`wait()` returned. The framework's VM is external: it stops a VM that runs and refuses any other
stop, and answers both to a completion handler that ignores the error.

### RunLane

Chunks of output are numbered. The capture channel is the interval `(taken, captured]`, the bounded
channel is the sequence `chan`, and `got` is what the client was sent while it was there. A number
stands for the text that a chunk's bytes become, read by read; what that text is, is `Output!Text`.

### TarCache

Trees are named by the resolver that extracted them; `dest`, `trash` and `staging` are the paths.
Each system call looks paths up anew, which is where the hazards are. A directory removal is three
steps (opened, entries gone, rmdir by path), a marker write two (temporary file, rename). `before`
is a history variable: what a resolver found at the path when it was called, forgotten as soon as
any other process moves. `sealed` is the set of trees with directories that their owner may not write,
on which plain remove_dir_all fails half way (`Left`, `SweepFails`). provide() does not look at the
result; prune_cache makes the directories writable and tries again (`Retry`).

### ViewServer and ViewConn

`acceptor` is the program counter of the accept loop, `setup` the connection it is setting up,
`thread[c]` that of a connection's thread through its guard's two steps (count, map). `closing` is
`shutdown()`: flag set, map drained, thread joined. In `ViewConn`, `asks` is the sequence of
requests received and not marked served, with their incremental flags; `noted` is what the writer
copied when it woke; `frame`, `last` and `lastPng` are the pictures it holds, and `shown` (history)
the viewer's. `parking` is the window between the writer's look at the state and its wait, closed by
the lock that `kill` also takes.

### Input and Rfb

`lastMask`, `lastPos`, `leftDownAt` and `mods` are PointerState and KeyState; `guest` is the guest's
pointer, on which the emitted actions act, and `acted` the click, the drag or the chord of the last
event. `astray` and `wheeled` are history and mark the two cases in which the code itself moves the
anchor; `down` are the keys the viewer holds, and `split` the modifiers of which one key of the pair was
let go. Keys repeat while they are held. `Rfb` is pure: what the server sends (rectangles, pixels,
handshake messages) is read by a viewer written from the protocol, and must give back the frame, the
colour and the session.

### Settle

A frame is the set of tiles that changed. Per tile the module keeps the run of still frames, the
sliding window and the number of unclean frames, each no further than the code tells apart. `lone`
and `stuck` are history: the tiles that ever changed since the last verdict, and for how long there
was none.

### SessionStart and Output

`stage` is the next step of `Session::start`, `held` what would stay on the host if the process
forgot it (control directory, image, pipe ends, reader thread), `machine` (`vm` in the module) the
VM configuration as init can see it: disks by position, share tags, consoles. Init's reading of it
(`GuestRoot`, `GuestFormats`, ...) is translated from custom-init.sh: `GuestRuns` is the branch it takes
(agent, command, shell, or a power-off), `GuestOutput` where that prints, `GuestWritesExit` whether it
leaves an exit code. `Output` folds the code's loop body over the reads; `FromUtf8Lossy` is what the
daemon makes of each chunk, over an alphabet with the two halves of one UTF-8 character.

### AgentJobs

`step` is the one thread of the agent: waiting in select, at a slot of the table in expire_jobs or
drain_job, in a blocking wait for a shell, serving a request, or in the teardown. `ready` is the
snapshot that select returned, which later steps of the round rely on. `job[i]` is a slot, with `due`
for a deadline that is over and `eof` for a pipe that has ended. `child[r]` is the shell of a
command: `forked` until it has called setsid, `quiet` once it has redirected its output; `bg[r]` is a
process it left in the background. The pipe is `unread`, and its end is that nobody `Open`s it.
`missed` (history) marks the commands that were killed before setsid, which the properties except.

### AutoStart

`place` (`at` in the module) is where each caller is, `lock` each process's spawn lock, `daemon[d]`
the life of a daemon, `path` whose socket is at the path. `gaveUp`, `strangers` and `robbed` are
history and mark what a lock within one process cannot see.

### DesktopTools

`at` is the next request of a call, `prev` the detector's previous frame, which all callers share,
`pointer`, `clip` and `screen` the guest. A click is pressed in one step (`Fire`, for a double click
`FireAgain`) and the pointer asked for in another (`Echo`), between which the guest's programs may move
it. An agent that cannot ask says a bare ok, and the tool then names the point of the request. The
history variables say where clicks happened, whose echo failed (`bare`) or was overtaken (`slid`), and
whose text was pasted.

### OciCache, Layers, Squashfs

`content` is the set of layers applied to each image directory, with the manifest each came from;
`skips` are the directories that lack an entry of such a layer, since an entry that cannot be
written is passed over; `marker` and `exists` are directory entries, changed by path. `overlapped`
and `moved` (history) are the digests for which two pulls met or the tag moved within a pull: the
code takes no lock, and the properties except them, while the `oci` run shows what happens there.
`Layers` applies extract_layer to a layer's entries in turn and compares with the specification's
overlay. `Squashfs` names bodies by what the checks can tell of them.

### Workspace

`server`, `base`, `age`, `open`, `disk` are the servers, their directories with the age of the mtime,
the table and the disk; `call`, `worker`, `slot` and `vm` the runs. `dayOld` and `early`
(history) mark the cases the properties except. Any remove_dir_all may fail half way, since guests leave
directories without write permission; none of the callers looks at the result.

## 3. Runs

| Run | Shows |
|---|---|
| `registry` | entries have one owner, no VM is orphaned, refinement of `SlotPool` |
| `registry_live` | teardown, release and eviction happen; SIGTERM ends the daemon unless a one-shot run never ends; nothing in use is reaped |
| `registry_exit` | finding: the daemon can exit with a VM up |
| `demux` | one reader, nobody stranded, refinement of `Rpc`, requests return |
| `session` | construction: guest and host agree on devices, branch, output and exit file, nothing is left; the agent's jobs are answered, once and rightly, and leave no process; end: one verdict, real success, timeouts not masked, the wait ends |
| `requests` | hang-ups stop the VM, refinement of `RunStream`, the run returns; output as bytes and as text, and READY, across reads; settled means still; tools report what happened; one daemon per process |
| `run_lane_full` | finding: after a hang-up the worker and the task can wait for each other for ever |
| `launch` | finding: a launch is reported as started although nothing was painted |
| `host` | tar cache: no tree is used that was not extracted to the end, nothing removable leaks, a failing refetch keeps the predecessor; OCI and squashfs caches are sound, layers are applied as specified, workspaces kept, runs over |
| `view` | connection count and map exact, shutdown returns, requests served by later frames, connections end, drags and chords faithful, updates decode to the frame |
| `tar_swap` | finding: two racing resolvers can leave a ready marker on an emptied tree |
| `oci` | finding: two overlapping pulls can leave a ready marker on an emptied tree |

`session`, `requests`, `host` and `view` have several components in one run. Their MC module has a
variable `part` that is chosen at the start and names the component whose steps the behaviour takes;
the others' variables stay as they are. The run explores the union of the components' state spaces,
not their product: these components share no state, and no interleaving between them is claimed.

Each property of a run has a mutant of the code that breaks it (`PROJECT.json` "mutants"; the
modules hold them in front of what they replace). Properties with several parts have further ones
that break the other parts: `StartedByPolls`, `FollowsHeld`, `ModifierSticky`,
`TailOfRead`, `ScaleDown`, `NegotiationAlwaysList`, `IsChurningFast`, `VerifyNot`, `ShutdownDrainOnly`,
`GuardFiresOnly`.

### Bounds and why they are enough

- `registry`: three boots and a cap of two, so that the cap is reached with one boot too many, and
  any two sessions can be in different stages while a third is refused or in flight. One client
  thread besides the boots (they poll as well), the sweeper and shutdown make four parties that
  compete for an entry.
- `registry_live`: two boots against one slot, so that a slot must be freed for the second; a TTL of
  one tick, calls that last one tick and one viewer: the smallest values at which a call can outlive
  the age at which it began. The boots are alike, so the action constraint `InOrder` has the same
  one called first; it holds back no fair step. One one-shot run, which begins between SIGTERM and
  the end of the accept loop or not at all, and ends while the runtime is dropped or never
  (`LateRuns`): nothing but the exit looks at it.
- `demux`: three requests (one holds the lock, one is queued, one is in any other stage), a buffer
  of two frames, so that a third blocks. `IdSpace` equals the number of requests: the counter wraps
  to 0 once and no id is in use twice. The real counter has 2^32 ids, and the assumption is that
  fewer requests than that are in flight during one turn of it.
- `session`: two stoppers, two waiters, a timer or none, exit codes 0, 1 and 7; every configuration
  of root, up to two user disks, scratch, three tags (the reserved `ctl` and `rootfs` among them),
  capture, agent, vsock, command and switch_root, with a failure at every step. The agent: a command
  and two timers against two slots, so that the table is full and slots are used again; output of
  twice the buffer. A shell and one background process are all that can hold a pipe in different
  ways. Two commands at once were checked on the side with two slots (324,385 states): they meet in
  the loop only.
- `requests`: five chunks through a channel of two frames, so that the channel fills, drains and
  fills again while one chunk is in the worker's hand; every string of up to five bytes over the
  needle's three, or over one and the two halves of a character, in every division into reads,
  against a cap of three and a needle of three; a row of three tiles, so that two areas can be apart
  or touch, with a window of four frames, a threshold of three and two still frames, in the order
  the defaults have; two concurrent calls of any tool on two points; three threads of two processes
  and two daemons.
- `host`: two processes everywhere, an I/O error and a kill, so that both can end badly (the
  theorems hold for any number). The tar cache: an evicting third process besides, an entry that is
  there or not at the start, with every tree sealed or none. OCI: two digests of two layers, so that
  the tag can move and a tree be half done. Layers: every file system over a directory of two files
  and a file beside it, under every layer of up to three of nine entries. Workspaces: two servers,
  two ids between them, a cap of one, one run, ages of zero, a minute and a day.
- `view`: three connections, so that one is being accepted, one served and one gone at shutdown; two
  tiles of two colours and two outstanding requests; three columns, two of them within the drag
  threshold; screens that are smaller than a tile, a multiple of it and not, and pixel formats of 8,
  16 and 32 bits with both byte orders and a channel of no bits.
- `CHECK_DEADLOCK FALSE`: in `requests` and `run_lane_full` because the stop described there is a
  deadlock of the code, in `requests` and `launch` because a tool's call ends.

### Fairness and why the code justifies it

- Threads and spawned tasks run: weak fairness on each thread's own step.
- Timers fire: connect and read timeouts of a request, the session's timeout, the sweeper's
  interval, the end of a settle poll; a captured screen or an error comes within the agent's timeout.
- No end of a one-shot run is fair: its guest need not end, and it has no timeout unless its client gave
  one. That is why `ShutdownEnds` excepts a daemon that such a run holds up for ever.
- A stop that was issued ends the VM: the framework answers every stop, and `SessionEnd` shows what
  follows from the answer.
- The agent's loop runs and its deadlines pass; no command has to end, and `JobAnswered` holds all
  the same.
- Nothing is assumed of the guest, the agent, viewers, or clients: they need not connect, read,
  answer, print, stop or hang up. That is why `RequestReturns` excepts an agent that has stopped
  reading with its buffer full, why `RunReturns` speaks of a guest that has ended, and why
  `UpdateComes` speaks of a viewer that reads.

### Findings

1. `registry_exit`: `stop_all` drains the map once. A boot in flight at SIGTERM inserts its session
   afterwards and the process ends with the VM up (main.rs:198 promises otherwise).
2. `run_lane_full`: after a hang-up the task awaits the worker and no longer receives; with more
   frames pending than the channel holds, the worker waits for room for ever (main.rs:378-380).
3. `tar_swap`: the steps after the swap go by path and can hit a tree that another resolver has put
   there (vmette-provider-tar lib.rs:224-225).
4. `oci`: two pulls of one digest share its directory; the second empties the first's tree while the
   first is about to mark it (vmette-provider-oci lib.rs:514-515, 584).
5. `launch`: the baseline of desktop_launch is a crop whenever the screen had changed since the
   previous capture, so it never equals the settled frame and the launch counts as painted
   (vmette-mcp server.rs:978-979, vmette-daemon registry.rs:448-451).

Where else code and comments part. No run is about these. Where a property of a passing run meets
one, it says what the code does there, and its comment names the case.

Daemon and sessions:

- registry.rs:27-28 speaks of a cap on live sessions of 2 GB each. stop and sweep free the slot before
  the VM is gone, so the number of VMs can exceed the cap for the time of a teardown.
- session.rs:151-152 says that a wedged request fails alone. Its timeout covers the wait for the
  reply, not the write of its frame, which happens under the write lock and has none.
- session.rs:82-83 says of a timed-out session that the VM was force-stopped; a stop that the
  framework refuses (the VM is still starting) is recorded all the same.
- main.rs:355-357 says that the stop slot keeps a vanished client from leaking a VM that runs to its
  timeout. A hang-up is noticed by a failing write only, so a guest that prints nothing runs on.
- lib.rs:43-45 says that rootfs, ctl and certs are tags a caller's shares may not reuse. start()
  refuses ctl only (session.rs:577-585); a share that has the root's tag is mounted as the root or not
  at all (`TagClash` in `GuestAgrees`).
- session.rs:470-472 says that a truncation marker is appended once. The read that crosses the cap
  sends it (513); when a read ends just on the cap, later output is dropped without it (508), which
  `CaptureExact` says of such reads and of no others (`EndsOnCap`).
- `Session::start` leaves the scratch image if it cannot size it, and the pipe's read end if building
  the VM or writing boot.env fails (the two gaps in `LeavesNothing`). Two shares of the user may have
  one tag.
- session.rs:592-595 has the exit code written wherever the root is writable. An agent writes none, nor
  does a shell behind switch_root, and an agent or a shell that is captured prints to the console that
  nobody reads: only a command is redirected (custom-init.sh:410-437, 477-528).
- main.rs:198 tears down desktops before exiting, and no one-shot run: the drop of the runtime waits for
  their workers, so SIGTERM ends the daemon only after every run has ended by itself.
- main.rs:377 converts each chunk to text by itself, so a character that a read of the pipe cuts in two
  reaches the client as two U+FFFD; wait_captured converts the whole (session.rs:855).
- Two processes that start a daemon can cut off each other's socket, an exiting daemon removes
  another's, and one on its way out still accepts connections (the exceptions of `SpawnedOnce`).

View and tools:

- view.rs:125-126 says that shutdown() tears down all connections. A viewer that is accepted before the
  flag is set and inserted after the map was drained keeps its open socket (203, 206-209, 239-252):
  `OneStraggler` allows one, since there is one accept loop.
- rfb.rs:387-388 says that a drag's "from" point stays the anchor. A turn of the wheel while the button is
  held moves the guest's pointer off it (405-419), and a press on the spot of a click that was released a
  little beside its own press does not move it there (425-427): `Start` in `AnchorHeld` says where the
  drag begins then.
- rfb.rs:481-482, 486-488: the two keys of a modifier share a flag, which the release of either clears:
  `ChordAsHeld` says of a chord after that (`split`) that the modifier is missing.
- view.rs:64-65 says that an end of one thread stops the other promptly. A writer that kills the
  connection leaves the reader blocked until the viewer sends something or leaves.
- docs/DESKTOP.md:236-238 says that the click tools echo where the pointer landed. It is asked for
  after the click, so a guest program may have moved it since; and when the agent cannot ask, the
  tool names the point of the request (server.rs:1156), which nobody has verified.
- vmette-desktop-agent.c:885-886 says that reap_pid returns promptly because every caller kills the
  child first. The group that is killed exists from the child's setsid on; a kill before that (the
  host leaves right after the request, or a deadline of a millisecond) finds none, and the loop
  stands still until the command ends by itself.
- vmette-proto agent.rs:62-63 says that a missing exit code means that the command did not exit
  cleanly. A command that has exited is reported so when its deadline passes before the agent has
  read the end of its pipe, and one that leaves a process on the pipe is held to its deadline.
- vmette-proto agent.rs:64-65 and the tool's description at server.rs:878 say that a long command
  blocks every other action; the agent runs it as a job beside them.
- settle.rs: two spots that flicker out of step can keep the verdict away; a fade that stays below
  the pixel threshold counts as still.

Caches and workspaces:

- vmette-provider-tar lib.rs:16-17 says that past the TTL the archive is fetched again. A hit
  touches the marker whose age is compared with the TTL, so the TTL is counted from the last use.
- vmette-provider-tar lib.rs:63-66 spares intermediates that are younger than an hour. A trash
  directory keeps the mtime of the tree that was moved, which is usually older, so a concurrent
  prune may sweep it while its owner still needs it to restore. `TarCache` models this; it is why
  `NoLeak` and `PredecessorKept` speak of a resolver that met no other.
- vmette-provider-tar lib.rs:278-280 says that the marker is written before the trash goes so that a
  failure can roll back to the predecessor. The roll-back removes the new tree with plain remove_dir_all
  (299), which stops half way at directories without write permission (388-394); the predecessor then
  stays in the trash, which `PredecessorKept` says of such trees (`sealed`) and of no others.
- vmette-provider-tar lib.rs:632-720 skips entries it cannot unpack with a warning, a full disk
  included, and the tree is published as ready ("holey" in the model). Staging and trash that plain
  remove_dir_all cannot remove (lib.rs:388-394) stay until a prune, which comes with a resolver that
  succeeds and spares what is younger than an hour (`NoLeak` excepts them). An eviction that is killed
  half way leaves a marker on a torn tree.
- vmette-provider-oci lib.rs:613-615 guards the marker against incomplete trees, but every error of an
  entry is passed over with a warning (822-827), a full disk included: the marker says that the layers
  were applied, not that every entry is there (`skips`).
- vmette-provider-oci lib.rs:28 says of a whiteout that it deletes from prior layers. Entries are applied
  in the order of the archive (784-830), so one that follows an entry of its own layer deletes that as
  well; `LayerAsSpecified` asks for layers whose whiteouts come first.
- vmette-provider-oci: the tag may move between the request for the digest and the pull, so that
  another manifest's layers stand under the digest's name; a change between file and directory is
  skipped with a warning; references can collide once sanitised.
- vmette-provider-squashfs: lib.rs:214-215 says that the check of the magic runs on cache hits, which
  resolve_remote does not do; a body without a length that breaks off is published; a kill or a failed
  rename leaves the staging file for good.
- vmette-mcp sandbox.rs:86-88 says of the host guard that it force-stops the VM. One that fires while
  the image is still being resolved finds no stop handle (137-142), and the VM boots afterwards and runs
  on: `RunsAreOver` says so of such runs (`early`) and of no others.
- workspace.rs:115-126, 134: destroy() and the drop of the state ignore a removal that fails, as it does
  on directories without write permission that a guest has made; what is left stays until a reaper can
  remove it, which meets the same error.
- workspace.rs: the reaper, a server's own periodic one too, removes the base of a live server in
  which no workspace was created or destroyed for a day.

## 4. Proofs

| Module | Theorems | Inductive invariant |
|---|---|---|
| `RegistryProofs` | `TypeCorrect`, `CapSafe`, `ReservationsSafe`, `OwnershipSafe`, `OrphanFree`, `SweepSafe`, `Refinement` | `Typing`, `Stages` (which stages of boot, thread and teardown go together), `OneOwner`, `NoOrphanVm`, `Account` (the counter is the cardinality of the holders, and map plus holders that are not in it fit under the cap), `CallFresh` (an entry with a call in flight is no older than the call) |
| `DemuxProofs` | `TypeCorrect`, `ReaderUnique`, `WakeUp`, `ReaderNeverBlocks`, `Refinement` | `TypeOK`, `Building` (init lock, connection and number of readers), `Distinct` (the ids drawn so far are distinct, by counting those not drawn), `Routing` (entries, channels and frames agree) |
| `RequestsProofs`, the run | `RunTypeCorrect`, `RunHangUpSeen`, `RunRefinement`, `RequestsHangUpSeen`, `RequestsRefinement` | `TypeOK`, `Pipeline` (the order in which guest, capture thread and worker end), `HandOver` (the stop handle is in its slot before any frame is in the channel), `Flow` (what was received, and then what is in the channel, are the frames sent) |
| `TarCacheProofs` | `TypeCorrect`, `ExtractedToTheEnd`, `NothingLeft`, `PredecessorBack` | `Typing`, `Places` (no tree has two names, its name says how far its resolver is, and only a sealed one keeps a name after that), `Bodily` (a tree that has a name was extracted), `Restorable` (a resolver that met no other holds what it found, at the cache path or in its trash, where a sealed tree of its own may keep it (`Blocked`), or has two errors behind it) |
| `SessionProofs`, the end | `TypeCorrect`, `VerdictIsOne`, `NoFalseSuccess`, `TimeoutWins`; for the composition `SessionEndSound`, `SessionTimeoutWins` | `TypeOK`, `OneVerdict`, and `ExitIsFinal`: a normal exit is recorded only with the VM down, after which the exit file does not change |
| `SessionProofs`, the start | `StartSound`, `SessionAgrees`, `SessionLeavesNothing` | `StartInv`: what is held is what the steps up to the stage have taken, the machine is the one built from the configuration, and boot.env the one written from it |
| `SessionProofs`, the agent | `AgentSound`, `SessionJobsSound` | `JobInv`: the loop's place and its slots fit, a request is in one slot or has one answer, a slot's command has a shell that nobody has reaped, and pipe, processes and outcome go together |
| `RequestsProofs`, the daemon | `DaemonSpawnedOnce`, `RequestsSpawnOnce` | `DaemonInv`: a thread behind the spawn lock is alone there (`LockHeld`), daemons and the path have their owners (`Owned`), and a daemon of one's own that serves means that no thread is about to spawn another (`KeptOnce`, `AloneOnce`) |
| `RequestsProofs`, the tools | `ToolsReportTruly`, `RequestsReportTruly` | `ToolsInv`: what a call has recorded at each of its requests (`HistoryTyped`, `NothingYet`), that between its click and its echo it clicked where the pointer is (`OwnClicks`), the clipboard is its own unless mixed (`OwnClip`), and so is the picture it began with (`OwnBaseline`) |
| `RequestsProofs`, the detector | `SettleVerdictsSound`, `RequestsSettleSound` | `SettleInv`: the counters per tile are those of its window (`Windows`), and a lone spot has held up the verdict for no longer than its window explains (`Awaited`) |
| `RequestsProofs`, the output | `CaptureExactForAll`, `ReadyExactForAll`, `RequestsChunksRight` | no state: what is sent after n reads (`CaptureState`), and what is carried to the next one (`CarryState`), carried from read to read |
| `HostProofs`, OCI | `OciTypeCorrect`, `OciCacheSafe`, `HostCaches` | `OciInv`: a digest that no two pulls met over has one puller at work on it (`PullsAlone`), which finds no marker (`NotYetMarked`) and has applied to the tree what its stage says (`ContentOfStage`); a marker stays (`StaysMarked`) |
| `HostProofs`, squashfs | `SquashfsSafe`, `HostCaches` | `SqInv`: the staging file is what its download's stage says |
| `HostProofs`, workspaces | `WorkspacesSafe`, `HostWorkspaces` | `WsInv`: ids are fresh, and a run's worker, slot and VM go together (`StageOfRun`) |
| `HostProofs`, layers | `LayerExact`, `HostLayers` | no state: what n entries have made of a file system (`Means`), carried from entry to entry |
| `ViewProofs`, the server | `ServerAccounts`, `ViewAccounts` | `ServerInv`: the count is the cardinality of the threads that hold a guard; what the accept loop has in hand is in the map or about to be; at most one connection is left after the drain (`OneMore`) |
| `ViewProofs`, a connection | `ConnTypeCorrect`, `ConnServesLaterFrames`, `ViewServesLaterFrames` | `ConnInv`: what the writer noted is the front of the queue (`NotedHolds`), the frame it has was captured after those arrived (`CapturedLater`), the viewer shows the last frame sent, and the flag says whether a whole screen was asked for |
| `ViewProofs`, the hand | `HandIsFaithful`, `ViewHandFaithful` | `HandInv`: the anchor is there while the left button is held, the guest's pointer is where a drag would begin (`Start`) or else the last position, the modifiers are those held but for a pair that is split |
| `ViewProofs`, the updates | `UpdateRepaints`, `ViewRepaints`, `FormatSurvives`, `NearestLevel`, `ColourSeen`, `ViewUpdates` | no state: what the tiles of a row passed so far have given (`RowState`), and the rows above a line (`ScreenDone`); a pixel is the number of its ones (`NumberSteps`, `NumberParts`) |

Each invariant was checked by TLC on the run's instance before it was proved. The safety properties
are not inductive by themselves. `CapRespected` needs the counter to be exact; the counter is exact
only because no stage of `start()` that holds a reservation can be left twice. `NeverStranded` needs
to know which entries, channels and frames can coexist, and that ids in flight are distinct, which
in turn rests on the number of requests not exceeding the id space. `SuccessIsReal` needs the exit
file to be final. `NeverPartial` needs `Places`: what a resolver drops or starts to fill must have no
name that another resolver could use. `NoLeak` and `PredecessorKept` say something of the end of a
call only, and need to follow the predecessor through every stage before it. `SpawnedOnce` needs to
know where in connect() the threads of a process are, `ReportsTrue` what a call has seen so far,
`LoneSpotPasses` how many of a window's frames a spot can have changed in without being called
churning. `JobsSound` needs the whole of the table, the processes and the pipe, since an exit code is
right only if nobody who could print more was overlooked in any earlier step.

Six operators are proved of every input, without induction over their data: a set of numbers that
has 0 and with each the next has an interval (`Counting!Onward`, from the well-founded order of the
library). `BoxesOfComponents` says that the walk of churn_rects, a recursive function, finds the
connected components of any set of tiles (`ComponentReached`, `ComponentsBoxed`). `LayerExact` says
that a layer of any length over any file system gives the overlay of the image specification: the
state after n entries is told as one (`Means`), an entry is never blocked where the kinds agree
(`KindBefore`), and the last entry of a path is the greatest index that names it.
`CaptureExactForAll` and `ReadyExactForAll` say that neither the cap nor the marker depends on where
the pipe cuts the output: after n reads what was sent is the front of what they gave, and the tail
carried over is long enough that a marker which lies across reads lies in it and the head of the
next. `TextIsExact` says of any chunks that their texts make the text of the whole just when no
character lies across two. `UpdateRepaints` says that changed_rects is right on a screen of any size under tiles of any
size: a row passed up to a tile has a rectangle, or the run that is still open, over every column
that differs there (`RowState`), and rows are joined in the same way (`ScreenDone`). `ColourSeen`
says that a viewer which takes the channels out of a pixel finds the levels that encode_pixel put
in, the nearest to the guest's colour, in any format that RFC 6143 defines colours for and in either
byte order: a pixel is the number of its ones (`NumberSteps`), bytes join to the number of all their
ones (`BytesJoin`), a shift takes the upper ones and a mask the lower (`NumberParts`), and since
channels do not overlap those are the channel's own (`LevelSeen`). A recursive function of a number,
of reads, tiles or rows, exists (`Counting!RecursionExists`), which is what lets the proofs speak of
its values at all.

Proofs have changed the modules in four places. An absolute path that is also named as a whiteout
matched two arms of a CASE in `Layers!ApplyEntry`, where the code has an early `continue`: it is an IF
now. On a screen of one tile `LoneSpotPasses` is false, because the spot is then the whole screen and
a transition; the property says so. A viewer masks a channel with its maximum, which picks the bits
of the channel only if the maximum is 2^n - 1, as RFC 6143 requires: `Rfb!Sound` now asks for it, and
the server, which does not check it (`supported`, rfb.rs:98-115), serves other formats colours that
nothing defines. Folds and sums that the proofs reason about are recursive functions.

The proofs assume only the named assumptions on the constants, which TLC evaluates on every run:

- `RegistryAssumption`: calls end within the idle TTL, 30 s against 30 min.
- `DemuxAssumption`: no more requests in flight than ids.
- `SessionEndAssumption`, `RunLaneAssumption`, `TarCacheAssumption`: bounds are numbers, names
  differ.
- `SessionAssumption`: the number of disks is a number; the table and the buffer of the agent have
  room, and commands are told from timers.
- `RequestsAssumption`: the detector's numbers are ordered as its defaults are (3 still frames, 5
  changes, a window of 10); names differ.
- `HostAssumption`: an image has a layer; finitely many servers; bounds are numbers, names differ.
- `ViewConnAssumption`, `ViewAssumption`: a queue has room; finitely many connections; columns are
  integers and the drag threshold a number.

Every safety invariant of the passing runs is proved for all values of the constants, and so are
the action properties and refinements. `UpdateFaithful` speaks of the frames, formats and handshakes
that its run enumerates; `UpdateRepaints` and `ColourSeen`, on which its proof rests, speak of all.
`CapRespected`, `ReservationExact`, `SendNeverBlocks` and the type invariants are proved and not
repeated in the runs, which check stronger statements about the same state.

Only model-checked: every liveness property, and what rests on ENABLED, which the prover does not
handle.

## 5. Not modelled, and why

- The contents of screenshots, archives and messages: data that no property here depends on.
- The framework's snapshot and pause states: external, and used by a path of their own.
- File descriptors: that the last holder of an agent connection closes the fd while the reader may
  be between two reads. The number's reuse belongs to the whole process; a model of it would be one
  of the kernel's descriptor table.
- The X11 side of the guest agent: screenshots, drags, scrolling and typing; of clicks and
  selections only what `DesktopTools` needs.
- What else moves the guest's pointer while a viewer has its hand on it: `Input` is one viewer
  alone.
- Argument parsing and formatting of the CLI and of the tools of one request; the C ABI; the lookup
  of assets; the wire types.
- Symbolic links, modes and times in image layers, credentials, and the mangling of references.

## 6. Plan

The plan is carried out: the components of the core are modelled, their safety is checked and proved.
Liveness and ENABLED stay with TLC, and the components of section 5 are left out for the reasons
given there.
