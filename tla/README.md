# V9x Remote Agent: a TLA+ model

V9x Remote Agent makes an old Windows machine (95 to XP; a second, smaller
agent is for DOS) reachable from a modern one: run programs, move files, take
screenshots, restart it, update the agent itself, see and use its desktop, over
the local network or through a relay that the owner of the machine switches on
("remote help").

This directory models the parts of it in which threads, processes, messages,
failures or restarts can come in an order nobody tried, and some of the
algorithms on which the rest relies. Each module is written from the C and
Python source, action by action; `PROJECT.json` maps every definition to the
lines it stands for. TLC checks small instances, TLAPS proves what is said of
every instance.

Run from this directory:

    tlc -workers 2 -config MCExecSingle.cfg ExecPool       (and so on, see "Runs")
    tlapm ExecPool_proofs.tla
    tlapm FileTransfer_proofs.tla
    tlapm RemoteHelp_proofs.tla
    tlapm RelaySession_proofs.tla
    tlapm MCFiles_proofs.tla
    tlapm ReleasePackage_proofs.tla
    tlapm MCRestart_proofs.tla
    tlapm MCVnc_proofs.tla

## 1. Inventory

The agent (`src/guest`, C) is one process with an accept loop, a thread per
connection, a thread per running job, and threads for remote help, update
checks, discovery and the tray icon. In a hot update the staged program is also the
swapper. The VNC server is a second program, the installer and
self-updater a third; the DOS agent (`src/guest-dos`) is a port. On the host
are a PowerShell client (`scripts`) and an MCP server in Python (`mcp`), each of
which can reach the agent directly or through the relay.

| Part | State | Operations | What is hard, and what must hold |
|---|---|---|---|
| Connections and execution pool: `agent.c`, `protocol.c`, `execute.c` | `v9x_connections[]`: in_use, socket; `exec_pool[]`: active, cancel, owner, request id, thread; one worker per job | accept, EXEC, CANCEL, the worker's output and completion, teardown of a connection | Only the flags are taken atomically, all else is plain stores. A slot has one user and is never lost; frames go to the client that asked, in order; jobs of a gone client end |
| Remote-help session: `remote.c`, `relay.c`, `mcp/v9x_relay.py`, `scripts/V9xRelayStream.cs` | client: buffered bytes, next sequence number, last chunk taken; server: records down, chunks up, session state; agent: expected number, up number, current chunk, pause switch | open, status, accept, down, up, close; pause and resume | Calls and replies are lost and tried again, the path can repeat and mix records: nothing lost, repeated or taken from another session; sessions end |
| Registration, polling and chat: `remote.c` | machine id and secret on disk, backoff, queued chat lines, the wake event | register, poll, forget, chat, pause | A lost reply sends chat again; the identity can be erased during a session; a line or a pause may come while a check-in is under way |
| File transfer: `files.c`, `download.c` | per connection an open upload, its offset and running CRC; `.PART` and download temporaries; the destination and its `.V9X.BAK` | open, chunk, commit, download, promote, read, disconnect | Promotion is four calls with no lock; any can fail, or the machine goes down between two. No corrupt destination; a version survives; no stray temporaries |
| Hot update: `update.c`, `agent.c`, `tray.c` | V9XAGNT.EXE, V9XAGNT.OLD, V9XNEW.EXE, the singleton mutex, the Run entry | UPDATE_REQUEST, the swapper's rename, wait, copy, restore and launch, start-up, Restart | Several processes work on the same three files, and files in use cannot be replaced. A whole program can be started and an agent comes back |
| Power and proof of reboot: `power.c`, `reset.c`, `agent.c`, `mcp/v9x_mcp.py` | boot counter, resume token, PENDING.DAT | reboot, reset, shutdown, wait for a reboot | The token is stored before the reboot happens and never deleted; any restart raises the counter. What counts as proof? |
| VNC server: `vnc.c`, `vncz.c`, `vncsvc.c` | the job handed to the capture worker and whether it is pending, two frames, marks of tiles read and changed, the viewer's encodings, keys held, clipboard buffers and flags, colours carried from tile to tile | capture, compare, copy, send, input, clipboard in both directions, packing of tiles | A worker stuck in a display driver while the session goes on, ends or changes mode: frames have one user at a time, the viewer shows what the server takes it to show, texts stay whole, no key stays pressed |
| Self-update: `src/setup/selfupdate.c`, `update_proto.c`, `update_release.c`, `zipread.c` | the signed release description, the downloaded package, the folder it is unpacked into, the staged version | look, download, verify, unpack, stage | Only a newer version whose signature, size and hash fit is staged, and the next restart takes it, whatever runs or fails in between |
| Installer: `src/setup/setup.c`, `UPDATE.BAT` | files, the Run entry | install, stage, remove | A power cut or a second setup between two steps of staging |
| Screenshots and input; tools and inventory; discovery | a lock and a helper process; none; a socket | one request at a time | Little |
| Compression and cryptography: `src/common` | none | pure functions | The decoder of Deflate: tables, repeats, overlapping copies, the end of the input. CRC32, SHA-256 and -512, Ed25519 are arithmetic |
| DOS agent: `src/guest-dos` | one upload, V9XUP.TMP and V9XUP.BAK, OUT.TMP, one current directory | the same protocol, one client at a time | Single-threaded, but its promotion of an upload can be cut short, and executions move the directory that relative paths are resolved in |
| Command-line client and MCP server: `scripts/v9xctl.ps1`, `mcp/v9x_mcp.py` | one connection | requests in sequence | What they do when a reply does not come |

How they meet: a connection thread calls every handler directly (EXEC, files,
update, power). A relay session is, to the agent, one more connection: the
remote-help thread dials the agent itself over loopback, so that session's
handlers are the ones of the pool and of the files. The hot update is
an upload of V9XNEW.EXE followed by UPDATE_REQUEST. PROJECT.json lists
each part with its sources and status, and every hazard at the line where it
bites.

## 2. Plan

Order: what all remote work depends on first. All of it is done:

1. `ExecPool`: connections and the execution pool, with proofs.
2. `RelaySession`, implementing `RelayTunnel`, with a proof of the refinement.
3. `FileTransfer`, with proofs.
4. `HotSwap`, with a proof.
5. `RemoteHelp`, implementing `ChatQueue`, with proofs.
6. `RebootProof`, with a proof.
7. `VncServer` (capture worker and network thread), `VncClipboard` and `VncTiles`, with proofs.
8. `DosAgent`, with proofs.
9. `StagedUpdate`: the self-update, the installer's staging and the boot, with proofs.
10. `VncDeflate`, `Inflate` and `ReleasePackage`: packing and unpacking, the last with a proof.

What is left, should the model grow: the requests that end the agent against the
pool (an EXEC that starts between the check and the exit); two self-updates at
once; version numbers and the line parsers of the self-update against a
reference definition. Every safety property that a run checks is proved, but for
`Inflates`, which is about what is computed from bits (see "Proofs").

Components that share no state are checked in one run by a module that holds
their variables side by side and runs one of them in each behaviour: `MCFiles`
(FileTransfer, DosAgent, StagedUpdate, ReleasePackage, Inflate), `MCRestart`
(HotSwap, RebootProof) and `MCVnc` (VncServer, VncClipboard, VncTiles). The
theorems about these parts are stated of the composed specification, which is the one that
the runs check. Each part can also be checked alone: MCHotSwap.cfg, MCReboot.cfg, MCDos.cfg,
MCStaged.cfg, MCClip.cfg, MCTiles.cfg, MCInflate.cfg, MCPackage.cfg.

## 3. The modules

### ExecPool

A connection slot `c` is one entry of `v9x_connections[]` with the thread that
serves it. `pc[c]` says where that thread is: `free` (in_use = 0), `idle` (in
recv), in EXEC_REQUEST (`acquire`, `fill`, `create`, `accept`, `resume`,
`reject`), in CANCEL_REQUEST (`lookup`, `setCancel`), or in the teardown (`scan`,
`disconnect`, `cancel`, `await`, `wait`, `expired`, `close`, `release`). A worker `w` is one
`v9x_execution_worker` thread, and names its job; it outlives the handle.
`active`, `cancel`, `owner`, `requestId` and `thread` are the fields of
V9xExecSlot.

An action is the code between two points at which another thread can change what
this thread does next. So acquiring `active` and filling in the slot are two
actions (`Acquire`, `Fill`); finding the job to cancel and storing `cancel` are
two (`LookUp`, `SetCancel`); and a teardown tests the owner, tests `active`, stores
`cancel`, takes the handle that is there by then, waits, terminates whatever thread
the slot names after that, and closes whatever handle is left, each an action of its own
(`Scan`, `CheckActive`, `Disconnect`, `Await`, `Wait` or `WaitTimesOut`, `Terminate`, `Close`).
`v9x_execution_resume` too acts on the handle the slot holds by then (`Resumed`,
`ResumeFails`), which need not be that of the worker it was called for.

`WaitExpires = FALSE` means that no wait of a teardown runs out, whomever it waits for. That
is more than that a cancelled worker ends within 5 s: the teardown may be waiting for a
worker of another connection, which nobody has cancelled (finding 1). With `WaitExpires` and
two connections, `SlotExclusive`, `JobStream`, `JobsEnd` and `AcceptedAnswered` can all fail; with
one connection slot none of this happens, and exec_single checks it with waits that run out.

Abstracted: the command, its directory and flags (a request may simply be
refused in `Fill`; one refused before the pool is looked at changes nothing); the
child and its pipes (a child ends or does not); output is at most `MaxOutput`
frames; a frame is delivered or its send fails. A send to a connection slot that
is free fails; in the code it enters a critical section that has been deleted,
whose outcome Windows does not define. The relay's connection is one of `Conn`.

### RelaySession and RelayTunnel

`RelayTunnel` is what a session promises: `sent` (client), `fed` (handlers),
`made` (handlers), `read` (client) per session, each later one a prefix of the
earlier, growing in order. `RelaySession` has the three ends: the client's
`RelaySession` class (H actions: open, status, write, the two halves of recv,
close); the update server, which is not in this repository and is
modelled from the calls both ends make (marked external); and the agent's
`v9x_remote_session` (G actions), one action per HTTP call it makes. Every call
may be lost on the way there or on the way back. With `FaultyPath` the path may
also answer with any one or two records ever posted, of any session and in any
order. A signature is what it promises: a record passes only in its own session,
with its own number (`Good`). The client's pull is two actions: the reply arrives
(`HPull`), and its chunks are looked at one after the other (`HTake`; `numbers` are those that
are left). `read` is what has reached the inbox: the chunks before one whose signature fails
stay there when `recv` raises. In the same way the agent may feed less than all that is good of a
reply (`GFeed`), but only if the handler has gone. One unit of data is one record's worth, so
splitting into records is left out and batching into POSTs is not.

Not modelled: the daily quota; a machine forgotten during a session, which is
in RemoteHelp;
`GBeat` lets any heartbeat retire the machine and end the session, but later
sessions can still be polled for. As in the code, a client whose `status` call fails
leaves its session unclosed (`HStatus`), and a session whose accept reply is lost
stays open at the server until the next is opened.

### FileTransfer

One destination path, its backup, and for every connection the temporary of its
upload and that of its download. Uploads and downloads are one action per
request or received block; from the first call of `v9x_promote_temp` on, one
action per call to the file system (`Attributes`, `Unbackup`, `Away`, `Place`,
`Rollback`, `Clean`), since another connection promoting to the same path shares
destination and backup with no lock. Contents are blocks: `1 .. Blocks` is what
the sender meant, 0 is anything else. A commit passes exactly for
`1 .. Blocks`, which is what size and CRC32 are for.

Not modelled: several paths (they share nothing but the temporaries' names,
which are per connection slot); LIST, STAT and MKDIR.

### HotSwap

The three files, the processes that run from them and a flag for the system
(9x keeps a running program's file locked; NT lets it be renamed).
Agents: wait for the mutex (`TakeMutex`, `GiveUpMutex`), delete a stale
V9XNEW.EXE, serve, accept an update and exit a second later. Swappers: one
action per call of `v9x_hotswap_run`, with its retry loop of two minutes
(`RenameExpires`), the wait for the mutex on NT, the copy in two steps (during
which V9XAGNT.EXE is torn), and the ways back when one fails. Requests of other
connections are served during the second before the exit, so several swappers
can run; the tray's Restart can come at any time. `Crash` stops every process;
`Boot` runs what the Run entry names.

Time limits are relative: a swapper's two minutes cannot run out on an agent
that is about to exit, nor the five seconds for the mutex on a holder that is
exiting. Not modelled: the copy of the screenshot helper (a failure is only
logged), and replacing V9XNEW.EXE on NT while a swapper runs from it.

### RemoteHelp and ChatQueue

`v9x_remote_thread` outside the data of a session: it registers, checks in,
takes a session, idles until it is woken, and forgets an identity that the
server refuses. The tray thread queues the owner's lines, pauses and wakes it;
the agent may end and start again at any step, with AGENT.INI as it was flushed.
Every call may be lost before the server acts on it, or its reply afterwards.
The server is external and may forget or retire a machine. `ChatQueue` is what
chat promises (a line that was taken stays, in its turn, until a check-in that offered it
is answered); `ChatDelivers` is the refinement.

The body of a check-in has room for 4096 bytes (`remote.c:29`). `v9x_rt_append_field` leaves a line
out, or cuts it off, when there is none left; its result is ignored (`remote.c:529`), and once the check-in is answered
the line leaves the queue with the others. `Carried` is what fits: the lines up to the first for which
there is no room. A line that was dropped like this is in `lost`; `ChatArrives` says that each line is heard
or lost. `agent.h:142-143` promises that a line stays until a check-in delivers it, which
`NoLineLost` states; TLC finds it violated (MCChatLost.cfg, kept beside the runs). A line of the owner's has at
most 511 characters and takes up to three bytes for each of them, so two always fit and of
three long ones the last may not. The instance is scaled to that: a body holds one long and one short line.

A refusal of a heartbeat is a text reply (`RefusalIsText = TRUE`), as the
server's documentation describes; were it an empty record instead, a thread whose
machine was forgotten in a session would not leave it, and `Recovers` fails.
Left out: the length of the backoff and of the intervals, what the developer
writes back, STATUS.INI, the quiet update check.

### RebootProof

Clients send a reboot, shutdown or update request with a token of their own,
and wait for a counter other than the one they knew and for their token. The
handlers of two connections mix: the token goes to disk and then to memory, the
answer is sent, the machine goes down or the call fails. `AgentStart` raises
the counter in BOOT.DAT, if it can be written, and reads the token.
`past[c]` collects what has happened since a client's token was stored.

A reset is a reboot by other means; BUSY is one of the refusals. The clients
compare for a changed counter and their own token and nothing else
(`v9x_mcp.py:1591`, `v9xctl.ps1:1523`). `docs/ai-workflows.md:104-107` counts "a VM that never
went down" among what fails the check; `WentDown` states that, and it does not hold:
a restart of the agent alone, between the storing of the token and the reboot or in place of one
that failed, passes (finding 2). What does hold is `ProofIsSound`: the agent that took the
request has ended since the client's own token was stored, by whatever cause, and the counter the client
is shown has grown since its request, unless BOOT.DAT could not be read or written in between.

### VncServer

The network thread (`nt`), the GDI worker (`wk`) it gives one job at a time
(`job`, `job_event`, `done_event`), one viewer, and a screen that changes
at any step, also between two reads of one capture. A tile is a function from its
pixel rows to colours; a capture samples one row of every tile and reads in full
those it suspects. `SendUpdate` is one update in the order of the code: copy
of a moved window, pointer shape, tiles, with vnc_prev following each. A driver may hang
(`wedged`); the network thread then waits, gives up after its time and ends the
process, releasing keys.

Worth knowing: a comment at `vnc.c:1429` says that the diff that follows a
CopyRect sends whatever the copy did not get right; the diff skips tiles that the
sampled capture has not read (`vnc.c:963`), and a wrong one is healed
only when sampling comes to it. A full update asked for during a sampled capture is
not kept (`vnc.c:2398`) and is healed the same way. `CatchesUp` holds with both.
Left out: pixel formats, the pointer's position, a second viewer (turned
away), the desktop switch, Windows 95 without GetCursorInfo, a send that blocks.

### VncClipboard

The network thread and the clipboard thread, two buffers that are swapped for
what comes in and one for what goes out, five flags and no lock. A text is a model value with
where it came from (`by`) and whether it was news. A look at the clipboard that
was begun in one session and ends after the next viewer's reset may send that
viewer an older text, contrary to the comment at `vnc.c:1870-1872`; `OnlyNews`
allows for exactly that. A text that an old viewer sent is still applied when the next one is there.

### VncTiles

The tiles of a rectangle as the code packs them and a viewer unpacks them
(RFC 6143): Hextile, which carries background and foreground from tile to tile,
and ZRLE, which picks the smallest form by sizes worked out beforehand.
The sizes are scaled down (6 pixels to a tile in every shape, palettes of 2 and
3, runs from 2 on take another byte) so that every limit is met and passed. A
comment at `vnc.c:1023` bounds a Hextile tile by the raw one; it counts
only the subrectangles, so a tile can be up to two pixels and a byte larger. `TilesAssumption`
(in MCVnc) has what the proof needs of the sizes: all are positive, and palettes have at most
127 and 16 colours, as in the code, where the index and the packed field have no room for more.

### VncDeflate and Inflate

`VncDeflate` is the encoder (`vncz.c`) as an operator from bytes to bits, with
the real tables; the hash is worked out bit by bit and its table is "the latest
earlier place with the same hash". `Inflate` is the decoder (`inflate.c`), one block header, code length or
symbol at a step, with the real tables and alphabets. Its inputs are what compressors make
of all data up to four bytes and of runs of 300: stored, fixed and dynamic blocks, every split into
two blocks, and the VNC server's stream, which never ends; whole, cut at every byte, or with
any bit changed. A read outside a table or the
output would stop TLC. Left out: vnc_deflate_bound, an output sink that fails.

### ReleasePackage

A zip file as records at offsets that other records name, read by
`v9x_zip_open`, `v9x_zip_extract` and `v9x_su_unpack` (`UnpackMember`, with writes
that fail, into a folder that holds an earlier update). One field of the file may have been changed, or the end
cut off. Names are safe or not; a checksum is the content. A member whose
name was changed into a folder's is skipped in silence. The message "Nothing was
changed" is also shown after some members have been written. Left out: memory
that cannot be had, and lookup by name.

### DosAgent

One thread, `pc` says where it is: serving, in a commit (`UnBackup`,
`Backup`, `Promote`, `Rollback`, `Complete`), in an execution, streaming its output. Files are per directory, with V9XUP.TMP and
V9XUP.BAK beside each destination. Resets come between any two steps. The
agent has one current directory, which executions move, and a relative path
is resolved again at each step.

`LastGoodKept` covers a commit that a reset or a failing rollback cuts short: its backup stays, whatever
comes after, until another commit in that directory meets an existing file and
begins by removing V9XUP.BAK (`unbacked`); then the copy is lost. That, and a chunk that the disk took in
part and that is sent again, which spoils a file that then commits, are excluded, and can happen. Also left as it is: a child
that never ends blocks the agent, since nothing times it out; recv has
no timeout; v9x_pushd leaves the drive changed when chdir fails
(`exec_dos.c:119-130`). Left out: configuration, drives.

### StagedUpdate

SETUP.EXE /update from the check to UPDATE.INI, the setup /S it runs from the
package, and the boot: UPDATE.BAT on 9x, V9XNEW.EXE -hotswap on NT, one action
per file or registry call. A release is its number, a file holds one, is torn or is
missing. Mishaps are power cuts and calls that fail; a newer release may be published, and an
agent started, at any time. `slips` records what may have come in between that the properties exclude: `early` (an agent
that starts deletes a staged V9XNEW.EXE: finding 5), `raced` (a setup and a swap at the same time),
`restaged` (a later setup removes what an earlier one promised and then fails, or the power goes,
`setup.c:567-574`), `cut` (power lost inside a swap where nothing leads back) and `failed` (a call of the boot failed).

Left out: a setup window left at its question while a newer release is
staged; two self-updates at once, which share SETUPUPD.EXE and the UPDATE
folder; the wizard and a first installation.

## 4. Runs

| Run | Instance | Question and answer |
|---|---|---|
| exec_single | 1 connection slot, used by one client after the other, 2 pool slots, 3 jobs, workers may outlast the 5 s wait | Nothing a connection leaves behind reaches or harms the next client of its slot: `SlotExclusive`, `JobStream`, `NoFrameToRecycledSlot` |
| exec_shared | 2 connections, 1 pool slot, 2 jobs, no wait of a teardown runs out | The same slot under contention: stale owners, cancels and teardowns of one connection while the other takes the slot; `JobsEnd`, `AcceptedAnswered`, `ConnectionsEnd` |
| exec_unanswered | as exec_shared, waits that run out | Violation of `AcceptedAnswered`: finding 1 |
| relay | a session of 3 units, 2 records per POST, or two of 1 unit, faulty path | `IsTunnel`: each session a FIFO of its own; `SessionEnds`: a closed or paused session ends at the agent; `Answered` |
| remote_help | 3 lines, two of them long, for a queue of 2 and a body that two long ones do not fit, a session, a fault | `ChatDelivers` and `ChatArrives`: chat is a queue that loses only what no body had room for; `IdleIsCurrent`; `Recovers`: the thread always gets back to a registered machine |
| files | 2 connections, 3 transfers of 2 blocks; 2 files, 3 uploads or executions, 2 mishaps on DOS; 3 releases, 2 self-updates, 2 mishaps; packages with a changed field or a missing end; streams of up to 4 bytes and a run of 300 | `NeverCorrupt`, `Kept`, `Tidy` of transfers; `AnswersAreTrue`, `LastGoodKept` of the DOS agent; `StagedIsNewer`, `CanBoot`, `PromiseKept` of the staged update; `Unpacks`; `Inflates` |
| download_truncated | a server that closes early | Violation of `NeverCorrupt`: finding 3 |
| staged_early | 2 releases, one self-update, no mishap | Violation of `TakesOver`: finding 5 |
| restart | 6 processes, one failing copy, power failures; 2 clients, 2 tokens, a mishap | `SwapSettles`, `AgentReturns`, `UpdateTakes` of the hot update; `ProofIsSound`, `ProofComes` of the reboot |
| reboot_unproven | 2 clients, 2 tokens, a restart of the agent | Violation of `WentDown`: finding 2 |
| hotswap_interrupted | 4 processes, power failures | Violation of `InterruptedSwapRecovers`: finding 4 |
| vnc | 2 tiles of 2 rows, 3 kinds of viewer, 3 events; 2 texts, 2 visits, 3 copies; all tiles of 6 pixels in 3 colours | `WorkerOwnsFrame`, `ViewerMirrorsPrev`, `NothingStuck`, `CatchesUp`, `Stops`; `WholeTexts`, `OnlyNews`, `CopyReachesViewer`; `TilesArrive` |

Why the bounds are enough. A race for a pool slot needs a stale owner, a new
owner and one slot: two connections on one slot, with two jobs so that one can
follow the other. Clients come and go without bound in both runs: a freed
connection slot is claimed again. A record is mixed up with one of another session,
repeated, or swapped with its neighbour: two sessions, and three units with two
in a POST. `MaxTries` is 2 for 4: the first retry already repeats a chunk that the
server has, and the last gives up. Three lines overfill a chat queue of two, and one of them can
be typed while two are on their way. Promotions can overlap in every order with
two connections; the third transfer runs over what two left, on DOS as on Windows; two
mishaps are a failing call and a failing rollback, or a reset and what follows. Three releases and two
self-updates let a second setup overtake what the first has staged. Six processes are an
agent, two swappers, an agent launched by each, and one boot or Restart. Two tiles
are one that is copied onto another, two rows one that is sampled and one that is not yet;
three events are a change, a move of the window or the mode, and the driver, viewer or stop.
Two visits let a look begun in one end in the next. Fields of a package that were changed take the
values at which the checks of the reader change their answer.

Deadlock is checked but where the system may really stop: transfers, uploads,
releases, requests and events are bounded in FileTransfer, DosAgent, StagedUpdate, RebootProof and
VncServer, processes in HotSwap, packages and streams come to their end, and a machine whose
Run entry names nothing stays off.

Every property also has a mutant: an operator of the modules, marked "a mutant",
is a plausible slip in the operator that follows it (a forgotten wait, an
off-by-one, a handle left open). PROJECT.json names the run and the property
that catches it. They are used nowhere else.

### Fairness

* ExecPool: every thread keeps running. A connection thread in recv need not get
  a request, but leaves when its client is gone; a worker leaves its loop when it
  sees cancel or its timeout. Nothing is assumed of children or clients. Where no wait runs out
  (`WaitExpires = FALSE`), it is assumed that no wait of a teardown lasts for ever on a worker that nobody has
  cancelled, where the 5 s would end it; that a wait for a cancelled worker ends is checked, not assumed.
* RelaySession: the agent's loop never stops, since each call has a timeout.
  Strong fairness for an answered `down`, a noticed close and a pull that brings
  something: a call made again and again gets through at last. Without that, a
  dead network keeps a session waiting, which is also what the code does.
* RemoteHelp: the thread keeps running; strong fairness for a registration and a check-in
  that are answered, and for a session whose calls get through, for the same reason.
* HotSwap: processes keep running; strong fairness only for a swapper's rename
  or the end of its two minutes, between which it polls for ever otherwise.
* RebootProof: a machine that is down is started, handlers run to their end, clients go on polling.
* VncServer and VncClipboard: the threads run, the network thread sees the stop event, and a
  viewer that has a frame asks for the next. A driver that hangs need not recover.
* FileTransfer, DosAgent, StagedUpdate and the rest: none; only safety is claimed.

### What the properties leave out, and why

* `SlotExclusive`, `JobsEnd` and `AcceptedAnswered` with several connections assume that no wait
  of a teardown runs out (`WaitExpires = FALSE`). Without that TLC finds them violated: a teardown that meets its
  stale owner field terminates the worker another connection is creating, or has just
  started, and clears the slot under it (`Terminate`; finding 1).
* `NoFrameToRecycledSlot` is checked and proved for one connection slot. With two it fails
  (MCExecRecycled.cfg), against `agent.h:158-160`: the teardown closes the handle of a worker that
  another connection has just created; that connection's own teardown then finds none, does not wait, and its
  connection slot is given to the next client while the worker runs.
* A pause takes effect with the next round: the switch is read once per round (`remote.c:769`), and a
  command that comes with the request under way, held for up to 3 s, is still carried out, though
  `README.md:120-121` says that pausing "blocks all commands at once" (`PauseBlocks`, MCRelayPause.cfg).
* `ChatArrives` lets a line be lost for which no check-in had room (MCChatLost.cfg).
* `ConnectionsEnd` assumes that a teardown waiting for an uncancelled worker of
  another connection stops waiting (`Fairness`), as the 5 s would make it.
* `Kept` excludes overlapping promotions: one may delete the backup that the other
  has just made and still needs. `Settled` (a part of `Tidy`) allows for one failing rename, and for none
  when promotions overlapped: if the rollback fails too, the file stays
  in the backup.
* `ClientResends = FALSE`: after a failed or short WriteFile the offset and CRC are
  unchanged though the file has grown. A client that sent the chunk again could
  commit a damaged file; the clients of this repository give up.
* `SwapSettles` excludes two swappers with a failed copy: one can then delete the
  V9XAGNT.OLD the other would put back. `UpdateTakes` excludes a Restart between
  two agents: the swapper can then run out of its two minutes.
* `AnswersAreTrue`, `LastGoodKept`, `OnlyNews`, `ProofIsSound`, `StagedIsNewer`, `CanBoot` and
  `PromiseKept` name what they exclude in terms of the history variables of their modules
  (`torn`, `unbacked`, `found`, `past`, `slips`), as said above under each module.
* `Inflates` says of a stream with a changed bit only that the decoder stays within its
  output and ends: Deflate has no checksum of its own.

## 5. Findings

1. `exec_unanswered`. `docs/protocol.md:158-160`: the agent replies with EXEC_ACCEPTED, "then sends exactly one
   EXEC_COMPLETE". The owner of a pool slot is never cleared, so a connection that once had the
   slot takes it for its own in its teardown. It finds it active and stores `cancel`; the job ends, or has
   ended already, and another connection takes the slot, clears `cancel` and starts its worker. The teardown then
   reads the handle, which is that worker's, waits for 5 s and terminates it. The other
   client has been told EXEC_ACCEPTED and is never answered, though its job has a timeout.
2. `reboot_unproven`. `docs/ai-workflows.md:104-107`: success requires "a strictly increased boot
   counter" and "a VM that never went down" fails. Every start of the agent raises the
   counter and reads the token back, so a restart of the agent alone passes for the reboot; and the clients test for a
   counter that differs, so one of an agent that could not read BOOT.DAT passes as well.
3. `download_truncated`. `docs/ai-workflows.md:125-127`: "never a corrupt destination". The
   end of the body is taken for its completion; Content-Length is not compared.
4. `hotswap_interrupted`. `update.c:13-14`: "an interrupted swap still recovers on the next
   reboot". Between the rename and the end of the copy nothing whole is there to start.
5. `staged_early`. `selfupdate.c:13-15`: "the new agent takes over at the next
   restart". Every agent deletes V9XNEW.EXE when it starts, so one that is started
   between the staging and the boot (the tray's Restart or Settings will do)
   deletes what was staged; at the boot there is nothing to swap in.

The configurations MCExecRecycled.cfg, MCRelayPause.cfg and MCChatLost.cfg, which are not among the runs, show three
more places where a promise in a comment or in the documentation is not kept: a frame sent to a recycled connection
slot, a command fed after a pause, and a line of chat that did not fit (see "What the properties leave out" and RemoteHelp).

## 6. Proofs

`ExecPool_proofs`, for any number of connections, pool slots and jobs:

* `TypeCorrect == Spec => []TypeOK`. TypeOK is not inductive: `Resumed` looks up
  the pool slot of `handle[c]`, which must be a worker. `TypeInv` adds that a
  connection that has a worker pending knows it. The lemmas go thread by thread
  (`ConnType`, `ClientType`, `WorkerType`). It needs only `PoolAssumption`.
* `SlotsExclusive == ~WaitExpires |- Spec => []SlotExclusive`. The inductive
  invariant is `PoolInv == TypeInv /\ HandleInv /\ NamesOwn /\ Exclusive`. `Exclusive`
  states of every slot that it is active exactly if it has a user, that two
  connections, or two workers, never use it at once, nor one of each; in that
  form each step that changes the users is an instance of one of a few lemmas: a
  connection enters (`ConnEnters`), leaves (`ConnLeaves`), hands over to its worker
  (`HandOver`), a worker leaves (`WorkerLeaves`), or nobody moves (`SameUsers`,
  `ConnMoves`). `HandleInv` is needed for the hand-over: a worker that its
  connection has yet to resume is suspended, and no other thread keeps a handle; `NamesOwn` says that the slot
  names that worker or none, so that resume acts on no other.
  Without it a connection and its worker could both be using the slot.
  The assumption is needed (see above).
* `StreamsInOrder == ~WaitExpires \/ OneConn |- Spec => []JobStream`. `StreamInv` says of a worker
  that runs that its stream is open, and that it has been announced unless its client has gone; `SetupInv`
  that only the connection that set a worker up can announce, resume or refuse it, and that none is left when a
  connection slot is claimed anew; `OwnersInv` that frames are addressed to a connection.
  Since `v9x_execution_resume` acts on the handle that its slot names by then, one also has to know that
  this is its own worker's or none (`NamesOwn` with several connections, from `PoolInv`; `AloneInv` with
  one). It need not be when a wait ran out: then the slot of a job that is being set up may be freed, and the first
  connection's resume starts the worker of the second before its EXEC_ACCEPTED is sent.
* `NothingRecycled == OneConn |- Spec => []NoFrameToRecycledSlot`, where a worker may
  outlast the wait: `Ahead` follows the teardown through the pool and says that no worker of a
  slot it has passed is left. With two connections one closes the other's handle and the
  teardown passes a worker that runs (MCExecRecycled.cfg).

`FileTransfer_proofs`, for any number of connections, transfers and blocks. All
assume that clients give up after a failed write and that servers send the
whole body (`~ClientResends`, `~ServerCuts`); without either TLC finds
`NeverCorrupt` violated, and with a crash or failing renames at any point they
still hold.

* `TypeCorrect`, `DestinationWhole` (`NeverCorrupt`) and `NothingStray`
  (`NoStrayTemp`) follow from `FileInv`. To know that what is put in place is
  whole one has to follow a file from its first block on: an open upload's
  temporary holds exactly what its running CRC covers unless a write
  failed, a download's holds the blocks in order, what is being promoted is
  whole (`StagedAt`), and so is the backup, which a rollback puts back
  (`WholeFiles`). The lemmas go by uploads, downloads, promotion, and the rest.
* `VersionKept` (`Kept`) adds `KeptInv`: as long as promotions have not
  overlapped there is at most one, and there is a destination whenever that one is
  about to delete the backup or to move the destination away.
* `DestinationSettles` (`Settled`) adds `LatestInv`: whatever is in the destination is the file put
  in place last, and so is the backup while there is none (`Latest`). What takes an argument is that an
  empty destination does not stay so. If no rename has failed of itself, some promotion is
  about to place its file, however promotions overlap (`Coming`); if none overlap and one
  failed, the backup is there and the promotion that made it will put it back (`Returning`).

`RemoteHelp_proofs`, for any number of lines, sessions and faults and any capacity of the queue:

* `TypeCorrect`: in particular the queue never runs over, though lines are appended while a
  check-in that will remove some is under way.
* `NeverIdlesStale` (`IdleIsCurrent`): the thread never sits out an interval with
  something to tell unless it has been woken. `CurrentInv` adds what makes it
  inductive: when a check-in has been answered, either the thread has been woken since
  or the server was told the switch and every queued line.
* `ChatIsQueue` (`ChatDelivers`): every step is a step of ChatQueue or a
  stutter. The invariant `LatestIsHead` says that what
  the server was offered last is the head of the queue until it leaves it, and that an answered
  check-in copied exactly that (`copied`): only lines of an answered check-in are dropped. It holds whatever
  `Carried` makes of the room there is; what did not fit is `lost`, in both modules alike.

`RelaySession_proofs`, for any number of sessions, units, records per POST and attempts, and
with the path faulty or not; it needs only `RelayAssumption`:

* `RelayIsTunnel` (`IsTunnel`): `HWrite`, `GFeed`, `HandlerAnswers` and `HTake` are steps of
  RelayTunnel, everything else changes nothing that the tunnel sees. A unit says which session it
  belongs to and which it is there, so that "in order, each once, of this session" becomes a statement
  about each stream alone (`Follows`), and growing streams stay prefixes of one another
  (`StreamInv`). The rest of `RelayInv` is what lies between the streams. On the way down:
  all records at the server are signed for their own unit and in order (`DownInv`), and what
  the client has not posted yet continues them (`FlushInv`); the agent's `expected` is one more than
  it fed, so a record that passes `Good` is the next. On the way up the chunks at the server
  follow each other (`ChunksInv`), and the loop is either at the next number and the next unit, or
  holds a chunk that is there already though its reply was lost (`LoopInv`): then a repetition
  of it changes nothing. What the client has read ends where a chunk ends (`ReadInv`), so a chunk with
  the number it expects is the continuation.

`MCRestart_proofs`, stated of `RestartSpec`:

* `SwapSafe` (`SwapSettles`), for any number of processes, of swappers at a time, of failed copies
  and of power failures. `Files` says what the processes leave each other: which file
  each runs from (`Images`), that one swapper copies at a time (`Copying`), that a program that is
  missing has a swapper that will put it there, as long as no copy failed (`Attended`), and
  that swappers that were never two at a time always have the old program to go back to
  (`Alone`). A swapper that waits for an agent must be able to launch one at its end.
  In the model a new process takes a number that none had, of which there are
  finitely many, so `Births` counts: the numbers not yet used are the largest, and there are as many as there
  are swappers. It is the one place where cardinalities are needed.
* `ProofSound` (`ProofIsSound`), for any number of clients, tokens and mishaps. A client compares
  counters, so `ProofInv` says what a counter tells: while a request is being handled
  the agent is the one the client said hello to, with the counter it was told; its history
  begins when its token is stored, which happens in that time only; from then on either that agent
  has not ended, and the counter is the same, or its end is remembered in `past`. All that
  ends an agent is remembered for every client (`EndIsRemembered`). `CountInv` adds that, as long as BOOT.DAT is kept, the
  counter the agent answers with is the one on disk and no client's `old_boot` is ahead of it, so one that
  differs has grown.

`MCVnc_proofs`, stated of `VncSpec`, for screens of any size, any encodings, any texts and any number of
events, visits and rectangles:

* `FrameOwned` (`WorkerOwnsFrame`). `JobInv` says where a job is: its event is set, the
  worker has it, or its end is to be collected, one of these at a time; and that
  a job that replaces the frames is one the network thread waits for.
* `KeysReleased` (`NothingStuck`): all keys that are down are in `keys_down`.
* `PrevIsShown` (`ViewerMirrorsPrev`). `MirrorInv` adds that both frames have one size and that a
  session that has not reached its loop owes a full frame. The work is in `SentIsPrev`: the copy
  and the tiles, applied in this order, make of the viewer's frame the new `vnc_prev`.
* `TextsWhole` (`WholeTexts`). `BuffersInv` gives each buffer its user: a text that came in
  is the clipboard thread's while `in_ready` is set, one that goes out while `out_ready` is clear.
* `NewsOnly` (`OnlyNews`). `NewsInv` adds that a text of the viewer's on the clipboard is
  the one noted last, but for the moment before it is noted (`FromThem`); and that after the
  first look of a session all that is on the clipboard has been noted or was copied since the
  viewer came (`Seen`).
* `ColoursKept`: the background or foreground that Hextile leaves out of a tile is the one the viewer
  has.
* `TilesShown` (`TilesArrive`), for tiles of any size and shape, any colours, pixel sizes and palettes. With
  `ColoursKept` what is left is about one tile. In Hextile each rectangle is of one colour, and together
  they cover all that is not background (`SubrectsCover`); so whichever of them the viewer draws last at
  a place, the colour is right (`Painted`, `HextileShown`). In ZRLE each form unpacks to the tile and
  takes the bytes that the choice thought it would (`RawFits`, `SolidFits`, `PlainFits`, `PaletteFits`,
  `PackedFits`), and the form chosen is thought to be no larger than raw (`Smallest`, `ZrleShown`). These
  rest on: the runs, joined end to end, are the pixels (`RunsArePixels`), a run length read back is the
  run's (`RunLengthIs`), each colour of the tile is where its index says (`PaletteHolds`), and the viewer finds each
  index of a packed row in the bits where it was put (`RowPacked`).
* The code's loops are recursive functions of the number of pixels or entries passed. That such a function
  exists is `Recursion`, and that a claim about it holds after any number of steps is by the
  least number at which it would fail (`Upwards`), because the library's theorems of induction take a
  predicate as a parameter, which these provers cannot instantiate.

`MCFiles_proofs`, stated of `FilesSpec`. `PartSteps` takes a step of it apart: each part takes a step of its
own or stands still, so each invariant is proved of its part. `FilesAssumption` says that no
destination of a DOS upload has the name of one of the agent's own two files, that there is a first
release, and that bounds are numbers.

* `TransfersTidy` (`Tidy`), from `TransferInv`, that is all of FileTransfer_proofs, with its two
  assumptions.
* `DosBackupKept` (`LastGoodKept`), for any destinations, blocks and sizes and any number of
  uploads, executions and mishaps. In a directory where no commit was cut short, `GoodInv` names the one
  destination whose only copy is the backup: that of a commit between its backup and its end. Where one
  was, the good file may be either, and no commit is under way that has removed the backup or will (`Replacing`).
* `DosAnswersTrue` (`AnswersAreTrue`). `TrueInv` follows the upload: until it is promoted
  V9XUP.TMP holds what was received, unless a chunk was spoilt, and no answer stands
  while a later upload is open.
* `StagedNeverOlder` (`StagedIsNewer`), for any number of releases (one at least), runs and
  mishaps. No file is of a later release than the package that is being installed
  (`AgesInv`), so what a setup writes is not older than anything it meets. What is left is the setup
  that finds no agent, and puts its own there without looking further. `MissingInv` says that an
  installed agent is missing for as long as a swap takes only, and that where a setup found
  none nothing is staged; `HandoverInv` what a swap has at hand meanwhile. Two slips do no harm
  to this (`Harmless`): an agent that deletes what was staged, and a setup that does
  not finish. The others do, and TLC shows it.
* `AlwaysBoots` (`CanBoot`) and `PromisesKept` (`PromiseKept`) follow from `UpdateInv`, which adds:
  what the swapper has replaced can be started (`SwapInv`); what a setup has staged
  so far (`SetupStagedInv`); nothing older than what was promised is
  where it could take over, nor asked for (`AgeInv`, `ServerInv`). `WhereInv` says what can be at work at
  once, whatever slips. All but `WhereInv`, `AgesInv` and `ServerInv` hold but for a slip, and a slip
  is remembered (`SlipsStay`). There is one step per action in each lemma.
* `TypesKept` (`TypesOK`): the types of the three, for any bounds. `DosTypes` needs that a received file
  never outgrows what was announced; TypeOK of the staged update, that what is promised is a release.

`ReleasePackage_proofs`, stated of `FilesSpec`, for extra fields and comments of any length up to 20000, so
that nothing in a package as it was packed means "see zip64" (`PackageAssumption`), and any numbers in
the field that was changed:

* `PackageUnpacks` (`Unpacks`) has two halves, and the package that arrives is related to one as it was packed
  throughout (`Arrived`). Whatever was changed, what comes out of an entry is
  the member it names (`OnlyNamed`): in the directory an entry's checksum is that of the member
  it names, unless it is the checksum that was changed, or the name, which then is that of no
  member (`DirectoryOf`), and in both cases the extraction fails or, as a folder's, is not tried. A package
  in order comes out whole: the walk meets its records one after the other
  and ends where the directory does (`ReadInOrder`, `WalkInOrder`, `OpenInOrder`), and each entry leads to its
  own header and data, whatever the lengths between them (`DataFound`, `ExtractInOrder`). `UnpackInv`
  says what is in the folder (`FolderInv`) and how far a package in order has come (`ProgressInv`).
* The walk follows the chain of records, and is a recursive function of the number of records passed. That
  it exists, and what it has come to after so many, is an induction. The theorems of
  induction take a predicate as a parameter, which these provers cannot instantiate; in its place
  `LeastNat` (from `WFMin`) gives the least number at which the claim would fail.

What is only model-checked. Liveness, and ENABLED with it, is out of the prover's reach.
`Inflates` says what the encoder and the decoder of Deflate make of each other's bits: it is about
tables built from tables, and codes of several lengths in one stream of bits, and what they
compute for every input would be an induction over the stream at each of these levels. It is
checked over bounded inputs in which every branch and limit of the code is met.

## 7. Not modelled

Screenshots and input, tools and inventory (queries of Windows and calls to it, in sequence);
discovery (datagrams whose loss is harmless); checksums, hashes and signatures
(arithmetic on data; the repository tests it with vectors, and the models
take them for what they promise); the installer's wizard, a first installation and the removal
(sequences of file and registry writes made while nothing else runs); the
clients, but for what the agent relies on; the tray's looks; the framing of messages and command lines.
Logging too: threads open the log without a lock, a second open fails and its line is
lost, but nothing reads it.

An EXEC that starts between the check of UPDATE or REBOOT that none is active (`update.c:179`)
and the end of the agent dies with it. No property covers it: nothing in the
repository promises the job more.
