# A TLA+ model of ezQuake's protocols

ezQuake is a QuakeWorld client with a server in the same program. This
directory holds TLA+ modules for the parts of it that have to be right whatever
the network, the timing and the user do: the sequenced channel between a client
and a server and the queue in front of it, connecting and signing on, downloads,
moves and their backups, packets held back, the frames that entity deltas refer
to, the recording and the playback of demos, and the threads of the server
browser. TLC checks the modules on small instances; TLAPS proves the main
properties of all of them but the threads' progress for every value of the constants.
Paths below are relative to `src/src/`.

## 1. Inventory

| Component | Code | State | Operations | What makes it correct |
|---|---|---|---|---|
| Network channel | `net_chan.c`, `net.h` | `netchan_t`: message, reliable_buf, parities, sequence numbers | Setup, Transmit, Process, CanPacket | each reliable block arrives once, in order; a resend only when needed; a number names one packet |
| Reliable writes | `sv_nchan.c`, `q_shared.c` (`sizebuf_t`) | message, back buffers, flags | CheckBlock, Write_*, FinishWrite, ClearReliable | spilling keeps order; overflow drops the client; `SZ_GetSpace` never ends the server |
| Message pump | `sv_send.c` | reliable_datagram, datagrams, send_message | SV_SendClientMessages, UpdateToReliableMessages, UpdateClientStats, prints, multicast | back buffers drain; a choked or silent client gets nothing early |
| Client slots | `sv_main.c` | `client_t.state`, challenges, delayed packets and their pool | SVC_GetChallenge, SVC_DirectConnect, CheckReConnect, SV_DropClient, SV_CheckTimeouts, SV_ReadPackets | one slot per client, one session at both ends; a zombie becomes free and nothing else; delayed packets keep their order |
| Signon and commands | `sv_user.c`, `cl_parse.c`, `cl_main.c`, `skin.c` | state, svs.spawncount; cls.state, cls.downloadtype, lists | new, soundlist, modellist, prespawn, spawn, begin, downloads; SV_ExecuteClientMessage | a client plays with the whole level it was told of; sign-on ends |
| Moves | `cl_input.c`, `sv_user.c` | outgoing_sequence, dropcount; lastcmd | CL_SendCmd, SV_ExecuteClientMove | each move runs once; losses are made up for; nobody gains time |
| Entity deltas | `sv_ents.c`, `cl_ents.c`, `cl_input.c` | rings of UPDATE_BACKUP frames on both sides | SV_EmitPacketEntities, CL_ParsePacketEntities, clc_delta | the client decodes the very snapshot that was encoded |
| Client connection | `cl_main.c` | cls.state, qport, netchan | connect, reconnect, disconnect, CL_ConnectionlessPacket, CL_ReadPackets | one connection at a time, ends when told |
| MVD and QTV | `sv_demo*.c`, `sv_send.c` | ring of demo frames, destinations, caches | MVDWrite_Begin, SV_MVDWritePackets, SV_MVDStop, DestFlush | every destination has all there is since it joined, once and in order |
| Demo playback | `cl_demo.c` | cls.demotime, nextdemotime, demopackettime, demoseeking | CL_GetDemoMessage, jumps, rewind | nothing early, nothing left behind; a jump lands |
| Server browser | `EX_browser*.c` | lists and panel shared with threads, a semaphore | refresh, ping, panel | nothing is drawn while a thread replaces it |
| Prediction, physics | `cl_pred.c`, `pmove.c`, `sv_phys.c`, `sv_move.c`, `sv_world.c` | floats | simulation | client and server agree |
| Commands, cvars | `cmd.c`, `cvar.c` | text buffers, tables | Cbuf_Add/Insert/Execute | order of commands, `wait`, re-entrance |
| Memory | `zone.c` | hunk | Hunk_* | - |
| Version, IRC, sound | `version.c`, `irc.c`, `snd_*.c` | data behind one mutex | - | - |
| File system, sockets, QuakeC | `fs.c`, `vfs_*.c`, `net.c`, `pr*_*.c`, `vm*.c` | I/O, interpreters | - | - |
| Drawing, HUD, menus, scripts | `r_*.c`, `gl_*.c`, `vk_*.c`, `hud*.c`, `menu*.c`, `ui/`, `ui_lab/` | - | - | - |

How they interact. Each frame the server (`SV_Frame`) checks timeouts, takes
packets, runs the game and calls `SV_SendClientMessages` and, while it records,
`SV_SendDemoMessage`. A packet from an address no slot knows is
connectionless and goes to `Connect`'s handlers; the others may first wait in a
queue (`sv_minping`), then go through `Netchan_Process` to
`SV_ExecuteClientMessage`, which sets `send_message`, runs the moves and executes
the commands. Those write to `netchan.message` through `sv_nchan.c` or straight. At
the end of the frame a back buffer moves into the message and
`Netchan_Transmit` takes the message when nothing is in flight. The client
sends a packet per frame (`CL_SendCmd`), whatever arrives, and parses what
`Netchan_Process` accepts; what it parses may stuff commands that are executed
at the start of its next frame. When a demo plays, `CL_GetDemoMessage` takes the
place of the network. The hard behaviours are those of the network (loss,
duplication, overtaking), of buffers at their limit, of commands and blocks in
flight when the other side has moved on (a drop, a level change, a reconnect, the
next file), of destinations that join and fail in the middle of a recording, and
of threads that share a list.

## 2. Modules

| Module | What it is |
|---|---|
| `ReliableStream` | Abstract: blocks written by one side reach the other once and in order; the writer may revoke what has not been delivered. |
| `Netchan` | The channel between `Client` and `Server`, with the rules that drive it. |
| `NetchanInvariant` | The inductive invariants `IInv` and `PacketInv`. |
| `NetchanProofs` | Proofs of `IInv`, type correctness, `ExactlyOnce`, `NoNeedlessResend`, `PacketInv` and of the refinement of `ReliableStream` in both directions. |
| `ServerReliable`, `ServerReliableProofs` | Message and back buffers of one client of the server, its state, and the pump. |
| `SnapshotFeed` | Abstract: the client shows nothing or a whole snapshot, never one older than what it has received. |
| `DeltaEntities`, `DeltaEntitiesProofs` | The frames of the server and the client, the request for a delta and the answer. |
| `Connect`, `ClientProofs` | Challenges, connect packets, sessions and slots of several clients; and the proofs. |
| `DelayLine` | Abstract: a line of packets per client, run first in, first out. |
| `DelayedPackets`, `DelayedPacketsProofs` | The lists, the pool and the two loops of `SV_ReadPackets` that implement it; and the proofs. |
| `UserCmds`, `ClientProofs` | Moves, backups, skipped packets and replays; and the proofs. |
| `Signon`, `SignonInvariant`, `SignonProofs` | Both sides from `new` to `begin`, over level changes and reconnects; the inductive invariant, and what the steps do in its terms; and the proofs. |
| `ChunkedDownload`, `ChunkedDownloadProofs` | Both sides of a list of files fetched in chunks; and the proofs. |
| `MvdRecording`, `DemoProofs` | The server's recording to files and streams; and the proofs. |
| `DemoPlayback`, `DemoProofs` | The client's playback of a file, and jumps in it; and the proofs, in one module with those of the recording. |
| `Serverinfo`, `ClientProofs` | The panel of the server browser, its updaters and the refresh; and the proof, in one module with those of `Connect` and `UserCmds`. |
| `MC*` | The instances TLC runs, where a constant is more than a value. |

`Signon` and `ChunkedDownload` build on what `Netchan` shows: a packet carries
a reliable part, delivered once and in order, and an unreliable part, which may
be lost. `ServerReliable`, `DeltaEntities` and `UserCmds` take from it that stale
packets are thrown away. A definition named `X_Something` under the comment
*Mutant* or *A variation of* is a plausible mistake in `X`; no specification uses
it. It shows, put in the place of `X`, that a property is not empty.

### Netchan

A field of `netchan_t` is a variable of the same name, a function of the side.
A reliable message is a sequence of *blocks*; a block is the number of the
write that made it, and takes one unit of space. `net` is the set of all
packets ever sent: taking a packet does not remove it, so it may be lost,
repeated and overtaken. A stale packet is discarded by `Netchan_Process` without
effect and is not a step.

| Action | Code |
|---|---|
| `SZ_Write(s)` | `SZ_Write`/`SZ_GetSpace` on the message (allowoverflow): what does not fit replaces the content and raises `overflowed` |
| `SZ_Clear(s)` | `CL_ClearState`; `SV_ClearReliable` and `Cmd_Spawn_f` on the server |
| `SV_OverflowBackbuf` | `cl->netchan.message.overflowed = true` in `sv_nchan.c` |
| `CL_SendCmd`, `CL_SkipCmd` | the end of `CL_SendCmd`: transmit, or with `cl_c2spps` spend a number, at most twice in a row |
| `SV_ExecuteClientMessage(m)` | `Netchan_Process`, then the reply number: `outgoing_sequence` becomes the number taken, or the sequences have slipped and there is no answer |
| `SV_Reply`, `SV_Choke`, `SV_DropOverflowed` | the three ways `SV_SendClientMessages` serves the client |
| `CL_ReadPackets(m)` | `Netchan_Process` on the client; the parser gets the payload |

`written`, `writes`, `delivered` and `dropped` are history: no guard of the
channel reads them but for the bound on writes. `written[s]` loses the blocks
that an overflow or a clear throws away, so it is what the receiver should get.

### ServerReliable

One client of the server, over a channel that `Netchan` shows to be reliable:
`reliable_buf` is the message in flight, `Acknowledge` its arrival. A
`sizebuf_t` is a record of the blocks it holds and its fields, and sizes are
arbitrary units. `cl->backbuf` aliases the newest of `backbuf_data`, so
`backbufs` is one sequence whose last element is the current buffer. A caller
announces a size to `ClientReliableCheckBlock` and writes at most that. The
reliable_datagram of a frame is such a block, too, and is not cut to the mtu of
a client, so a block may be larger than the message.

`written` is all that went into the stream; nothing is ever taken out of it.
What a signon command throws away on purpose or not is in `thrown` as well, and
`forgotten` says that it threw away an overflow or a `svc_disconnect`.

| Action | Code |
|---|---|
| `WriteReliable` | any use of `ClientReliableWrite_*`: prints, user info, frags, a reliable_datagram that is not empty |
| `WriteDirect` | `MSG_Write*` on `netchan.message` past the back buffers (`sv_login.c`, downloads, `Cmd_Begin_f`) |
| `Signon(otherLevel)` | the commands from `new` to `prespawn`: start over when back buffered or on another level, then write straight |
| `Cmd_Spawn`, `Cmd_Begin` | `Cmd_Spawn_f`, whose `SZ_Clear` throws away the message and its flag but not the back buffers, and `Cmd_Begin_f`, on the current level |
| `SV_SaveSpawnparms` | a level change sends spawned clients back to connected |
| `SV_SendClientMessages_*` | the loop body: append the reliable_datagram, move the oldest back buffer up, then wait, transmit, transmit with stats, or drop an overflowed client |
| `SV_DropClient`, `SV_CheckTimeouts` | drop for any other reason; free a zombie or a silent client |
| `Acknowledge` | `Netchan_Process` frees the transmit buffer |

After `SZ_GetSpace` has called `Sys_Error` nothing runs; `sys_error` is the size of the
block it did so over.

### DeltaEntities

One client in the game, during one level. Snapshots and frames are named by packet
numbers: what a frame holds is the number of the snapshot in it, 0 for the empty
one, `Garbled` for the result of a delta applied to the wrong frame. From `Netchan`
it takes that stale packets are discarded and that an answer has the number of the
packet it answers. `requests` and `updates` are all packets ever sent.

| Action | Code |
|---|---|
| `CL_SendCmd(nodelta)` | the delta request of `CL_SendCmd`: forget an expired frame, ask for the last good one, remember in the frame of this packet what was asked for |
| `SV_ExecuteClientMessage(r)` | `delta_sequence = -1` and `clc_delta`; the packet is to be answered |
| `SV_SendClientDatagram(fits)` | `SV_WriteEntitiesToClient` makes a frame, `SV_EmitPacketEntities` encodes it; the datagram may be too large to go out |
| `SV_SendClientMessages(answers)` | choked, or an answer without entities |
| `CL_Parse(m)` | `CL_ParsePacketEntities` accepts the update |
| `CL_Flush(m)` | `FlushEntityPacket`: too late, mismatch, or too old |
| `CL_ReadWithoutEntities(m)` | any other packet from the server |

### Connect

Any number of clients and slots, with a clock. `net` holds the packets that
have been sent within the last `Lifetime`; a packet may be taken any number of
times until then, or never. A client has a state, a qport, the session it is in and the
numbers of its channel; a slot the same from the server's side. `users` numbers
the sessions, so that both ends of one can be compared.

| Action | Code |
|---|---|
| `CL_BeginServerConnect(c)`, `CL_CheckForResend(c)` | the `connect` command and its repetition |
| `CL_Challenge(p)`, `CL_Connection(p)` | `CL_ConnectionlessPacket`: S2C_CHALLENGE with `CL_SendConnectPacket` (which sets cls.qport to the cvar), S2C_CONNECTION with `Netchan_Setup` and `new` |
| `CL_Send(c, kind)` | a packet of the channel |
| `CL_Disconnect(c)`, `CL_ParseDisconnect(p)` | `CL_Disconnect` with its drop packets, by the user or by `svc_disconnect` |
| `SVC_GetChallenge(p)` | remembers a challenge for the address |
| `SVC_DirectConnect(p)` | the challenge, `CheckReConnect` (too soon, or the old slot is freed), a full server, the new slot |
| `Cmd_New(i, p)`, `Cmd_Drop(i, p)`, `Cmd_Other(i, p)` | `SV_ReadPackets` finds the slot by address and qport, `Netchan_Process` takes the packet, and its command is executed |
| `SV_KickClient(i)`, `SV_CheckTimeouts(i)` | a drop by the server; a zombie or a silent client's slot becomes free |
| `Tick` | curtime |

`SV_ClientConnectedTime` is 0 until the first `new` has come, as in the code.
`CheckReConnect` frees every slot of the client, the code the first it finds: by
`OneSlot` there is no other. `Cmd_Other` is a packet whose command changes nothing here.

### DelayedPackets

`packets`, `last_packet` and `free_packets` are the pointers of the code, `node`
the `packet_t` they point to; the age of a packet is counted up to `MaxDelay + 1`.
`SV_Frame` is `phase`: the loop over held packets, then the loop over the socket.

| Action | Code |
|---|---|
| `Arrive(c, kind)` | a packet comes to the socket: a move, a drop or a new connection |
| `SV_Frame`, `RunDelayed`, `EndDelayed` | the first loop of `SV_ReadPackets`: what is due is run and goes back to the pool (`SV_FreeHeadDelayedPacket`) |
| `ReadPacket` (`RunNew`, `NoFreePacket`, `Delay`, `Unknown`, `SVC_DirectConnect`) | the second: run at once, leave the loop because the pool is empty, hold back, or connect |
| `EndNew` | the socket is empty |
| `SV_CheckTimeouts(c)`, `TogglePause` | a zombie's slot becomes free; realtime stands still |

### UserCmds

A move is numbered by the packet it is made for. A packet carries its own
move and the two before it.

| Action | Code |
|---|---|
| `CL_SendCmd(impulse)` | makes a move and sends it, or skips the packet (`cl_c2spps`) when `dropcount`, the impulse and its backups allow |
| `SV_ExecuteClientMessage(n)` | `Netchan_Process`, then `clc_move` with `SV_ExecuteClientMove`: the last move again for each older one lost, up to `MAX_NET_DROP`, then those the packet has, then its own |
| `SV_TogglePause` | moves that come during a pause are not run |

`runs` counts how often a move was run from a packet, `replays` how often it
was run as `lastcmd`; `accepted` says what became of each packet.

### Signon

Messages are data of one size unit, a sixth of a message; the lists of sounds
and models have a handful of entries, and a byte counts modulo `ByteValues`,
so that the byte after a chunk that says where the list goes on wraps as 256 does.

| Action | Code |
|---|---|
| `ServerReceive` | a packet arrives; its commands wait in `sIn` |
| `Cmd_New_f`, `Cmd_PEXT_f`, `Cmd_Soundlist_f`, `Cmd_Modellist_f`, `Cmd_PreSpawn_f`, `Cmd_Spawn_f`, `Cmd_Begin_f` | the handlers: other level, wrong state, back buffered, not enough room, overflow, checksum |
| `Cmd_Download_f`, `Cmd_NextDownload_f` | one block of the file, and `SV_CompleteDownoload`, which stuffs `changing` and `reconnect` for a client that missed a level change |
| `ServerSend` | `SV_SendClientMessages` with one back buffer |
| `ChangeLevel`, `Broadcast` | `SV_Map`, which tells all clients to `reconnect` (with `changing` before it under SERVERONLY only, which no build defines); a text of `SV_UpdateToReliableMessages` |
| `ClientReceive`, `ParseStufftext`, `ParseServerData`, `ParseSoundlist`, `ParseModellist`, `ParseDownload` | `CL_ParseServerMessage`, a message at a time |
| `ForwardToServer`, `Skins`, `MakeActive` | the stuffed commands `cmd ...` and `skins`, and the first entities |
| `Reconnect_f` | `CL_Reconnect_f`: nothing while a download file is open, `new` while only connected, otherwise `Host_EndGame` (`EndGame`) |
| `ChangingReconnect` | `CL_Changing_f` and `CL_Reconnect_f`, stuffed together |
| `DirectConnect` | `CL_BeginServerConnect` until S2C_CONNECTION: a new slot, and `new` |
| `VidRestart` | `vid_restart` runs `Skin_Skins_f` |
| `ClientSend` | the client's message leaves with a packet |

`ParseServerData` throws away what the client has written and not sent yet
(`SZ_Clear` in `CL_ClearState`, `cl_main.c:1390`). A client that is told to reconnect in
the game disconnects: the slot it leaves is `left`, its three drop packets and the
zombie they make are `Connect`'s business, and so are the challenge and the request of
the new connection, which `DirectConnect` makes one step. It is assumed that no packet of the
old session outlives that exchange (section 5, `NoStalePackets`, is what happens
otherwise). Through a proxy, or with the port ping probe, the code puts a `connect` in
the command buffer instead, to the same effect. What the last packet of the old session
stuffed is still executed (`stuffed`, `cIn`), without a connection: `died` is where that
makes `SZ_GetSpace` end the program.

### ChunkedDownload

| Action | Code |
|---|---|
| `SendRequests`, `SendNothing` | `CL_SendCmd` with `CL_SendChunkDownloadReq`: up to `cl_chunksperframe` blocks, round the ring |
| `EndDownload` | no block is missing: the server is told, `CL_FinishDownload`, and the next file. A server whose `*version` says MVDSV is told `nextdl -1`; any other, and this repository's, which announces EZQUAKE, `stopdownload`, which it answers (`Ending`) |
| `CL_Download`, `StopDownload` | the user's commands |
| `ParseStart`, `ParseDatagram`, `ParseOob` | `CL_ParseChunkedDownload` for the start or refusal, the block in a datagram, the block out of band (`CL_Parse_OOB_ChunkedDownload`) |
| `ServerReceive` | `SV_ExecuteClientMessage`: `Cmd_Download_f`, `Cmd_StopDownload_f`, `nextdl`, then `SV_NextChunkedDownload` for each request |
| `ServerSend` | the answer, with the datagram |
| `Lose` | a request or block is lost; a repetition is part of `ParseOob` |

### MvdRecording

`demo` is `demo_t` with its destinations. What happens in the game is a number
(`events`); a frame of the ring collects them. A destination remembers what it
was given (`wrote`) and how much of it is out (`sent`), so that its cache is the
rest. In each step a disk or a peer may fail (`bad`) and a stream takes nothing
or everything (`sends`).

| Action | Code |
|---|---|
| `Emit`, `EmitFails` | `MVDWrite_Begin` and a write, which fits or overflows the frame; or the begin fails, which ends the recording (`SV_MVDStop(4)`) |
| `RecordFile`, `StopFiles`, `CancelFiles` | the commands `record`, `stop`, `cancel` |
| `CloseStreams` | `SV_MVDCloseStreams` |
| `MapChange` | `SV_Map` and `SV_SpawnServer`: files are closed, streams get the state of the new level |
| `SendDemoMessage` | `SV_SendDemoMessage`: pending connections, `DestFlush`, the update of the frame, the frame `Lag` behind is written, the next one begins |

### DemoPlayback

A file is a sequence of messages: the time since the one before and what it does
to the playback. `cls` has the fields of `cls`, `cl` and the statics of
`cl_demo.c` under their names. Times are whole; the tolerance of a millisecond
in `CL_PeekDemoTime` has no counterpart.

| Action | Code |
|---|---|
| `Frame` | the clock of `CL_Frame`, at any `cl_demospeed`, stopped for a frame by `host_skipframe` |
| `CL_Pause_f`, `ReadPaused` | the user's pause, and `CL_GetDemoMessage` during it |
| `CL_Demo_Jump_f`, `CL_Demo_Jump_Mark` | `CL_Demo_Jump` to any time or to the next mark, between the clock and the reading |
| `Read` | one turn of `CL_ReadPackets`: `CL_Demo_Check_For_Rewind`, the peek, the end of a seek, `CL_DemoShouldWeReadNextMessage`, the message and `CL_ParseServerMessage` |

A demo begins with the `demopackettime` the one before it left (one of `LeftTimes`), as
`CL_DemoPlaybackInit` resets everything but that; only a rewind sets it to 0.

`asked`, `clean` and `kept` are history: the time the jump named, that none of the
cases of section 5 in which a jump is known to go elsewhere, or the time of an MVD to
drift (`Drifts`), has come up, and the time the file was last begun with. `Time(i)` is what
the file says of message i: the sum of the times since the ones before, counted from
`kept`, and from the server's clock after an `svc_serverdata` when that is later.

### Serverinfo

Each step is what a thread does between two points at which another can get in.

| Action | Code |
|---|---|
| `Open`, `Change`, `Stop` | `Serverinfo_Start` (a new semaphore, a new thread), `Serverinfo_Change`, `Serverinfo_Stop` |
| `DrawStatus` to `PanelDrawn` | `SB_Servers_Draw` and `Serverinfo_Draw` with their waits |
| `UpdaterStep` | `AutoupdateProc`: sleep, look, wait for the semaphore, `GetServerInfo`, parse, post |
| `RefreshAnswer`, `RefreshParsed` | `GetServerInfosProc` in the thread of a refresh |

## 3. Runs

| Run | Config | Question | States |
|---|---|---|---|
| `netchan` | `Netchan.cfg` | Does the channel keep its promises, and is the invariant of the proofs true? | 2.1 M |
| `server_reliable` | `ServerReliable.cfg` | Do back buffers keep the stream in order, is a client that lost a block dropped in time, does `SZ_GetSpace` never fail, does a saved block arrive? | 598 k |
| `delta_entities` | `DeltaEntities.cfg` | Does the client apply each delta to the frame it was encoded from? | 1.9 M |
| `connect` | `Connect.cfg` | Does a client ever hold two slots, or two sessions? | 1.3 M |
| `delayed_packets` | `DelayedPackets.cfg` | Do the lists stay apart, and are packets run in order and in the end? | 275 k |
| `user_cmds` | `UserCmds.cfg` | Does each move run once, whatever is lost or skipped? | 1.1 M |
| `signon` | `Signon.cfg` | Is a spawned client complete, and does sign-on end? | 357 k |
| `chunked` | `ChunkedDownload.cfg` | Are saved files whole and do all arrive? | 603 k |
| `mvd_recording` | `MvdRecording.cfg` | Does every destination get everything once and in order? | 890 k |
| `demo_playback` | `DemoPlayback.cfg` | Is playback on time, and do jumps land and end? | 90 k |
| `serverinfo` | `Serverinfo.cfg` | Is nothing drawn while it is replaced, and does nobody wait for ever? | 16 k |
| `server_zombie` | `ServerZombie.cfg` | Does a dropped client stay dropped (`sv_main.c:411`)? | violated |

The first eleven runs find their properties to hold. In the last one TLC finds
the counterexample: `Cmd_Begin_f` (`sv_user.c:954`) lets a zombie's `begin` through,
because the test in `SV_ExecuteClientMessage` is commented out (`sv_user.c:4366`).

### Properties

The type invariant of each module (`TypeOK`, `PlayTypeOK`, `PanelTypeOK`) is the first conjunct of one of its other
invariants (`IInv`, `NoSysError`, `RightFrame`, `OneSlot`, `ListsApart`,
`ImpulseBackedUp`, `SpawnedComplete`, `RingIsDisk`, `NothingLost`, `PlaysOnTime`,
`DrawsWhole`).

- `ExactlyOnce`: at any moment the kept history of a side is what the other
  side has parsed, followed by the reliable message in flight, followed by what
  waits. `BothReliable` says the same from outside: each direction implements
  `ReliableStream`, which knows no packets.
- `NoNeedlessResend`: the rule of the comment at the head of `net_chan.c`.
- `PacketInv`: the server sets its numbers by hand from those of the client; this
  never reuses one, and its packets carry the number of the packet they answer. The
  unasked packet that drops an overflowed client is the exception.
- `StreamIntact`: with no overflow, what is received, in flight, in the message
  and in the back buffers is in order, and is all of the stream but what a signon command
  has thrown away. `PrefixUntilDropped`: after an overflow, what the client gets before its
  `svc_disconnect` is in order and has nothing behind a block that was lost, unless a signon
  command has forgotten the overflow (`OverflowDropsClient` in section 5).
- `NoSysError`: no write ends the server, even in a back buffer that has lost
  `allowoverflow` when it was moved up, but for a block larger than the buffer. `SavedIsSent`:
  a block in a back buffer is received in the end, unless the client goes away, a signon
  command throws it away, or a back buffer full to the last byte stands before it (`Stalled`).
- `RightFrame`: what the client shows is the snapshot taken under that number,
  though both rings are overwritten between asking, encoding and decoding, and the
  warning "from mismatch" of `cl_ents.c:671` is never due. `FeedsSnapshots`:
  `DeltaEntities` implements `SnapshotFeed`.
- `OneSlot`, `SameSession`: repeated, late and lost connect packets give a client
  neither two slots, nor a session that is still to come nor, with `sv_reconnectlimit`
  above a round trip (`RoundTrip`), one it does not know of.
- `ListsApart`: no `packet_t` is in two lists and `last_packet` is the end of its own.
  `FirstInFirstOut`: the pointers implement `DelayLine`; a packet that may run at once
  never overtakes one held back. `HeldIsRun`: what is held back is run in the end, over any
  pause (it says nothing of what waits at the socket while the pool is empty).
- `OnceEach`, `TwoLossesRecovered`, `EveryMoveSent`, `ImpulseBackedUp`: no move is run
  from packets twice; one that is passed over was in no packet that arrived outside a
  pause; skipping leaves one of three packets, and as many with an impulse as are
  wanted. `NotFaster`: replays never give a player more moves than he made.
- `SpawnedComplete`, `NeverFails`, `NeverDropped`, `DoneWithSounds`, `SignonFinishes`:
  a client in the game has all of its level; lists are not reset under a client that
  loads them, nor is it told to write to a connection it has left; answers neither overflow
  the message nor lose the checksum nor end a list early; sign-on ends on the server's level,
  with the client in the game and all of it loaded. Each says which of the cases of
  section 5 it leaves out.
- `RingIsDisk`, `SavedWhole`, `OobRight`, `AllSaved`: the ring of flags tells the truth
  about the file; a file gets its name only when it is whole; blocks out of band are of the file
  that is open; all files arrive. The last two are for servers that are told `nextdl -1`, and for
  those that answer `stopdownload` as far as no file is given away by it (`OneAtATime`).
- `NothingLost`, `ClosedWhole`: a destination has, with what waits in the ring, every event
  since it joined, once and in order; a file closed by a stop is on disk up to that stop.
  `RecordingHasDest`: recording goes on exactly while there is a destination.
  `DeltaChain`, `FileMarks`: an update refers to the update before it in the same file,
  and marks add up.
- `PlaysOnTime`: after a frame, all messages up to the clock have been read and none
  beyond it but those an MVD interpolates towards; its part `KeepsTime`: the time a message
  of an MVD is given is the file's, counted from the time it was begun with (section 5 has the
  exception, and how that time differs from the server's). `SeekLands`: a seek ends at the
  time that was named, also through a rewind. `SeekEnds`: in a file that is whole every seek
  ends, when the user does not keep it paused.
- `DrawsWhole`: until the panel is opened a second time, nothing is drawn while its updater
  replaces it. `AllEnd`: a panel that stays closed has no updater in the end, and a frame that
  has begun is drawn.

### Bounds

All counters are bounded in the guards; the systems stop at the bounds (or at a free
slot, the end of a file, a client in the game), which is why the configs turn the
deadlock check off.

- `Netchan.cfg`: messages of one block, one write by the client and two by the
  server, packet numbers below 5. The first packet of a channel (number 0) is
  always stale, so a first message is already sent twice; five numbers leave room
  for a copy, its retransmission, an acknowledgement of either parity and a late
  packet of each kind, in both directions at once. The proofs need none of these bounds.
- `ServerReliable.cfg`: room for three units, blocks announced with one, three and four
  units, of which as many or fewer are written, two back buffers and four writes (which include
  revived zombies): message and both back buffers can fill and one more block overflow, a
  back buffer can be filled to the last unit, and a block can be larger than any buffer.
- `DeltaEntities.cfg`: rings of four frames (the code has 64) and client packets 1
  to 7, so that a frame is reused, both by the packet after the request and by the
  answer, and the three tests on age meet their limits from both sides; the margin the
  code leaves is three frames wide, and seven packets are enough to break a test that
  is off by that much.
- `Connect.cfg`: two clients, two slots, packets that live one tick, three of them at a
  time, times up to 6 with a zombie time of 2 and a timeout of 4: a timed out or dropped
  client can come back while packets of its first session are under way. `SameSession`
  needs a timeout above two lifetimes, as the code has.
- `DelayedPackets.cfg`: a pool of two for three packets of one client and one of another,
  so that it runs empty, and delays of up to two frames that change with each packet.
- `UserCmds.cfg`: seven moves; losses of up to four are made up for (20 in the code): longer
  losses, replays, backups and pauses occur in one behaviour. The proofs need none of
  these bounds.
- `Signon.cfg`: four sounds and five models with bytes that count to three, so that each
  list takes several chunks and a chunk ends at a multiple; two levels, one text, one
  missing file and one restart of the video. The proofs need none of these bounds.
- `ChunkedDownload.cfg`: files of 1, 3 and 1 blocks, the first refused, either kind of server, a ring of two
  flags, so that the window moves twice; two requests per packet, two blocks out of band under way, so that
  they overtake each other and the datagram, two losses or repetitions - or one command of the user, with one
  block out of band (`OobRoom`).
- `MvdRecording.cfg`: a file and a stream, a ring of three with a lag of one, which wraps
  in the frames of a level (times 3 to 6), frames with room for two items, three
  events or, with one fault, two (`BoundLeaves`).
- `DemoPlayback.cfg`: four files of seven messages, each as QWD and MVD, begun with the time 0 of a
  first demo or with 5, which is later than the clock of the server (3), a clock up to 11 - past
  the end of each file -, two jumps and any number of pauses. The proof of `PlaysOnTime` needs
  none of these bounds.
- `Serverinfo.cfg`: two servers, the panel opened twice.

### Fairness

- `LiveSpec` of `ServerReliable` is weakly fair to the transmitting and the
  dropping branch of `SV_SendClientMessages` and to `Acknowledge`. The code
  justifies it as long as the server runs its frames, the client keeps sending
  packets (`send_message`), the channel is not choked for ever (`cleartime` only
  grows with what is sent) and the network lets packets through now and then; a
  client for which that fails is timed out by `SV_CheckTimeouts`, and the property
  lets it go. Writes, commands and drops are never forced.
- `DelayedPackets`: the server runs its frames (`WF_vars(Server)`).
- `Signon`: both programs run their frames (`WF` of `ServerStep` and `ClientStep`).
- `ChunkedDownload`: both programs run their frames and packets arrive; strong fairness on the
  packets that carry a reliable part, which wait for a packet whose part before it has
  arrived.
- `DemoPlayback`: frames follow each other and a frame reads to its end (`Frame`, `Read`,
  `ReadPaused`). Nothing makes the user go on after a pause: `SeekEnds` supposes that he does.
- `Serverinfo`: threads run; strong fairness where the main thread waits for the semaphore,
  as an updater sleeps a second between two takes of it, and polls every 5 ms.

## 4. Proofs

`tlapm` checks every leaf. The theorems hold for every value of the constants that the
named assumptions of the modules allow (a message has room for at least one block, a ring
for more than one frame, sets of clients and threads are finite, bounds are natural
numbers), and so for none of the bounds of section 3. Two theorems have a hypothesis of
their own, stated with them (`RoomForTexts`); what others leave out is said in the property. Type correctness is part of each inductive invariant.

| Module | Theorems | Properties |
|---|---|---|
| `NetchanProofs` | `Invariant`, `TypeCorrect`, `ExactlyOnceDelivery`, `Retransmission`, `PacketInvariant`, `ChannelRefines` | `IInv`, `ExactlyOnce`, `NoNeedlessResend`, `PacketInv`, `BothReliable` |
| `ServerReliableProofs` | `ServerLivesOn`, `StreamKept`, `PrefixKept` | `NoSysError`, `StreamIntact`, `PrefixUntilDropped` |
| `DeltaEntitiesProofs` | `ShowsRightFrame`, `DeltasFeedSnapshots` | `RightFrame`, `FeedsSnapshots` |
| `ClientProofs` | `OneSlotEach`, `SessionsAgree`; `SemaphoreGuards`; `TypeCorrect`, `MovesRunOnce`, `LossesRecovered`, `SkippingKeepsMoves`, `NoMoreThanMade`, `ImpulsesBackedUp` | `OneSlot`, `SameSession`; `DrawsWhole`; `OnceEach`, `TwoLossesRecovered`, `EveryMoveSent`, `NotFaster`, `ImpulseBackedUp` |
| `SignonProofs` | `SignonInductive`, `SignonSpawned`, `SignonNeverFails`, `SignonNeverDropped`, `SignonDoneWithSounds` | `SpawnedComplete`, `NeverFails`, `NeverDropped`, `DoneWithSounds` |
| `DelayedPacketsProofs` | `Invariance`, `ListsStayApart`, `RunInOrder` | `ListsApart`, `FirstInFirstOut` |
| `ChunkedDownloadProofs` | `FlagsTellDisk`, `OnlyWholeSaved`, `OobOfThisFile` | `RingIsDisk`, `SavedWhole`, `OobRight` |
| `DemoProofs` | `RecordingInv`, `TypeCorrect`, `NothingIsLost`, `ClosedIsWhole`, `RecordsForSomeone`, `UpdatesChain`, `MarksSayTime`; `PlaybackInductive`, `PlaysWhatIsDue`, `TimesAreCounted` | `NothingLost`, `ClosedWhole`, `RecordingHasDest`, `DeltaChain`, `FileMarks`; `PlaysOnTime`, `KeepsTime` |

**The channel.** `ExactlyOnce` is not inductive: it says nothing of old packets still
under way. `IInv` adds what must be true of them, for each direction:

- *Numbering*: nothing was seen or acknowledged that was not sent.
- *Buffering*: the transmit buffer is whole, and full while its content has not
  arrived.
- *OneCopy*: of all copies of a reliable message at most one can still be
  accepted: the last one, with the content of the buffer. This is where the rule
  of retransmission counts: a second copy is sent only after a packet newer
  than the first was taken, which makes the first stale.
- *Acknowledgements*: in packets that can still be taken, a positive parity is
  true, and so is a negative one given after the last copy.
- *Persistent*: a later packet never takes a positive acknowledgement back.

`NetchanProofs` proves that `Init` establishes `IInv` and that every action
preserves it, one lemma per action or group of actions, each split by the parts
of the invariant. `Retransmission` uses *Acknowledgements* on the step itself.
Each step maps to a step of `ReliableStream` or a stutter: a
write appends after the kept prefix, a clear revokes, and taking a packet extends
`delivered` to a longer prefix of `written`, which is what `ExactlyOnce` says before
and after; `ChannelRefines` is both directions. Packet numbers have an invariant of
their own, `PacketInv`: the server is level with the last packet taken while it owes
an answer.

**The stream of a client.** The invariant has to survive an overflow. `Good` says which
buffers can be in trouble: the message may always overflow, a back buffer is never
filled beyond its size, and only the message holds a `svc_disconnect`.
`Keeps` (with `Sound`) says what is still promised in each case, of a ledger of what was
written, thrown away and forgotten: with nothing wrong, what was received, is in flight, in
the message and in the back buffers is in order and all of the stream that was not thrown away
(`Complete`); with a disconnect in the message, what precedes it is in order and has nothing
behind a block that is due and missing (`Closed`); with an overflow, at least what the client
has been sent is `Closed`, up to a disconnect. Nothing is said once an overflow or a
disconnect was `forgotten`. `StreamKept` and `PrefixKept` read the properties off it. `ServerLivesOn` has no
hypothesis on sizes: `SZ_GetSpace` ends the server only over a block that is larger than its
buffer. Such a block exists: the reliable_datagram has room for `MAX_MSGLEN` (1450 bytes) and is
appended whole (`sv_send.c:1051`), the message of a client with a small mtu or none takes less
(`net_chan.c:230`; 1350 or more with `MIN_MTU` of `q_shared.h:340`). The concatenation of
any number of back buffers is handled by an induction on their number (`UpTo`).

**Deltas.** `IInv` gives the ages the two rings allow: a request asks for a snapshot the
client received and that is less than `UPDATE_BACKUP` older than the request; as long as
the request is less than a ring old the client remembers what it asked for, and still has
that snapshot; and an answer is a delta from the snapshot its request asked for, which the
server had when it encoded it. Every test on an age in `CL_ParsePacketEntities`,
`SV_WriteEntitiesToClient` and `CL_SendCmd` is used in one of its steps.

**Sessions.** `OneSlot` is inductive: a client that asks for a slot is looked
up in all of them first. `SameSession` needs what is known of every packet under way:
`Timely` - none is older than `Lifetime` -, `Opened` - the session an S2C_CONNECTION
speaks of still has its slot, which has heard of its client no earlier than that packet -,
and `LeftOver` - a connect packet that arrives late at the slot of a connected client is
at most one lifetime older than the session, which is too soon for a reconnect. These hold
under `RoundTrip` - two lifetimes of a packet are shorter than `sv_reconnectlimit` and no longer
than `timeout` and `zombietime` -, and with them client and slot are in one session.
`SessionsAgree` has no hypothesis: `RoundTrip` is a condition in `SameSession`, and what that
says without it, that no client is in a later session than its slot, follows from another
invariant (`Numbered`: nor is any S2C_CONNECTION under way). A server as it comes, whose
`sv_reconnectlimit` is 0, has only that; `timeout` and `zombietime` are 65 s and 2 s by default.

**Delayed packets.** `ListsOK` describes the pointers: each list is a chain without a cycle
that ends at its `last_packet`, and no two lists, nor a list and the pool, have a node in
common. It is proved of `ListIn`, the recursive function that walks a chain, for the four
ways the loops change one (take from the head, append at the end, free, take from the
pool). `InOrder` puts the last packet run, those held and those in the socket in
increasing order; `Aged` bounds the times at which the held ones are due; `Prompt` says
that while packets of a live client are held, its delay is not zero, so that a new packet
cannot run at once and overtake them. With these each step is a step of `DelayLine` or
a stutter (`RunInOrder`).

**Moves.** `OnceEach`, `TwoLossesRecovered` and `EveryMoveSent` are proved together, by
`SafetyInv`: types, the server's bookkeeping - a move beyond the last packet taken was
never run, and that packet was accepted -, and the client's - the last `dropcount` packets
were skipped and the one before them sent. `NotFaster` compares two sums; they are
counted as the cardinality of a set of pairs, which a packet makes larger by no more than
the numbers it passes. `ImpulseInv` says of each move with an impulse which of the packets
that carry it have not been skipped.

**Downloads.** `WholeInv` needs, besides the types, that the flags and the first block of
the window tell which blocks are on the disk. The step is `WindowMoves`: a block sets one flag, the
first block goes on to the next unflagged one or by a whole ring, the flags it passes are cleared,
and as `Slot` is one-to-one on a window no other flag is read as that of another block. The first of the window is
never flagged, so when no block of the window is missing, none of the file is
(`CompleteIsWhole`), and only then does the file get its name. `OobRight` also needs who
waits for what while the user does nothing and one file at a time is asked for (`OneAtATime`;
section 5 has what happens otherwise). `Order` has four parts. `Phases`: a download is
asked for, answered, loaded or at its end, the end of one that an EZQUAKE server answers being a
phase of its own, and one reliable message is under way for all of both directions. `Requests`:
none for blocks is sent with it or after it, so all under way carry the current number, and
the server still has that file open or none. So the blocks under way with that number are of
that file (`Oobs`), and those that were taken (`Rights`). One assumption is made about the constants: the client lacks at least one file, or it would not
have asked.

**The panel.** `DrawsWhole` follows from an invariant on the semaphore: its count, the
thread in the drawing code and the updaters between `sem_wait` and `sem_post` are together
no more than the openings of the panel. So with one opening there is one at a time, however
many servers are refreshed. The property ends with the second opening, the invariant does
not: that two openings let two in is the first of the rows on the panel in section 5.

**The sign-on.** What was said to the client and it has not acted on stands in five sequences
one behind the other - `stuffed`, `cIn`, `toClient`, `msg`, `back` -, what it asked for in
three. A packet that is sent or received only moves along them, so `SignonInv`, in the module
`SignonInvariant`, is a statement about which messages may follow each other there (`Follow`),
made of parts that hold under more and more conditions. All but the first two are about a client
that is not between two connections (`Away`):

- *SignonTypes*: always. Besides types, each list under way is a chunk of its list and the
  byte after it says where it goes on, modulo `ByteValues`.
- *Left*: nothing is under way for a client that has left the game to connect anew, but the
  rest of the packet that sent it away - no further than a serverdata, at which it dies
  (section 5) -, and not even that when nothing disturbed the sign-on. So its new slot
  (`Connecting`) finds what `SignonInit` establishes, except for levels, texts and restarts, and
  the other parts begin again.
- *Order*, where no download crosses a restart of the video or a level change in the middle
  (`Regular`): levels only grow, behind a serverdata comes at most the beginning of its
  level's list of sounds, and behind lists or requests to go on no serverdata of the same
  level. A client that got past that beginning has neither a request under way that would
  start it over nor a serverdata (`Together`), which is why nothing is reset under it. At a
  serverdata the client forgets the requests it has not sent; what is left is what it then
  asks (`AsksOnly`).
- *Claims*, with it: an answer comes to a client that holds what it needs, from before or from
  lists ahead of it (`Covered`) - a chunk the ones before it, a `prespawn` the models, `skins`
  the whole world and the players -, and a request is made by one that holds what it says. So
  `begin` is asked for with everything, though `Cmd_Begin_f` looks at the level only: this is
  `SpawnedComplete`. A list is loaded with each of its models there: this is `NeverFails`.
- *Single*, when nothing disturbs at all: one message that is neither text nor data is under
  way, counting both directions.
- *Sizes*, with few texts (`Quiet`): so a message holds at most the texts, one answer and the
  lists before it, and the answer to come fits; no chunk is empty, and the byte after a chunk
  of sounds is 0 at the end of the list only. Away or not, the server has then dropped nobody.

`MCSignon` extends `SignonInvariant`: TLC finds `SignonInv` true in every state of the run
`signon` when it is put into the invariants of `Signon.cfg`.

`NeverDropped` and `DoneWithSounds` have the hypothesis `RoomForTexts`: a message has six
units or more, and two beside a signon buffer. The unit is a sixth of a message, about 240
bytes. `SV_FlushSignon`, called after each entity of a level, closes a buffer when fewer than
512 bytes of it are left, so the code has this room, less the few bytes the last entity wrote
(an ambient sound has ten); a text that is printed is much shorter than a unit as a rule. The
instance TLC runs has exactly as much room. The other two need no hypothesis. Sizes and chunks
(`Size`, a recursive function) are followed by inductions over the length of a message.

**The recording.** One invariant carries all five properties. It is a predicate of a
recording and not of the state, as the steps are built from functions on `demo` that each
keep a part of it, and a frame of the server passes through five of them. `Sound` holds
between any two: types, `Kept` - what a destination's cache, file and fate say of each
other - and that what it was ever given is in order, chained and, in a file, marked
(`Written`). `Ringing` is about the ring, up to which frame has its update: the frames between `lastwritten` and
`parsecount` hold their events in order, those before the current one have their update, all
others are empty, and while nothing has overflowed no event is missing between them
(`RingInv`); what a destination was given comes before all that waits, together they cover
every event since its state (`Follows`), and its last update is the frame before
`lastwritten` (`LastUpdate`), so that the next one written continues the chain. `Timely`
says the last mark of a file was taken from `demo.prevtime`: here files and streams differ,
as a stop leaves the streams with a `prevtime` that goes back and closes the files at once.
`Closed` is `ClosedWhole` for a set of stops.

The ring is what makes it work: a frame has a place of its own as long as fewer
than `Ring` are ahead (`SlotsDiffer`), and `Lag + 1 < Ring` (6 and 64 in the code) keeps it so, because `SendFrame` writes a frame
whenever it begins one more than `Lag` behind (`TrailKeeps`, `NextFrameKeeps`). Writing `n`
frames appends to each destination that takes part items `lastwritten`
to `lastwritten + n - 1` (`Fed`), and to one that fails a prefix of them, after which it is
given nothing more. A stop writes all that is ahead, so nothing is pending when it closes
the files (`PackedAll`) and the covered events reach up to its disconnect.

**The playback.** The files are any sequences of messages, so what `Time` computes has to be
known for all of them: `TimesOfDefined` shows that the recursive function is what its
definition says, by induction over its domain, and `TimesGrow` that the times never fall.
`PlaysOnTime` says nothing of the states in between, where the clock has been set by a jump
and most of the file lies between it and what was read. `PlaybackInv` does, for playbacks
that are `clean`:

- *FileTime*: an MVD has `demopackettime` or `nextdemotime` at what the next message is
  counted from, beginning with the time that was `kept`, and the other one not beyond - or a seek has jumped back from a mark
  (`Peeking`), which is the case a user's jump would turn into a drift (`AlwaysKeepsTime`
  in section 5). `KeptTime` is what `KeepsTime` says.
- *SeekTime*: without a seek all that was read has been shown (`Shown`). With one, either
  that still holds at the time named, or the next read sees the time behind
  `nextdemotime` and starts over; and in a rewind all that was read comes before the time
  it goes to (`Early`).
- *FoundMark*: when the mark is found the clock is past `nextdemotime` and nothing past that
  was read, so the jump back starts over exactly if it has to.
- *Waits*: a frame that ends leaves the next message ahead of the clock, unless the user has
  paused it. During a pause nothing is being read, and the other parts wait with it.

`Read` is followed in the order of `CL_GetDemoMessage`, with a predicate between any two of its
decisions: `Unbent` after `CL_Demo_Check_For_Rewind`, `Ready` after the adjustment, `OnTarget` after the
peek and the goal, `Taken` before the message is parsed. The types are proved whether
`clean` or not.

Inductions over numbers and finite sets (a smallest number, a maximal client, the length of
a chain, the messages of a file) are made by hand, from the well-foundedness of finite sets in
the library: `LeastNumber` in `DemoProofs` derives the least element of a set of numbers from it,
without a theorem that takes an operator.

Left to TLC:

- liveness (`SavedIsSent`, `HeldIsRun`, `SignonFinishes`, `AllSaved`, `SeekEnds`,
  `AllEnd`): the prover has no support for fairness and ENABLED;
- `SeekLands`, which is not true of every file: a QWD that pauses before its first
  entities, for one, is warped through after the rewind (section 5 has the rule);
- that the definitions of section 5 fail.

## 5. Where the code does something else

Met while modelling. Each is a definition of the module that does not hold, or an
exception a property names. To see the counterexample, put the definition into the
config named; unless it says otherwise as an INVARIANT.

| Definition | Where | What happens |
|---|---|---|
| `DroppedForGood`, run `server_zombie` | `sv_user.c:954` | a `begin` that arrives after `SV_DropClient` spawns the zombie |
| `FatalErrorIsFinal` (`Netchan.cfg`, PROPERTY) | `net_chan.c:290` | `fatal_error` is raised on overflow and read nowhere; after the `SZ_Clear` of `CL_ClearState` (`cl_main.c:1390`) the client's channel goes on, its message lost |
| `SavedIsSent` without `Stalled` | `sv_send.c:1120` | a back buffer filled to exactly `maxsize` never moves, and all that is written later waits behind it |
| `NoSysError` without `sys_error > MaxSize` | `sv_send.c:1051` | a reliable_datagram that is larger than the message of a client with a small mtu, or none, ends the server (`Sys_Error`, `q_shared.c:859`) |
| `OverflowDropsClient` (`ServerReliable.cfg`, PROPERTY) | `sv_user.c:848` | `Cmd_Spawn_f`'s `SZ_Clear` resets the overflow flag and keeps the back buffers: a client whose back buffers ran out goes on with a block missing. `StreamIntact` and `PrefixUntilDropped` claim nothing from there on (`forgotten`) |
| `NoStalePackets` (`Connect.cfg` with one client, `sv_reconnectlimit = 0`, `MaxSeq = 2`, `MaxNet = 5`, `MaxTime = 4`) | `cl_main.c:765` | `cls.qport++` after a connection is undone by `CL_SendConnectPacket`, which takes the cvar again: a late packet of the old connection, a drop among them, is taken by the new channel |
| `SV_ClientConnectedTime` in `Connect` | `sv_main.c` | 0 until the first `new`: with `sv_reconnectlimit` set a client whose S2C_CONNECTION was lost is turned away until its slot times out |
| `PoolConserved` (`DelayedPackets.cfg`) | `sv_main.c:1361` | `SVC_DirectConnect` clears `cl->packets` without returning them to the pool; `SV_FreeDelayedPackets`, which would, is called nowhere. Once the pool is empty `SV_ReadPackets` leaves its loop at each packet to be held back |
| `NoActionTwice` (`UserCmds.cfg`) | `sv_user.c:4636` | only the buttons of `lastcmd` are cleared: its impulse is given again for every lost move, up to 17 times |
| `DoneWithSounds` without `Calm` (`Signon.cfg` with `MaxPrints = 3`, `MaxLevel = 1`, no downloads or restarts) | `sv_user.c:530` | a first chunk without any room says "no more" with byte 0; the client plays without sounds |
| `NeverDropped` without `Calm` (the same) | `sv_user.c:790`, `807` | signon buffers are written behind what is already in the message, which then overflows; and with no room at all the server sends the client back to `prespawn <level> 0` without the checksum and drops it |
| `SpawnedComplete` without `NoRestart` | `skin.c:448` | `vid_restart`, `allskins` and a full skin cache run `Skin_Skins_f`, which sends `begin` in the middle of the lists |
| `SpawnedComplete` without `midway => ...` | `cl_main.c:1556` | a reconnect between the request for a skin and its first block leaves `cls.downloadtype`; at its end `begin` is sent for the new level |
| `SignonFinishes` without its exception | `sv_user.c:848`, `cl_main.c:1390` | a download begun by a video restart loses its last block, cleared with the message by `Cmd_Spawn_f`, or its next request, cleared by `CL_ClearState` when a second sign-on begins; `cls.download` stays open and later reconnects are ignored for ever |
| `NeverFails` without its exception for `died` | `cl_main.c:1491` | a client in the game that is told `reconnect` disconnects, which zeroes its channel. When the rest of the packet has a serverdata, or the `changing` and `reconnect` of `sv_user.c:1116`, it writes to that channel, and `SZ_GetSpace` (`q_shared.c:852`) ends the program |
| `RightData` (`ChunkedDownload.cfg`) | `sv_user.c:1173` | the block in the datagram has no download number: it may leave in one packet with the start of the next file, which is read first |
| `OobRight`, `AllSaved` without `OneAtATime`, `NoHostError` | `cl_parse.c:856` | a server that announces EZQUAKE answers `stopdownload`, and the client has asked for the next file in the same packet: with two more files to fetch (`Three` with nothing `Denied`) the answer is taken for the refusal of the first of them, which then starts when the other has been asked for. `RingIsDisk` and `SavedWhole` hold all the same |
| `NoHostError` (`ChunkedDownload.cfg`) | `cl_cmd.c:684` | `download` while one is under way ends in one of the two `Host_Error` of `cl_parse.c` |
| `RightName` (`ChunkedDownload.cfg`) | `cl_parse.c:944` | a `stopdl` that crosses the end of a file is answered by what looks like the refusal of the next one, which is then saved under the name of the one after it |
| `StreamMarks` (`MvdRecording.cfg`) | `sv_demo.c:976` | a stop writes the unfinished frame with the time its slot had before: a stream that stays gets wrong marks |
| `FirstIsFull` (`MvdRecording.cfg`) | `sv_demo.c:1169` | a destination that joins a recording gets updates relative to frames it never had |
| `ClosedWhole` without `demo.spilled` | `sv_demo.c:976` | a stop that meets an overflowed frame announces a demo without it and what follows |
| `SingleUpdater` (`Serverinfo.cfg`) | `EX_browser.c:624` | a panel closed and opened within a second has two updaters, and its semaphore lets two in |
| `DrawsNoRefresh` (`Serverinfo.cfg`) | `EX_browser_net.c:401` | the refresh replaces servers without the semaphore the panel draws under |
| `ServersTime` (`DemoPlayback.cfg`) | `cl_demo.c:3733` | `CL_DemoPlaybackInit` leaves `cls.demopackettime` as it was: an MVD begun after one that ended later than its server's clock starts runs ahead of that clock by the difference, until it is rewound |
| `SeekLands` without `clean'` | `cl_demo.c:1934` | a seek forward over a server pause or a new level stops there: warping sets `cls.demotime` |
| the same | `cl_demo.c:5278` | the way back is only measured when the new time is before the clock, but the file is started over when it is before `nextdemotime`: an MVD then rewinds to the `demo_rewindtime` of an earlier jump, or the start. So do two jumps in one frame |
| the same | `cl_main.c:428` | `demostarttime` is that of the last level: a jump back from the second level lands in the first |
| the same | `cl_demo.c:4814` | a QWD jump back by less than a message does not rewind |
| `AlwaysKeepsTime` (`DemoPlayback.cfg`) | `cl_demo.c:2003` | a seek that has found its mark has peeked at the next message and jumped back; a jump forward before the rewind (the mark asked for twice) cancels it, and `demopackettime` becomes the time of the message peeked at, whose time since the last is then counted again: it and all later messages of an MVD are late |
| `SeekEnds` without `WholeFile` | `cl_demo.c:1648` | at the end of a file without its disconnect `pb_ensure` fails for ever, and the seek goes on |
| `Disconnected` in `DemoPlayback` | `cl_parse.c:3771` | the workaround for MVDs of several levels asks for data in the stream buffer, which a file in memory never uses |

Also seen, in code that is not modelled: in `Cbuf_ExecuteEx` a nested execution uses
up the `wait` of the outer one, and `GetServerInfo` does not close its socket when
`sendto` fails.

## 6. What is not modelled

- Unreliable data in packets, latency statistics and the rate estimate: choking is
  a choice of the model (`SV_Choke`, `SV_SendClientMessages_Waits`).
- The 31-bit width of sequence numbers, which lasts for about a year of play.
- `SV_FinalMessage`, the server's last packets when it quits, and
  `SV_SendMessagesToAll`.
- Bots, whose buffers are emptied every frame, and the MVD copy of messages.
- The `dupe` copies of a client packet: they are one element of `net`, which may be
  taken any number of times.
- `Connect`: passwords, bans, the kinds of players a full server counts (a choice),
  rcon and status queries.
- `Signon`: the waits for the real address and for a login, `PlayerCheckPing`, the text of
  VWep, which protocol extensions are agreed on.
- `ChunkedDownload`: faults and commands of the user in one behaviour; blocks of which only a
  part is written.
- `MvdRecording`: items cut in the middle, names and lists, the login of a stream
  (the pending connection) and the users of QTV.
- `DemoPlayback`: jumps to the end or to a status, QTV and its buffer, NQ demos,
  timedemo, playlists, recording on the client.
- `Serverinfo`: sources, pings, the path search, the lists of QTV; a full refresh that
  frees the server of the panel (`Reset_Source`).
- Physics and prediction, drawing, sound, scripts, the virtual machines and the file
  system: floating-point simulation, output, interpreters or I/O, with no protocol of
  their own. The cache of `zone.c` is compiled under SERVERONLY only, which no build
  file defines. The remaining components, with the reason for each, are in
  `PROJECT.json`.

## 7. Plan

1. *Done*: the channel, the reliable queue, deltas, connecting, delayed packets, moves,
   signon, downloads, recording, playback, the panel of the browser.
2. *Done*: the proofs of section 4: every invariant and refinement of the channel, of the
   reliable queue, deltas, connecting, delayed packets, moves, downloads, signon, recording, playback
   and the panel.
3. `CommandBuffer`: `Cbuf_AddText`, `Cbuf_InsertText` and `Cbuf_Execute` with `wait`,
   and re-entrance. QTV: the buffer of a stream and the pending connection.
4. Liveness of `Netchan`: a block that stays written is delivered, when packets are
   taken again and again.
