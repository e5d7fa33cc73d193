# Verification of the sanbot / nc streaming code

TLA+ modules, TLC configurations and TLAPS proofs for the streaming code of this
repository. The repository holds three things: `my_pull/`, a small client that
pulls one or two video streams from a local server; `sab_app/`, an Android
application whose native part opens camera streams and plays them over `nc/`, a
network SDK with drivers for several makes of recorders; and vendored libraries
(FFmpeg twice, libjpeg, a prebuilt x264). The models are about `nc/`, the part
with the concurrency: threads that receive from a device, threads that play,
threads of the application that start and stop them, and a device at the other
end of a connection that breaks.

## The system

| Part | State | Operations | What is hard in it |
|---|---|---|---|
| frame ring, `tool_stream3.c` | pool of bytes, write position (offset and lap), bytes and frames queued, drop flag; the reader's position outside it | set_withDrop, set_noDrop, get_*, initReadPos | reader and writer on two threads, a writer that laps the reader, frames that wrap, counters both sides update |
| worker pool, `tool_tpool.c` | list of works and its length, state, mutex, condition | start, addWork, stop, the worker loop | lost wake-ups, stop against submission |
| qh sessions, `nc_qh.c` 657-831 | 128 slots: is_used, state, type, callback, buffers, two threads | user_start, user_stop | slots reused by concurrent starts and stops, memory and callbacks outliving a session |
| qh playback, `nc_qh.c` 187-253, 499-655, 2429-2525 | request flags under a mutex, start_time, end flag, last_type | a pass of the device thread; setPbsPos, pausePbs, restartPbs, setPbsSpeed | a connection that fails at every step, requests while a pass sends, resuming in the right place |
| qh live view, talk, alarm | the same slot; key frame flag; talk ring | doRts, doTalk, doAlarm, sendTalk, forceRtsKeyFrame | as playback, and a sender that races a stop |
| qh search and configuration | list of found devices with an age | searchDev, getSearch, getCfg, setCfg | merge of answers, ageing |
| sockets, `tool_sock.c` | descriptor, error flag, tick of last use; a global second counter | open, send, recv, poll, close | partial transfers, timeouts, the session's flag that interrupts |
| dispatcher, `nc.c` | none but init state | every nc_* call, routed by protocol | handles of several drivers in one integer |
| HuaYi driver, `nc_hy.c` | a table of devices; per device what is wanted, what the device was told, a login thread, per stream a receiver, a player and a ring | start/stop of live view, playback, talk, alarm; passes of the login thread, logout, the thread that stops idle devices | a call between two passes or in the middle of one, frames of a former playback, a logout that joins threads that wait |
| YuShi driver, `nc_ys.c` | per device a request, an answer and two counters for each kind of request | searches, status, time, outputs; the login thread's side of them | answers to calls that have timed out, requests made while one like them is served |
| XiongMai driver, `nc_xm.c`, with the framing of `tool_ptc.c` | a receive buffer with a rest in it, key frame flag | one receive per readable socket, reconnection | frames cut into messages anywhere, rests overwritten or left lying |
| cloud client, `hdcctv_client.c` | notification thread, relayed sessions, account | start/stop, messages | a second way to a device, with a relay in between |
| application layer, `UvcNative.c`, `playlib.c` | two streams and their decoders | OpenStream, CloseStream, callbacks | close against callback |
| pull client, `my_pull/jni` | two streams, two sockets, a decoder | open, close, PullThread | close from two threads, reuse of entries |

How they interact: `nc_qh_user_start` takes a slot, creates its ring and two
threads. The device thread (`nc_qh_user_run`) logs in and puts what it receives
into the ring, for live view with the writer that drops, for playback with the
writer that waits. The player's thread (`nc_qh_user_run2`) takes frames out and
calls the application's callback. `nc_qh_user_stop` sets `state` to 0, which both
loops, the socket's loops and the waiting writer look at, joins the threads and
frees. The other drivers work by what is wanted: a call notes in the device's
record what should run, and the login thread compares that with what the device
was told, on every pass and, after a logout, from nothing.

## Modules

| Module | Models | Checked by | Proofs |
|---|---|---|---|
| `FrameQueue` | what a ring promises: frames in order, none twice, after admission only the loss of the whole backlog | `stream3_live` | |
| `ToolStream3` | the ring byte by byte, its two writers, the reader, stop | `stream3_live`, `stream3_playback` | `ToolStream3_proofs` |
| `ToolTpool` | the pool, mutex and condition variable included | `tpool` | `ToolTpool_proofs` |
| `NcQhUser` | start and stop over the slot table, the two threads | `qh_user`, `qh_start_return` | `NcQhUser_proofs` |
| `NcQhPbs` | the device thread of a playback, the requests, the network | `pbs` | `NcQhPbs_proofs` |
| `PtcXmFrames` | the reassembly of frames on a live connection of the XiongMai driver | `xm_frames` | `PtcXmFrames_proofs` |
| `NcHyTable` | the device table of the HuaYi driver, every call on it, the thread that stops idle devices | `hy_table`, `hy_table_repeat` | `NcHyTable_proofs` |
| `NcHyDev` | one device of that table: login thread, playback threads, device and network | `hy_dev`, `hy_dev_stuck` | `NcHyDev_proofs` |
| `NcYsReq` | the requests of a YuShi device, from call to answer | `ys_req` | `NcYsReq_proofs` |
| `MCToolStream3`, `MCNcQhPbs`, `MCPtcXmFrames` | the frames, recordings and request values of the runs | | |

The modules fit together by what one assumes and another shows. `NcQhUser` takes
for granted that a pass of the device thread comes back to the test of `state`:
`PlaybackEnds` of `NcQhPbs` and `WriterReleased` of `ToolStream3` show it for the
two places where a pass waits. `NcQhPbs` hands frames to the ring as one step:
`LosslessWhileRunning` shows that the ring of a playback keeps them. `NcHyTable`
takes the stop of a device as one step because it holds `nc->mutex` from end to
end; that it comes back is `StopReturns` of `NcHyDev`. In turn `NcHyDev` is one
slot of the table: its calls are those the table lets through.

Operators whose comment begins with "Faulty:" are not part of a specification.
Each is a plausible mistake in the code, the counterpart of a definition of the
model; exchanged for it, a property has to fail.

### ToolStream3 and FrameQueue

A frame is a record of type and length; an extent in `pool` is a frame with the
offset it was written at, or the mark the writer leaves where it turns to the
front. `Paint` removes the extents a write overlaps, so what is left is exactly
what a reader can still read intact. The positions are offset and lap as in the
code, and the test for a lap (`Overrun`) is the code's difference of 32-bit
numbers, taken modulo `Word`. `OfferWithDrop` (live view) and `OfferNoDrop`,
`RetryNoDrop`, `AbandonNoDrop` (playback) are the writers, `PutState` the state
reports of the device thread, `Get`, `Resync` and `InitReadPos` the reader. Each
action is one critical section of `stream->mutex`. The pacing of `get_withRts` and
`get_withPbs` by time stamps only decides when a reader reads, and is left open:
the reader may read or wait at any time. The waiting writer looks at the flag before
it locks the mutex to look for room, so that `RetryNoDrop` may put its frame in even
after a stop.

`RefinesFrameQueue` maps the ring to the queue of the frames between the reader's
position and the writer's; `BacklogMoves` adds the queue's fairness.

### ToolTpool

`Lock`, `Test`, `Sleep`, `Leave`, `Take` and `Finish` are the steps of
a worker; a signal wakes one sleeper, a sleeper may also wake by itself, as POSIX
allows. `StopFlag` and `StopBroadcast` are apart because the code sets `state`
before it takes the mutex. The pool may be started again after a stop (`LifeBound` lives), since
`tpool_start` initialises it anew.

### NcQhUser

Start is a step per slot the search looks at, with `mutex` held; then the claim,
the fields, the two threads. Stop is a step for each join, for the memory, for the
callback and for `is_used`. The threads test `state`, do a pass, call back, and
leave. Callers stop the sessions they started, once, and not from a callback.

### NcQhPbs

A step is a message or a decision of the pass: `Dial`, `Connect`, `Login`,
`Start`, the heartbeat, for each of the four requests its send and its clear, and
the frame. Each send or receive works or fails; it fails when `state` is 0. The
device is external: it starts at the first frame of the second it is asked for,
obeys in order, and sends nothing while paused. What is in flight either way dies
with the connection. Reports to the application are kept as `last_type`.

### PtcXmFrames

The device's stream is a row of pieces; a message is a stretch of them, cut
anywhere but inside a type word. `RecvRts` is one call of `tool_ptc_xm_recvRts`:
`Restore` moves the rest behind the last frame to the front, `CheckBuf` cuts a
finished frame out or leaves the buffer alone, `RecvBuf` puts the next message
behind what is there. Since a piece is named by its place in the stream, the ring
can be compared with what was sent. When a buffer begins with a type word and
goes on with bytes of another frame, the length read from it may be anything
(`Lengths`). `Break` and `Reconnect` are the driver's logout and login.

A picture or info frame makes `CheckBuf` return 0 although it has cut the frame
out, and the next message is then written over what followed it. `overlaid`
records that this has happened; the properties speak of the runs where it has not.
An empty message overlays nothing, and leaves a complete frame behind an info frame
where it is: `OnlyLastMessageHeld` therefore counts from the last message that
brought anything (`mark`).

### NcHyTable

Every call holds `nc->mutex` from the search for the slot to the return, and so
does a pass of `nc_hy_run`: each is one step. `Open` is a start of any stream with
its search (`Place`, the running device with that address or else the first free
slot), `Close` its stop, by slot and kind alone as the handle has it, `Reap` the
pass that stops what has been idle for 60 s. Each handle is closed once.

### NcHyDev

The application changes `want`. The login thread copies it (`snap`), compares it
with what it has told the device (`act`, `pbs.active`) and sends what is missing,
a message a step (`RtsStop`, `RtsStart`, `PbsStop`, `PbsStart`); after each the
connection may turn out broken, which leads to `Logout` and the two joins. The
playback's receiver takes frames from the socket (`RecvTake`), looks whether they
are wanted (`RecvLook`, the start flag) and waits for room (`RecvPut`); the player
takes them out, looks again and calls back. A live view has the same threads
without the waiting, so of them only the error they report is kept (`RtsError`).

A frame has a second, which is all the threads know it by: `RecvLook` compares it
with the start of the record, as `nc_hy.c:469` does. Frames of different playbacks
may share seconds, as those of adjacent records or of two channels do. The
number of the playback beside it is for the properties only. The device begins at
the record's start or at a key frame before it.

A device may refuse a login with a code other than 0, 1 and 6; `nc_hy_dev_login`
then returns 0 all the same (`nc_hy.c:726-739`, 818-821). `live` becomes "refused":
the device counts as running and stays connected, but no thread has been created, and
what the login thread sends to it starts nothing. `Logout` resets `pbs.active` only
if the threads are there (`pbs.state`, 577-580), so a playback noted as active on
such a connection stays so, and is asked for only after the application has
stopped it. Once the device is stopped its socket takes no message any more
(`Sends`): `dev->state` is the flag the socket looks at.

`past` records what the properties need of the past: a frame of another playback
called back (`mixed`), a playback begun over remains of the one before (`carried`), while
a pass was starting another (`swapped`), or with an old frame of its start second on
its way (`alike`), one marked as active that no device was asked for (`unheard`).

### NcYsReq

`Ask` is a call: it leaves the request and counts it. `Look` compares counts and
copies, `Serve`, `SyncTime`, `SetOutput` and `SetDone` are the exchanges with the
device and what they note; a request is named by the number of its call.
The module is about a slot of the table. `IdleStop` is `nc_ys_run` stopping a device
without streams after 60 s (`nc_ys.c:2659-2661`); `setStatus` does not set the tick this
is measured by. The login thread runs until it finds the device stopped, and the socket
takes no message from then on. A later call starts the device anew, the same one
(`Known`) or one with another address (`Another`). Nothing resets the requests
meanwhile: a setting that was not made stays in the slot, and goes to the device
started there next, the other one included (`stray`).
`searchLogs` is `searchRecords` with other fields and is not repeated.

## Runs

| Run | Question | Instance |
|---|---|---|
| `stream3_live` | is the live ring a queue for a reader at any speed | pool of 10 bytes, heads of 1, frames of 1 or 2: three to five frames, every offset of the wrap and both sides of a lap; no frame is offered after lap 2, so the reader can be lapped twice |
| `stream3_playback` | does the waiting writer lose nothing and always get out | pool of 16 bytes, heads of 1, `DataSize` 4: the writer waits from 8 bytes on, which three frames reach |
| `tpool` | no lost wake-up, no lost work, a stop that returns | 3 workers, 4 works, a list of 2 (so submissions are refused), the pool started twice |
| `qh_user` | sessions stay apart, threads in their memory | 3 callers for 2 slots: one slot is always fought for |
| `qh_start_return` | does a started session return 0, as `nc.h:162` says | 3 callers for 2 slots; a violation |
| `pbs` | requests and positions across broken connections | 3 frames in 2 seconds, 2 requests, 2 failures, a stop at any time |
| `xm_frames` | does the ring get whole frames, in order and at once, however they are cut | 7 frames, one of them before the first key frame and one an info frame; messages of 0 to 9 pieces for a buffer of 8, so some are too long and an empty one may come between any two; 2 connections |
| `hy_table` | is a started stream served until it is stopped | 3 devices for 2 slots, a channel each: slots are reused, and full |
| `hy_table_repeat` | is `NC_ERROR_REPEAT` said of what is open, as `nc.h:65` has it | as above; a violation |
| `hy_dev` | fresh frames, a device that ends up doing what is wanted, a stop that returns | 2 stream types, 3 calls, 1 failure (of the network, or a login refused), 2 seconds, ring and socket of one frame: a second playback, from the same second or another, while the first one's frames are in the socket, the ring or a thread |
| `hy_dev_stuck` | does a device report that it receives only while it may, as `qh_ptc.h:574` has it | as above; a violation |
| `ys_req` | own answers, and settings that arrive | 4 calls, 2 failures, 2 outputs: a call that times out, one made while it is served, a failure between two outputs, an idle stop before or in the middle of a setting, and another device in the slot afterwards |

What the bounds leave out: `LapBound` keeps the laps small against `Word`, so that
the difference of positions does not wrap round; in the code that takes 2^32 bytes
between two reads. The proofs about the ring go without this bound and say so where
the distance matters (`WithinWord`). Two failures are enough in `pbs` for a failure during the
recovery from a failure, two requests for one that overtakes the other. In
`hy_dev` a third call is needed for a playback that is stopped and followed by
another; the proof of `FreshFrames` goes without these bounds.

Some properties leave out what the code is known not to do, by naming the state
in which it happens: `FreshFrames` a playback begun over remains of the one before
(`carried`; `start_flag` is then still set), one that waits for the very second of an old
frame on its way (`alike`) and one exchanged in the middle of a pass (`swapped`);
`Settles` a logout that hangs (`Stuck`), a refused login the device keeps up
(`live = "refused"`), and of the playback one that was exchanged so, or that the
application leaves on after it was marked as active on a refused login (`unheard`);
`OwnAnswer` and `Applied` a call made while one like it is
served (`late`), `Applied` also a slot that stays stopped and a setting left by the
device before (`stray`); the properties of `PtcXmFrames` a rest that was overwritten
(`overlaid`). All of these states are reachable in the runs.

`CHECK_DEADLOCK FALSE` stands in the configurations whose system ends: a stopped
session (`pbs`, the rings), a stopped device (`hy_dev`), a stream sent to its end
(`xm_frames`), a slot that stays stopped after the last call (`ys_req`) or a pool whose
lives are used up.

### Fairness

Threads that are started run, and a mutex that is free is got in the end. A waiting
worker needs a signal. In the ring the player reads on while it runs and the waiting
writer retries (it does so every 20 ms). In `NcQhPbs` a connected device sends and
obeys; the network fails a bounded number of times. Nobody has to call: starts,
stops, submissions, requests carry no fairness. `StopReturns` of `NcQhUser` says
that a stop that has begun ends.

In `NcHyDev` the login thread and the stream threads run (`WF`). On a broken
connection a message may seem to have gone out, but not for ever: the heartbeat
waits for its answer, hence `SF` on a `Rest` that fails on a broken connection. Of a
device that has refused the login nothing of the kind is assumed: it may go on
answering. The device
need not send frames, and the application need not call. In `NcYsReq` the login
thread runs until it finds the device stopped; failures are bounded, and nothing
is assumed about the idle stop, which may come between any two calls.

### Where code and comments disagree

`nc.h:162` says of `nc_startRts_v2` "0=成功，其他=错误" (0 is success, anything else
an error). `nc_qh_user_start` returns the index of the slot, so the second session
open at a time returns 1. The handle is what every other call takes, so the comment
is what is wrong. `qh_start_return` shows it.

`nc.h:65` says of `NC_ERROR_REPEAT` "重复打开该通道" (the channel is being opened
again). The thread that stops idle HuaYi devices counts channels, playback and talk
but no alarm, and a stop does not reset `cur_alarm_enable`: the next device in the
slot gets that error for its first `nc_login_v2`. `hy_table_repeat` shows it.

`qh_ptc.h:574` says of `PTC_FRAME_STREAM_RUNNING` "接收流媒体..." (receiving the
stream). A logout of a HuaYi device joins the player before the receiver, which
waits in `tool_stream3_set_noDrop` for room in a ring nobody reads any more. Until
the application stops the playback the device stays logged out and goes on
reporting that state. `hy_dev_stuck` shows it; a refused login is not counted there, for
the connection is there. `Settles` and `StopReturns` of `hy_dev` show that this is the
only way for the login thread to hang, and that a stop gets out of it.

## Proofs

Checked by TLAPS, for every value of the constants that meets the assumptions. Every
invariant of the runs that hold, and every property of theirs that is not about
liveness, is a theorem of its specification.

### The frame ring

`ToolStream3_proofs` (assumption `StreamAssumption`: sizes are positive, two heads fit
the greatest frame size, and the ring holds four to eight of those, as the 4 and
8 MB rings of the code do; the counter word is wider than two rings). The argument
has four layers.

- Geometry. `TypeCorrect`, `LiveGeometry` and `PlaybackGeometry`: every write is inside
  the pool and extents share no byte. `InBounds` is not inductive: a frame that ends too
  near the end of the pool would leave no room for the mark after it, so the
  invariant carries `Fits`, that after every frame a head still fits.
  `LiveQueueBound` and `LiveGopIntact` need besides that a gap after a dropped frame is
  known to the writer by its drop flag (`GapKnown`).
- Positions (`RingInv`). `Ordered`: extents come in the order of laps and offsets, and
  the reader's position is not past the writer's. `Chain`: while the writer has not lapped
  the reader (`Near`), the reader's position is that of an extent, and each extent it has
  not passed ends where the next begins or where the writer stands. `Span`: then `stream->len` is
  the distance of the positions less what the turn to the front wasted. From these
  `LiveReaderAligned`, `PlaybackReaderAligned`, and `PlaybackNeverLapped`: a writer that
  waits until the length is below the limit cannot lap the reader.
- The backlog (`Sequenced`). The refinement mapping makes a sequence of the unread
  extents by counting, for each, those before it. `SortedPut` and `SortedTake` show what
  that sequence becomes when an extent is written behind all others or the first is
  read, and so every step is one of the frame queue: `LiveRefinesQueue`,
  `PlaybackLossless`.
- The counters (`Counted`). `stream->len` and `stream->count` are a sum and a number
  over the unread extents (`LiveAccounting`, `PlaybackAccounting`). The sum is a fold
  that takes the elements in an order CHOOSE settles; `TotalAdd` and `TotalRemove` show
  that the order does not matter.

Two of these layers rest on a condition. `Roomy`, for the playback: a frame and three heads fit in `DataSize`.
The frames of the code are at most 500 KB (`qh_ptc.h:265`) and `DataSize` is 1 MB; without
it the bytes wasted at the turn let an admitted frame reach the reader. `WithinWord`,
for the live view: the reader is never 2^32 bytes behind, since `get_simple` takes
the distance in an unsigned 32-bit number and a reader that late would pass for one in
time. It is a condition on the behaviour, `LiveSpec /\ []WithinWord => ...`, for any number of
laps; `FewLaps` shows that it holds by itself while all laps fit in a word.

### The worker pool

`ToolTpool_proofs` (`TpoolAssumption`: finitely many threads, at least one, and one
life of the pool at least). The invariant is the types, `NoLostWakeup`, and four parts:
`Lives` (the pool is up exactly while `state` is 1, and after the joins every thread
has ended), `Holds` (a thread that has tested the list and not slept yet holds the mutex,
so that what it found still holds), `Counts` (`work_num` is the length of the list) and
`Places` (an accepted work is in the list, with one thread, finished or dropped).
`TypeCorrect`, `WorksConserved`, `WakeupsKept` and `StopLeavesNothing` follow.
`NoLostWakeup` needs `Holds`: a worker that goes to sleep has found the list empty
under the mutex it still holds.

### The qh driver

`NcQhUser_proofs` (`UserAssumption`: at least one slot, `None` is no caller). The
invariant says who owns a slot: an owner's slot is marked used, owners differ, the
fields at each place of start and stop are those of the owner, a thread that runs
has an owner that has created and not joined it, and a search that has not seen a
free slot either began on a full table or still has one ahead, since only it, with
`nc->mutex`, can take one. From it `TypeCorrect`, `SessionSafety`, `MemorySafety`,
`CallbackSafety` and `FullSafety`.

`NcQhPbs_proofs` (`PbsAssumption`). `RequestSafety`: `RequestKept` is inductive once it
is known that the mutex is held between the test and the clearing of a flag. The
rest has two invariants. `PassInv`: the types, a pass that works has an open
connection whose stream was reported (`Reported`), and after the end none is open
or being opened (`Closed`); from it `TypeCorrect`, `MediaReported` and `EndFinal`.
`GapInv`: besides, `start_time` is the second of the last frame (`Resumes`), and the
frames in flight and those to come follow each other and the last one taken,
but for jumps that were asked for (`Stream`). A broken connection empties the line; the
device then begins at the first frame of that second, which is one the player has
had or the next. Hence `RecordingContiguous`. That the device finds a first frame is
`FirstFromFound`.

### The HuaYi, YuShi and XiongMai drivers

`NcHyTable_proofs` (`TableAssumption`: a slot at least, channels are not named like
the other kinds). `TableServes`: `Served` is inductive together with `TypeOK`. The
proof turns on `Place`: a start takes a free slot only if the device runs nowhere,
and a free slot has nothing enabled that anybody holds.

`NcHyDev_proofs` (`HyDevAssumption`). `TypeCorrect`: the queues stay within their sizes and
no playback is ahead of the calls. `FreshPlayback`: `FreshFrames` for any
number of calls, failures and seconds. The invariant has these parts. `Order`: the
frames in the socket come in the order of their playbacks, and of one playback in the
order of their seconds, none later than the device plays. `Passes`: a pass that
starts a playback has found none active. `Quiet`: while no playback is active and
none is being started, the device streams none, since the message that stops it
comes before the mark. `Apart`: whatever is on its way to the test of the start
flag is of the current playback, or has another second than the one waited for.
`Clean`: what has passed that test is due (`Behind`), once the flag is set so is
everything that may still come (`Before`), because the current playback is the last
one and its seconds only grow, and a callback about to be made is for the
playback that is on (`Calling`). `Apart` and `Clean` hold until a playback is `carried`,
`alike` or `swapped`. `Apart` is needed because the test tells frames by their
second only: that it suffices is a fact about what can be in the socket when a
playback begins, not about the test.

`NcYsReq_proofs` (`YsReqAssumption`). `AnswerSafety`: `OwnAnswer` needs to know that the
request of the caller who waits is the one in the structure (`Left`), and that a
login thread that serves a request of that kind serves this very one, unless the
caller came late (`Mine`). It holds over any number of idle stops and devices in the
slot.

`PtcXmFrames_proofs` (`PtcXmAssumption`: sizes are numbers, every frame is as long as a
head at least). `BufferSafety` needs only that every update of the buffer keeps its
two regions inside it, whatever length a head pretends to state. For `FramesWhole`
and `NothingHeldLonger` the invariant is that the receiver stands at a frame
(`Parsed`): buffer and socket together hold the stream from the first piece of some
frame f on, without a gap; the ring holds what is due before f; `key` says whether an
I frame is among those; and what is left of f in the buffer is less than f, or lies
behind a frame just cut off. `FirstOf`, where a frame begins, is a recursive function;
`Starts` shows that its definition has a solution, and `Frontiers` and `Increasing`
how its values lie. What is due is a set of frames put in order, and `OrderPut`
shows that a later frame goes to its end.

### Induction, and what stays with TLC

The induction theorems of the library take an operator as a parameter, which the
installed provers cannot instantiate. Where a proof needs a least element or an
induction over the numbers (`Least`, `Induction`), it goes by sets: inclusion of finite
sets is well-founded, and so a set of numbers without a least one is empty.

Only model-checked is liveness, since fairness and ENABLED are beyond the prover:
`BacklogMoves`, `WriterReleased`, `AcceptedRuns`, `PlaybackEnds`, `Settles`, `Applied` and the
`StopReturns` of the pool, of the qh sessions and of the HuaYi device.

## Not modelled, and why

Vendored code, codecs, `tool_sysf` (wrappers of the C library) and the text formats
(HTTP, JSON, TLS, hashes) keep no state that threads share. `tool_stream1` has no
caller. The other parts are in the plan. Known to be outside the models: a session
stopped twice or from its own callback; calls that run beside `nc_qh_done`; request
flags a slot carries over to its next session; state reports lost in a full ring;
in the HuaYi driver talk, alarm messages and PTZ, a handle that is closed twice,
and the moment between the player's test of `cb` and its call; in the YuShi driver
streams (so only slots without any, which the idle stop takes), talk and the resolution
of cloud devices; in the XiongMai driver the
device thread; time zones the YuShi device does not know, which `doSyncTime` drops.

## Plan

Done: the ring, the pool, the slots, the playback of qh, the HuaYi table and
device, the YuShi requests, the XiongMai reassembly. Next, in this order:

1. `NcQhRts`: live view with the key frame request, which login sets without the
   mutex; composed with `NcQhUser` for the flags a reused slot keeps.
2. `ToolStream2`: the talk ring, where a full lap looks empty, with
   `nc_qh_sendTalk` against the stop of a talk; an abstract queue it implements
   up to the loss of a lap.
3. `ToolSock`: ticks, timeouts and partial transfers under the session's flag.
4. `NcQhSearch`: the merge of answers into the ageing list.
5. One abstract specification of a device session, that what is wanted is
   streamed in the end, implemented by `NcHyDev`, and by the device threads of
   `nc_ys.c` and `nc_xm.c` as they are added.
6. `Relay`: the relayed session of the cloud client.
7. `PullStream` and `UvcStreams`: the clients' entries and threads.
8. `NcDispatch`: handles of several drivers.

Theorems to come: the safety that the liveness properties lean on (no state in which a
stop, a writer that waits or a request can neither move nor be moved), and the
invariants of the modules above.
