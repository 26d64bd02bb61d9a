# Verification of wire-whisper

TLA+ models of the wire-whisper chat server, TLC configurations that check them
on small instances, and TLAPS proofs of the properties that hold for every
instance. Paths such as `hub.rs` are under `server/src/actor/` unless said
otherwise. `PROJECT.json` maps every definition to the lines it models.

## 1. The system

A single chat room. `serve` accepts TCP connections and spawns one `Session`
task per connection; sessions meet only in the `Hub`.

| Component | State | Operations | Talks to |
| --- | --- | --- | --- |
| Hub (`hub.rs`, `mailbox.rs`) | lock-free map username -> mailbox address, atomic occupancy counter, one bounded mailbox per session | `try_register`, `broadcast`, `occupancy`, `ClaimHandle::drop` | called by every session, on any thread |
| Session (`session.rs`) | socket halves, claim, mailbox receiver, last activity, ticker, limiter, child token | `handshake`, `serve_loop` (shutdown, reader, mailbox, tick), announce and clean up | peer over TCP, Hub, shutdown token |
| RateLimiter (`ratelimit.rs`) | tokens, last refill | `try_consume` | owned by one session |
| Server (`server/src/lib.rs`, `main.rs`) | `JoinSet`, listener, root token | accept, spawn, cancel on signal, drain within a budget | sessions, operating system |
| Protocol (`protocol/src/lib.rs`) | decoder buffer | encode, decode, validate names and bodies | sessions, client |
| Client (`client/src/`) | stdin, framed socket | handshake, REPL select | session over TCP |

What is hard here:

- **Atomic steps of different sessions interleave.** The map and the counter
  are two atomics; `broadcast` walks a map that others are changing; a handle
  it has in hand may belong to a session that is already gone.
- **Names are reused.** A name is free as soon as its holder has left, while
  frames of the old holder may still be on their way.
- **A select arm's body is outside the select.** While it awaits a write, the
  token, the heartbeat and the reader of that session wait too.
- **Writes are not cancel safe.** A write dropped by a timeout leaves half a
  frame on the wire.
- **Everything is bounded:** mailboxes, socket buffers, frames, the token bucket.
- **Bytes arrive as they like.** A frame may come in pieces, several frames in
  one read, and a stream may break off inside one.
- **Timers race each other:** pings and the idle check, goodbyes and the drain
  budget, a signal and the next accept.

What makes each part correct: unique names, no orphaned names, an exact
counter, no echo, per-sender order, no frame lost to a peer with room (Hub);
handshake answer first, well-framed stream, select priorities, clean exit,
termination on shutdown and silence (Session); exactly burst plus rate
(RateLimiter); every session drained, nobody left waiting (Server); frames
neither lost nor merged, buffers bounded, legal input always carried (Protocol);
no surprises for either side and no mutual waiting (Client with Session).

## 2. Modules

| Module | Models | Notes |
| --- | --- | --- |
| `Hub` | `hub.rs`, `mailbox.rs` and the Hub calls of `Session::run` | one action per atomic access |
| `Room` | abstract specification of the room | enter, publish, deliver, exit |
| `HubProofs` | theorems about `Hub` | |
| `RateLimiter` | `ratelimit.rs` | exact integer units |
| `RateLimiterProofs` | theorems about `RateLimiter` | |
| `Session` | `session.rs` and the connection to an arbitrary peer | one action per poll and per chunk written |
| `SessionProofs` | theorems about `Session` | |
| `Connection` | `client/src/main.rs`, `repl.rs` as the peer of `Session` | extends `Session`, shares its wire |
| `ConnectionProofs` | theorems about `Connection` | extends `SessionProofs` |
| `Heartbeat` | the ticker and the idle check of `serve_loop`, `config.rs` | discrete time |
| `HeartbeatProofs` | theorems about `Heartbeat` | |
| `Server` | `server/src/lib.rs`, `server/src/main.rs` | sessions abstracted to what takes them time |
| `ServerProofs` | theorems about `Server` | |
| `Codec` | `PostcardCodec`, `encode_frame` under `FramedRead` | bytes, any chunking |
| `CodecProofs` | theorems about `Codec` | |
| `Channel` | abstract specification of a stream of frames | what `Session` assumes of its socket |
| `Limits` | the size limits, the validators and where they apply | lengths only |
| `LimitsProofs` | theorems about `Limits` | |
| `MC...` | instances for TLC | |

### Hub

An actor is a connection; it runs once. `pc` is its place in `Session::run`:
`handshake`, `inserted` (map entry made), `counted`, `welcoming`, then
`joining`/`sending`/`departing` inside `broadcast` or `serving` outside, then
`releasing`, `removed`, `released`, `done` through `ClaimHandle::drop` and the
end of scope. `sessions[n]` stands for key pointer and handle at once, since
both belong to the registering actor; `Arc::ptr_eq` is then equality of actors.

papaya's iterator is modelled by what it guarantees: an entry is yielded at
most once, an entry present throughout is yielded, one inserted meanwhile may
be. `due`, `seen`, `cur` and `missed` record what it owes, what it has yielded,
the handle in hand and the peers whose `try_send` failed; the `try_send` on that
handle is a later step. `log[a]` is every frame `a`'s mailbox accepted and
`taken[a]` how many were received, so the queue is their difference and the history is there for the properties.

`Unwind` is the drop of the task at an await (failed Welcome, abort, panic):
the mailbox closes before the claim, and nothing is announced. Relaxed ordering
is sound to ignore here: each counter access is a read-modify-write or a load of
one location, and the model already lets any step come between the map access
and the counter access.

### Session

`pc` says which await of the code the task is in. A biased select polls its
arms in order; each poll is a step (`arm`), so an arm can become ready behind
the poll that missed it. An arm that wins runs its body: a body that writes
enters one of the `Writing` phases, in which no arm is polled, and `WriteChunk`
hands one of the frame's two chunks to a connection buffer with room. `timer` is
"the deadline or tick this phase waits for has elapsed"; `idle` counts ticks
since the last inbound frame. The peer may send any frame in any order, stop
reading, close (orderly or abortively, with what it sent last lost) and, where
`MayWedge` allows, stop running while its kernel keeps the connection open. Of
the Errors the session writes, the one that names the shutdown is a frame of its
own (`Goodbye`). The rate limiter's verdict
and the outcome of `try_register` are nondeterministic here; modules
`RateLimiter` and `Hub` say when they occur.

### RateLimiter

`f64` becomes integers in a unit that divides cost, capacity and refill. The
history `used[s]` is what was granted at or after `s`; the reference limiter
grants `n` exactly when for every `s` the sum stays within
`Capacity + Refill * (now - s)`.

### Connection

`Connection` extends `Session`: server steps, wire, timers and token are the same
actions, and the client's steps replace the arbitrary peer's. `cpc` is the await
the client is in (`greeting`, `awaiting` the first frame, `repl`, one of the
sends, `closing`, `lingering`, `exit`), `carm` the arm of its biased select polled
next, `half` the frame whose first chunk its decoder holds. What the user types
is any line; the client checks neither the name nor the body. `Killed` ends the
client anywhere. A REPL that ends drops its socket (`HungUp`); if a read of stdin
is pending then, which `tokio::io::stdin` cannot cancel, the process lingers until
the user presses Enter (`LastLine`). `reset` says that the session's kernel answers
with RST: because the session closed over frames it had not read, or because a
frame reached it after that. A reset may fail the client's next send, or overtake
what the session wrote last (`Reset`). `parting` is what became of the goodbye.
Each step of the client is a step of the peer in `Session` by the way it is written
(lemma `ClientMoves`), so all that was checked there carries over.

### Heartbeat

`now` is the clock. Ticks are taken up to `Slack` late (other arms and their
writes come first) and rescheduled from when they were taken
(`MissedTickBehavior::Delay`); a responsive client answers within `Latency`,
before the next Ping; a half-open one falls silent for ever. An idle session first
writes its Error (`idling`), up to `Slack` long and with its name still claimed.

### Server

`serve`, `arm` and `sessions` are the accept loop and its `JoinSet`; `main` and
`exit` the binary; `stage` says where each connection is, from the kernel's
backlog to its session's end. Of a session only what takes time is left: it waits
in a select that polls the token (`handshake`, `member`), in the write of an arm's
body, which races nothing (`writing`), or in its goodbye, which has a timeout
(`parting`, begun at `parted`). A peer may stop reading while its session writes
(`slow`), and go on later. Time is counted from the signal only, in units long
enough for whatever is `Ready` to be run, and passes only when nothing is: that
others end in time is derived from the goodbye's timeout. `stuck` records who spent
time of the drain in a write of an arm's body.

### Codec and Channel

`wire` and `src` are sequences of bytes; the header is four bytes, big-endian, as
in the code. `Read(n)` takes any number of bytes that have arrived; `FramedRead`
then decodes until decode asks for more. The sender may also close, end in
mid-frame, reset, or not be this codec at all (`Foreign`: lengths just beyond
the limit, lengths whose low bytes alone would be legal, payloads that are no
frame). What postcard writes for a frame is a constant, of which only unique
decodability is assumed; foreign bytes that did begin with a frame would be no
different from a frame sent, and are left out (`ForeignAssumption`).

### Limits

The journey of a name and of bodies, reduced to their lengths, through the
client's encode, the server's decode, the validators, `encode_frame` and the
other clients' decode. The lengths of the encodings are postcard's: one byte of
tag, varints before strings. `client` distinguishes this repository's client,
whose own encode refuses a long frame, from others, whose frames the server's
decode refuses.

## 3. Runs

| Run | Instance | Shows |
| --- | --- | --- |
| `hub_registry` | 3 actors, 2 names, depth 1 | types and mailbox bound, names, counter, no echo, holders of a name do not interleave, complete fan-out, the occupancy in `Welcome` off by no more than the sessions between two updates |
| `hub_order` | 2 actors, 1 message each, depth 2 | per-sender order; `Hub` implements `Room`; a publisher never blocks; names become free |
| `rate_limiter` | 6 ticks, fractional burst and rate | the bucket is the reference limiter |
| `session` | 3 inbound frames, 2 room frames, a peer that may wedge | framing, handshake answer first, select priorities, clean exit; shutdown and silence end the session unless the peer wedges |
| `connection` | 1 line, 1 room frame, 3 frames and 2 chunks in transit | neither side meets what it bails out on; a welcomed user learns of a shutdown unless a frame of theirs crossed it; Pings answered, shutdown makes the client let go of its socket, names freed however it ends |
| `heartbeat` | interval 3, timeout 6, slack 2, 24 units | a responsive client stays, a silent one has lost its name in bounded time, its Error written |
| `server` | 3 connections, goodbye 2, budget 4, accept errors | drained before returning, one late accept at most, only sessions held in an arm's write cut; a signal ends the process, the backlog is served until accept fails |
| `codec` | 3 frames, limit of 3 bytes, 5 foreign strings | `Codec` implements `Channel`; nothing held back; buffer bounded by a frame; a closed connection ends with everything decoded, unless it was broken |
| `limits` | the real limits, 10 name and 11 body lengths | legal input is always carried, and a connection is lost only over an oversize frame |
| `hub_departed`, `session_wedged_drain`, `connection_blocked` | | violations, section 5 |

Bounds. Three actors and two names are the least with a name reused while a
third party watches, which is what `HoldersDoNotInterleave` and `NeverEchoed`
need; depth 1 makes every second frame meet a full mailbox. Order needs two
actors and several frames in one mailbox, hence the second instance. Three
outbound chunks are a frame and a half, so that a write can block before,
inside and after a frame. `MaxSend`, `MaxFrames`, `MaxMail` and `MaxTime` bound
what clients and clock do; nothing in the code depends on them. Actors and names
are symmetric in `hub_registry`; the runs with liveness use no symmetry.

In `connection` the wire towards the session holds all that the client can have
in transit (a `Send`, a `Pong`, a `Leave`), so that writes wait but never for each
other; `connection_blocked` is the same system with room for one frame towards
the session and four lines, as when stdin is a long file. One line means that a stdin that always has
another line ready, and so keeps the biased select from the socket, does not
occur in `connection`: `PingAnswered` is about users who type finitely often. In
`Server` three connections are one drained, one accepted late and one left in the
backlog; a goodbye may last two units, so that it can be cut, end in time or run
into the budget of four together with a write before it. In
`Codec` the limit is small so that a frame at the limit, a longer one, and two
frames in one buffer all occur; a header is still four bytes with base 256, and
one payload is made of the bytes of a header. In `Limits` the lengths lie on both
sides of every limit and of every step of the varint.

`MaxMail` matters for `SilentPeerEnds`: the tick arm comes last, so a mailbox
that is never empty when polled would keep the heartbeat from running. The code
accepts that ("it's a timer, it can wait"), and the property is about rooms that
are quiet now and then.

Fairness. `Hub`: weak fairness of each actor's steps inside Hub calls only,
which contain no await; nothing is assumed of clients, of mailbox receivers or
of when a task gets to its next call. `Session`: weak fairness of the task
(tokio runs a ready task), of time, and of a peer that has not wedged reading
its socket. `Connection`: weak fairness of both tasks and of time; the user owes
nothing, and so no property says that the client's process ends. `Server`: weak
fairness of `serve`, of `main` once it waits for the drain, of time after the
signal, and of every session task for which what it waits for has happened; none
of clients, slow peers, accept errors or the signal. `Codec`: weak fairness of
the receiver; none of the sender. Deadlock is checked in every run; the end of
all connections is a step of its own.

The types of `RateLimiter`, `Heartbeat`, `Limits` and `Server` are part of the
invariants proved in section 4 and are in no run; those of `Hub` and `Session`,
which bound the mailboxes and the buffers, are checked.

Every property has a mutant in `PROJECT.json`: a named wrong version of one
definition (kept next to it in the module) that makes the property fail.

## 4. Proofs

For every finite set of actors, every set of names, depth and bound:

- `TypeCorrect`: types, and no mailbox above its capacity. Needs `FrameInHand`
  (the frame of a broadcast in progress is a frame of its publisher).
- `RegistryCorrect`: `RegistryMatchesClaims`, inductive with the types. Only
  `TryRegister` and `Remove` touch registry or claims (`RegistrySteps`); the
  first writes a free slot, the second finds the dropping actor's own entry.
- `OccupancyCorrect`: the counter is the cardinality of the counted actors. It
  rests on the registry invariant: `drop` decrements only if `remove` found an
  entry, and it always does.
- `NoEcho`: with `HandleIsPeer` (the handle in hand is of an actor with another
  name) and the fact that names no longer change once the handshake is over.
  The pointer comparison is enough *because* names are unique.
- `SenderOrder` and `HoldersInTurn`, from `OrderInv`. The order in a mailbox does
  not follow from itself: a broadcast in progress must find only older frames of
  its sender wherever it has not been (`Frontier`, which the iterator's "at most
  once" keeps), the kind of a frame must fit its number and the place its sender
  has reached (`Stage`, `LogFrames`), and of two holders of a name whose frames
  are in one mailbox the earlier must have given the name up (`HoldersGone`): that
  is where the uniqueness of names enters.
- `FanOut`: an action property, from `Visited` (a peer already visited has the
  frame, or its `try_send` failed) and the iterator's debt `due`.
- `WelcomeCounts`: an action property, from the two counting invariants: names
  held and sessions counted differ by those between the two updates.
- `HubImplementsRoom`: the refinement, step by step (`RoomStep`); the steps inside
  `broadcast` other than the `try_send` that succeeds, and those of `drop` other
  than the removal, are stutters.

For every size of the buffers, the mailbox and the idle bound, with a peer that
may wedge or not:

- `TypeCorrect`, `AnswerComesFirst`, `WellFramed`, `PrioritiesHold`,
  `ExitIsClean` and `CutIsLast` of `Session`, from one invariant `SessionInv`.
  `OutShape` says what is left of the frame being written, `Wire` that the last
  chunk in transit fits it (the reason why chunks of two frames never mix, and the
  part that a write dropped by an arm would break), `Progress` what peer, Hub and
  room know in each phase, and `Priorities` that an arm that has won is followed
  by a poll of the token, whose turn it then is. The steps of the peer enter only
  through what they do to the wire, so the invariant is one for any peer.
- `PartnersAgree` and `GoodbyeTold` of `Connection`, from `ConnInv`, which adds
  what the two sides know of each other: the client's decoder holds the first half
  of the frame whose second half comes next (`Decoder`), the first frame in
  transit is the answer it waits for (`FirstAnswer`), its only Hello comes before
  all else (`OneHello`), the goodbye of a session ended by the token is being
  written, in transit, half decoded or shown as long as the client holds its socket,
  unless it timed out (`Goodbye`), and only a reset ends the client otherwise
  (`Outcome`).

For any set of connections and any goodbye timeout shorter than the budget:

- `TypeCorrect`, `ShutdownFirst` and `DrainIsOrderly` of `Server`. The first of
  these two rests on `AcceptWindow` (no late accept before the accept arm's turn,
  as the token is polled first), the second on `DrainStages` (a session that runs
  is in the `JoinSet`) and `Timely`: once time has passed since the signal, a session
  that no arm's write has held up is in a goodbye it began at once and whose timeout
  is not over, which is before the budget is.

For all frames, every encoding of them that is uniquely decodable, any foreign
bytes and any limit that fits the header:

- `NoFrameHeldBack`, `BufferLimit` and the refinement `CodecIsAChannel`, from
  `CodecInv`. Its core is `StreamLaid`: the bytes not decoded yet, in the buffer
  and on the wire together, are the frames still to come, one behind the other,
  and then what broke the stream. It is stated by the offsets at which the frames
  begin (`Layout`) and not by a recursive concatenation, so that writing a frame
  extends the offsets, decoding one shifts them, and a read, which moves bytes
  from the wire to the buffer, leaves them alone: no induction over the stream is
  needed. From it decode finds at the front the next frame sent, whole
  (`NextFrameDecoded`), or, when none is left, nothing it takes for a frame
  (`NoStrayFrame`), and an empty buffer at the end of the stream means that
  everything has been decoded (`EndIsComplete`). `HeaderRoundTrip` is the lemma that
  `from_be_bytes` reads back what `put_u32` wrote.

For every capacity, refill, set of costs and length of the run:

- `RateBoundHolds` and `GrantsExactlyHolds`, from an invariant about the bucket:
  no stretch of time has room for more than the refilled bucket (`Covered`) and
  some stretch has room for exactly that (`Tight`).

For every interval, timeout, slack, latency and length of the run:

- `SilenceIsBounded`: from `NotIdleAtTick` (when the next tick was scheduled the
  client was not idle, or its Error is being written) and `OnTime`; it needs no
  relation between the durations.
- `ResponsiveKeepsSession`: if interval and slack fit into the timeout. From
  `SinceLastTick`: the next tick is a period after the unanswered Ping, or at
  most a period after the last activity. The premise is necessary
  (a longer interval drops a client at its first tick), and `ServerConfig` does
  not ask for it.

For all limits under which the worst legal `Message` fits into a frame, and for
names and bodies of any length:

- `AcceptedIsCarried`: `LostOnlyOversize`, from `Legal` (past the handshake the
  name is legal, and so is a body being broadcast) and the monotonicity of the
  encoded length (`MessageMonotone`).
- `MessagesAreShort`: with the limits of the code, every `Message` is under 5 KiB.

Assumptions are the `ASSUME`s of the modules: finitely many actors and
connections, `None` not an actor, a name or a frame, positive queue depth and
buffers, non-negative rates, positive durations, a `Latency` below the ping
interval, a worst legal frame that fits, a `MAX_FRAME_BYTES` that fits the u32 of
the header (8 KiB do), payloads of which none is a prefix of another's, and
foreign bytes that do not begin with a frame. TLC evaluates all of them on the
instances of section 3. The invariants `OrderInv`, `SessionInv`, `ConnInv`,
`AcceptWindow`, `DrainStages`, `Timely` and `CodecInv` (with the offsets written out) also
hold on those instances by TLC.

Only model-checked, being liveness under fairness, which is out of the prover's
reach: `PublisherNeverBlocks` and `NameIsFreed` (`Hub`), `ShutdownEnds` and
`SilentPeerEnds` (`Session`), `PingAnswered`, `ShutdownReachesClient` and
`HangUpFreesName` (`Connection`), `SignalEndsProcess` and `BacklogServed`
(`Server`), `EveryFrameArrives` (`Codec`). Every invariant,
action property and refinement of the passing runs is proved.

## 5. Where documentation and code differ

Shown by a run of its own:

1. "a crashed peer never leaks [...] a 'joined' event without a matching
   'departed'" (`session.rs`). A full mailbox drops `Departed` like any other
   frame (`hub_departed`).
2. "All session awaits race the `CancellationToken`" (`ARCHITECTURE.md`). The
   writes in the bodies of the reader, mailbox and tick arms do not; a peer that
   stops reading keeps the drain waiting until `main` gives up
   (`session_wedged_drain`). Racing those writes against the token is no remedy
   by itself: it is the mutant of `StreamWellFramed`.
3. "all code should be non-blocking for maximum concurrency" (`README.md`). The
   client awaits its sends, and the session its replies, in the bodies of select
   arms in which neither reads; with both directions full they wait for each
   other (`connection_blocked`). The idle check does not help, as it waits too.

Met while modelling, and visible in the exception or premise a property carries:

4. `Welcome.occupancy` is "Current room occupancy after this user joined."
   (`protocol/src/lib.rs`). Map and counter are updated in separate steps, so
   the number may be too high or too low; `WelcomeNearOccupancy` says by how much.
5. "A session is disconnected if it has not produced any inbound frame"
   (`config.rs`). Not while it waits in a write: the wedged peer that
   `SilentPeerEnds` excepts, and the bound on writes that `SilenceBounded` assumes.
6. "Each session, on cancellation, makes a best-effort attempt to send a parting
   `ServerFrame::Error`" (`server/src/lib.rs`). Not one that is still in its
   handshake: `ToldWhy` is about welcomed users.
7. "no clients left guessing why they got an RST" (`server/src/lib.rs`). The session
   closes its socket right after the goodbye, over frames of the client it has not
   read; for that the kernel sends a reset, which may overtake the goodbye or fail
   the client's next send before the goodbye is read. A user whose frame crossed
   the shutdown may so be left guessing: `ToldWhy` excepts them and those
   whose goodbye timed out, and shows that nobody else is.
8. "sending `Pong` keeps an otherwise idle session alive"
   (`protocol/src/lib.rs`). Only if the ping interval fits into the idle timeout,
   the premise of `ResponsiveStays`; `config.rs` asks for positive durations
   only. The defaults fit.
9. serve runs "until [...] the accept loop hits a hard error"
   (`server/src/lib.rs`). Any error ends it, and the process runs on without
   accepting until its signal: `BacklogServed` excepts what follows an error.
10. "oversize bodies get a structured `Error` rather than disconnect"
    (`session.rs`). Beyond the limit of the frame they end the connection, at
    the client or at the server: the exception of `LostOnlyOversize`.
11. "Drive the REPL until the user leaves or the server disconnects."
    (`client/src/repl.rs`). The REPL does end then, but the process waits in its
    runtime for one more line of stdin: `ShutdownReachesClient` is about the socket.

No property is about one more thing: the `active` count logged when the drain
begins (`server/src/lib.rs`) includes every session that has ended, as nothing
joins them while the accept loop runs.

## 6. Not modelled, and the plan

Left out for good: logging, argument parsing, the prompt's layout, the CI
workflow and hook; `f64` rounding; a panic of the `serve` task itself, for which
its code has no cause; `UserName`'s and `MessageBody`'s `Deserialize`, which no
frame uses; what postcard does inside a payload.

Left to do: shorter proofs where steps repeat (`OrderNext` of `HubProofs`, the step
lemmas of `ConnectionProofs`), and, as theorems, the variants behind the liveness
properties, which are safety: every step of a broadcast shrinks what it still owes
(`PublisherNeverBlocks`), and a drain only loses sessions (`SignalEndsProcess`).
