# MeshyCord: a TLA+ model of the bridge

MeshyCord bridges a MeshCore LoRa radio and a Discord server. One process talks
to a companion node over serial, TCP or Bluetooth, to Discord over REST and the
Gateway, and keeps its history and settings in SQLite. What it promises is
small and hard: a message typed in Discord goes on the air once, in order, and
the marker under it (⏳, ✅, 📡, ❌) tells the truth about what became of it; a
message from the mesh reaches a channel that exists; all of it whatever the
radio, the mesh, Discord or a restart does meanwhile.

These modules model the parts that keep those promises. TLC checks them on small
instances, TLAPS proves the theorems for every value of the constants.

    tlc -workers 2 -config MCDelivery.cfg MCDelivery.tla
    tlapm DeliveryProofs.tla

Paths below are relative to `src/internal/`; `PROJECT.json` gives the exact
lines of every definition.

## 1. Inventory

| Component | State it keeps | Operations | What makes it correct |
|---|---|---|---|
| Delivery pipeline (`bridge/outbound.go`) | `pending` and `failed` maps by acknowledgement handle, a `chunkGroup` per split, rows and echo rows in SQLite, `txMu` | send, resend, confirm, late confirm, expire, abandon, resolve stranded | pieces in order; a tick is earned; one owner per send; everything answered in the end |
| Room sessions (`bridge/outbound.go`) | one `roomSession` per room: login state, attempts, held posts | hold, login, verdict, give up, keep-alive, restore, repair login, flush | no held post forgotten or sent twice; trust follows the evidence |
| Link supervisor (`meshcore/link.go`, `bridge.RebuildLink`, `meshLoop`) | the published session, the dialer | dial, handshake, publish, watch, redial, change radio | one session at a time; each set up once; the link comes back, on the radio the operator chose |
| Companion session (`meshcore/client.go`) | `cmdMu`, the reply queue, push channels, the contact and channel caches | command and reply, pushes, enumeration, edits, close | a reply answers the command it belongs to, or the damage is bounded; the cache ends up as the node's list |
| Repeat listener (`bridge/heard.go`) | open watches by ciphertext | watch, note a packet, close, supersede | one verdict per attempt; an attempt whose listening was taken over says nothing more |
| Events and inbound relay (`bridge/bridge.go`) | event queue (256), seen messages, inbound repeat guard, `ready` | queue, handle, drain, relay | every message fetched and given a channel that exists |
| Setup and linking (`bridge/setup.go`, `admin.go`) | inbox, categories, channels, routes | bootstrap, setup, sync, link, tidy, rediscover, reset, dead channels | links and the inbox heal; live links stay |
| Admin commands (`bridge/admin.go`, `commands.go`, `ctlhandler.go`) | numbered snapshots, eight interaction slots | commands | a number means what the list showed |
| Remote CLI (`bridge/nodecli.go`) | one waiter per target, one login waiter, admin sessions | login, command, reply | a reply reaches the command it answers |
| Chunking (`bridge/chunk.go`), formatting (`format.go`) | none | split, count, strip a marker | pieces join up to the text and fit the limit |
| Frame codecs (`frames.go`, `codes.go`, `rawpkt.go`) | none | encode, decode | round trips; malformed frames refused |
| Transports (`transport.go`, `serial_linux.go`, `ble_linux.go`) | a byte stream; BLE failure counter | read and write frames, repair a bond | resynchronisation after garbage |
| Gateway client (`discord/gateway.go`) | session id, sequence, last identify, heartbeat | connect, heartbeat, resume, identify | no event skipped; identifies paced; the connection comes back |
| REST client (`discord/rest.go`) | bucket locks and views, global limit, authentication latch | request, pause, retry | limits kept; requests return |
| Store (`store/store.go`), settings (`config/config.go`) | SQLite | rows, routes, settings | one route per key; history matches what happened |
| Web console (`server/`, `web/`) | sessions, login limiter | pages, settings | a changed password ends old sessions |
| Control socket (`ctl/`, `cmd/meshycord-cli`) and process (`cmd/meshycord`, `sdnotify`) | none | request and response, start, stop | clean shutdown |

How they interact. The supervisor publishes a session; `meshLoop` drains it,
starts `loginAllRooms`, `syncAfterMesh` and `watchRawPackets` for it, and is the
only consumer of its confirmations and login verdicts. Every caller of the radio
goes through the one command port of the session. The Gateway's reader queues
events; `discordLoop` handles them one at a time and puts messages on the air
under `txMu`, waiting out each piece of a split. `housekeeping` sweeps expired
sends and logins every five seconds, runs the keep-alive and refreshes the
contacts; `meshLoop` sweeps too. A READY starts `setup` in a goroutine. Everything
that talks to Discord waits in the REST client. Shared state is under `pendMu`,
`roomMu`, `heardMu`, `cliMu` and `cmdMu`, and all but the last are released before
a database write or a request: nearly every hazard of this program is in what
another goroutine does between the unlock and the effect.

Behaviours that are hard to get right: acknowledgements and answers that come
late, after their deadline, or before anybody is registered; two sweeps on one
table; a send in several pieces of which one fails; resends that must skip what
landed; a crash between the row and its verdict; held posts that pass between
five goroutines; replies that carry no identifier; channels created, checked and
deleted by six goroutines; connections that change under everybody.
`PROJECT.json` lists each one, at its line, with the properties that would catch
it, or why none does.

## 2. Modules

| Module | What it is |
|---|---|
| `ChunkGroup` | the tally of one split attempt: settle, correct, abandon, verdict |
| `Delivery` | one message on its way to an acknowledging route, over `ChunkGroup` |
| `HeardWatch` | one split message on its way to a channel, whose only answer is a repeat overheard, over `ChunkGroup` |
| `RoomSession` | the session with one room, and the posts held for it |
| `RemoteCLI` | commands run on one node over the air, beside a room login to it |
| `LinkSupervisor` | `Link.Run`, `RebuildLink`, `meshLoop`'s choice of a session |
| `PortContract` | what a session's command port promises its callers |
| `CommandPort` | the port itself, with handshake, drain and late answers; refines `PortContract` |
| `ContactCache` | the contact list on the node, in the session and in the database |
| `Linking` | the inbox, the links, and everything that makes or loses one |
| `Gateway` | the Gateway client against Discord's sessions |
| `RestLimiter` | `Client.do` against Discord's limits |
| `*Proofs` | theorems about `Delivery`, `RoomSession` (`RoomProofs`), `LinkSupervisor`, `CommandPort` (`PortProofs`), `HeardWatch`, `RemoteCLI` (`CLIProofs`), `Gateway`, `RestLimiter` (`RestProofs`) |
| `MC*` | instances for TLC; `MCServices` checks five parts in one run |

**Delivery.** A send is `<<attempt, piece>>` and stands for the handle the node
issues. `Sender` is `sendToMesh` under `txMu`, one action per place where it can
stop: skip a landed piece, post the echo, transmit (three outcomes), register,
await, abandon, cross the rest. The workers `meshLoop`, `housekeeping` and
`setup` take a send out of a map in one step, as the code does under `pendMu`,
and then go through its effects one at a time (row, marker, `resolve`, group,
original) while the others step. A crash empties every map, group and channel and
keeps rows, echoes and markers. Abstracted: the text (only the number of pieces
counts), retry stamps, the path cleared after a failure, and handle collisions
(each send has a handle of its own). A verdict's REST calls are one step and
succeed; inserting the row and `addPending` are one step, and so are the resend
prelude and the taking of `txMu`.

**HeardWatch.** A watch is `<<piece, attempt>>`. Every attempt at the message, the
first and each resend, has a group of its own, and all groups answer the same
original; a message that needs no split is the instance with one piece, whose steps
are those of a piece. `Transmit` is one turn of the loop of `sendToMesh`: the piece
goes under the message of last time, a new one or none, and then the node refuses it
(`Refuse`), or it is on the air with nothing to listen for (`SendUnheard`: no
fingerprint, or no message), or it is listened for and what listened before is
superseded (`SendWatched`). Only the last of these silences an older attempt, as in
the code (`heard.go:77`). `overtaken` remembers, for the properties, who was still
listening on the message of a later piece. `Note` is the critical section of
`noteRawPacket`, `CloseWatch` that of `closeWatch`; row, marker and group follow as
steps of their own, so that the packet, the window and a resend meet at every point.
Packets are their routes; which ciphertext a packet matches is part of `HearRepeat`.
When the context ends, what the process remembers goes with it.

**RoomSession.** A critical section under `roomMu` is one action; what a caller
of `tryRoomLogin` does between two of them is its `stage`. `hand` is where
`discordLoop` is with the post it handles, `mine` the posts `handleLoginResult`
took, and each queue in `flushes` a running `flushRoomQueue`. Posts fit in one
transmission; what follows is `Delivery`'s subject. The two clocks of a login
(30 seconds between attempts, 45 seconds for an answer) are one flag, `cooling`:
a login may expire at any time after 30 seconds, which covers the code. The
verdict channel is part of `air`. The background caller stands for
`loginAllRooms` and `repathRoom`, one at a time. The attempt counter saturates
at its cap, as it is only compared with it. The settings that turn trust off (a
window of zero) or the keep-alive off are left out.

**RemoteCLI.** Each `Runner` is a call of `RunCLI` or `SetCLIPassword`, one action
per lock or wait: the login and its registration, the verdict, the reply
registration, the command, the lines, the return. A line of output carries the
number of its command, which only the properties look at; the code delivers it to
whoever is registered. The room login to the same node competes for the verdict.

**LinkSupervisor.** A session is a number given when its transport opens.
`connect` reads the dialer in `Dial`; the session is alive from there but only
`Publish` shows it to others. `LoseLink` may end it at any moment, `CloseOld`
ends the published one, and `Serve` / `Leave` are `meshLoop`. `onMeshConnect`
always returns nil, so setting up never fails. The seconds of the backoff are
left out.

**CommandPort.** A frame travels node → wire → reply queue → collector, one step
each. A frame says which code it has, what it carries (a message, a slot) and
`own`: whether the command it answers is still waited for. The code cannot see
`own`; giving a command up clears it wherever the answer is, and the properties
ask what such strays can do. The handshake, the drain and the askers differ by the
answers they accept (`Accepts`) and by what they do when they get none (`GiveUp`).
`PortContract` has none of the queues: callers take turns, each turn ends in one
of three ways, and an answer meant for somebody else can only be one of the strays
that a turn given up left behind. `KeepsContract` is the refinement: `turn` is the
holder of `cmdMu`, `strays` the unowned frames anywhere on the way.

**ContactCache.** The listing is a stream of frames that can end early, lose one or
be left over for the next one; a refresher replaces or merges the cache and then
persists what the cache holds by *then*, as the code does; an edit changes the node, then
the cache, then the mirror. `steady` and `torn` remember, for the properties, what
the node has held all along and whether a listing has been torn. The turn-taking of the port is assumed here (`lister`)
and checked in `CommandPort`.

**Linking.** Every request to Discord is a step. `boot` is where each goroutine
that runs `Bootstrap` is (`setup`, the event loop, the rebuild of a dead
channel), `linker` where each one that creates a link is (the relay, the
auto-linking, an admin); a second rebuild while one runs, which takes a second
deletion of the inbox, is left out. A Discord channel is an id; ids that nothing refers to
are used again, which loses nothing, as nobody could tell. A failed request
counts as "gone" where the code takes it so.

**Gateway, RestLimiter.** Discord's end is external: it numbers and replays
events, forgets sessions, limits buckets. `Gateway` counts time only for the
identify throttle. `RestLimiter` keeps, per bucket, the client's view
(`remaining`, `due`) beside Discord's budget, and a request goes through the lock,
the global limit, the bucket, the flight and the pauses of its attempts.

## 3. What is checked

| Run | Instance | Properties |
|---|---|---|
| `delivery` | two pieces, one resend, refusals and sends without a handle | `TypeOK`, `PiecesInOrder`, `TickIsEarned`, `OneOwner`, `NoDoubleCount` |
| `delivery_restart` | two pieces, one attempt, one crash, lost confirmations | `SenderReturns`, `RowsAnswered`, `HourglassAnswered` |
| `room` | two posts, queue of one, a popup, a forgotten password, a guest account | `TypeOK`, `NoPostForgotten`, `SentOnce` |
| `room_live` | one post, a silent room, a lost link, unacknowledged posts | `NoPostForgotten`, `HeldAnswered` |
| `link` | three faults, two changes of radio, a shutdown | `TypeOK`, `OneSession`, `StoppedClean`, `ServedOnce`, `LinkReturns`, `SessionServed` |
| `port` | an asker over two slots, a drain of two messages, a reply queue of one, one late answer, one command ignored or refused, a dead link | `PortTypeOK`, `SlotsTellTheTruth`, `LossBounded`, `KeepsContract`, `CallReturns`, `MessagesFetched` |
| `linking` | one mesh channel, one failed request or lost event or connection, one deletion, one admin command | `DeadLinkHeals`, `InboxHeals`, `StartupLinks` |
| `services` | five parts, of which one moves | below |

* `PiecesInOrder`: a piece of a split goes out only after every earlier piece
  reached the far end, over resends too. `TickIsEarned`: no ✅ without the
  acknowledgements it stands for. `OneOwner`: two goroutines never answer one
  send, but for the race below. `NoDoubleCount`: the group of the
  present attempt never accounts for more pieces than it skipped or put on the air;
  that of an older one, whose skips are not kept, for no more than there are.
* `SenderReturns`: the lock on the radio is always given back. `RowsAnswered`,
  `HourglassAnswered`: no row stays pending, through a crash, and no hourglass
  while the process lives. A restart is excused from the second: the rows it
  strands are crossed, but the original of a split whose pieces had their answer,
  the rest not posted yet, keeps its hourglass.
* `NoPostForgotten`: a post under an hourglass is somebody's. `SentOnce`: it has
  one owner, goes out once, and never after its cross. `HeldAnswered`: it is sent
  or crossed in the end, unless its password is forgotten.
* `OneSession`, `StoppedClean`, `ServedOnce`: sessions follow one another.
  `LinkReturns`, `SessionServed`: after any run of failures there is one, and
  somebody serves it.
* `SlotsTellTheTruth`: no slot gets the name of another, whatever timed out.
  `LossBounded`: messages are lost only to answers past their deadline, two to one
  such answer at the most; this is about commands of one reply, and not about a
  listing of the contacts that is given up and leaves many frames. `KeepsContract`: the refinement above. `CallReturns`,
  `MessagesFetched`: every command returns, every message the node queued is
  relayed, lost to a late answer, or waits for a link that died.
* `DeadLinkHeals`, `InboxHeals`: while messages keep coming, a source ends up with
  a channel that exists or with the inbox, and the inbox exists. Both are
  conditional on messages, since it is the relay that finds a dead channel whose
  deletion was missed. They say what remains in the end, not that nothing is left
  beside it: an inbox or a channel made twice stays in Discord as an orphan. `StartupLinks`: radio and Discord may come up in
  either order.

The run `services` chooses one of five parts and lets it move; the parts meet only
through what each assumes of the others, and their states are small enough to
share a run.

| Part | Instance | Properties |
|---|---|---|
| contacts | two contacts, all on the node at first or none, one edit or change by the node, two frames lost or listings cut short | `KnownStay`: what the node has held all along is not forgotten over a listing cut short or refused, as long as no frame is lost or left over; `ContactsConverge`: cache and mirror end up as the node's list |
| heard | two pieces, two attempts, one route, refusals, pieces with no fingerprint | `OneVerdict`: a tick or a satellite, once; `SupersededSilent`: a piece still listened for when a later attempt began to listen on its message says nothing more; `OriginalAnswered`: the original and every message under it are answered in the end, unless the bridge stops |
| cli | two runners, three requests, two logins, a line of output each | `AnswersMatch`: no runner is the audience of another that still waits; `EverythingReturns`: every run returns, and no room login is in flight for ever |
| gateway | three events, two mishaps, a throttle of two units | `NothingMissed`: the events of a session once, in order, over every resume; `IdentifyPaced`; `GatewayComesBack` |
| rest | two goroutines, two buckets of one request a window, three attempts, two glitches | `PacedOnceKnown`: nothing is sent into a bucket known to be empty; `RequestsReturn` |

Why the bounds are enough. Two pieces and two attempts are the least with an
earlier piece, a later piece, a skipped one and one that failed on another
attempt; the resend that picks too much needs a third piece and has its own
instance. Two posts and a queue of one give a full queue, a post held behind
another, and a post typed after a verdict; two attempts and one unacknowledged
post give first, repeated and exhausted. Three faults and two changes of radio
make every failure meet every other with a change in between. A reply queue of one
is full as soon as one stray is in it; two messages and two slots are the least
where one thing can be taken for another; the asker is of the kind with a second
attempt and a cache, and the drain and the handshake are the other kinds. In
`linking` one mishap of each kind meets every interleaving of the six goroutines;
admin commands are taken on runs without faults and deletions only
(`MaxUpsets` is zero), which keeps the run in minutes, and a second mesh channel or
a room as well is beyond it. Of two contacts one can be missing from a list that is
not empty, which tells a merged cache from a replaced one, and of two delays one
leaves frames on the wire and the other lets the next listing begin with them. Two
pieces and two attempts at a channel message give a piece superseded, one refused
and one posted anew beside it. Two requests share a bucket or do not; three attempts are the code's.
Every bound that caps a counter (`MaxLate`, `MaxIgnored`, `MaxFaults`,
`MaxMishaps`, `MaxGlitches`, `MaxDelays`, ...) is a constant of its module and a
guard of the actions that spend it.

### Where the code disagrees with what it says

Four runs check what the repository says of itself and fail:

| Run | What TLC finds |
|---|---|
| `delivery_late` | the sweep moves a send to `failed`, unlocks, and then writes the row and the cross; an acknowledgement taken in between is recorded first and overwritten (`outbound.go:1096`) |
| `room_rejected` | `handleLoginResult` empties the queue before `giveUpOnRoom` looks at it: posts held for a rejected login keep their hourglass (`outbound.go:1872`) |
| `link_radio` | a radio changed while the supervisor connects leaves the link on the old one: the session to close is not published yet (`bridge.go:305`) |
| `link_dropped` | a request that fails for any reason counts as a deleted channel, so a Bootstrap during an outage of Discord drops the links to channels that exist (`rest.go:606`) |

Nine more configurations are kept to be run by hand; each one fails in a few
states:

| Configuration | Property | What TLC finds |
|---|---|---|
| `MCDeliveryOrphans` | `OrphansOnly` | `setup` runs after every READY and fails rows whose sends are alive in the pending table (`bridge.go:342`) |
| `MCDeliveryResend` | `ResendPicksOnlyMissing` | a split abandoned before its last piece has no echo row for the pieces never tried, so `previousChunks` gives up and a resend repeats the landed ones (`outbound.go:636`) |
| `MCRoomEvicted` | `DroppedStaysDropped` | a session dropped for a run of silence is restored from the recorded login by the next reconnect (`outbound.go:1608`) |
| `MCRoomHourglass` | `CrossReplacesHourglass` | the hourglass of a held post goes on after the unlock, and may land beside a cross (`outbound.go:1506`) |
| `MCHeardOlder` | `NewVerdictStands` | only a resend that is listened for silences the older attempt: after one that the node refuses, or that has no fingerprint, the older window or a repeat of the older transmission writes its verdict over the new one (`heard.go:77`) |
| `MCLinkRace` | `LiveLinksStay` | `Bootstrap` reads the links once and deletes each by its key: one that was made anew meanwhile, to a channel that exists, is deleted in the old one's place (`setup.go:203`) |
| `MCContactWhole` | `EndMeansWhole` | a frame lost, or left over by a listing cut short: the list that the next one's end delivers lacks a contact, which is then deleted from cache and mirror (`client.go:715`) |
| `MCContactRename` | `RenameKeepsPath` | a rename sends back the path cached at the last refresh, and so overwrites one learnt since (`client.go:914`) |
| `MCGatewayIdentify` | `IdentifyOnce` | the throttle notes the time before it waits, not when the identify goes out, so that after one that waited, or was late, and a connection lost at once, the next follows closer than the five seconds of the comment (`gateway.go:374`) |

And one that needs no model: `rest.go:254` speaks of "retrying a 429 once", and
`do` makes up to three attempts.

A rejection is absent from the passing room runs, since it breaks
`NoPostForgotten` at once, and so is a mid-run READY from `delivery`.

### Fairness

Weak fairness on the steps of goroutines that only wait for the scheduler, a
timer or a lock that is always released: the sender (in `HeardWatch` the turns of
its loop), the workers, the sweep of
`housekeeping` (a ticker), deadlines, the stages of a login, the supervisor and
`meshLoop`, a collector that waits for a reply or its timer, the drain's ticker,
the runners of the CLI, the builders and linkers of `Linking`, the Gateway's
reader, heartbeat and reconnection, the steps of a request.

Strong fairness in three places where a goroutine competes for a lock that others
take and release again and again: `Begin` of the command port and `BeginListing`
and `EditStep` of the contact list. Go's mutex hands itself to a waiter that has
been starved for a millisecond, so a goroutine that keeps waiting gets its turn.

`RoomSession` assumes that the supervisor brings the link back (`Connect`), which
is what `LinkReturns` shows of it; `Linking` assumes that Gateway and radio come
back, which `GatewayComesBack` and `LinkReturns` show. Of the outside, `Gateway`
and `RestLimiter` assume that Discord answers and that its windows end. The node
is fair in `CommandPort` only in that what it has been asked it answers, or leaves
to the timer. Nothing is assumed of the mesh, a room, a repeater or the user: a
room may stay silent for ever, and no packet need ever be overheard. Faults that
would otherwise go on for ever are bounded, so liveness means "once they stop".
The actions of typing, resending, refreshing and failing have no fairness.
Deadlock is not checked: a system with nothing left to do stops.

## 4. What is proved

`DeliveryProofs`, for every number of pieces, attempts and restarts and every
set of faults:

* `TypeCorrect`: `Spec => []TypeOK`. `TypeOK` is not inductive alone: an action
  that uses the current send, or the send of a job, needs that there is one, so
  `TypeInv` adds that a sender at work has started an attempt and that every job
  has a real send.
* `InOrder`: `Spec => []PiecesInOrder`. The order is decided by a channel, a row
  and a snapshot of rows, so the invariant ties each to the far end: a settled
  channel or a delivered row means an acknowledgement (`AcksAreReal`), the latest
  row of a piece is of an earlier or the present attempt (`LatestIsPast`), what a
  resend skips landed on an earlier one (`SkipLanded`), and every piece before the
  one the sender is at has been reached (`EarlierReached`).
* `OneOwnerEach`: `Spec => []OneOwner`. The maps, the lists of the two sweeps and
  the jobs hand a send on in one step each; what has to be shown is that a send
  that is registered is new to all of them. `OwnerInv` says that whatever they hold
  lies behind the place where the sender is (`TrackedPast`), that whatever went on
  the air does too (`AirPast`), and which worker may do what (`Roles`: only
  `meshLoop` confirms, only `setup` strands).
* `NothingCountedTwice`: `Spec => []NoDoubleCount`. `Counted` bounds what
  the group of an attempt accounts for by the pieces the sender has dealt with and
  that nobody still has to tell it of, so an answer that is given takes a piece from
  the one side to the other, once. Whatever is tracked was on the air
  (`TrackedOnAir`).
* `TicksAreEarned`: `Spec => []TickIsEarned`. A tick is written several steps after
  its verdict, and the verdict is read off a tally, so `TickInv` follows it back:
  a group counts as delivered only pieces whose acknowledgement it has been told of
  (`DeliveredCounted`, with `TakenOut`: what `meshLoop` answers has left `failed`,
  so that a late answer is corrected once), a worker that carries "ok" carries it
  because every piece landed (`TicksKnown`), and the original of a split is never
  the echo of one piece (`EchoesOwn`).

`RoomProofs`, for any number of posts, any cap of the queue and every limit:

* `TypeCorrect` (`TypeOK`): among others that the queue keeps its cap whoever adds
  to it; `flushRoomQueue` is never started with nothing to send (`NoneEmpty`).
* `PostsSentOnce` (`SentOnce`), for every fault: a post not yet typed or still in
  `discordLoop`'s hand is nowhere else (`FreshIsFree`), no queue holds a post twice
  (`Distinct`), and no two of the queues share one (`Apart`).
* `PostsRemembered` (`NoPostForgotten`), assuming `"rejected" \notin Faults`: a
  rejection loses the posts its verdict took, as `room_rejected` shows, and nothing
  else does. The hourglass of a held post goes on after the unlock, so `Remembered`
  speaks of the post in that gap too: it is on the air, owned or crossed already.

`LinkProofs`, for any number of faults and changes of radio: `LinkTypeCorrect`,
`OneAlive` (`OneSession`), `CleanStop` (`StoppedClean`) and `SetUpAtMostOnce`
(`ServedOnce`). The invariant `LinkInv` says that every session but the last is
closed and the last is published exactly while the supervisor watches it
(`Succession`), that each session that ended cost a fault or a change
(`EndsCounted`, which bounds their number), and that what `meshLoop` has set up
is served or ended (`SetUpOnce`).

`PortProofs`, for any number of askers, messages, slots and late answers:

* `PortTypeCorrect` (`PortTypeOK`), `NoWrongName` (`SlotsTellTheTruth`) and
  `PortKeepsContract`, the refinement of `PortContract` (`KeepsContract`), step by
  step. `PortInv` says that at most one frame on all three queues is awaited, and by
  the holder of the lock (`Awaited`), that it fits his command (`Fitting`), and that
  the strays of an open session have each missed a deadline (`StraysLate`). The
  drains, the handshake and the askers give up differently, and each of them turns
  the awaited frame into a stray exactly once.
* `LossIsBounded` (`LossBounded`), assuming `"any" \notin Kinds`. A late answer
  costs the message it is taken for, and the one that finds the queue full of it:
  `Paid` counts what the strays on the way and in the queue may still cost. The
  assumption leaves out `RoomLogout` (`client.go:1036`), which is content with
  whatever comes first: it can take a message, and leaves its own answer as a stray
  without any deadline missed, so TLC finds three messages lost to one late answer
  once such a command is among `Kinds`. The other three theorems hold with it.

`HeardProofs`, for any number of pieces, attempts and routes: `VerdictOnce`
(`OneVerdict`) and `NoLateVerdict` (`SupersededSilent`), with every resend among
them, refused and unheard pieces too. That an attempt answers once is decided
between three goroutines, so `HeardInv` says who owes the answer: a piece not yet
tried has none (`Untried`), a listed watch is open and silent until it has heard
something (`Listening`), the packet being noted owes its tick until it is given
(`Noted`), a window that ended in silence owes its satellite (`Closed`), and a piece
whose listening was taken over owes nothing (`Silent`). `Counted` bounds the group
by the pieces that gave their verdict; one that lacks a piece never comes to answer
the original.

`CLIProofs`, for any number of runners, commands, logins and lines:
`RegistrationsAlwaysHeld` (`RegistrationsHeld`, a lemma of the next more than a
property to run: a registration is its owner's and goes with it) and `NoWrongAnswer`
(`AnswersMatch`). A line does not say which command it answers; `Accounted` says
that whatever can still become a line is of a command that the registered runner
collects for, or of one whose runner left before the last line, which is the case
the property excuses.

`GatewayProofs`, for any number of events, lost connections and resumes:
`NoEventMissed` (`NothingMissed`). `GatewayInv` says that the session the client
knows is Discord's latest (`Session`), that the numbered frames on the wire go on
from the client's number without a gap or a repeat (`Ordered`) up to the last
event (`Complete`), and that what was handled is exactly the events up to that
number. Lost connections empty the wire, and a RESUME
brings back what `Complete` needs because the number sent is the number read.
`NeverThreeIdentifies` (`IdentifyPaced`), for any window: only the latest
identify can be younger than the time the throttle noted, and whoever waits, waits
until all but the latest have left the window (`Marked`); the ages of the recent ones
are in order (`Sorted`).

`RestProofs`, for any number of goroutines, buckets and mishaps: `PacedAlways`
(`PacedOnceKnown`). A request decides on what the last answer left, waits, and is
sent later; `RestInv` says that whoever is past the lock holds it (`Locked`) and
that the client never thinks more is left than Discord would accept, unless an
answer's headers never came (`Cautious`).

The only assumptions besides the two named above are those the modules state on
their constants: natural numbers, at least one piece, a queue and a limit of at
least one, a name that is nobody's. Proofs about `HeardWatch`, `RemoteCLI`,
`Gateway` and `RestLimiter` are about each module's own specification, of which
`MCServices` runs the instances. TLC checked every invariant on small instances
before it was proved.

Every invariant and every refinement that the passing runs check is therefore a
theorem. Only model-checked are every liveness property, since liveness under
fairness and `ENABLED` are out of the prover's reach, and all that the runs say of
`ContactCache` and `Linking`: there a property speaks of what things come to in the
end, but for `KnownStay`, which is an action property.

## 5. Not modelled, and why

Frame codecs, chunking, formatting, pages and the control socket are functions of
one input or keep no state that several actors touch; the repository tests them
value by value. Transports and the database are I/O; their failures appear as the
faults of the modules above. Settings are the timeouts and windows of the others.

Of the modelled components these are left out: retry stamps and the logins that
invalidate them; several rooms at once; the repeat guard on inbound messages
(`bridge.go:634`) and the texts that are relayed; categories, the admin channel
and the registration of commands; numbered snapshots, interaction slots and
commands that only report; the length of every backoff and the address a session
is resumed at (`gateway.go:181`).

Hazards of this code that no property covers, besides those `PROJECT.json` gives a
note:

* `InsertMessage`'s error is ignored (`outbound.go:827`): the send goes on without
  a row, and neither a restart nor the history knows of it.
* Two sends with one 32-bit handle share a slot of the pending map
  (`outbound.go:944`).
* A post typed after the verdict may overtake those being flushed
  (`outbound.go:1887`): the code promises no order between the two.
* A restart forgets held posts with their queue (`outbound.go:1502`); their
  hourglass stays.
* The inbound repeat guard may hide a message that was queued and not relayed
  (`bridge.go:634`).
* A request repeated after a server error may have been carried out the first time
  (`rest.go:322`), so a message or a channel can appear twice. `Linking` has the
  orphan this leaves, as a failed creation, but not the duplicate.
* A watch that heard a repeat just before the resend took over still writes its tick,
  over the new hourglass (`heard.go:168`): `SupersededSilent` speaks of attempts that
  had no verdict yet.

## 6. Plan

1. An unconditional account of `NoPostForgotten` (which posts a rejection loses) and
   of `LossBounded` (what each logout adds); invariants of `ContactCache` and
   `Linking` on which their liveness rests.
2. `WebLogin`: the login limiter, the session generations that a changed password
   ends (`server/`).
3. `AdminSnapshots`: numbered lists and the eight interaction slots (`admin.go`,
   `commands.go`).
4. The inbound repeat guard and the event queue, with the retry stamps of room
   posts and the logins that invalidate them.
5. BLE bond repair (`ble_linux.go`); `ReadFrame` and `sliceOffsets` against
   reference definitions.
6. Abstract specifications: a ledger of answered messages that `Delivery`
   implements, an ordered mailbox that `RoomSession` implements.
