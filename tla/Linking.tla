------------------------------ MODULE Linking ------------------------------
(***************************************************************************)
(* The Discord side of the bridge: which channel each mesh source is       *)
(* linked to, the inbox that takes the rest, and everything that creates,  *)
(* checks, drops or loses one (bridge/setup.go, bridge.go, admin.go).      *)
(*                                                                         *)
(* Five goroutines do so without a lock of their own: the setup that a     *)
(* READY starts, the event loop, the relay of inbound messages, the        *)
(* auto-linking of a fresh radio session, and the command of an admin,     *)
(* and a sixth that rebuilds a channel the relay found dead.  Each call to *)
(* Discord is a step, so that they interleave at every one of them.        *)
(*                                                                         *)
(* A Discord channel is its id, 0 for none; categories, the admin channel  *)
(* (treated as the inbox is) and command registration are left out.        *)
(***************************************************************************)
EXTENDS Integers, Sequences

CONSTANTS
  Slots,        \* mesh channels
  Rooms,        \* contacts: room servers and people
  MaxChannels,  \* ids of Discord channels
  MaxFaults,    \* failed requests, lost events and lost connections
  MaxDeletes,   \* channels the users delete
  MaxCommands,  \* admin commands
  MaxUpsets     \* faults and deletions in a run with admin commands

Keys == Slots \union Rooms

ASSUME LinkingAssumption ==
  /\ Slots \intersect Rooms = {}
  /\ {MaxChannels, MaxFaults, MaxDeletes, MaxCommands, MaxUpsets} \subseteq Nat

VARIABLES
  autoCreate, \* the settings: the sources whose channel is created by itself
  alive,      \* the channels that exist
  inbox,      \* the stored id of the inbox
  routes,     \* the stored id each source is linked to
  events,     \* Bridge.events, the CHANNEL_DELETEs in it
  gateway,    \* the Gateway: up, down, or new, never yet connected
  ready,      \* Bridge.ready
  session,    \* is the radio's session up?
  slots,      \* the mesh channels that session has read
  called,     \* has meshLoop a syncAfterMesh that has not passed its guards?
  boot,       \* where each goroutine is in Bootstrap
  linker,     \* where each goroutine is in creating a link
  faults, deletes, commands

linkingVars == <<autoCreate, alive, inbox, routes, events, gateway, ready, session,
                 slots, called, boot, linker, faults, deletes, commands>>
discordVars == <<autoCreate, alive, inbox, routes>>
stateVars == <<gateway, ready, session, slots, called>>

Builders == {"setup", "loop", "rescue"}
Linkers == {"relay", "sync", "admin"}

NoBoot == [at |-> "idle", id |-> 0, todo |-> {}, sync |-> FALSE]
NoLinker == [at |-> "idle", key |-> "none", id |-> 0, todo |-> {}, by |-> "none"]

\* A finished Bootstrap, with or without an error.
Resting(p) == boot[p].at \in {"idle", "failed"}
LoopIsFree == Resting("loop") /\ linker["admin"].at = "idle"

LinkingInit ==
  /\ autoCreate \in SUBSET Keys
  /\ alive = {1} /\ inbox \in {0, 1}
  /\ routes = [k \in Keys |-> 0]
  /\ events = <<>>
  /\ gateway = "new" /\ ready = FALSE /\ session = FALSE /\ slots = {} /\ called = FALSE
  /\ boot = [p \in Builders |-> NoBoot]
  /\ linker = [l \in Linkers |-> NoLinker]
  /\ faults = 0 /\ deletes = 0 /\ commands = 0

Upset == commands > 0 => faults + deletes < MaxUpsets

\* A step that goes wrong, which one that goes right never needs.
Fault == faults < MaxFaults /\ Upset /\ faults' = faults + 1
NoFault == UNCHANGED faults

Linked(id) == {k \in Keys : routes[k] = id}
Unlink(ks) == [k \in Keys |-> IF k \in ks THEN 0 ELSE routes[k]]
-----------------------------------------------------------------------------
(***************************************************************************)
(* Requests to Discord.                                                    *)
(***************************************************************************)

\* The ids that something still refers to.  One that nothing does, of an orphan
\* or of a deleted channel, stands for any new id.
Referred ==
  {inbox} \union {routes[k] : k \in Keys} \union {events[i] : i \in DOMAIN events}
    \union {linker[l].id : l \in Linkers} \union {boot[p].id : p \in Builders}
    \union UNION {{link[2] : link \in boot[p].todo} : p \in Builders}

NewId == CHOOSE id \in 1 .. MaxChannels :
           id \notin Referred /\ \A other \in 1 .. id - 1 : other \in Referred

\* The request that makes a channel.
CreateChannel == alive' = (alive \intersect Referred) \union {NewId}

\* ChannelExists: any error of the request counts as gone (rest.go:606).
ChannelExists(id) == id \in alive /\ NoFault
ChannelGone(id) == IF id \in alive THEN Fault ELSE NoFault

\* CHANNEL_DELETE of a channel, unless the queue is full or the Gateway is down.
Announce(id) ==
  \/ events' = Append(events, id) /\ NoFault
  \/ gateway # "up" /\ UNCHANGED events /\ NoFault
  \/ gateway = "up" /\ UNCHANGED events /\ Fault

\* Somebody deletes a channel in Discord.
UserDeletes(id) ==
  /\ id \in Referred /\ deletes < MaxDeletes /\ Upset
  /\ deletes' = deletes + 1
  /\ alive' = alive \ {id}
  /\ Announce(id)
  /\ UNCHANGED <<autoCreate, inbox, routes, stateVars, boot, linker, commands>>
-----------------------------------------------------------------------------
(***************************************************************************)
(* Bootstrap.                                                              *)
(***************************************************************************)

\* Bootstrap, followed by syncAfterMesh in setup and in Rediscover.
StartBoot(p, sync) == boot' = [boot EXCEPT ![p] = [NoBoot EXCEPT !.at = "inbox", !.sync = sync]]

\* The stored inbox is verified: kept, or to be cleared.
BootInbox(p) ==
  /\ boot[p].at = "inbox"
  /\ \/ /\ \/ inbox = 0 /\ NoFault
           \/ ChannelExists(inbox)
        /\ boot' = [boot EXCEPT ![p].at = "create"]
     \/ /\ inbox # 0 /\ ChannelGone(inbox)
        /\ boot' = [boot EXCEPT ![p].at = "clear"]
  /\ UNCHANGED <<discordVars, events, stateVars, linker, deletes, commands>>

BootClear(p) ==
  /\ boot[p].at = "clear"
  /\ inbox' = 0
  /\ boot' = [boot EXCEPT ![p].at = "create"]
  /\ UNCHANGED <<autoCreate, alive, routes, events, stateVars, linker, faults, deletes, commands>>

\* The list of links, read once.
Snapshot == {<<k, routes[k]>> : k \in {k \in Keys : routes[k] # 0}}
ReadLinks(p) == boot' = [boot EXCEPT ![p].at = "links", ![p].id = 0, ![p].todo = Snapshot]

\* An inbox is created if there is none; a failure ends Bootstrap.
BootCreate(p) ==
  /\ boot[p].at = "create"
  /\ \/ /\ inbox # 0 /\ NoFault
        /\ ReadLinks(p)
        /\ UNCHANGED alive
     \/ /\ inbox = 0 /\ CreateChannel /\ NoFault
        /\ boot' = [boot EXCEPT ![p].at = "save", ![p].id = NewId]
     \/ /\ inbox = 0 /\ Fault
        /\ boot' = [boot EXCEPT ![p] = [NoBoot EXCEPT !.at = "failed"]]
        /\ UNCHANGED alive
  /\ UNCHANGED <<autoCreate, inbox, routes, events, stateVars, linker, deletes, commands>>

BootSave(p) ==
  /\ boot[p].at = "save"
  /\ inbox' = boot[p].id
  /\ ReadLinks(p)
  /\ UNCHANGED <<autoCreate, alive, routes, events, stateVars, linker, faults, deletes,
                 commands>>

\* One link of the list: dropped, by its key, if its channel is not found.
BootLink(p) ==
  /\ boot[p].at \in {"links", "tidy"}
  /\ \E link \in boot[p].todo :
       /\ boot' = [boot EXCEPT ![p].todo = @ \ {link}]
       /\ \/ /\ ChannelExists(link[2])
             /\ routes' = IF boot[p].at = "tidy" /\ session /\ link[1] \in Slots \ slots
                          THEN Unlink({link[1]}) ELSE routes
          \/ /\ ChannelGone(link[2])
             /\ routes' = Unlink({link[1]})
  /\ UNCHANGED <<autoCreate, alive, inbox, events, stateVars, linker, deletes, commands>>

\* Mutant of BootDone: setup leaves the auto-linking to the radio's side.
BootDoneAlone(p) ==
  /\ boot[p].at \in {"links", "tidy"} /\ boot[p].todo = {}
  /\ ready' = (ready \/ p = "setup")
  /\ boot' = [boot EXCEPT ![p] = NoBoot]
  /\ UNCHANGED <<discordVars, events, gateway, session, slots, called, linker, faults,
                 deletes, commands>>

\* Bootstrap returns.
BootDone(p) ==
  /\ boot[p].at \in {"links", "tidy"} /\ boot[p].todo = {}
  /\ ready' = (ready \/ p = "setup")
  /\ boot' = [boot EXCEPT ![p] = [NoBoot EXCEPT !.at = IF boot[p].sync THEN "sync" ELSE "idle"]]
  /\ UNCHANGED <<discordVars, events, gateway, session, slots, called, linker, faults,
                 deletes, commands>>

BootStep(p) ==
  BootInbox(p) \/ BootClear(p) \/ BootCreate(p) \/ BootSave(p)
    \/ BootLink(p) \/ BootDone(p)
-----------------------------------------------------------------------------
(***************************************************************************)
(* The Gateway's events.                                                   *)
(***************************************************************************)

\* READY of a new session: setup runs, unless it still does.
GatewayReady ==
  /\ gateway # "up"
  /\ gateway' = "up"
  /\ IF Resting("setup") THEN StartBoot("setup", TRUE) ELSE UNCHANGED boot
  /\ UNCHANGED <<discordVars, events, ready, session, slots, called, linker, faults,
                 deletes, commands>>

\* RESUMED of the old one.
GatewayResumes ==
  /\ gateway = "down"
  /\ gateway' = "up"
  /\ UNCHANGED <<discordVars, events, ready, session, slots, called, boot, linker, faults,
                 deletes, commands>>

Disconnected ==
  /\ gateway = "up" /\ Fault
  /\ gateway' = "down" /\ ready' = FALSE
  /\ UNCHANGED <<discordVars, events, session, slots, called, boot, linker, deletes, commands>>

\* Mutant of OnChannelDelete: the inbox is not repaired.
OnChannelDeleteForgets ==
  /\ LoopIsFree /\ events # <<>>
  /\ events' = Tail(events)
  /\ routes' = Unlink(Linked(Head(events)))
  /\ inbox' = IF Head(events) = inbox THEN 0 ELSE inbox
  /\ UNCHANGED <<autoCreate, alive, stateVars, boot, linker, faults, deletes, commands>>

\* discordLoop takes a CHANNEL_DELETE: the link goes, or the inbox is rebuilt.
OnChannelDelete ==
  /\ LoopIsFree /\ events # <<>>
  /\ events' = Tail(events)
  /\ LET id == Head(events) IN
       \/ /\ Linked(id) # {}
          /\ routes' = Unlink(Linked(id))
          /\ UNCHANGED <<inbox, boot>>
       \/ /\ Linked(id) = {} /\ id = inbox
          /\ inbox' = 0
          /\ StartBoot("loop", FALSE)
          /\ UNCHANGED routes
       \/ /\ Linked(id) = {} /\ id # inbox
          /\ UNCHANGED <<inbox, routes, boot>>
  /\ UNCHANGED <<autoCreate, alive, stateVars, linker, faults, deletes, commands>>
-----------------------------------------------------------------------------
(***************************************************************************)
(* Creating a link: the relay, the auto-linking and linkRow.               *)
(***************************************************************************)

\* createLinkedChannel.  On failure a message goes to the inbox instead.
LinkCreate(l) ==
  /\ linker[l].at = "create"
  /\ \/ /\ CreateChannel /\ NoFault
        /\ linker' = [linker EXCEPT ![l].at = "put", ![l].id = NewId]
     \/ /\ Fault
        /\ linker' = [linker EXCEPT ![l].at = IF l = "relay" THEN "post" ELSE "next",
                                    ![l].id = IF l = "relay" THEN inbox ELSE 0]
        /\ UNCHANGED alive
  /\ UNCHANGED <<autoCreate, inbox, routes, events, stateVars, boot, deletes, commands>>

\* PutRoute: whatever the source was linked to, it is linked to this now.
LinkPut(l) ==
  /\ linker[l].at = "put"
  /\ routes' = [routes EXCEPT ![linker[l].key] = linker[l].id]
  /\ linker' = [linker EXCEPT ![l].at = IF l = "relay" THEN "post" ELSE "next"]
  /\ UNCHANGED <<autoCreate, alive, inbox, events, stateVars, boot, faults, deletes, commands>>

\* A message arrives: destinationFor.  Without an inbox it is dropped.
Hear(k) ==
  /\ session /\ linker["relay"].at = "idle"
  /\ linker' = [linker EXCEPT !["relay"] =
                  IF routes[k] # 0 THEN [NoLinker EXCEPT !.at = "post", !.id = routes[k]]
                  ELSE IF k \in autoCreate THEN [NoLinker EXCEPT !.at = "create", !.key = k]
                  ELSE IF inbox # 0 THEN [NoLinker EXCEPT !.at = "post", !.id = inbox]
                  ELSE [NoLinker EXCEPT !.at = "post"]]
  /\ UNCHANGED <<discordVars, events, stateVars, boot, faults, deletes, commands>>

\* Mutant of Post: a channel found dead is logged and that is all.
PostLogsOnly ==
  /\ linker["relay"].at = "post"
  /\ linker' = [linker EXCEPT !["relay"] = NoLinker]
  /\ NoFault \/ (linker["relay"].id # 0 /\ Fault)
  /\ UNCHANGED <<discordVars, events, stateVars, boot, deletes, commands>>

\* The message is posted, or fails, or its channel is dead: handleDeadChannel.  Two
\* rebuilds of the inbox at a time, which take a second deletion, are left out.
Post ==
  /\ linker["relay"].at = "post"
  /\ linker' = [linker EXCEPT !["relay"] = NoLinker]
  /\ LET id == linker["relay"].id IN
       \/ /\ \/ id \in alive \union {0} /\ NoFault
             \/ id # 0 /\ Fault
          /\ UNCHANGED <<inbox, routes, boot>>
       \/ /\ id \notin alive \union {0} /\ NoFault
          /\ \/ /\ Linked(id) # {}
                /\ routes' = Unlink(Linked(id))
                /\ UNCHANGED <<inbox, boot>>
             \/ /\ Linked(id) = {} /\ id = inbox /\ Resting("rescue")
                /\ inbox' = 0
                /\ StartBoot("rescue", FALSE)
                /\ UNCHANGED routes
             \/ /\ Linked(id) = {} /\ id # inbox
                /\ UNCHANGED <<inbox, routes, boot>>
  /\ UNCHANGED <<autoCreate, alive, events, stateVars, deletes, commands>>
-----------------------------------------------------------------------------
(***************************************************************************)
(* syncAfterMesh.                                                          *)
(***************************************************************************)

\* The guards; then the phantom links go and the list of slots is taken.
SyncStarts(by) ==
  /\ session /\ ready /\ linker["sync"].at = "idle"
  /\ routes' = Unlink(Slots \ slots)
  /\ linker' = [linker EXCEPT !["sync"] =
                  [NoLinker EXCEPT !.at = "next", !.todo = slots \intersect autoCreate, !.by = by]]

SyncRefused ==
  /\ ~(session /\ ready /\ linker["sync"].at = "idle")
  /\ UNCHANGED <<routes, linker>>

\* Called by setup, or by Rediscover.
SyncAfterBoot(p) ==
  /\ boot[p].at = "sync"
  /\ \/ SyncStarts(p) /\ boot' = [boot EXCEPT ![p].at = "syncing"]
     \/ SyncRefused /\ boot' = [boot EXCEPT ![p] = NoBoot]
  /\ UNCHANGED <<autoCreate, alive, inbox, events, stateVars, faults, deletes, commands>>

\* Called in a goroutine of its own by meshLoop.
SyncAfterConnect ==
  /\ called
  /\ called' = FALSE
  /\ SyncStarts("mesh") \/ SyncRefused
  /\ UNCHANGED <<autoCreate, alive, inbox, events, gateway, ready, session, slots, boot, faults,
                 deletes, commands>>

\* The next slot of the list that is not linked, or the end.
SyncNext ==
  /\ linker["sync"].at = "next"
  /\ \/ \E k \in linker["sync"].todo :
          /\ linker' = [linker EXCEPT !["sync"].todo = @ \ {k}, !["sync"].key = k,
                                      !["sync"].at = IF routes[k] = 0 THEN "create" ELSE "next"]
          /\ UNCHANGED boot
     \/ /\ linker["sync"].todo = {}
        /\ linker' = [linker EXCEPT !["sync"] = NoLinker]
        /\ boot' = [p \in Builders |-> IF boot[p].at = "syncing" THEN NoBoot ELSE boot[p]]
  /\ UNCHANGED <<discordVars, events, stateVars, faults, deletes, commands>>

\* The radio connects; a slot whose query timed out is not among those read.
MeshUp ==
  /\ ~session
  /\ session' = TRUE /\ called' = TRUE
  /\ \/ slots' = Slots /\ NoFault
     \/ \E s \in (SUBSET Slots) \ {Slots} : slots' = s /\ Fault
  /\ UNCHANGED <<discordVars, events, gateway, ready, boot, linker, deletes, commands>>

MeshDown ==
  /\ session /\ Fault
  /\ session' = FALSE /\ slots' = {}
  /\ UNCHANGED <<discordVars, events, gateway, ready, called, boot, linker, deletes, commands>>
-----------------------------------------------------------------------------
(***************************************************************************)
(* Admin commands.                                                         *)
(***************************************************************************)

Command ==
  /\ gateway # "new" /\ LoopIsFree
  /\ commands < MaxCommands /\ faults + deletes <= MaxUpsets
  /\ commands' = commands + 1

AdminLink(k) ==
  /\ Command
  /\ routes[k] = 0
  /\ linker' = [linker EXCEPT !["admin"] = [NoLinker EXCEPT !.at = "create", !.key = k]]
  /\ UNCHANGED <<discordVars, events, stateVars, boot, faults, deletes>>

AdminLinked ==
  /\ linker["admin"].at = "next"
  /\ linker' = [linker EXCEPT !["admin"] = NoLinker]
  /\ UNCHANGED <<discordVars, events, stateVars, boot, faults, deletes, commands>>

AdminRemove(k) ==
  /\ Command
  /\ routes' = Unlink({k})
  /\ UNCHANGED <<autoCreate, alive, inbox, events, stateVars, boot, linker, faults, deletes>>

AdminTidy ==
  /\ Command
  /\ boot' = [boot EXCEPT !["loop"] = [NoBoot EXCEPT !.at = "tidy", !.todo = Snapshot]]
  /\ UNCHANGED <<discordVars, events, stateVars, linker, faults, deletes>>

AdminRediscover ==
  /\ Command
  /\ inbox' = 0 /\ routes' = Unlink(Keys)
  /\ StartBoot("loop", TRUE)
  /\ UNCHANGED <<autoCreate, alive, events, stateVars, linker, faults, deletes>>

AdminReset ==
  /\ Command
  /\ boot' = [boot EXCEPT !["loop"] = [NoBoot EXCEPT !.at = "reset", !.todo = Snapshot]]
  /\ UNCHANGED <<discordVars, events, stateVars, linker, faults, deletes>>

\* DeleteChannel, which Discord announces; an error is ignored.
DeleteChannel(id) ==
  \/ alive' = alive \ {id} /\ Announce(id)
  \/ Fault /\ UNCHANGED <<alive, events>>

\* Reset deletes the linked channels, forgets the links, deletes the inbox.
ResetLink ==
  /\ boot["loop"].at = "reset"
  /\ \E link \in boot["loop"].todo :
       /\ DeleteChannel(link[2])
       /\ boot' = [boot EXCEPT !["loop"].todo = @ \ {link}]
  /\ UNCHANGED <<autoCreate, inbox, routes, stateVars, linker, deletes, commands>>

ResetRoutes ==
  /\ boot["loop"].at = "reset" /\ boot["loop"].todo = {}
  /\ routes' = Unlink(Keys)
  /\ boot' = [boot EXCEPT !["loop"].at = "wipe", !["loop"].id = inbox]
  /\ UNCHANGED <<autoCreate, alive, inbox, events, stateVars, linker, faults, deletes, commands>>

ResetInbox ==
  /\ boot["loop"].at = "wipe"
  /\ IF boot["loop"].id = 0 THEN UNCHANGED <<alive, events>> /\ NoFault
                              ELSE DeleteChannel(boot["loop"].id)
  /\ boot' = [boot EXCEPT !["loop"].at = "wiped"]
  /\ UNCHANGED <<autoCreate, inbox, routes, stateVars, linker, deletes, commands>>

ResetBoots ==
  /\ boot["loop"].at = "wiped"
  /\ inbox' = IF boot["loop"].id = 0 THEN inbox ELSE 0
  /\ StartBoot("loop", FALSE)
  /\ UNCHANGED <<autoCreate, alive, routes, events, stateVars, linker, faults, deletes, commands>>
-----------------------------------------------------------------------------
AdminStep == AdminLinked \/ ResetLink \/ ResetRoutes \/ ResetInbox \/ ResetBoots
BuilderStep(p) == BootStep(p) \/ SyncAfterBoot(p)
LinkerStep(l) == LinkCreate(l) \/ LinkPut(l)
RelayStep == LinkerStep("relay") \/ Post
SyncStep == LinkerStep("sync") \/ SyncNext \/ SyncAfterConnect

LinkingNext ==
  \/ \E id \in alive : UserDeletes(id)
  \/ GatewayReady \/ GatewayResumes \/ Disconnected \/ OnChannelDelete
  \/ MeshUp \/ MeshDown
  \/ \E k \in Keys : Hear(k) \/ AdminLink(k) \/ AdminRemove(k)
  \/ AdminTidy \/ AdminRediscover \/ AdminReset \/ AdminStep \/ LinkerStep("admin")
  \/ RelayStep \/ SyncStep
  \/ \E p \in Builders : BuilderStep(p)

\* Goroutines go on; the Gateway and the radio come back.
LinkingFairness ==
  /\ \A p \in Builders : WF_linkingVars(BuilderStep(p))
  /\ WF_linkingVars(AdminStep \/ LinkerStep("admin"))
  /\ WF_linkingVars(RelayStep) /\ WF_linkingVars(SyncStep)
  /\ WF_linkingVars(OnChannelDelete)
  /\ WF_linkingVars(GatewayReady \/ GatewayResumes) /\ WF_linkingVars(MeshUp)

LinkingSpec == LinkingInit /\ [][LinkingNext]_linkingVars /\ LinkingFairness
-----------------------------------------------------------------------------
(***************************************************************************)
(* Properties.                                                             *)
(***************************************************************************)

\* While messages for it keep coming, a source ends up with a channel that
\* exists, or with the inbox: a link to a deleted channel does not last, missed
\* CHANNEL_DELETE or not (bridge.go:679), and one that is created by itself does.
DeadLinkHeals ==
  \A k \in Keys :
    []<><<Hear(k)>>_linkingVars
    => <>[](routes[k] \in alive \union (IF k \in autoCreate THEN {} ELSE {0}))

\* While messages from sources without a channel keep coming, the inbox ends up
\* as a channel that exists, unless the last attempt to create it failed
\* (bridge.go:366, bridge.go:702).
InboxHeals ==
  \A k \in Keys :
    []<><<Hear(k) /\ routes[k] = 0 /\ k \notin autoCreate>>_linkingVars
    => <>[](inbox \in alive \/ \E p \in Builders : inbox = 0 /\ boot[p].at = "failed")

\* Whichever of Discord and the radio comes up second, every slot is linked once
\* both are, unless something failed or was deleted (setup.go:246).
StartupLinks ==
  <>(faults + deletes + commands > 0 \/ \A s \in Slots \intersect autoCreate : routes[s] # 0)

\* Only links "whose Discord channel no longer exists" (setup.go:193) are dropped
\* by a Bootstrap or a tidy-up.
LiveLinksStay ==
  [][\A p \in Builders, k \in Keys :
       (boot[p].at = "links" /\ boot'[p].at = "links" /\ routes[k] \in alive)
       => routes'[k] = routes[k]]_linkingVars
=============================================================================
