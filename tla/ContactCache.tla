---------------------------- MODULE ContactCache ----------------------------
(***************************************************************************)
(* The three copies of the contact list: on the node, in the session's     *)
(* cache (meshcore/client.go) and mirrored in the database (store.go).     *)
(* Housekeeping and the web console refresh the cache from the node by an  *)
(* enumeration, a stream of frames that can end early; the admin commands  *)
(* change the node first and then patch the cache and the mirror.          *)
(*                                                                         *)
(* A contact is its name and whether a path to it is known.  The command   *)
(* port is only the turn-taking that CommandPort checks.                   *)
(***************************************************************************)
EXTENDS Integers, SequencesExt

CONSTANTS
  Keys,       \* public keys
  MaxMoves,   \* admin commands, and changes the node makes by itself
  MaxDelays   \* listings cut short, left over, lost or refused

ASSUME ContactAssumption == MaxMoves \in Nat /\ MaxDelays \in Nat

VARIABLES
  onNode,     \* the node's contacts
  contacts,   \* Session.contacts
  mirror,     \* the contacts table
  stream,     \* frames of listings that have not been looked at
  lister,     \* the refresher whose command holds the port
  refresh,    \* how far each refresher has come
  edit,       \* the admin command under way
  moves, delays,
  steady,     \* contacts the node has had from the start
  torn        \* a frame was lost, or left over for the next listing

contactVars == <<onNode, contacts, mirror, stream, lister, refresh, edit, moves, delays,
                 steady, torn>>

Refreshers == {"housekeeping", "web"}

Absent == [name |-> 0, path |-> FALSE]
Contact(name, path) == [name |-> name, path |-> path]
Records == {Absent} \union {Contact(n, p) : n \in 1 .. 2, p \in BOOLEAN}

\* A frame of the stream, for one contact or for none.
NoKey == "none"
ListFrame(kind, key, record) == [kind |-> kind, key |-> key, record |-> record]
Mark(kind) == ListFrame(kind, NoKey, Absent)

Empty == [k \in Keys |-> Absent]

IdleRefresh == [at |-> "idle", got |-> Empty, complete |-> FALSE]
NoEdit == [at |-> "idle", op |-> "none", key |-> NoKey, copy |-> Absent]

ContactInit ==
  /\ onNode \in [Keys -> {Absent, Contact(1, FALSE)}]
  /\ contacts = Empty
  /\ mirror \in {Empty, onNode}
  /\ stream = <<>>
  /\ lister = "nobody"
  /\ refresh = [r \in Refreshers |-> IdleRefresh]
  /\ edit = NoEdit
  /\ moves = 0 /\ delays = 0
  /\ steady = {k \in Keys : onNode[k] # Absent}
  /\ torn = FALSE
-----------------------------------------------------------------------------
(***************************************************************************)
(* The node.                                                               *)
(***************************************************************************)

\* The node hears an advert of a contact it does not have, or learns a path.
NodeChanges ==
  /\ moves < MaxMoves
  /\ moves' = moves + 1
  /\ \E k \in Keys :
       onNode' = [onNode EXCEPT ![k] = IF @ = Absent THEN Contact(1, FALSE)
                                       ELSE Contact(@.name, TRUE)]
  /\ onNode' # onNode
  /\ UNCHANGED <<contacts, mirror, stream, lister, refresh, edit, delays, steady, torn>>

\* What a listing puts on the wire, after a start frame that changes nothing.
Listing ==
  LET present == SetToSeq({k \in Keys : onNode[k] # Absent})
  IN  Append([i \in DOMAIN present |-> ListFrame("contact", present[i], onNode[present[i]])],
             Mark("end"))

\* readLoop finds the queue full, or the node leaves the frame out.
FrameLost ==
  /\ delays < MaxDelays
  /\ delays' = delays + 1
  /\ \E i \in DOMAIN stream : stream' = RemoveAt(stream, i)
  /\ torn' = TRUE
  /\ UNCHANGED <<onNode, contacts, mirror, lister, refresh, edit, moves, steady>>
-----------------------------------------------------------------------------
(***************************************************************************)
(* RefreshContacts, and the persistence its callers do.                    *)
(***************************************************************************)

\* The port is taken and the leftovers drained, but for those still on the wire;
\* the node lists its contacts, or refuses.
BeginListing(r) ==
  /\ refresh[r].at = "idle" /\ lister = "nobody"
  /\ lister' = r
  /\ refresh' = [refresh EXCEPT ![r].at = "listing"]
  /\ \/ /\ stream' = Listing
        /\ UNCHANGED <<delays, torn>>
     \/ /\ delays < MaxDelays
        /\ delays' = delays + 1
        /\ \/ /\ \E i \in DOMAIN stream : stream' = SubSeq(stream, i, Len(stream)) \o Listing
              /\ torn' = TRUE
           \/ stream' = <<Mark("error")>> /\ UNCHANGED torn
  /\ UNCHANGED <<onNode, contacts, mirror, edit, moves, steady>>

\* The collector of enumerateContacts takes one frame.
Enumerate(r) ==
  /\ lister = r /\ stream # <<>>
  /\ LET f == Head(stream) IN
       \/ /\ f.kind = "contact"
          /\ refresh' = [refresh EXCEPT ![r].got[f.key] = f.record]
          /\ UNCHANGED lister
       \/ /\ f.kind = "end"
          /\ refresh' = [refresh EXCEPT ![r].at = "listed", ![r].complete = TRUE]
          /\ lister' = "nobody"
       \/ /\ f.kind = "error"
          /\ refresh' = [refresh EXCEPT ![r] =
                           IF @.got # Empty THEN [@ EXCEPT !.at = "listed"] ELSE IdleRefresh]
          /\ lister' = "nobody"
  /\ stream' = Tail(stream)
  /\ UNCHANGED <<onNode, contacts, mirror, edit, moves, delays, steady, torn>>

\* No frame for enumIdle, or the caller's context ends.  What arrived is kept.
EnumerationEnds(r) ==
  /\ lister = r
  /\ stream # <<>> => delays < MaxDelays
  /\ delays' = IF stream # <<>> THEN delays + 1 ELSE delays
  /\ lister' = "nobody"
  /\ refresh' = [refresh EXCEPT ![r] =
                   IF @.got # Empty THEN [@ EXCEPT !.at = "listed"] ELSE IdleRefresh]
  /\ UNCHANGED <<onNode, contacts, mirror, stream, edit, moves, steady, torn>>

\* Mutant of RefreshCache: a whole list is merged as well.
RefreshCacheMerges(r) ==
  /\ refresh[r].at = "listed"
  /\ contacts' = [k \in Keys |-> IF refresh[r].got[k] = Absent THEN contacts[k]
                                  ELSE refresh[r].got[k]]
  /\ refresh' = [refresh EXCEPT ![r].at = "persist"]
  /\ UNCHANGED <<onNode, mirror, stream, lister, edit, moves, delays, steady, torn>>

\* A whole list replaces the cache, a partial one is merged into it.
RefreshCache(r) ==
  /\ refresh[r].at = "listed"
  /\ contacts' = IF refresh[r].complete THEN refresh[r].got
                 ELSE [k \in Keys |-> IF refresh[r].got[k] = Absent THEN contacts[k]
                                       ELSE refresh[r].got[k]]
  /\ refresh' = [refresh EXCEPT ![r].at = "persist"]
  /\ UNCHANGED <<onNode, mirror, stream, lister, edit, moves, delays, steady, torn>>

\* UpsertContacts, or ReplaceContacts when the list is authoritative.
Written(authoritative) ==
  [k \in Keys |-> IF contacts[k] = Absent /\ ~authoritative THEN mirror[k] ELSE contacts[k]]

\* Mutant of Persist: housekeeping takes any list for whole.
PersistTrusts(r) ==
  /\ refresh[r].at = "persist"
  /\ mirror' = Written(r = "housekeeping")
  /\ refresh' = [refresh EXCEPT ![r] = IdleRefresh]
  /\ UNCHANGED <<onNode, contacts, stream, lister, edit, moves, delays, steady, torn>>

\* syncContacts; the console calls SyncContacts, which never deletes.
Persist(r) ==
  /\ refresh[r].at = "persist"
  /\ mirror' = Written(r = "housekeeping" /\ refresh[r].complete)
  /\ refresh' = [refresh EXCEPT ![r] = IdleRefresh]
  /\ UNCHANGED <<onNode, contacts, stream, lister, edit, moves, delays, steady, torn>>
-----------------------------------------------------------------------------
(***************************************************************************)
(* The admin commands: contact add, rename, path-reset and remove.         *)
(***************************************************************************)

\* What a command looks up before it goes to the node: the mirror resolves the
\* contact, and the cache supplies the record that a rename sends back.
StartEdit(op, k) ==
  /\ edit = NoEdit
  /\ moves < MaxMoves
  /\ moves' = moves + 1
  /\ op # "add" => mirror[k] # Absent
  /\ op \in {"rename", "reset"} => contacts[k] # Absent
  /\ edit' = [at |-> "node", op |-> op, key |-> k, copy |-> contacts[k]]
  /\ UNCHANGED <<onNode, contacts, mirror, stream, lister, refresh, delays, steady, torn>>

\* The record after the command: on the node, and in the cache.
Edited(record) ==
  CASE edit.op = "add" -> Contact(1, FALSE)
    [] edit.op = "rename" -> Contact(2, edit.copy.path)
    [] edit.op = "reset" -> IF record = Absent THEN Absent ELSE Contact(record.name, FALSE)
    [] OTHER -> Absent

\* The command at the node.  Its answer comes behind every leftover frame.
EditNode ==
  /\ edit.at = "node" /\ lister = "nobody"
  /\ stream' = <<>>
  /\ onNode' = [onNode EXCEPT ![edit.key] = Edited(@)]
  /\ steady' = {k \in steady : onNode'[k] # Absent}
  /\ \/ /\ edit.op \in {"reset", "remove"} => onNode[edit.key] # Absent
        /\ edit' = [edit EXCEPT !.at = "cache"]
        /\ UNCHANGED delays
     \/ /\ edit.op \in {"reset", "remove"} /\ onNode[edit.key] = Absent
        /\ edit' = NoEdit
        /\ UNCHANGED delays
     \/ /\ delays < MaxDelays   \* done, but the answer never came
        /\ delays' = delays + 1
        /\ edit' = NoEdit
  /\ UNCHANGED <<contacts, mirror, lister, refresh, moves, torn>>

EditCache ==
  /\ edit.at = "cache"
  /\ contacts' = [contacts EXCEPT ![edit.key] = Edited(@)]
  /\ edit' = [edit EXCEPT !.at = "persist"]
  /\ UNCHANGED <<onNode, mirror, stream, lister, refresh, moves, delays, steady, torn>>

EditPersist ==
  /\ edit.at = "persist"
  /\ mirror' = Written(FALSE)
  /\ edit' = NoEdit
  /\ UNCHANGED <<onNode, contacts, stream, lister, refresh, moves, delays, steady, torn>>

EditStep == EditNode \/ EditCache \/ EditPersist

RefreshStep(r) == Enumerate(r) \/ EnumerationEnds(r) \/ RefreshCache(r) \/ Persist(r)

ContactNext ==
  \/ NodeChanges \/ FrameLost
  \/ \E r \in Refreshers : BeginListing(r) \/ RefreshStep(r)
  \/ \E op \in {"add", "rename", "reset", "remove"}, k \in Keys : StartEdit(op, k)
  \/ EditStep

\* Housekeeping refreshes every fifteen minutes, as the console need not; what
\* was begun goes on.
ContactFairness ==
  /\ SF_contactVars(BeginListing("housekeeping"))
  /\ \A r \in Refreshers : WF_contactVars(RefreshStep(r))
  /\ SF_contactVars(EditStep)

ContactSpec == ContactInit /\ [][ContactNext]_contactVars /\ ContactFairness
-----------------------------------------------------------------------------
(***************************************************************************)
(* Properties.                                                             *)
(***************************************************************************)

\* A contact that the node has all along is not forgotten, by the cache or by the
\* mirror, over a listing that was cut short or refused: a list that did not reach its
\* end is never authority to delete (client.go:699, bridge.go:437).  Nothing is said
\* once a frame was lost or left over for the next listing.
KnownStay ==
  [][~torn' => \A k \in steady' :
       /\ contacts[k] # Absent => contacts'[k] # Absent
       /\ mirror[k] # Absent => mirror'[k] # Absent]_contactVars

\* What client.go:715 takes for granted: that a list that reached its end "really is
\* the whole list and anything missing has genuinely been removed".
EndMeansWhole ==
  [][\A k \in steady' : mirror[k] # Absent => mirror'[k] # Absent]_contactVars

\* Whatever was cut short, lost, taken for the wrong listing (client.go:760) or
\* written between a listing and its use (client.go:703), wrongly deleted ones
\* included, the cache and the mirror end up as the node's list.
Converged == contacts = onNode /\ mirror = onNode
CacheConverges == <>[]Converged

\* A rename keeps the contact's stored path, as client.go:899 promises.
RenameKeepsPath ==
  [][\A k \in Keys :
       (edit.op = "rename" /\ edit.key = k /\ onNode[k] # Absent /\ onNode'[k] # onNode[k])
       => onNode'[k].path = onNode[k].path]_contactVars
=============================================================================
