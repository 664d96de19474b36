---------------------------- MODULE HubDelivery ----------------------------
(***************************************************************************)
(* Coordination input of one root session, from the inboxes to a model and *)
(* back as a semantic ACK: SessionCoordinationPoller                       *)
(* (src/src/coordination-polling.ts) with the durable admission ledger     *)
(* (src/src/hub-admission-ledger.ts).                                      *)
(*                                                                         *)
(* The sessions of a root (itself and its children) share one polling      *)
(* entry.  A session polls, stages what its packet exposes, and admits it  *)
(* after a nonempty completion: relay files are marked read, hub events    *)
(* are recorded in the ledger, become seen, and are ACKed to the hub; a    *)
(* failed ACK is retried by every later refresh.  The program may stop at  *)
(* any point and be started again: the ledger is all it then has.          *)
(*                                                                         *)
(* A step is the code between two awaits.  The hooks of one session run    *)
(* one after the other; those of two sessions, and the shared refresh,     *)
(* interleave.                                                             *)
(***************************************************************************)
EXTENDS Naturals

CONSTANTS
  Sessions,    \* sessions of the root
  HubEvents,   \* events of the home hub, for this cell and epoch
  RelayFiles,  \* files of the relay inbox
  Refresh,     \* the shared refresh, an actor of its own
  Nothing,
  MaxCrashes   \* bound: how often the program is stopped

ASSUME RefreshIsNoSession == Refresh \notin Sessions
ASSUME KindsAreDisjoint   == HubEvents \cap RelayFiles = {}
ASSUME NothingIsNoItem    == Nothing \notin HubEvents \cup RelayFiles
ASSUME CrashBound         == MaxCrashes \in Nat

Items  == HubEvents \cup RelayFiles
Actors == Sessions \cup {Refresh}

VARIABLES
  ledger, hubRead, relayRead,  \* durable: admission records; the read marks
  loaded, hub, relay, seen, due, \* the polling entry (due: pendingHubAcks)
  page,      \* what the refresh has fetched and not yet installed
  pc, cur,   \* per actor: where it is, and the event it awaits a call for
  failed,    \* per actor: the events whose ACK failed in this flush
  staged,    \* per session: the pending admission
  left,      \* per session: what the admission has still to mark or record
  crashes,
  heard,     \* history: items of turns the model has answered
  settled    \* history: hub events known to be admitted durably

durable == <<ledger, hubRead, relayRead>>
entry   == <<loaded, hub, relay, seen, due, page>>
actors  == <<pc, cur, failed, staged, left>>
history == <<heard, settled>>
vars    == <<durable, entry, actors, crashes, history>>

Places == {"idle", "waiting", "polled", "staged", "admit", "recorded",
           "restore", "flush", "mark", "remove", "fetch", "fetched"}

Forgotten ==
  /\ loaded' = FALSE /\ hub' = {} /\ relay' = {} /\ seen' = {} /\ due' = {}
  /\ page' = [hub |-> {}, relay |-> {}]
  /\ pc' = [a \in Actors |-> "idle"]
  /\ cur' = [a \in Actors |-> Nothing]
  /\ failed' = [a \in Actors |-> {}]
  /\ staged' = [s \in Sessions |-> {}]
  /\ left' = [s \in Sessions |-> {}]

Init ==
  /\ ledger = {} /\ hubRead = {} /\ relayRead = {}
  /\ loaded = FALSE /\ hub = {} /\ relay = {} /\ seen = {} /\ due = {}
  /\ page = [hub |-> {}, relay |-> {}]
  /\ pc = [a \in Actors |-> "idle"]
  /\ cur = [a \in Actors |-> Nothing]
  /\ failed = [a \in Actors |-> {}]
  /\ staged = [s \in Sessions |-> {}]
  /\ left = [s \in Sessions |-> {}]
  /\ crashes = 0
  /\ heard = {} /\ settled = {}

Goto(a, place) == pc' = [pc EXCEPT ![a] = place]

-----------------------------------------------------------------------------
(***************************************************************************)
(* poll(): the first caller starts the refresh, the others await the same. *)
(* The refresh restores the ledger once, before it reads any inbox.        *)
(***************************************************************************)
Poll(s) ==
  /\ pc[s] \in {"idle", "staged"}
  /\ \/ /\ pc[Refresh] = "idle"
        /\ pc' = [pc EXCEPT ![s] = "waiting",
                            ![Refresh] = IF loaded THEN "flush" ELSE "restore"]
        /\ failed' = [failed EXCEPT ![Refresh] = {}]
     \/ /\ pc[Refresh] # "idle"
        /\ Goto(s, "waiting")
        /\ UNCHANGED failed
  /\ UNCHANGED <<durable, entry, cur, staged, left, crashes, history>>

Restore ==
  /\ pc[Refresh] = "restore"
  /\ loaded' = TRUE /\ seen' = seen \cup ledger /\ due' = due \cup ledger
  /\ Goto(Refresh, "flush")
  /\ UNCHANGED <<durable, hub, relay, page, cur, failed, staged, left, crashes, history>>

(* Without its ledger the refresh polls the other sources only. *)
RestoreFails ==
  /\ pc[Refresh] = "restore"
  /\ Goto(Refresh, "fetch")
  /\ UNCHANGED <<durable, entry, cur, failed, staged, left, crashes, history>>

(* Fault: the hub inbox is read although the ledger was not restored. *)
FetchUnrestored ==
  /\ pc[Refresh] = "fetch"
  /\ \E h \in SUBSET (HubEvents \ hubRead), r \in SUBSET (RelayFiles \ relayRead) :
       page' = [hub |-> h, relay |-> r]
  /\ Goto(Refresh, "fetched")
  /\ UNCHANGED <<durable, loaded, hub, relay, seen, due, cur, failed, staged, left,
                 crashes, history>>

(* A source answers with unread items, at most a page of them, or it fails *)
(* and the entry keeps what it had.                                        *)
Fetch ==
  /\ pc[Refresh] = "fetch"
  /\ \E h \in {hub} \cup (SUBSET (HubEvents \ hubRead)),
        r \in {relay} \cup (SUBSET (RelayFiles \ relayRead)) :
       /\ loaded \/ h = hub
       /\ page' = [hub |-> h, relay |-> r]
  /\ Goto(Refresh, "fetched")
  /\ UNCHANGED <<durable, loaded, hub, relay, seen, due, cur, failed, staged, left,
                 crashes, history>>

Install ==
  /\ pc[Refresh] = "fetched"
  /\ hub' = page.hub /\ relay' = page.relay
  /\ pc' = [a \in Actors |-> CASE a = Refresh -> "idle"
                               [] pc[a] = "waiting" -> "polled"
                               [] OTHER -> pc[a]]
  /\ UNCHANGED <<durable, loaded, seen, due, page, cur, failed, staged, left, crashes,
                 history>>

(* forTurn() and stage(): of what the root has not seen, the packet exposes *)
(* what fits.                                                               *)
Offered == (hub \cup relay) \ seen

Stage(s) ==
  /\ pc[s] = "polled"
  /\ \E exposed \in SUBSET Offered : staged' = [staged EXCEPT ![s] = exposed]
  /\ Goto(s, "staged")
  /\ UNCHANGED <<durable, entry, cur, failed, left, crashes, history>>

Discard(s) ==
  /\ pc[s] = "staged"
  /\ staged' = [staged EXCEPT ![s] = {}]
  /\ Goto(s, "idle")
  /\ UNCHANGED <<durable, entry, cur, failed, left, crashes, history>>

-----------------------------------------------------------------------------
(***************************************************************************)
(* admit(): relay files first, then the hub events one by one.  An error   *)
(* leaves the admission pending, to be started over.                       *)
(***************************************************************************)
(* Fault: the whole inbox is admitted, not what the packet exposed. *)
AdmitInbox(s) ==
  /\ pc[s] = "staged"
  /\ left' = [left EXCEPT ![s] = Offered]
  /\ heard' = heard \cup staged[s]
  /\ Goto(s, "admit")
  /\ UNCHANGED <<durable, entry, cur, failed, staged, crashes, settled>>

Admit(s) ==
  /\ pc[s] = "staged"
  /\ left' = [left EXCEPT ![s] = staged[s]]
  /\ heard' = heard \cup staged[s]
  /\ Goto(s, "admit")
  /\ UNCHANGED <<durable, entry, cur, failed, staged, crashes, settled>>

MarkRelayRead(s) ==
  /\ pc[s] = "admit"
  /\ \E f \in left[s] \cap RelayFiles :
       /\ relayRead' = relayRead \cup {f}
       /\ left' = [left EXCEPT ![s] = @ \ {f}]
  /\ UNCHANGED <<ledger, hubRead, entry, pc, cur, failed, staged, crashes, history>>

MarkRelayFails(s) ==
  /\ pc[s] = "admit"
  /\ \E f \in left[s] \cap RelayFiles : relayRead' \in {relayRead, relayRead \cup {f}}
  /\ Goto(s, "staged")
  /\ UNCHANGED <<ledger, hubRead, entry, cur, failed, staged, left, crashes, history>>

(* record(): an existing record is good enough. *)
Record(s) ==
  /\ pc[s] = "admit" /\ left[s] \cap RelayFiles = {}
  /\ \E e \in left[s] :
       /\ ledger' = ledger \cup {e}
       /\ cur' = [cur EXCEPT ![s] = e]
       /\ left' = [left EXCEPT ![s] = @ \ {e}]
  /\ Goto(s, "recorded")
  /\ UNCHANGED <<hubRead, relayRead, entry, failed, staged, crashes, history>>

(* The record may be in place although a later step of record() failed. *)
RecordFails(s) ==
  /\ pc[s] = "admit" /\ left[s] \cap RelayFiles = {}
  /\ \E e \in left[s] : ledger' \in {ledger, ledger \cup {e}}
  /\ Goto(s, "staged")
  /\ UNCHANGED <<hubRead, relayRead, entry, cur, failed, staged, left, crashes, history>>

Recorded(s) ==
  /\ pc[s] = "recorded"
  /\ seen' = seen \cup {cur[s]} /\ due' = due \cup {cur[s]}
  /\ settled' = settled \cup {cur[s]}
  /\ cur' = [cur EXCEPT ![s] = Nothing]
  /\ Goto(s, "admit")
  /\ UNCHANGED <<durable, loaded, hub, relay, page, failed, staged, left, crashes, heard>>

Admitted(s) ==
  /\ pc[s] = "admit" /\ left[s] = {}
  /\ seen' = seen \cup staged[s]
  /\ staged' = [staged EXCEPT ![s] = {}]
  /\ failed' = [failed EXCEPT ![s] = {}]
  /\ Goto(s, "flush")
  /\ UNCHANGED <<durable, loaded, hub, relay, due, page, cur, left, crashes, history>>

-----------------------------------------------------------------------------
(***************************************************************************)
(* flushHubAcks(), by the refresh or by an admission: mark read at the     *)
(* hub, remove the record, forget the ACK.  A failure leaves the ACK due.  *)
(***************************************************************************)
FlushNext(a) ==
  /\ pc[a] = "flush"
  /\ \E e \in due \ failed[a] : cur' = [cur EXCEPT ![a] = e]
  /\ Goto(a, "mark")
  /\ UNCHANGED <<durable, entry, failed, staged, left, crashes, history>>

FlushEnds(a) ==
  /\ pc[a] = "flush" /\ due \subseteq failed[a]
  /\ Goto(a, IF a = Refresh THEN "fetch" ELSE "idle")
  /\ UNCHANGED <<durable, entry, cur, failed, staged, left, crashes, history>>

MarkHubRead(a) ==
  /\ pc[a] = "mark"
  /\ hubRead' = hubRead \cup {cur[a]}
  /\ Goto(a, "remove")
  /\ UNCHANGED <<ledger, relayRead, entry, cur, failed, staged, left, crashes, history>>

(* Fault: a failed ACK is not kept for the next refresh. *)
AckForgotten(a) ==
  /\ due' = due \ {cur[a]}
  /\ cur' = [cur EXCEPT ![a] = Nothing]
  /\ Goto(a, "flush")
  /\ UNCHANGED <<ledger, relayRead, loaded, hub, relay, seen, page, failed, staged,
                 left, crashes, history>>

AckFails(a) ==
  /\ failed' = [failed EXCEPT ![a] = @ \cup {cur[a]}]
  /\ cur' = [cur EXCEPT ![a] = Nothing]
  /\ Goto(a, "flush")
  /\ UNCHANGED <<ledger, relayRead, entry, staged, left, crashes, history>>

(* Fault: the record is removed although its ACK failed. *)
FailedMarkRemoves(a) ==
  /\ pc[a] = "mark"
  /\ hubRead' \in {hubRead, hubRead \cup {cur[a]}}
  /\ Goto(a, "remove")
  /\ UNCHANGED <<ledger, relayRead, entry, cur, failed, staged, left, crashes, history>>

MarkHubFails(a) ==
  /\ pc[a] = "mark"
  /\ hubRead' \in {hubRead, hubRead \cup {cur[a]}}
  /\ AckFails(a)

RemoveRecord(a) ==
  /\ pc[a] = "remove"
  /\ ledger' = ledger \ {cur[a]} /\ due' = due \ {cur[a]}
  /\ cur' = [cur EXCEPT ![a] = Nothing]
  /\ Goto(a, "flush")
  /\ UNCHANGED <<hubRead, relayRead, loaded, hub, relay, seen, page, failed, staged,
                 left, crashes, history>>

RemoveFails(a) ==
  /\ pc[a] = "remove"
  /\ AckFails(a) /\ UNCHANGED hubRead

-----------------------------------------------------------------------------
(* The program stops and is started again; a mark it had asked for may      *)
(* still have been made.                                                    *)
Asked == {cur[a] : a \in {b \in Actors : pc[b] = "mark"}}

Crash ==
  /\ crashes < MaxCrashes /\ crashes' = crashes + 1
  /\ \E late \in SUBSET Asked : hubRead' = hubRead \cup late
  /\ settled' = settled \cup ledger
  /\ Forgotten
  /\ UNCHANGED <<ledger, relayRead, heard>>

SessionStep(s) ==
  \/ Poll(s) \/ Stage(s) \/ Discard(s) \/ Admit(s)
  \/ MarkRelayRead(s) \/ MarkRelayFails(s)
  \/ Record(s) \/ RecordFails(s) \/ Recorded(s) \/ Admitted(s)

FlushStep(a) ==
  \/ FlushNext(a) \/ FlushEnds(a)
  \/ MarkHubRead(a) \/ MarkHubFails(a) \/ RemoveRecord(a) \/ RemoveFails(a)

RefreshStep == Restore \/ RestoreFails \/ Fetch \/ Install

Next ==
  \/ \E s \in Sessions : SessionStep(s)
  \/ \E a \in Actors : FlushStep(a)
  \/ RefreshStep
  \/ Crash

Spec == Init /\ [][Next]_vars

(* Promises settle; turns keep coming; a restore or a hub mark that is      *)
(* retried for ever succeeds at last.                                       *)
MarkRead(a, e) == cur[a] = e /\ MarkHubRead(a)

Fairness ==
  /\ WF_vars(RefreshStep) /\ SF_vars(Restore)
  /\ \A s \in Sessions : WF_vars(SessionStep(s)) /\ SF_vars(Poll(s))
  /\ \A a \in Actors : /\ WF_vars(FlushStep(a))
                      /\ \A e \in HubEvents : SF_vars(MarkRead(a, e))

FairSpec == Spec /\ Fairness
-----------------------------------------------------------------------------
TypeOK ==
  /\ ledger \subseteq HubEvents /\ hubRead \subseteq HubEvents
  /\ relayRead \subseteq RelayFiles
  /\ loaded \in BOOLEAN /\ hub \subseteq HubEvents /\ relay \subseteq RelayFiles
  /\ seen \subseteq Items /\ due \subseteq HubEvents
  /\ page \in [hub : SUBSET HubEvents, relay : SUBSET RelayFiles]
  /\ pc \in [Actors -> Places]
  /\ cur \in [Actors -> HubEvents \cup {Nothing}]
  /\ failed \in [Actors -> SUBSET HubEvents]
  /\ staged \in [Sessions -> SUBSET Items] /\ left \in [Sessions -> SUBSET Items]
  /\ crashes \in 0 .. MaxCrashes
  /\ heard \subseteq Items /\ settled \subseteq HubEvents

(* A hub event that was admitted durably is never offered to a model again,  *)
(* also not after a restart that found it unACKed, and not from a page that  *)
(* was read before its ACK (refresh(): restore, flush, then read).           *)
NeverOfferedAgain == hub \cap settled \subseteq seen

(* An admitted event stays recoverable until the hub has its ACK: its record *)
(* is removed only after that (flushHubAcks).                                *)
RecordedUntilAcked == settled \subseteq ledger \cup hubRead

(* Whatever is marked read at the relay or the hub, also after a restart,    *)
(* was in the packet of a turn whose model has answered it, with text or by  *)
(* calling its first tool.                                                   *)
ReadMeansHeard == relayRead \cup hubRead \subseteq heard

(* docs/protocol-contract.md:146: the record is durable before it counts as  *)
(* seen or is ACKed; an ACK that is due always has what a restart would find.*)
DueIsDurable == due \subseteq ledger \cup hubRead

(* Every admitted event is ACKed in the end, across failures and restarts.   *)
EventuallyAcked ==
  \A e \in HubEvents : e \in settled ~> e \in hubRead
=============================================================================
