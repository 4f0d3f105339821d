------------------------------- MODULE SyncGc -------------------------------
(***************************************************************************)
(* The life of one record's tombstone: every device has the record; a user *)
(* deletes it; in time some device's garbage collection removes the        *)
(* tombstone file; a device that was away comes back and finds neither     *)
(* file.  The decisions are those of GcRules; the sessions that ask for    *)
(* them belong to the engine outside the core.  Time is real time in       *)
(* seconds.                                                                *)
(***************************************************************************)
EXTENDS GcRules

CONSTANTS
  Device,
  KeepsUp,      \* the devices that complete a session every StaleAfter
  Offset,       \* Offset[d]: how far d's physical clock is ahead
  Delay,        \* bound: how late the folder shows a device a change
  SessionMax,   \* bound: how long a session takes
  StampAhead,   \* bound: how far (ms) a stamp is ahead of its device's clock
  LastChange,   \* bound: the last instant at which the user deletes
  MaxTime,      \* bound: the last instant
  MaxAborts,    \* bound: how many sessions are aborted
  Never

ASSUME SyncGcAssumption ==
  /\ KeepsUp \subseteq Device
  /\ Offset \in [Device -> Int]
  /\ Delay \in Nat /\ SessionMax \in Nat /\ StampAhead \in Nat
  /\ MaxTime \in Nat /\ LastChange \in Nat /\ MaxAborts \in Nat
  /\ Never \notin Int

VARIABLES
  now,          \* real time
  folder,       \* which of the record's files the provider holds
  deleter,      \* the device that deleted the record
  deletedAt,    \* when it did
  wall,         \* the wall of the tombstone's stamp
  collectedAt,  \* when the tombstone was collected
  lost,         \* the provider lost the record's file
  holds,        \* holds[d]: d has the record as a live row
  lastSeen,     \* lastSeen[d]: what devices/{d}.json says
  session,      \* session[d]: the session in progress on d
  aborts,       \* how many sessions were aborted
  zombie        \* the record was re-published after its deletion

vars == <<now, folder, deleter, deletedAt, wall, collectedAt, lost, holds,
          lastSeen, session, aborts, zombie>>

Clock(d) == now + Offset[d]

(* What a device writes to devices/{d}.json, in seconds. *)
Seen(d) == Clock(d)

Idle == [listing |-> "none", start |-> Never]

Init ==
  /\ now = 0
  /\ folder = "record"
  /\ deleter = Never /\ deletedAt = Never /\ wall = Never /\ collectedAt = Never
  /\ lost = FALSE
  /\ holds = [d \in Device |-> TRUE]
  /\ lastSeen = [d \in Device |-> Seen(d)]
  /\ session = [d \in Device |-> Idle]
  /\ aborts = 0
  /\ zombie = FALSE

(* The user deletes the record on d: hlc_next stamps the tombstone with    *)
(* d's physical clock or, if d's hybrid clock is ahead of it, with that.   *)
Delete(d) ==
  /\ holds[d] /\ deletedAt = Never /\ now <= LastChange
  /\ \E ahead \in 0 .. StampAhead : wall' = Millis(Clock(d)) + ahead
  /\ folder' = "tomb"
  /\ deleter' = d /\ deletedAt' = now
  /\ holds' = [holds EXCEPT ![d] = FALSE]
  /\ UNCHANGED <<now, collectedAt, lost, lastSeen, session, aborts, zombie>>

(* The provider loses the record's file (somebody tampered with it). *)
Lose ==
  /\ folder = "record" /\ deletedAt = Never /\ ~lost /\ now <= LastChange
  /\ folder' = "nothing" /\ lost' = TRUE
  /\ UNCHANGED <<now, deleter, deletedAt, wall, collectedAt, holds, lastSeen,
                 session, aborts, zombie>>

(* What d may find when it lists the folder: what is there, or what was    *)
(* there up to Delay ago.  The deleting device sees its own files.         *)
Listings(d) ==
  {folder}
  \cup (IF deletedAt # Never /\ d # deleter /\ now < deletedAt + Delay /\ ~lost
        THEN {"record"} ELSE {})
  \cup (IF collectedAt # Never /\ now < collectedAt + Delay THEN {"tomb"} ELSE {})

Begin(d) ==
  /\ session[d] = Idle
  /\ \E l \in Listings(d) :
       session' = [session EXCEPT ![d] = [listing |-> l, start |-> now]]
  /\ UNCHANGED <<now, folder, deleter, deletedAt, wall, collectedAt, lost, holds,
                 lastSeen, aborts, zombie>>

(* gc_eligible, asked by d over the devices it lists. *)
Collects(d) ==
  session[d].listing = "tomb" /\ GcEligible(wall, {lastSeen[e] : e \in Device}, Clock(d))

(* rejoin_action, asked by d about a record it holds and no longer finds. *)
Rejoins(d, action) ==
  /\ holds[d] /\ session[d].listing = "nothing"
  /\ RejoinAction(lastSeen[d], Clock(d)) = action

(* Apply what was listed, collect, record the session's completion.  A     *)
(* record re-published beside its tombstone stays under the tombstone.     *)
Finish(d) ==
  /\ session[d] # Idle
  /\ holds' = [holds EXCEPT ![d] =
                 @ /\ session[d].listing # "tomb" /\ ~Rejoins(d, "DeleteLocally")]
  /\ IF Collects(d) /\ folder = "tomb"
     THEN folder' = "nothing" /\ collectedAt' = now /\ UNCHANGED zombie
     ELSE IF Rejoins(d, "Repush") /\ folder # "tomb"
     THEN folder' = "record" /\ zombie' = (zombie \/ deletedAt # Never)
          /\ UNCHANGED collectedAt
     ELSE UNCHANGED <<folder, collectedAt, zombie>>
  /\ lastSeen' = [lastSeen EXCEPT ![d] = Seen(d)]
  /\ session' = [session EXCEPT ![d] = Idle]
  /\ UNCHANGED <<now, deleter, deletedAt, wall, lost, aborts>>

(* The app is closed in the middle of a session: nothing is recorded. *)
Abort(d) ==
  /\ session[d] # Idle /\ aborts < MaxAborts
  /\ session' = [session EXCEPT ![d] = Idle]
  /\ aborts' = aborts + 1
  /\ UNCHANGED <<now, folder, deleter, deletedAt, wall, collectedAt, lost, holds,
                 lastSeen, zombie>>

(* Time passes, but no session outlasts SessionMax and the devices that    *)
(* keep up complete one in every StaleAfter.                               *)
Tick ==
  /\ now < MaxTime
  /\ \A d \in Device : session[d] # Idle => now < session[d].start + SessionMax
  /\ \A d \in KeepsUp : Clock(d) < lastSeen[d] + StaleAfter
  /\ now' = now + 1
  /\ UNCHANGED <<folder, deleter, deletedAt, wall, collectedAt, lost, holds,
                 lastSeen, session, aborts, zombie>>

Next ==
  \/ Tick \/ Lose
  \/ \E d \in Device : Delete(d) \/ Begin(d) \/ Finish(d) \/ Abort(d)

Spec == Init /\ [][Next]_vars

(* Time passes, the devices that keep up complete sessions, and a session  *)
(* that has begun ends, one way or the other.  The other devices need      *)
(* never begin one again.                                                  *)
Fairness ==
  /\ WF_vars(Tick)
  /\ \A d \in KeepsUp : WF_vars(Begin(d)) /\ WF_vars(Finish(d))
  /\ \A d \in Device : WF_vars(Finish(d) \/ Abort(d))

FairSpec == Spec /\ Fairness

----------------------------------------------------------------------------
(* The types; no device was seen in its own future. *)
TypeOK ==
  /\ now \in 0 .. MaxTime
  /\ folder \in {"record", "tomb", "nothing"}
  /\ deleter \in Device \cup {Never}
  /\ deletedAt \in (0 .. MaxTime) \cup {Never}
  /\ wall \in Int \cup {Never}
  /\ collectedAt \in (0 .. MaxTime) \cup {Never}
  /\ lost \in BOOLEAN /\ zombie \in BOOLEAN
  /\ holds \in [Device -> BOOLEAN]
  /\ lastSeen \in [Device -> Int]
  /\ \A d \in Device : lastSeen[d] <= Clock(d)
  /\ session \in [Device -> [listing : {"none", "record", "tomb", "nothing"},
                             start : (0 .. MaxTime) \cup {Never}]]
  /\ aborts \in 0 .. MaxAborts

(* What the deployment has to guarantee for NoZombie: the folder shows a    *)
(* change, and a session ends, well within what the retention period has    *)
(* over the stale window, clock differences deducted.                       *)
VisibleInTime ==
  \A d, e \in Device :
    Delay + SessionMax + (Offset[d] - Offset[e]) <= Retention - StaleAfter

(* No clock shows a time whose milliseconds leave i64. *)
ClocksInRange ==
  \A d \in Device : \A t \in 0 .. MaxTime : (t + Offset[d]) * MillisPerSec \in Int64

(* A record that was deleted, and whose tombstone was collected, is never  *)
(* published again: a fresh device that misses both files is right to take *)
(* it for a loss (`rejoin_action`, "a tombstone could not have been GC'd   *)
(* past us").                                                              *)
NoZombie == ~zombie

(* Whoever still holds the record when its tombstone is gone is stale, and *)
(* stays so until it rejoins (STALE_DEVICE_SECS, "must run the             *)
(* stale-rejoin protocol when it returns").                                *)
LeftBehindIsStale ==
  collectedAt # Never =>
    \A d \in Device : holds[d] => DeviceIsStale(lastSeen[d], Clock(d))

(* A device that keeps up never gives up a record that nobody deleted,     *)
(* even when the provider loses the file.                                  *)
KeptUnlessDeleted ==
  deletedAt = Never => \A d \in KeepsUp : holds[d]

(* The record's life as a user sees it: published until it is deleted, and *)
(* its tombstone taken away only when no device that keeps up has the       *)
(* record, so that it never comes back (`gc_eligible`, "older than the      *)
(* retention period AND every non-stale device has completed a sync         *)
(* session after it was written").                                          *)
Life == INSTANCE RecordLife WITH
  Holder <- Device, Keeper <- KeepsUp, shelf <- folder,
  deleted <- deletedAt # Never, holders <- {d \in Device : holds[d]}

GcIsRecordLife == Life!LifeSpec

(* A deletion reaches every device that goes on completing sessions, one   *)
(* that first comes back after the tombstone was collected included.       *)
DeletionCompletes ==
  \A d \in Device :
    []<><<Finish(d)>>_vars => (deletedAt # Never ~> ~holds[d])

(* Tombstones do not pile up: as long as one device keeps up, each is      *)
(* collected in the end, whether the others ever come back or not.         *)
TombstoneCollected == deletedAt # Never ~> folder # "tomb"

(* As long as one device keeps up, a file the provider lost is restored.   *)
LossRepaired ==
  lost /\ folder = "nothing" ~> folder = "record" \/ deletedAt # Never

============================================================================
