------------------------------ MODULE GcRules ------------------------------
(***************************************************************************)
(* When a tombstone file may be removed and what a device does about a     *)
(* record that disappeared: `device_is_stale`, `gc_eligible` and           *)
(* `rejoin_action` of crates/clipy-si-core/src/sync/mod.rs.  A device's    *)
(* last_seen is in seconds, a stamp's wall in milliseconds; products of    *)
(* seconds wrap as an i64 product does in a release build, differences     *)
(* saturate.                                                               *)
(***************************************************************************)
EXTENDS Integers

CONSTANTS
  Retention,    \* TOMBSTONE_RETENTION_SECS
  StaleAfter,   \* STALE_DEVICE_SECS
  MillisPerSec, \* 1000
  MaxI64        \* i64::MAX

ASSUME GcConstantsAssumption ==
  /\ Retention \in Nat /\ StaleAfter \in Nat /\ MillisPerSec \in Nat \ {0}
  /\ MaxI64 \in Nat
  /\ Retention * MillisPerSec <= MaxI64

(* "Invariant: RETENTION > STALE". *)
ASSUME RetentionAssumption == Retention > StaleAfter

Int64 == (-MaxI64 - 1) .. MaxI64

Wrap(x) ==
  IF x \in Int64 THEN x ELSE ((x + MaxI64 + 1) % (2 * (MaxI64 + 1))) - (MaxI64 + 1)

SatSub(a, b) ==
  IF a - b > MaxI64 THEN MaxI64
  ELSE IF a - b < -MaxI64 - 1 THEN -MaxI64 - 1 ELSE a - b

Millis(secs) == Wrap(secs * MillisPerSec)

(* Mutant: a device is stale one second early. *)
DeviceIsStale_Early(lastSeen, now) == SatSub(now, lastSeen) >= StaleAfter

DeviceIsStale(lastSeen, now) == SatSub(now, lastSeen) > StaleAfter

(* Mutant: the age is compared with the stale window. *)
OldEnough_StaleWindow(wall, now) ==
  SatSub(Millis(now), wall) > StaleAfter * MillisPerSec

(* The tombstone's age has passed the retention period. *)
OldEnough(wall, now) == SatSub(Millis(now), wall) > Retention * MillisPerSec

(* A device completed a session after the tombstone was written. *)
Acked(wall, lastSeen) == Millis(lastSeen) >= wall

(* Mutant: stale devices are waited for as well. *)
GcEligible_WaitsForAll(wall, lastSeens, now) ==
  OldEnough(wall, now) /\ \A seen \in lastSeens : Acked(wall, seen)

(* lastSeens: the last_seen of every device listed in devices/. *)
GcEligible(wall, lastSeens, now) ==
  /\ OldEnough(wall, now)
  /\ \A seen \in lastSeens : DeviceIsStale(seen, now) \/ Acked(wall, seen)

(* Mutant: a device that misses the files always gives the record up. *)
RejoinAction_Delete(lastSeen, now) == "DeleteLocally"

(* Mutant: a device that misses the files always publishes it again. *)
RejoinAction_Repush(lastSeen, now) == "Repush"

RejoinAction(lastSeen, now) ==
  IF DeviceIsStale(lastSeen, now) THEN "DeleteLocally" ELSE "Repush"

============================================================================
