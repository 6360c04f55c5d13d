----------------------------- MODULE CassBackup -----------------------------
(***************************************************************************)
(* The nightly backup of the CASS archive (infra/backup/backup-cass.sh) as  *)
(* the NAS sees it: one directory per run, which changes its name as the    *)
(* run goes on, and which the next run judges by its name and by whether it *)
(* holds COMPLETE. The script may be killed or terminated at any point, any *)
(* of its commands may fail, and rm -rf may stop half way.                  *)
(*                                                                         *)
(* A self lock that the kernel drops with its holder admits one run at a    *)
(* time. Runs are numbered; the number is the stamp of the run's directory. *)
(***************************************************************************)
EXTENDS CassChain

CONSTANTS
    Nights,     \* bound: runs are numbered 1..Nights
    Keep,       \* CASS_BACKUP_KEEP
    MaxFaults,  \* bound: kills, terminations and commands that fail
    MaxResets   \* bound: runs made as a retention reset

ASSUME BackupAssumption ==
    /\ Nights \in Nat \ {0}
    /\ Keep \in Nat \ {0}
    /\ MaxFaults \in Nat /\ MaxResets \in Nat
    /\ NoName = 0

VARIABLES
    dirs,     \* per run its directory on the NAS
    now,      \* number of the latest run
    pc,       \* where it stands, "off" when no run is on
    trap,     \* whether TRAP_INCOMPLETE is set
    reset,    \* CASS_BACKUP_RETENTION_RESET of this run
    victims,  \* directories still to be removed
    failed,   \* ROTATE_FAIL
    faults,   \* faults so far
    resets,   \* resets so far
    quiet     \* history: undisturbed ordinary runs since the last fault or reset

vars == <<dirs, now, pc, trap, reset, victims, failed, faults, resets, quiet>>

Stamps == 1..Nights

NoDigest == Unreadable

\* What a run writes into its digest.json.
DigestType ==
    [id: Stamps, gen: Stamps, prev: Stamps \union {NoName}, sha: Stamps \union {NoName},
     reset: {"no", "yes"}, rebased: {NoName}, why: {FALSE}]

ASSUME UnreadableIsNoDigest == Unreadable \notin DigestType \union Nat

\* A directory: its name without the stamp, the COMPLETE marker, whether the
\* payload is there and was verified, and the digest.
Gone == [name |-> "none", complete |-> FALSE, whole |-> FALSE, digest |-> NoDigest]

Names == {"none", "incomplete", "cass", "RECOVERABLE", "INCOMPLETE", "SUSPECT"}

\* R: what cass-* directories with COMPLETE say.
Retained ==
    [s \in {t \in Stamps : dirs[t].name = "cass" /\ dirs[t].complete} |-> dirs[s].digest]

Renamed(s, name) == dirs' = [dirs EXCEPT ![s].name = name]

Fault == /\ faults < MaxFaults
         /\ faults' = faults + 1
         /\ quiet' = 0

NoFault == UNCHANGED <<faults, quiet>>

Off == /\ pc' = "off"
       /\ trap' = FALSE
       /\ victims' = {}

Init ==
    /\ dirs = [s \in Stamps |-> Gone]
    /\ now = 0
    /\ pc = "off"
    /\ trap = FALSE
    /\ reset = FALSE
    /\ victims = {}
    /\ failed = FALSE
    /\ faults = 0
    /\ resets = 0
    /\ quiet = 0

-----------------------------------------------------------------------------
\* Steps 0 to 3. The guards that may refuse the run leave the NAS alone.
Start ==
    /\ pc = "off"
    /\ now < Nights
    /\ now' = now + 1
    /\ pc' = "sweep"
    /\ failed' = FALSE
    /\ \E r \in BOOLEAN :
        /\ reset' = r
        /\ r => resets < MaxResets
        /\ resets' = resets + (IF r THEN 1 ELSE 0)
        /\ quiet' = IF r THEN 0 ELSE quiet
    /\ UNCHANGED <<dirs, trap, victims, faults>>

\* Step 4: an .incomplete-* older than a day. With COMPLETE it is a whole
\* backup that was not renamed in time and is put aside for a person.
Sweep ==
    /\ pc = "sweep"
    /\ \E s \in Stamps :
        /\ dirs[s].name = "incomplete"
        /\ IF dirs[s].complete THEN Renamed(s, "RECOVERABLE")
                               ELSE dirs' = [dirs EXCEPT ![s] = Gone]
    /\ NoFault
    /\ UNCHANGED <<now, pc, trap, reset, victims, failed, resets>>

\* Steps 5 to 8 succeed: lock, doctor, .backup, manifests, Tier 0 census. What
\* is not yet a day old stays.
Staged ==
    /\ pc = "sweep"
    /\ pc' = "gate"
    /\ NoFault
    /\ UNCHANGED <<dirs, now, trap, reset, victims, failed, resets>>

\* Step 9: the five legs against the newest published backup, read strictly.
GatePasses ==
    /\ pc = "gate"
    /\ latest_published(Retained, TRUE) # Unreadable
    /\ pc' = "mkdir"
    /\ NoFault
    /\ UNCHANGED <<dirs, now, trap, reset, victims, failed, resets>>

\* The gate refuses: the database is bad, or a published backup cannot be read.
GateRefuses ==
    /\ pc = "gate"
    /\ IF latest_published(Retained, TRUE) = Unreadable THEN NoFault ELSE Fault
    /\ dirs' = [dirs EXCEPT ![now] = [Gone EXCEPT !.name = "SUSPECT"]]
    /\ Off
    /\ UNCHANGED <<now, reset, failed, resets>>

\* Step 10.
MakeIncomplete ==
    /\ pc = "mkdir"
    /\ Renamed(now, "incomplete")
    /\ trap' = TRUE
    /\ pc' = "fill"
    /\ NoFault
    /\ UNCHANGED <<now, reset, victims, failed, resets>>

\* The digest names the run before as its predecessor, published or not.
DigestOf_LastRun(R) ==
    LET prev == latest_published(R, FALSE)
    IN  [id |-> now, gen |-> IF prev = NoName THEN 1 ELSE dirs[prev].digest.gen + 1,
         prev |-> now - 1, sha |-> now - 1,
         reset |-> IF reset THEN "yes" ELSE "no", rebased |-> NoName, why |-> FALSE]

\* Step 14c: the digest continues from the newest published backup among those it
\* can read, R, tolerantly.
DigestOf(R) ==
    LET prev == latest_published(R, FALSE)
    IN  [id      |-> now,
         gen     |-> IF prev = NoName THEN 1 ELSE dirs[prev].digest.gen + 1,
         prev    |-> prev,
         sha     |-> prev,
         reset   |-> IF reset THEN "yes" ELSE "no",
         rebased |-> NoName,
         why     |-> FALSE]

\* Steps 10 to 14c: payload, read-back, blobs, sessions, closure, digest.
Fill ==
    /\ pc = "fill"
    /\ dirs' = [dirs EXCEPT ![now].whole = TRUE, ![now].digest = DigestOf(Retained)]
    /\ pc' = "filled"
    /\ NoFault
    /\ UNCHANGED <<now, trap, reset, victims, failed, resets>>

\* fail_incomplete: one of these checks fails, or the share is gone (step 15).
fail_incomplete ==
    /\ pc \in {"fill", "filled"}
    /\ Fault
    /\ Renamed(now, "INCOMPLETE")
    /\ Off
    /\ UNCHANGED <<now, reset, failed, resets>>

\* Step 15: the marker, then the rename.
Mark ==
    /\ pc = "filled"
    /\ dirs' = [dirs EXCEPT ![now].complete = TRUE]
    /\ pc' = "marked"
    /\ NoFault
    /\ UNCHANGED <<now, trap, reset, victims, failed, resets>>

Publish ==
    /\ pc = "marked"
    /\ Renamed(now, "cass")
    /\ pc' = "published"
    /\ NoFault
    /\ UNCHANGED <<now, trap, reset, victims, failed, resets>>

\* The failed publication is handled like any failure before it.
fail_recoverable_AsIncomplete ==
    /\ pc \in {"marked", "published"}
    /\ Fault
    /\ IF dirs[now].name = "incomplete" THEN Renamed(now, "INCOMPLETE")
                                        ELSE UNCHANGED dirs
    /\ Off
    /\ UNCHANGED <<now, reset, failed, resets>>

\* fail_recoverable: the target exists, mv fails, or the last assertion fails,
\* after which there is nothing left to rename.
fail_recoverable ==
    /\ pc \in {"marked", "published"}
    /\ Fault
    /\ IF dirs[now].name = "incomplete" THEN Renamed(now, "RECOVERABLE")
                                        ELSE UNCHANGED dirs
    /\ Off
    /\ UNCHANGED <<now, reset, failed, resets>>

\* Step 16: the victims, all before this one if it is a reset.
SelectVictims ==
    /\ pc = "published"
    /\ trap' = FALSE
    /\ victims' = IF reset THEN pre_reset_victims(Retained, dirs[now].digest.gen)
                           ELSE rotation_victims(Retained, Keep)
    /\ pc' = "rotate"
    /\ NoFault
    /\ UNCHANGED <<dirs, now, reset, failed, resets>>

SelectFails ==
    /\ pc = "published"
    /\ Fault
    /\ trap' = FALSE
    /\ victims' = {}
    /\ failed' = TRUE
    /\ pc' = "rotate"
    /\ UNCHANGED <<dirs, now, reset, resets>>

RemoveVictim ==
    /\ pc = "rotate"
    /\ victims # {}
    /\ dirs' = [dirs EXCEPT ![Oldest(Retained, victims)] = Gone]
    /\ victims' = victims \ {Oldest(Retained, victims)}
    /\ NoFault
    /\ UNCHANGED <<now, pc, trap, reset, failed, resets>>

\* The loop goes on with the next victim after a failure.
RemoveStops_GoesOn ==
    /\ pc = "rotate"
    /\ victims # {}
    /\ Fault
    /\ victims' = victims \ {Oldest(Retained, victims)}
    /\ failed' = TRUE
    /\ UNCHANGED <<dirs, now, pc, trap, reset, resets>>

\* rm -rf fails or is killed half way: it has removed part of the payload, and
\* the marker, the digest, both or neither. The first failure ends the loop.
RemoveStops ==
    /\ pc = "rotate"
    /\ victims # {}
    /\ Fault
    /\ LET v == Oldest(Retained, victims)
       IN  \E marker, digest \in BOOLEAN :
            dirs' = [dirs EXCEPT ![v] =
                        [name |-> @.name, whole |-> FALSE, complete |-> marker,
                         digest |-> IF digest THEN @.digest ELSE NoDigest]]
    /\ victims' = {}
    /\ failed' = TRUE
    /\ pc' \in {"rotate", "off"}
    /\ UNCHANGED <<now, trap, reset, resets>>

\* Steps 16b to 18. A reset whose chain does not verify is taken back; all the
\* other checks only report.
Finish ==
    /\ pc = "rotate"
    /\ victims = {}
    /\ IF reset /\ verify_chain(Retained, Keep) # {}
       THEN Renamed(now, "RECOVERABLE") ELSE UNCHANGED dirs
    /\ quiet' = IF reset \/ failed THEN quiet ELSE quiet + 1
    /\ Off
    /\ UNCHANGED <<now, reset, failed, faults, resets>>

-----------------------------------------------------------------------------
\* The exit trap removes what it finds without a look at the marker.
cleanup_Blind ==
    IF trap /\ dirs[now].name = "incomplete"
    THEN dirs' = [dirs EXCEPT ![now] = Gone] ELSE UNCHANGED dirs

\* The exit trap.
cleanup ==
    IF trap /\ dirs[now].name = "incomplete"
    THEN IF dirs[now].complete THEN Renamed(now, "RECOVERABLE")
                               ELSE dirs' = [dirs EXCEPT ![now] = Gone]
    ELSE UNCHANGED dirs

\* SIGTERM, SIGINT, or a command without a handler of its own that fails
\* under set -e.
Terminate ==
    /\ pc # "off"
    /\ Fault
    /\ cleanup
    /\ Off
    /\ UNCHANGED <<now, reset, failed, resets>>

\* SIGKILL or power loss: no trap runs.
Kill ==
    /\ pc # "off"
    /\ Fault
    /\ Off
    /\ UNCHANGED <<dirs, now, reset, failed, resets>>

Next ==
    \/ Start \/ Sweep \/ Staged \/ GatePasses \/ GateRefuses
    \/ MakeIncomplete \/ Fill \/ Mark \/ Publish
    \/ fail_incomplete \/ fail_recoverable
    \/ SelectVictims \/ SelectFails \/ RemoveVictim \/ RemoveStops \/ Finish
    \/ Terminate \/ Kill

\* The run assumes that what the gate could read can be read again in step 14c.
Spec == Init /\ [][Next]_vars

\* A digest that the share does not deliver for a moment is passed over by step
\* 14c without a word, though the gate of the same run has read it.
FillUnseen ==
    /\ pc = "fill"
    /\ Fault
    /\ \E s \in Valid(Retained) :
        dirs' = [dirs EXCEPT ![now].whole = TRUE,
                             ![now].digest = DigestOf([Retained EXCEPT ![s] = NoDigest])]
    /\ pc' = "filled"
    /\ UNCHANGED <<now, trap, reset, victims, failed, resets>>

FlakySpec == Init /\ [][Next \/ FillUnseen]_vars
-----------------------------------------------------------------------------
TypeOK ==
    /\ dirs \in [Stamps -> [name: Names, complete: BOOLEAN, whole: BOOLEAN,
                            digest: DigestType \union {NoDigest}]]
    /\ now \in 0..Nights
    /\ pc \in {"off", "sweep", "gate", "mkdir", "fill", "filled", "marked",
               "published", "rotate"}
    /\ trap \in BOOLEAN /\ reset \in BOOLEAN /\ failed \in BOOLEAN
    /\ victims \subseteq Stamps
    /\ faults \in 0..MaxFaults /\ resets \in 0..MaxResets /\ quiet \in 0..Nights

\* A backup that could be restored: verified, marked, digest in place.
Restorable(d) == d.whole /\ d.complete /\ d.digest # NoDigest

\* From the marker on a backup is kept, under whatever name, by the trap, by
\* the handlers and by the sweep of a later run (backup-cass.sh steps 4 and 15):
\* it is only ever removed by a rotation, which leaves a newer one published.
WholeBackupsAreKept ==
    [][\A s \in Stamps : Restorable(dirs[s]) /\ ~Restorable(dirs'[s]) =>
            \E t \in Stamps : /\ dirs'[t].name = "cass"
                              /\ Restorable(dirs'[t])
                              /\ dirs'[t].digest.gen > dirs[s].digest.gen]_vars

\* What is published or put aside as RECOVERABLE is a whole backup, unless a
\* removal stopped half way; what is put aside as INCOMPLETE never bears the
\* marker, so a name never promises more than the directory holds.
NamesTellTheTruth ==
    \A s \in Stamps :
        /\ dirs[s].name = "RECOVERABLE" => Restorable(dirs[s])
        /\ dirs[s].name = "INCOMPLETE" => ~dirs[s].complete
        /\ dirs[s].name = "cass" /\ ~Restorable(dirs[s]) => ~dirs[s].whole

\* Wherever a rotation stops, what can be read of the published backups is a
\* tail without a gap (step 16: oldest first, and the first failure ends it).
TailHasNoGap ==
    LET valid == Valid(Retained)
    IN  \A n \in valid :
            \/ n = Oldest(Retained, valid)
            \/ \E m \in valid : /\ m = Retained[n].prev
                               /\ Retained[m].gen + 1 = Retained[n].gen

\* Once no directory is torn, undisturbed runs bring the chain back to one that
\* verifies (steps 16 to 16c: over-retention heals itself): whatever was killed
\* before, each leaves R with the right count and every link in place. A reset
\* that was interrupted is healed when the backups before it have rotated out.
ChainHeals ==
    /\ pc = "off"
    /\ quiet >= Keep - 1
    /\ quiet > 0
    /\ Skipped(Retained) = {}
    => verify_chain(Retained, Keep) = {}
=============================================================================
