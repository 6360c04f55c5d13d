----------------------------- MODULE BlobStore -----------------------------
(***************************************************************************)
(* The content-addressed store of the ledger directory (blobstore.py): a put  *)
(* writes a temporary file and syncs it, drops it when the name is there and  *)
(* reads back as it should, and otherwise renames it and syncs the directory. *)
(* Several puts run at once; a process is killed, the power fails, a file on  *)
(* disk is damaged.                                                          *)
(*                                                                         *)
(* A name is the content it stands for. What is written but not synced is in  *)
(* memory: a power failure keeps it whole, in part, or not at all.            *)
(***************************************************************************)
EXTENDS Naturals, FiniteSets

CONSTANTS
    Puts,         \* threads that put
    Payloads,     \* canonical contents, standing for their sha256
    Torn,         \* a file that is not what was written to it
    NoBlob,       \* no file under the name
    BlobFaults    \* bound: kills, power failures, damage

ASSUME BlobAssumption == BlobFaults \in Nat /\ {Torn, NoBlob} \cap Payloads = {}

VARIABLES
    blobs,        \* what reads under a name
    disk,         \* what a power failure leaves under it at least
    put,          \* per thread its step, its content and its temporary file
    kept,         \* history: names acknowledged when they were on disk
    damaged,      \* history: names damaged on disk
    troubles

blobVars == <<blobs, disk, put, kept, damaged, troubles>>

NoPut == [at |-> "off", sha |-> NoBlob, synced |-> FALSE]

BlobInit ==
    /\ blobs = [s \in Payloads |-> NoBlob] /\ disk = blobs
    /\ put = [p \in Puts |-> NoPut]
    /\ kept = {} /\ damaged = {} /\ troubles = 0

Moves(p, s) == put' = [put EXCEPT ![p].at = s]

WriteTmp(p) ==
    /\ put[p].at = "off"
    /\ \E s \in Payloads : put' = [put EXCEPT ![p] = [at |-> "sync", sha |-> s, synced |-> FALSE]]
    /\ UNCHANGED <<blobs, disk, kept, damaged, troubles>>

FsyncTmp_Never(p) ==
    /\ put[p].at = "sync" /\ Moves(p, "look")
    /\ UNCHANGED <<blobs, disk, kept, damaged, troubles>>

FsyncTmp(p) ==
    /\ put[p].at = "sync"
    /\ put' = [put EXCEPT ![p].at = "look", ![p].synced = TRUE]
    /\ UNCHANGED <<blobs, disk, kept, damaged, troubles>>

\* The name is there: it must read back, and the temporary file goes.
Dedupe(p) ==
    /\ put[p].at = "look" /\ blobs[put[p].sha] # NoBlob
    /\ put' = [put EXCEPT ![p] = NoPut]
    /\ kept' = IF blobs[put[p].sha] = put[p].sha /\ disk[put[p].sha] = put[p].sha
               THEN kept \union {put[p].sha} ELSE kept
    /\ UNCHANGED <<blobs, disk, damaged, troubles>>

\* It was not there when it was looked for; by now another put may have named it.
Absent(p) ==
    /\ put[p].at = "look" /\ blobs[put[p].sha] = NoBlob
    /\ Moves(p, "rename")
    /\ UNCHANGED <<blobs, disk, kept, damaged, troubles>>

Rename(p) ==
    /\ put[p].at = "rename"
    /\ blobs' = [blobs EXCEPT ![put[p].sha] = put[p].sha]
    /\ disk' = IF disk[put[p].sha] # NoBlob \/ put[p].synced THEN disk
               ELSE [disk EXCEPT ![put[p].sha] = Torn]
    /\ Moves(p, "dir")
    /\ UNCHANGED <<kept, damaged, troubles>>

FsyncDir(p) ==
    /\ put[p].at = "dir"
    /\ disk' = [disk EXCEPT ![put[p].sha] = IF put[p].synced THEN blobs[put[p].sha] ELSE Torn]
    /\ put' = [put EXCEPT ![p] = NoPut]
    /\ kept' = kept \union {put[p].sha}
    /\ UNCHANGED <<blobs, damaged, troubles>>

Trouble == troubles < BlobFaults /\ troubles' = troubles + 1

KillPut(p) ==
    /\ Trouble
    /\ put[p].at # "off" /\ put' = [put EXCEPT ![p] = NoPut]
    /\ UNCHANGED <<blobs, disk, kept, damaged>>

\* A rename that was not synced may be there or not.
PowerLoss ==
    /\ Trouble
    /\ put' = [p \in Puts |-> NoPut]
    /\ blobs' \in {b \in [Payloads -> Payloads \union {Torn, NoBlob}] :
                     \A s \in Payloads : b[s] \in IF disk[s] = NoBlob THEN {NoBlob, blobs[s]} ELSE {disk[s]}}
    /\ disk' = blobs'
    /\ UNCHANGED <<kept, damaged>>

DamageBlob(s) ==
    /\ Trouble
    /\ blobs[s] = s
    /\ blobs' = [blobs EXCEPT ![s] = Torn] /\ disk' = [disk EXCEPT ![s] = Torn]
    /\ damaged' = damaged \union {s}
    /\ UNCHANGED <<put, kept>>

BlobNext ==
    \/ \E p \in Puts : \/ WriteTmp(p) \/ FsyncTmp(p) \/ Dedupe(p) \/ Absent(p)
                       \/ Rename(p) \/ FsyncDir(p) \/ KillPut(p)
    \/ PowerLoss \/ \E s \in Payloads : DamageBlob(s)

BlobSpec == BlobInit /\ [][BlobNext]_blobVars

-----------------------------------------------------------------------------
\* A name shows its own content or is not there, whatever was killed or lost
\* power between the temporary file, its sync, the rename and the sync of the
\* directory; and a name acknowledged on disk stays (blobstore.py: put).
NameIsWhole ==
    \A s \in Payloads \ damaged : /\ blobs[s] \in {s, NoBlob}
                                  /\ s \in kept => blobs[s] = s
=============================================================================
