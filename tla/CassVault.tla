----------------------------- MODULE CassVault -----------------------------
(***************************************************************************)
(* What a published backup of the archive is made of, who checks it, and    *)
(* what becomes of it: Tier 0 against the doctor (infra/backup/cass/        *)
(* cass_manifest_census.py), the checks before publication (steps 14a and   *)
(* 14b), the weekly verification (cass_weekly.py) and the restore           *)
(* (restore-cass.sh with restore_manifest_check.py and restore_verify.py).  *)
(* Manifests are kept per backup, blobs in one pool that only grows.        *)
(*                                                                         *)
(* A hash identifies content, so where the code keeps a hash the model      *)
(* keeps the content: listing is manifests.sha256sum, and the fields of     *)
(* digest are the parts they anchor. The data of a night is its number.     *)
(***************************************************************************)
EXTENDS Integers, FiniteSets, Sequences

CONSTANTS
    Blobs, Labels,    \* of blobs (their hashes) and of manifests
    Cap,              \* manifests a doctor reads unless told to read them all
    VaultNights,     \* bound: published backups
    VaultFaults,     \* bound: bad copies and damage on the NAS
    Missing, Bad, Intact, Junk

\* A manifest names one blob. fits: its path and size agree with the name.
Manifests == [blob: Blobs, fits: BOOLEAN] \union {Junk}
Mirrors == [Labels -> Manifests \union {Missing}]
Pools == [Blobs -> {Intact, Bad, Missing}]

\* What the digest of a night anchors.
Digests == [db: Nat, listing: Mirrors, census: Nat, sessions: Nat]

\* What a doctor answers.
Answers == [status: {"verified", "warn", "verification_deferred"}, errors: Nat,
            manifests: Nat, verified: Nat, duplicates: Int]

ASSUME VaultAssumption ==
    /\ {Cap, VaultNights, VaultFaults} \subseteq Nat
    /\ IsFiniteSet(Labels)
    /\ Cardinality({Missing, Bad, Intact, Junk}) = 4
    /\ Junk \notin Digests /\ Junk \notin Answers

VARIABLES
    stg,      \* [manifests, blobs]: staged manifests and the live blobs, or Missing
    inc,      \* .incomplete-$STAMP, or Missing
    pool,     \* DEST/raw-mirror/v1/blobs
    vault,    \* the published backups
    harm      \* bad copies and damage so far

vaultVars == <<stg, inc, pool, vault, harm>>

Present(m) == {n \in Labels : m[n] # Missing}

-----------------------------------------------------------------------------
parse_manifests(m) ==
    [ok |-> {n \in Present(m) : m[n] # Junk}, bad |-> {n \in Present(m) : m[n] = Junk}]

References(m) == {m[n].blob : n \in parse_manifests(m).ok}

census_manifests(m) ==
    LET p == parse_manifests(m)
    IN  [manifests |-> Cardinality(p.ok \union p.bad), blobs |-> Cardinality(References(m)),
         duplicates |-> Cardinality(p.ok) - Cardinality(References(m)),
         unparseable |-> Cardinality(p.bad)]

\* External: what cass doctor says of manifests m and blobs b when it has read
\* those in read. Unless told to it puts off reading more than Cap manifests.
doctor(m, read, b, full) ==
    LET seen   == Present(m) \intersect read
        ok     == {n \in seen : m[n] # Junk}
        refs   == {m[n].blob : n \in ok}
        errors == Cardinality({x \in refs : b[x] # Intact}) + Cardinality(seen \ ok)
    IN  [status |-> IF ~full /\ Cardinality(Present(m)) > Cap THEN "verification_deferred"
                    ELSE IF errors = 0 THEN "verified" ELSE "warn",
         errors |-> errors, manifests |-> Cardinality(seen),
         verified |-> Cardinality({x \in refs : b[x] = Intact}),
         duplicates |-> Cardinality(ok) - Cardinality(refs)]

Truth(m, b, full) == doctor(m, Labels, b, full)

\* What one may be told: what some of the manifests say, that blobs it did not
\* read are well, or nothing that can be parsed.
Told(m, b, full) ==
    {doctor(m, read, c, full) : read \in SUBSET Labels, c \in {b, [x \in Blobs |-> Intact]}}
      \union {Junk}

\* Tier 0: four independent criteria (main).
tier0(m, b, told) ==
    LET c == census_manifests(m)
    IN  /\ c.unparseable = 0 /\ c.manifests > 0
        /\ told # Junk
        /\ told.status = "verified" /\ told.errors = 0
        /\ c.manifests = told.manifests
        /\ c.blobs = told.verified
        /\ c.duplicates = told.duplicates
        /\ \A x \in References(m) : b[x] # Missing

\* 14a: every listed manifest is as listed, and every manifest is listed.
verify_manifests_sha256sum(m, listing) ==
    /\ Present(listing) # {}
    /\ \A n \in Present(listing) : m[n] = listing[n]
    /\ Present(m) \subseteq Present(listing)

\* A blob that is there with the right size is not read.
run_publish_check_BySize(m, p) ==
    /\ parse_manifests(m).bad = {}
    /\ \A n \in parse_manifests(m).ok : m[n].fits /\ p[m[n].blob] # Missing

\* 14b: the blob is found by its hash alone and read back.
run_publish_check(m, p) ==
    /\ parse_manifests(m).bad = {}
    /\ \A n \in parse_manifests(m).ok : m[n].fits /\ p[m[n].blob] = Intact

-----------------------------------------------------------------------------
\* cass_weekly.py, but for the chain (CassChain) and the header of the sessions
\* table. The whole pool is read, whoever refers to it.
verify_blob_pool == \A x \in Blobs : pool[x] # Bad

verify_closure ==
    \A i \in DOMAIN vault :
        LET m == vault[i].manifests
        IN  parse_manifests(m).bad = {} /\ \A x \in References(m) : pool[x] # Missing

\* Each part against its neighbour, and the neighbour against nothing.
verify_backup_self_Unanchored(b) ==
    /\ b.digest # Junk
    /\ b.db = b.digest.db /\ b.db_sha = b.db
    /\ verify_manifests_sha256sum(b.manifests, b.listing)
    /\ b.census = b.digest.census /\ b.sessions = b.digest.sessions

verify_backup_self(b) ==
    /\ b.digest # Junk
    /\ b.db = b.digest.db /\ b.db_sha = b.db
    /\ verify_manifests_sha256sum(b.manifests, b.listing)
    /\ b.listing = b.digest.listing
    /\ b.census = b.digest.census /\ b.sessions = b.digest.sessions

verify_weekly ==
    /\ verify_blob_pool
    /\ verify_closure
    /\ \A i \in DOMAIN vault : verify_backup_self(vault[i])

-----------------------------------------------------------------------------
\* What is listed is as listed; what is not listed is restored with it.
restore_manifest_check_Listed(b) == Present(b.listing) \subseteq Present(b.manifests)

restore_manifest_check(b) ==
    Present(b.listing) # {} /\ Present(b.listing) = Present(b.manifests)

restore_verify(told) ==
    told # Junk /\ told.status = "verified" /\ told.errors = 0 /\ told.verified > 0

\* restore-cass.sh: step 2, step 4, and step 8 when the doctor has told of what
\* was put down. The pool is copied as it is.
restore(b, told) ==
    /\ b.digest # Junk
    /\ b.db = b.db_sha
    /\ \A n \in Present(b.listing) : b.manifests[n] = b.listing[n]
    /\ restore_manifest_check(b)
    /\ b.digest.db = b.db_sha
    /\ b.digest.listing = b.listing
    /\ restore_verify(told)

-----------------------------------------------------------------------------
VaultInit ==
    /\ stg = Missing /\ inc = Missing
    /\ pool = [x \in Blobs |-> Missing]
    /\ vault = << >>
    /\ harm = 0

Harm == harm < VaultFaults /\ harm' = harm + 1

\* Steps 5 to 8, under the write lock. The live mirror may be in any state.
Stage ==
    /\ stg = Missing /\ inc = Missing
    /\ Len(vault) < VaultNights
    /\ \E m \in Mirrors, b \in Pools :
        /\ \E told \in Told(m, b, TRUE) : tier0(m, b, told)
        /\ stg' = [manifests |-> m, blobs |-> b]
    /\ UNCHANGED <<inc, pool, vault, harm>>

\* One of the copies on the NAS is not what was copied.
BadCopies(b) ==
    {[b EXCEPT !.db = Bad], [b EXCEPT !.db_sha = Bad], [b EXCEPT !.census = Bad]}
      \union {[b EXCEPT !.manifests[n] = c] : n \in Present(b.manifests), c \in {Junk, Missing}}
      \union {[b EXCEPT !.listing[n] = c] : n \in Present(b.listing), c \in {Junk, Missing}}

\* Step 11: the database, and only it, is read back past the cache.
readback(b) == b.db = Len(vault) + 1

\* Steps 10 to 12 and the sessions of 13. Blobs that the pool has are not sent
\* again, good or bad.
Land ==
    /\ stg # Missing /\ inc = Missing
    /\ LET i     == Len(vault) + 1
           copy  == [db |-> i, db_sha |-> i, census |-> i, manifests |-> stg.manifests,
                     listing |-> stg.manifests, sessions |-> i]
           sent  == [x \in Blobs |-> IF pool[x] = Missing THEN stg.blobs[x] ELSE pool[x]]
       IN  \/ inc' = copy /\ pool' = sent /\ UNCHANGED harm
           \/ Harm /\ \E b \in BadCopies(copy) :
                  inc' = b /\ pool' = IF readback(b) THEN sent ELSE pool
           \/ Harm /\ inc' = copy
              /\ \E x \in Blobs : pool[x] # sent[x] /\ pool' = [sent EXCEPT ![x] = Bad]
    /\ UNCHANGED <<stg, vault>>

\* Steps 11 and 14a to 15. The sums of the database and of the census come from
\* the staging, the other two from the copies. was is history: what was staged.
Release ==
    /\ inc # Missing
    /\ IF /\ readback(inc)
          /\ verify_manifests_sha256sum(inc.manifests, inc.listing)
          /\ run_publish_check(inc.manifests, pool)
       THEN LET i == Len(vault) + 1
            IN  vault' = Append(vault,
                    [db |-> inc.db, db_sha |-> inc.db_sha, manifests |-> inc.manifests,
                     listing |-> inc.listing, census |-> inc.census, sessions |-> inc.sessions,
                     digest |-> [db |-> i, listing |-> inc.listing, census |-> i,
                                 sessions |-> inc.sessions],
                     was |-> stg.manifests])
       ELSE UNCHANGED vault
    /\ stg' = Missing /\ inc' = Missing
    /\ UNCHANGED <<pool, harm>>

\* The NAS loses or changes one part of a backup, or a blob.
Decay ==
    /\ inc = Missing /\ stg = Missing
    /\ Harm
    /\ \/ /\ \E i \in DOMAIN vault :
             \/ \E n \in Labels, c \in [blob: Blobs, fits: {TRUE}] \union {Missing} :
                    vault' \in {[vault EXCEPT ![i].manifests[n] = c],
                                [vault EXCEPT ![i].listing[n] = c]}
             \/ vault' \in {[vault EXCEPT ![i].db = Bad], [vault EXCEPT ![i].db_sha = Bad],
                             [vault EXCEPT ![i].census = Bad], [vault EXCEPT ![i].sessions = Bad],
                             [vault EXCEPT ![i].digest = Junk]}
          /\ UNCHANGED pool
       \/ /\ \E x \in Blobs : pool[x] # Missing /\ pool' \in {[pool EXCEPT ![x] = c] : c \in {Missing, Bad}}
          /\ UNCHANGED vault
    /\ UNCHANGED <<stg, inc>>

VaultNext == Stage \/ Land \/ Release \/ Decay

VaultSpec == VaultInit /\ [][VaultNext]_vaultVars
-----------------------------------------------------------------------------
\* A backup the restore takes when its doctor reads everything and says so.
restorable(b, p, full) == restore(b, Truth(b.manifests, p, full))

\* Few enough manifests for a doctor that is not told to read them all.
Few(b) == Cardinality(Present(b.was)) <= Cap

\* What is published is the database of that night and exactly its manifests,
\* with every blob whole, whatever the mirror was like, whatever the doctor said
\* without reading and whichever copy went bad on the way to the NAS. Two copies
\* nothing reads back: with a bad db.sha256 the restore refuses the backup, with
\* that or a bad census.tsv the weekly verification alerts, and with nothing else.
PublishedRestores ==
    [][Len(vault') > Len(vault) =>
        LET i == Len(vault')
            b == vault'[i]
        IN  /\ b.db = i /\ b.manifests = b.was
            /\ \A x \in References(b.was) : pool'[x] = Intact
            /\ verify_backup_self(b) <=> b.db_sha = i /\ b.census = i
            /\ \A full \in BOOLEAN :
                 restorable(b, pool', full) <=> b.db_sha = i /\ (full \/ Few(b))]_vaultVars

\* A week without an alert means that every backup is what was backed up, and is
\* taken by the restore if its doctor reads it all (verify_weekly against
\* restore-cass.sh, which looks at other things).
QuietWeekRestores ==
    verify_weekly => \A i \in DOMAIN vault :
        LET b == vault[i]
        IN  /\ b.db = i /\ b.manifests = b.was
            /\ \A x \in References(b.was) : pool[x] = Intact
            /\ \A full \in BOOLEAN : restorable(b, pool, full) <=> full \/ Few(b)

\* What the restore accepts is what was backed up, the database and exactly the
\* manifests of that night, although two parts of the backup were changed to fit
\* each other and whatever the doctor tells it.
RestoreIsTrue ==
    \A i \in DOMAIN vault, full \in BOOLEAN :
        \A told \in Told(vault[i].manifests, pool, full) :
            restore(vault[i], told) => vault[i].db = i /\ vault[i].manifests = vault[i].was

\* What restore_verify says a positive count is the proof of: the blobs of an
\* accepted backup were read, and are whole. The doctor here counts only what it
\* did read.
AcceptedBlobsAreWhole ==
    \A i \in DOMAIN vault, read \in SUBSET Labels, full \in BOOLEAN :
        restore(vault[i], doctor(vault[i].manifests, read, pool, full)) =>
            \A x \in References(vault[i].was) : pool[x] = Intact

\* What step 15 says of a backup that gets its COMPLETE: all of it was verified.
PublishedIsVerified ==
    [][Len(vault') > Len(vault) => verify_backup_self(vault'[Len(vault')])]_vaultVars

\* A sound backup is taken by restore-cass.sh as it calls the doctor, without the
\* switch that step 5 says must come with it.
SoundBackupsRestore ==
    verify_weekly => \A i \in DOMAIN vault : restorable(vault[i], pool, FALSE)
=============================================================================
