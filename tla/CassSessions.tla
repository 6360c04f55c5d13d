---------------------------- MODULE CassSessions ----------------------------
(***************************************************************************)
(* The sessions channel of the nightly backup (backup-cass.sh steps 13a to  *)
(* 13g over infra/backup/cass/cass_sessions.py): session files that agents  *)
(* append to are appended to a pool on the NAS by rsync --append, and a     *)
(* table on the NAS, rewritten atomically, says how long each was and what  *)
(* it hashed to. A run may be killed between any two steps, the sources may *)
(* change under it, and the NAS may lose or damage what it holds.           *)
(*                                                                         *)
(* A file is a sequence of blocks. A hash identifies content, so a record   *)
(* holds the content itself: nas_size is its length.                        *)
(***************************************************************************)
EXTENDS Naturals, FiniteSets, SequencesExt

CONSTANTS
    Files,      \* the relative paths alias/subpath
    Blocks,     \* what files are made of
    Contents,   \* what a file may hold, a set of non-empty sequences
    NoFile,     \* the file, the record or the whole table does not exist
    Rotten,     \* a block that damage on the NAS leaves
    SessionNights,     \* bound: runs
    MaxEdits,   \* bound: changes of the sources
    MaxMishaps   \* bound: runs that stop, records missed, damage, tables lost

\* What may stand on the NAS, and a line of the table.
Anything == Seq(Blocks \union {Rotten})
Records == [content : Anything, present : BOOLEAN]

ASSUME SessionsAssumption ==
    /\ {SessionNights, MaxEdits, MaxMishaps} \subseteq Nat
    /\ Contents \subseteq Seq(Blocks) \ {<< >>}
    /\ NoFile \notin Anything \union Records \union [Files -> Records \union {NoFile}]

VARIABLES
    src,          \* the sources
    nas,          \* DEST/sessions
    table,        \* sessions.state.tsv: NoFile, or a record or NoFile per file
    stage,           \* step of the run, "off" between runs
    adopt,        \* ADOPT_SESSIONS of this run
    quarantine,   \* QUARANTINE_SESSIONS of this run
    exclude,      \* what check-source excludes
    fail,         \* SESSIONS_FAIL
    pending,      \* files rsync has not looked at
    transferred,  \* transferred.all
    tsv,          \* sessions.tsv of this run, NoFile until the gate writes it
    published,    \* history: per file what the newest published tsv holds
    sent,         \* history: what was transferred since, by runs that published or not
    ever,         \* history: per file everything the source has held
    blind,        \* history: a run stopped, an edit fell into a run, or damage
    hurt,         \* history: the NAS was damaged
    night, edits, mishaps

env  == <<src, ever, edits>>
run  == <<adopt, quarantine, exclude, fail, pending, transferred, tsv>>
sessionsVars == <<src, nas, table, stage, run, published, sent, ever, blind, hurt, night, edits, mishaps>>

Exists(c) == c # NoFile

\* The record of f, NoFile if there is none.
Rec(f) == IF table = NoFile THEN NoFile ELSE table[f]

Record(c, present) == [content |-> c, present |-> present]

Mishap == /\ mishaps < MaxMishaps
         /\ mishaps' = mishaps + 1
         /\ blind' = TRUE

SessionsInit ==
    /\ src = [f \in Files |-> NoFile]
    /\ nas = [f \in Files |-> NoFile]
    /\ table = NoFile
    /\ stage = "off"
    /\ adopt = FALSE /\ fail = FALSE /\ blind = FALSE /\ hurt = FALSE
    /\ quarantine = {} /\ exclude = {} /\ pending = {} /\ transferred = {}
    /\ tsv = NoFile
    /\ published = [f \in Files |-> NoFile] /\ sent = {}
    /\ ever = [f \in Files |-> {}]
    /\ night = 0 /\ edits = 0 /\ mishaps = 0

-----------------------------------------------------------------------------
\* An agent appends, truncates, rewrites, deletes or creates a session file.
Edit(f) ==
    /\ edits < MaxEdits
    /\ \E c \in (Contents \union {NoFile}) \ {src[f]} :
        /\ src' = [src EXCEPT ![f] = c]
        /\ ever' = [ever EXCEPT ![f] = @ \union ({c} \ {NoFile})]
    /\ edits' = edits + 1
    /\ blind' = (blind \/ stage # "off")
    /\ UNCHANGED <<nas, table, stage, run, published, sent, hurt, night, mishaps>>

\* The NAS loses a file, or a block of it rots.
Damage(f) ==
    /\ stage = "off"
    /\ Exists(nas[f])
    /\ Mishap
    /\ hurt' = TRUE
    /\ nas' \in {[nas EXCEPT ![f] = NoFile], [nas EXCEPT ![f][1] = Rotten]}
    /\ UNCHANGED <<env, table, stage, run, published, sent, night>>

\* The table is lost, and with it what the NAS was known to hold.
LoseTable ==
    /\ stage = "off"
    /\ table # NoFile
    /\ Mishap
    /\ table' = NoFile
    /\ published' = [f \in Files |-> NoFile]
    /\ UNCHANGED <<env, nas, stage, run, sent, hurt, night>>

-----------------------------------------------------------------------------
\* 13a: without a table only a run that adopts goes on. A person chooses what
\* to adopt and what to quarantine; cron does neither.
Begin ==
    /\ stage = "off"
    /\ night < SessionNights
    /\ night' = night + 1
    /\ adopt' \in BOOLEAN
    /\ quarantine' \in SUBSET Files
    /\ exclude' = {} /\ transferred' = {} /\ tsv' = NoFile
    /\ fail' = FALSE
    /\ pending' = {}
    /\ stage' = IF table = NoFile /\ ~adopt' THEN "off" ELSE "check"
    /\ UNCHANGED <<env, nas, table, published, sent, blind, hurt, mishaps>>

\* A record whose source is there must be a prefix of it, whatever its status.
Continues(f) ==
    \/ Rec(f) = NoFile
    \/ ~Exists(src[f])
    \/ IsPrefix(Rec(f).content, src[f])

\* A record that was absent at the last publication is not compared.
Anomalous_ByStatus ==
    {f \in Files \ quarantine : ~Continues(f) /\ Rec(f).present}

Anomalous == {f \in Files \ quarantine : ~Continues(f)}

\* 13b check-source.
check_source ==
    /\ stage = "check"
    /\ exclude' = Anomalous \union quarantine
    /\ fail' = (Anomalous # {})
    /\ pending' = Files
    /\ stage' = "rsync"
    /\ UNCHANGED <<env, nas, table, adopt, quarantine, transferred, tsv, published, sent,
                   blind, hurt, night, mishaps>>

\* rsync --append of one file: what the NAS has is not read, only continued.
Appended(old, new) ==
    IF ~Exists(old) THEN new ELSE old \o SubSeq(new, Len(old) + 1, Len(new))

\* 13c and 13d.
rsync_file(f) ==
    /\ stage = "rsync"
    /\ f \in pending
    /\ pending' = pending \ {f}
    /\ LET sends == /\ f \notin exclude
                    /\ Exists(src[f])
                    /\ Exists(nas[f]) => Len(src[f]) > Len(nas[f])
       IN  /\ nas' = IF sends THEN [nas EXCEPT ![f] = Appended(@, src[f])] ELSE nas
           /\ transferred' = IF sends THEN transferred \union {f} ELSE transferred
           /\ sent' = IF sends THEN sent \union {f} ELSE sent
    /\ UNCHANGED <<env, table, stage, adopt, quarantine, exclude, fail, tsv, published,
                   blind, hurt, night, mishaps>>

\* What was sent is hashed where it came from instead of where it went.
ReadBack_Source(f) == IF Exists(src[f]) THEN src[f] ELSE nas[f]

ReadBack(f) == nas[f]

\* 13e update-state: records what was transferred as the NAS gives it back, and
\* does not wait for the rest of the run. A line of the list may be missed.
update_state ==
    /\ stage = "rsync"
    /\ pending = {}
    /\ \E missed \in SUBSET transferred :
        /\ IF missed = {} THEN UNCHANGED <<blind, mishaps>>
                          ELSE Cardinality(missed) = 1 /\ Mishap
        /\ table' = [f \in Files |-> IF f \in transferred \ missed
                                     THEN Record(ReadBack(f), TRUE) ELSE Rec(f)]
    /\ stage' = "gate"
    /\ UNCHANGED <<env, nas, run, published, sent, hurt, night>>

-----------------------------------------------------------------------------
\* The verdict of the publish gate on one file of the table or of the NAS. A
\* file that was not transferred and has no record is adopted or refused.
Refused_UnlessAbsent(f) ==
    LET r == Rec(f)
    IN  IF ~Exists(nas[f]) THEN r # NoFile /\ r.present
        ELSE IF r = NoFile THEN f \notin transferred /\ ~adopt
        ELSE ~IsPrefix(r.content, nas[f])

Refused(f) ==
    LET r == Rec(f)
    IN  IF ~Exists(nas[f]) THEN r # NoFile
        ELSE IF r = NoFile THEN f \notin transferred /\ ~adopt
        ELSE ~IsPrefix(r.content, nas[f])

\* 13f and 13g publish-gate: everything is read back; one problem and nothing
\* is written. Otherwise the table becomes what was read, with the status the
\* source has now, and is copied to the backup.
publish_gate ==
    /\ stage = "gate"
    /\ IF \E f \in Files : Refused(f)
       THEN stage' = "off" /\ UNCHANGED <<table, tsv>>
       ELSE /\ table' = [f \in Files |-> IF Exists(nas[f])
                             THEN Record(nas[f], Exists(src[f])) ELSE NoFile]
            /\ tsv' = table'
            /\ stage' = "publish"
    /\ UNCHANGED <<env, nas, adopt, quarantine, exclude, fail, pending, transferred,
                   published, sent, blind, hurt, night, mishaps>>

\* After step 14b: an anomaly seen at 13b still keeps the run from publishing.
publish ==
    /\ stage = "publish"
    /\ published' = IF fail THEN published
                    ELSE [f \in Files |-> IF tsv[f] = NoFile THEN NoFile ELSE tsv[f].content]
    /\ sent' = IF fail THEN sent ELSE {}
    /\ stage' = "off"
    /\ UNCHANGED <<env, nas, table, run, blind, hurt, night, mishaps>>

\* The run is killed, or one of its commands fails.
Stop ==
    /\ stage # "off"
    /\ Mishap
    /\ stage' = "off"
    /\ UNCHANGED <<env, nas, table, run, published, sent, hurt, night>>

SessionsNext ==
    \/ Begin \/ check_source \/ update_state \/ publish_gate \/ publish \/ Stop
    \/ LoseTable
    \/ \E f \in Files : Edit(f) \/ Damage(f) \/ rsync_file(f)

SessionsSpec == SessionsInit /\ [][SessionsNext]_sessionsVars
-----------------------------------------------------------------------------
\* restore_sessions_check.py: the rows of the backup against the pool as it is.
restore_sessions_check(rows) ==
    /\ \E f \in Files : Exists(rows[f])
    /\ \A f \in Files : Exists(rows[f]) => nas[f] = rows[f]

\* A publication that takes something from the one before says so: as long as
\* the table was not lost, a file that an earlier publication lists and that no
\* run has transferred since is in the next publication, continued or as it was
\* (cass_sessions.py 339-364), although the NAS may have lost or damaged it and
\* although nights without a publication lie between.
PublishedIsContinued ==
    [][\A f \in Files :
        stage = "publish" /\ published' # published /\ f \notin sent /\ Exists(published[f])
            => Exists(published'[f]) /\ IsPrefix(published[f], published'[f])]_sessionsVars

\* The same of every file. A transferred file is recorded anew before the gate
\* compares it with what was recorded (update_state), damage and all.
DamageIsSeen ==
    [][\A f \in Files :
        stage = "publish" /\ published' # published /\ Exists(published[f])
            => Exists(published'[f]) /\ IsPrefix(published[f], published'[f])]_sessionsVars

\* As long as the NAS is undamaged, the sessions of the newest published backup
\* can be restored, between any two nights (RESTORE-cass.md 39-52).
PublishedCanBeRestored ==
    ~hurt /\ stage = "off" /\ (\E f \in Files : Exists(published[f]))
        => restore_sessions_check(published)

\* What rsync --append puts together is one file and not two: in runs that
\* were not stopped, with sources that change only between runs, every file of
\* the pool is the beginning of something its source once held (13b before 13c,
\* and by the source's presence, not by the recorded status).
PoolHoldsNoMixture ==
    ~blind => \A f \in Files :
        Exists(nas[f]) => \E c \in ever[f] : IsPrefix(nas[f], c)

\* The table never runs ahead of the pool: as long as the NAS is undamaged, a
\* record is the beginning of what the pool holds, whenever a run was killed and
\* whatever became of the source meanwhile (13e reads back from the NAS).
TableFollowsPool ==
    ~hurt => \A f \in Files :
        Rec(f) # NoFile => Exists(nas[f]) /\ IsPrefix(Rec(f).content, nas[f])
=============================================================================
