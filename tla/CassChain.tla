----------------------------- MODULE CassChain -----------------------------
(***************************************************************************)
(* How the nightly backups on the NAS are read back: which directories     *)
(* count, which is the newest, which are rotated away, and whether what is *)
(* there is an unbroken chain (infra/backup/cass/cass_common.py and        *)
(* cass_chain.py).                                                         *)
(*                                                                         *)
(* R is the retained set: a function from the names of all cass-*          *)
(* directories that hold COMPLETE to their digest.json, or to Unreadable   *)
(* where it is missing, torn or no object. A digest is a record            *)
(*   id       its bytes, as a hash sees them                               *)
(*   gen      generation                                                   *)
(*   prev     prev_backup_name, NoName at the first backup                 *)
(*   sha      prev_sidecar_sha256: the id prev had                         *)
(*   reset    "no", "yes", or "mute" for a retention_reset without reason  *)
(*   rebased  NoName, or rebaselined_from                                  *)
(*   why      whether a rebaseline gives its reason                        *)
(***************************************************************************)
EXTENDS Naturals, FiniteSets

CONSTANTS Unreadable, NoName

\* _scan_published and _scan_r: the members with a generation. Generations
\* that are no integer, or not positive, are Unreadable.
Valid(R) == {n \in DOMAIN R : R[n] # Unreadable}

Skipped(R) == DOMAIN R \ Valid(R)

Newest(R, S) == CHOOSE n \in S : \A m \in S : R[m].gen <= R[n].gen
Oldest(R, S) == CHOOSE n \in S : \A m \in S : R[n].gen <= R[m].gen

\* latest_published: strict refuses to choose (the error) when a member is
\* skipped, the tolerant one takes the newest of the rest.
latest_published(R, strict) ==
    IF strict /\ Skipped(R) # {} THEN Unreadable
    ELSE IF Valid(R) = {} THEN NoName
    ELSE Newest(R, Valid(R))

\* rotation_victims: all but the keep newest. They go oldest first.
rotation_victims(R, keep) ==
    {n \in Valid(R) : Cardinality({m \in Valid(R) : R[m].gen > R[n].gen}) >= keep}

\* pre_reset_victims: everything before the reset.
pre_reset_victims(R, gen) == {n \in Valid(R) : R[n].gen < gen}

-----------------------------------------------------------------------------
Twins(R) == \E m, n \in Valid(R) : m # n /\ R[m].gen = R[n].gen

EndsWalk(R, n) == R[n].reset # "no" \/ R[n].rebased # NoName

\* Case A of the walk: the predecessor is retained and its bytes are the ones
\* on record.
Links(R, n) == ~EndsWalk(R, n) /\ R[n].prev \in Valid(R) /\ R[R[n].prev].id = R[n].sha

Step(R, n) == IF Links(R, n) THEN R[n].prev ELSE n

\* The walk from the newest along the predecessors, long enough to end.
Walk(R) ==
    LET path[i \in 0..Cardinality(Valid(R))] ==
            IF i = 0 THEN Newest(R, Valid(R)) ELSE Step(R, path[i - 1])
    IN  path

\* What verify_chain has to say about the place where the walk ends.
WalkProblems(R) ==
    LET path == Walk(R)
        seen == {path[i] : i \in DOMAIN path}
        cur  == path[Cardinality(Valid(R))]
        head == Oldest(R, Valid(R))
        left == Valid(R) \ seen
        d    == R[cur]
    IN  IF Links(R, cur) THEN {"cycle"}
        ELSE IF d.reset # "no"                                           \* C1
             THEN (IF d.reset = "mute" THEN {"reset without reason"} ELSE {})
                    \union (IF cur # head THEN {"reset is not the head"} ELSE {})
                    \union (IF \E m \in left : R[m].gen >= d.gen THEN {"orphan"} ELSE {})
        ELSE IF d.rebased # NoName                                       \* C2
             THEN (IF d.rebased # d.prev THEN {"rebased from another"} ELSE {})
                    \union (IF ~d.why THEN {"rebased without reason"} ELSE {})
                    \union (IF \E m \in left : R[m].gen >= d.gen THEN {"orphan"} ELSE {})
        ELSE IF d.prev \in Valid(R) THEN {"predecessor changed"}         \* A
        ELSE IF cur # head THEN {"predecessor missing"}                  \* B
        ELSE IF left # {} THEN {"orphan"} ELSE {}

\* How many must be retained. Not a lower bound only: one more is an error too.
CountProblems(R, keep) ==
    LET g     == R[Newest(R, Valid(R))].gen
        holds == {n \in Valid(R) : R[n].reset # "no"}
        point == Newest(R, holds)
        since == IF holds = {} THEN g ELSE (g - R[point].gen) + 1
        due   == IF since >= keep THEN keep ELSE since
    IN  (IF holds # {} /\ point # Oldest(R, Valid(R)) THEN {"reset is not the head"} ELSE {})
          \union (IF Cardinality(Valid(R)) # due THEN {"count"} ELSE {})

\* verify_chain: the problems, none if the chain is as it should be.
verify_chain(R, keep) ==
    IF DOMAIN R = {} THEN {"no backups"}
    ELSE LET torn == IF Skipped(R) # {} THEN {"unreadable"} ELSE {}
         IN  IF Valid(R) = {} THEN torn
             ELSE IF Twins(R) THEN torn \union {"twins"}
             ELSE torn \union WalkProblems(R) \union CountProblems(R, keep)
=============================================================================
