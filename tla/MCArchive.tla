----------------------------- MODULE MCArchive -----------------------------
(***************************************************************************)
(* Four parts of the archive backup, one at a time: the directories and     *)
(* their chain, the gate, the parts of a published backup, and the sessions  *)
(* channel. What each sees of the others is a choice in it, so they are not  *)
(* interleaved: part says which of them moves. The labels of the one and the *)
(* files of the other are the same two names.                                *)
(***************************************************************************)
EXTENDS CassBackup, CassGate, CassVault, MCCassSessions

VARIABLE part

Interchangeable == Permutations(Labels) \union SessionFiles

-----------------------------------------------------------------------------
Row(k, w) == [key |-> k, tail |-> w]

\* n rows of a table that is counted only.
Plain(n) == [i \in 1..n |-> Row("k", 0)]

\* One healthy database, and what may differ from it.
Healthy ==
    [rows |-> ("messages" :> Plain(1)) @@ ("conversations" :> Plain(1)) @@ ("meta" :> Plain(1))
                @@ ("extra" :> Plain(1)) @@ ("config" :> Plain(0)),
     torn |-> {}, split |-> {}, plan |-> TRUE, schema |-> "v1",
     marks |-> [k \in Keys |-> 1],
     check |-> [out |-> <<"benign">>, err |-> "malformed", code |-> 1]]

Grown(D, t) ==
    {[d EXCEPT !.rows[t] = r] : d \in D,
        r \in {Plain(2), [i \in 1..2 |-> Row("k", 1)], [i \in 1..2 |-> Row("z", 0)],
               [i \in 1..1 |-> Row("z", 0)], [i \in {2} |-> Row("k", 0)], Plain(0)}}

Without(D, t) ==
    {[d EXCEPT !.rows = [s \in DOMAIN @ \ {t} |-> @[s]]] : d \in D}

Base == {Healthy, [Healthy EXCEPT !.rows["messages"] = Plain(2)]}

MCSnapshots ==
    Base \union Grown({Healthy}, "messages") \union Grown({Healthy}, "conversations")
      \union {[d EXCEPT !.schema = "v2"] : d \in Base}
      \union {[d EXCEPT !.marks[k] = m] : d \in Base, k \in Keys, m \in {0, 2, Absent, Malformed}}
      \union Without(Base, "extra") \union Without({Healthy}, "meta") \union Without({Healthy}, "messages")
      \union {[d EXCEPT !.rows["extra"] = r] : d \in Base, r \in {Plain(0), Plain(2)}}
      \union {[d EXCEPT !.torn = {t}] : d \in Base, t \in {"extra", "config", "meta", "messages"}}
      \union {[Healthy EXCEPT !.split = {"meta"}], [Healthy EXCEPT !.plan = FALSE]}
      \union {[Healthy EXCEPT !.check = [out |-> o, err |-> e, code |-> c]] :
                o \in {<<"ok">>, <<"benign", "benign">>, <<"ok", "benign">>, <<"other">>, << >>},
                e \in {"", "malformed", "other"}, c \in {0, 1}}

-----------------------------------------------------------------------------
ArchiveInit ==
    /\ part \in {"chain", "gate", "vault", "sessions"}
    /\ Init /\ GateInit /\ VaultInit /\ SessionsInit

ChainStep == part = "chain" /\ Next /\ UNCHANGED <<part, gateVars, vaultVars, sessionsVars>>
GateStep == part = "gate" /\ GateNext /\ UNCHANGED <<part, vars, vaultVars, sessionsVars>>
VaultStep == part = "vault" /\ VaultNext /\ UNCHANGED <<part, vars, gateVars, sessionsVars>>
SessionsStep == part = "sessions" /\ SessionsNext /\ UNCHANGED <<part, vars, gateVars, vaultVars>>

ArchiveNext == ChainStep \/ GateStep \/ VaultStep \/ SessionsStep

ArchiveSpec == ArchiveInit /\ [][ArchiveNext]_<<part, vars, gateVars, vaultVars, sessionsVars>>
=============================================================================
