------------------------------ MODULE MCFiles ------------------------------
(***************************************************************************)
(* Eight parts whose files others read, one at a time: the checkpoint, the   *)
(* corpus export and its pruner, the feeder of EverOS, the restore from the  *)
(* mirror, the blob store, the PIN file and the view of the ledger. They     *)
(* share no state, so they are not interleaved: part says which of them      *)
(* moves. Review commands, paths, threads and queries are the same two       *)
(* names, contents, fingerprints and error codes another two; conversations  *)
(* are told apart by their first rowids.                                     *)
(***************************************************************************)
EXTENDS Checkpoint, CorpusFeed, EverosFeed, MirrorRestore, BlobStore, LedgerView,
        PinFile, Pruner

VARIABLE part

Interchangeable == Permutations(Paths) \union Permutations(Payloads)

-----------------------------------------------------------------------------
\* A shared name, the first name taken, and one name each for texts of which one
\* is short for a while.
MCLayouts ==
    LET Empty == [n \in Names |-> NoText]
        One == [c \in Convs |-> 1]
        first == CHOOSE r \in Numberings : TRUE
    IN  {[named |-> One, enough |-> One, corpus |-> Empty],
           [named |-> first, enough |-> One, corpus |-> [Empty EXCEPT ![1] = Foreign]],
           [named |-> first, enough |-> first, corpus |-> Empty]}

\* One message of each treatment, with an id where the role map asks for one; an
\* answer and a tool call may begin like an orphan.
MCRoles ==
    [role : {"tool_call"}, id : {TRUE}, mark : {TRUE}]
      \union [role : {"user", "assistant", "reasoning", "system"}, id : {FALSE}, mark : {FALSE}]
      \union [role : {"assistant"}, id : {FALSE}, mark : {TRUE}]

\* Three lines: short to longer than any cap, errors at either end, within, or none.
MCOutputs ==
    LET Lines == UNION {[len : {n}, ats : {{}, {0}, {(n - Word) \div 2}, {n - Word}, {0, n - Word}}] :
                        n \in {12, 150, 330, 1800}}
    IN  {<<f, g, h>> : f, g, h \in Lines}

-----------------------------------------------------------------------------
FilesInit ==
    /\ part \in {"checkpoint", "corpus", "everos", "mirror", "blobs", "view", "pin", "prune"}
    /\ Init /\ FeedInit /\ EverosInit /\ MirrorInit /\ BlobInit /\ ViewInit
    /\ PinInit /\ PruneInit
    /\ rowid = CHOOSE r \in Numberings : TRUE
    /\ part # "corpus" => /\ named = [c \in Convs |-> 1] /\ enough = named
                          /\ corpus = [n \in Names |-> NoText]
    /\ part # "pin" => pin.text = CHOOSE v \in Versions : TRUE

CheckpointStep ==
    /\ part = "checkpoint" /\ Next
    /\ UNCHANGED <<part, feedVars, everosVars, mirrorVars, blobVars, viewVars, pinVars, cut>>

CorpusStep ==
    /\ part = "corpus" /\ FeedNext
    /\ UNCHANGED <<part, vars, everosVars, mirrorVars, blobVars, viewVars, pinVars, cut>>

EverosStep ==
    /\ part = "everos" /\ EverosNext
    /\ UNCHANGED <<part, vars, feedVars, mirrorVars, blobVars, viewVars, pinVars, cut>>

MirrorStep ==
    /\ part = "mirror" /\ MirrorNext
    /\ UNCHANGED <<part, vars, feedVars, everosVars, blobVars, viewVars, pinVars, cut>>

BlobStep ==
    /\ part = "blobs" /\ BlobNext
    /\ UNCHANGED <<part, vars, feedVars, everosVars, mirrorVars, viewVars, pinVars, cut>>

ViewStep ==
    /\ part = "view" /\ ViewNext
    /\ UNCHANGED <<part, vars, feedVars, everosVars, mirrorVars, blobVars, pinVars, cut>>

PinStep ==
    /\ part = "pin" /\ PinNext
    /\ UNCHANGED <<part, vars, feedVars, everosVars, mirrorVars, blobVars, viewVars, cut>>

PruneStep ==
    /\ part = "prune" /\ Prune
    /\ UNCHANGED <<part, vars, feedVars, everosVars, mirrorVars, blobVars, viewVars, pinVars>>

FilesNext ==
    \/ CheckpointStep \/ CorpusStep \/ EverosStep \/ MirrorStep
    \/ BlobStep \/ ViewStep \/ PinStep \/ PruneStep

FilesSpec ==
    FilesInit /\ [][FilesNext]_<<part, vars, feedVars, everosVars, mirrorVars, blobVars, viewVars,
                             pinVars, cut>>
=============================================================================
