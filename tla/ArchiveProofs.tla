--------------------------- MODULE ArchiveProofs ---------------------------
(***************************************************************************)
(* Proofs about the backup of the archive, for any number of nights, files, *)
(* faults and resets, and any contents: the directories of the runs and the *)
(* chain of their digests; the gate; the sessions channel; the parts of the *)
(* published backups. Each part has its invariant, the steps that keep it,  *)
(* and the properties that follow from it.                                  *)
(***************************************************************************)
EXTENDS CassBackup, CassGate, CassSessions, CassVault, NumberFacts, SequenceTheorems

-----------------------------------------------------------------------------
(* The directories on the NAS and their chain.                               *)

Dir == [name: Names, complete: BOOLEAN, whole: BOOLEAN, digest: DigestType \union {NoDigest}]

Numbers == now \in 0..Nights /\ faults \in 0..MaxFaults /\ resets \in 0..MaxResets /\ quiet \in 0..Nights

Flags == trap \in BOOLEAN /\ reset \in BOOLEAN /\ failed \in BOOLEAN

Phases == {"off", "sweep", "gate", "mkdir", "fill", "filled", "marked", "published", "rotate"}

BackupTyped ==
    /\ dirs \in [Stamps -> Dir] /\ victims \subseteq Stamps /\ pc \in Phases
    /\ Numbers /\ Flags

\* The directories of a listing that count, by their number.
Counted(d) == {s \in Stamps : d[s].name = "cass" /\ d[s].complete /\ d[s].digest # NoDigest}

Gen(d, s) == d[s].digest.gen

\* Younger directories have greater generations, none greater than their number.
InOrder(d) ==
    /\ \A m, n \in Counted(d) : m < n => Gen(d, m) < Gen(d, n)
    /\ \A s \in Stamps : d[s].digest # NoDigest => Gen(d, s) <= s

IsFirst(d, n) == \A m \in Counted(d) : Gen(d, n) <= Gen(d, m)

GoesOn(d, n) == d[n].digest.prev \in Counted(d) /\ Gen(d, d[n].digest.prev) + 1 = Gen(d, n)

NoGap(d) == \A n \in Counted(d) : IsFirst(d, n) \/ GoesOn(d, n)

\* A name tells what the directory holds; a marked one that still waits to be
\* renamed is whole.
Honest(x) ==
    /\ x.name = "RECOVERABLE" => Restorable(x)
    /\ x.name = "incomplete" /\ x.complete => Restorable(x)
    /\ x.name \in {"INCOMPLETE", "none", "SUSPECT"} => ~x.complete
    /\ x.name = "cass" /\ ~Restorable(x) => ~x.whole

\* The directory of the run that is on is the newest, and says how far it is.
Standing ==
    /\ \A s \in Stamps : s > now => dirs[s] = Gone
    /\ pc # "off" => now \in Stamps
    /\ pc \in {"sweep", "gate", "mkdir"} => dirs[now] = Gone
    /\ pc = "fill" => dirs[now] = [Gone EXCEPT !.name = "incomplete"]
    /\ pc \in {"filled", "marked"} => /\ dirs[now].name = "incomplete"
                                      /\ Counted(dirs) = {} \/ GoesOn(dirs, now)
    /\ pc \in {"filled", "marked", "published", "rotate"} =>
            /\ dirs[now].whole /\ dirs[now].digest # NoDigest
            /\ \A m \in Counted(dirs) \ {now} : Gen(dirs, m) < Gen(dirs, now)
    /\ pc = "filled" => ~dirs[now].complete
    /\ pc \in {"marked", "published", "rotate"} => dirs[now].complete
    /\ pc \in {"published", "rotate"} => dirs[now].name = "cass"
    /\ trap => pc \in {"fill", "filled", "marked", "published"}
    /\ quiet <= IF pc = "off" THEN now ELSE now - 1

\* Victims are the oldest, and never the new backup.
VictimsAreOld ==
    /\ victims # {} => pc = "rotate"
    /\ victims \subseteq Counted(dirs) \ {now}
    /\ \A v \in victims, m \in Counted(dirs) : Gen(dirs, m) < Gen(dirs, v) => m \in victims

BackupInv ==
    /\ BackupTyped /\ InOrder(dirs) /\ NoGap(dirs)
    /\ \A s \in Stamps : Honest(dirs[s])
    /\ Standing /\ VictimsAreOld

LEMMA ChosenOldest ==
    ASSUME NEW R, NEW S, S # {}, \A n \in S : R[n].gen \in Nat
    PROVE  Oldest(R, S) \in S /\ \A m \in S : R[Oldest(R, S)].gen <= R[m].gen
<1> DEFINE T == {R[n].gen : n \in S}
<1>1. T \in SUBSET Nat /\ T # {}
  OBVIOUS
<1> HIDE DEF T
<1>2. PICK g \in T : \A k \in T : g <= k
  BY <1>1, LeastNumber
<1>3. PICK n \in S : R[n].gen = g
  BY <1>2 DEF T
<1>4. \A m \in S : R[n].gen <= R[m].gen
  BY <1>2, <1>3 DEF T
<1> QED BY <1>4, Zenon DEF Oldest

LEMMA ChosenNewest ==
    ASSUME NEW R, NEW S, S # {}, NEW b \in Nat, \A n \in S : R[n].gen \in Nat /\ R[n].gen <= b
    PROVE  Newest(R, S) \in S /\ \A m \in S : R[m].gen <= R[Newest(R, S)].gen
<1> DEFINE T == {R[n].gen : n \in S}
<1>1. T \in SUBSET Nat /\ T # {} /\ \A k \in T : k <= b
  OBVIOUS
<1> HIDE DEF T
<1>2. PICK g \in T : \A k \in T : k <= g
  BY <1>1, GreatestNumber
<1>3. PICK n \in S : R[n].gen = g
  BY <1>2 DEF T
<1>4. \A m \in S : R[m].gen <= R[n].gen
  BY <1>2, <1>3 DEF T
<1> QED BY <1>4, Zenon DEF Newest

LEMMA DirFacts ==
    ASSUME BackupTyped
    PROVE  /\ dirs \in [Stamps -> Dir] /\ now \in Nat /\ quiet \in Nat /\ Nights \in Nat /\ Keep \in Nat
           /\ Stamps \subseteq Nat /\ Gone \in Dir /\ ~ Restorable(Gone)
           /\ \A s \in Stamps : dirs[s].digest # NoDigest => dirs[s].digest \in DigestType /\ Gen(dirs, s) \in Stamps
<1>1. dirs \in [Stamps -> Dir]
  BY DEF BackupTyped
<1>2. /\ now \in Nat /\ quiet \in Nat /\ Nights \in Nat /\ Keep \in Nat /\ Stamps \subseteq Nat
  BY BackupAssumption DEF BackupTyped, Numbers, Stamps
<1>3. Gone \in Dir /\ ~ Restorable(Gone)
  BY DEF Dir, Gone, Names, Restorable
<1>4. \A g \in DigestType : g.gen \in Stamps
  BY DEF DigestType
<1>5. \A s \in Stamps : dirs[s].digest # NoDigest => dirs[s].digest \in DigestType
  BY <1>1 DEF Dir
<1> QED BY <1>1, <1>2, <1>3, <1>4, <1>5 DEF Gen

\* What the tools read from the listing are the directories that count.
LEMMA RetainedFacts ==
    ASSUME BackupTyped
    PROVE  /\ Valid(Retained) = Counted(dirs) /\ Counted(dirs) \subseteq Stamps
           /\ \A s \in Counted(dirs) : /\ Retained[s] = dirs[s].digest /\ Retained[s].gen = Gen(dirs, s)
                                       /\ Gen(dirs, s) \in Nat /\ Gen(dirs, s) <= Nights
<1> DEFINE S == {s \in Stamps : dirs[s].name = "cass" /\ dirs[s].complete}
<1>1. Retained = [s \in S |-> dirs[s].digest]
  BY DEF Retained
<1>2. DOMAIN Retained = S /\ \A s \in S : Retained[s] = dirs[s].digest
  BY <1>1
<1>3. Valid(Retained) = Counted(dirs) /\ Counted(dirs) \subseteq S
  BY <1>2 DEF Valid, Counted, NoDigest
<1> QED BY <1>2, <1>3, DirFacts DEF Counted, Gen, Stamps

\* A step that changes the directory s and no other.
OnlyAt(s) == dirs' \in [Stamps -> Dir] /\ \A t \in Stamps \ {s} : dirs'[t] = dirs[t]

LEMMA Replaced ==
    ASSUME BackupTyped, NEW s \in Stamps, NEW x \in Dir, dirs' = [dirs EXCEPT ![s] = x]
    PROVE  OnlyAt(s) /\ dirs'[s] = x
BY DirFacts DEF OnlyAt

LEMMA RenamedFacts ==
    ASSUME BackupTyped, NEW s \in Stamps, NEW name \in Names, Renamed(s, name)
    PROVE  /\ OnlyAt(s) /\ dirs'[s].name = name /\ dirs'[s].complete = dirs[s].complete
           /\ dirs'[s].whole = dirs[s].whole /\ dirs'[s].digest = dirs[s].digest
           /\ Restorable(dirs'[s]) <=> Restorable(dirs[s])
<1> DEFINE x == [dirs[s] EXCEPT !.name = name]
<1>1. dirs[s] \in Dir
  BY DirFacts
<1>2. /\ x \in Dir /\ x.name = name /\ x.complete = dirs[s].complete
      /\ x.whole = dirs[s].whole /\ x.digest = dirs[s].digest
  BY <1>1 DEF Dir
<1>3. dirs' = [dirs EXCEPT ![s] = x]
  BY DEF Renamed
<1> HIDE DEF x
<1>4. OnlyAt(s) /\ dirs'[s] = x
  BY <1>2, <1>3, Replaced
<1> QED BY <1>2, <1>4 DEF Restorable

\* A change outside the directories that count leaves the chain alone.
LEMMA Outside ==
    ASSUME BackupInv, NEW s \in Stamps, OnlyAt(s), s \notin Counted(dirs), s \notin Counted(dirs'),
           dirs'[s].digest # NoDigest => Gen(dirs', s) <= s
    PROVE  /\ Counted(dirs') = Counted(dirs) /\ \A t \in Counted(dirs) : Gen(dirs', t) = Gen(dirs, t)
           /\ \A t \in Counted(dirs) : dirs'[t] = dirs[t]
           /\ InOrder(dirs') /\ NoGap(dirs')
<1>1. Counted(dirs') = Counted(dirs)
  BY DEF OnlyAt, Counted
<1>2. \A t \in Counted(dirs) : dirs'[t] = dirs[t]
  BY DEF OnlyAt, Counted
<1>3. \A t \in Counted(dirs) : Gen(dirs', t) = Gen(dirs, t)
  BY <1>2 DEF Gen
<1>4. InOrder(dirs')
  BY <1>1, <1>3 DEF BackupInv, InOrder, OnlyAt, Gen
<1>5. NoGap(dirs')
  BY <1>1, <1>2, <1>3 DEF BackupInv, NoGap, IsFirst, GoesOn
<1> QED BY <1>1, <1>2, <1>3, <1>4, <1>5

\* The oldest that counts can be taken out, or the newest, and the chain of the
\* others has no gap.
LEMMA FirstOut ==
    ASSUME BackupInv, NEW s \in Counted(dirs), OnlyAt(s), s \notin Counted(dirs'),
           IsFirst(dirs, s) \/ \A m \in Counted(dirs) : Gen(dirs, m) <= Gen(dirs, s),
           dirs'[s].digest # NoDigest => Gen(dirs', s) <= s
    PROVE  Counted(dirs') = Counted(dirs) \ {s} /\ InOrder(dirs') /\ NoGap(dirs')
<1>1. Counted(dirs') = Counted(dirs) \ {s} /\ Counted(dirs) \subseteq Stamps
  BY DEF OnlyAt, Counted
<1>2. \A t \in Counted(dirs') : dirs'[t] = dirs[t] /\ Gen(dirs', t) = Gen(dirs, t)
  BY <1>1 DEF OnlyAt, Gen
<1>3. InOrder(dirs')
  BY <1>1, <1>2 DEF BackupInv, InOrder, OnlyAt, Gen
<1>4. \A t \in Counted(dirs) : Gen(dirs, t) \in Nat
  BY RetainedFacts DEF BackupInv
<1>5. \A t \in Counted(dirs) \ {s} : Gen(dirs, t) # Gen(dirs, s)
  BY <1>1, <1>4, DirFacts DEF BackupInv, InOrder
<1>6. ASSUME NEW n \in Counted(dirs') PROVE IsFirst(dirs', n) \/ GoesOn(dirs', n)
  <2>1. n \in Counted(dirs) /\ n # s
    BY <1>1
  <2>2. CASE IsFirst(dirs, n)
    BY <1>1, <1>2, <2>1, <2>2 DEF IsFirst
  <2>3. CASE GoesOn(dirs, n)
    <3>1. CASE dirs[n].digest.prev # s
      BY <1>1, <1>2, <2>1, <2>3, <3>1 DEF GoesOn
    <3>2. CASE dirs[n].digest.prev = s
      <4>1. Gen(dirs, s) + 1 = Gen(dirs, n)
        BY <2>3, <3>2 DEF GoesOn
      <4>2. IsFirst(dirs, s)
        BY <1>4, <2>1, <4>1
      <4>3. \A m \in Counted(dirs) \ {s} : Gen(dirs, n) <= Gen(dirs, m)
        BY <1>4, <1>5, <2>1, <4>1, <4>2 DEF IsFirst
      <4> QED BY <1>1, <1>2, <2>1, <4>3 DEF IsFirst
    <3> QED BY <3>1, <3>2
  <2> QED BY <2>1, <2>2, <2>3 DEF BackupInv, NoGap
<1> QED BY <1>1, <1>3, <1>6 DEF NoGap

LEMMA BackupStart == Init => BackupInv
<1> SUFFICES ASSUME Init PROVE BackupInv
  OBVIOUS
<1>1. \A s \in Stamps : dirs[s] = Gone
  BY DEF Init
<1>2. Counted(dirs) = {}
  BY <1>1 DEF Counted, Gone
<1>3. BackupTyped
  <2>1. Gone \in Dir
    BY DEF Gone, Names, Dir
  <2>2. dirs \in [Stamps -> Dir]
    BY <2>1 DEF Init
  <2>3. Numbers
    BY BackupAssumption DEF Init, Numbers
  <2>6. Flags
    BY DEF Init, Flags
  <2>4. victims \subseteq Stamps
    BY DEF Init
  <2>5. pc \in Phases
    BY DEF Init, Phases
  <2> QED BY <2>2, <2>3, <2>4, <2>5, <2>6 DEF BackupTyped
<1>4. \A s \in Stamps : Honest(dirs[s])
  BY <1>1 DEF Honest, Gone, Restorable
<1>5. InOrder(dirs) /\ NoGap(dirs)
  BY <1>1, <1>2 DEF InOrder, NoGap, Gone
<1>6. Standing /\ VictimsAreOld
  BY <1>1, <1>2 DEF Init, Standing, VictimsAreOld
<1> QED BY <1>3, <1>4, <1>5, <1>6 DEF BackupInv

\* Steps that leave the directories alone and do not touch the victims.
LEMMA StartStep ==
    ASSUME BackupInv, Start
    PROVE  BackupInv'
<1>1. dirs' = dirs /\ now' = now + 1 /\ pc' = "sweep" /\ trap' = trap /\ victims' = victims
  BY DEF Start
<1>2. now' \in Stamps /\ dirs[now'] = Gone
  BY DirFacts DEF Start, BackupInv, Standing, Stamps
<1>3. quiet' \in Nat /\ quiet' <= now
  BY DirFacts DEF Start, BackupInv, Standing
<1>4. BackupTyped'
  <2>1. Numbers'
    BY <1>1, <1>2, <1>3, BackupAssumption, DirFacts DEF Start, BackupInv, BackupTyped, Numbers, Stamps
  <2>2. Flags'
    BY <1>1 DEF Start, BackupInv, BackupTyped, Flags
  <2> QED BY <1>1, <2>1, <2>2 DEF BackupInv, BackupTyped, Phases
<1>5. Standing'
  BY <1>1, <1>2, <1>3, DirFacts DEF Start, BackupInv, Standing, Stamps
<1>6. VictimsAreOld'
  BY <1>1 DEF Start, BackupInv, VictimsAreOld
<1> QED BY <1>1, <1>4, <1>5, <1>6 DEF BackupInv

LEMMA StagedStep ==
    ASSUME BackupInv, Staged \/ GatePasses
    PROVE  BackupInv'
<1>1. /\ UNCHANGED <<dirs, now, trap, victims, quiet, faults, resets, reset, failed>>
      /\ pc \in {"sweep", "gate"} /\ pc' \in {"gate", "mkdir"}
  BY DEF Staged, GatePasses, NoFault
<1>2. BackupTyped'
  BY <1>1 DEF BackupInv, BackupTyped, Numbers, Flags, Phases
<1>3. Standing' /\ VictimsAreOld'
  BY <1>1 DEF BackupInv, Standing, VictimsAreOld
<1> QED BY <1>1, <1>2, <1>3 DEF BackupInv

LEMMA KillStep ==
    ASSUME BackupInv, Kill
    PROVE  BackupInv'
<1>1. /\ UNCHANGED <<dirs, now, resets, reset, failed>> /\ pc' = "off" /\ trap' = FALSE
      /\ victims' = {} /\ quiet' = 0 /\ faults' = faults + 1 /\ faults < MaxFaults
  BY DEF Kill, Fault, Off
<1>2. BackupTyped'
  <2>1. Numbers'
    BY <1>1, DirFacts, BackupAssumption DEF BackupInv, BackupTyped, Numbers
  <2>2. Flags'
    BY <1>1 DEF BackupInv, BackupTyped, Flags
  <2> QED BY <1>1, <2>1, <2>2 DEF BackupInv, BackupTyped, Phases
<1>3. Standing' /\ VictimsAreOld'
  BY <1>1, DirFacts DEF BackupInv, Standing, VictimsAreOld
<1> QED BY <1>1, <1>2, <1>3 DEF BackupInv

\* A run ends, and all that it changed is its own directory, which does not count.
LEMMA Ends ==
    ASSUME BackupInv, pc # "off", Fault \/ NoFault, Off, UNCHANGED <<now, reset, failed, resets>>,
           OnlyAt(now), now \notin Counted(dirs), now \notin Counted(dirs'), Honest(dirs'[now]),
           dirs'[now].digest # NoDigest => dirs'[now].digest = dirs[now].digest
    PROVE  BackupInv'
<1>1. now \in Stamps
  BY DEF BackupInv, Standing
<1>2. dirs'[now].digest # NoDigest => Gen(dirs', now) <= now
  BY <1>1 DEF BackupInv, InOrder, Gen
<1>3. InOrder(dirs') /\ NoGap(dirs') /\ Counted(dirs') = Counted(dirs)
  BY <1>1, <1>2, Outside
<1>4. \A s \in Stamps : Honest(dirs'[s])
  BY DEF BackupInv, OnlyAt
<1>5. \A s \in Stamps : s > now => dirs'[s] = Gone
  BY DirFacts DEF BackupInv, Standing, OnlyAt
<1>6. /\ pc' = "off" /\ trap' = FALSE /\ victims' = {} /\ quiet' \in {0, quiet}
      /\ \/ faults' = faults
         \/ faults' = faults + 1 /\ faults < MaxFaults
  BY DEF Fault, NoFault, Off
<1>7. BackupTyped'
  <2>1. Numbers'
    BY <1>6, DirFacts, BackupAssumption DEF BackupInv, BackupTyped, Numbers
  <2>2. Flags'
    BY <1>6 DEF BackupInv, BackupTyped, Flags
  <2> QED BY <1>6, <2>1, <2>2 DEF BackupInv, BackupTyped, Phases, OnlyAt
<1>8. Standing' /\ VictimsAreOld'
  BY <1>5, <1>6, DirFacts DEF BackupInv, Standing, VictimsAreOld
<1> QED BY <1>3, <1>4, <1>7, <1>8 DEF BackupInv

\* The directory of a run that has not published does not count.
LEMMA NotYet ==
    ASSUME BackupInv, pc \in {"sweep", "gate", "mkdir", "fill", "filled", "marked"}
    PROVE  now \in Stamps /\ now \notin Counted(dirs)
BY DEF BackupInv, Standing, Counted, Gone

LEMMA GateRefusesStep ==
    ASSUME BackupInv, GateRefuses
    PROVE  BackupInv'
<1> DEFINE x == [Gone EXCEPT !.name = "SUSPECT"]
<1>1. x \in Dir /\ x.name = "SUSPECT" /\ ~ x.complete /\ x.digest = NoDigest
  BY DEF Gone, Dir, Names
<1>2. pc = "gate" /\ dirs' = [dirs EXCEPT ![now] = x] /\ Off /\ UNCHANGED <<now, reset, failed, resets>>
  BY DEF GateRefuses
<1>3. Fault \/ NoFault
  BY DEF GateRefuses
<1> HIDE DEF x
<1>4. now \in Stamps /\ now \notin Counted(dirs)
  BY <1>2, NotYet
<1>5. OnlyAt(now) /\ dirs'[now] = x
  BY <1>1, <1>2, <1>4, Replaced DEF BackupInv
<1>6. now \notin Counted(dirs') /\ Honest(dirs'[now])
  BY <1>1, <1>5 DEF Counted, Honest
<1> QED BY <1>1, <1>2, <1>3, <1>4, <1>5, <1>6, Ends

LEMMA FailIncompleteStep ==
    ASSUME BackupInv, fail_incomplete
    PROVE  BackupInv'
<1>1. now \in Stamps /\ now \notin Counted(dirs) /\ Renamed(now, "INCOMPLETE") /\ "INCOMPLETE" \in Names
  BY NotYet DEF fail_incomplete, Names
<1>2. /\ OnlyAt(now) /\ dirs'[now].name = "INCOMPLETE" /\ dirs'[now].complete = dirs[now].complete
      /\ dirs'[now].digest = dirs[now].digest
  BY <1>1, RenamedFacts DEF BackupInv
<1>3. ~ dirs[now].complete
  BY DEF fail_incomplete, BackupInv, Standing, Gone
<1>4. now \notin Counted(dirs') /\ Honest(dirs'[now])
  BY <1>2, <1>3 DEF Counted, Honest
<1>5. pc # "off" /\ Fault /\ Off /\ UNCHANGED <<now, reset, failed, resets>>
  BY DEF fail_incomplete
<1> QED BY <1>1, <1>2, <1>4, <1>5, Ends

\* A run that ends without a change is as if it had been killed.
LEMMA EndsAsItWas ==
    ASSUME BackupInv, pc # "off", Fault, Off, UNCHANGED <<dirs, now, reset, failed, resets>>
    PROVE  BackupInv'
BY KillStep DEF Kill

LEMMA FailRecoverableStep ==
    ASSUME BackupInv, fail_recoverable
    PROVE  BackupInv'
<1>1. pc \in {"marked", "published"} /\ Fault /\ Off /\ UNCHANGED <<now, reset, failed, resets>>
  BY DEF fail_recoverable
<1>2. CASE UNCHANGED dirs
  BY <1>1, <1>2, EndsAsItWas
<1>3. CASE dirs[now].name = "incomplete" /\ Renamed(now, "RECOVERABLE")
  <2>1. now \in Stamps /\ "RECOVERABLE" \in Names
    BY <1>1 DEF BackupInv, Standing, Names
  <2>2. /\ OnlyAt(now) /\ dirs'[now].name = "RECOVERABLE"
        /\ dirs'[now].digest = dirs[now].digest
        /\ Restorable(dirs'[now]) <=> Restorable(dirs[now])
    BY <1>3, <2>1, RenamedFacts DEF BackupInv
  <2>3. Restorable(dirs[now])
    BY <1>1 DEF BackupInv, Standing, Restorable
  <2>4. now \notin Counted(dirs) /\ now \notin Counted(dirs') /\ Honest(dirs'[now])
    BY <1>3, <2>2, <2>3 DEF Counted, Honest
  <2> QED BY <1>1, <2>1, <2>2, <2>4, Ends
<1> QED BY <1>2, <1>3 DEF fail_recoverable

LEMMA TerminateStep ==
    ASSUME BackupInv, Terminate
    PROVE  BackupInv'
<1>1. pc # "off" /\ Fault /\ Off /\ UNCHANGED <<now, reset, failed, resets>> /\ cleanup
  BY DEF Terminate
<1>2. CASE UNCHANGED dirs
  BY <1>1, <1>2, EndsAsItWas
<1>3. CASE trap /\ dirs[now].name = "incomplete" /\ ~ UNCHANGED dirs
  <2>1. now \in Stamps /\ "RECOVERABLE" \in Names /\ now \notin Counted(dirs)
    BY <1>1, <1>3 DEF BackupInv, Standing, Names, Counted
  <2>2. CASE dirs[now].complete
    <3>1. Renamed(now, "RECOVERABLE")
      BY <1>1, <1>3, <2>2 DEF cleanup
    <3>2. /\ OnlyAt(now) /\ dirs'[now].name = "RECOVERABLE"
          /\ dirs'[now].digest = dirs[now].digest
          /\ Restorable(dirs'[now]) <=> Restorable(dirs[now])
      BY <2>1, <3>1, RenamedFacts DEF BackupInv
    <3>3. Restorable(dirs[now])
      BY <1>3, <2>1, <2>2 DEF BackupInv, Honest
    <3>4. now \notin Counted(dirs') /\ Honest(dirs'[now])
      BY <3>2, <3>3 DEF Counted, Honest
    <3> QED BY <1>1, <2>1, <3>2, <3>4, Ends
  <2>3. CASE ~ dirs[now].complete
    <3>1. dirs' = [dirs EXCEPT ![now] = Gone]
      BY <1>1, <1>3, <2>3 DEF cleanup
    <3>2. OnlyAt(now) /\ dirs'[now] = Gone
      BY <2>1, <3>1, Replaced, DirFacts DEF BackupInv
    <3>3. now \notin Counted(dirs') /\ Honest(dirs'[now]) /\ dirs'[now].digest = NoDigest
      BY <3>2 DEF Counted, Honest, Gone
    <3> QED BY <1>1, <2>1, <3>2, <3>3, Ends
  <2> QED BY <2>2, <2>3
<1> QED BY <1>1, <1>2, <1>3 DEF cleanup

LEMMA SweepStep ==
    ASSUME BackupInv, Sweep
    PROVE  BackupInv'
<1>1. PICK s \in Stamps : /\ dirs[s].name = "incomplete"
                          /\ IF dirs[s].complete THEN Renamed(s, "RECOVERABLE")
                                                 ELSE dirs' = [dirs EXCEPT ![s] = Gone]
  BY DEF Sweep
<1>2. /\ UNCHANGED <<now, pc, trap, reset, victims, failed, resets, faults, quiet>> /\ pc = "sweep"
      /\ "RECOVERABLE" \in Names
  BY DEF Sweep, NoFault, Names
<1>3. s \notin Counted(dirs) /\ s # now /\ ~ (s > now)
  BY <1>1, <1>2 DEF BackupInv, Standing, Counted, Gone
<1>4. /\ OnlyAt(s) /\ s \notin Counted(dirs') /\ Honest(dirs'[s])
      /\ dirs'[s].digest # NoDigest => dirs'[s].digest = dirs[s].digest
  <2>1. CASE dirs[s].complete
    <3>1. /\ OnlyAt(s) /\ dirs'[s].name = "RECOVERABLE"
          /\ dirs'[s].digest = dirs[s].digest
          /\ Restorable(dirs'[s]) <=> Restorable(dirs[s])
      BY <1>1, <1>2, <2>1, RenamedFacts DEF BackupInv
    <3>2. Restorable(dirs[s])
      BY <1>1, <2>1 DEF BackupInv, Honest
    <3> QED BY <3>1, <3>2 DEF Counted, Honest
  <2>2. CASE ~ dirs[s].complete
    <3>1. OnlyAt(s) /\ dirs'[s] = Gone
      BY <1>1, <2>2, Replaced, DirFacts DEF BackupInv
    <3> QED BY <3>1 DEF Counted, Honest, Gone
  <2> QED BY <2>1, <2>2
<1>5. dirs'[s].digest # NoDigest => Gen(dirs', s) <= s
  BY <1>4 DEF BackupInv, InOrder, Gen
<1>6. /\ Counted(dirs') = Counted(dirs) /\ InOrder(dirs') /\ NoGap(dirs')
      /\ \A t \in Counted(dirs) : Gen(dirs', t) = Gen(dirs, t)
  BY <1>3, <1>4, <1>5, Outside
<1>7. \A t \in Stamps : Honest(dirs'[t])
  BY <1>4 DEF BackupInv, OnlyAt
<1>8. BackupTyped'
  BY <1>2, <1>4 DEF BackupInv, BackupTyped, Numbers, Flags, OnlyAt
<1>9. Standing'
  BY <1>2, <1>3, <1>4 DEF BackupInv, Standing, OnlyAt
<1>10. VictimsAreOld'
  BY <1>2, <1>6 DEF BackupInv, VictimsAreOld
<1> QED BY <1>6, <1>7, <1>8, <1>9, <1>10 DEF BackupInv

\* A step of the run inside its directory, before it counts.
LEMMA GoesAhead ==
    ASSUME BackupInv, NoFault, UNCHANGED <<now, reset, victims, failed, resets>>,
           pc \in {"mkdir", "fill", "filled"}, pc' \in {"fill", "filled", "marked"},
           OnlyAt(now), now \notin Counted(dirs'), Honest(dirs'[now]), trap' \in BOOLEAN,
           dirs'[now].digest # NoDigest => Gen(dirs', now) <= now
    PROVE  /\ BackupTyped' /\ InOrder(dirs') /\ NoGap(dirs') /\ VictimsAreOld'
           /\ \A s \in Stamps : Honest(dirs'[s])
           /\ \A s \in Stamps : s > now => dirs'[s] = Gone
           /\ now \in Stamps /\ victims = {} /\ quiet' <= now - 1
           /\ Counted(dirs') = Counted(dirs) /\ \A t \in Counted(dirs) : Gen(dirs', t) = Gen(dirs, t)
           /\ \A t \in Counted(dirs) : dirs'[t] = dirs[t]
<1>1. now \in Stamps /\ now \notin Counted(dirs)
  BY NotYet
<1>2. /\ Counted(dirs') = Counted(dirs) /\ InOrder(dirs') /\ NoGap(dirs')
      /\ \A t \in Counted(dirs) : Gen(dirs', t) = Gen(dirs, t)
      /\ \A t \in Counted(dirs) : dirs'[t] = dirs[t]
  BY <1>1, Outside
<1>3. victims = {} /\ victims' = {} /\ quiet' = quiet /\ quiet <= now - 1
  BY DEF BackupInv, VictimsAreOld, Standing, NoFault
<1>4. BackupTyped'
  <2>1. Numbers'
    BY DEF BackupInv, BackupTyped, Numbers, NoFault
  <2>2. Flags'
    BY DEF BackupInv, BackupTyped, Flags
  <2> QED BY <1>3, <2>1, <2>2 DEF BackupInv, BackupTyped, Phases, OnlyAt
<1>5. VictimsAreOld'
  BY <1>3 DEF VictimsAreOld
<1>6. \A s \in Stamps : Honest(dirs'[s])
  BY DEF BackupInv, OnlyAt
<1>7. \A s \in Stamps : s > now => dirs'[s] = Gone
  BY DirFacts DEF BackupInv, Standing, OnlyAt
<1> QED BY <1>1, <1>2, <1>3, <1>4, <1>5, <1>6, <1>7

LEMMA MakeIncompleteStep ==
    ASSUME BackupInv, MakeIncomplete
    PROVE  BackupInv'
<1>1. /\ pc = "mkdir" /\ pc' = "fill" /\ trap' = TRUE /\ Renamed(now, "incomplete") /\ NoFault
      /\ UNCHANGED <<now, reset, victims, failed, resets>> /\ "incomplete" \in Names
  BY DEF MakeIncomplete, Names
<1>2. now \in Stamps /\ dirs[now] = Gone
  BY <1>1 DEF BackupInv, Standing
<1> DEFINE x == [Gone EXCEPT !.name = "incomplete"]
<1>3. x \in Dir /\ x.name = "incomplete" /\ ~ x.complete /\ x.digest = NoDigest
  BY DEF Gone, Dir, Names
<1>4. dirs' = [dirs EXCEPT ![now] = x]
  BY <1>1, <1>2, DirFacts DEF Renamed, BackupInv
<1> HIDE DEF x
<1>5. OnlyAt(now) /\ dirs'[now] = x
  BY <1>2, <1>3, <1>4, Replaced DEF BackupInv
<1>6. now \notin Counted(dirs') /\ Honest(dirs'[now]) /\ dirs'[now].digest = NoDigest
  BY <1>3, <1>5 DEF Counted, Honest
<1>7. /\ BackupTyped' /\ InOrder(dirs') /\ NoGap(dirs') /\ VictimsAreOld'
      /\ \A s \in Stamps : Honest(dirs'[s])
      /\ \A s \in Stamps : s > now => dirs'[s] = Gone
      /\ quiet' <= now - 1
  BY <1>1, <1>5, <1>6, GoesAhead
<1>8. Standing'
  BY <1>1, <1>2, <1>5, <1>7 DEF Standing, x
<1> QED BY <1>7, <1>8 DEF BackupInv

\* The new digest goes on from the newest directory that counts.
LEMMA DigestFacts ==
    ASSUME BackupInv, pc = "fill"
    PROVE  /\ DigestOf(Retained) \in DigestType /\ DigestOf(Retained).gen <= now
           /\ \/ Counted(dirs) = {}
              \/ DigestOf(Retained).prev \in Counted(dirs) /\ Gen(dirs, DigestOf(Retained).prev) + 1 = DigestOf(Retained).gen
           /\ \A m \in Counted(dirs) : Gen(dirs, m) < DigestOf(Retained).gen
<1> DEFINE prev == latest_published(Retained, FALSE)
           gen == IF prev = NoName THEN 1 ELSE dirs[prev].digest.gen + 1
<1>1. DigestOf(Retained) = [id |-> now, gen |-> gen, prev |-> prev, sha |-> prev,
                  reset |-> IF reset THEN "yes" ELSE "no", rebased |-> NoName, why |-> FALSE]
  BY DEF DigestOf
<1>2. now \in Stamps /\ now \notin Counted(dirs) /\ Nights \in Nat /\ now \in Nat /\ now >= 1 /\ now <= Nights
  BY NotYet, BackupAssumption DEF Stamps
<1>3. /\ Valid(Retained) = Counted(dirs) /\ Counted(dirs) \subseteq Stamps
      /\ \A s \in Counted(dirs) : /\ Retained[s].gen = Gen(dirs, s)
                                  /\ Gen(dirs, s) \in Nat /\ Gen(dirs, s) <= Nights
  BY RetainedFacts DEF BackupInv
<1>4. CASE Counted(dirs) = {}
  <2>1. prev = NoName /\ gen = 1
    BY <1>3, <1>4 DEF latest_published
  <2> HIDE DEF prev, gen
  <2>2. DigestOf(Retained) \in DigestType
    BY <1>1, <1>2, <2>1 DEF DigestType, Stamps
  <2>3. DigestOf(Retained).gen = 1
    BY <1>1, <2>1
  <2> QED BY <1>2, <1>4, <2>2, <2>3
<1>5. CASE Counted(dirs) # {}
  <2>1. prev = Newest(Retained, Counted(dirs))
    BY <1>3, <1>5 DEF latest_published
  <2>2. prev \in Counted(dirs) /\ \A m \in Counted(dirs) : Gen(dirs, m) <= Gen(dirs, prev)
    <3>1. /\ Newest(Retained, Counted(dirs)) \in Counted(dirs)
          /\ \A m \in Counted(dirs) : Retained[m].gen <= Retained[Newest(Retained, Counted(dirs))].gen
      BY <1>2, <1>3, <1>5, ChosenNewest
    <3> QED BY <1>3, <2>1, <3>1
  <2> HIDE DEF prev
  <2>3. prev \in Stamps /\ prev # NoName /\ gen = Gen(dirs, prev) + 1
    BY <1>3, <2>2, BackupAssumption DEF Stamps, Gen
  <2> HIDE DEF gen
  <2>4. ~ (prev > now) /\ prev # now
    BY <1>2, <2>2 DEF BackupInv, Standing, Counted, Gone
  <2>5. Gen(dirs, prev) \in Stamps /\ Gen(dirs, prev) <= prev
    BY <2>2, <2>3, DirFacts DEF BackupInv, InOrder, Counted
  <2>6. gen \in Stamps /\ gen <= now
    BY <1>2, <2>3, <2>4, <2>5, DirFacts DEF Stamps
  <2>7. DigestOf(Retained) \in DigestType
    BY <1>1, <1>2, <2>3, <2>6 DEF DigestType
  <2>8. DigestOf(Retained).gen = gen /\ DigestOf(Retained).prev = prev
    BY <1>1
  <2>9. \A m \in Counted(dirs) : Gen(dirs, m) < gen
    BY <1>3, <2>2, <2>3
  <2> QED BY <2>2, <2>3, <2>6, <2>7, <2>8, <2>9
<1> QED BY <1>4, <1>5

LEMMA FillStep ==
    ASSUME BackupInv, Fill
    PROVE  BackupInv'
<1>1. /\ pc = "fill" /\ pc' = "filled" /\ trap' = trap /\ NoFault
      /\ UNCHANGED <<now, reset, victims, failed, resets>>
  BY DEF Fill
<1>2. now \in Stamps /\ dirs[now] = [Gone EXCEPT !.name = "incomplete"] /\ now \notin Counted(dirs)
  BY <1>1, NotYet DEF BackupInv, Standing
<1> DEFINE g == DigestOf(Retained)
           x == [[dirs[now] EXCEPT !.whole = TRUE] EXCEPT !.digest = g]
<1>3. /\ g \in DigestType /\ g.gen <= now
      /\ \/ Counted(dirs) = {}
         \/ g.prev \in Counted(dirs) /\ Gen(dirs, g.prev) + 1 = g.gen
      /\ \A m \in Counted(dirs) : Gen(dirs, m) < g.gen
  BY <1>1, DigestFacts
<1>4. dirs' = [dirs EXCEPT ![now] = x]
  BY <1>2, DirFacts DEF Fill, BackupInv
<1> HIDE DEF g
<1>5. x \in Dir /\ x.name = "incomplete" /\ ~ x.complete /\ x.digest = g /\ x.whole
  BY <1>2, <1>3 DEF Gone, Dir, Names
<1> HIDE DEF x
<1>6. OnlyAt(now) /\ dirs'[now] = x
  BY <1>2, <1>4, <1>5, Replaced DEF BackupInv
<1>7. /\ now \notin Counted(dirs') /\ Honest(dirs'[now]) /\ Gen(dirs', now) = g.gen
      /\ dirs'[now].digest.prev = g.prev
  BY <1>5, <1>6 DEF Counted, Honest, Gen
<1>8. trap' \in BOOLEAN
  BY <1>1 DEF BackupInv, BackupTyped, Flags
<1>9. /\ BackupTyped' /\ InOrder(dirs') /\ NoGap(dirs') /\ VictimsAreOld'
      /\ \A s \in Stamps : Honest(dirs'[s])
      /\ \A s \in Stamps : s > now => dirs'[s] = Gone
      /\ quiet' <= now - 1 /\ Counted(dirs') = Counted(dirs)
      /\ \A t \in Counted(dirs) : Gen(dirs', t) = Gen(dirs, t)
  BY <1>1, <1>3, <1>6, <1>7, <1>8, GoesAhead
<1>10. g # NoDigest
  BY <1>3, UnreadableIsNoDigest DEF NoDigest
<1>11. Counted(dirs') = {} \/ GoesOn(dirs', now)
  BY <1>3, <1>7, <1>9 DEF GoesOn
<1>12. \A m \in Counted(dirs') \ {now} : Gen(dirs', m) < Gen(dirs', now)
  BY <1>3, <1>7, <1>9
<1>13. Standing'
  BY <1>1, <1>2, <1>5, <1>6, <1>9, <1>10, <1>11, <1>12 DEF Standing
<1> QED BY <1>9, <1>13 DEF BackupInv

LEMMA MarkStep ==
    ASSUME BackupInv, Mark
    PROVE  BackupInv'
<1>1. /\ pc = "filled" /\ pc' = "marked" /\ trap' = trap /\ NoFault
      /\ UNCHANGED <<now, reset, victims, failed, resets>>
  BY DEF Mark
<1> DEFINE x == [dirs[now] EXCEPT !.complete = TRUE]
<1>2. now \in Stamps /\ dirs[now] \in Dir
  BY <1>1, DirFacts, NotYet DEF BackupInv
<1>3. /\ dirs[now].name = "incomplete" /\ dirs[now].whole /\ dirs[now].digest # NoDigest
      /\ Counted(dirs) = {} \/ GoesOn(dirs, now)
      /\ \A m \in Counted(dirs) \ {now} : Gen(dirs, m) < Gen(dirs, now)
  BY <1>1 DEF BackupInv, Standing
<1>4. x \in Dir /\ x.name = "incomplete" /\ x.complete /\ x.digest = dirs[now].digest /\ x.whole
  BY <1>2, <1>3 DEF Dir
<1>5. dirs' = [dirs EXCEPT ![now] = x]
  BY DEF Mark
<1> HIDE DEF x
<1>6. OnlyAt(now) /\ dirs'[now] = x
  BY <1>2, <1>4, <1>5, Replaced DEF BackupInv
<1>7. /\ now \notin Counted(dirs') /\ Honest(dirs'[now]) /\ Gen(dirs', now) = Gen(dirs, now)
      /\ Gen(dirs, now) <= now
  BY <1>2, <1>3, <1>4, <1>6 DEF Counted, Honest, Gen, Restorable, BackupInv, InOrder
<1>8. trap' \in BOOLEAN
  BY <1>1 DEF BackupInv, BackupTyped, Flags
<1>9. /\ BackupTyped' /\ InOrder(dirs') /\ NoGap(dirs') /\ VictimsAreOld'
      /\ \A s \in Stamps : Honest(dirs'[s])
      /\ \A s \in Stamps : s > now => dirs'[s] = Gone
      /\ quiet' <= now - 1 /\ Counted(dirs') = Counted(dirs)
      /\ \A t \in Counted(dirs) : Gen(dirs', t) = Gen(dirs, t)
  BY <1>1, <1>6, <1>7, <1>8, GoesAhead
<1>10. Counted(dirs') = {} \/ GoesOn(dirs', now)
  BY <1>3, <1>4, <1>6, <1>7, <1>9 DEF GoesOn
<1>11. \A m \in Counted(dirs') \ {now} : Gen(dirs', m) < Gen(dirs', now)
  BY <1>3, <1>7, <1>9
<1>12. Standing'
  BY <1>1, <1>2, <1>3, <1>4, <1>6, <1>9, <1>10, <1>11 DEF Standing
<1> QED BY <1>9, <1>12 DEF BackupInv

LEMMA PublishStep ==
    ASSUME BackupInv, Publish
    PROVE  BackupInv'
<1>1. /\ pc = "marked" /\ pc' = "published" /\ NoFault /\ Renamed(now, "cass") /\ "cass" \in Names
      /\ UNCHANGED <<now, trap, reset, victims, failed, resets>>
  BY DEF Publish, Names
<1>2. now \in Stamps /\ now \notin Counted(dirs)
  BY <1>1, NotYet
<1>3. /\ OnlyAt(now) /\ dirs'[now].name = "cass" /\ dirs'[now].complete = dirs[now].complete
      /\ dirs'[now].whole = dirs[now].whole /\ dirs'[now].digest = dirs[now].digest
      /\ Restorable(dirs'[now]) <=> Restorable(dirs[now])
  BY <1>1, <1>2, RenamedFacts DEF BackupInv
<1>4. /\ dirs[now].complete /\ dirs[now].whole /\ dirs[now].digest # NoDigest
      /\ Counted(dirs) = {} \/ GoesOn(dirs, now)
      /\ \A m \in Counted(dirs) : Gen(dirs, m) < Gen(dirs, now)
  BY <1>1, <1>2 DEF BackupInv, Standing
<1>5. Counted(dirs') = Counted(dirs) \union {now} /\ Counted(dirs) \subseteq Stamps
  BY <1>2, <1>3, <1>4 DEF OnlyAt, Counted
<1>6. /\ \A t \in Counted(dirs) : dirs'[t] = dirs[t] /\ Gen(dirs', t) = Gen(dirs, t)
      /\ Gen(dirs', now) = Gen(dirs, now)
  BY <1>2, <1>3, <1>5 DEF OnlyAt, Gen
<1>7. \A t \in Counted(dirs) : t < now /\ Gen(dirs, t) \in Nat
  <2>1. \A t \in Counted(dirs) : ~ (t > now) /\ t # now
    BY <1>2 DEF BackupInv, Standing, Counted, Gone
  <2> QED BY <1>5, <2>1, DirFacts, RetainedFacts DEF BackupInv
<1>8. Gen(dirs, now) \in Nat /\ Gen(dirs, now) <= now
  BY <1>2, <1>4, DirFacts DEF BackupInv, InOrder
<1>9. InOrder(dirs')
  <2>1. ASSUME NEW m \in Counted(dirs'), NEW n \in Counted(dirs'), m < n
        PROVE  Gen(dirs', m) < Gen(dirs', n)
    <3>1. CASE m = now
      BY <1>2, <1>5, <1>7, <2>1, <3>1, DirFacts DEF BackupInv
    <3>2. CASE m # now /\ n = now
      BY <1>4, <1>5, <1>6, <3>2
    <3>3. CASE m # now /\ n # now
      BY <1>5, <1>6, <2>1, <3>3 DEF BackupInv, InOrder
    <3> QED BY <3>1, <3>2, <3>3
  <2>2. ASSUME NEW s \in Stamps, dirs'[s].digest # NoDigest PROVE Gen(dirs', s) <= s
    <3>1. CASE s = now
      BY <1>6, <1>8, <3>1
    <3>2. CASE s # now
      BY <1>3, <2>2, <3>2 DEF OnlyAt, BackupInv, InOrder, Gen
    <3> QED BY <3>1, <3>2
  <2> QED BY <2>1, <2>2 DEF InOrder
<1>10. NoGap(dirs')
  <2>1. ASSUME NEW n \in Counted(dirs) PROVE IsFirst(dirs', n) \/ GoesOn(dirs', n)
    <3>1. CASE IsFirst(dirs, n)
      <4>1. Gen(dirs, n) <= Gen(dirs, now)
        BY <1>4, <1>7, <1>8
      <4> QED BY <1>5, <1>6, <3>1, <4>1 DEF IsFirst
    <3>2. CASE GoesOn(dirs, n)
      BY <1>5, <1>6, <3>2 DEF GoesOn
    <3> QED BY <3>1, <3>2 DEF BackupInv, NoGap
  <2>2. IsFirst(dirs', now) \/ GoesOn(dirs', now)
    <3>1. CASE Counted(dirs) = {}
      BY <1>5, <1>6, <1>8, <3>1 DEF IsFirst
    <3>2. CASE GoesOn(dirs, now)
      BY <1>3, <1>5, <1>6, <3>2 DEF GoesOn
    <3> QED BY <1>4, <3>1, <3>2
  <2> QED BY <1>5, <2>1, <2>2 DEF NoGap
<1>11. \A s \in Stamps : Honest(dirs'[s])
  BY <1>3, <1>4 DEF BackupInv, OnlyAt, Honest, Restorable
<1>12. BackupTyped'
  BY <1>1, <1>3 DEF BackupInv, BackupTyped, Numbers, Flags, Phases, NoFault, OnlyAt
<1>13. Standing'
  <2>1. \A s \in Stamps : s > now => dirs'[s] = Gone
    BY <1>2, <1>3, DirFacts DEF BackupInv, Standing, OnlyAt
  <2>2. \A m \in Counted(dirs') \ {now} : Gen(dirs', m) < Gen(dirs', now)
    BY <1>4, <1>5, <1>6
  <2>3. quiet' <= now - 1
    BY <1>1 DEF BackupInv, Standing, NoFault
  <2> QED BY <1>1, <1>2, <1>3, <1>4, <2>1, <2>2, <2>3 DEF Standing
<1>14. VictimsAreOld'
  BY <1>1 DEF BackupInv, VictimsAreOld
<1> QED BY <1>9, <1>10, <1>11, <1>12, <1>13, <1>14 DEF BackupInv

\* The rotation and the reset take the oldest, and leave the new backup.
LEMMA VictimFacts ==
    ASSUME BackupInv, pc = "published",
           NEW V, V = pre_reset_victims(Retained, dirs[now].digest.gen) \/ V = rotation_victims(Retained, Keep)
    PROVE  /\ V \subseteq Counted(dirs) \ {now}
           /\ \A v \in V, m \in Counted(dirs) : Gen(dirs, m) < Gen(dirs, v) => m \in V
<1>1. /\ Valid(Retained) = Counted(dirs) /\ Counted(dirs) \subseteq Stamps
      /\ \A s \in Counted(dirs) : Retained[s].gen = Gen(dirs, s) /\ Gen(dirs, s) \in Nat
  BY RetainedFacts DEF BackupInv
<1>2. now \in Counted(dirs) /\ \A m \in Counted(dirs) \ {now} : Gen(dirs, m) < Gen(dirs, now)
  BY DEF BackupInv, Standing, Counted
<1>3. CASE V = pre_reset_victims(Retained, dirs[now].digest.gen)
  <2>1. V = {n \in Counted(dirs) : Gen(dirs, n) < Gen(dirs, now)}
    BY <1>1, <1>3 DEF pre_reset_victims, Gen
  <2> QED BY <1>1, <1>2, <2>1
<1>4. CASE V = rotation_victims(Retained, Keep)
  <2> DEFINE Above(n) == {m \in Counted(dirs) : Gen(dirs, m) > Gen(dirs, n)}
  <2>1. V = {n \in Counted(dirs) : Cardinality(Above(n)) >= Keep}
    BY <1>1, <1>4 DEF rotation_victims
  <2>2. \A n \in Counted(dirs) : IsFiniteSet(Above(n)) /\ Cardinality(Above(n)) \in Nat
    <3>1. IsFiniteSet(Stamps)
      BY FS_Interval, BackupAssumption DEF Stamps
    <3>2. \A n \in Counted(dirs) : Above(n) \subseteq Stamps
      BY <1>1
    <3> HIDE DEF Above
    <3> QED BY <3>1, <3>2, FS_Subset, FS_CardinalityType
  <2>3. Above(now) = {}
    BY <1>1, <1>2
  <2>4. now \notin V
    <3>1. Cardinality(Above(now)) = 0
      BY <2>3, FS_EmptySet
    <3> HIDE DEF Above
    <3> QED BY <2>1, <3>1, BackupAssumption
  <2>5. ASSUME NEW v \in V, NEW m \in Counted(dirs), Gen(dirs, m) < Gen(dirs, v) PROVE m \in V
    <3>1. v \in Counted(dirs) /\ Cardinality(Above(v)) >= Keep
      BY <2>1
    <3>2. Above(v) \subseteq Above(m)
      BY <1>1, <2>5, <3>1
    <3> HIDE DEF Above
    <3>3. Cardinality(Above(v)) <= Cardinality(Above(m))
      BY <2>2, <3>2, FS_Subset
    <3> QED BY <2>1, <2>2, <3>1, <3>3, BackupAssumption
  <2> QED BY <2>1, <2>4, <2>5
<1> QED BY <1>3, <1>4

LEMMA SelectStep ==
    ASSUME BackupInv, SelectVictims \/ SelectFails
    PROVE  BackupInv'
<1>1. /\ pc = "published" /\ pc' = "rotate" /\ trap' = FALSE /\ UNCHANGED <<dirs, now, reset, resets>>
      /\ \/ NoFault /\ failed' = failed
         \/ Fault /\ failed' = TRUE
  BY DEF SelectVictims, SelectFails
<1>2. /\ victims' \subseteq Counted(dirs) \ {now}
      /\ \A v \in victims', m \in Counted(dirs) : Gen(dirs, m) < Gen(dirs, v) => m \in victims'
  <2>1. CASE SelectFails
    BY <2>1 DEF SelectFails
  <2>2. CASE SelectVictims
    BY <1>1, <2>2, VictimFacts DEF SelectVictims
  <2> QED BY <2>1, <2>2
<1>3. BackupTyped'
  <2>1. Numbers'
    BY <1>1, DirFacts, BackupAssumption DEF BackupInv, BackupTyped, Numbers, Fault, NoFault
  <2>2. Flags'
    BY <1>1 DEF BackupInv, BackupTyped, Flags
  <2> QED BY <1>1, <1>2, <2>1, <2>2, RetainedFacts DEF BackupInv, BackupTyped, Phases
<1>4. Standing'
  <2>1. quiet' <= now - 1
    BY <1>1, DirFacts DEF BackupInv, Standing, Fault, NoFault, Stamps
  <2> QED BY <1>1, <2>1 DEF BackupInv, Standing
<1>5. VictimsAreOld'
  BY <1>1, <1>2 DEF VictimsAreOld
<1> QED BY <1>1, <1>3, <1>4, <1>5 DEF BackupInv

\* The victim that goes next is the oldest that counts, and older than the new backup.
LEMMA NextVictim ==
    ASSUME BackupInv, victims # {}
    PROVE  /\ Oldest(Retained, victims) \in victims /\ Oldest(Retained, victims) \in Counted(dirs)
           /\ IsFirst(dirs, Oldest(Retained, victims)) /\ pc = "rotate"
           /\ Oldest(Retained, victims) \in Stamps /\ Oldest(Retained, victims) # now
           /\ now \in Counted(dirs) /\ Gen(dirs, Oldest(Retained, victims)) < Gen(dirs, now)
<1> DEFINE v == Oldest(Retained, victims)
<1>1. /\ Counted(dirs) \subseteq Stamps
      /\ \A s \in Counted(dirs) : Retained[s].gen = Gen(dirs, s) /\ Gen(dirs, s) \in Nat
  BY RetainedFacts DEF BackupInv
<1>2. victims \subseteq Counted(dirs) \ {now} /\ pc = "rotate"
  BY DEF BackupInv, VictimsAreOld
<1>3. v \in victims /\ \A m \in victims : Retained[v].gen <= Retained[m].gen
  BY <1>1, <1>2, ChosenOldest
<1> HIDE DEF v
<1>4. IsFirst(dirs, v)
  <2>1. ASSUME NEW m \in Counted(dirs), Gen(dirs, m) < Gen(dirs, v) PROVE FALSE
    <3>1. m \in victims
      BY <1>3, <2>1 DEF BackupInv, VictimsAreOld
    <3> QED BY <1>1, <1>2, <1>3, <2>1, <3>1
  <2> QED BY <1>1, <1>2, <1>3, <2>1 DEF IsFirst
<1>5. now \in Counted(dirs) /\ \A m \in Counted(dirs) \ {now} : Gen(dirs, m) < Gen(dirs, now)
  BY <1>2 DEF BackupInv, Standing, Counted
<1>6. v \in Counted(dirs) /\ v # now /\ v \in Stamps /\ Gen(dirs, v) < Gen(dirs, now)
  BY <1>1, <1>2, <1>3, <1>5
<1> QED BY <1>2, <1>3, <1>4, <1>5, <1>6 DEF v

\* What a removal leaves of the others.
LEMMA StandingAfter ==
    ASSUME BackupInv, NEW s \in Stamps, pc = "rotate", pc' \in {"rotate", "off"}, OnlyAt(s), s # now,
           ~ (s > now), Counted(dirs') \subseteq Counted(dirs), UNCHANGED <<now, trap>>,
           quiet' \in {quiet, 0},
           \A t \in Counted(dirs') : Gen(dirs', t) = Gen(dirs, t)
    PROVE  Standing'
<1>1. /\ now \in Stamps /\ dirs[now].whole /\ dirs[now].complete /\ dirs[now].digest # NoDigest
      /\ dirs[now].name = "cass" /\ ~ trap
      /\ \A m \in Counted(dirs) \ {now} : Gen(dirs, m) < Gen(dirs, now)
      /\ \A t \in Stamps : t > now => dirs[t] = Gone
      /\ quiet <= now - 1
  BY DEF BackupInv, Standing
<1>2. dirs'[now] = dirs[now] /\ Gen(dirs', now) = Gen(dirs, now)
  BY <1>1 DEF OnlyAt, Gen
<1>3. \A m \in Counted(dirs') \ {now} : Gen(dirs', m) < Gen(dirs', now)
  BY <1>1, <1>2
<1>4. \A t \in Stamps : t > now => dirs'[t] = Gone
  BY <1>1 DEF OnlyAt
<1>5. quiet' <= now - 1 /\ now - 1 <= now
  BY <1>1, DirFacts DEF BackupInv, Stamps
<1>6. quiet' <= IF pc' = "off" THEN now ELSE now - 1
  BY <1>5, DirFacts DEF BackupInv
<1> QED BY <1>1, <1>2, <1>3, <1>4, <1>6 DEF Standing

LEMMA RemoveVictimStep ==
    ASSUME BackupInv, RemoveVictim
    PROVE  BackupInv'
<1> DEFINE v == Oldest(Retained, victims)
<1>1. /\ victims # {} /\ NoFault /\ UNCHANGED <<now, pc, trap, reset, failed, resets>>
      /\ dirs' = [dirs EXCEPT ![v] = Gone] /\ victims' = victims \ {v} /\ pc = "rotate"
  BY DEF RemoveVictim
<1>2. /\ v \in victims /\ v \in Counted(dirs) /\ IsFirst(dirs, v) /\ v \in Stamps /\ v # now
  BY <1>1, NextVictim
<1> HIDE DEF v
<1>3. OnlyAt(v) /\ dirs'[v] = Gone
  BY <1>1, <1>2, Replaced, DirFacts DEF BackupInv
<1>4. v \notin Counted(dirs') /\ Honest(dirs'[v]) /\ dirs'[v].digest = NoDigest
  BY <1>3 DEF Counted, Honest, Gone
<1>5. Counted(dirs') = Counted(dirs) \ {v} /\ InOrder(dirs') /\ NoGap(dirs')
  BY <1>2, <1>3, <1>4, FirstOut
<1>6. \A t \in Counted(dirs') : Gen(dirs', t) = Gen(dirs, t)
  BY <1>3, <1>5, RetainedFacts DEF OnlyAt, Gen, BackupInv
<1>7. ~ (v > now)
  BY <1>2 DEF BackupInv, Standing, Counted, Gone
<1>8. Standing'
  BY <1>1, <1>2, <1>3, <1>5, <1>6, <1>7, StandingAfter DEF NoFault
<1>9. VictimsAreOld'
  BY <1>1, <1>2, <1>5, <1>6 DEF BackupInv, VictimsAreOld
<1>10. BackupTyped'
  BY <1>1, <1>3 DEF BackupInv, BackupTyped, Numbers, Flags, NoFault, OnlyAt
<1>11. \A s \in Stamps : Honest(dirs'[s])
  BY <1>3, <1>4 DEF BackupInv, OnlyAt
<1> QED BY <1>5, <1>8, <1>9, <1>10, <1>11 DEF BackupInv

\* A directory that is half removed is no backup any more, but it may still count.
LEMMA RemoveStopsStep ==
    ASSUME BackupInv, RemoveStops
    PROVE  BackupInv'
<1> DEFINE v == Oldest(Retained, victims)
<1>1. /\ victims # {} /\ Fault /\ UNCHANGED <<now, trap, reset, resets>> /\ pc = "rotate"
      /\ victims' = {} /\ failed' = TRUE /\ pc' \in {"rotate", "off"}
  BY DEF RemoveStops
<1>2. PICK marker \in BOOLEAN, digest \in BOOLEAN :
        dirs' = [dirs EXCEPT ![v] =
                    [name |-> dirs[v].name, whole |-> FALSE, complete |-> marker,
                     digest |-> IF digest THEN dirs[v].digest ELSE NoDigest]]
  BY DEF RemoveStops
<1>3. /\ v \in Counted(dirs) /\ IsFirst(dirs, v) /\ v \in Stamps /\ v # now
  BY <1>1, NextVictim
<1> HIDE DEF v
<1> DEFINE x == [name |-> dirs[v].name, whole |-> FALSE, complete |-> marker,
                 digest |-> IF digest THEN dirs[v].digest ELSE NoDigest]
<1>4. dirs[v] \in Dir
  BY <1>3, DirFacts DEF BackupInv
<1>5. /\ x \in Dir /\ x.name = dirs[v].name /\ x.whole = FALSE
      /\ x.digest = dirs[v].digest \/ x.digest = NoDigest
  BY <1>2, <1>4 DEF Dir
<1>6. dirs' = [dirs EXCEPT ![v] = x]
  BY <1>2
<1> HIDE DEF x
<1>7. OnlyAt(v) /\ dirs'[v] = x
  BY <1>3, <1>5, <1>6, Replaced DEF BackupInv
<1>8. dirs[v].name = "cass" /\ Gen(dirs, v) <= v
  BY <1>3 DEF Counted, BackupInv, InOrder
<1>9. Honest(dirs'[v]) /\ (dirs'[v].digest # NoDigest => Gen(dirs', v) <= v)
  BY <1>5, <1>7, <1>8 DEF Honest, Gen
<1>10. /\ Counted(dirs') \subseteq Counted(dirs) /\ InOrder(dirs') /\ NoGap(dirs')
       /\ \A t \in Counted(dirs') : Gen(dirs', t) = Gen(dirs, t)
  <2>1. CASE v \notin Counted(dirs')
    <3>1. Counted(dirs') = Counted(dirs) \ {v} /\ InOrder(dirs') /\ NoGap(dirs')
      BY <1>3, <1>7, <1>9, <2>1, FirstOut
    <3> QED BY <1>7, <3>1, RetainedFacts DEF OnlyAt, Gen, BackupInv
  <2>2. CASE v \in Counted(dirs')
    <3>1. x.digest = dirs[v].digest
      BY <1>5, <1>7, <2>2 DEF Counted
    <3>2. Counted(dirs') = Counted(dirs)
      BY <1>3, <1>7, <2>2 DEF Counted, OnlyAt
    <3>3. \A t \in Stamps : dirs'[t].digest = dirs[t].digest /\ Gen(dirs', t) = Gen(dirs, t)
      BY <1>7, <3>1 DEF OnlyAt, Gen
    <3>4. Counted(dirs) \subseteq Stamps
      BY RetainedFacts DEF BackupInv
    <3>5. InOrder(dirs') /\ NoGap(dirs')
      BY <3>2, <3>3, <3>4 DEF BackupInv, InOrder, NoGap, IsFirst, GoesOn
    <3> QED BY <3>2, <3>3, <3>4, <3>5
  <2> QED BY <2>1, <2>2
<1>11. ~ (v > now)
  BY <1>3 DEF BackupInv, Standing, Counted, Gone
<1>12. Standing'
  BY <1>1, <1>3, <1>7, <1>10, <1>11, StandingAfter DEF Fault
<1>13. VictimsAreOld'
  BY <1>1 DEF VictimsAreOld
<1>14. BackupTyped'
  <2>1. Numbers'
    BY <1>1, DirFacts, BackupAssumption DEF BackupInv, BackupTyped, Numbers, Fault
  <2>2. Flags'
    BY <1>1 DEF BackupInv, BackupTyped, Flags
  <2> QED BY <1>1, <1>7, <2>1, <2>2 DEF BackupTyped, Phases, OnlyAt
<1>15. \A s \in Stamps : Honest(dirs'[s])
  BY <1>7, <1>9 DEF BackupInv, OnlyAt
<1> QED BY <1>10, <1>12, <1>13, <1>14, <1>15 DEF BackupInv

LEMMA FinishStep ==
    ASSUME BackupInv, Finish
    PROVE  BackupInv'
<1>1. /\ pc = "rotate" /\ quiet' \in {quiet, quiet + 1} /\ Off
      /\ UNCHANGED <<now, reset, failed, faults, resets>>
  BY DEF Finish
<1>2. /\ now \in Stamps /\ now \in Counted(dirs) /\ Restorable(dirs[now]) /\ quiet <= now - 1
      /\ \A m \in Counted(dirs) \ {now} : Gen(dirs, m) < Gen(dirs, now)
  BY <1>1 DEF BackupInv, Standing, Counted, Restorable
<1>3. quiet' \in 0..Nights /\ quiet' <= now
  BY <1>1, <1>2, DirFacts DEF BackupInv, BackupTyped, Numbers, Stamps
<1>4. Numbers' /\ Flags' /\ pc' \in Phases /\ victims' = {} /\ trap' = FALSE /\ pc' = "off"
  <2>1. Numbers'
    BY <1>1, <1>3 DEF BackupInv, BackupTyped, Numbers
  <2>2. Flags'
    BY <1>1 DEF BackupInv, BackupTyped, Flags, Off
  <2> QED BY <1>1, <2>1, <2>2 DEF Off, Phases
<1>5. CASE UNCHANGED dirs
  <2>1. BackupTyped'
    BY <1>4, <1>5 DEF BackupInv, BackupTyped
  <2>2. Standing' /\ VictimsAreOld'
    BY <1>1, <1>3, <1>4, <1>5 DEF BackupInv, Standing, VictimsAreOld
  <2> QED BY <1>5, <2>1, <2>2 DEF BackupInv
<1>6. CASE Renamed(now, "RECOVERABLE")
  <2>1. "RECOVERABLE" \in Names
    BY DEF Names
  <2>2. /\ OnlyAt(now) /\ dirs'[now].name = "RECOVERABLE" /\ dirs'[now].digest = dirs[now].digest
        /\ Restorable(dirs'[now]) <=> Restorable(dirs[now])
    BY <1>2, <1>6, <2>1, RenamedFacts DEF BackupInv
  <2>3. /\ now \notin Counted(dirs') /\ Honest(dirs'[now]) /\ Gen(dirs', now) = Gen(dirs, now)
        /\ Gen(dirs, now) <= now
    BY <1>2, <2>2 DEF Counted, Honest, Gen, BackupInv, InOrder
  <2>4. \A m \in Counted(dirs) : Gen(dirs, m) <= Gen(dirs, now)
    BY <1>2, RetainedFacts DEF BackupInv
  <2>5. Counted(dirs') = Counted(dirs) \ {now} /\ InOrder(dirs') /\ NoGap(dirs')
    BY <1>2, <2>2, <2>3, <2>4, FirstOut
  <2>6. BackupTyped'
    BY <1>4, <2>2 DEF BackupTyped, OnlyAt
  <2>7. \A s \in Stamps : s > now => dirs'[s] = Gone
    BY <1>2, <2>2, DirFacts DEF BackupInv, Standing, OnlyAt
  <2>8. Standing' /\ VictimsAreOld'
    BY <1>1, <1>3, <1>4, <2>7 DEF Standing, VictimsAreOld
  <2>9. \A s \in Stamps : Honest(dirs'[s])
    BY <2>2, <2>3 DEF BackupInv, OnlyAt
  <2> QED BY <2>5, <2>6, <2>8, <2>9 DEF BackupInv
<1> QED BY <1>5, <1>6 DEF Finish

\* The chain of directories, for any number of runs, faults and resets.
THEOREM BackupInvHolds == Spec => []BackupInv
<1>1. BackupInv /\ [Next]_vars => BackupInv'
  <2> SUFFICES ASSUME BackupInv, [Next]_vars PROVE BackupInv'
    OBVIOUS
  <2>1. CASE Next
    BY <2>1, StartStep, SweepStep, StagedStep, GateRefusesStep, MakeIncompleteStep, FillStep, MarkStep,
       PublishStep, FailIncompleteStep, FailRecoverableStep, SelectStep, RemoveVictimStep,
       RemoveStopsStep, FinishStep, TerminateStep, KillStep DEF Next
  <2>2. CASE UNCHANGED vars
    BY <2>2 DEF vars, BackupInv, BackupTyped, Numbers, Flags, Standing, VictimsAreOld
  <2> QED BY <2>1, <2>2
<1> QED BY <1>1, BackupStart, PTL DEF Spec

\* What the model says of its types.
THEOREM BackupTypesHold == Spec => []TypeOK
<1>1. ASSUME BackupInv PROVE TypeOK
  <2>1. dirs \in [Stamps -> [name: Names, complete: BOOLEAN, whole: BOOLEAN, digest: DigestType \union {NoDigest}]]
    BY <1>1 DEF BackupInv, BackupTyped, Dir
  <2>2. now \in 0..Nights /\ faults \in 0..MaxFaults /\ resets \in 0..MaxResets /\ quiet \in 0..Nights
    BY <1>1 DEF BackupInv, BackupTyped, Numbers
  <2>3. trap \in BOOLEAN /\ reset \in BOOLEAN /\ failed \in BOOLEAN
    BY <1>1 DEF BackupInv, BackupTyped, Flags
  <2>4. victims \subseteq Stamps /\ pc \in Phases
    BY <1>1 DEF BackupInv, BackupTyped
  <2> QED BY <2>1, <2>2, <2>3, <2>4 DEF TypeOK, Phases
<1> QED BY <1>1, BackupInvHolds, PTL

\* A name never promises more than the directory holds (steps 4, 15 and 16).
THEOREM NamesAreTrue == Spec => []NamesTellTheTruth
<1>1. BackupInv => NamesTellTheTruth
  BY DEF BackupInv, Honest, NamesTellTheTruth
<1> QED BY <1>1, BackupInvHolds, PTL

\* What can be read of the published backups is a tail without a gap.
THEOREM TailsHaveNoGap == Spec => []TailHasNoGap
<1>1. ASSUME BackupInv PROVE TailHasNoGap
  <2>1. /\ Valid(Retained) = Counted(dirs) /\ Counted(dirs) \subseteq Stamps
        /\ \A s \in Counted(dirs) : /\ Retained[s] = dirs[s].digest /\ Retained[s].gen = Gen(dirs, s)
                                    /\ Gen(dirs, s) \in Nat
    BY <1>1, RetainedFacts DEF BackupInv
  <2>2. SUFFICES ASSUME NEW n \in Counted(dirs)
                 PROVE  \/ n = Oldest(Retained, Counted(dirs))
                        \/ \E m \in Counted(dirs) : /\ m = Retained[n].prev
                                                    /\ Retained[m].gen + 1 = Retained[n].gen
    BY <2>1 DEF TailHasNoGap
  <2>3. CASE IsFirst(dirs, n)
    <3> DEFINE o == Oldest(Retained, Counted(dirs))
    <3>1. o \in Counted(dirs) /\ \A m \in Counted(dirs) : Retained[o].gen <= Retained[m].gen
      BY <2>1, ChosenOldest
    <3> HIDE DEF o
    <3>2. Gen(dirs, o) = Gen(dirs, n)
      BY <2>1, <2>3, <3>1 DEF IsFirst
    <3>3. o = n
      BY <1>1, <2>1, <3>1, <3>2, DirFacts DEF BackupInv, InOrder
    <3> QED BY <3>3 DEF o
  <2>4. CASE GoesOn(dirs, n)
    BY <2>1, <2>4 DEF GoesOn
  <2> QED BY <1>1, <2>3, <2>4 DEF BackupInv, NoGap
<1> QED BY <1>1, BackupInvHolds, PTL

\* From the marker on a backup is kept until a newer one is published.
THEOREM WholeBackupsStay == Spec => WholeBackupsAreKept
<1> DEFINE Kept == \A s \in Stamps : Restorable(dirs[s]) /\ ~Restorable(dirs'[s]) =>
        \E t \in Stamps : /\ dirs'[t].name = "cass"
                          /\ Restorable(dirs'[t])
                          /\ dirs'[t].digest.gen > dirs[s].digest.gen
<1>1. BackupInv /\ [Next]_vars => [Kept]_vars
  <2> SUFFICES ASSUME BackupInv, Next, NEW s \in Stamps, Restorable(dirs[s]), ~Restorable(dirs'[s])
               PROVE  \E t \in Stamps : /\ dirs'[t].name = "cass" /\ Restorable(dirs'[t])
                                        /\ dirs'[t].digest.gen > dirs[s].digest.gen
    OBVIOUS
  <2> DEFINE v == Oldest(Retained, victims)
  <2>1. dirs' # dirs
    OBVIOUS
  <2>2. ASSUME NEW t \in Stamps, NEW name \in Names, Renamed(t, name) PROVE FALSE
    <3>1. OnlyAt(t) /\ (Restorable(dirs'[t]) <=> Restorable(dirs[t]))
      BY <2>2, RenamedFacts DEF BackupInv
    <3> QED BY <3>1 DEF OnlyAt
  <2>3. ASSUME NEW t \in Stamps, ~ Restorable(dirs[t]), NEW x, dirs' = [dirs EXCEPT ![t] = x] PROVE FALSE
    BY <2>3, DirFacts DEF BackupInv
  <2>4. ASSUME NEW x, dirs' = [dirs EXCEPT ![v] = x], victims # {}
        PROVE  \E t \in Stamps : /\ dirs'[t].name = "cass" /\ Restorable(dirs'[t])
                                 /\ dirs'[t].digest.gen > dirs[s].digest.gen
    <3>1. /\ pc = "rotate" /\ v \in Stamps /\ v # now /\ now \in Counted(dirs) /\ Gen(dirs, v) < Gen(dirs, now)
      BY <2>4, NextVictim
    <3> HIDE DEF v
    <3>2. s = v
      BY <2>4, <3>1, DirFacts DEF BackupInv
    <3>3. now \in Stamps /\ Restorable(dirs[now]) /\ dirs[now].name = "cass"
      BY <3>1 DEF BackupInv, Standing, Restorable
    <3>4. dirs'[now] = dirs[now]
      BY <2>4, <3>1, <3>3, DirFacts DEF BackupInv
    <3>5. dirs[now].digest.gen > dirs[s].digest.gen
      BY <3>1, <3>2, <3>3, DirFacts DEF BackupInv, Gen, Restorable
    <3> QED BY <3>3, <3>4, <3>5
  <2>5. pc # "off" => now \in Stamps
    BY DEF BackupInv, Standing
  <2>6. CASE Sweep
    BY <2>2, <2>3, <2>6 DEF Sweep, Restorable, Names
  <2>7. CASE GateRefuses
    <3>1. now \in Stamps /\ ~ Restorable(dirs[now])
      BY <2>5, <2>7, DirFacts DEF GateRefuses, BackupInv, Standing
    <3> QED BY <2>3, <2>7, <3>1 DEF GateRefuses
  <2>8. CASE Fill
    <3>1. now \in Stamps /\ ~ Restorable(dirs[now])
      BY <2>5, <2>8 DEF Fill, BackupInv, Standing, Restorable, Gone
    <3>2. dirs' = [dirs EXCEPT ![now] = [[dirs[now] EXCEPT !.whole = TRUE] EXCEPT !.digest = DigestOf(Retained)]]
      BY <2>8, <3>1, DirFacts DEF Fill, BackupInv
    <3> QED BY <2>3, <3>1, <3>2
  <2>9. CASE Mark
    <3>1. now \in Stamps /\ ~ Restorable(dirs[now])
      BY <2>5, <2>9 DEF Mark, BackupInv, Standing, Restorable
    <3> QED BY <2>3, <2>9, <3>1 DEF Mark
  <2>10. CASE Terminate
    <3>1. CASE dirs[now].complete
      BY <2>1, <2>2, <2>5, <2>10, <3>1 DEF Terminate, cleanup, Names
    <3>2. CASE ~ dirs[now].complete
      BY <2>1, <2>3, <2>5, <2>10, <3>2 DEF Terminate, cleanup, Restorable
    <3> QED BY <3>1, <3>2
  <2>11. CASE RemoveVictim
    BY <2>4, <2>11 DEF RemoveVictim
  <2>12. CASE RemoveStops
    BY <2>4, <2>12 DEF RemoveStops
  <2>13. CASE MakeIncomplete \/ Publish \/ fail_incomplete \/ fail_recoverable \/ Finish
    BY <2>1, <2>2, <2>5, <2>13 DEF MakeIncomplete, Publish, fail_incomplete, fail_recoverable, Finish, Names
  <2>14. CASE Start \/ Staged \/ GatePasses \/ SelectVictims \/ SelectFails \/ Kill
    BY <2>1, <2>14 DEF Start, Staged, GatePasses, SelectVictims, SelectFails, Kill
  <2> QED BY <2>6, <2>7, <2>8, <2>9, <2>10, <2>11, <2>12, <2>13, <2>14 DEF Next
<1>2. [][Kept]_vars => WholeBackupsAreKept
  BY PTL DEF WholeBackupsAreKept
<1> QED BY <1>1, <1>2, BackupInvHolds, PTL DEF Spec

-----------------------------------------------------------------------------
(* The chain heals.                                                          *)

\* A digest says whose it is, and which older directory it goes on from.
Signed(d) == \A s \in Stamps : d[s].digest # NoDigest =>
    /\ d[s].digest.id = s /\ d[s].digest.sha = d[s].digest.prev
    /\ d[s].digest.prev < s

IsReset(d, n) == d[n].digest.reset # "no"

\* There are at least w newer generations than that of n.
Reaches(d, n, w) == \E m \in Counted(d) : Gen(d, n) + w <= Gen(d, m)

\* What q quiet runs one after the other make of the chain, whatever it was: it
\* is no longer than Keep, has no reset among its q newest, and is long enough,
\* or has its beginning.
Healed(d, q) == q > 0 =>
    /\ \A m, n \in Counted(d) : Gen(d, m) < Gen(d, n) + Keep
    /\ \A n \in Counted(d) : IsReset(d, n) => Reaches(d, n, q)
    /\ \E n \in Counted(d) : Gen(d, n) = 1 \/ Reaches(d, n, Keep - 1) \/ Reaches(d, n, q)

\* The same when a quiet run has published and has not rotated yet.
Lengthened ==
    /\ \A n \in Counted(dirs) : IsReset(dirs, n) => Gen(dirs, n) + quiet + 1 <= Gen(dirs, now)
    /\ \E n \in Counted(dirs) : \/ Gen(dirs, n) = 1
                                \/ Gen(dirs, n) + Keep - 1 <= Gen(dirs, now)
                                \/ Gen(dirs, n) + quiet + 1 <= Gen(dirs, now)

TooOld == {n \in Counted(dirs) : Gen(dirs, n) + Keep <= Gen(dirs, now)}

HealInv ==
    /\ Signed(dirs)
    /\ reset \/ failed => quiet = 0
    /\ pc \in {"filled", "marked", "published", "rotate"} /\ ~reset => ~IsReset(dirs, now)
    /\ pc \in {"filled", "marked"} /\ Counted(dirs) = {} => Gen(dirs, now) = 1
    /\ pc \notin {"published", "rotate"} => Healed(dirs, quiet)
    /\ pc \in {"published", "rotate"} /\ ~reset /\ ~failed => Lengthened
    /\ pc = "rotate" /\ ~reset /\ ~failed => victims = TooOld

\* What a step leaves of every digest: all of it or nothing.
Lesser == \A s \in Stamps : dirs'[s].digest \in {dirs[s].digest, NoDigest}

SameChain == Counted(dirs') = Counted(dirs) /\ \A t \in Counted(dirs) : dirs'[t] = dirs[t]

LEMMA StaySigned ==
    ASSUME Signed(dirs), Lesser
    PROVE  Signed(dirs')
BY DEF Signed, Lesser

LEMMA RenamedLesser ==
    ASSUME BackupInv, NEW s \in Stamps, NEW name \in Names, Renamed(s, name)
    PROVE  Lesser
BY RenamedFacts DEF BackupInv, OnlyAt, Lesser

LEMMA UnchangedLesser ==
    ASSUME dirs' = dirs
    PROVE  Lesser /\ SameChain
BY DEF Lesser, SameChain

LEMMA OutsideSame ==
    ASSUME NEW s \in Stamps, OnlyAt(s), s \notin Counted(dirs), s \notin Counted(dirs')
    PROVE  SameChain
BY DEF OnlyAt, Counted, SameChain

LEMMA StayHealed ==
    ASSUME SameChain, Healed(dirs, quiet), quiet' \in {quiet, 0}
    PROVE  Healed(dirs', quiet')
<1>1. \A n \in Counted(dirs) : Gen(dirs', n) = Gen(dirs, n) /\ (IsReset(dirs', n) <=> IsReset(dirs, n))
  BY DEF SameChain, Gen, IsReset
<1>2. \A w : \A n \in Counted(dirs) : Reaches(dirs', n, w) <=> Reaches(dirs, n, w)
  BY <1>1 DEF SameChain, Reaches
<1>3. Counted(dirs') = Counted(dirs)
  BY DEF SameChain
<1>4. CASE quiet' = 0
  BY <1>4 DEF Healed
<1>5. CASE quiet' = quiet
  BY <1>1, <1>2, <1>3, <1>5 DEF Healed
<1> QED BY <1>4, <1>5

LEMMA HealStart == Init => HealInv
<1> SUFFICES ASSUME Init PROVE HealInv
  OBVIOUS
<1>1. \A s \in Stamps : dirs[s].digest = NoDigest
  BY DEF Init, Gone
<1>2. quiet = 0 /\ pc = "off"
  BY DEF Init
<1> QED BY <1>1, <1>2 DEF HealInv, Signed, Healed

\* A run that a fault ends is not quiet.
LEMMA HealEnds ==
    ASSUME HealInv, Lesser, quiet' = 0, pc' = "off"
    PROVE  HealInv'
<1>1. Signed(dirs')
  BY StaySigned DEF HealInv
<1>2. Healed(dirs', quiet')
  BY DEF Healed
<1> QED BY <1>1, <1>2 DEF HealInv

\* Until it has filled its directory a run leaves the chain alone.
LEMMA HealWaits ==
    ASSUME HealInv, Lesser, SameChain, quiet' \in {quiet, 0}, reset' \/ failed' => quiet' = 0,
           pc \notin {"published", "rotate"}, pc' \in {"off", "sweep", "gate", "mkdir", "fill"}
    PROVE  HealInv'
<1>1. Signed(dirs')
  BY StaySigned DEF HealInv
<1>2. Healed(dirs', quiet')
  BY StayHealed DEF HealInv
<1> QED BY <1>1, <1>2 DEF HealInv

LEMMA HealFill ==
    ASSUME BackupInv, HealInv, Fill
    PROVE  HealInv'
<1>1. /\ pc = "fill" /\ pc' = "filled" /\ NoFault
      /\ UNCHANGED <<now, reset, victims, failed, resets>>
  BY DEF Fill
<1>2. now \in Stamps /\ dirs[now] = [Gone EXCEPT !.name = "incomplete"] /\ now \notin Counted(dirs)
  BY <1>1, NotYet DEF BackupInv, Standing
<1> DEFINE g == DigestOf(Retained)
           x == [[dirs[now] EXCEPT !.whole = TRUE] EXCEPT !.digest = g]
           prev == latest_published(Retained, FALSE)
<1>3. /\ Valid(Retained) = Counted(dirs) /\ Counted(dirs) \subseteq Stamps
      /\ \/ Counted(dirs) = {}
         \/ g.prev \in Counted(dirs) /\ Gen(dirs, g.prev) + 1 = g.gen
  BY <1>1, DigestFacts, RetainedFacts DEF BackupInv
<1>4. /\ g.id = now /\ g.sha = g.prev /\ g.prev = prev /\ g.reset = IF reset THEN "yes" ELSE "no"
      /\ g.gen = IF prev = NoName THEN 1 ELSE dirs[prev].digest.gen + 1
  BY DEF DigestOf
<1>5. Counted(dirs) = {} => prev = NoName /\ g.gen = 1
  <2>1. Counted(dirs) = {} => prev = NoName
    BY <1>3 DEF latest_published
  <2> HIDE DEF prev
  <2> QED BY <1>4, <2>1
<1> HIDE DEF g, prev
<1>6. g.prev < now
  <2>1. CASE Counted(dirs) = {}
    BY <1>2, <1>4, <1>5, <2>1, BackupAssumption DEF Stamps
  <2>2. CASE g.prev \in Counted(dirs)
    <3>1. ~ (g.prev > now) /\ g.prev # now
      BY <1>2, <1>3, <2>2 DEF BackupInv, Standing, Counted, Gone
    <3> QED BY <1>2, <1>3, <2>2, <3>1, DirFacts DEF BackupInv
  <2> QED BY <1>3, <2>1, <2>2
<1>7. dirs' = [dirs EXCEPT ![now] = x]
  BY <1>2, DirFacts DEF Fill, BackupInv, g
<1>8. x.name = "incomplete" /\ ~ x.complete /\ x.digest = g
  BY <1>2 DEF Gone
<1> HIDE DEF x
<1>9. dirs'[now] = x /\ \A t \in Stamps \ {now} : dirs'[t] = dirs[t]
  BY <1>2, <1>7, DirFacts DEF BackupInv
<1>10. SameChain
  BY <1>2, <1>8, <1>9 DEF Counted, SameChain
<1>11. Signed(dirs')
  BY <1>4, <1>6, <1>8, <1>9 DEF HealInv, Signed
<1>12. Healed(dirs', quiet')
  BY <1>1, <1>10, StayHealed DEF HealInv, NoFault
<1>13. ~ reset' => ~ IsReset(dirs', now')
  BY <1>1, <1>4, <1>8, <1>9 DEF IsReset
<1>14. Counted(dirs') = {} => Gen(dirs', now') = 1
  BY <1>1, <1>5, <1>8, <1>9, <1>10 DEF Gen, SameChain
<1> QED BY <1>1, <1>11, <1>12, <1>13, <1>14 DEF HealInv, NoFault

LEMMA HealMark ==
    ASSUME BackupInv, HealInv, Mark
    PROVE  HealInv'
<1>1. /\ pc = "filled" /\ pc' = "marked" /\ NoFault
      /\ UNCHANGED <<now, trap, reset, victims, failed, resets>>
  BY DEF Mark
<1> DEFINE x == [dirs[now] EXCEPT !.complete = TRUE]
<1>2. now \in Stamps /\ dirs[now] \in Dir /\ now \notin Counted(dirs) /\ dirs[now].name = "incomplete"
  BY <1>1, DirFacts, NotYet DEF BackupInv, Standing
<1>3. dirs' = [dirs EXCEPT ![now] = x]
  BY DEF Mark
<1>4. x.name = "incomplete" /\ x.digest = dirs[now].digest
  BY <1>2 DEF Dir
<1> HIDE DEF x
<1>5. dirs'[now] = x /\ \A t \in Stamps \ {now} : dirs'[t] = dirs[t]
  BY <1>2, <1>3, DirFacts DEF BackupInv
<1>6. SameChain /\ Lesser
  BY <1>2, <1>4, <1>5 DEF Counted, SameChain, Lesser
<1>7. Signed(dirs') /\ Healed(dirs', quiet')
  BY <1>1, <1>6, StaySigned, StayHealed DEF HealInv, NoFault
<1>8. ~ reset' => ~ IsReset(dirs', now')
  BY <1>1, <1>4, <1>5 DEF HealInv, IsReset
<1>9. Counted(dirs') = {} => Gen(dirs', now') = 1
  BY <1>1, <1>4, <1>5, <1>6 DEF HealInv, Gen, SameChain
<1> QED BY <1>1, <1>7, <1>8, <1>9 DEF HealInv, NoFault

LEMMA HealPublish ==
    ASSUME BackupInv, HealInv, Publish
    PROVE  HealInv'
<1>1. /\ pc = "marked" /\ pc' = "published" /\ NoFault /\ Renamed(now, "cass") /\ "cass" \in Names
      /\ UNCHANGED <<now, trap, reset, victims, failed, resets>>
  BY DEF Publish, Names
<1>2. now \in Stamps /\ now \notin Counted(dirs)
  BY <1>1, NotYet
<1>3. /\ OnlyAt(now) /\ dirs'[now].name = "cass" /\ dirs'[now].complete = dirs[now].complete
      /\ dirs'[now].digest = dirs[now].digest
  BY <1>1, <1>2, RenamedFacts DEF BackupInv
<1>4. /\ dirs[now].complete /\ dirs[now].digest # NoDigest
      /\ Counted(dirs) = {} \/ GoesOn(dirs, now)
      /\ \A m \in Counted(dirs) : Gen(dirs, m) < Gen(dirs, now)
  BY <1>1, <1>2 DEF BackupInv, Standing
<1>5. Counted(dirs') = Counted(dirs) \union {now} /\ Counted(dirs) \subseteq Stamps
  BY <1>2, <1>3, <1>4 DEF OnlyAt, Counted
<1>6. /\ \A t \in Counted(dirs') : Gen(dirs', t) = Gen(dirs, t)
      /\ \A t \in Counted(dirs') : IsReset(dirs', t) <=> IsReset(dirs, t)
  BY <1>2, <1>3, <1>5 DEF OnlyAt, Gen, IsReset
<1>7. /\ \A t \in Counted(dirs) : Gen(dirs, t) \in Nat
      /\ Gen(dirs, now) \in Nat /\ quiet \in Nat /\ Keep \in Nat
  BY <1>2, <1>4, RetainedFacts, DirFacts DEF BackupInv
<1>8. Signed(dirs')
  <2>1. Lesser
    BY <1>3 DEF OnlyAt, Lesser
  <2> QED BY <2>1, StaySigned DEF HealInv
<1>9. ~ reset => ~ IsReset(dirs', now)
  BY <1>1, <1>5, <1>6 DEF HealInv
<1>10. Healed(dirs, quiet) /\ (Counted(dirs) = {} => Gen(dirs, now) = 1)
  BY <1>1 DEF HealInv
<1>11. ASSUME ~ reset PROVE Lengthened'
  <2>1. ASSUME NEW n \in Counted(dirs), IsReset(dirs, n) PROVE Gen(dirs, n) + quiet + 1 <= Gen(dirs, now)
    <3>1. CASE quiet = 0
      BY <1>4, <1>7, <3>1
    <3>2. CASE quiet > 0
      <4>1. PICK m \in Counted(dirs) : Gen(dirs, n) + quiet <= Gen(dirs, m)
        BY <1>10, <2>1, <3>2 DEF Healed, Reaches
      <4> QED BY <1>4, <1>7, <4>1
    <3> QED BY <1>7, <3>1, <3>2
  <2>2. \E n \in Counted(dirs') : \/ Gen(dirs, n) = 1
                                  \/ Gen(dirs, n) + Keep - 1 <= Gen(dirs, now)
                                  \/ Gen(dirs, n) + quiet + 1 <= Gen(dirs, now)
    <3>1. CASE Counted(dirs) = {}
      BY <1>5, <1>10, <3>1
    <3>2. CASE quiet = 0 /\ GoesOn(dirs, now)
      <4>1. dirs[now].digest.prev \in Counted(dirs) /\ Gen(dirs, dirs[now].digest.prev) + 1 = Gen(dirs, now)
        BY <3>2 DEF GoesOn
      <4>2. Gen(dirs, dirs[now].digest.prev) + quiet + 1 <= Gen(dirs, now)
        BY <1>7, <3>2, <4>1
      <4> QED BY <1>5, <4>1, <4>2
    <3>3. CASE quiet > 0
      <4>1. PICK n \in Counted(dirs) : Gen(dirs, n) = 1 \/ Reaches(dirs, n, Keep - 1) \/ Reaches(dirs, n, quiet)
        BY <1>10, <3>3 DEF Healed
      <4>2. CASE Gen(dirs, n) = 1
        BY <1>5, <4>2
      <4>3. CASE Reaches(dirs, n, Keep - 1)
        <5>1. PICK m \in Counted(dirs) : Gen(dirs, n) + (Keep - 1) <= Gen(dirs, m)
          BY <4>3 DEF Reaches
        <5>2. Gen(dirs, n) + Keep - 1 <= Gen(dirs, now)
          BY <1>4, <1>7, <5>1
        <5> QED BY <1>5, <5>2
      <4>4. CASE Reaches(dirs, n, quiet)
        <5>1. PICK m \in Counted(dirs) : Gen(dirs, n) + quiet <= Gen(dirs, m)
          BY <4>4 DEF Reaches
        <5>2. Gen(dirs, n) + quiet + 1 <= Gen(dirs, now)
          BY <1>4, <1>7, <5>1
        <5> QED BY <1>5, <5>2
      <4> QED BY <4>1, <4>2, <4>3, <4>4
    <3> QED BY <1>4, <1>7, <3>1, <3>2, <3>3
  <2>3. \A n \in Counted(dirs') : IsReset(dirs', n) => Gen(dirs', n) + quiet + 1 <= Gen(dirs', now)
    BY <1>5, <1>6, <1>9, <1>11, <2>1
  <2>4. \E n \in Counted(dirs') : \/ Gen(dirs', n) = 1
                                  \/ Gen(dirs', n) + Keep - 1 <= Gen(dirs', now)
                                  \/ Gen(dirs', n) + quiet + 1 <= Gen(dirs', now)
    BY <1>5, <1>6, <2>2
  <2> QED BY <1>1, <2>3, <2>4 DEF Lengthened, NoFault
<1> QED BY <1>1, <1>8, <1>9, <1>11 DEF HealInv, NoFault

\* Between two generations that count none is missing.
LEMMA NoHole ==
    ASSUME BackupInv, NEW n \in Counted(dirs), NEW m \in Counted(dirs), NEW k \in Nat,
           Gen(dirs, n) <= k, k <= Gen(dirs, m)
    PROVE  \E t \in Counted(dirs) : Gen(dirs, t) = k
<1>1. \A t \in Counted(dirs) : Gen(dirs, t) \in Nat
  BY RetainedFacts DEF BackupInv
<1> DEFINE T == {g \in Nat : g >= k /\ \E t \in Counted(dirs) : Gen(dirs, t) = g}
<1>2. T \in SUBSET Nat /\ T # {}
  BY <1>1
<1> HIDE DEF T
<1>3. PICK g \in T : \A h \in T : g <= h
  BY <1>2, LeastNumber
<1>4. PICK t \in Counted(dirs) : Gen(dirs, t) = g /\ g >= k /\ g \in Nat
  BY <1>3 DEF T
<1>5. ASSUME g # k PROVE FALSE
  <2>1. ~ IsFirst(dirs, t)
    BY <1>1, <1>4, <1>5 DEF IsFirst
  <2>2. PICK u \in Counted(dirs) : Gen(dirs, u) + 1 = g
    BY <1>4, <2>1 DEF BackupInv, NoGap, GoesOn
  <2>3. Gen(dirs, u) \in T
    BY <1>1, <1>4, <1>5, <2>2 DEF T
  <2> QED BY <1>1, <1>3, <1>4, <2>2, <2>3
<1> QED BY <1>4, <1>5

\* Directories with all the generations from a to b are b - a + 1.
LEMMA Counting ==
    ASSUME BackupInv, NEW S \in SUBSET Counted(dirs), NEW a \in Nat, NEW b \in Nat, a <= b + 1,
           \A t \in S : a <= Gen(dirs, t) /\ Gen(dirs, t) <= b,
           \A k \in a..b : \E t \in S : Gen(dirs, t) = k
    PROVE  IsFiniteSet(S) /\ Cardinality(S) = b - a + 1
<1>1. S \subseteq Stamps /\ \A t \in S : Gen(dirs, t) \in Nat
  BY RetainedFacts DEF BackupInv
<1>2. IsFiniteSet(S)
  <2>1. 1 \in Int /\ Nights \in Int
    BY BackupAssumption
  <2>2. IsFiniteSet(1..Nights)
    BY <2>1, FS_Interval
  <2> QED BY <1>1, <2>2, FS_Subset DEF Stamps
<1> DEFINE f == [t \in S |-> Gen(dirs, t)]
<1>3. f \in [S -> a..b] /\ \A t \in S : f[t] = Gen(dirs, t)
  BY <1>1
<1>4. \A t, u \in S : f[t] = f[u] => t = u
  <2>1. \A t, u \in S : t < u => Gen(dirs, t) < Gen(dirs, u)
    BY DEF BackupInv, InOrder
  <2> QED BY <1>1, <1>3, <2>1, DirFacts DEF BackupInv
<1>5. \A k \in a..b : \E t \in S : f[t] = k
  BY <1>3
<1> HIDE DEF f
<1>6. f \in Bijection(S, a..b)
  BY <1>3, <1>4, <1>5 DEF Bijection, Injection, Surjection, IsInjective
<1>7. Cardinality(a..b) = Cardinality(S)
  BY <1>2, <1>6, FS_Bijection DEF ExistsBijection
<1>8. Cardinality(a..b) = b - a + 1
  BY FS_Interval
<1> QED BY <1>2, <1>7, <1>8

\* The new backup, while the old ones are rotated.
LEMMA NewOne ==
    ASSUME BackupInv, pc \in {"published", "rotate"}
    PROVE  /\ now \in Counted(dirs) /\ Gen(dirs, now) \in Nat
           /\ \A m \in Counted(dirs) : /\ Gen(dirs, m) \in Nat /\ Gen(dirs, m) <= Gen(dirs, now)
                                       /\ m # now => Gen(dirs, m) < Gen(dirs, now)
<1>1. now \in Counted(dirs) /\ \A m \in Counted(dirs) \ {now} : Gen(dirs, m) < Gen(dirs, now)
  BY DEF BackupInv, Standing, Counted
<1> QED BY <1>1, RetainedFacts DEF BackupInv

\* The rotation takes what has at least Keep newer ones, by its generation.
LEMMA RotationTakes ==
    ASSUME BackupInv, pc = "published"
    PROVE  rotation_victims(Retained, Keep) = TooOld
<1>1. /\ Valid(Retained) = Counted(dirs)
      /\ \A s \in Counted(dirs) : Retained[s].gen = Gen(dirs, s) /\ Gen(dirs, s) \in Nat
  BY RetainedFacts DEF BackupInv
<1>2. ASSUME NEW n \in Counted(dirs)
      PROVE  Cardinality({m \in Counted(dirs) : Gen(dirs, m) > Gen(dirs, n)}) = Gen(dirs, now) - Gen(dirs, n)
  <2> DEFINE S == {m \in Counted(dirs) : Gen(dirs, m) > Gen(dirs, n)}
             a == Gen(dirs, n) + 1
             b == Gen(dirs, now)
  <2>1. a \in Nat /\ b \in Nat /\ a <= b + 1 /\ S \in SUBSET Counted(dirs)
    BY <1>1, NewOne
  <2>2. \A t \in S : a <= Gen(dirs, t) /\ Gen(dirs, t) <= b
    BY <1>1, NewOne
  <2>3. ASSUME NEW k \in a..b PROVE \E t \in S : Gen(dirs, t) = k
    <3>1. k \in Nat /\ Gen(dirs, n) <= k /\ k <= Gen(dirs, now) /\ k > Gen(dirs, n)
      BY <1>1, <2>1, <2>3
    <3>2. PICK t \in Counted(dirs) : Gen(dirs, t) = k
      BY <3>1, NewOne, NoHole
    <3> QED BY <3>1, <3>2
  <2>4. b - a + 1 = Gen(dirs, now) - Gen(dirs, n)
    BY <1>1, NewOne
  <2> HIDE DEF S, a, b
  <2>5. Cardinality(S) = b - a + 1
    BY <2>1, <2>2, <2>3, Counting
  <2> QED BY <2>4, <2>5 DEF S
<1>3. ASSUME NEW n \in Counted(dirs)
      PROVE  Cardinality({m \in Valid(Retained) : Retained[m].gen > Retained[n].gen}) = Gen(dirs, now) - Gen(dirs, n)
  <2>1. {m \in Valid(Retained) : Retained[m].gen > Retained[n].gen} = {m \in Counted(dirs) : Gen(dirs, m) > Gen(dirs, n)}
    BY <1>1, <1>3
  <2> QED BY <1>2, <1>3, <2>1
<1>4. \A n \in Counted(dirs) : Gen(dirs, now) - Gen(dirs, n) >= Keep <=> Gen(dirs, n) + Keep <= Gen(dirs, now)
  BY <1>1, NewOne, DirFacts DEF BackupInv
<1> QED BY <1>1, <1>3, <1>4 DEF rotation_victims, TooOld

LEMMA HealSelect ==
    ASSUME BackupInv, HealInv, SelectVictims \/ SelectFails
    PROVE  HealInv'
<1>1. /\ pc = "published" /\ pc' = "rotate" /\ UNCHANGED <<dirs, now, reset, resets>>
      /\ \/ /\ NoFault /\ failed' = failed
            /\ ~reset => victims' = rotation_victims(Retained, Keep)
         \/ Fault /\ failed' = TRUE
  BY DEF SelectVictims, SelectFails
<1>2. ~ reset => ~ IsReset(dirs, now)
  BY <1>1 DEF HealInv
<1>3. CASE Fault /\ failed' = TRUE
  BY <1>1, <1>2, <1>3 DEF HealInv, Fault
<1>4. CASE NoFault /\ failed' = failed /\ (~reset => victims' = rotation_victims(Retained, Keep))
  <2>1. ~ reset => victims' = TooOld
    BY <1>1, <1>4, RotationTakes
  <2>2. TooOld' = TooOld /\ (Lengthened => Lengthened')
    BY <1>1, <1>4 DEF TooOld, Lengthened, NoFault
  <2> QED BY <1>1, <1>2, <1>4, <2>1, <2>2 DEF HealInv, NoFault
<1> QED BY <1>1, <1>3, <1>4

LEMMA HealRemoveVictim ==
    ASSUME BackupInv, HealInv, RemoveVictim
    PROVE  HealInv'
<1> DEFINE v == Oldest(Retained, victims)
<1>1. /\ victims # {} /\ NoFault /\ UNCHANGED <<now, pc, trap, reset, failed, resets>>
      /\ dirs' = [dirs EXCEPT ![v] = Gone] /\ victims' = victims \ {v} /\ pc = "rotate"
  BY DEF RemoveVictim
<1>2. /\ v \in victims /\ v \in Counted(dirs) /\ IsFirst(dirs, v) /\ v \in Stamps /\ v # now
  BY <1>1, NextVictim
<1> HIDE DEF v
<1>3. OnlyAt(v) /\ dirs'[v] = Gone
  BY <1>1, <1>2, Replaced, DirFacts DEF BackupInv
<1>4. Counted(dirs') = Counted(dirs) \ {v} /\ Counted(dirs) \subseteq Stamps
  BY <1>2, <1>3 DEF Counted, OnlyAt, Gone
<1>5. \A t \in Counted(dirs') : Gen(dirs', t) = Gen(dirs, t) /\ (IsReset(dirs', t) <=> IsReset(dirs, t))
  BY <1>3, <1>4 DEF OnlyAt, Gen, IsReset
<1>6. now \in Counted(dirs') /\ Gen(dirs', now) = Gen(dirs, now) /\ (IsReset(dirs', now) <=> IsReset(dirs, now))
  BY <1>1, <1>2, <1>4, <1>5, NewOne
<1>7. Signed(dirs')
  <2>1. Lesser
    BY <1>3 DEF OnlyAt, Lesser, Gone
  <2> QED BY <2>1, StaySigned DEF HealInv
<1>8. ~ reset' => ~ IsReset(dirs', now')
  BY <1>1, <1>6 DEF HealInv
<1>9. ASSUME ~ reset, ~ failed PROVE Lengthened' /\ victims' = TooOld'
  <2>1. Lengthened /\ victims = TooOld
    BY <1>1, <1>9 DEF HealInv
  <2>2. TooOld' = TooOld \ {v}
    BY <1>1, <1>4, <1>5, <1>6 DEF TooOld
  <2>3. /\ Gen(dirs, v) + Keep <= Gen(dirs, now) /\ Gen(dirs, v) \in Nat /\ Keep \in Nat \ {0}
        /\ Gen(dirs, now) \in Nat
    BY <1>1, <1>2, <2>1, NewOne, BackupAssumption DEF TooOld
  <2>4. PICK n \in Counted(dirs) : Gen(dirs, n) = Gen(dirs, v) + 1
    <3>1. Gen(dirs, v) + 1 \in Nat /\ Gen(dirs, v) <= Gen(dirs, v) + 1 /\ Gen(dirs, v) + 1 <= Gen(dirs, now)
      BY <2>3
    <3> DEFINE k == Gen(dirs, v) + 1
    <3>2. k \in Nat /\ Gen(dirs, v) <= k /\ k <= Gen(dirs, now)
      BY <3>1
    <3> HIDE DEF k
    <3>3. \E n \in Counted(dirs) : Gen(dirs, n) = k
      BY <1>1, <1>2, <3>2, NewOne, NoHole
    <3> QED BY <3>3 DEF k
  <2>5. n \in Counted(dirs') /\ Gen(dirs', n) + Keep - 1 <= Gen(dirs', now)
    <3>1. n # v
      BY <2>3, <2>4
    <3> QED BY <1>4, <1>5, <1>6, <2>3, <2>4, <3>1
  <2>6. \A t \in Counted(dirs') : IsReset(dirs', t) => Gen(dirs', t) + quiet + 1 <= Gen(dirs', now)
    BY <1>4, <1>5, <1>6, <2>1 DEF Lengthened
  <2>7. Lengthened'
    BY <1>1, <2>5, <2>6 DEF Lengthened, NoFault
  <2> QED BY <1>1, <2>1, <2>2, <2>7
<1> QED BY <1>1, <1>7, <1>8, <1>9 DEF HealInv, NoFault

LEMMA HealRemoveStops ==
    ASSUME BackupInv, HealInv, RemoveStops
    PROVE  HealInv'
<1> DEFINE v == Oldest(Retained, victims)
<1>1. /\ victims # {} /\ Fault /\ UNCHANGED <<now, trap, reset, resets>> /\ pc = "rotate"
      /\ failed' = TRUE /\ pc' \in {"rotate", "off"}
  BY DEF RemoveStops
<1>2. PICK marker \in BOOLEAN, digest \in BOOLEAN :
        dirs' = [dirs EXCEPT ![v] =
                    [name |-> dirs[v].name, whole |-> FALSE, complete |-> marker,
                     digest |-> IF digest THEN dirs[v].digest ELSE NoDigest]]
  BY DEF RemoveStops
<1>3. v \in Stamps /\ v # now /\ now \in Stamps
  <2>1. v \in Stamps /\ v # now
    BY <1>1, NextVictim
  <2>2. now \in Stamps
    BY <1>1 DEF BackupInv, Standing
  <2> QED BY <2>1, <2>2
<1> HIDE DEF v
<1> DEFINE x == [name |-> dirs[v].name, whole |-> FALSE, complete |-> marker,
                 digest |-> IF digest THEN dirs[v].digest ELSE NoDigest]
<1>4. x.digest \in {dirs[v].digest, NoDigest} /\ dirs' = [dirs EXCEPT ![v] = x]
  BY <1>2
<1> HIDE DEF x
<1>5. Lesser
  BY <1>3, <1>4, DirFacts DEF BackupInv, Lesser
<1>6. dirs'[now] = dirs[now]
  BY <1>3, <1>4, DirFacts DEF BackupInv
<1>7. Signed(dirs')
  BY <1>5, StaySigned DEF HealInv
<1>8. ~ reset' => ~ IsReset(dirs', now')
  BY <1>1, <1>6 DEF HealInv, IsReset
<1>9. quiet' = 0
  BY <1>1 DEF Fault
<1>10. Healed(dirs', quiet')
  BY <1>9 DEF Healed
<1> QED BY <1>1, <1>7, <1>8, <1>9, <1>10 DEF HealInv

LEMMA HealFinish ==
    ASSUME BackupInv, HealInv, Finish
    PROVE  HealInv'
<1>1. /\ pc = "rotate" /\ victims = {} /\ pc' = "off" /\ UNCHANGED <<now, reset, failed>>
      /\ reset \/ UNCHANGED dirs
      /\ UNCHANGED dirs \/ Renamed(now, "RECOVERABLE")
      /\ quiet' = IF reset \/ failed THEN quiet ELSE quiet + 1
  BY DEF Finish, Off
<1>2. Lesser
  <2>1. now \in Stamps /\ "RECOVERABLE" \in Names
    BY <1>1 DEF BackupInv, Standing, Names
  <2> QED BY <1>1, <2>1, RenamedLesser, UnchangedLesser
<1>3. Signed(dirs')
  BY <1>2, StaySigned DEF HealInv
<1>4. Healed(dirs', quiet')
  <2>1. CASE reset \/ failed
    BY <1>1, <2>1 DEF HealInv, Healed
  <2>2. CASE ~ reset /\ ~ failed
    <3>1. dirs' = dirs /\ quiet' = quiet + 1 /\ Lengthened /\ TooOld = {}
      BY <1>1, <2>2 DEF HealInv
    <3>2. /\ \A m \in Counted(dirs) : Gen(dirs, m) \in Nat /\ Gen(dirs, m) <= Gen(dirs, now)
          /\ now \in Counted(dirs) /\ Gen(dirs, now) \in Nat /\ Keep \in Nat /\ quiet \in Nat
      BY <1>1, NewOne, DirFacts DEF BackupInv
    <3>3. \A n \in Counted(dirs) : Gen(dirs, now) < Gen(dirs, n) + Keep
      BY <3>1, <3>2 DEF TooOld
    <3>4. \A m, n \in Counted(dirs) : Gen(dirs, m) < Gen(dirs, n) + Keep
      BY <3>2, <3>3
    <3>5. \A n \in Counted(dirs), w \in Int : Gen(dirs, n) + w <= Gen(dirs, now) => Reaches(dirs, n, w)
      BY <3>2 DEF Reaches
    <3>6. \A n \in Counted(dirs) : IsReset(dirs, n) => Reaches(dirs, n, quiet + 1)
      BY <3>1, <3>2, <3>5 DEF Lengthened
    <3>7. PICK n \in Counted(dirs) : \/ Gen(dirs, n) = 1
                                     \/ Gen(dirs, n) + Keep - 1 <= Gen(dirs, now)
                                     \/ Gen(dirs, n) + quiet + 1 <= Gen(dirs, now)
      BY <3>1 DEF Lengthened
    <3>8. Gen(dirs, n) = 1 \/ Reaches(dirs, n, Keep - 1) \/ Reaches(dirs, n, quiet + 1)
      BY <3>2, <3>5, <3>7
    <3>9. Healed(dirs, quiet + 1)
      BY <3>4, <3>6, <3>8 DEF Healed
    <3> QED BY <3>1, <3>9
  <2> QED BY <2>1, <2>2
<1>5. reset' \/ failed' => quiet' = 0
  BY <1>1 DEF HealInv
<1> QED BY <1>1, <1>3, <1>4, <1>5 DEF HealInv

LEMMA HealBefore ==
    ASSUME BackupInv, HealInv, Start \/ Staged \/ GatePasses
    PROVE  HealInv'
<1>1. /\ dirs' = dirs /\ quiet' \in {quiet, 0} /\ pc \notin {"published", "rotate"} /\ pc' \in {"sweep", "gate", "mkdir"}
      /\ reset' \/ failed' => quiet' = 0
  <2>1. CASE Start
    BY <2>1 DEF Start
  <2>2. CASE Staged \/ GatePasses
    <3>1. UNCHANGED <<dirs, quiet, reset, failed>> /\ pc \in {"sweep", "gate"} /\ pc' \in {"gate", "mkdir"}
      BY <2>2 DEF Staged, GatePasses, NoFault
    <3>2. reset \/ failed => quiet = 0
      BY DEF HealInv
    <3> QED BY <3>1, <3>2
  <2> QED BY <2>1, <2>2
<1> QED BY <1>1, UnchangedLesser, HealWaits

LEMMA HealSweep ==
    ASSUME BackupInv, HealInv, Sweep
    PROVE  HealInv'
<1>1. PICK s \in Stamps : /\ dirs[s].name = "incomplete"
                          /\ IF dirs[s].complete THEN Renamed(s, "RECOVERABLE")
                                                 ELSE dirs' = [dirs EXCEPT ![s] = Gone]
  BY DEF Sweep
<1>2. UNCHANGED <<reset, failed, quiet>> /\ pc = "sweep" /\ pc' = "sweep" /\ "RECOVERABLE" \in Names
  BY DEF Sweep, NoFault, Names
<1>3. OnlyAt(s) /\ s \notin Counted(dirs') /\ dirs'[s].digest \in {dirs[s].digest, NoDigest}
  <2>1. CASE dirs[s].complete
    BY <1>1, <1>2, <2>1, RenamedFacts DEF BackupInv, Counted
  <2>2. CASE ~ dirs[s].complete
    <3>1. OnlyAt(s) /\ dirs'[s] = Gone
      BY <1>1, <2>2, Replaced, DirFacts DEF BackupInv
    <3> QED BY <3>1 DEF Counted, Gone
  <2> QED BY <2>1, <2>2
<1>4. s \notin Counted(dirs)
  BY <1>1 DEF Counted
<1>5. SameChain /\ Lesser
  BY <1>3, <1>4, OutsideSame DEF OnlyAt, Lesser
<1> QED BY <1>2, <1>5, HealWaits DEF HealInv

LEMMA HealGateRefuses ==
    ASSUME BackupInv, HealInv, GateRefuses
    PROVE  HealInv'
<1> DEFINE x == [Gone EXCEPT !.name = "SUSPECT"]
<1>1. /\ pc = "gate" /\ pc' = "off" /\ dirs' = [dirs EXCEPT ![now] = x] /\ UNCHANGED <<reset, failed>>
      /\ quiet' \in {quiet, 0}
  BY DEF GateRefuses, Off, Fault, NoFault
<1>2. x \in Dir /\ x.digest = NoDigest
  BY DEF Gone, Dir, Names
<1> HIDE DEF x
<1>3. now \in Stamps /\ now \notin Counted(dirs)
  BY <1>1 DEF BackupInv, Standing, Counted, Gone
<1>4. OnlyAt(now) /\ dirs'[now] = x
  BY <1>1, <1>2, <1>3, Replaced DEF BackupInv
<1>5. now \notin Counted(dirs')
  BY <1>2, <1>4 DEF Counted
<1>6. SameChain /\ Lesser
  BY <1>2, <1>3, <1>4, <1>5, OutsideSame DEF OnlyAt, Lesser
<1>7. reset' \/ failed' => quiet' = 0
  BY <1>1 DEF HealInv
<1> QED BY <1>1, <1>6, <1>7, HealWaits

LEMMA HealMakeIncomplete ==
    ASSUME BackupInv, HealInv, MakeIncomplete
    PROVE  HealInv'
<1>1. /\ pc = "mkdir" /\ pc' = "fill" /\ Renamed(now, "incomplete") /\ "incomplete" \in Names
      /\ UNCHANGED <<reset, failed, quiet>>
  BY DEF MakeIncomplete, Names, NoFault
<1>2. now \in Stamps /\ now \notin Counted(dirs)
  BY <1>1 DEF BackupInv, Standing, Counted, Gone
<1>3. OnlyAt(now) /\ now \notin Counted(dirs')
  BY <1>1, <1>2, RenamedFacts DEF BackupInv, Counted
<1>4. SameChain /\ Lesser
  BY <1>1, <1>2, <1>3, OutsideSame, RenamedLesser
<1>5. reset' \/ failed' => quiet' = 0
  BY <1>1 DEF HealInv
<1> QED BY <1>1, <1>4, <1>5, HealWaits

LEMMA HealFaults ==
    ASSUME BackupInv, HealInv, fail_incomplete \/ fail_recoverable \/ Terminate \/ Kill
    PROVE  HealInv'
<1>1. pc # "off" /\ quiet' = 0 /\ pc' = "off"
  BY DEF fail_incomplete, fail_recoverable, Terminate, Kill, Fault, Off
<1>2. now \in Stamps /\ "INCOMPLETE" \in Names /\ "RECOVERABLE" \in Names
  BY <1>1 DEF BackupInv, Standing, Names
<1>3. \/ dirs' = dirs \/ Renamed(now, "INCOMPLETE") \/ Renamed(now, "RECOVERABLE")
      \/ dirs' = [dirs EXCEPT ![now] = Gone]
  BY DEF fail_incomplete, fail_recoverable, Terminate, Kill, cleanup
<1>4. CASE dirs' = [dirs EXCEPT ![now] = Gone]
  <2>1. OnlyAt(now) /\ dirs'[now] = Gone
    BY <1>2, <1>4, Replaced, DirFacts DEF BackupInv
  <2>2. Lesser
    BY <2>1 DEF OnlyAt, Gone, Lesser
  <2> QED BY <1>1, <2>2, HealEnds
<1>5. CASE dirs' = dirs \/ Renamed(now, "INCOMPLETE") \/ Renamed(now, "RECOVERABLE")
  <2>1. Lesser
    BY <1>2, <1>5, RenamedLesser, UnchangedLesser
  <2> QED BY <1>1, <2>1, HealEnds
<1> QED BY <1>3, <1>4, <1>5

\* What quiet runs do to the chain, for any retention, whatever was interrupted
\* before them.
THEOREM HealInvHolds == Spec => []HealInv
<1>1. BackupInv /\ HealInv /\ [Next]_vars => HealInv'
  <2> SUFFICES ASSUME BackupInv, HealInv, [Next]_vars PROVE HealInv'
    OBVIOUS
  <2>1. CASE Next
    BY <2>1, HealBefore, HealSweep, HealGateRefuses, HealMakeIncomplete, HealFill, HealMark, HealPublish,
       HealSelect, HealRemoveVictim, HealRemoveStops, HealFinish, HealFaults DEF Next
  <2>2. CASE UNCHANGED vars
    BY <2>2 DEF vars, HealInv, Lengthened, TooOld
  <2> QED BY <2>1, <2>2
<1> QED BY <1>1, HealStart, BackupInvHolds, PTL DEF Spec

-----------------------------------------------------------------------------
\* A chain with no reset but at its beginning, whose digests say whose they are:
\* old is its first member and new its last.
Whole(old, new) ==
    /\ BackupInv /\ Signed(dirs)
    /\ old \in Counted(dirs) /\ new \in Counted(dirs)
    /\ \A m \in Counted(dirs) : Gen(dirs, old) <= Gen(dirs, m) /\ Gen(dirs, m) <= Gen(dirs, new)
    /\ \A n \in Counted(dirs) : IsReset(dirs, n) => n = old

LEMMA WholeFacts ==
    ASSUME NEW old, NEW new, Whole(old, new)
    PROVE  /\ Valid(Retained) = Counted(dirs)
           /\ \A n \in Counted(dirs) : /\ Retained[n] = dirs[n].digest /\ Retained[n].gen = Gen(dirs, n)
                                       /\ Gen(dirs, n) \in Nat \ {0} /\ dirs[n].digest \in DigestType
           /\ \A m, n \in Counted(dirs) : Gen(dirs, m) = Gen(dirs, n) => m = n
           /\ Newest(Retained, Counted(dirs)) = new /\ Oldest(Retained, Counted(dirs)) = old
           /\ Cardinality(Counted(dirs)) = Gen(dirs, new) - Gen(dirs, old) + 1
<1>1. /\ Valid(Retained) = Counted(dirs) /\ Counted(dirs) \subseteq Stamps
      /\ \A n \in Counted(dirs) : /\ Retained[n] = dirs[n].digest /\ Retained[n].gen = Gen(dirs, n)
                                  /\ Gen(dirs, n) \in Nat /\ Gen(dirs, n) <= Nights
  BY RetainedFacts DEF Whole, BackupInv
<1>2. \A n \in Counted(dirs) : dirs[n].digest \in DigestType /\ Gen(dirs, n) \in Nat \ {0}
  <2>1. \A n \in Counted(dirs) : dirs[n].digest \in DigestType /\ Gen(dirs, n) \in Stamps
    BY <1>1, DirFacts DEF Whole, BackupInv, Counted
  <2> QED BY <2>1, BackupAssumption DEF Stamps
<1>3. \A m, n \in Counted(dirs) : Gen(dirs, m) = Gen(dirs, n) => m = n
  <2>1. \A m, n \in Counted(dirs) : m < n => Gen(dirs, m) < Gen(dirs, n)
    BY DEF Whole, BackupInv, InOrder
  <2> QED BY <1>1, <2>1, DirFacts DEF Whole, BackupInv
<1>4. Newest(Retained, Counted(dirs)) = new
  <2> DEFINE x == Newest(Retained, Counted(dirs))
  <2>1. Counted(dirs) # {} /\ Nights \in Nat
    BY BackupAssumption DEF Whole
  <2>2. x \in Counted(dirs) /\ \A m \in Counted(dirs) : Retained[m].gen <= Retained[x].gen
    BY <1>1, <2>1, ChosenNewest
  <2> HIDE DEF x
  <2>3. Gen(dirs, x) = Gen(dirs, new)
    BY <1>1, <2>2 DEF Whole
  <2>4. x = new
    BY <1>3, <2>2, <2>3 DEF Whole
  <2> QED BY <2>4 DEF x
<1>5. Oldest(Retained, Counted(dirs)) = old
  <2> DEFINE x == Oldest(Retained, Counted(dirs))
  <2>1. x \in Counted(dirs) /\ \A m \in Counted(dirs) : Retained[x].gen <= Retained[m].gen
    BY <1>1, ChosenOldest DEF Whole
  <2> HIDE DEF x
  <2>2. Gen(dirs, x) = Gen(dirs, old)
    BY <1>1, <2>1 DEF Whole
  <2>3. x = old
    BY <1>3, <2>1, <2>2 DEF Whole
  <2> QED BY <2>3 DEF x
<1>6. Cardinality(Counted(dirs)) = Gen(dirs, new) - Gen(dirs, old) + 1
  <2> DEFINE a == Gen(dirs, old)
             b == Gen(dirs, new)
  <2>1. a \in Nat /\ b \in Nat /\ a <= b + 1 /\ \A t \in Counted(dirs) : a <= Gen(dirs, t) /\ Gen(dirs, t) <= b
    BY <1>1 DEF Whole
  <2>2. ASSUME NEW k \in a..b PROVE \E t \in Counted(dirs) : Gen(dirs, t) = k
    <3>1. k \in Nat /\ Gen(dirs, old) <= k /\ k <= Gen(dirs, new)
      BY <2>1
    <3> QED BY <3>1, NoHole DEF Whole
  <2> HIDE DEF a, b
  <2>3. Cardinality(Counted(dirs)) = b - a + 1
    BY <2>1, <2>2, Counting DEF Whole
  <2> QED BY <2>3 DEF a, b
<1> QED BY <1>1, <1>2, <1>3, <1>4, <1>5, <1>6

\* Where the walk goes from a member of the chain.
LEMMA WalkSteps ==
    ASSUME NEW old, NEW new, Whole(old, new), NEW n \in Counted(dirs)
    PROVE  /\ Step(Retained, n) \in Counted(dirs)
           /\ n = old => ~ Links(Retained, n) /\ Step(Retained, n) = n
           /\ n # old => Gen(dirs, Step(Retained, n)) + 1 = Gen(dirs, n)
           /\ Retained[n].prev \in Counted(dirs) => n # old
           /\ Retained[n].rebased = NoName /\ Retained[n].reset \in {"no", "yes"}
<1>1. /\ Valid(Retained) = Counted(dirs) /\ Retained[n] = dirs[n].digest /\ dirs[n].digest \in DigestType
      /\ \A m \in Counted(dirs) : Retained[m] = dirs[m].digest /\ Gen(dirs, m) \in Nat \ {0}
      /\ \A m, t \in Counted(dirs) : Gen(dirs, m) = Gen(dirs, t) => m = t
  BY WholeFacts
<1> DEFINE p == Retained[n].prev
<1>2. Counted(dirs) \subseteq Stamps /\ n \in Stamps /\ p \in Stamps \union {NoName}
  BY <1>1 DEF Counted, DigestType
<1>3. Retained[n].rebased = NoName /\ Retained[n].reset \in {"no", "yes"}
  BY <1>1 DEF DigestType
<1>4. /\ Retained[n].sha = p /\ p < n
      /\ \A m \in Counted(dirs) : Retained[m].id = m
  BY <1>1, <1>2 DEF Whole, Signed, Counted
<1>5. p \in Counted(dirs) => n # old
  <2> SUFFICES ASSUME p \in Counted(dirs), n = old PROVE FALSE
    OBVIOUS
  <2>1. Gen(dirs, p) < Gen(dirs, n)
    BY <1>4 DEF Whole, BackupInv, InOrder
  <2>2. Gen(dirs, n) <= Gen(dirs, p)
    BY DEF Whole
  <2> QED BY <1>1, <2>1, <2>2
<1>6. n # old => p \in Counted(dirs) /\ Gen(dirs, p) + 1 = Gen(dirs, n)
  <2> SUFFICES ASSUME n # old PROVE p \in Counted(dirs) /\ Gen(dirs, p) + 1 = Gen(dirs, n)
    OBVIOUS
  <2>1. ~ IsFirst(dirs, n)
    <3>1. Gen(dirs, old) <= Gen(dirs, n) /\ Gen(dirs, old) # Gen(dirs, n) /\ old \in Counted(dirs)
      BY <1>1 DEF Whole
    <3> QED BY <1>1, <3>1 DEF IsFirst
  <2> QED BY <1>1, <2>1 DEF Whole, BackupInv, NoGap, GoesOn
<1>7. n # old => Links(Retained, n)
  <2>1. n # old => Retained[n].reset = "no"
    BY <1>1 DEF Whole, IsReset
  <2> QED BY <1>1, <1>3, <1>4, <1>6, <2>1 DEF Links, EndsWalk
<1>8. n = old => ~ Links(Retained, n)
  BY <1>1, <1>5 DEF Links
<1> QED BY <1>3, <1>5, <1>6, <1>7, <1>8 DEF Step

\* The walk is what its recursion says.
LEMMA WalkFacts ==
    ASSUME NEW old, NEW new, Whole(old, new), NEW N \in Nat, N = Cardinality(Counted(dirs))
    PROVE  /\ DOMAIN Walk(Retained) = 0..N /\ Walk(Retained)[0] = new
           /\ \A i \in 0..N : Walk(Retained)[i] \in Counted(dirs)
           /\ \A i \in 1..N : Walk(Retained)[i] = Step(Retained, Walk(Retained)[i - 1])
<1> DEFINE C == Counted(dirs)
           g == [i \in Nat |-> [n \in C |-> Step(Retained, n)]]
           Meets(f) == f = [i \in 0..N |-> IF i = 0 THEN new ELSE Step(Retained, f[i - 1])]
<1>1. new \in C
  BY DEF Whole
<1>2. \A n \in C : Step(Retained, n) \in C
  BY WalkSteps
<1>3. g \in [Nat -> [C -> C]] /\ \A i \in Nat, n \in C : g[i][n] = Step(Retained, n)
  BY <1>2
<1>4. Walk(Retained) = CHOOSE f : f = [i \in 0..Cardinality(Valid(Retained)) |->
                          IF i = 0 THEN Newest(Retained, Valid(Retained)) ELSE Step(Retained, f[i - 1])]
  BY DEF Walk
<1>5. Cardinality(Valid(Retained)) = N /\ Newest(Retained, Valid(Retained)) = new
  BY WholeFacts
<1>6. Walk(Retained) = CHOOSE f : Meets(f)
  BY <1>4, <1>5
<1> HIDE DEF g, C
<1>7. PICK f \in [0..N -> C] : f[0] = new /\ \A i \in 1..N : f[i] = g[i][f[i - 1]]
  <2>1. Unfolded(C, new, g, N) # {}
    BY <1>1, <1>3, Recursion
  <2> QED BY <2>1 DEF Unfolded
<1>8. \A i \in 1..N : i - 1 \in 0..N /\ i \in Nat
  OBVIOUS
<1>9. \A i \in 0..N : f[i] = IF i = 0 THEN new ELSE Step(Retained, f[i - 1])
  BY <1>3, <1>7, <1>8
<1>10. Meets(f)
  BY <1>7, <1>9
<1> HIDE DEF Meets
<1>11. Meets(Walk(Retained))
  BY <1>6, <1>10, Zenon
<1> DEFINE w == Walk(Retained)
<1>12. w = [i \in 0..N |-> IF i = 0 THEN new ELSE Step(Retained, w[i - 1])]
  BY <1>11 DEF Meets
<1> HIDE DEF w
<1>13. DOMAIN w = 0..N /\ w[0] = new /\ \A i \in 1..N : w[i] = Step(Retained, w[i - 1])
  BY <1>8, <1>12
<1>14. \A i \in 0..N : w[i] \in C
  <2> DEFINE T == {i \in Nat : i <= N => w[i] \in C}
  <2>1. 0 \in T
    BY <1>1, <1>13
  <2>2. ASSUME NEW i \in T PROVE i + 1 \in T
    <3>1. CASE i + 1 <= N
      <4>1. i \in Nat /\ i <= N /\ i + 1 \in 1..N /\ (i + 1) - 1 = i
        BY <2>2, <3>1
      <4>2. w[i + 1] = Step(Retained, w[i]) /\ w[i] \in C
        BY <1>13, <2>2, <4>1
      <4> QED BY <1>2, <4>1, <4>2 DEF C
    <3>2. CASE ~ (i + 1 <= N)
      BY <2>2, <3>2
    <3> QED BY <3>1, <3>2
  <2> HIDE DEF T
  <2>3. T \in SUBSET Nat
    BY DEF T
  <2>4. T = Nat
    BY <2>1, <2>2, <2>3, Induction
  <2> QED BY <2>4 DEF T
<1> QED BY <1>13, <1>14 DEF w, C

\* It goes down from the newest, one generation a step, and stays where it ends.
LEMMA WalkEnds ==
    ASSUME NEW old, NEW new, Whole(old, new), NEW N \in Nat, N = Cardinality(Counted(dirs))
    PROVE  /\ Walk(Retained)[N] = old
           /\ {Walk(Retained)[i] : i \in DOMAIN Walk(Retained)} = Counted(dirs)
<1> DEFINE w == Walk(Retained)
           a == Gen(dirs, old)
           b == Gen(dirs, new)
<1>1. DOMAIN w = 0..N /\ w[0] = new /\ \A i \in 0..N : w[i] \in Counted(dirs)
  BY WalkFacts
<1>2. \A i \in 1..N : w[i] = Step(Retained, w[i - 1])
  BY WalkFacts
<1>3. /\ \A t \in Counted(dirs) : Gen(dirs, t) \in Nat \ {0} /\ a <= Gen(dirs, t) /\ Gen(dirs, t) <= b
      /\ \A m, n \in Counted(dirs) : Gen(dirs, m) = Gen(dirs, n) => m = n
      /\ old \in Counted(dirs) /\ new \in Counted(dirs)
  BY WholeFacts DEF Whole
<1>4. a \in Nat /\ b \in Nat /\ a <= b /\ N = b - a + 1
  BY <1>3, WholeFacts
<1>5. /\ Step(Retained, old) = old
      /\ \A n \in Counted(dirs) : n # old => Gen(dirs, Step(Retained, n)) + 1 = Gen(dirs, n)
  BY <1>3, WalkSteps
<1> DEFINE T == {i \in Nat : i <= N => /\ i <= b - a => Gen(dirs, w[i]) = b - i
                                       /\ b - a <= i => w[i] = old}
<1> HIDE DEF w
<1>6. 0 \in T
  <2>1. Gen(dirs, w[0]) = b - 0
    BY <1>1, <1>4
  <2>2. b - a <= 0 => w[0] = old
    <3>1. b - a <= 0 => Gen(dirs, new) = Gen(dirs, old)
      BY <1>4
    <3> QED BY <1>1, <1>3, <3>1
  <2> QED BY <2>1, <2>2
<1>7. ASSUME NEW i \in T PROVE i + 1 \in T
  <2>0. i \in Nat /\ i + 1 \in Nat
    BY <1>7
  <2> SUFFICES ASSUME i + 1 <= N
               PROVE  /\ i + 1 <= b - a => Gen(dirs, w[i + 1]) = b - (i + 1)
                      /\ b - a <= i + 1 => w[i + 1] = old
    BY <2>0
  <2>1. i + 1 \in 1..N /\ (i + 1) - 1 = i /\ i \in 0..N /\ i + 1 \in 0..N /\ i <= N
    BY <2>0
  <2>2. w[i + 1] = Step(Retained, w[i]) /\ w[i] \in Counted(dirs) /\ w[i + 1] \in Counted(dirs)
    BY <1>1, <1>2, <2>1
  <2>3. (i <= b - a => Gen(dirs, w[i]) = b - i) /\ (b - a <= i => w[i] = old)
    BY <1>7, <2>1
  <2>4. CASE i + 1 <= b - a
    <3>1. Gen(dirs, w[i]) = b - i /\ b - i # a
      BY <1>4, <2>0, <2>3, <2>4
    <3>2. w[i] # old
      BY <3>1
    <3>3. Gen(dirs, w[i + 1]) + 1 = Gen(dirs, w[i]) /\ Gen(dirs, w[i + 1]) \in Nat
      BY <1>3, <1>5, <2>2, <3>2
    <3>4. Gen(dirs, w[i + 1]) = b - (i + 1)
      BY <1>4, <2>0, <3>1, <3>3
    <3>5. b - a <= i + 1 => Gen(dirs, w[i + 1]) = Gen(dirs, old)
      BY <1>4, <2>0, <2>4, <3>4
    <3> QED BY <1>3, <2>2, <3>4, <3>5
  <2>5. CASE ~ (i + 1 <= b - a)
    <3>1. b - a <= i
      BY <1>4, <2>0, <2>5
    <3> QED BY <1>5, <2>2, <2>3, <2>5, <3>1
  <2> QED BY <2>4, <2>5
<1>8. T = Nat
  <2>1. T \in SUBSET Nat
    OBVIOUS
  <2> HIDE DEF T
  <2> QED BY <1>6, <1>7, <2>1, Induction
<1>9. w[N] = old
  <2>1. N \in T
    BY <1>8
  <2> QED BY <1>4, <2>1
<1>10. ASSUME NEW t \in Counted(dirs) PROVE \E i \in DOMAIN w : w[i] = t
  <2>1. b - Gen(dirs, t) \in 0..N /\ b - Gen(dirs, t) \in Nat /\ b - Gen(dirs, t) <= b - a
    BY <1>3, <1>4
  <2> DEFINE k == b - Gen(dirs, t)
  <2>2. k \in T
    BY <1>8, <2>1
  <2>3. Gen(dirs, w[k]) = b - k
    BY <2>1, <2>2
  <2>4. Gen(dirs, w[k]) = Gen(dirs, t)
    BY <1>3, <1>4, <2>3
  <2> QED BY <1>1, <1>3, <2>1, <2>4
<1>11. {w[i] : i \in DOMAIN w} = Counted(dirs)
  BY <1>1, <1>10
<1> QED BY <1>9, <1>11 DEF w

\* Such a chain verifies when it is as long as it should be: no longer than
\* Keep, and that long, or with its beginning.
LEMMA Verifies ==
    ASSUME NEW old, NEW new, Whole(old, new), Skipped(Retained) = {},
           Gen(dirs, new) < Gen(dirs, old) + Keep,
           Gen(dirs, old) = 1 \/ Gen(dirs, old) + Keep - 1 <= Gen(dirs, new)
    PROVE  verify_chain(Retained, Keep) = {}
<1> DEFINE C == Counted(dirs)
           N == Cardinality(C)
           d == Retained[old]
           a == Gen(dirs, old)
           b == Gen(dirs, new)
<1>1. /\ Valid(Retained) = C /\ old \in C /\ new \in C
      /\ \A m, n \in C : Retained[m].gen = Retained[n].gen => m = n
      /\ \A n \in C : n # old => Retained[n].reset = "no"
      /\ Newest(Retained, C) = new /\ Oldest(Retained, C) = old
      /\ Retained[old].gen = a /\ Retained[new].gen = b
  <2>1. /\ Valid(Retained) = Counted(dirs)
        /\ \A n \in Counted(dirs) : Retained[n] = dirs[n].digest /\ Retained[n].gen = Gen(dirs, n)
        /\ \A m, n \in Counted(dirs) : Gen(dirs, m) = Gen(dirs, n) => m = n
        /\ Newest(Retained, Counted(dirs)) = new /\ Oldest(Retained, Counted(dirs)) = old
    BY WholeFacts
  <2>2. old \in Counted(dirs) /\ new \in Counted(dirs)
    BY DEF Whole
  <2>3. \A n \in Counted(dirs) : n # old => Retained[n].reset = "no"
    BY <2>1 DEF Whole, IsReset
  <2>4. \A m, n \in Counted(dirs) : Retained[m].gen = Retained[n].gen => m = n
    BY <2>1
  <2> QED BY <2>1, <2>2, <2>3, <2>4
<1>2. a \in Nat \ {0} /\ b \in Nat /\ N = b - a + 1 /\ N \in Nat /\ Keep \in Nat
  <2>1. a \in Nat \ {0} /\ b \in Nat \ {0} /\ N = b - a + 1
    BY WholeFacts DEF Whole
  <2>2. a <= b
    BY DEF Whole
  <2> QED BY <2>1, <2>2, BackupAssumption
<1>3. /\ Walk(Retained)[N] = old
      /\ {Walk(Retained)[i] : i \in DOMAIN Walk(Retained)} = C
  BY <1>2, WalkEnds
<1>4. ~ Links(Retained, old) /\ d.prev \notin C /\ d.rebased = NoName /\ d.reset \in {"no", "yes"}
  BY <1>1, WalkSteps
<1> HIDE DEF C, N, d, a, b
<1>5. WalkProblems(Retained) = {}
  <2>1. C \ C = {} /\ \A m \in {} : FALSE
    OBVIOUS
  <2>2. CASE d.reset # "no"
    BY <1>1, <1>3, <1>4, <2>1, <2>2 DEF WalkProblems, N, d
  <2>3. CASE d.reset = "no"
    BY <1>1, <1>3, <1>4, <2>1, <2>3 DEF WalkProblems, N, d
  <2> QED BY <2>2, <2>3
<1>6. CountProblems(Retained, Keep) = {}
  <2> DEFINE holds == {n \in C : Retained[n].reset # "no"}
  <2>1. CASE holds = {}
    <3> DEFINE due == IF b >= Keep THEN Keep ELSE b
    <3>1. CountProblems(Retained, Keep) = IF N # due THEN {"count"} ELSE {}
      BY <1>1, <2>1 DEF CountProblems, N
    <3>2. N = due
      BY <1>2 DEF a, b
    <3> QED BY <3>1, <3>2
  <2>2. CASE holds # {}
    <3> DEFINE since == (b - a) + 1
               due == IF since >= Keep THEN Keep ELSE since
    <3>1. holds = {old}
      BY <1>1, <2>2
    <3>2. Newest(Retained, {old}) = old
      BY DEF Newest
    <3>3. CountProblems(Retained, Keep) = IF N # due THEN {"count"} ELSE {}
      BY <1>1, <3>1, <3>2 DEF CountProblems, N
    <3>4. N = due
      BY <1>2 DEF a, b
    <3> QED BY <3>3, <3>4
  <2> QED BY <2>1, <2>2
<1>7. ~ Twins(Retained)
  BY <1>1 DEF Twins
<1>8. DOMAIN Retained # {} /\ Valid(Retained) # {}
  BY <1>1 DEF Valid
<1> QED BY <1>5, <1>6, <1>7, <1>8 DEF verify_chain

\* Once no directory is torn, a week of undisturbed runs brings the chain back
\* to one that verifies, for any retention and any history: what was killed
\* before may have left it too long, or with a reset inside.
THEOREM ChainsHeal == Spec => []ChainHeals
<1>1. BackupInv /\ HealInv => ChainHeals
  <2> SUFFICES ASSUME BackupInv, HealInv, pc = "off", quiet >= Keep - 1, quiet > 0, Skipped(Retained) = {}
               PROVE  verify_chain(Retained, Keep) = {}
    BY DEF ChainHeals
  <2>1. /\ \A m, n \in Counted(dirs) : Gen(dirs, m) < Gen(dirs, n) + Keep
        /\ \A n \in Counted(dirs) : IsReset(dirs, n) => Reaches(dirs, n, quiet)
        /\ \E n \in Counted(dirs) : Gen(dirs, n) = 1 \/ Reaches(dirs, n, Keep - 1) \/ Reaches(dirs, n, quiet)
    BY DEF HealInv, Healed
  <2>2. /\ \A s \in Counted(dirs) : Retained[s].gen = Gen(dirs, s) /\ Gen(dirs, s) \in Nat /\ Gen(dirs, s) <= Nights
        /\ Counted(dirs) \subseteq Stamps
    BY RetainedFacts DEF BackupInv
  <2>3. quiet \in Nat /\ Keep \in Nat /\ Nights \in Nat
    BY BackupAssumption, DirFacts DEF BackupInv
  <2>4. PICK old \in Counted(dirs) : \A m \in Counted(dirs) : Gen(dirs, old) <= Gen(dirs, m)
    <3> DEFINE x == Oldest(Retained, Counted(dirs))
    <3>1. x \in Counted(dirs) /\ \A m \in Counted(dirs) : Retained[x].gen <= Retained[m].gen
      BY <2>1, <2>2, ChosenOldest
    <3> HIDE DEF x
    <3> QED BY <2>2, <3>1
  <2>5. PICK new \in Counted(dirs) : \A m \in Counted(dirs) : Gen(dirs, m) <= Gen(dirs, new)
    <3> DEFINE x == Newest(Retained, Counted(dirs))
    <3>1. x \in Counted(dirs) /\ \A m \in Counted(dirs) : Retained[m].gen <= Retained[x].gen
      BY <2>1, <2>2, <2>3, ChosenNewest
    <3> HIDE DEF x
    <3> QED BY <2>2, <3>1
  <2>6. Gen(dirs, new) < Gen(dirs, old) + Keep
    BY <2>1
  <2>7. ASSUME NEW n \in Counted(dirs), Reaches(dirs, n, quiet) \/ Reaches(dirs, n, Keep - 1)
        PROVE  Gen(dirs, n) = Gen(dirs, old) /\ Gen(dirs, old) + Keep - 1 <= Gen(dirs, new)
    <3>1. PICK m \in Counted(dirs) : \/ Gen(dirs, n) + quiet <= Gen(dirs, m)
                                     \/ Gen(dirs, n) + (Keep - 1) <= Gen(dirs, m)
      BY <2>7 DEF Reaches
    <3>2. /\ Gen(dirs, m) <= Gen(dirs, new) /\ Gen(dirs, old) <= Gen(dirs, n)
          /\ Gen(dirs, m) \in Nat /\ Gen(dirs, n) \in Nat /\ Gen(dirs, old) \in Nat /\ Gen(dirs, new) \in Nat
      BY <2>2, <2>4, <2>5
    <3> QED BY <2>3, <2>6, <3>1, <3>2
  <2>8. Gen(dirs, old) = 1 \/ Gen(dirs, old) + Keep - 1 <= Gen(dirs, new)
    <3>1. PICK n \in Counted(dirs) : Gen(dirs, n) = 1 \/ Reaches(dirs, n, Keep - 1) \/ Reaches(dirs, n, quiet)
      BY <2>1
    <3>2. CASE Gen(dirs, n) = 1
      <4>1. Gen(dirs, old) \in Nat \ {0}
        BY DirFacts, BackupAssumption DEF BackupInv, Counted, Stamps
      <4> QED BY <2>4, <3>2, <4>1
    <3>3. CASE ~ (Gen(dirs, n) = 1)
      BY <2>7, <3>1, <3>3
    <3> QED BY <3>2, <3>3
  <2>9. Whole(old, new)
    <3>1. ASSUME NEW n \in Counted(dirs), IsReset(dirs, n) PROVE n = old
      <4>1. Gen(dirs, n) = Gen(dirs, old)
        BY <2>1, <2>7, <3>1
      <4>2. \A m, k \in Counted(dirs) : m < k => Gen(dirs, m) < Gen(dirs, k)
        BY DEF BackupInv, InOrder
      <4> QED BY <2>2, <4>1, <4>2, DirFacts DEF BackupInv
    <3> QED BY <2>4, <2>5, <3>1 DEF Whole, HealInv
  <2> QED BY <2>6, <2>8, <2>9, Verifies
<1> QED BY <1>1, HealInvHolds, BackupInvHolds, PTL

-----------------------------------------------------------------------------
(* The gate.                                                                 *)

\* A snapshot that passes by itself.
Sound(d) == leg0(d) /\ leg1(d) /\ leg2(d) /\ leg3(d, Absent) /\ leg4(d, Absent)

Baselines(d) == {Sidecars(d)} \union Losses(Sidecars(d))

\* The baseline is that of the last snapshot, or has lost one part.
GateInv ==
    \/ tip = Absent /\ last = Absent
    \/ last \in Snapshots /\ Sound(last) /\ tip \in Baselines(last)

LEMMA SidecarFacts ==
    ASSUME NEW d
    PROVE  /\ Sidecars(d).census = leg3_census(d) /\ Sidecars(d).census_sha = leg3_census(d)
           /\ Sidecars(d).fingerprint = d.schema /\ Sidecars(d).torn = FALSE
           /\ Sidecars(d).tables = [t \in Chains |-> leg4_table(d, t)]
           /\ Sidecars(d).marks = leg4_marks(d)
BY DEF Sidecars

\* No baseline that has lost a part is compared with and found good.
LEMMA LossesShow ==
    ASSUME NEW d, NEW p \in Losses(Sidecars(d))
    PROVE  \/ p.torn
           \/ ~ validate_baseline(p)
           \/ \E k \in Keys : p = [Sidecars(d) EXCEPT !.marks[k] = Malformed]
<1> DEFINE c == Sidecars(d)
<1>0. c = [census |-> leg3_census(d), census_sha |-> leg3_census(d), fingerprint |-> d.schema,
           tables |-> [t \in Chains |-> leg4_table(d, t)], marks |-> leg4_marks(d), torn |-> FALSE]
  BY DEF Sidecars
<1>1. CASE \E t \in DOMAIN c.census : p = [c EXCEPT !.census = [s \in DOMAIN c.census \ {t} |-> c.census[s]]]
  <2>1. PICK t \in DOMAIN c.census : p = [c EXCEPT !.census = [s \in DOMAIN c.census \ {t} |-> c.census[s]]]
    BY <1>1
  <2> DEFINE rest == [s \in DOMAIN c.census \ {t} |-> c.census[s]]
  <2>2. p = [c EXCEPT !.census = rest] /\ DOMAIN rest = DOMAIN c.census \ {t}
    BY <2>1
  <2>3. rest # c.census
    BY <2>2
  <2> HIDE DEF rest
  <2>4. p.census = rest /\ p.census_sha = c.census
    BY <1>0, <2>2
  <2> QED BY <2>3, <2>4 DEF validate_baseline
<1>2. CASE \E t \in Chains : p = [c EXCEPT !.tables[t] = Absent]
  <2>1. PICK t \in Chains : p = [c EXCEPT !.tables[t] = Absent]
    BY <1>2
  <2>2. p.tables[t] = Absent
    BY <1>0, <2>1
  <2> QED BY <2>2 DEF validate_baseline
<1>3. CASE \E k \in Keys, m \in {Absent, Malformed} : p = [c EXCEPT !.marks[k] = m]
  <2>1. PICK k \in Keys, m \in {Absent, Malformed} : p = [c EXCEPT !.marks[k] = m]
    BY <1>3
  <2>2. DOMAIN c.marks = Keys
    BY <1>0 DEF leg4_marks
  <2>3. p.marks[k] = m
    BY <1>0, <2>1, <2>2
  <2>4. m = Absent => ~ validate_baseline(p)
    BY <2>3 DEF validate_baseline
  <2> QED BY <2>1, <2>4 DEF c
<1>4. CASE p = [c EXCEPT !.fingerprint = Absent]
  <2>1. p.fingerprint = Absent
    BY <1>0, <1>4
  <2> QED BY <2>1 DEF validate_baseline
<1>5. CASE p = [c EXCEPT !.torn = TRUE]
  BY <1>0, <1>5
<1> DEFINE A == {[c EXCEPT !.census = [s \in DOMAIN c.census \ {t} |-> c.census[s]]] : t \in DOMAIN c.census}
           B == {[c EXCEPT !.tables[t] = Absent] : t \in Chains}
           M == {[c EXCEPT !.marks[k] = m] : k \in Keys, m \in {Absent, Malformed}}
           F == {[c EXCEPT !.fingerprint = Absent], [c EXCEPT !.torn = TRUE]}
<1>6. Losses(c) = A \union B \union M \union F
  BY DEF Losses
<1> HIDE DEF c
<1>7. p \in A => \E t \in DOMAIN c.census :
                    p = [c EXCEPT !.census = [s \in DOMAIN c.census \ {t} |-> c.census[s]]]
  OBVIOUS
<1>8. p \in B => \E t \in Chains : p = [c EXCEPT !.tables[t] = Absent]
  OBVIOUS
<1>9. p \in M => \E k \in Keys, m \in {Absent, Malformed} : p = [c EXCEPT !.marks[k] = m]
  OBVIOUS
<1>10. p \in F => p = [c EXCEPT !.fingerprint = Absent] \/ p = [c EXCEPT !.torn = TRUE]
  OBVIOUS
<1> HIDE DEF A, B, M, F
<1>11. p \in A \/ p \in B \/ p \in M \/ p \in F
  BY <1>6 DEF c
<1> QED BY <1>1, <1>2, <1>3, <1>4, <1>5, <1>7, <1>8, <1>9, <1>10, <1>11

\* Where nothing is missing the comparison passes over nothing.
LEMMA Comparable ==
    ASSUME NEW d, NEW p, validate_baseline(p),
           \/ p = Sidecars(d)
           \/ \E k \in Keys : p = [Sidecars(d) EXCEPT !.marks[k] = Malformed]
    PROVE  Lenient(p) = p
<1> DEFINE none == [max_id |-> 0, count |-> 0, prefix_digest |-> [i \in {} |-> 0]]
           tables == [t \in Chains |-> IF p.tables[t] # Absent THEN p.tables[t] ELSE none]
           marks == [k \in Keys |-> IF p.marks[k] = Absent THEN 0 ELSE p.marks[k]]
<1>1. Lenient(p) = [p EXCEPT !.tables = tables, !.marks = marks]
  BY DEF Lenient
<1>2. /\ p = [census |-> p.census, census_sha |-> p.census_sha, fingerprint |-> p.fingerprint,
              tables |-> p.tables, marks |-> p.marks, torn |-> p.torn]
      /\ p.tables = [t \in Chains |-> p.tables[t]] /\ p.marks = [k \in Keys |-> p.marks[k]]
  <2>1. CASE p = Sidecars(d)
    BY <2>1 DEF Sidecars, leg4_marks
  <2>2. CASE \E k \in Keys : p = [Sidecars(d) EXCEPT !.marks[k] = Malformed]
    BY <2>2 DEF Sidecars, leg4_marks
  <2> QED BY <2>1, <2>2
<1>3. tables = p.tables
  BY <1>2 DEF validate_baseline
<1>4. marks = p.marks
  BY <1>2 DEF validate_baseline
<1> HIDE DEF tables, marks
<1> QED BY <1>1, <1>2, <1>3, <1>4

\* A finite set of numbers has a greatest one, which Max picks.
LEMMA MaxOf ==
    ASSUME NEW T \in SUBSET Nat, IsFiniteSet(T), T # {}
    PROVE  Max(T) \in T /\ \A n \in T : n <= Max(T)
<1> DEFINE From(k) == {n \in T : n >= k}
           F == {From(k) : k \in T}
<1>1. \A k \in T : From(k) \in FiniteSubsetsOf(Nat)
  BY FS_Subset DEF FiniteSubsetsOf
<1>2. F \subseteq FiniteSubsetsOf(Nat) /\ F # {}
  BY <1>1
<1> HIDE DEF F
<1>3. PICK s \in F : \A t \in F : ~ (<<t, s>> \in StrictSubsetOrdering(Nat))
  BY <1>2, FS_StrictSubsetOrderingWellFounded, WFMin, Zenon
<1>4. PICK k \in T : s = From(k)
  BY <1>3 DEF F
<1>5. ASSUME NEW n \in T, ~ (k >= n) PROVE FALSE
  <2>1. From(n) \in F
    BY DEF F
  <2>4. n \in Nat /\ k \in Nat /\ k < n
    BY <1>5
  <2>2. From(k) \subseteq Nat /\ From(n) \subseteq Nat
    OBVIOUS
  <2>6. k \in From(k)
    BY <2>4
  <2>7. k \notin From(n)
    BY <2>4
  <2>5. From(n) \subseteq From(k)
    <3>1. \A m \in T : m \in Nat /\ (m >= n => m >= k)
      BY <2>4
    <3> QED BY <3>1
  <2> HIDE DEF From
  <2>3. <<From(n), From(k)>> \in StrictSubsetOrdering(Nat)
    BY <2>2, <2>5, <2>6, <2>7 DEF StrictSubsetOrdering
  <2> QED BY <1>3, <1>4, <2>1, <2>3
<1>6. Max(T) \in T /\ \A n \in T : Max(T) >= n
  BY <1>5, Zenon DEF Max
<1> QED BY <1>6

\* Ids and counts of a table.
LEMMA TableFacts ==
    ASSUME NEW d \in Snapshots, NEW t \in Tables(d)
    PROVE  /\ Count(d, t) \in Nat /\ MaxId(d, t) \in Nat
           /\ \A i \in DOMAIN d.rows[t] : i \in Nat /\ 1 <= i /\ i <= MaxId(d, t)
           /\ Count(d, t) = MaxId(d, t) => DOMAIN d.rows[t] = 1..Count(d, t)
<1> DEFINE ids == DOMAIN d.rows[t]
<1>1. IsFiniteSet(ids) /\ ids \subseteq Nat \ {0}
  BY SnapshotsAssumption
<1>2. Count(d, t) = Cardinality(ids) /\ MaxId(d, t) = IF ids = {} THEN 0 ELSE Max(ids)
  BY DEF Count, MaxId
<1> HIDE DEF ids
<1>3. Cardinality(ids) \in Nat
  BY <1>1, FS_CardinalityType
<1>4. MaxId(d, t) \in Nat /\ \A i \in ids : i \in Nat /\ 1 <= i /\ i <= MaxId(d, t)
  <2>1. CASE ids = {}
    BY <1>2, <2>1
  <2>2. CASE ids # {}
    <3>1. Max(ids) \in ids /\ \A n \in ids : n <= Max(ids)
      BY <1>1, <2>2, MaxOf
    <3>2. MaxId(d, t) = Max(ids)
      BY <1>2, <2>2
    <3>3. Max(ids) \in Nat
      BY <1>1, <3>1
    <3> QED BY <1>1, <3>1, <3>2, <3>3
  <2> QED BY <2>1, <2>2
<1>5. ASSUME Count(d, t) = MaxId(d, t) PROVE ids = 1..Count(d, t)
  <2> DEFINE n == Count(d, t)
  <2>1. n \in Nat /\ n = Cardinality(ids) /\ ids \subseteq 1..n
    BY <1>2, <1>3, <1>4, <1>5
  <2> HIDE DEF n
  <2>2. IsFiniteSet(1..n) /\ Cardinality(1..n) = n
    BY <2>1, FS_Interval
  <2>3. 1..n = ids
    BY <2>1, <2>2, FS_Subset
  <2> QED BY <2>3 DEF n
<1> QED BY <1>2, <1>3, <1>4, <1>5 DEF ids

\* What passes the legs with a baseline passes them by itself.
LEMMA Passes ==
    ASSUME NEW d, NEW rebaseline, NEW named, gate(d, rebaseline, named) = 0
    PROVE  /\ Sound(d) /\ leg3(d, prev_of(rebaseline)) /\ leg4(d, prev_of(rebaseline))
           /\ ~ baseline_error(rebaseline)
<1>1. /\ leg0(d) /\ leg1(d) /\ leg2(d) /\ ~ baseline_error(rebaseline)
      /\ leg3(d, prev_of(rebaseline)) /\ leg4(d, prev_of(rebaseline))
  BY DEF gate
<1>2. leg3(d, Absent) /\ leg4(d, Absent)
  BY <1>1 DEF leg3, leg4
<1> QED BY <1>1, <1>2 DEF Sound

LEMMA SoundFacts ==
    ASSUME NEW d \in Snapshots, Sound(d)
    PROVE  /\ Chains \subseteq Tables(d) /\ \A t \in Required : Readable(d, t)
           /\ \A t \in Tables(d) \ {Exempt} : leg3_census(d)[t] = Count(d, t) /\ Count(d, t) \in Nat
           /\ DOMAIN leg3_census(d) = Tables(d)
           /\ \A t \in Chains : Count(d, t) = MaxId(d, t)
           /\ \A k \in Keys : leg4_marks(d)[k] = d.marks[k] /\ d.marks[k] \in Nat
<1>1. \A t \in Required : Readable(d, t)
  BY DEF Sound, leg3
<1>2. Chains \subseteq Tables(d)
  BY <1>1, GateAssumption DEF Readable
<1>3. /\ DOMAIN leg3_census(d) = Tables(d)
      /\ \A t \in Tables(d) : leg3_census(d)[t] = IF t = Exempt THEN "EXEMPT"
                                 ELSE IF t \in d.torn THEN ReadFailed ELSE Count(d, t)
  BY DEF leg3_census
<1>4. \A t \in Tables(d) : leg3_census(d)[t] # ReadFailed
  BY <1>3 DEF Sound, leg3
<1>5. \A t \in Tables(d) \ {Exempt} : leg3_census(d)[t] = Count(d, t) /\ Count(d, t) \in Nat
  BY <1>3, <1>4, TableFacts
<1>6. \A k \in Keys : leg4_marks(d)[k] \in Nat
  BY DEF Sound, leg4
<1>7. \A k \in Keys : leg4_marks(d)[k] = IF Readable(d, "meta") THEN d.marks[k] ELSE Absent
  BY DEF leg4_marks
<1>8. \A k \in Keys : leg4_marks(d)[k] = d.marks[k] /\ d.marks[k] \in Nat
  BY <1>6, <1>7, GateAssumption
<1> QED BY <1>1, <1>2, <1>3, <1>5, <1>8 DEF Sound, leg4

\* The baseline of the gate is that of the last snapshot, or has lost one part.
THEOREM GateInvHolds == GateSpec => []GateInv
<1>1. GateInit => GateInv
  BY DEF GateInit, GateInv
<1>2. GateInv /\ [GateNext]_gateVars => GateInv'
  <2> SUFFICES ASSUME GateInv, [GateNext]_gateVars PROVE GateInv'
    OBVIOUS
  <2>1. CASE Tear
    BY <2>1 DEF Tear, GateInv, Baselines
  <2>2. ASSUME NEW d \in Snapshots, Night(d) PROVE GateInv'
    <3>1. PICK rebaseline \in BOOLEAN, named \in BOOLEAN :
            /\ rc' = gate(d, rebaseline, named)
            /\ IF rc' = 0 THEN tip' = Sidecars(d) /\ last' = d ELSE UNCHANGED <<tip, last>>
      BY <2>2 DEF Night
    <3>2. CASE rc' = 0
      <4>1. Sound(d) /\ last' = d /\ tip' = Sidecars(d)
        BY <3>1, <3>2, Passes
      <4>2. last' \in Snapshots /\ Sound(last') /\ tip' \in Baselines(last')
        BY <4>1 DEF Baselines
      <4> QED BY <4>2 DEF GateInv
    <3>3. CASE rc' # 0
      BY <3>1, <3>3 DEF GateInv
    <3> QED BY <3>2, <3>3
  <2>3. CASE UNCHANGED gateVars
    BY <2>3 DEF gateVars, GateInv
  <2> QED BY <2>1, <2>2, <2>3 DEF GateNext
<1> QED BY <1>1, <1>2, PTL DEF GateSpec

\* Every database continues itself.
LEMMA ContinuesItself ==
    ASSUME NEW d \in Snapshots, Sound(d)
    PROVE  ContinuesOf(d, d)
<1>1. \A t \in Tables(d) \ {Exempt} : Count(d, t) >= Count(d, t)
  BY SoundFacts
<1>2. \A k \in Keys : d.marks[k] >= d.marks[k]
  BY SoundFacts
<1> QED BY <1>1, <1>2 DEF ContinuesOf

RowsStay(c, d, t) ==
    \A i \in DOMAIN c.rows[t] : /\ i \in DOMAIN d.rows[t]
                                /\ d.rows[t][i].key = c.rows[t][i].key
                                /\ t \notin Mutable => d.rows[t][i] = c.rows[t][i]

\* Leg 4 sees each row that the baseline was made of.
LEMMA ChainsContinue ==
    ASSUME NEW c \in Snapshots, Sound(c), NEW d, NEW t \in Chains,
           prefix_digest(d, t, MaxId(c, t)) = prefix_digest(c, t, MaxId(c, t))
    PROVE  RowsStay(c, d, t)
<1> DEFINE max == MaxId(c, t)
           cids == {i \in DOMAIN c.rows[t] : i <= max}
           dids == {i \in DOMAIN d.rows[t] : i <= max}
<1>1. /\ prefix_digest(c, t, max) = [i \in cids |-> IF t \in Mutable THEN c.rows[t][i].key ELSE c.rows[t][i]]
      /\ prefix_digest(d, t, max) = [i \in dids |-> IF t \in Mutable THEN d.rows[t][i].key ELSE d.rows[t][i]]
  BY DEF prefix_digest
<1>2. DOMAIN c.rows[t] = cids
  BY SoundFacts, TableFacts
<1>3. dids \subseteq DOMAIN d.rows[t]
  OBVIOUS
<1> HIDE DEF max, cids, dids
<1>4. cids = dids
  <2>1. DOMAIN prefix_digest(c, t, max) = cids /\ DOMAIN prefix_digest(d, t, max) = dids
    BY <1>1
  <2> QED BY <2>1 DEF max
<1>5. ASSUME NEW i \in cids
      PROVE  /\ d.rows[t][i].key = c.rows[t][i].key
             /\ t \notin Mutable => d.rows[t][i] = c.rows[t][i]
  <2>1. prefix_digest(c, t, max)[i] = prefix_digest(d, t, max)[i]
    BY DEF max
  <2>2. CASE t \in Mutable
    BY <1>1, <1>4, <2>1, <2>2
  <2>3. CASE t \notin Mutable
    BY <1>1, <1>4, <2>1, <2>3
  <2> QED BY <2>2, <2>3
<1> QED BY <1>2, <1>3, <1>4, <1>5 DEF RowsStay

\* What is published continues what was published before, whatever became of the
\* baseline in between, unless a person asked to rebaseline.
THEOREM PublicationsContinueTheLast == GateSpec => PublishedContinues
<1> DEFINE Continued == rc' = 0 /\ ~asked' /\ last # Absent => ContinuesOf(last, last')
<1>1. GateInv /\ [GateNext]_gateVars => [Continued]_gateVars
  <2> SUFFICES ASSUME GateInv, GateNext, rc' = 0, ~asked', last # Absent PROVE ContinuesOf(last, last')
    OBVIOUS
  <2>1. last \in Snapshots /\ Sound(last) /\ tip \in Baselines(last)
    BY DEF GateInv
  <2>2. CASE Tear
    BY <2>1, <2>2, ContinuesItself DEF Tear
  <2>3. ASSUME NEW d \in Snapshots, Night(d) PROVE ContinuesOf(last, last')
    <3>0. PICK rebaseline \in BOOLEAN, named \in BOOLEAN : asked' = rebaseline /\ rc' = gate(d, rebaseline, named)
      BY <2>3 DEF Night
    <3>1. gate(d, FALSE, named) = 0
      <4>1. rebaseline = FALSE
        BY <3>0
      <4> QED BY <3>0, <4>1
    <3>2. last' = d
      BY <2>3 DEF Night
    <3>3. /\ Sound(d) /\ leg3(d, prev_of(FALSE)) /\ leg4(d, prev_of(FALSE))
          /\ ~ baseline_error(FALSE)
      BY <3>1, Passes
    <3>4. Chains \subseteq Tables(last)
      BY <2>1, SoundFacts
    <3>5. tip # Absent
      BY <2>1, <3>4, SnapshotsAssumption DEF Baselines
    <3>6. validate_baseline(tip) /\ ~ tip.torn /\ prev_of(FALSE) = Lenient(tip)
      BY <3>3, <3>5 DEF baseline_error, TipUnreadable, prev_of
    <3>7. tip = Sidecars(last) \/ \E k \in Keys : tip = [Sidecars(last) EXCEPT !.marks[k] = Malformed]
      BY <2>1, <3>6, LossesShow DEF Baselines
    <3>8. prev_of(FALSE) = tip
      BY <3>6, <3>7, Comparable
    <3>9. leg3_compare(leg3_census(d), tip.census) /\ d.schema = tip.fingerprint /\ leg4_compare(d, tip)
      BY <3>3, <3>5, <3>8 DEF leg3, leg4
    <3>10. tip = Sidecars(last)
      <4>1. ASSUME NEW k \in Keys, tip = [Sidecars(last) EXCEPT !.marks[k] = Malformed] PROVE FALSE
        <5>1. tip.marks[k] = Malformed
          BY <4>1 DEF Sidecars, leg4_marks
        <5> QED BY <3>9, <5>1, GateAssumption DEF leg4_compare
      <4> QED BY <3>7, <4>1
    <3> DEFINE c == last
    <3>11. /\ tip.census = leg3_census(c) /\ tip.fingerprint = c.schema
           /\ tip.tables = [t \in Chains |-> leg4_table(c, t)] /\ tip.marks = leg4_marks(c)
      BY <3>10, SidecarFacts
    <3>12. c.schema = d.schema
      BY <3>9, <3>11
    <3>13. ASSUME NEW t \in Tables(c) \ {Exempt} PROVE t \in Tables(d) /\ Count(d, t) >= Count(c, t)
      <4>1. /\ t \in DOMAIN leg3_census(c) /\ leg3_census(c)[t] = Count(c, t)
        BY <2>1, <3>13, SoundFacts
      <4>2. t \in DOMAIN leg3_census(d) /\ leg3_census(d)[t] >= Count(c, t)
        BY <3>9, <3>11, <3>13, <4>1 DEF leg3_compare
      <4>3. t \in Tables(d) /\ leg3_census(d)[t] = Count(d, t)
        BY <2>3, <3>3, <3>13, <4>2, SoundFacts
      <4> QED BY <4>2, <4>3
    <3>14. ASSUME NEW t \in Chains
           PROVE  prefix_digest(d, t, MaxId(c, t)) = prefix_digest(c, t, MaxId(c, t))
      <4>1. /\ tip.tables[t].max_id = MaxId(c, t)
            /\ tip.tables[t].prefix_digest = prefix_digest(c, t, MaxId(c, t))
        BY <3>11 DEF leg4_table
      <4> QED BY <3>9, <4>1 DEF leg4_compare
    <3>15. ASSUME NEW k \in Keys PROVE d.marks[k] >= c.marks[k]
      <4>1. leg4_marks(d)[k] >= leg4_marks(c)[k]
        BY <3>9, <3>11 DEF leg4_compare
      <4>2. leg4_marks(d)[k] = d.marks[k] /\ leg4_marks(c)[k] = c.marks[k]
        BY <2>1, <2>3, <3>3, SoundFacts
      <4> QED BY <4>1, <4>2
    <3>16. ASSUME NEW t \in Chains PROVE RowsStay(c, d, t)
      BY <2>1, <3>14, ChainsContinue
    <3> HIDE DEF c
    <3>17. ContinuesOf(c, d)
      <4>1. \A t \in Tables(c) \ {Exempt} : t \in Tables(d) /\ Count(d, t) >= Count(c, t)
        BY <3>13
      <4>2. \A k \in Keys : d.marks[k] >= c.marks[k]
        BY <3>15
      <4>3. \A t \in Chains : RowsStay(c, d, t)
        BY <3>16
      <4> QED BY <3>12, <4>1, <4>2, <4>3 DEF ContinuesOf, RowsStay
    <3> QED BY <3>2, <3>17 DEF c
  <2> QED BY <2>2, <2>3 DEF GateNext
<1>2. [][Continued]_gateVars => PublishedContinues
  BY PTL DEF PublishedContinues
<1> QED BY <1>1, <1>2, GateInvHolds, PTL DEF GateSpec

\* What is published can be the next night's baseline.
THEOREM BaselinesServe == GateSpec => []PublishedIsABaseline
<1>1. ASSUME GateInv PROVE PublishedIsABaseline
  <2> SUFFICES ASSUME last # Absent
               PROVE  /\ tip = Sidecars(last) => gate(last, FALSE, FALSE) = 0
                      /\ \A t \in Required : Readable(last, t)
                      /\ \A t \in Chains : DOMAIN last.rows[t] = 1..Count(last, t)
                      /\ \A k \in Keys : last.marks[k] \in Nat
                      /\ last.split = {}
                      /\ last.check.out = <<"ok">> \/ last.check.err = "malformed"
    BY DEF PublishedIsABaseline
  <2>1. last \in Snapshots /\ Sound(last)
    BY <1>1 DEF GateInv
  <2>2. /\ \A t \in Required : Readable(last, t)
        /\ \A k \in Keys : last.marks[k] \in Nat
    BY <2>1, SoundFacts
  <2>3. \A t \in Chains : DOMAIN last.rows[t] = 1..Count(last, t)
    BY <2>1, SoundFacts, TableFacts
  <2>4. last.split = {}
    BY <2>1, SnapshotsAssumption DEF Sound, leg2
  <2>5. last.check.out = <<"ok">> \/ last.check.err = "malformed"
    BY <2>1 DEF Sound, leg1, classify_integrity
  <2>6. ASSUME tip = Sidecars(last) PROVE gate(last, FALSE, FALSE) = 0
    <3>1. /\ tip.census = leg3_census(last) /\ tip.census_sha = leg3_census(last)
          /\ tip.fingerprint = last.schema /\ tip.torn = FALSE
          /\ tip.tables = [t \in Chains |-> leg4_table(last, t)] /\ tip.marks = leg4_marks(last)
      BY <2>6, SidecarFacts
    <3>2. /\ Chains \subseteq Tables(last) /\ tip # Absent /\ last.schema # Absent
          /\ \A t \in Chains : leg4_table(last, t) # Absent
      BY <2>1, <2>6, SoundFacts, SnapshotsAssumption
    <3>3. \A k \in Keys : tip.marks[k] \in Nat /\ tip.marks[k] # Absent
      BY <2>1, <3>1, SoundFacts, GateAssumption
    <3>4. validate_baseline(tip)
      BY <3>1, <3>2, <3>3 DEF validate_baseline
    <3>5. ~ TipUnreadable /\ ~ baseline_error(FALSE) /\ prev_of(FALSE) = tip
      BY <2>6, <3>1, <3>2, <3>4, Comparable DEF TipUnreadable, baseline_error, prev_of
    <3>6. leg3(last, tip)
      <4>1. \A t \in DOMAIN leg3_census(last) \ {Exempt} : leg3_census(last)[t] \in Nat
        BY <2>1, SoundFacts
      <4>2. leg3_compare(leg3_census(last), leg3_census(last))
        BY <4>1 DEF leg3_compare
      <4> QED BY <2>1, <3>1, <4>2 DEF Sound, leg3
    <3>7. leg4(last, tip)
      <4>1. ASSUME NEW t \in Chains
            PROVE  LET p == tip.tables[t]
                   IN  /\ MaxId(last, t) >= p.max_id /\ Count(last, t) >= p.count
                       /\ prefix_digest(last, t, p.max_id) = p.prefix_digest
        <5>1. /\ tip.tables[t].max_id = MaxId(last, t) /\ tip.tables[t].count = Count(last, t)
              /\ tip.tables[t].prefix_digest = prefix_digest(last, t, MaxId(last, t))
          BY <3>1 DEF leg4_table
        <5>2. MaxId(last, t) \in Nat /\ Count(last, t) \in Nat
          BY <2>1, <3>2, TableFacts
        <5> QED BY <5>1, <5>2
      <4>2. \A k \in Keys : tip.marks[k] \in Nat /\ leg4_marks(last)[k] >= tip.marks[k]
        BY <3>1, <3>3
      <4>3. leg4_compare(last, tip)
        BY <4>1, <4>2 DEF leg4_compare
      <4> QED BY <2>1, <4>3 DEF Sound, leg4
    <3> QED BY <2>1, <3>5, <3>6, <3>7 DEF gate, Sound
  <2> QED BY <2>2, <2>3, <2>4, <2>5, <2>6
<1> QED BY <1>1, GateInvHolds, PTL

-----------------------------------------------------------------------------
(* Beginnings of sequences.                                                  *)

\* The beginning of a sequence, said of its elements.
LEMMA PrefixByElements ==
    ASSUME NEW S, NEW s \in Seq(S), NEW t \in Seq(S)
    PROVE  IsPrefix(s, t) <=> Len(s) <= Len(t) /\ \A i \in 1..Len(s) : s[i] = t[i]
<1>1. Len(s) \in Nat /\ Len(t) \in Nat
  BY LenProperties
<1>2. SubSeq(s, 1, Len(s)) = s
  BY SubSeqFull
<1>3. ASSUME Len(s) <= Len(t)
      PROVE  (s = SubSeq(t, 1, Len(s))) <=> \A i \in 1..Len(s) : s[i] = t[i]
  <2> DEFINE b == SubSeq(t, 1, Len(s))
  <2>1. \A i \in 1..Len(s) : t[i] \in S
    BY <1>1, <1>3, ElementOfSeq
  <2>2. /\ b \in Seq(S) /\ Len(b) = IF 1 <= Len(s) THEN Len(s) - 1 + 1 ELSE 0
        /\ \A i \in 1..(Len(s) - 1 + 1) : b[i] = t[1 + i - 1]
    BY <1>1, <2>1, SubSeqProperties
  <2> HIDE DEF b
  <2>3. Len(b) = Len(s) /\ \A i \in 1..Len(s) : b[i] = t[i]
    BY <1>1, <2>2
  <2>4. (\A i \in 1..Len(s) : s[i] = t[i]) => s = b
    BY <2>2, <2>3, SeqEqual
  <2> QED BY <2>3, <2>4 DEF b
<1> QED BY <1>2, <1>3 DEF IsPrefix

LEMMA PrefixFacts ==
    ASSUME NEW S, NEW s \in Seq(S), NEW t \in Seq(S), NEW u \in Seq(S)
    PROVE  /\ IsPrefix(s, s) /\ IsPrefix(s, s \o t)
           /\ IsPrefix(s, t) /\ IsPrefix(t, u) => IsPrefix(s, u)
<1>1. Len(s) \in Nat /\ Len(t) \in Nat /\ Len(u) \in Nat
  BY LenProperties
<1>2. /\ s \o t \in Seq(S) /\ Len(s \o t) = Len(s) + Len(t)
      /\ \A i \in 1..Len(s) : (s \o t)[i] = s[i]
  BY <1>1, ConcatProperties
<1>3. IsPrefix(s, s)
  BY <1>1, PrefixByElements
<1>4. IsPrefix(s, s \o t)
  <2>1. Len(s) <= Len(s \o t)
    BY <1>1, <1>2
  <2> QED BY <1>2, <2>1, PrefixByElements
<1>5. IsPrefix(s, t) /\ IsPrefix(t, u) => IsPrefix(s, u)
  <2> SUFFICES ASSUME IsPrefix(s, t), IsPrefix(t, u) PROVE IsPrefix(s, u)
    OBVIOUS
  <2>1. Len(s) <= Len(t) /\ \A i \in 1..Len(s) : s[i] = t[i]
    BY PrefixByElements
  <2>2. Len(t) <= Len(u) /\ \A i \in 1..Len(t) : t[i] = u[i]
    BY PrefixByElements
  <2>3. Len(s) <= Len(u) /\ \A i \in 1..Len(s) : s[i] = u[i]
    BY <1>1, <2>1, <2>2
  <2> QED BY <2>3, PrefixByElements
<1> QED BY <1>3, <1>4, <1>5

\* What rsync --append makes of a file and of what the NAS has of it: the old
\* file goes on, and if it was the beginning of the new one it becomes the new one.
LEMMA AppendedFacts ==
    ASSUME NEW S, NEW old \in Seq(S), NEW new \in Seq(S), Exists(old), Len(old) < Len(new)
    PROVE  /\ Appended(old, new) \in Seq(S) /\ IsPrefix(old, Appended(old, new))
           /\ IsPrefix(old, new) => Appended(old, new) = new
<1>1. Len(old) \in Nat /\ Len(new) \in Nat
  BY LenProperties
<1> DEFINE rest == SubSeq(new, Len(old) + 1, Len(new))
<1>2. rest \in Seq(S)
  <2>1. \A i \in (Len(old) + 1)..Len(new) : new[i] \in S
    BY <1>1, ElementOfSeq
  <2>2. Len(old) + 1 \in Int /\ Len(new) \in Int
    BY <1>1
  <2> QED BY <2>1, <2>2, SubSeqProperties
<1>3. Appended(old, new) = old \o rest
  BY DEF Appended
<1>4. IsPrefix(old, new) => old \o rest = new
  <2> SUFFICES ASSUME IsPrefix(old, new) PROVE old \o rest = new
    OBVIOUS
  <2>1. old = SubSeq(new, 1, Len(old))
    BY SubSeqFull DEF IsPrefix
  <2>2. SubSeq(new, 1, Len(old)) \o rest = SubSeq(new, 1, Len(new))
    <3>1. 1 \in 1..(Len(new) + 1) /\ Len(old) \in (1 - 1)..Len(new) /\ Len(new) \in Len(old)..Len(new)
      BY <1>1
    <3> QED BY <3>1, ConcatAdjacentSubSeq
  <2> QED BY <2>1, <2>2, SubSeqFull
<1> HIDE DEF rest
<1> QED BY <1>2, <1>3, <1>4, PrefixFacts, ConcatProperties

-----------------------------------------------------------------------------
(* The sessions channel.                                                     *)

SessionsTyped ==
    /\ src \in [Files -> Contents \union {NoFile}] /\ nas \in [Files -> Anything \union {NoFile}]
    /\ table = NoFile \/ table \in [Files -> Records \union {NoFile}]
    /\ stage \in {"off", "check", "rsync", "gate", "publish"}
    /\ quarantine \subseteq Files /\ exclude \subseteq Files /\ pending \subseteq Files
    /\ transferred \subseteq Files /\ sent \subseteq Files
    /\ published \in [Files -> Anything \union {NoFile}]
    /\ ever \in [Files -> SUBSET Contents]
    /\ {adopt, fail, blind, hurt} \subseteq BOOLEAN

\* What f is recorded with is what the NAS has of it, if it has it at all.
Recorded(f) == Exists(nas[f]) => Rec(f) # NoFile /\ Rec(f).content = nas[f]

\* In a run that nothing disturbs a transferred file is as its source; any other
\* is as recorded, and what is still to be sent continues what is recorded.
Undisturbed ==
    \A f \in Files :
        /\ stage = "rsync" /\ f \in transferred => Exists(nas[f]) /\ nas[f] = src[f]
        /\ stage # "rsync" \/ f \notin transferred => Recorded(f)
        /\ stage = "rsync" /\ f \in pending \ exclude => Continues(f)

\* What a run has transferred is on the NAS, and counts as sent.
Transfers ==
    /\ stage = "rsync" => pending \cap transferred = {}
    /\ stage = "rsync" => \A f \in transferred : Exists(nas[f])
    /\ stage = "check" => transferred = {}
    /\ stage # "off" => transferred \subseteq sent
    /\ stage = "publish" => table # NoFile /\ tsv = table

\* The records of what was not sent since go on from what was published.
RecordsContinue ==
    \A f \in Files \ sent :
        Exists(published[f]) => Rec(f) # NoFile /\ IsPrefix(published[f], Rec(f).content)

SessionsInv ==
    /\ SessionsTyped /\ Transfers /\ RecordsContinue
    /\ \A f \in Files : Exists(src[f]) => src[f] \in ever[f]
    /\ ~blind => Undisturbed
    /\ PoolHoldsNoMixture /\ TableFollowsPool

LEMMA Values ==
    /\ Contents \subseteq Anything /\ NoFile \notin Anything /\ NoFile \notin Records
    /\ NoFile \notin [Files -> Records \union {NoFile}]
    /\ \A c \in Contents : Exists(c)
    /\ \A c \in Anything : Exists(c)
    /\ \A c \in Anything, b \in BOOLEAN : Record(c, b) \in Records /\ Record(c, b).content = c
<1>1. \A c \in Contents : c \in Anything
  BY SessionsAssumption, SeqMonotonic DEF Anything
<1> QED BY <1>1, SessionsAssumption DEF Exists, Record, Records

LEMMA RecTyped ==
    ASSUME SessionsTyped, NEW f \in Files
    PROVE  Rec(f) # NoFile => Rec(f) \in Records /\ Rec(f).content \in Anything
BY DEF SessionsTyped, Rec, Records

LEMMA SessionsStart == SessionsInit => SessionsInv
BY DEF SessionsInit, SessionsInv, SessionsTyped, Transfers, RecordsContinue, Undisturbed, Recorded,
       PoolHoldsNoMixture, TableFollowsPool, Exists, Rec

LEMMA EditStep ==
    ASSUME SessionsInv, NEW f \in Files, Edit(f)
    PROVE  SessionsInv'
<1>1. PICK c \in (Contents \union {NoFile}) \ {src[f]} :
        /\ src' = [src EXCEPT ![f] = c]
        /\ ever' = [ever EXCEPT ![f] = @ \union ({c} \ {NoFile})]
  BY DEF Edit
<1>2. /\ blind' = (blind \/ stage # "off") /\ \A g \in Files : Rec(g)' = Rec(g)
      /\ UNCHANGED <<nas, table, stage, adopt, quarantine, exclude, fail, pending, transferred, tsv,
                     published, sent, hurt>>
  BY DEF Edit, run, Rec
<1>3. \A g \in Files : ever[g] \subseteq ever'[g]
  BY <1>1 DEF SessionsInv, SessionsTyped
<1>4. SessionsTyped'
  BY <1>1, <1>2 DEF SessionsInv, SessionsTyped
<1>5. \A g \in Files : Exists(src'[g]) => src'[g] \in ever'[g]
  BY <1>1 DEF SessionsInv, SessionsTyped, Exists
<1>6. Transfers' /\ RecordsContinue' /\ TableFollowsPool'
  BY <1>2 DEF SessionsInv, Transfers, RecordsContinue, TableFollowsPool
<1>7. ~ blind' => Undisturbed' /\ PoolHoldsNoMixture'
  BY <1>2, <1>3 DEF SessionsInv, Undisturbed, PoolHoldsNoMixture, Recorded
<1> QED BY <1>2, <1>4, <1>5, <1>6, <1>7 DEF SessionsInv, PoolHoldsNoMixture

LEMMA DamageStepOfPool ==
    ASSUME SessionsInv, NEW f \in Files, Damage(f)
    PROVE  SessionsInv'
<1>1. /\ stage = "off" /\ Exists(nas[f]) /\ blind' = TRUE /\ hurt' = TRUE
      /\ nas' \in {[nas EXCEPT ![f] = NoFile], [nas EXCEPT ![f][1] = Rotten]}
      /\ \A g \in Files : Rec(g)' = Rec(g)
      /\ UNCHANGED <<src, ever, table, stage, adopt, quarantine, exclude, fail, pending, transferred, tsv,
                     published, sent>>
  BY DEF Damage, Mishap, run, env, Rec
<1>2. nas' \in [Files -> Anything \union {NoFile}]
  <2>1. nas \in [Files -> Anything \union {NoFile}] /\ nas[f] \in Anything
    BY <1>1 DEF SessionsInv, SessionsTyped, Exists
  <2>2. [nas[f] EXCEPT ![1] = Rotten] \in Anything
    <3>1. PICK n \in Nat : nas[f] \in [1..n -> Blocks \union {Rotten}]
      BY <2>1, SeqDef DEF Anything
    <3>2. [nas[f] EXCEPT ![1] = Rotten] \in [1..n -> Blocks \union {Rotten}]
      BY <3>1
    <3>3. [nas[f] EXCEPT ![1] = Rotten] \in UNION {[1..k -> Blocks \union {Rotten}] : k \in Nat}
      BY <3>2
    <3> QED BY <3>3, SeqDef, Zenon DEF Anything
  <2> QED BY <1>1, <2>1, <2>2
<1>3. SessionsTyped'
  BY <1>1, <1>2 DEF SessionsInv, SessionsTyped
<1> QED BY <1>1, <1>3 DEF SessionsInv, Transfers, RecordsContinue, PoolHoldsNoMixture, TableFollowsPool

LEMMA LoseTableStep ==
    ASSUME SessionsInv, LoseTable
    PROVE  SessionsInv'
<1>1. /\ stage = "off" /\ blind' = TRUE /\ table' = NoFile /\ published' = [f \in Files |-> NoFile]
      /\ UNCHANGED <<src, ever, nas, stage, adopt, quarantine, exclude, fail, pending, transferred, tsv,
                     sent, hurt>>
  BY DEF LoseTable, Mishap, run, env
<1> QED BY <1>1 DEF SessionsInv, SessionsTyped, Transfers, RecordsContinue, PoolHoldsNoMixture,
                    TableFollowsPool, Rec, Exists

LEMMA BeginStep ==
    ASSUME SessionsInv, Begin
    PROVE  SessionsInv'
<1>1. /\ stage = "off" /\ stage' \in {"off", "check"} /\ transferred' = {} /\ pending' = {} /\ exclude' = {}
      /\ adopt' \in BOOLEAN /\ fail' = FALSE /\ quarantine' \in SUBSET Files
      /\ \A f \in Files : Rec(f)' = Rec(f)
      /\ UNCHANGED <<src, ever, nas, table, published, sent, blind, hurt>>
  BY DEF Begin, env, Rec
<1>2. SessionsTyped'
  BY <1>1 DEF SessionsInv, SessionsTyped
<1>3. Undisturbed => Undisturbed'
  BY <1>1 DEF Undisturbed, Recorded
<1> QED BY <1>1, <1>2, <1>3 DEF SessionsInv, Transfers, RecordsContinue, PoolHoldsNoMixture, TableFollowsPool

LEMMA CheckSourceStep ==
    ASSUME SessionsInv, check_source
    PROVE  SessionsInv'
<1>1. /\ stage = "check" /\ stage' = "rsync" /\ exclude' = Anomalous \union quarantine
      /\ pending' = Files /\ fail' = (Anomalous # {})
      /\ \A f \in Files : Rec(f)' = Rec(f)
      /\ UNCHANGED <<src, ever, nas, table, adopt, quarantine, transferred, published, sent, blind, hurt>>
  BY DEF check_source, env, Rec
<1>2. SessionsTyped'
  BY <1>1 DEF SessionsInv, SessionsTyped, Anomalous
<1>3. transferred' = {} /\ \A f \in Files \ exclude' : Continues(f)'
  BY <1>1 DEF SessionsInv, Transfers, Anomalous, Continues
<1>4. Undisturbed => Undisturbed'
  BY <1>1, <1>3 DEF Undisturbed, Recorded
<1> QED BY <1>1, <1>2, <1>3, <1>4 DEF SessionsInv, Transfers, RecordsContinue, PoolHoldsNoMixture,
                                    TableFollowsPool

LEMMA RsyncStep ==
    ASSUME SessionsInv, NEW f \in Files, rsync_file(f)
    PROVE  SessionsInv'
<1> DEFINE sends == /\ f \notin exclude /\ Exists(src[f])
                    /\ Exists(nas[f]) => Len(src[f]) > Len(nas[f])
<1>1. /\ stage = "rsync" /\ f \in pending /\ pending' = pending \ {f}
      /\ nas' = IF sends THEN [nas EXCEPT ![f] = Appended(nas[f], src[f])] ELSE nas
      /\ transferred' = IF sends THEN transferred \union {f} ELSE transferred
      /\ sent' = IF sends THEN sent \union {f} ELSE sent
      /\ \A g \in Files : Rec(g)' = Rec(g) /\ Continues(g)' = Continues(g)
      /\ UNCHANGED <<src, ever, table, stage, adopt, quarantine, exclude, fail, tsv, published, blind, hurt>>
  BY DEF rsync_file, env, Rec, Continues
<1>2. f \notin transferred
  BY <1>1 DEF SessionsInv, Transfers
<1>3. CASE ~ sends
  <2>1. nas' = nas /\ transferred' = transferred /\ sent' = sent
    BY <1>1, <1>3
  <2>2. SessionsTyped'
    BY <1>1, <2>1 DEF SessionsInv, SessionsTyped
  <2>3. Undisturbed => Undisturbed'
    BY <1>1, <2>1 DEF Undisturbed, Recorded
  <2> QED BY <1>1, <2>1, <2>2, <2>3 DEF SessionsInv, Transfers, RecordsContinue, PoolHoldsNoMixture,
                                      TableFollowsPool
<1>4. CASE sends
  <2> DEFINE new == Appended(nas[f], src[f])
  <2>1. /\ nas' = [nas EXCEPT ![f] = new] /\ transferred' = transferred \union {f}
        /\ sent' = sent \union {f}
    BY <1>1, <1>4
  <2>2. src[f] \in Contents /\ src[f] \in Anything /\ src[f] \in ever[f]
        /\ nas \in [Files -> Anything \union {NoFile}]
    BY <1>4, Values DEF SessionsInv, SessionsTyped, Exists
  <2>3. new \in Anything /\ (Exists(nas[f]) => IsPrefix(nas[f], new))
    <3>1. CASE Exists(nas[f])
      <4>1. nas[f] \in Anything /\ Len(nas[f]) < Len(src[f])
        BY <1>4, <2>2, <3>1, LenProperties DEF Exists, Anything
      <4> QED BY <2>2, <3>1, <4>1, AppendedFacts DEF Anything
    <3>2. CASE ~ Exists(nas[f])
      BY <2>2, <3>2 DEF Appended
    <3> QED BY <3>1, <3>2
  <2>4. ~ blind => new = src[f]
    <3> SUFFICES ASSUME ~ blind PROVE new = src[f]
      OBVIOUS
    <3>1. CASE Exists(nas[f])
      <4>1. nas[f] \in Anything /\ Len(nas[f]) < Len(src[f])
        BY <1>4, <2>2, <3>1, LenProperties DEF Exists, Anything
      <4>2. Rec(f) # NoFile /\ Rec(f).content = nas[f] /\ Continues(f)
        BY <1>1, <1>2, <1>4, <3>1 DEF SessionsInv, Undisturbed, Recorded
      <4>3. IsPrefix(nas[f], src[f])
        BY <1>4, <4>2 DEF Continues
      <4> QED BY <2>2, <3>1, <4>1, <4>3, AppendedFacts DEF Anything
    <3>2. CASE ~ Exists(nas[f])
      BY <3>2 DEF Appended
    <3> QED BY <3>1, <3>2
  <2> HIDE DEF new
  <2>5. Exists(new) /\ nas'[f] = new /\ \A g \in Files \ {f} : nas'[g] = nas[g]
    BY <2>1, <2>2, <2>3, Values
  <2>6. SessionsTyped'
    BY <1>1, <2>1, <2>2, <2>3 DEF SessionsInv, SessionsTyped
  <2>7. Transfers' /\ RecordsContinue'
    BY <1>1, <2>1, <2>5 DEF SessionsInv, SessionsTyped, Transfers, RecordsContinue
  <2>8. TableFollowsPool'
    <3> SUFFICES ASSUME ~ hurt, NEW g \in Files, Rec(g) # NoFile
                 PROVE  Exists(nas'[g]) /\ IsPrefix(Rec(g).content, nas'[g])
      BY <1>1 DEF TableFollowsPool
    <3>1. Exists(nas[g]) /\ IsPrefix(Rec(g).content, nas[g])
      BY DEF SessionsInv, TableFollowsPool
    <3>2. CASE g = f
      <4>1. Rec(f).content \in Anything /\ nas[f] \in Anything /\ new \in Anything
        BY <2>2, <2>3, <3>1, <3>2, RecTyped DEF SessionsInv, Exists
      <4> QED BY <2>3, <2>5, <3>1, <3>2, <4>1, PrefixFacts DEF Anything
    <3>3. CASE g # f
      BY <2>5, <3>1, <3>3
    <3> QED BY <3>2, <3>3
  <2>9. ~ blind => PoolHoldsNoMixture'
    <3>1. IsPrefix(src[f], src[f])
      BY <2>2, PrefixFacts DEF Anything
    <3> QED BY <1>1, <2>2, <2>4, <2>5, <3>1 DEF SessionsInv, PoolHoldsNoMixture
  <2>10. ~ blind => Undisturbed'
    BY <1>1, <2>1, <2>4, <2>5 DEF SessionsInv, Undisturbed, Recorded
  <2> QED BY <1>1, <2>6, <2>7, <2>8, <2>9, <2>10 DEF SessionsInv, PoolHoldsNoMixture
<1> QED BY <1>3, <1>4

LEMMA UpdateStateStep ==
    ASSUME SessionsInv, update_state
    PROVE  SessionsInv'
<1>1. PICK missed \in SUBSET transferred :
        /\ IF missed = {} THEN UNCHANGED <<blind, mishaps>> ELSE Cardinality(missed) = 1 /\ Mishap
        /\ table' = [f \in Files |-> IF f \in transferred \ missed
                                     THEN Record(ReadBack(f), TRUE) ELSE Rec(f)]
  BY DEF update_state
<1>2. /\ stage = "rsync" /\ stage' = "gate"
      /\ UNCHANGED <<src, ever, nas, adopt, quarantine, exclude, fail, pending, transferred, tsv,
                     published, sent, hurt>>
  BY DEF update_state, env, run
<1>3. \A f \in transferred : f \in sent /\ Exists(nas[f]) /\ nas[f] \in Anything
  BY <1>2 DEF SessionsInv, Transfers, SessionsTyped, Exists
<1>4. \A f \in Files : Rec(f) \in Records \union {NoFile}
  BY RecTyped DEF SessionsInv
<1>5. \A f \in transferred \ missed : /\ table'[f] = Record(nas[f], TRUE)
                                      /\ table'[f] \in Records /\ table'[f].content = nas[f]
  BY <1>1, <1>3, Values DEF ReadBack, SessionsInv, SessionsTyped
<1>6. \A f \in Files \ (transferred \ missed) : table'[f] = Rec(f)
  BY <1>1
<1>7. table' \in [Files -> Records \union {NoFile}] /\ table' # NoFile
  <2>1. table' \in [Files -> Records \union {NoFile}]
    BY <1>1, <1>4, <1>5
  <2> QED BY <2>1, Values
<1>8. \A f \in Files : Rec(f)' = table'[f]
  BY <1>7 DEF Rec
<1>9. blind' \in BOOLEAN /\ (~ blind' => ~ blind /\ missed = {})
  BY <1>1 DEF Mishap, SessionsInv, SessionsTyped
<1>10. SessionsTyped'
  BY <1>2, <1>7, <1>9 DEF SessionsInv, SessionsTyped
<1>11. Transfers'
  BY <1>2 DEF SessionsInv, Transfers
<1>12. RecordsContinue'
  BY <1>2, <1>3, <1>6, <1>8 DEF SessionsInv, RecordsContinue
<1>13. ~ blind' => Undisturbed' /\ PoolHoldsNoMixture'
  <2> SUFFICES ASSUME ~ blind' PROVE Undisturbed' /\ PoolHoldsNoMixture'
    OBVIOUS
  <2>1. ~ blind /\ missed = {} /\ Undisturbed /\ PoolHoldsNoMixture
    BY <1>9 DEF SessionsInv
  <2>2. \A f \in Files : Recorded(f)'
    <3> SUFFICES ASSUME NEW f \in Files, Exists(nas[f])
                 PROVE  Rec(f)' # NoFile /\ Rec(f)'.content = nas[f]
      BY <1>2 DEF Recorded
    <3>1. CASE f \in transferred
      <4>1. Rec(f)' \in Records /\ Rec(f)'.content = nas[f]
        BY <1>5, <1>8, <2>1, <3>1
      <4> QED BY <4>1, Values
    <3>2. CASE f \notin transferred
      BY <1>6, <1>8, <2>1, <3>2 DEF Undisturbed, Recorded
    <3> QED BY <3>1, <3>2
  <2> QED BY <1>2, <2>1, <2>2 DEF Undisturbed, PoolHoldsNoMixture
<1>14. TableFollowsPool'
  <2> SUFFICES ASSUME ~ hurt, NEW f \in Files, table'[f] # NoFile
               PROVE  Exists(nas[f]) /\ IsPrefix(table'[f].content, nas[f])
    BY <1>2, <1>8 DEF TableFollowsPool
  <2>1. CASE f \in transferred \ missed
    BY <1>3, <1>5, <2>1, PrefixFacts DEF Anything
  <2>2. CASE f \notin transferred \ missed
    BY <1>6, <2>2 DEF SessionsInv, TableFollowsPool
  <2> QED BY <2>1, <2>2
<1> QED BY <1>2, <1>10, <1>11, <1>12, <1>13, <1>14 DEF SessionsInv, PoolHoldsNoMixture

LEMMA PublishGateStep ==
    ASSUME SessionsInv, publish_gate
    PROVE  SessionsInv'
<1>1. /\ stage = "gate"
      /\ UNCHANGED <<src, ever, nas, adopt, quarantine, exclude, fail, pending, transferred,
                     published, sent, blind, hurt>>
  BY DEF publish_gate, env
<1>2. CASE \E f \in Files : Refused(f)
  <2>1. stage' = "off" /\ UNCHANGED <<table, tsv>> /\ \A f \in Files : Rec(f)' = Rec(f)
    BY <1>2 DEF publish_gate, Rec
  <2>2. SessionsTyped'
    BY <1>1, <2>1 DEF SessionsInv, SessionsTyped
  <2>3. Undisturbed => Undisturbed'
    BY <1>1, <2>1 DEF Undisturbed, Recorded
  <2> QED BY <1>1, <2>1, <2>2, <2>3 DEF SessionsInv, Transfers, RecordsContinue, PoolHoldsNoMixture,
                                      TableFollowsPool
<1>3. CASE ~ \E f \in Files : Refused(f)
  <2>1. /\ table' = [f \in Files |-> IF Exists(nas[f]) THEN Record(nas[f], Exists(src[f])) ELSE NoFile]
        /\ tsv' = table' /\ stage' = "publish"
    BY <1>3 DEF publish_gate
  <2>2. \A f \in Files : Exists(nas[f]) => nas[f] \in Anything
    BY DEF SessionsInv, SessionsTyped, Exists
  <2>3. \A f \in Files : Exists(nas[f]) => table'[f] \in Records /\ table'[f].content = nas[f]
    BY <2>1, <2>2, Values DEF Exists
  <2>4. \A f \in Files : ~ Exists(nas[f]) => table'[f] = NoFile
    BY <2>1
  <2>5. table' \in [Files -> Records \union {NoFile}] /\ table' # NoFile
    <3>1. table' \in [Files -> Records \union {NoFile}]
      BY <2>1, <2>3, <2>4
    <3> QED BY <3>1, Values
  <2>6. \A f \in Files : Rec(f)' = table'[f]
    BY <2>5 DEF Rec
  <2>7. SessionsTyped'
    BY <1>1, <2>1, <2>5 DEF SessionsInv, SessionsTyped
  <2>8. Transfers'
    BY <1>1, <2>1, <2>5 DEF SessionsInv, Transfers
  <2>9. RecordsContinue'
    <3> SUFFICES ASSUME NEW f \in Files \ sent, Exists(published[f])
                 PROVE  table'[f] # NoFile /\ IsPrefix(published[f], table'[f].content)
      BY <1>1, <2>6 DEF RecordsContinue
    <3>1. Rec(f) # NoFile /\ IsPrefix(published[f], Rec(f).content)
      BY DEF SessionsInv, RecordsContinue
    <3>2. Exists(nas[f]) /\ IsPrefix(Rec(f).content, nas[f])
      BY <1>3, <3>1 DEF Refused
    <3>3. published[f] \in Anything /\ Rec(f).content \in Anything /\ nas[f] \in Anything
      BY <2>2, <3>1, <3>2, RecTyped DEF SessionsInv, SessionsTyped, Exists
    <3>4. IsPrefix(published[f], nas[f])
      BY <3>1, <3>2, <3>3, PrefixFacts DEF Anything
    <3> QED BY <2>3, <3>2, <3>4, Values
  <2>10. TableFollowsPool'
    <3> SUFFICES ASSUME NEW f \in Files, table'[f] # NoFile
                 PROVE  Exists(nas[f]) /\ IsPrefix(table'[f].content, nas[f])
      BY <1>1, <2>6 DEF TableFollowsPool
    <3> QED BY <2>2, <2>3, <2>4, PrefixFacts DEF Anything
  <2>11. Undisturbed' /\ (PoolHoldsNoMixture => PoolHoldsNoMixture')
    BY <1>1, <2>1, <2>3, <2>6, Values DEF Undisturbed, Recorded, PoolHoldsNoMixture
  <2> QED BY <1>1, <2>7, <2>8, <2>9, <2>10, <2>11 DEF SessionsInv
<1> QED BY <1>2, <1>3

LEMMA PublishSessions ==
    ASSUME SessionsInv, publish
    PROVE  SessionsInv'
<1>1. /\ stage = "publish" /\ stage' = "off" /\ \A f \in Files : Rec(f)' = Rec(f)
      /\ published' = IF fail THEN published
                      ELSE [f \in Files |-> IF tsv[f] = NoFile THEN NoFile ELSE tsv[f].content]
      /\ sent' = IF fail THEN sent ELSE {}
      /\ UNCHANGED <<src, ever, nas, table, adopt, quarantine, exclude, fail, pending, transferred, tsv,
                     blind, hurt>>
  BY DEF publish, env, run, Rec
<1>2. \A f \in Files : tsv[f] = Rec(f)
  BY <1>1 DEF SessionsInv, Transfers, Rec
<1>3. ~ fail => \A f \in Files : published'[f] = IF Rec(f) = NoFile THEN NoFile ELSE Rec(f).content
  BY <1>1, <1>2
<1>4. published' \in [Files -> Anything \union {NoFile}]
  BY <1>1, <1>2, RecTyped DEF SessionsInv, SessionsTyped
<1>5. SessionsTyped'
  BY <1>1, <1>4 DEF SessionsInv, SessionsTyped
<1>6. RecordsContinue'
  <2>1. CASE fail
    BY <1>1, <2>1 DEF SessionsInv, RecordsContinue
  <2>2. CASE ~ fail
    <3> SUFFICES ASSUME NEW f \in Files, Exists(published'[f])
                 PROVE  Rec(f) # NoFile /\ IsPrefix(published'[f], Rec(f).content)
      BY <1>1 DEF RecordsContinue
    <3> QED BY <1>3, <2>2, RecTyped, PrefixFacts DEF Exists, Anything, SessionsInv
  <2> QED BY <2>1, <2>2
<1>7. Undisturbed => Undisturbed'
  BY <1>1 DEF Undisturbed, Recorded
<1> QED BY <1>1, <1>5, <1>6, <1>7 DEF SessionsInv, Transfers, PoolHoldsNoMixture, TableFollowsPool

LEMMA StopStep ==
    ASSUME SessionsInv, Stop
    PROVE  SessionsInv'
<1>1. /\ stage' = "off" /\ blind' = TRUE /\ \A f \in Files : Rec(f)' = Rec(f)
      /\ UNCHANGED <<src, ever, nas, table, adopt, quarantine, exclude, fail, pending, transferred, tsv,
                     published, sent, hurt>>
  BY DEF Stop, Mishap, env, run, Rec
<1>2. SessionsTyped'
  BY <1>1 DEF SessionsInv, SessionsTyped
<1> QED BY <1>1, <1>2 DEF SessionsInv, Transfers, RecordsContinue, PoolHoldsNoMixture, TableFollowsPool

\* The invariant of the sessions channel, for any files, runs, edits and mishaps.
THEOREM SessionsInvHolds == SessionsSpec => []SessionsInv
<1>1. SessionsInv /\ [SessionsNext]_sessionsVars => SessionsInv'
  <2> SUFFICES ASSUME SessionsInv, [SessionsNext]_sessionsVars PROVE SessionsInv'
    OBVIOUS
  <2>1. CASE SessionsNext
    BY <2>1, BeginStep, CheckSourceStep, UpdateStateStep, PublishGateStep, PublishSessions, StopStep,
       LoseTableStep, EditStep, DamageStepOfPool, RsyncStep DEF SessionsNext
  <2>2. CASE UNCHANGED sessionsVars
    BY <2>2 DEF sessionsVars, run, SessionsInv, SessionsTyped, Transfers, RecordsContinue, Undisturbed,
                Recorded, Continues, PoolHoldsNoMixture, TableFollowsPool, Rec
  <2> QED BY <2>1, <2>2
<1> QED BY <1>1, SessionsStart, PTL DEF SessionsSpec

\* rsync --append never makes one file of two, in runs that nothing disturbed.
THEOREM NoFileIsAMixture == SessionsSpec => []PoolHoldsNoMixture
<1>1. SessionsInv => PoolHoldsNoMixture
  BY DEF SessionsInv
<1> QED BY <1>1, SessionsInvHolds, PTL

\* No record runs ahead of what the pool holds, as long as the pool is undamaged.
THEOREM RecordsAreBacked == SessionsSpec => []TableFollowsPool
<1>1. SessionsInv => TableFollowsPool
  BY DEF SessionsInv
<1> QED BY <1>1, SessionsInvHolds, PTL

\* What was published and not sent since is in every later publication, however
\* often the NAS was damaged and runs stopped in between (publish_gate).
THEOREM PublicationsContinue == SessionsSpec => PublishedIsContinued
<1> DEFINE Kept == \A f \in Files :
        stage = "publish" /\ published' # published /\ f \notin sent /\ Exists(published[f])
            => Exists(published'[f]) /\ IsPrefix(published[f], published'[f])
<1>1. SessionsInv /\ [SessionsNext]_sessionsVars => [Kept]_sessionsVars
  <2> SUFFICES ASSUME SessionsInv, SessionsNext, NEW f \in Files, stage = "publish",
                      published' # published, f \notin sent, Exists(published[f])
               PROVE  Exists(published'[f]) /\ IsPrefix(published[f], published'[f])
    OBVIOUS
  <2>1. publish
    BY DEF SessionsNext, Begin, check_source, update_state, publish_gate, Stop, LoseTable, Edit, Damage,
           rsync_file
  <2>2. ~ fail
    BY <2>1 DEF publish
  <2>3. Rec(f) # NoFile /\ IsPrefix(published[f], Rec(f).content)
    BY DEF SessionsInv, RecordsContinue
  <2>4. tsv[f] = Rec(f)
    BY DEF SessionsInv, Transfers, Rec
  <2>5. published'[f] = Rec(f).content
    BY <2>1, <2>2, <2>3, <2>4 DEF publish
  <2>6. Exists(Rec(f).content)
    BY <2>3, RecTyped, Values DEF SessionsInv
  <2> QED BY <2>3, <2>5, <2>6
<1>2. [][Kept]_sessionsVars => PublishedIsContinued
  BY PTL DEF PublishedIsContinued
<1> QED BY <1>1, <1>2, SessionsInvHolds, PTL DEF SessionsSpec

-----------------------------------------------------------------------------
(* The parts of a published backup.                                          *)

\* What lies on the NAS before publication.
Landed ==
    [db: Nat \union {Bad}, db_sha: Nat \union {Bad}, manifests: Mirrors, listing: Mirrors,
     census: Nat \union {Bad}, sessions: Nat]

Published ==
    [db: Nat \union {Bad}, db_sha: Nat \union {Bad}, manifests: Mirrors, listing: Mirrors,
     census: Nat \union {Bad}, sessions: Nat \union {Bad}, digest: Digests \union {Junk},
     was: Mirrors]

\* Of what lands one part at most is not what was staged, so manifests that agree
\* with their listing are those of the staging. Nothing but the digest still knows
\* what a backup was, and it is right or it is gone.
VaultInv ==
    /\ vault \in Seq(Published) /\ pool \in Pools
    /\ stg # Missing => stg.manifests \in Mirrors /\ stg.blobs \in Pools
    /\ inc # Missing => /\ inc \in Landed /\ stg # Missing
                        /\ inc.manifests = stg.manifests \/ inc.listing = stg.manifests
    /\ \A i \in DOMAIN vault : vault[i].digest # Junk => /\ vault[i].digest.db = i
                                                         /\ vault[i].digest.listing = vault[i].was

\* Two mirrors that show the same and agree on what they show are the same.
LEMMA SameMirror ==
    ASSUME NEW m \in Mirrors, NEW l \in Mirrors, Present(m) \subseteq Present(l),
           \A n \in Present(l) : m[n] = l[n]
    PROVE  m = l
<1>1. \A n \in Labels : m[n] = l[n]
  BY DEF Present
<1> QED BY <1>1 DEF Mirrors

LEMMA MirrorFacts ==
    ASSUME NEW m \in Mirrors
    PROVE  /\ IsFiniteSet(Present(m)) /\ Cardinality(Present(m)) <= Cardinality(Labels)
           /\ Cardinality(Present(m)) \in Nat /\ Cardinality(Labels) \in Nat
           /\ IsFiniteSet(References(m)) /\ References(m) \subseteq Blobs
<1>1. Present(m) \subseteq Labels /\ IsFiniteSet(Labels)
  BY VaultAssumption DEF Present
<1>2. /\ IsFiniteSet(Present(m)) /\ Cardinality(Present(m)) <= Cardinality(Labels)
      /\ Cardinality(Present(m)) \in Nat /\ Cardinality(Labels) \in Nat
  BY <1>1, FS_Subset, FS_CardinalityType
<1> DEFINE ok == {n \in Present(m) : m[n] # Junk}
<1>3. \A n \in ok : m[n].blob \in Blobs
  BY DEF Mirrors, Manifests, Present
<1>4. References(m) = {m[n].blob : n \in ok}
  BY DEF References, parse_manifests
<1>5. IsFiniteSet(ok)
  BY <1>2, FS_Subset
<1> DEFINE named == [n \in ok |-> m[n].blob]
           refs == {m[n].blob : n \in ok}
<1> HIDE DEF ok
<1>6. IsFiniteSet(refs)
  <2>1. named \in Surjection(ok, refs)
    BY DEF Surjection
  <2> QED BY <1>5, <2>1, FS_Surjection
<1> QED BY <1>2, <1>3, <1>4, <1>6

\* What the doctor says of a sound mirror that it has read in full.
LEMMA DoctorFacts ==
    ASSUME NEW m \in Mirrors, NEW p, NEW full \in BOOLEAN,
           parse_manifests(m).bad = {}, Present(m) # {},
           \A x \in References(m) : p[x] = Intact
    PROVE  restore_verify(Truth(m, p, full)) <=> full \/ Cardinality(Present(m)) <= Cap
<1> DEFINE ok == {n \in Present(m) : m[n] # Junk}
           refs == {m[n].blob : n \in ok}
           wrong == {x \in refs : p[x] # Intact}
           right == {x \in refs : p[x] = Intact}
           rest == Present(m) \ ok
           late == ~full /\ Cardinality(Present(m)) > Cap
           d == Truth(m, p, full)
<1>1. refs = References(m) /\ rest = parse_manifests(m).bad /\ Present(m) \intersect Labels = Present(m)
  BY DEF References, parse_manifests, Present
<1>2. d = [status |-> IF late THEN "verification_deferred"
                      ELSE IF Cardinality(wrong) + Cardinality(rest) = 0 THEN "verified" ELSE "warn",
           errors |-> Cardinality(wrong) + Cardinality(rest), manifests |-> Cardinality(Present(m)),
           verified |-> Cardinality(right),
           duplicates |-> Cardinality(ok) - Cardinality(refs)]
  BY <1>1 DEF Truth, doctor
<1>3. wrong = {} /\ rest = {} /\ right = refs /\ refs # {} /\ ok \subseteq Present(m)
  <2>1. rest = {} /\ ok = Present(m)
    BY <1>1
  <2>2. \A x \in refs : p[x] = Intact
    BY <1>1
  <2>3. refs # {}
    <3>1. \A n \in ok : m[n].blob \in refs
      OBVIOUS
    <3> QED BY <2>1, <3>1
  <2> HIDE DEF refs, rest, ok
  <2> QED BY <2>1, <2>2, <2>3
<1>4. /\ IsFiniteSet(refs) /\ IsFiniteSet(ok)
      /\ Cardinality(refs) \in Nat /\ Cardinality(ok) \in Nat /\ Cardinality(Present(m)) \in Nat
  BY <1>1, <1>3, MirrorFacts, FS_Subset, FS_CardinalityType
<1>5. Cardinality(refs) > 0
  <2> HIDE DEF refs, wrong, right, rest, ok
  <2>1. Cardinality(refs) # 0
    BY <1>3, <1>4, FS_EmptySet
  <2> QED BY <1>4, <2>1
<1>6. Cardinality(wrong) = 0 /\ Cardinality(rest) = 0
  BY <1>3, FS_EmptySet
<1> HIDE DEF d, wrong, right, rest, refs, ok, late
<1>7. /\ d.errors = 0 /\ d.verified = Cardinality(refs)
      /\ d.status = IF late THEN "verification_deferred" ELSE "verified"
  BY <1>2, <1>3, <1>6
<1>8. d # Junk
  <2>1. d = [status |-> IF late THEN "verification_deferred" ELSE "verified",
             errors |-> 0, manifests |-> Cardinality(Present(m)),
             verified |-> Cardinality(refs), duplicates |-> Cardinality(ok) - Cardinality(refs)]
    BY <1>2, <1>3, <1>6
  <2>2. Cardinality(ok) - Cardinality(refs) \in Int
    BY <1>4
  <2>3. d \in Answers
    BY <1>4, <2>1, <2>2 DEF Answers
  <2> QED BY <2>3, VaultAssumption
<1>9. restore_verify(d) <=> ~late
  <2>1. d.verified > 0
    BY <1>4, <1>5, <1>7
  <2> QED BY <1>7, <1>8, <2>1 DEF restore_verify
<1>10. ~late <=> full \/ Cardinality(Present(m)) <= Cap
  BY <1>4, VaultAssumption DEF late
<1> QED BY <1>9, <1>10 DEF d

LEMMA VaultStart == VaultInit => VaultInv
BY EmptySeq DEF VaultInit, VaultInv, Pools

LEMMA StageStep ==
    ASSUME VaultInv, Stage
    PROVE  VaultInv'
<1>1. PICK m \in Mirrors, b \in Pools : stg' = [manifests |-> m, blobs |-> b]
  BY DEF Stage
<1>2. stg'.manifests = m /\ stg'.blobs = b /\ UNCHANGED <<inc, pool, vault>> /\ inc = Missing
  BY <1>1 DEF Stage
<1> QED BY <1>2 DEF VaultInv

LEMMA LandStep ==
    ASSUME VaultInv, Land
    PROVE  VaultInv'
<1> DEFINE i == Len(vault) + 1
           m == stg.manifests
           copy == [db |-> i, db_sha |-> i, census |-> i, manifests |-> m, listing |-> m,
                    sessions |-> i]
           sent_blobs == [x \in Blobs |-> IF pool[x] = Missing THEN stg.blobs[x] ELSE pool[x]]
<1>1. m \in Mirrors /\ i \in Nat /\ sent_blobs \in Pools /\ pool \in Pools
  BY LenProperties DEF Land, VaultInv, Pools
<1>2. copy \in Landed /\ copy.manifests = m /\ copy.listing = m
  BY <1>1 DEF Landed
<1>3. \A b \in BadCopies(copy) : b \in Landed /\ (b.manifests = m \/ b.listing = m)
  <2>1. ASSUME NEW n \in Labels, NEW c \in {Junk, Missing}
        PROVE  [m EXCEPT ![n] = c] \in Mirrors
    BY <1>1 DEF Mirrors, Manifests
  <2>2. \A n \in Present(m) : n \in Labels
    BY DEF Present
  <2>3. \A b \in {[copy EXCEPT !.db = Bad], [copy EXCEPT !.db_sha = Bad], [copy EXCEPT !.census = Bad]} :
          b \in Landed /\ b.manifests = m
    BY <1>1 DEF Landed
  <2>4. ASSUME NEW n \in Present(m), NEW c \in {Junk, Missing}
        PROVE  /\ [copy EXCEPT !.manifests[n] = c] \in Landed
               /\ [copy EXCEPT !.manifests[n] = c].listing = m
               /\ [copy EXCEPT !.listing[n] = c] \in Landed
               /\ [copy EXCEPT !.listing[n] = c].manifests = m
    BY <1>1, <2>1, <2>2 DEF Landed
  <2> DEFINE spoilt(n, c) == [copy EXCEPT !.manifests[n] = c]
             misread(n, c) == [copy EXCEPT !.listing[n] = c]
             other == {[copy EXCEPT !.db = Bad], [copy EXCEPT !.db_sha = Bad],
                       [copy EXCEPT !.census = Bad]}
  <2>5. BadCopies(copy) =
          other \union {spoilt(n, c) : n \in Present(m), c \in {Junk, Missing}}
                \union {misread(n, c) : n \in Present(m), c \in {Junk, Missing}}
    BY <1>2 DEF BadCopies
  <2>6. \A n \in Present(m), c \in {Junk, Missing} :
          /\ spoilt(n, c) \in Landed /\ spoilt(n, c).listing = m
          /\ misread(n, c) \in Landed /\ misread(n, c).manifests = m
    BY <2>4
  <2> HIDE DEF copy, m, spoilt, misread
  <2>7. \A b \in other : b \in Landed /\ b.manifests = m
    BY <2>3
  <2> HIDE DEF other
  <2> QED BY <2>5, <2>6, <2>7
<1>4. \A x \in Blobs : [sent_blobs EXCEPT ![x] = Bad] \in Pools
  BY <1>1 DEF Pools
<1>5. inc' = copy \/ inc' \in BadCopies(copy)
  BY DEF Land
<1>6. pool' \in Pools
  <2> HIDE DEF copy, sent_blobs
  <2> QED BY <1>1, <1>4 DEF Land, copy, sent_blobs
<1>7. UNCHANGED <<stg, vault>> /\ stg # Missing
  BY DEF Land
<1> HIDE DEF copy, m
<1>8. inc' \in Landed /\ (inc'.manifests = m \/ inc'.listing = m)
  BY <1>2, <1>3, <1>5
<1> QED BY <1>6, <1>7, <1>8 DEF VaultInv, m

\* The checks of steps 14a and 14b pass over what is put together.
LEMMA ChecksSeeAll ==
    ASSUME VaultInv, inc # Missing, verify_manifests_sha256sum(inc.manifests, inc.listing)
    PROVE  /\ inc.manifests = stg.manifests /\ inc.listing = stg.manifests /\ stg.manifests \in Mirrors
           /\ Present(stg.manifests) # {}
<1>1. inc.manifests \in Mirrors /\ inc.listing \in Mirrors
  BY DEF VaultInv, Landed
<1>2. inc.manifests = inc.listing
  BY <1>1, SameMirror DEF verify_manifests_sha256sum
<1>3. inc.manifests = stg.manifests \/ inc.listing = stg.manifests
  BY DEF VaultInv
<1> QED BY <1>1, <1>2, <1>3 DEF verify_manifests_sha256sum

\* What is published of a night.
Put == [db |-> inc.db, db_sha |-> inc.db_sha, manifests |-> inc.manifests,
        listing |-> inc.listing, census |-> inc.census, sessions |-> inc.sessions,
        digest |-> [db |-> Len(vault) + 1, listing |-> inc.listing, census |-> Len(vault) + 1,
                    sessions |-> inc.sessions],
        was |-> stg.manifests]

LEMMA PutFacts ==
    ASSUME VaultInv, Release, vault' # vault
    PROVE  /\ vault' = Append(vault, Put) /\ Put \in Published /\ pool' = pool
           /\ Put.db = Len(vault) + 1 /\ Put.was \in Mirrors /\ Present(Put.was) # {}
           /\ Put.manifests = Put.was /\ Put.listing = Put.was
           /\ Put.digest.db = Len(vault) + 1 /\ Put.digest.listing = Put.was
           /\ Put.digest.census = Len(vault) + 1 /\ Put.digest.sessions = Put.sessions
           /\ Put.digest # Junk
           /\ verify_manifests_sha256sum(Put.manifests, Put.listing)
           /\ parse_manifests(Put.was).bad = {} /\ \A x \in References(Put.was) : pool[x] = Intact
<1>1. /\ vault' = Append(vault, Put) /\ inc # Missing /\ inc.db = Len(vault) + 1 /\ pool' = pool
      /\ verify_manifests_sha256sum(inc.manifests, inc.listing)
      /\ run_publish_check(inc.manifests, pool)
  BY DEF Release, readback, Put
<1>2. /\ inc.manifests = stg.manifests /\ inc.listing = stg.manifests /\ stg.manifests \in Mirrors
      /\ Present(stg.manifests) # {}
  BY <1>1, ChecksSeeAll
<1>3. inc \in Landed /\ Len(vault) \in Nat
  BY <1>1, LenProperties DEF VaultInv
<1> DEFINE g == [db |-> Len(vault) + 1, listing |-> inc.listing, census |-> Len(vault) + 1,
                 sessions |-> inc.sessions]
<1>4. /\ g \in Digests /\ g # Junk /\ g.db = Len(vault) + 1 /\ g.census = Len(vault) + 1
      /\ g.listing = inc.listing /\ g.sessions = inc.sessions
  BY <1>2, <1>3, VaultAssumption DEF Digests, Landed
<1>5. /\ Put.db = inc.db /\ Put.db_sha = inc.db_sha /\ Put.manifests = inc.manifests
      /\ Put.listing = inc.listing /\ Put.census = inc.census /\ Put.sessions = inc.sessions
      /\ Put.digest = g /\ Put.was = stg.manifests
  BY DEF Put
<1>6. Put \in Published
  <2> HIDE DEF g
  <2> QED BY <1>2, <1>3, <1>4 DEF Put, Published, Landed, g
<1> HIDE DEF g
<1>7. parse_manifests(Put.was).bad = {} /\ \A x \in References(Put.was) : pool[x] = Intact
  BY <1>1, <1>2, <1>5 DEF run_publish_check, References
<1> QED BY <1>1, <1>2, <1>4, <1>5, <1>6, <1>7

LEMMA ReleaseStep ==
    ASSUME VaultInv, Release
    PROVE  VaultInv'
<1>1. stg' = Missing /\ inc' = Missing /\ pool' = pool
  BY DEF Release
<1>2. CASE vault' = vault
  BY <1>1, <1>2 DEF VaultInv
<1>3. CASE vault' # vault
  <2> DEFINE e == Put
  <2>1. /\ vault' = Append(vault, e) /\ e \in Published
        /\ e.digest.db = Len(vault) + 1 /\ e.digest.listing = e.was
    BY <1>3, PutFacts
  <2>2. vault \in Seq(Published)
    BY DEF VaultInv
  <2> HIDE DEF e
  <2>3. /\ vault' \in Seq(Published) /\ Len(vault) \in Nat
        /\ DOMAIN vault = 1..Len(vault) /\ DOMAIN vault' = 1..(Len(vault) + 1)
        /\ vault'[Len(vault) + 1] = e /\ \A i \in 1..Len(vault) : vault'[i] = vault[i]
    BY <2>1, <2>2, AppendProperties, LenProperties
  <2> QED BY <1>1, <2>1, <2>3 DEF VaultInv
<1> QED BY <1>2, <1>3

\* One part of one backup is lost or changed.
LEMMA PartLost ==
    ASSUME VaultInv, NEW i \in DOMAIN vault, NEW e \in Published, vault' = [vault EXCEPT ![i] = e],
           e.was = vault[i].was, e.digest \in {vault[i].digest, Junk},
           UNCHANGED <<stg, inc, pool>>
    PROVE  VaultInv'
<1>1. vault \in Seq(Published) /\ i \in 1..Len(vault) /\ DOMAIN vault = 1..Len(vault)
  BY LenProperties DEF VaultInv
<1>2. /\ vault' \in Seq(Published) /\ Len(vault') = Len(vault) /\ DOMAIN vault' = DOMAIN vault
      /\ \A j \in DOMAIN vault : vault'[j] = IF j = i THEN e ELSE vault[j]
  BY <1>1, ExceptSeq, LenProperties
<1> QED BY <1>2 DEF VaultInv

LEMMA DecayStep ==
    ASSUME VaultInv, Decay
    PROVE  VaultInv'
<1>1. UNCHANGED <<stg, inc>>
  BY DEF Decay
<1>2. CASE \E x \in Blobs : /\ pool' \in {[pool EXCEPT ![x] = c] : c \in {Missing, Bad}}
                            /\ UNCHANGED vault
  <2>1. pool' \in Pools
    BY <1>2 DEF VaultInv, Pools
  <2> QED BY <1>1, <1>2, <2>1 DEF VaultInv
<1>3. ASSUME NEW i \in DOMAIN vault, NEW n \in Labels,
             NEW c \in [blob: Blobs, fits: {TRUE}] \union {Missing}, pool' = pool,
             vault' \in {[vault EXCEPT ![i].manifests[n] = c], [vault EXCEPT ![i].listing[n] = c]}
      PROVE  VaultInv'
  <2>1. vault[i] \in Published
    BY ElementOfSeq, LenProperties DEF VaultInv
  <2>2. /\ [vault[i].manifests EXCEPT ![n] = c] \in Mirrors
        /\ [vault[i].listing EXCEPT ![n] = c] \in Mirrors
    BY <2>1 DEF Published, Mirrors, Manifests
  <2>3. CASE vault' = [vault EXCEPT ![i].manifests[n] = c]
    <3> DEFINE e == [vault[i] EXCEPT !.manifests[n] = c]
    <3>1. e \in Published /\ e.was = vault[i].was /\ e.digest = vault[i].digest
      BY <2>1, <2>2 DEF Published
    <3>2. vault' = [vault EXCEPT ![i] = e]
      BY <2>3
    <3> HIDE DEF e
    <3> QED BY <1>1, <1>3, <3>1, <3>2, PartLost
  <2>4. CASE vault' = [vault EXCEPT ![i].listing[n] = c]
    <3> DEFINE e == [vault[i] EXCEPT !.listing[n] = c]
    <3>1. e \in Published /\ e.was = vault[i].was /\ e.digest = vault[i].digest
      BY <2>1, <2>2 DEF Published
    <3>2. vault' = [vault EXCEPT ![i] = e]
      BY <2>4
    <3> HIDE DEF e
    <3> QED BY <1>1, <1>3, <3>1, <3>2, PartLost
  <2> QED BY <1>3, <2>3, <2>4
<1>4. ASSUME NEW i \in DOMAIN vault, pool' = pool,
             vault' \in {[vault EXCEPT ![i].db = Bad], [vault EXCEPT ![i].db_sha = Bad],
                         [vault EXCEPT ![i].census = Bad], [vault EXCEPT ![i].sessions = Bad],
                         [vault EXCEPT ![i].digest = Junk]}
      PROVE  VaultInv'
  <2>1. vault[i] \in Published
    BY ElementOfSeq, LenProperties DEF VaultInv
  <2>2. \E e \in {[vault[i] EXCEPT !.db = Bad], [vault[i] EXCEPT !.db_sha = Bad],
                  [vault[i] EXCEPT !.census = Bad], [vault[i] EXCEPT !.sessions = Bad],
                  [vault[i] EXCEPT !.digest = Junk]} :
             vault' = [vault EXCEPT ![i] = e]
    BY <1>4
  <2>3. \A e \in {[vault[i] EXCEPT !.db = Bad], [vault[i] EXCEPT !.db_sha = Bad],
                  [vault[i] EXCEPT !.census = Bad], [vault[i] EXCEPT !.sessions = Bad],
                  [vault[i] EXCEPT !.digest = Junk]} :
             e \in Published /\ e.was = vault[i].was /\ e.digest \in {vault[i].digest, Junk}
    BY <2>1 DEF Published
  <2>4. PICK e \in Published : /\ vault' = [vault EXCEPT ![i] = e] /\ e.was = vault[i].was
                               /\ e.digest \in {vault[i].digest, Junk}
    BY <2>2, <2>3
  <2> QED BY <1>1, <1>4, <2>4, PartLost
<1> QED BY <1>2, <1>3, <1>4 DEF Decay

\* The invariant of the published backups, for any labels, contents and losses.
THEOREM VaultInvHolds == VaultSpec => []VaultInv
<1>1. VaultInv /\ [VaultNext]_vaultVars => VaultInv'
  BY StageStep, LandStep, ReleaseStep, DecayStep DEF VaultNext, vaultVars, VaultInv
<1> QED BY <1>1, VaultStart, PTL DEF VaultSpec

LEMMA KeptTyped ==
    ASSUME VaultInv, NEW i \in DOMAIN vault
    PROVE  /\ vault[i].manifests \in Mirrors /\ vault[i].listing \in Mirrors /\ vault[i].was \in Mirrors
           /\ vault[i].digest # Junk => vault[i].digest.db = i /\ vault[i].digest.listing = vault[i].was
<1>1. vault[i] \in Published
  BY ElementOfSeq, LenProperties DEF VaultInv
<1> QED BY <1>1 DEF VaultInv, Published

\* What the restore accepts is the database and the manifests of that night,
\* although any two of its parts were changed to fit each other, and whatever the
\* doctor tells it.
THEOREM RestoresAreTrue == VaultSpec => []RestoreIsTrue
<1>1. VaultInv => RestoreIsTrue
  <2> SUFFICES ASSUME VaultInv, NEW i \in DOMAIN vault, NEW told, restore(vault[i], told)
               PROVE  vault[i].db = i /\ vault[i].manifests = vault[i].was
    BY DEF RestoreIsTrue
  <2> DEFINE b == vault[i]
  <2> HIDE DEF b
  <2>1. /\ b.manifests \in Mirrors /\ b.listing \in Mirrors
        /\ b.digest # Junk => b.digest.db = i /\ b.digest.listing = b.was
    BY KeptTyped DEF b
  <2>2. restore(b, told)
    BY DEF b
  <2>3. b.db = i /\ b.listing = b.was
    BY <2>1, <2>2 DEF restore
  <2>4. b.manifests = b.listing
    BY <2>1, <2>2, SameMirror DEF restore, restore_manifest_check
  <2> QED BY <2>3, <2>4 DEF b
<1> QED BY <1>1, VaultInvHolds, PTL

\* The weekly verification reads every blob that a mirror refers to.
LEMMA QuietPool ==
    ASSUME VaultInv, verify_blob_pool, NEW m \in Mirrors, \A x \in References(m) : pool[x] # Missing
    PROVE  \A x \in References(m) : pool[x] = Intact
BY MirrorFacts DEF verify_blob_pool, VaultInv, Pools

\* After a quiet week every backup is what was backed up, and a doctor that reads it
\* all, or has few enough manifests to, is all the restore still needs.
THEOREM QuietWeeksRestore == VaultSpec => []QuietWeekRestores
<1>1. VaultInv => QuietWeekRestores
  <2> SUFFICES ASSUME VaultInv, verify_weekly, NEW i \in DOMAIN vault
               PROVE  /\ vault[i].db = i /\ vault[i].manifests = vault[i].was
                      /\ \A x \in References(vault[i].was) : pool[x] = Intact
                      /\ \A full \in BOOLEAN :
                           restorable(vault[i], pool, full) <=> full \/ Few(vault[i])
    BY DEF QuietWeekRestores
  <2> DEFINE b == vault[i]
  <2> HIDE DEF b
  <2>1. /\ b.manifests \in Mirrors /\ b.listing \in Mirrors
        /\ b.digest # Junk => b.digest.db = i /\ b.digest.listing = b.was
    BY KeptTyped DEF b
  <2>2. verify_backup_self(b) /\ verify_blob_pool
    BY DEF verify_weekly, b
  <2>3. parse_manifests(b.manifests).bad = {} /\ \A x \in References(b.manifests) : pool[x] # Missing
    BY DEF verify_weekly, verify_closure, b
  <2>4. b.manifests = b.listing
    BY <2>1, <2>2, SameMirror DEF verify_backup_self, verify_manifests_sha256sum
  <2>5. Present(b.listing) # {}
    BY <2>2 DEF verify_backup_self, verify_manifests_sha256sum
  <2>6. \A x \in References(b.manifests) : pool[x] = Intact
    BY <2>1, <2>2, <2>3, QuietPool
  <2>7. b.digest # Junk /\ b.db = b.digest.db /\ b.db_sha = b.db /\ b.listing = b.digest.listing
    BY <2>2 DEF verify_backup_self
  <2>8. b.manifests = b.was
    BY <2>1, <2>4, <2>7
  <2>9. ASSUME NEW full \in BOOLEAN
        PROVE  restorable(b, pool, full) <=> full \/ Few(b)
    <3>1. restore_verify(Truth(b.manifests, pool, full)) <=> full \/ Few(b)
      BY <2>1, <2>3, <2>4, <2>5, <2>6, <2>8, DoctorFacts DEF Few
    <3>2. restorable(b, pool, full) <=> restore_verify(Truth(b.manifests, pool, full))
      BY <2>4, <2>5, <2>7 DEF restorable, restore, restore_manifest_check
    <3> QED BY <3>1, <3>2
  <2> QED BY <2>1, <2>6, <2>7, <2>8, <2>9 DEF b
<1> QED BY <1>1, VaultInvHolds, PTL

\* What is published is what was staged, whole, whatever the doctor said of the
\* mirror and whichever copy went bad on the way to the NAS; and of what may be
\* bad with it, exactly what the restore and the weekly verification refuse.
THEOREM PublishedBackupsRestore == VaultSpec => PublishedRestores
<1> DEFINE Good == Len(vault') > Len(vault) =>
        LET i == Len(vault')
            b == vault'[i]
        IN  /\ b.db = i /\ b.manifests = b.was
            /\ \A x \in References(b.was) : pool'[x] = Intact
            /\ verify_backup_self(b) <=> b.db_sha = i /\ b.census = i
            /\ \A full \in BOOLEAN :
                 restorable(b, pool', full) <=> b.db_sha = i /\ (full \/ Few(b))
<1>1. VaultInv /\ [VaultNext]_vaultVars => [Good]_vaultVars
  <2> SUFFICES ASSUME VaultInv, VaultNext, Len(vault') > Len(vault)
               PROVE  Good
    OBVIOUS
  <2>1. Len(vault) \in Nat /\ DOMAIN vault = 1..Len(vault) /\ vault \in Seq(Published)
    BY LenProperties DEF VaultInv
  <2>2. vault' # vault
    BY <2>1
  <2>3. Release
    <3>1. ~ Decay
      <4>1. SUFFICES ASSUME Decay PROVE FALSE
        OBVIOUS
      <4>2. PICK i \in DOMAIN vault : \E e : vault' = [vault EXCEPT ![i] = e]
        BY <2>2, <4>1 DEF Decay
      <4>3. PICK e : vault' = [vault EXCEPT ![i] = e]
        BY <4>2
      <4>4. DOMAIN vault' = 1..Len(vault)
        BY <2>1, <4>3
      <4>5. Len(vault') = Len(vault)
        <5>1. vault' \in Seq(Published)
          BY <4>1, DecayStep DEF VaultInv
        <5>2. DOMAIN vault' = 1..Len(vault') /\ Len(vault') \in Nat
          BY <5>1, LenProperties
        <5> QED BY <2>1, <4>4, <5>2
      <4> QED BY <2>1, <4>5
    <3> QED BY <2>2, <3>1 DEF VaultNext, Stage, Land
  <2> DEFINE i == Len(vault) + 1
             b == Put
  <2>4. /\ vault' = Append(vault, b) /\ b \in Published /\ pool' = pool
        /\ b.db = i /\ b.was \in Mirrors /\ Present(b.was) # {}
        /\ b.manifests = b.was /\ b.listing = b.was
        /\ b.digest.db = i /\ b.digest.listing = b.was
        /\ b.digest.census = i /\ b.digest.sessions = b.sessions /\ b.digest # Junk
        /\ verify_manifests_sha256sum(b.manifests, b.listing)
        /\ parse_manifests(b.was).bad = {} /\ \A x \in References(b.was) : pool[x] = Intact
    BY <2>2, <2>3, PutFacts
  <2> HIDE DEF b
  <2>5. Len(vault') = i /\ vault'[i] = b
    <3>1. Len(Append(vault, b)) = i /\ Append(vault, b)[i] = b
      BY <2>1, <2>4, AppendProperties
    <3> QED BY <2>4, <3>1
  <2> HIDE DEF i
  <2>6. verify_backup_self(b) <=> b.db_sha = i /\ b.census = i
    BY <2>4 DEF verify_backup_self
  <2>7. ASSUME NEW full \in BOOLEAN
        PROVE  restorable(b, pool, full) <=> b.db_sha = i /\ (full \/ Few(b))
    <3>1. restore_verify(Truth(b.manifests, pool, full)) <=> full \/ Few(b)
      BY <2>4, DoctorFacts DEF Few
    <3>2. restorable(b, pool, full) <=>
            b.db_sha = i /\ restore_verify(Truth(b.manifests, pool, full))
      BY <2>4 DEF restorable, restore, restore_manifest_check
    <3> QED BY <3>1, <3>2
  <2> QED BY <2>4, <2>5, <2>6, <2>7
<1>2. [][Good]_vaultVars => PublishedRestores
  BY PTL DEF PublishedRestores
<1> QED BY <1>1, <1>2, VaultInvHolds, PTL DEF VaultSpec
=============================================================================
