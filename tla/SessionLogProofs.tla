--------------------------- MODULE SessionLogProofs ---------------------------
(***************************************************************************)
(* Proofs about SessionLog for every number of processes and of commits,   *)
(* and about AppendIndex for any identifiers and any number of commits.    *)
(***************************************************************************)
EXTENDS SessionLog, AppendIndex, SequenceTheorems, FiniteSetTheorems, TLAPS

(* A prefix of a log is a log, and keeps the entries it has.               *)
LEMMA PrefixIsLog ==
  ASSUME NEW S, NEW s \in Seq(S), NEW n \in 0..Len(s)
  PROVE  /\ SubSeq(s, 1, n) \in Seq(S)
         /\ Len(SubSeq(s, 1, n)) = n
         /\ \A i \in 1..n : SubSeq(s, 1, n)[i] = s[i]
  BY SubSeqProperties

(* The fields of a line have the types the reader expects of them.         *)
LEMMA LineFields ==
  ASSUME NEW l \in Line
  PROVE  /\ l.id \in Nat /\ l.rev \in BOOLEAN
         /\ \A b \in BOOLEAN : [l EXCEPT !.ok = b] \in Line
  BY DEF Line

LEMMA NoCommitIsLine == NoCommit \in Line
  BY DEF NoCommit, Line

(* The digest a log ends with, and the one HEAD should name, are digests.  *)
LEMMA DigestTypes ==
  ASSUME NEW ls \in Seq(Line)
  PROVE  LastDigest(ls) \in Nat /\ ActiveRevision(ls) \subseteq Nat
<1>1. \A i \in 1..Len(ls) : ls[i] \in Line
  OBVIOUS
<1>2. \A i \in 1..Len(ls) : ls[i].id \in Nat
  BY <1>1, LineFields
<1>3. ls # <<>> => Len(ls) \in 1..Len(ls)
  BY EmptySeq
<1>4. LastDigest(ls) \in Nat
  BY <1>2, <1>3 DEF LastDigest
<1>5. ActiveRevision(ls) \subseteq Nat
  BY <1>2 DEF ActiveRevision
<1> QED BY <1>4, <1>5

(* Type correctness: every variable of the writer keeps its type through   *)
(* every stage of append, open, repair, export and crash.                  *)
LEMMA TypeStep == TypeOK /\ [Next]_vars => TypeOK'
<1> SUFFICES ASSUME TypeOK, [Next]_vars PROVE TypeOK'
  OBVIOUS
<1> USE LogAssumption, NoCommitIsLine DEF TypeOK, PcStates
<1>1. CASE PowerLoss
  <2>1. lines' \in Seq(Line)
    <3>1. CASE \E n \in synced..Len(lines) : lines' = SubSeq(lines, 1, n)
      <4>1. PICK n \in synced..Len(lines) : lines' = SubSeq(lines, 1, n)
        BY <3>1
      <4>2. n \in 0..Len(lines)
        OBVIOUS
      <4> QED BY <4>1, <4>2, PrefixIsLog
    <3>2. CASE lines' = <<>>
      BY <3>2
    <3> QED BY <1>1, <3>1, <3>2 DEF PowerLoss
  <2> QED BY <1>1, <2>1 DEF PowerLoss
<1>2. ASSUME NEW w \in Writers, HandleStep(w) PROVE TypeOK'
  <2>0. /\ ActiveRevision(lines) \subseteq Nat
        /\ ActiveRevision(snap[w]) \subseteq Nat
        /\ LastDigest(snap[w]) \in Nat
    BY DigestTypes
  <2>1. CASE CreateTemporary(w)
    BY <2>1 DEF CreateTemporary
  <2>2. CASE Publish(w)
    <3>1. lines' \in Seq(Line)
      <4>1. lines' = <<>> \/ lines' = lines
        BY <2>2, Zenon DEF Publish
      <4>2. <<>> \in Seq(Line)
        OBVIOUS
      <4> QED BY <4>1, <4>2
    <3>2. pc' \in [Writers -> PcStates]
      BY <2>2 DEF Publish
    <3> QED BY <2>2, <3>1, <3>2 DEF Publish
  <2>3. CASE CreateReturns(w)
    BY <2>3 DEF CreateReturns
  <2>4. CASE CreateInterrupted(w)
    BY <2>4 DEF CreateInterrupted, Release
  <2>5. CASE Open(w)
    BY <2>0, <2>5 DEF Open
  <2>6. CASE RepairTornTail(w)
    BY <2>0, <2>6 DEF RepairTornTail
  <2>7. ASSUME NEW rev \in BOOLEAN, BeginCommit(w, rev) PROVE TypeOK'
    <3>1. [ok |-> TRUE, seq |-> Len(snap[w]) + 1, prev |-> LastDigest(snap[w]),
           id |-> nextId, rev |-> rev] \in Line
      BY <2>0 DEF Line
    <3> QED BY <2>7, <3>1 DEF BeginCommit
  <2>8. CASE WriteBody(w)
    BY <2>8 DEF WriteBody, Fault
  <2>9. CASE WriteNewline(w)
    <3>1. [pending[w] EXCEPT !.ok = (tail = "body")] \in Line
      BY LineFields
    <3>2. lines' \in Seq(Line)
      <4>1. Append(lines, [pending[w] EXCEPT !.ok = (tail = "body")]) \in Seq(Line)
        BY <3>1, AppendProperties
      <4>2. \/ lines' = Append(lines, [pending[w] EXCEPT !.ok = (tail = "body")])
            \/ lines' = lines
        BY <2>9, Zenon DEF WriteNewline, Fault
      <4> QED BY <4>1, <4>2
    <3>3. pc' \in [Writers -> PcStates]
      BY <2>9 DEF WriteNewline, Fault
    <3> QED BY <2>9, <3>2, <3>3 DEF WriteNewline, Fault
  <2>10. CASE SyncAndAdopt(w)
    <3>1. Append(snap[w], pending[w]) \in Seq(Line)
      BY AppendProperties
    <3>2. snap' \in [Writers -> Seq(Line)]
      BY <2>10, <3>1 DEF SyncAndAdopt, Fault
    <3>3. acked' \in Seq(Line)
      BY <2>10, <3>1 DEF SyncAndAdopt, Fault
    <3>4. pc' \in [Writers -> PcStates]
      BY <2>10 DEF SyncAndAdopt, Fault
    <3> QED BY <2>10, <3>2, <3>3, <3>4 DEF SyncAndAdopt, Fault
  <2>11. CASE RefreshHead(w)
    BY <2>0, <2>11 DEF RefreshHead
  <2>12. CASE ExportTo(w)
    BY <2>12 DEF ExportTo
  <2>13. CASE Close(w)
    BY <2>13 DEF Close, Release
  <2>14. CASE ProcessCrash(w)
    BY <2>14 DEF ProcessCrash, Release
  <2> QED
    BY <1>2, <2>1, <2>2, <2>3, <2>4, <2>5, <2>6, <2>7, <2>8, <2>9, <2>10,
       <2>11, <2>12, <2>13, <2>14 DEF HandleStep
<1>3. CASE UNCHANGED vars
  BY <1>3 DEF vars
<1> QED
  BY <1>1, <1>2, <1>3 DEF Next

(* Every reachable state of the session writer is well typed.              *)
THEOREM TypeCorrect == Spec => []TypeOK
<1>1. Init => TypeOK
  BY LogAssumption, NoCommitIsLine DEF Init, TypeOK, PcStates
<1> QED
  BY <1>1, TypeStep, PTL DEF Spec
-----------------------------------------------------------------------------
(* A chain extended by the line sealed for it, or cut to a prefix, is a    *)
(* chain: what makes append and truncation keep the log readable.          *)
LEMMA ChainExtends ==
  ASSUME NEW ls \in Seq(Line), NEW e \in Line, ChainOK(ls),
         e.ok, e.seq = Len(ls) + 1, e.prev = LastDigest(ls)
  PROVE  ChainOK(Append(ls, e))
<1> DEFINE m == Append(ls, e)
<1>1. /\ Len(m) = Len(ls) + 1 /\ m[Len(ls) + 1] = e
      /\ \A i \in 1..Len(ls) : m[i] = ls[i]
  BY AppendProperties
<1>2. ls # <<>> => LastDigest(ls) = ls[Len(ls)].id
  BY DEF LastDigest
<1>3. ls = <<>> <=> Len(ls) = 0
  BY EmptySeq
<1>4. ls = <<>> => LastDigest(ls) = 0
  BY DEF LastDigest
<1> SUFFICES ASSUME NEW i \in 1..Len(m)
             PROVE  /\ m[i].ok /\ m[i].seq = i
                    /\ m[i].prev = (IF i = 1 THEN 0 ELSE m[i - 1].id)
  BY DEF ChainOK
<1>5. CASE i = Len(ls) + 1
  BY <1>1, <1>2, <1>3, <1>4, <1>5
<1>6. CASE i \in 1..Len(ls)
  BY <1>1, <1>6 DEF ChainOK
<1> QED BY <1>1, <1>5, <1>6

LEMMA ChainCut ==
  ASSUME NEW ls \in Seq(Line), NEW n \in 0..Len(ls), ChainOK(ls)
  PROVE  ChainOK(SubSeq(ls, 1, n))
  BY PrefixIsLog DEF ChainOK

(* Extending or cutting a log keeps the prefixes that reach no further.    *)
LEMMA PrefixExtends ==
  ASSUME NEW s \in Seq(Line), NEW t \in Seq(Line), NEW e \in Line,
         IsPrefixOf(s, t)
  PROVE  IsPrefixOf(s, Append(t, e))
  BY AppendProperties DEF IsPrefixOf

LEMMA PrefixCut ==
  ASSUME NEW s \in Seq(Line), NEW t \in Seq(Line), NEW n \in 0..Len(t),
         IsPrefixOf(s, t), Len(s) <= n
  PROVE  IsPrefixOf(s, SubSeq(t, 1, n))
  BY PrefixIsLog DEF IsPrefixOf

LEMMA PrefixReflexive ==
  ASSUME NEW s \in Seq(Line)
  PROVE  IsPrefixOf(s, s)
  BY DEF IsPrefixOf

LEMMA ChainEmpty == ChainOK(<<>>)
  BY DEF ChainOK

LEMMA InitInv == Init => IInv
<1> SUFFICES ASSUME Init PROVE IInv
  OBVIOUS
<1>1. TypeOK
  BY LogAssumption, NoCommitIsLine DEF Init, TypeOK, PcStates
<1>2. LockInv /\ StageInv
  BY DEF Init, LockInv, StageInv, Holding, PcStates
<1>3. DiskInv
  BY ChainEmpty DEF Init, DiskInv
<1>4. AckInv
  BY DEF Init, AckInv, IsPrefixOf
<1> QED BY <1>1, <1>2, <1>3, <1>4 DEF IInv

(* The lock excludes other handles: while one holds it no other handle is  *)
(* in a state that assumes anything about the file.                        *)
LEMMA Alone ==
  ASSUME IInv, NEW w \in Writers, pc[w] \in Holding
  PROVE  \A v \in Writers : v # w => pc[v] \in {"closed", "creating"}
  BY DEF IInv, LockInv, Holding, TypeOK

(* The machine may die at any point of any append.                         *)
LEMMA PowerLossInv == IInv /\ PowerLoss => (LockInv /\ StageInv /\ DiskInv /\ AckInv)'
<1> SUFFICES ASSUME IInv, PowerLoss
             PROVE  (LockInv /\ StageInv /\ DiskInv /\ AckInv)'
  OBVIOUS
<1>1. LockInv' /\ StageInv'
  BY DEF IInv, PowerLoss, LockInv, StageInv, Holding, PcStates, TypeOK
<1>2. CASE dir = "volatile" /\ ~RenameDurable /\ dir' = "absent" /\ lines' = <<>>
           /\ tail' = "none" /\ synced' = 0
  <2>1. DiskInv'
    BY <1>2, ChainEmpty DEF IInv, PowerLoss, DiskInv
  <2>2. AckInv'
    BY <1>2 DEF AckInv
  <2> QED BY <1>1, <2>1, <2>2
<1>3. ASSUME NEW n \in synced..Len(lines), lines' = SubSeq(lines, 1, n),
             synced' = n, dir' = "present"
      PROVE  DiskInv' /\ AckInv'
  <2>1. n \in 0..Len(lines) /\ lines \in Seq(Line)
    BY DEF IInv, TypeOK
  <2>2. Len(lines') = n
    BY <1>3, <2>1, PrefixIsLog
  <2>3. ChainOK(lines')
    BY <1>3, <2>1, ChainCut DEF IInv, DiskInv
  <2>4. DiskInv'
    BY <1>3, <2>1, <2>2, <2>3 DEF DiskInv
  <2>5. ASSUME Strict, RenameDurable PROVE Len(acked') <= synced' /\ IsPrefixOf(acked', lines')
    <3>1. acked' = acked /\ acked \in Seq(Line) /\ Len(acked) <= n /\ IsPrefixOf(acked, lines)
      BY <1>3, <2>5 DEF IInv, AckInv, TypeOK, PowerLoss
    <3> QED BY <1>3, <2>1, <3>1, PrefixCut
  <2> QED BY <2>4, <2>5 DEF AckInv
<1> QED BY <1>1, <1>2, <1>3 DEF PowerLoss

(* Every operation of a handle keeps the invariant: the lock makes the     *)
(* holder the only one whose stage can be disturbed.                       *)
LEMMA HandleInv ==
  ASSUME IInv, TypeOK', NEW w \in Writers, HandleStep(w)
  PROVE  (LockInv /\ StageInv /\ DiskInv /\ AckInv)'
<1>0. /\ TypeOK /\ LockInv /\ StageInv /\ DiskInv /\ AckInv
  BY DEF IInv
<1>a. pc[w] \in Holding => \A v \in Writers : v # w => pc[v] \in {"closed", "creating"}
  BY Alone
<1>b. \A v \in Writers : lock = {} => pc[v] \in {"closed", "creating"}
  BY <1>0 DEF LockInv, Holding, TypeOK
<1>c. pc \in [Writers -> PcStates]
  BY <1>0 DEF TypeOK
<1>1. CASE CreateTemporary(w)
  <2>1. LockInv' /\ StageInv'
    BY <1>0, <1>1, <1>c DEF CreateTemporary, LockInv, StageInv, Holding, PcStates, Sealed
  <2> QED BY <1>0, <1>1, <2>1 DEF CreateTemporary, DiskInv, AckInv
<1>2. CASE Publish(w)
  <2>1. CASE dir = "absent"
    <3>1. lines = <<>> /\ tail = "none" /\ synced = 0 /\ lock = {}
      BY <1>0, <2>1 DEF DiskInv
    <3>2. lines' = lines /\ tail' = tail /\ synced' = synced /\ acked' = acked
          /\ lock' = {w} /\ pc' = [pc EXCEPT ![w] = "publishing"] /\ dir' = "volatile"
          /\ snap' = snap /\ pending' = pending
      BY <1>2, <2>1, <3>1 DEF Publish
    <3>3. LockInv'
      BY <1>b, <1>c, <3>1, <3>2 DEF LockInv, Holding, PcStates
    <3>4. snap[w] = <<>>
      BY <1>0, <1>2 DEF StageInv, Publish
    <3>5. StageInv'
      BY <1>0, <1>b, <1>c, <3>1, <3>2, <3>4 DEF StageInv, PcStates
    <3>6. DiskInv' /\ AckInv'
      BY <1>0, <3>2 DEF DiskInv, AckInv
    <3> QED BY <3>3, <3>5, <3>6
  <2>2. CASE dir # "absent"
    <3>1. LockInv' /\ StageInv'
      BY <1>0, <1>2, <2>2, <1>c DEF Publish, LockInv, StageInv, Holding, PcStates, Sealed
    <3> QED BY <1>0, <1>2, <2>2, <3>1 DEF Publish, DiskInv, AckInv
  <2> QED BY <2>1, <2>2
<1>3. CASE CreateReturns(w)
  <2>1. LockInv' /\ StageInv'
    BY <1>0, <1>3, <1>c DEF CreateReturns, LockInv, StageInv, Holding, PcStates, Sealed
  <2>2. lock # {}
    BY <1>0, <1>3, <1>c DEF LockInv, Holding, PcStates, CreateReturns
  <2> QED BY <1>0, <1>3, <2>1, <2>2 DEF CreateReturns, DiskInv, AckInv
<1>4. ASSUME Release(w), pc[w] # "closed", tail' \in {tail, "torn"},
             pc[w] \notin Holding => tail' = tail,
             UNCHANGED <<dir, lines, synced, head, nextId, acked, export>>
      PROVE  (LockInv /\ StageInv /\ DiskInv /\ AckInv)'
  <2>0. snap \in [Writers -> Seq(Line)]
    BY <1>0 DEF TypeOK
  <2>1. LockInv'
    BY <1>0, <1>4, <1>c DEF Release, LockInv, Holding, PcStates
  <2>2. StageInv'
    <3>1. CASE pc[w] \in Holding
      BY <1>0, <1>4, <1>a, <1>c, <3>1, <2>0 DEF Release, StageInv, Holding, PcStates, Sealed
    <3>2. CASE pc[w] \notin Holding
      BY <1>0, <1>4, <1>c, <3>2, <2>0 DEF Release, StageInv, Holding, PcStates, Sealed
    <3> QED BY <3>1, <3>2
  <2>3. DiskInv'
    <3>1. pc[w] \in Holding => lock # {}
      BY <1>0 DEF LockInv
    <3> QED BY <1>0, <1>4, <3>1 DEF DiskInv, Release
  <2> QED BY <1>0, <1>4, <2>1, <2>2, <2>3 DEF AckInv
<1>5. CASE Open(w)
  <2>1. LockInv'
    BY <1>b, <1>c, <1>5 DEF Open, LockInv, Holding, PcStates
  <2>2. StageInv'
    BY <1>0, <1>b, <1>c, <1>5 DEF Open, StageInv, PcStates, Sealed, TypeOK
  <2> QED BY <1>0, <1>5, <2>1, <2>2 DEF Open, DiskInv, AckInv
<1>6. CASE RepairTornTail(w)
  <2>1. LockInv' /\ StageInv'
    BY <1>0, <1>b, <1>c, <1>6 DEF RepairTornTail, LockInv, StageInv, Holding, PcStates, Sealed
  <2>2. synced' \in {synced, Len(lines)}
    BY <1>6 DEF RepairTornTail
  <2>3. synced <= synced' /\ synced' <= Len(lines)
    BY <1>0, <2>2 DEF DiskInv, TypeOK
  <2>4. DiskInv'
    BY <1>0, <1>6, <2>3 DEF RepairTornTail, DiskInv
  <2>5. AckInv'
    BY <1>0, <1>6, <2>3 DEF RepairTornTail, AckInv, TypeOK
  <2> QED BY <2>1, <2>4, <2>5
<1>7. ASSUME NEW rev \in BOOLEAN, BeginCommit(w, rev)
      PROVE  (LockInv /\ StageInv /\ DiskInv /\ AckInv)'
  <2>1. LockInv'
    BY <1>0, <1>7, <1>c DEF BeginCommit, LockInv, Holding, PcStates
  <2>2. pc[w] = "ready" /\ pending \in [Writers -> Line]
    BY <1>0, <1>7 DEF BeginCommit, TypeOK
  <2>3. StageInv'
    BY <1>0, <1>7, <1>a, <1>c, <2>2 DEF BeginCommit, StageInv, Holding, PcStates, Sealed
  <2> QED BY <1>0, <1>7, <2>1, <2>3 DEF BeginCommit, DiskInv, AckInv
<1>8. ASSUME Fault(w), pc[w] \in {"body", "newline", "sync"}, tail' \in {tail, "torn"}
      PROVE  (LockInv /\ StageInv /\ DiskInv /\ AckInv)'
  <2>1. LockInv' /\ StageInv'
    BY <1>0, <1>8, <1>a, <1>c DEF Fault, LockInv, StageInv, Holding, PcStates, Sealed
  <2>2. dir # "absent"
    BY <1>0, <1>8 DEF DiskInv, LockInv, Holding, PcStates
  <2> QED BY <1>0, <1>8, <2>1, <2>2 DEF Fault, DiskInv, AckInv
<1>9. CASE WriteBody(w)
  <2>1. CASE tail' \in {tail, "torn"} /\ Fault(w)
    BY <1>8, <1>9, <2>1 DEF WriteBody
  <2>2. CASE pc' = [pc EXCEPT ![w] = "newline"] /\ tail' = (IF tail = "none" THEN "body" ELSE "torn")
    <3>1. LockInv' /\ StageInv'
      BY <1>0, <1>9, <2>2, <1>a, <1>c DEF WriteBody, LockInv, StageInv, Holding, PcStates, Sealed, Fault
    <3>2. dir # "absent"
      BY <1>0, <1>9 DEF DiskInv, LockInv, Holding, PcStates, WriteBody
    <3> QED BY <1>0, <1>9, <2>2, <3>1, <3>2 DEF WriteBody, DiskInv, AckInv, Fault
  <2> QED BY <1>9, <2>1, <2>2 DEF WriteBody
<1>10. CASE WriteNewline(w)
  <2>1. CASE UNCHANGED tail /\ Fault(w)
    BY <1>8, <1>10, <2>1 DEF WriteNewline
  <2>2. CASE ~(UNCHANGED tail /\ Fault(w))
    <3>1. snap[w] = lines /\ tail = "body" /\ Sealed(w) /\ pc[w] = "newline"
      BY <1>0, <1>10 DEF StageInv, WriteNewline
    <3>2. /\ pending[w] \in Line /\ lines \in Seq(Line) /\ acked \in Seq(Line)
          /\ snap \in [Writers -> Seq(Line)] /\ synced \in Nat
      BY <1>0 DEF TypeOK
    <3>3. [pending[w] EXCEPT !.ok = (tail = "body")] = pending[w]
      BY <3>1, <3>2 DEF Sealed, Line
    <3>4. /\ lines' = Append(lines, pending[w]) /\ tail' = "none"
          /\ pc' = [pc EXCEPT ![w] = "sync"]
          /\ UNCHANGED <<dir, synced, lock, snap, pending, acked>>
      BY <1>10, <2>2, <3>3 DEF WriteNewline
    <3>5. LockInv'
      BY <1>0, <1>c, <3>1, <3>4 DEF LockInv, Holding, PcStates
    <3>6. StageInv'
      BY <1>0, <1>a, <1>c, <3>1, <3>4 DEF StageInv, Holding, PcStates
    <3>7. ChainOK(lines')
      BY <1>0, <3>1, <3>2, <3>4, ChainExtends DEF DiskInv, Sealed
    <3>8. Len(lines') = Len(lines) + 1 /\ dir # "absent"
      BY <1>0, <3>1, <3>2, <3>4 DEF DiskInv, LockInv, Holding, PcStates
    <3>9. DiskInv'
      BY <1>0, <3>2, <3>4, <3>7, <3>8 DEF DiskInv
    <3>10. AckInv'
      BY <1>0, <3>2, <3>4, PrefixExtends DEF AckInv
    <3> QED BY <3>5, <3>6, <3>9, <3>10
  <2> QED BY <2>1, <2>2
<1>11. CASE SyncAndAdopt(w)
  <2>1. CASE UNCHANGED tail /\ Fault(w)
    BY <1>8, <1>11, <2>1 DEF SyncAndAdopt
  <2>2. CASE ~(UNCHANGED tail /\ Fault(w))
    <3>1. pc[w] = "sync" /\ lines = Append(snap[w], pending[w]) /\ tail = "none"
      BY <1>0, <1>11 DEF StageInv, SyncAndAdopt
    <3>2. /\ synced' = (IF Strict THEN Len(lines) ELSE synced)
          /\ snap' = [snap EXCEPT ![w] = lines]
          /\ pc' = [pc EXCEPT ![w] = IF pending[w].rev THEN "head" ELSE "ready"]
          /\ acked' = IF pending[w].rev THEN acked ELSE lines
          /\ UNCHANGED <<dir, lines, tail, lock, pending>>
      BY <1>0, <1>11, <2>2, <3>1 DEF SyncAndAdopt, TypeOK
    <3>3. LockInv'
      BY <1>0, <1>c, <3>1, <3>2 DEF LockInv, Holding, PcStates
    <3>4. snap \in [Writers -> Seq(Line)] /\ lines \in Seq(Line) /\ synced \in Nat
      BY <1>0 DEF TypeOK
    <3>5. StageInv'
      BY <1>0, <1>a, <1>c, <3>1, <3>2, <3>4 DEF StageInv, Holding, PcStates
    <3>6. DiskInv'
      BY <1>0, <3>2, <3>4 DEF DiskInv
    <3>7. AckInv'
      BY <1>0, <3>2, <3>4, PrefixReflexive DEF AckInv, DiskInv, TypeOK
    <3> QED BY <3>3, <3>5, <3>6, <3>7
  <2> QED BY <2>1, <2>2
<1>12. CASE RefreshHead(w)
  <2>1. pc[w] = "head" /\ snap[w] = lines /\ (Strict => synced = Len(lines))
    BY <1>0, <1>12 DEF StageInv, RefreshHead
  <2>2. LockInv' /\ StageInv'
    BY <1>0, <1>12, <1>a, <1>c DEF RefreshHead, LockInv, StageInv, Holding, PcStates, Sealed
  <2>3. AckInv'
    BY <1>0, <1>12, <2>1, PrefixReflexive DEF RefreshHead, AckInv, TypeOK
  <2> QED BY <1>0, <1>12, <2>2, <2>3 DEF RefreshHead, DiskInv
<1>13. CASE ExportTo(w)
  <2>1. LockInv' /\ StageInv'
    BY <1>0, <1>13 DEF ExportTo, LockInv, StageInv, Sealed
  <2>2. DiskInv'
    <3>1. lines = <<>> => Len(lines) = 0
      OBVIOUS
    <3> QED BY <1>0, <1>13, <3>1 DEF ExportTo, DiskInv, TypeOK
  <2>3. AckInv'
    BY <1>0, <1>13 DEF ExportTo, AckInv, DiskInv, TypeOK
  <2> QED BY <2>1, <2>2, <2>3
<1>14. CASE CreateInterrupted(w)
  BY <1>4, <1>14 DEF CreateInterrupted
<1>15. CASE Close(w)
  BY <1>4, <1>15 DEF Close
<1>16. CASE ProcessCrash(w)
  <2>1. tail' \in {tail, "torn"} /\ (pc[w] \notin Holding => tail' = tail)
    BY <1>16 DEF ProcessCrash, Holding, PcStates
  <2> QED BY <1>4, <1>16, <2>1 DEF ProcessCrash
<1> QED
  BY <1>1, <1>2, <1>3, <1>5, <1>6, <1>7, <1>9, <1>10, <1>11, <1>12, <1>13,
     <1>14, <1>15, <1>16 DEF HandleStep

(* A stuttering step leaves every part of the invariant as it was.         *)
LEMMA StutterInv == IInv /\ UNCHANGED vars => IInv'
  BY DEF IInv, vars, TypeOK, LockInv, StageInv, DiskInv, AckInv, Sealed

LEMMA StepInv == IInv /\ [Next]_vars => IInv'
<1> SUFFICES ASSUME IInv, [Next]_vars PROVE IInv'
  OBVIOUS
<1>1. TypeOK'
  BY TypeStep DEF IInv
<1>2. CASE PowerLoss
  BY <1>1, <1>2, PowerLossInv DEF IInv
<1>3. ASSUME NEW w \in Writers, HandleStep(w) PROVE IInv'
  BY <1>1, <1>3, HandleInv DEF IInv
<1> QED BY <1>2, <1>3, StutterInv DEF Next

(* The lock, the stages of append and the durable prefix stay consistent   *)
(* for every number of processes, whichever of them die and whenever.      *)
THEOREM LogInvariant == Spec => []IInv
  BY InitInv, StepInv, PTL DEF Spec

(* The log never turns into corruption: after any sequence of appends,     *)
(* torn writes, repairs and crashes every complete line is accepted.       *)
THEOREM Readable == Spec => []LogReadable
<1>1. IInv => LogReadable
  BY DEF IInv, DiskInv, LogReadable
<1> QED BY <1>1, LogInvariant, PTL

(* A handle that is about to append knows the file exactly, although other *)
(* processes opened, repaired, appended and died since it was created.     *)
THEOREM HandleExact == Spec => []ReadyHandleIsExact
<1>1. IInv => ReadyHandleIsExact
  BY DEF IInv, StageInv, ReadyHandleIsExact
<1> QED BY <1>1, LogInvariant, PTL

(* Strict mode on a file system with durable renames: no commit that       *)
(* commit() acknowledged is ever lost.                                     *)
THEOREM AckedDurable ==
  ASSUME Strict, RenameDurable PROVE Spec => []AckedSurvives
<1>1. IInv => AckedSurvives
  BY DEF IInv, AckInv, AckedSurvives
<1> QED BY <1>1, LogInvariant, PTL

-----------------------------------------------------------------------------
(* Every step of the writer is a step of the promised log or leaves it:    *)
(* a newline joins a commit, adoption acknowledges it, power loss takes    *)
(* back an unacknowledged suffix, and nothing else touches the log.        *)
LEMMA RefinesStep ==
  ASSUME Strict, RenameDurable, IInv, IInv', [Next]_vars
  PROVE  [Promise!Next]_(Promise!vars)
<1>0. /\ TypeOK /\ StageInv /\ DiskInv /\ AckInv /\ TypeOK'
      /\ Len(acked) <= synced
  BY DEF IInv, AckInv
<1> USE DEF Promise!vars
<1>1. CASE PowerLoss
  <2>1. PICK n \in synced..Len(lines) : lines' = SubSeq(lines, 1, n)
    BY <1>1 DEF PowerLoss
  <2>2. n \in Len(acked)..Len(lines)
    BY <1>0 DEF TypeOK
  <2>3. Promise!Lose
    BY <1>1, <2>1, <2>2 DEF PowerLoss, Promise!Lose
  <2> QED BY <2>3 DEF Promise!Next
<1>2. ASSUME NEW w \in Writers, HandleStep(w), UNCHANGED <<lines, acked>>
      PROVE  [Promise!Next]_(Promise!vars)
  BY <1>2
<1>3. ASSUME NEW w \in Writers, Publish(w) PROVE UNCHANGED <<lines, acked>>
  BY <1>0, <1>3 DEF Publish, DiskInv
<1>4. ASSUME NEW w \in Writers, WriteNewline(w)
      PROVE  [Promise!Next]_(Promise!vars)
  <2>1. CASE UNCHANGED lines
    BY <1>4, <2>1 DEF WriteNewline, Fault
  <2>2. CASE ~UNCHANGED lines
    <3> DEFINE e == [pending[w] EXCEPT !.ok = (tail = "body")]
    <3>1. lines' = Append(lines, e) /\ acked' = acked
      BY <1>4, <2>2 DEF WriteNewline, Fault
    <3>2. e \in Line /\ lines \in Seq(Line)
      BY <1>0, LineFields DEF TypeOK
    <3>3. Len(lines') = Len(lines) + 1 /\ lines'[Len(lines')] = e
      BY <3>1, <3>2, AppendProperties
    <3>4. Promise!Join
      BY <3>1, <3>2, <3>3 DEF Promise!Join
    <3> QED BY <3>4 DEF Promise!Next
  <2> QED BY <2>1, <2>2
<1>5. ASSUME NEW w \in Writers, SyncAndAdopt(w)
      PROVE  [Promise!Next]_(Promise!vars)
  <2>1. lines = Append(snap[w], pending[w])
    BY <1>0, <1>5 DEF StageInv, SyncAndAdopt
  <2>2. lines' = lines /\ acked' \in {acked, lines}
    BY <1>5, <2>1 DEF SyncAndAdopt, Fault
  <2> QED BY <2>2 DEF Promise!Next, Promise!Acknowledge
<1>6. ASSUME NEW w \in Writers, RefreshHead(w)
      PROVE  [Promise!Next]_(Promise!vars)
  <2>1. lines' = lines /\ acked' = lines
    BY <1>0, <1>6 DEF StageInv, RefreshHead
  <2> QED BY <2>1 DEF Promise!Next, Promise!Acknowledge
<1>7. ASSUME NEW w \in Writers, HandleStep(w)
      PROVE  [Promise!Next]_(Promise!vars)
  <2>1. \/ WriteNewline(w) \/ SyncAndAdopt(w) \/ RefreshHead(w)
        \/ UNCHANGED <<lines, acked>>
    BY <1>3, <1>7, Zenon DEF HandleStep, CreateTemporary, CreateReturns,
       CreateInterrupted, Open, RepairTornTail, BeginCommit, WriteBody, Fault,
       ExportTo, Close, ProcessCrash
  <2> QED BY <1>2, <1>4, <1>5, <1>6, <1>7, <2>1
<1>8. CASE UNCHANGED vars
  BY <1>8 DEF vars
<1> QED BY <1>1, <1>7, <1>8 DEF Next

(* The session directory implements the durable log its callers were       *)
(* promised: in strict mode, on a file system with durable renames.        *)
THEOREM Refines ==
  ASSUME Strict, RenameDurable PROVE Spec => ImplementsDurableLog
<1>1. Init => Promise!Init
  BY DEF Init, Promise!Init
<1>2. IInv /\ IInv' /\ [Next]_vars => [Promise!Next]_(Promise!vars)
  BY RefinesStep
<1> QED
  BY <1>1, <1>2, LogInvariant, PTL DEF Spec, ImplementsDurableLog, Promise!Spec

-----------------------------------------------------------------------------
(* The index of a writer, and the reduction it stands for.                 *)

(* The types of what the reduction knows.                                  *)
Bodies == UserBodies \cup {"assistant", "revision", "result"}
OpType == [lane : IdxLanes \cup {None}, finished : BOOLEAN, epochs : Nat, open : SUBSET Epochs]
StepType == [op : OpIds \cup {None}, epoch : Epochs \cup {None}, kind : Kinds \cup {None}]
LeafMap == [IdxLanes -> Leaves \cup {None}]
BodyMap == [Entries -> Bodies \cup {None}]
CallMap == [Entries -> Entries \cup {None}]
ProvMap == [Entries -> UserBodies \cup {None}]
OpMap == [OpIds -> OpType]
ActiveMap == [IdxLanes -> OpIds \cup {None}]
EpochMap == [Epochs -> OpIds \cup {None}]
StepMap == [Steps -> StepType]
AttemptMap == [Epochs \X Kinds -> Nat]
RequestMap == [Requests -> OpIds \cup {None}]
Tools == SUBSET [op : OpIds, call : Entries, result : Entries]
Activations == SUBSET [op : OpIds, entry : Entries]
InputSets == SUBSET (IdxLanes \X Inputs)

LogType ==
  [ok : BOOLEAN, leaf : LeafMap, body : BodyMap, call : CallMap, prov : ProvMap,
   op : OpMap, active : ActiveMap, epoch : EpochMap, step : StepMap,
   attempt : AttemptMap, request : RequestMap, settled : SUBSET Requests,
   tools : Tools, activations : Activations, inputs : InputSets,
   dispatched : SUBSET Entries, bound : SUBSET IdxLanes, child : SUBSET OpIds]

(* What the reduction knows of operations, activations and results hangs   *)
(* together: an operation has a lane, an activation and a child's operation *)
(* are of one that was accepted, and a result names a call.                *)
Known(s) ==
  /\ \A o \in OpIds : s.op[o] # NoOp => s.op[o].lane \in IdxLanes
  /\ \A a \in s.activations : s.op[a.op] # NoOp
  /\ \A q \in s.child : s.op[q] # NoOp
  /\ \A e \in Entries : s.body[e] = "result" => s.call[e] \in Entries

(* The index an open builds from what the reduction knows: `idx` is to be  *)
(* this and nothing else.                                                  *)
IndexOf(s) ==
  [entries |-> {e \in Entries : s.body[e] # None}, leaf |-> s.leaf, prov |-> s.prov, op |-> s.op,
   active |-> s.active, epoch |-> s.epoch, step |-> s.step, attempt |-> s.attempt,
   request |-> s.request, settled |-> s.settled, agents |-> s.bound, ready |-> TRUE]

(* The types of an index.                                                  *)
IdxType ==
  [entries : SUBSET Entries, leaf : LeafMap, prov : ProvMap, op : OpMap, active : ActiveMap,
   epoch : EpochMap, step : StepMap, attempt : AttemptMap, request : RequestMap,
   settled : SUBSET Requests, agents : SUBSET IdxLanes, ready : BOOLEAN]

(* Two indexes with the same fields are the same.                          *)
LEMMA SameIndex ==
  ASSUME NEW x \in IdxType, NEW y \in IdxType,
         x.entries = y.entries, x.leaf = y.leaf, x.prov = y.prov, x.op = y.op,
         x.active = y.active, x.epoch = y.epoch, x.step = y.step, x.attempt = y.attempt,
         x.request = y.request, x.settled = y.settled, x.agents = y.agents, x.ready = y.ready
  PROVE  x = y
  BY DEF IdxType

(* The types of what the reduction knows, field by field.                  *)
LEMMA LogFields ==
  ASSUME NEW s \in LogType
  PROVE  /\ s.ok \in BOOLEAN /\ s.leaf \in LeafMap /\ s.body \in BodyMap /\ s.call \in CallMap
         /\ s.prov \in ProvMap /\ s.op \in OpMap /\ s.active \in ActiveMap
         /\ s.epoch \in EpochMap /\ s.step \in StepMap /\ s.attempt \in AttemptMap
         /\ s.request \in RequestMap /\ s.settled \in SUBSET Requests /\ s.tools \in Tools
         /\ s.activations \in Activations /\ s.inputs \in InputSets
         /\ s.dispatched \in SUBSET Entries /\ s.bound \in SUBSET IdxLanes
         /\ s.child \in SUBSET OpIds
  BY DEF LogType

(* The index of a log, field by field.                                     *)
LEMMA IndexFields ==
  ASSUME NEW s \in LogType
  PROVE  /\ IndexOf(s) \in IdxType
         /\ IndexOf(s).entries = {e \in Entries : s.body[e] # None}
         /\ IndexOf(s).leaf = s.leaf /\ IndexOf(s).prov = s.prov /\ IndexOf(s).op = s.op
         /\ IndexOf(s).active = s.active /\ IndexOf(s).epoch = s.epoch /\ IndexOf(s).step = s.step
         /\ IndexOf(s).attempt = s.attempt /\ IndexOf(s).request = s.request
         /\ IndexOf(s).settled = s.settled /\ IndexOf(s).agents = s.bound
         /\ IndexOf(s).ready = TRUE
<1>1. PICK E : E = {e \in Entries : s.body[e] # None}
  OBVIOUS
<1>2. E \in SUBSET Entries
  BY <1>1
<1> QED BY <1>1, <1>2, LogFields DEF IndexOf, IdxType

(* An item that the reduction goes on after keeps all of this, and the index *)
(* advanced with it is the index of the longer log.                        *)
Follows(s, m) ==
  /\ Reduced(s, m) \in LogType /\ Reduced(s, m).ok = s.ok /\ Known(Reduced(s, m))
  /\ Indexed(IndexOf(s), m) = IndexOf(Reduced(s, m))

(* The entries an index holds are those of the log.                        *)
LEMMA SameEntries ==
  ASSUME NEW s, NEW r, r.body = s.body
  PROVE  IndexOf(r).entries = IndexOf(s).entries
  BY DEF IndexOf

(* An entry.  A user message under an identifier nothing is waiting for    *)
(* leaves a log that opens.                                                *)
LEMMA EntryStep ==
  ASSUME NEW s \in LogType, NEW m \in Items, m.k = "entry", Known(s)
  PROVE  /\ Follows(s, m)
         /\ /\ s.body[m.id] = None /\ m.body \in UserBodies
            /\ \A t \in s.tools : t.result # m.id
            /\ \A a \in s.activations : a.entry # m.id
            /\ Reopens(s)
            => Reopens(Reduced(s, m))
<1>0. m \in [k : {"entry"}, id : Entries, lane : IdxLanes,
          body : UserBodies \cup {"assistant", "revision"}, call : {None}]
    \cup [k : {"entry"}, id : Entries, lane : IdxLanes, body : {"result"}, call : Entries]
  BY DEF Items, LaneItems, OpItems
<1>1. m.id \in Entries /\ m.lane \in IdxLanes /\ m.body \in Bodies /\ m.call \in Entries \cup {None}
       /\ (m.body = "result" => m.call \in Entries) /\ m.body # None
  BY <1>0 DEF Bodies, UserBodies, None
<1>2. PICK l, b, c : /\ l = [s.leaf EXCEPT ![m.lane] = m.id] 
                     /\ b = [s.body EXCEPT ![m.id] = m.body] 
                     /\ c = [s.call EXCEPT ![m.id] = m.call]
  OBVIOUS
<1>3. PICK r : r = Reduced(s, m)
  OBVIOUS
<1>4. r = [s EXCEPT !.leaf = l, !.body = b, !.call = c]
  BY <1>2, <1>3 DEF Reduced, LogType
<1>5. l \in LeafMap /\ b \in BodyMap /\ c \in CallMap
  BY <1>1, <1>2, LogFields DEF LeafMap, BodyMap, CallMap, Leaves
<1>6. r \in LogType
  BY <1>4, <1>5 DEF LogType
<1>7. /\ r.ok = s.ok /\ r.leaf = l /\ r.body = b /\ r.call = c /\ r.prov = s.prov /\ r.op = s.op
      /\ r.active = s.active /\ r.epoch = s.epoch /\ r.step = s.step /\ r.attempt = s.attempt
      /\ r.request = s.request /\ r.settled = s.settled /\ r.tools = s.tools
      /\ r.activations = s.activations /\ r.bound = s.bound /\ r.child = s.child
  BY <1>4 DEF LogType
<1>8. Known(r)
  BY <1>1, <1>2, <1>7, LogFields DEF Known, BodyMap, CallMap
<1>9. Indexed(IndexOf(s), m) = IndexOf(r)
  <2>1. {e \in Entries : s.body[e] # None} \cup {m.id} = {e \in Entries : r.body[e] # None}
    BY <1>1, <1>2, <1>7, LogFields DEF BodyMap
  <2>2. Indexed(IndexOf(s), m) = [IndexOf(s) EXCEPT !.entries = @ \cup {m.id}, !.leaf[m.lane] = m.id]
    BY DEF Indexed
  <2>3. PICK E0, E1 : /\ E0 = {e \in Entries : s.body[e] # None}
                      /\ E1 = {e \in Entries : r.body[e] # None}
    OBVIOUS
  <2>4. PICK x : x = IndexOf(s)
    OBVIOUS
  <2>5. x \in IdxType /\ x.entries = E0 /\ x.leaf = s.leaf
    BY <2>3, <2>4, IndexFields
  <2>6. PICK y : y = [x EXCEPT !.entries = E1, !.leaf = l]
    OBVIOUS
  <2>7. Indexed(IndexOf(s), m) = y
    BY <1>2, <2>1, <2>2, <2>3, <2>4, <2>5, <2>6 DEF IdxType
  <2>8. y \in IdxType /\ y.entries = E1 /\ y.leaf = l /\ y.prov = x.prov /\ y.op = x.op
        /\ y.active = x.active /\ y.epoch = x.epoch /\ y.step = x.step /\ y.attempt = x.attempt
        /\ y.request = x.request /\ y.settled = x.settled /\ y.agents = x.agents /\ y.ready = x.ready
    BY <1>5, <2>3, <2>5, <2>6 DEF IdxType
  <2>9. PICK z : z = IndexOf(r)
    OBVIOUS
  <2>10. x.ready = TRUE /\ x.agents = s.bound /\ x.prov = s.prov /\ x.op = s.op /\ x.active = s.active
         /\ x.epoch = s.epoch /\ x.step = s.step /\ x.attempt = s.attempt /\ x.request = s.request
         /\ x.settled = s.settled
    BY <2>4, IndexFields
  <2>11. z \in IdxType /\ z.entries = E1 /\ z.leaf = r.leaf /\ z.prov = r.prov /\ z.op = r.op
         /\ z.active = r.active /\ z.epoch = r.epoch /\ z.step = r.step /\ z.attempt = r.attempt
         /\ z.request = r.request /\ z.settled = r.settled /\ z.agents = r.bound /\ z.ready = TRUE
    BY <1>6, <2>3, <2>9, IndexFields
  <2>12. /\ y.entries = z.entries /\ y.leaf = z.leaf /\ y.prov = z.prov /\ y.op = z.op
         /\ y.active = z.active /\ y.epoch = z.epoch /\ y.step = z.step /\ y.attempt = z.attempt
         /\ y.request = z.request /\ y.settled = z.settled /\ y.agents = z.agents
         /\ y.ready = z.ready
    <3>1. y.entries = z.entries /\ y.leaf = z.leaf
      BY <1>7, <2>8, <2>11
    <3>2. y.prov = z.prov /\ y.op = z.op /\ y.active = z.active
      BY <1>7, <2>8, <2>10, <2>11
    <3>3. y.epoch = z.epoch /\ y.step = z.step /\ y.attempt = z.attempt
      BY <1>7, <2>8, <2>10, <2>11
    <3>4. y.request = z.request /\ y.settled = z.settled /\ y.agents = z.agents
      BY <1>7, <2>8, <2>10, <2>11
    <3>5. y.ready = z.ready
      BY <2>8, <2>10, <2>11
    <3> QED BY <3>1, <3>2, <3>3, <3>4, <3>5
  <2>13. y = z
    BY <2>8, <2>11, <2>12, SameIndex
  <2> QED BY <2>7, <2>9, <2>13
<1>10. ASSUME /\ s.body[m.id] = None /\ m.body \in UserBodies
              /\ \A t \in s.tools : t.result # m.id
              /\ \A a \in s.activations : a.entry # m.id
              /\ Reopens(s)
       PROVE  Reopens(r)
  <2>1. \A e \in Entries : e # m.id => b[e] = s.body[e] /\ c[e] = s.call[e]
    BY <1>1, <1>2, LogFields DEF BodyMap, CallMap
  <2>2. b[m.id] = m.body /\ m.body # "result" /\ m.body # "assistant"
    BY <1>1, <1>2, <1>10, LogFields DEF BodyMap, UserBodies
  <2>3. \A t \in s.tools : t.result \in Entries
    BY LogFields DEF Tools
  <2>4. \A a \in s.activations : a.entry \in Entries
    BY LogFields DEF Activations
  <2>5. ToolResultsMatch(r)
    BY <1>1, <1>7, <1>10, <2>1, <2>2, <2>3 DEF ToolResultsMatch, Reopens, Known, None
  <2>6. ActivationsMatch(r)
    <3>1. \A a \in s.activations : b[a.entry] = s.body[a.entry]
      BY <1>10, <2>1, <2>4
    <3>2. \A l0 \in IdxLanes : 
           {a \in {a \in s.activations : a.op = s.active[l0]} : s.body[a.entry] = None}
           = {a \in {a \in r.activations : a.op = r.active[l0]} : r.body[a.entry] = None}
      BY <1>7, <3>1
    <3> QED BY <1>7, <1>10, <3>1, <3>2 DEF ActivationsMatch, Reopens
  <2>7. GraphMatches(r)
    BY <1>7, <1>10 DEF GraphMatches, Reopens
  <2> QED BY <1>7, <1>10, <2>5, <2>6, <2>7 DEF Reopens
<1> QED BY <1>3, <1>6, <1>7, <1>8, <1>9, <1>10 DEF Follows

(* The number of a step is a number.                                       *)
LEMMA IdItems ==
  ASSUME NEW m \in Items, m.k = "step"
  PROVE  m.number \in Nat
<1>1. m.number \in 1..Cardinality(Steps)
  BY DEF Items, LaneItems, OpItems
<1> QED BY <1>1, FS_CardinalityType, AppendIndexAssumption

(* An operation that was accepted has a lane.                              *)
LEMMA LaneKnown ==
  ASSUME NEW s \in LogType, Known(s), NEW q \in OpIds, s.op[q] # NoOp
  PROVE  s.op[q].lane \in IdxLanes /\ s.op[q].lane # None
  BY DEF Known, IdxLanes, None

(* A log that differs in nothing an open compares opens like the other.    *)
LEMMA SameShape ==
  ASSUME NEW s \in LogType, NEW r \in LogType, r.ok = s.ok,
         r.body = s.body, r.call = s.call, r.tools = s.tools, r.activations = s.activations,
         r.bound = s.bound, r.child = s.child, r.active = s.active,
         \A q \in OpIds : r.op[q].lane = s.op[q].lane /\ (r.op[q] = NoOp <=> s.op[q] = NoOp)
  PROVE  /\ Known(s) => Known(r)
         /\ Reopens(s) => Reopens(r)
<1>1. \A q \in s.child : q \in OpIds
  BY LogFields
<1>2. \A a \in s.activations : a.op \in OpIds
  BY LogFields DEF Activations
<1>3. Known(s) => Known(r)
  BY <1>1, <1>2 DEF Known
<1>4. ToolResultsMatch(s) <=> ToolResultsMatch(r)
  BY DEF ToolResultsMatch
<1>5. ActivationsMatch(s) <=> ActivationsMatch(r)
  BY DEF ActivationsMatch
<1>6. GraphMatches(s) <=> GraphMatches(r)
  BY <1>1 DEF GraphMatches
<1> QED BY <1>3, <1>4, <1>5, <1>6 DEF Reopens

(* An operation in an epoch keeps its type and its lane.                   *)
LEMMA InEpochType ==
  ASSUME NEW o \in OpType, NEW p \in Epochs
  PROVE  InEpoch(o, p) \in OpType /\ InEpoch(o, p).lane = o.lane
<1>1. PICK n, S : n = o.epochs + 1 /\ S = o.open \cup {p}
  OBVIOUS
<1>2. n \in Nat /\ S \in SUBSET Epochs
  BY <1>1 DEF OpType
<1>3. InEpoch(o, p) = [o EXCEPT !.epochs = n, !.open = S]
  BY <1>1 DEF InEpoch, OpType
<1> QED BY <1>2, <1>3 DEF OpType

(* The same for what hangs together.                                       *)
LEMMA KnownShape ==
  ASSUME NEW s \in LogType, NEW r \in LogType, Known(s), r.body = s.body, r.call = s.call,
         r.activations = s.activations, r.child = s.child,
         \A q \in OpIds : r.op[q].lane = s.op[q].lane /\ (r.op[q] = NoOp <=> s.op[q] = NoOp)
  PROVE  Known(r)
  BY LogFields DEF Known, Activations

(* Where nothing was requested, nothing waits.                             *)
LEMMA NoneWait ==
  ASSUME NEW s, s.activations = {}
  PROVE  ActivationsMatch(s)
<1> SUFFICES ASSUME NEW l \in IdxLanes
             PROVE  LET requested == {a \in s.activations : a.op = s.active[l]}
                    IN  /\ \A a \in requested : s.body[a.entry] \in {None, "revision"}
                        /\ Cardinality({a \in requested : s.body[a.entry] = None}) <= 1
  BY DEF ActivationsMatch
<1>1. {a \in {a \in s.activations : a.op = s.active[l]} : s.body[a.entry] = None} = {}
  OBVIOUS
<1> QED BY <1>1, FS_EmptySet

(* A lane whose operation changes to one without requests waits for less.  *)
LEMMA FewerWait ==
  ASSUME NEW s \in LogType, NEW r \in LogType, ActivationsMatch(s),
         r.body = s.body, r.activations = s.activations,
         \A l \in IdxLanes : \/ r.active[l] = s.active[l]
                             \/ \A a \in s.activations : a.op # r.active[l]
  PROVE  ActivationsMatch(r)
<1> SUFFICES ASSUME NEW l \in IdxLanes
             PROVE  LET requested == {a \in r.activations : a.op = r.active[l]}
                    IN  /\ \A a \in requested : r.body[a.entry] \in {None, "revision"}
                        /\ Cardinality({a \in requested : r.body[a.entry] = None}) <= 1
  BY DEF ActivationsMatch
<1>1. CASE r.active[l] = s.active[l]
  BY <1>1 DEF ActivationsMatch
<1>2. CASE \A a \in s.activations : a.op # r.active[l]
  <2>1. {a \in {a \in r.activations : a.op = r.active[l]} : r.body[a.entry] = None} = {}
    BY <1>2
  <2> QED BY <1>2, <2>1, FS_EmptySet
<1> QED BY <1>1, <1>2

(* A step of an epoch.                                                     *)
LEMMA StepStep ==
  ASSUME NEW s \in LogType, NEW m \in Items, m.k = "step", Known(s)
  PROVE  Follows(s, m) /\ (Reopens(s) => Reopens(Reduced(s, m)))
<1>1. m.op \in OpIds /\ m.id \in Steps /\ m.epoch \in Epochs /\ m.kind \in Kinds /\ m.number \in Nat
  BY IdItems DEF Items, LaneItems, OpItems
<1>2. PICK st, at :
        /\ st = [s.step EXCEPT ![m.id] = [op |-> m.op, epoch |-> m.epoch, kind |-> m.kind]]
        /\ at = [s.attempt EXCEPT ![<<m.epoch, m.kind>>] = m.number]
  OBVIOUS
<1>3. PICK r : r = Reduced(s, m)
  OBVIOUS
<1>4. r = [s EXCEPT !.step = st, !.attempt = at]
  BY <1>1, <1>2, <1>3 DEF Reduced, LogType
<1>5. /\ st \in StepMap /\ at \in AttemptMap
  BY <1>1, <1>2, LogFields DEF StepMap, AttemptMap, StepType
<1>6. r \in LogType
  BY <1>4, <1>5 DEF LogType
<1>7. /\ r.ok = s.ok /\ r.leaf = s.leaf /\ r.body = s.body /\ r.call = s.call
      /\ r.prov = s.prov /\ r.op = s.op /\ r.active = s.active /\ r.epoch = s.epoch
      /\ r.step = st /\ r.attempt = at /\ r.request = s.request
      /\ r.settled = s.settled /\ r.tools = s.tools /\ r.activations = s.activations
      /\ r.inputs = s.inputs /\ r.dispatched = s.dispatched /\ r.bound = s.bound
      /\ r.child = s.child
  BY <1>4 DEF LogType
<1>8. Known(r)
  BY <1>6, <1>7, SameShape
<1>9. Indexed(IndexOf(s), m) = IndexOf(r)
  <2>1. PICK x : x = IndexOf(s)
    OBVIOUS
  <2>2. x \in IdxType /\ x.leaf = s.leaf /\ x.prov = s.prov /\ x.op = s.op /\ x.active = s.active
        /\ x.epoch = s.epoch /\ x.step = s.step /\ x.attempt = s.attempt
        /\ x.request = s.request /\ x.settled = s.settled /\ x.agents = s.bound
    BY <2>1, IndexFields
  <2>3. PICK y : y = [x EXCEPT !.step = st, !.attempt = at]
    OBVIOUS
  <2>4. Indexed(IndexOf(s), m) = y
    BY <1>1, <1>2, <2>1, <2>2, <2>3 DEF IdxType, Indexed
  <2>5. y \in IdxType /\ y.entries = x.entries /\ y.leaf = x.leaf /\ y.prov = x.prov /\ y.op = x.op
        /\ y.active = x.active /\ y.epoch = x.epoch /\ y.step = st /\ y.attempt = at
        /\ y.request = x.request /\ y.settled = x.settled /\ y.agents = x.agents
        /\ y.ready = x.ready
    BY <1>5, <2>2, <2>3 DEF IdxType
  <2>6. PICK z : z = IndexOf(r)
    OBVIOUS
  <2>7. z.entries = x.entries
    BY <1>7, <2>1, <2>6, SameEntries
  <2>8. z \in IdxType /\ z.ready = x.ready /\ z.leaf = r.leaf /\ z.prov = r.prov /\ z.op = r.op /\ z.active = r.active
        /\ z.epoch = r.epoch /\ z.step = r.step /\ z.attempt = r.attempt
        /\ z.request = r.request /\ z.settled = r.settled /\ z.agents = r.bound
    BY <1>6, <2>1, <2>6, IndexFields
  <2>9. y = z
    BY <1>7, <2>2, <2>5, <2>7, <2>8, SameIndex
  <2> QED BY <2>4, <2>6, <2>9
<1>10. Reopens(s) => Reopens(r)
  BY <1>6, <1>7, SameShape
<1> QED BY <1>3, <1>6, <1>7, <1>8, <1>9, <1>10 DEF Follows

(* A provider request.                                                     *)
LEMMA RequestStep ==
  ASSUME NEW s \in LogType, NEW m \in Items, m.k = "request", Known(s)
  PROVE  Follows(s, m) /\ (Reopens(s) => Reopens(Reduced(s, m)))
<1>1. m.op \in OpIds /\ m.id \in Requests
  BY DEF Items, LaneItems, OpItems
<1>2. PICK rq :
        /\ rq = [s.request EXCEPT ![m.id] = m.op]
  OBVIOUS
<1>3. PICK r : r = Reduced(s, m)
  OBVIOUS
<1>4. r = [s EXCEPT !.request = rq]
  BY <1>1, <1>2, <1>3 DEF Reduced, LogType
<1>5. /\ rq \in RequestMap
  BY <1>1, <1>2, LogFields DEF RequestMap
<1>6. r \in LogType
  BY <1>4, <1>5 DEF LogType
<1>7. /\ r.ok = s.ok /\ r.leaf = s.leaf /\ r.body = s.body /\ r.call = s.call
      /\ r.prov = s.prov /\ r.op = s.op /\ r.active = s.active /\ r.epoch = s.epoch
      /\ r.step = s.step /\ r.attempt = s.attempt /\ r.request = rq
      /\ r.settled = s.settled /\ r.tools = s.tools /\ r.activations = s.activations
      /\ r.inputs = s.inputs /\ r.dispatched = s.dispatched /\ r.bound = s.bound
      /\ r.child = s.child
  BY <1>4 DEF LogType
<1>8. Known(r)
  BY <1>6, <1>7, SameShape
<1>9. Indexed(IndexOf(s), m) = IndexOf(r)
  <2>1. PICK x : x = IndexOf(s)
    OBVIOUS
  <2>2. x \in IdxType /\ x.leaf = s.leaf /\ x.prov = s.prov /\ x.op = s.op /\ x.active = s.active
        /\ x.epoch = s.epoch /\ x.step = s.step /\ x.attempt = s.attempt
        /\ x.request = s.request /\ x.settled = s.settled /\ x.agents = s.bound
    BY <2>1, IndexFields
  <2>3. PICK y : y = [x EXCEPT !.request = rq]
    OBVIOUS
  <2>4. Indexed(IndexOf(s), m) = y
    BY <1>1, <1>2, <2>1, <2>2, <2>3 DEF IdxType, Indexed
  <2>5. y \in IdxType /\ y.entries = x.entries /\ y.leaf = x.leaf /\ y.prov = x.prov /\ y.op = x.op
        /\ y.active = x.active /\ y.epoch = x.epoch /\ y.step = x.step
        /\ y.attempt = x.attempt /\ y.request = rq /\ y.settled = x.settled
        /\ y.agents = x.agents /\ y.ready = x.ready
    BY <1>5, <2>2, <2>3 DEF IdxType
  <2>6. PICK z : z = IndexOf(r)
    OBVIOUS
  <2>7. z.entries = x.entries
    BY <1>7, <2>1, <2>6, SameEntries
  <2>8. z \in IdxType /\ z.ready = x.ready /\ z.leaf = r.leaf /\ z.prov = r.prov /\ z.op = r.op /\ z.active = r.active
        /\ z.epoch = r.epoch /\ z.step = r.step /\ z.attempt = r.attempt
        /\ z.request = r.request /\ z.settled = r.settled /\ z.agents = r.bound
    BY <1>6, <2>1, <2>6, IndexFields
  <2>9. y = z
    BY <1>7, <2>2, <2>5, <2>7, <2>8, SameIndex
  <2> QED BY <2>4, <2>6, <2>9
<1>10. Reopens(s) => Reopens(r)
  BY <1>6, <1>7, SameShape
<1> QED BY <1>3, <1>6, <1>7, <1>8, <1>9, <1>10 DEF Follows

(* Its settlement.                                                         *)
LEMMA SettledStep ==
  ASSUME NEW s \in LogType, NEW m \in Items, m.k = "settled", Known(s)
  PROVE  Follows(s, m) /\ (Reopens(s) => Reopens(Reduced(s, m)))
<1>1. m.op \in OpIds /\ m.id \in Requests
  BY DEF Items, LaneItems, OpItems
<1>2. PICK se :
        /\ se = s.settled \cup {m.id}
  OBVIOUS
<1>3. PICK r : r = Reduced(s, m)
  OBVIOUS
<1>4. r = [s EXCEPT !.settled = se]
  BY <1>1, <1>2, <1>3 DEF Reduced, LogType
<1>5. /\ se \in SUBSET Requests
  BY <1>1, <1>2, LogFields
<1>6. r \in LogType
  BY <1>4, <1>5 DEF LogType
<1>7. /\ r.ok = s.ok /\ r.leaf = s.leaf /\ r.body = s.body /\ r.call = s.call
      /\ r.prov = s.prov /\ r.op = s.op /\ r.active = s.active /\ r.epoch = s.epoch
      /\ r.step = s.step /\ r.attempt = s.attempt /\ r.request = s.request
      /\ r.settled = se /\ r.tools = s.tools /\ r.activations = s.activations
      /\ r.inputs = s.inputs /\ r.dispatched = s.dispatched /\ r.bound = s.bound
      /\ r.child = s.child
  BY <1>4 DEF LogType
<1>8. Known(r)
  BY <1>6, <1>7, SameShape
<1>9. Indexed(IndexOf(s), m) = IndexOf(r)
  <2>1. PICK x : x = IndexOf(s)
    OBVIOUS
  <2>2. x \in IdxType /\ x.leaf = s.leaf /\ x.prov = s.prov /\ x.op = s.op /\ x.active = s.active
        /\ x.epoch = s.epoch /\ x.step = s.step /\ x.attempt = s.attempt
        /\ x.request = s.request /\ x.settled = s.settled /\ x.agents = s.bound
    BY <2>1, IndexFields
  <2>3. PICK y : y = [x EXCEPT !.settled = se]
    OBVIOUS
  <2>4. Indexed(IndexOf(s), m) = y
    BY <1>1, <1>2, <2>1, <2>2, <2>3 DEF IdxType, Indexed
  <2>5. y \in IdxType /\ y.entries = x.entries /\ y.leaf = x.leaf /\ y.prov = x.prov /\ y.op = x.op
        /\ y.active = x.active /\ y.epoch = x.epoch /\ y.step = x.step
        /\ y.attempt = x.attempt /\ y.request = x.request /\ y.settled = se
        /\ y.agents = x.agents /\ y.ready = x.ready
    BY <1>5, <2>2, <2>3 DEF IdxType
  <2>6. PICK z : z = IndexOf(r)
    OBVIOUS
  <2>7. z.entries = x.entries
    BY <1>7, <2>1, <2>6, SameEntries
  <2>8. z \in IdxType /\ z.ready = x.ready /\ z.leaf = r.leaf /\ z.prov = r.prov /\ z.op = r.op /\ z.active = r.active
        /\ z.epoch = r.epoch /\ z.step = r.step /\ z.attempt = r.attempt
        /\ z.request = r.request /\ z.settled = r.settled /\ z.agents = r.bound
    BY <1>6, <2>1, <2>6, IndexFields
  <2>9. y = z
    BY <1>7, <2>2, <2>5, <2>7, <2>8, SameIndex
  <2> QED BY <2>4, <2>6, <2>9
<1>10. Reopens(s) => Reopens(r)
  BY <1>6, <1>7, SameShape
<1> QED BY <1>3, <1>6, <1>7, <1>8, <1>9, <1>10 DEF Follows

(* An epoch begins.                                                        *)
LEMMA EpochStep ==
  ASSUME NEW s \in LogType, NEW m \in Items, m.k = "epoch", Known(s),
         IsOpen(s, m.op)
  PROVE  Follows(s, m) /\ (Reopens(s) => Reopens(Reduced(s, m)))
<1>1. m.op \in OpIds /\ m.id \in Epochs
  BY DEF Items, LaneItems, OpItems
<1>2. PICK ep, o :
        /\ ep = [s.epoch EXCEPT ![m.id] = m.op]
        /\ o = [s.op EXCEPT ![m.op] = InEpoch(s.op[m.op], m.id)]
  OBVIOUS
<1>3. PICK r : r = Reduced(s, m)
  OBVIOUS
<1>4. r = [s EXCEPT !.epoch = ep, !.op = o]
  BY <1>1, <1>2, <1>3 DEF Reduced, LogType
<1>5. /\ ep \in EpochMap /\ o \in OpMap
  BY <1>1, <1>2, LogFields, InEpochType DEF EpochMap, OpMap
<1>6. r \in LogType
  BY <1>4, <1>5 DEF LogType
<1>7. /\ r.ok = s.ok /\ r.leaf = s.leaf /\ r.body = s.body /\ r.call = s.call
      /\ r.prov = s.prov /\ r.op = o /\ r.active = s.active /\ r.epoch = ep
      /\ r.step = s.step /\ r.attempt = s.attempt /\ r.request = s.request
      /\ r.settled = s.settled /\ r.tools = s.tools /\ r.activations = s.activations
      /\ r.inputs = s.inputs /\ r.dispatched = s.dispatched /\ r.bound = s.bound
      /\ r.child = s.child
  BY <1>4 DEF LogType
<1>8. /\ \A q \in OpIds : o[q].lane = s.op[q].lane /\ (o[q] = NoOp <=> s.op[q] = NoOp)
      /\ Known(r)
  <2>1. \A q \in OpIds : o[q].lane = s.op[q].lane
    BY <1>1, <1>2, LogFields, InEpochType DEF OpMap
  <2>2. \A q \in OpIds : q # m.op => o[q] = s.op[q]
    BY <1>1, <1>2, LogFields, InEpochType DEF OpMap
  <2>3. o[m.op].lane # None
    BY <1>1, <2>1, LaneKnown DEF IsOpen
  <2>4. o[m.op] # NoOp /\ s.op[m.op] # NoOp
    BY <1>1, <2>3 DEF NoOp, IsOpen
  <2> QED BY <1>6, <1>7, <2>1, <2>2, <2>4, SameShape
<1>9. Indexed(IndexOf(s), m) = IndexOf(r)
  <2>1. PICK x : x = IndexOf(s)
    OBVIOUS
  <2>2. x \in IdxType /\ x.leaf = s.leaf /\ x.prov = s.prov /\ x.op = s.op /\ x.active = s.active
        /\ x.epoch = s.epoch /\ x.step = s.step /\ x.attempt = s.attempt
        /\ x.request = s.request /\ x.settled = s.settled /\ x.agents = s.bound
    BY <2>1, IndexFields
  <2>3. PICK y : y = [x EXCEPT !.epoch = ep, !.op = o]
    OBVIOUS
  <2>4. Indexed(IndexOf(s), m) = y
    BY <1>1, <1>2, <2>1, <2>2, <2>3 DEF IdxType, Indexed
  <2>5. y \in IdxType /\ y.entries = x.entries /\ y.leaf = x.leaf /\ y.prov = x.prov /\ y.op = o
        /\ y.active = x.active /\ y.epoch = ep /\ y.step = x.step
        /\ y.attempt = x.attempt /\ y.request = x.request /\ y.settled = x.settled
        /\ y.agents = x.agents /\ y.ready = x.ready
    BY <1>5, <2>2, <2>3 DEF IdxType
  <2>6. PICK z : z = IndexOf(r)
    OBVIOUS
  <2>7. z.entries = x.entries
    BY <1>7, <2>1, <2>6, SameEntries
  <2>8. z \in IdxType /\ z.ready = x.ready /\ z.leaf = r.leaf /\ z.prov = r.prov /\ z.op = r.op /\ z.active = r.active
        /\ z.epoch = r.epoch /\ z.step = r.step /\ z.attempt = r.attempt
        /\ z.request = r.request /\ z.settled = r.settled /\ z.agents = r.bound
    BY <1>6, <2>1, <2>6, IndexFields
  <2>9. y = z
    BY <1>7, <2>2, <2>5, <2>7, <2>8, SameIndex
  <2> QED BY <2>4, <2>6, <2>9
<1>10. Reopens(s) => Reopens(r)
  BY <1>6, <1>7, <1>8, SameShape
<1> QED BY <1>3, <1>6, <1>7, <1>8, <1>9, <1>10 DEF Follows

(* An epoch ends.                                                          *)
LEMMA EpochEndStep ==
  ASSUME NEW s \in LogType, NEW m \in Items, m.k = "epochEnd", Known(s),
         IsOpen(s, m.op)
  PROVE  Follows(s, m) /\ (Reopens(s) => Reopens(Reduced(s, m)))
<1>1. m.op \in OpIds /\ m.id \in Epochs
  BY DEF Items, LaneItems, OpItems
<1>2. PICK o :
        /\ o = [s.op EXCEPT ![m.op].open = @ \ {m.id}]
  OBVIOUS
<1>3. PICK r : r = Reduced(s, m)
  OBVIOUS
<1>4. r = [s EXCEPT !.op = o]
  BY <1>1, <1>2, <1>3 DEF Reduced, LogType
<1>5. /\ o \in OpMap
  BY <1>1, <1>2, LogFields DEF OpMap, OpType
<1>6. r \in LogType
  BY <1>4, <1>5 DEF LogType
<1>7. /\ r.ok = s.ok /\ r.leaf = s.leaf /\ r.body = s.body /\ r.call = s.call
      /\ r.prov = s.prov /\ r.op = o /\ r.active = s.active /\ r.epoch = s.epoch
      /\ r.step = s.step /\ r.attempt = s.attempt /\ r.request = s.request
      /\ r.settled = s.settled /\ r.tools = s.tools /\ r.activations = s.activations
      /\ r.inputs = s.inputs /\ r.dispatched = s.dispatched /\ r.bound = s.bound
      /\ r.child = s.child
  BY <1>4 DEF LogType
<1>8. /\ \A q \in OpIds : o[q].lane = s.op[q].lane /\ (o[q] = NoOp <=> s.op[q] = NoOp)
      /\ Known(r)
  <2>1. \A q \in OpIds : o[q].lane = s.op[q].lane
    BY <1>1, <1>2, LogFields DEF OpMap, OpType
  <2>2. \A q \in OpIds : q # m.op => o[q] = s.op[q]
    BY <1>1, <1>2, LogFields DEF OpMap, OpType
  <2>3. o[m.op].lane # None
    BY <1>1, <2>1, LaneKnown DEF IsOpen
  <2>4. o[m.op] # NoOp /\ s.op[m.op] # NoOp
    BY <1>1, <2>3 DEF NoOp, IsOpen
  <2> QED BY <1>6, <1>7, <2>1, <2>2, <2>4, SameShape
<1>9. Indexed(IndexOf(s), m) = IndexOf(r)
  <2>1. PICK x : x = IndexOf(s)
    OBVIOUS
  <2>2. x \in IdxType /\ x.leaf = s.leaf /\ x.prov = s.prov /\ x.op = s.op /\ x.active = s.active
        /\ x.epoch = s.epoch /\ x.step = s.step /\ x.attempt = s.attempt
        /\ x.request = s.request /\ x.settled = s.settled /\ x.agents = s.bound
    BY <2>1, IndexFields
  <2>3. PICK y : y = [x EXCEPT !.op = o]
    OBVIOUS
  <2>4. Indexed(IndexOf(s), m) = y
    BY <1>1, <1>2, <2>1, <2>2, <2>3 DEF IdxType, Indexed
  <2>5. y \in IdxType /\ y.entries = x.entries /\ y.leaf = x.leaf /\ y.prov = x.prov /\ y.op = o
        /\ y.active = x.active /\ y.epoch = x.epoch /\ y.step = x.step
        /\ y.attempt = x.attempt /\ y.request = x.request /\ y.settled = x.settled
        /\ y.agents = x.agents /\ y.ready = x.ready
    BY <1>5, <2>2, <2>3 DEF IdxType
  <2>6. PICK z : z = IndexOf(r)
    OBVIOUS
  <2>7. z.entries = x.entries
    BY <1>7, <2>1, <2>6, SameEntries
  <2>8. z \in IdxType /\ z.ready = x.ready /\ z.leaf = r.leaf /\ z.prov = r.prov /\ z.op = r.op /\ z.active = r.active
        /\ z.epoch = r.epoch /\ z.step = r.step /\ z.attempt = r.attempt
        /\ z.request = r.request /\ z.settled = r.settled /\ z.agents = r.bound
    BY <1>6, <2>1, <2>6, IndexFields
  <2>9. y = z
    BY <1>7, <2>2, <2>5, <2>7, <2>8, SameIndex
  <2> QED BY <2>4, <2>6, <2>9
<1>10. Reopens(s) => Reopens(r)
  BY <1>6, <1>7, <1>8, SameShape
<1> QED BY <1>3, <1>6, <1>7, <1>8, <1>9, <1>10 DEF Follows

(* Usage changes nothing that is kept here.                                *)
LEMMA UsageStep ==
  ASSUME NEW s \in LogType, NEW m \in Items, m.k = "usage", Known(s)
  PROVE  Follows(s, m) /\ (Reopens(s) => Reopens(Reduced(s, m)))
  BY DEF Follows, Reduced, Indexed

(* An operation finishes: no activation waits for it any more.             *)
LEMMA FinishStep ==
  ASSUME NEW s \in LogType, NEW m \in Items, m.k = "finish", Known(s),
         IsOpen(s, m.op)
  PROVE  Follows(s, m) /\ (Reopens(s) => Reopens(Reduced(s, m)))
<1>1. m.op \in OpIds
  BY DEF Items, LaneItems, OpItems
<1>2. PICK o, a :
        /\ o = [s.op EXCEPT ![m.op].finished = TRUE]
        /\ a = [s.active EXCEPT ![s.op[m.op].lane] = None]
  OBVIOUS
<1>3. PICK r : r = Reduced(s, m)
  OBVIOUS
<1>4. r = [s EXCEPT !.op = o, !.active = a]
  BY <1>1, <1>2, <1>3 DEF Reduced, LogType
<1>5. /\ o \in OpMap /\ a \in ActiveMap
  <2>1. \A p \in OpType : [p EXCEPT !.finished = TRUE] \in OpType
    BY DEF OpType
  <2>2. o = [s.op EXCEPT ![m.op] = [s.op[m.op] EXCEPT !.finished = TRUE]]
    BY <1>2
  <2>3. o \in OpMap
    BY <1>1, <2>1, <2>2, LogFields DEF OpMap
  <2>4. a \in ActiveMap
    BY <1>2, LogFields DEF ActiveMap
  <2> QED BY <2>3, <2>4
<1>6. r \in LogType
  BY <1>4, <1>5 DEF LogType
<1>7. /\ r.ok = s.ok /\ r.leaf = s.leaf /\ r.body = s.body /\ r.call = s.call
      /\ r.prov = s.prov /\ r.op = o /\ r.active = a /\ r.epoch = s.epoch
      /\ r.step = s.step /\ r.attempt = s.attempt /\ r.request = s.request
      /\ r.settled = s.settled /\ r.tools = s.tools /\ r.activations = s.activations
      /\ r.inputs = s.inputs /\ r.dispatched = s.dispatched /\ r.bound = s.bound
      /\ r.child = s.child
  BY <1>4 DEF LogType
<1>8. /\ \A q \in OpIds : o[q].lane = s.op[q].lane /\ (o[q] = NoOp <=> s.op[q] = NoOp)
      /\ Known(r)
  <2>1. \A q \in OpIds : o[q].lane = s.op[q].lane
    BY <1>1, <1>2, LogFields DEF OpMap, OpType
  <2>2. \A q \in OpIds : q # m.op => o[q] = s.op[q]
    BY <1>1, <1>2, LogFields DEF OpMap, OpType
  <2>3. o[m.op].lane # None
    BY <1>1, <2>1, LaneKnown DEF IsOpen
  <2>4. o[m.op] # NoOp /\ s.op[m.op] # NoOp
    BY <1>1, <2>3 DEF NoOp, IsOpen
  <2> QED BY <1>6, <1>7, <2>1, <2>2, <2>4, KnownShape
<1>9. Indexed(IndexOf(s), m) = IndexOf(r)
  <2>1. PICK x : x = IndexOf(s)
    OBVIOUS
  <2>2. x \in IdxType /\ x.leaf = s.leaf /\ x.prov = s.prov /\ x.op = s.op /\ x.active = s.active
        /\ x.epoch = s.epoch /\ x.step = s.step /\ x.attempt = s.attempt
        /\ x.request = s.request /\ x.settled = s.settled /\ x.agents = s.bound
    BY <2>1, IndexFields
  <2>3. PICK y : y = [x EXCEPT !.op = o, !.active = a]
    OBVIOUS
  <2>4. Indexed(IndexOf(s), m) = y
    BY <1>1, <1>2, <2>1, <2>2, <2>3 DEF IdxType, Indexed, FinishIndexed
  <2>5. y \in IdxType /\ y.entries = x.entries /\ y.leaf = x.leaf /\ y.prov = x.prov /\ y.op = o
        /\ y.active = a /\ y.epoch = x.epoch /\ y.step = x.step /\ y.attempt = x.attempt
        /\ y.request = x.request /\ y.settled = x.settled /\ y.agents = x.agents
        /\ y.ready = x.ready
    BY <1>5, <2>2, <2>3 DEF IdxType
  <2>6. PICK z : z = IndexOf(r)
    OBVIOUS
  <2>7. z.entries = x.entries
    BY <1>7, <2>1, <2>6, SameEntries
  <2>8. z \in IdxType /\ z.ready = x.ready /\ z.leaf = r.leaf /\ z.prov = r.prov /\ z.op = r.op /\ z.active = r.active
        /\ z.epoch = r.epoch /\ z.step = r.step /\ z.attempt = r.attempt
        /\ z.request = r.request /\ z.settled = r.settled /\ z.agents = r.bound
    BY <1>6, <2>1, <2>6, IndexFields
  <2>9. y = z
    BY <1>7, <2>2, <2>5, <2>7, <2>8, SameIndex
  <2> QED BY <2>4, <2>6, <2>9
<1>10. ASSUME Reopens(s)
       PROVE  Reopens(r)
  <2>1. ToolResultsMatch(r)
    BY <1>7, <1>10 DEF Reopens, ToolResultsMatch
  <2>2. GraphMatches(r)
    BY <1>7, <1>8, <1>10, LogFields DEF Reopens, GraphMatches
  <2>3. \A l \in IdxLanes : a[l] \in {s.active[l], None}
    BY <1>2, LogFields DEF ActiveMap
  <2>4. \A b \in s.activations : b.op # None
    BY LogFields, AppendIndexAssumption DEF Activations, None
  <2>5. ActivationsMatch(r)
    BY <1>6, <1>7, <1>10, <2>3, <2>4, FewerWait DEF Reopens
  <2> QED BY <1>7, <1>10, <2>1, <2>2, <2>5 DEF Reopens
<1> QED BY <1>3, <1>6, <1>7, <1>8, <1>9, <1>10 DEF Follows

(* A lane.                                                                 *)
LEMMA LaneStep ==
  ASSUME NEW s \in LogType, NEW m \in Items, m.k = "lane", Known(s)
  PROVE  Follows(s, m) /\ (Reopens(s) => Reopens(Reduced(s, m)))
<1>1. m.lane \in IdxLanes /\ m.base \in Leaves
  BY DEF Items, LaneItems, OpItems
<1>2. PICK l :
        /\ l = [s.leaf EXCEPT ![m.lane] = m.base]
  OBVIOUS
<1>3. PICK r : r = Reduced(s, m)
  OBVIOUS
<1>4. r = [s EXCEPT !.leaf = l]
  BY <1>1, <1>2, <1>3 DEF Reduced, LogType
<1>5. /\ l \in LeafMap
  BY <1>1, <1>2, LogFields DEF LeafMap
<1>6. r \in LogType
  BY <1>4, <1>5 DEF LogType
<1>7. /\ r.ok = s.ok /\ r.leaf = l /\ r.body = s.body /\ r.call = s.call
      /\ r.prov = s.prov /\ r.op = s.op /\ r.active = s.active /\ r.epoch = s.epoch
      /\ r.step = s.step /\ r.attempt = s.attempt /\ r.request = s.request
      /\ r.settled = s.settled /\ r.tools = s.tools /\ r.activations = s.activations
      /\ r.inputs = s.inputs /\ r.dispatched = s.dispatched /\ r.bound = s.bound
      /\ r.child = s.child
  BY <1>4 DEF LogType
<1>8. Known(r)
  BY <1>6, <1>7, SameShape
<1>9. Indexed(IndexOf(s), m) = IndexOf(r)
  <2>1. PICK x : x = IndexOf(s)
    OBVIOUS
  <2>2. x \in IdxType /\ x.leaf = s.leaf /\ x.prov = s.prov /\ x.op = s.op /\ x.active = s.active
        /\ x.epoch = s.epoch /\ x.step = s.step /\ x.attempt = s.attempt
        /\ x.request = s.request /\ x.settled = s.settled /\ x.agents = s.bound
    BY <2>1, IndexFields
  <2>3. PICK y : y = [x EXCEPT !.leaf = l]
    OBVIOUS
  <2>4. Indexed(IndexOf(s), m) = y
    BY <1>1, <1>2, <2>1, <2>2, <2>3 DEF IdxType, Indexed
  <2>5. y \in IdxType /\ y.entries = x.entries /\ y.leaf = l /\ y.prov = x.prov /\ y.op = x.op
        /\ y.active = x.active /\ y.epoch = x.epoch /\ y.step = x.step
        /\ y.attempt = x.attempt /\ y.request = x.request /\ y.settled = x.settled
        /\ y.agents = x.agents /\ y.ready = x.ready
    BY <1>5, <2>2, <2>3 DEF IdxType
  <2>6. PICK z : z = IndexOf(r)
    OBVIOUS
  <2>7. z.entries = x.entries
    BY <1>7, <2>1, <2>6, SameEntries
  <2>8. z \in IdxType /\ z.ready = x.ready /\ z.leaf = r.leaf /\ z.prov = r.prov /\ z.op = r.op /\ z.active = r.active
        /\ z.epoch = r.epoch /\ z.step = r.step /\ z.attempt = r.attempt
        /\ z.request = r.request /\ z.settled = r.settled /\ z.agents = r.bound
    BY <1>6, <2>1, <2>6, IndexFields
  <2>9. y = z
    BY <1>7, <2>2, <2>5, <2>7, <2>8, SameIndex
  <2> QED BY <2>4, <2>6, <2>9
<1>10. Reopens(s) => Reopens(r)
  BY <1>6, <1>7, SameShape
<1> QED BY <1>3, <1>6, <1>7, <1>8, <1>9, <1>10 DEF Follows

(* A tool intent, which the index does not keep.                           *)
LEMMA ToolStep ==
  ASSUME NEW s \in LogType, NEW m \in Items, m.k = "tool", Known(s)
  PROVE  Follows(s, m)
<1>1. m.op \in OpIds /\ m.call \in Entries /\ m.result \in Entries
  BY DEF Items, LaneItems, OpItems
<1>2. PICK ts :
        /\ ts = s.tools \cup {[op |-> m.op, call |-> m.call, result |-> m.result]}
  OBVIOUS
<1>3. PICK r : r = Reduced(s, m)
  OBVIOUS
<1>4. r = [s EXCEPT !.tools = ts]
  BY <1>1, <1>2, <1>3 DEF Reduced, LogType
<1>5. /\ ts \in Tools
  BY <1>1, <1>2, LogFields DEF Tools
<1>6. r \in LogType
  BY <1>4, <1>5 DEF LogType
<1>7. /\ r.ok = s.ok /\ r.leaf = s.leaf /\ r.body = s.body /\ r.call = s.call
      /\ r.prov = s.prov /\ r.op = s.op /\ r.active = s.active /\ r.epoch = s.epoch
      /\ r.step = s.step /\ r.attempt = s.attempt /\ r.request = s.request
      /\ r.settled = s.settled /\ r.tools = ts /\ r.activations = s.activations
      /\ r.inputs = s.inputs /\ r.dispatched = s.dispatched /\ r.bound = s.bound
      /\ r.child = s.child
  BY <1>4 DEF LogType
<1>8. Known(r)
  BY <1>6, <1>7, KnownShape
<1>9. Indexed(IndexOf(s), m) = IndexOf(r)
  BY <1>3, <1>7 DEF Indexed, IndexOf
<1> QED BY <1>3, <1>6, <1>7, <1>8, <1>9 DEF Follows

(* A requested activation, which the index does not keep.                  *)
LEMMA ActivationStep ==
  ASSUME NEW s \in LogType, NEW m \in Items, m.k = "activation", Known(s),
         IsOpen(s, m.op)
  PROVE  Follows(s, m)
<1>1. m.op \in OpIds /\ m.entry \in Entries
  BY DEF Items, LaneItems, OpItems
<1>2. PICK as :
        /\ as = s.activations \cup {[op |-> m.op, entry |-> m.entry]}
  OBVIOUS
<1>3. PICK r : r = Reduced(s, m)
  OBVIOUS
<1>4. r = [s EXCEPT !.activations = as]
  BY <1>1, <1>2, <1>3 DEF Reduced, LogType
<1>5. /\ as \in Activations
  BY <1>1, <1>2, LogFields DEF Activations
<1>6. r \in LogType
  BY <1>4, <1>5 DEF LogType
<1>7. /\ r.ok = s.ok /\ r.leaf = s.leaf /\ r.body = s.body /\ r.call = s.call
      /\ r.prov = s.prov /\ r.op = s.op /\ r.active = s.active /\ r.epoch = s.epoch
      /\ r.step = s.step /\ r.attempt = s.attempt /\ r.request = s.request
      /\ r.settled = s.settled /\ r.tools = s.tools /\ r.activations = as
      /\ r.inputs = s.inputs /\ r.dispatched = s.dispatched /\ r.bound = s.bound
      /\ r.child = s.child
  BY <1>4 DEF LogType
<1>8. Known(r)
  BY <1>1, <1>2, <1>7 DEF Known, IsOpen
<1>9. Indexed(IndexOf(s), m) = IndexOf(r)
  BY <1>3, <1>7 DEF Indexed, IndexOf
<1> QED BY <1>3, <1>6, <1>7, <1>8, <1>9 DEF Follows

(* An accepted input, which the index does not keep.                       *)
LEMMA InputStep ==
  ASSUME NEW s \in LogType, NEW m \in Items, m.k = "input", Known(s)
  PROVE  Follows(s, m)
<1>1. m.lane \in IdxLanes /\ m.input \in Inputs
  BY DEF Items, LaneItems, OpItems
<1>2. PICK is :
        /\ is = s.inputs \cup {<<m.lane, m.input>>}
  OBVIOUS
<1>3. PICK r : r = Reduced(s, m)
  OBVIOUS
<1>4. r = [s EXCEPT !.inputs = is]
  BY <1>1, <1>2, <1>3 DEF Reduced, LogType
<1>5. /\ is \in InputSets
  BY <1>1, <1>2, LogFields DEF InputSets
<1>6. r \in LogType
  BY <1>4, <1>5 DEF LogType
<1>7. /\ r.ok = s.ok /\ r.leaf = s.leaf /\ r.body = s.body /\ r.call = s.call
      /\ r.prov = s.prov /\ r.op = s.op /\ r.active = s.active /\ r.epoch = s.epoch
      /\ r.step = s.step /\ r.attempt = s.attempt /\ r.request = s.request
      /\ r.settled = s.settled /\ r.tools = s.tools /\ r.activations = s.activations
      /\ r.inputs = is /\ r.dispatched = s.dispatched /\ r.bound = s.bound
      /\ r.child = s.child
  BY <1>4 DEF LogType
<1>8. Known(r)
  BY <1>6, <1>7, KnownShape
<1>9. Indexed(IndexOf(s), m) = IndexOf(r)
  BY <1>3, <1>7 DEF Indexed, IndexOf
<1> QED BY <1>3, <1>6, <1>7, <1>8, <1>9 DEF Follows

(* A lane is bound to an agent.                                            *)
LEMMA SpawnedStep ==
  ASSUME NEW s \in LogType, NEW m \in Items, m.k = "spawned", Known(s)
  PROVE  Follows(s, m)
<1>1. m.op \in OpIds /\ m.lane \in IdxLanes
  BY DEF Items, LaneItems, OpItems, IdxLanes
<1>2. PICK bs :
        /\ bs = s.bound \cup {m.lane}
  OBVIOUS
<1>3. PICK r : r = Reduced(s, m)
  OBVIOUS
<1>4. r = [s EXCEPT !.bound = bs]
  BY <1>1, <1>2, <1>3 DEF Reduced, LogType
<1>5. /\ bs \in SUBSET IdxLanes
  BY <1>1, <1>2, LogFields
<1>6. r \in LogType
  BY <1>4, <1>5 DEF LogType
<1>7. /\ r.ok = s.ok /\ r.leaf = s.leaf /\ r.body = s.body /\ r.call = s.call
      /\ r.prov = s.prov /\ r.op = s.op /\ r.active = s.active /\ r.epoch = s.epoch
      /\ r.step = s.step /\ r.attempt = s.attempt /\ r.request = s.request
      /\ r.settled = s.settled /\ r.tools = s.tools /\ r.activations = s.activations
      /\ r.inputs = s.inputs /\ r.dispatched = s.dispatched /\ r.bound = bs
      /\ r.child = s.child
  BY <1>4 DEF LogType
<1>8. Known(r)
  BY <1>6, <1>7, KnownShape
<1>9. Indexed(IndexOf(s), m) = IndexOf(r)
  <2>1. PICK x : x = IndexOf(s)
    OBVIOUS
  <2>2. x \in IdxType /\ x.leaf = s.leaf /\ x.prov = s.prov /\ x.op = s.op /\ x.active = s.active
        /\ x.epoch = s.epoch /\ x.step = s.step /\ x.attempt = s.attempt
        /\ x.request = s.request /\ x.settled = s.settled /\ x.agents = s.bound
    BY <2>1, IndexFields
  <2>3. PICK y : y = [x EXCEPT !.agents = bs]
    OBVIOUS
  <2>4. Indexed(IndexOf(s), m) = y
    BY <1>1, <1>2, <2>1, <2>2, <2>3 DEF IdxType, Indexed
  <2>5. y \in IdxType /\ y.entries = x.entries /\ y.leaf = x.leaf /\ y.prov = x.prov /\ y.op = x.op
        /\ y.active = x.active /\ y.epoch = x.epoch /\ y.step = x.step
        /\ y.attempt = x.attempt /\ y.request = x.request /\ y.settled = x.settled
        /\ y.agents = bs /\ y.ready = x.ready
    BY <1>5, <2>2, <2>3 DEF IdxType
  <2>6. PICK z : z = IndexOf(r)
    OBVIOUS
  <2>7. z.entries = x.entries
    BY <1>7, <2>1, <2>6, SameEntries
  <2>8. z \in IdxType /\ z.ready = x.ready /\ z.leaf = r.leaf /\ z.prov = r.prov /\ z.op = r.op /\ z.active = r.active
        /\ z.epoch = r.epoch /\ z.step = r.step /\ z.attempt = r.attempt
        /\ z.request = r.request /\ z.settled = r.settled /\ z.agents = r.bound
    BY <1>6, <2>1, <2>6, IndexFields
  <2>9. y = z
    BY <1>7, <2>2, <2>5, <2>7, <2>8, SameIndex
  <2> QED BY <2>4, <2>6, <2>9
<1> QED BY <1>3, <1>6, <1>7, <1>8, <1>9 DEF Follows

(* An operation with the identifiers it provisions.                        *)
LEMMA OpStep ==
  ASSUME NEW s \in LogType, NEW m \in Items, m.k = "op", Known(s)
  PROVE  /\ Follows(s, m)
         /\ /\ Reopens(s) /\ s.op[m.id] = NoOp
            /\ m.lane \notin s.bound /\ m.how # "child"
            => Reopens(Reduced(s, m))
<1>1. m.id \in OpIds /\ m.lane \in IdxLanes /\ m.input \in OneInput
  BY DEF Items, LaneItems, OpItems
<1>2. PICK o, a, pv, di, ch :
        /\ o = [s.op EXCEPT ![m.id] = [NoOp EXCEPT !.lane = m.lane]]
        /\ a = [s.active EXCEPT ![m.lane] = m.id]
        /\ pv = Provisioned(s.prov, m.input)
        /\ di = s.dispatched \cup (IF m.how = "queued" THEN Ids(m.input) ELSE {})
        /\ ch = s.child \cup (IF m.how = "child" THEN {m.id} ELSE {})
  OBVIOUS
<1>3. PICK r : r = Reduced(s, m)
  OBVIOUS
<1>4. r = [s EXCEPT !.op = o, !.active = a, !.prov = pv, !.dispatched = di, !.child = ch]
  BY <1>1, <1>2, <1>3 DEF Reduced, LogType
<1>5. /\ o \in OpMap /\ a \in ActiveMap /\ pv \in ProvMap /\ di \in SUBSET Entries
      /\ ch \in SUBSET OpIds
  <2>1. pv \in ProvMap
    BY <1>1, <1>2, LogFields DEF OneInput, Inputs, Ids, Provisioned, ProvMap
  <2>2. [NoOp EXCEPT !.lane = m.lane] \in OpType
    BY <1>1 DEF NoOp, OpType
  <2>3. Ids(m.input) \subseteq Entries
    BY <1>1 DEF OneInput, Inputs, Ids
  <2> QED BY <1>1, <1>2, <2>1, <2>2, <2>3, LogFields DEF OpMap, ActiveMap
<1>6. r \in LogType
  BY <1>4, <1>5 DEF LogType
<1>7. /\ r.ok = s.ok /\ r.leaf = s.leaf /\ r.body = s.body /\ r.call = s.call
      /\ r.prov = pv /\ r.op = o /\ r.active = a /\ r.epoch = s.epoch
      /\ r.step = s.step /\ r.attempt = s.attempt /\ r.request = s.request
      /\ r.settled = s.settled /\ r.tools = s.tools /\ r.activations = s.activations
      /\ r.inputs = s.inputs /\ r.dispatched = di /\ r.bound = s.bound /\ r.child = ch
  BY <1>4 DEF LogType
<1>8. /\ o[m.id] # NoOp /\ o[m.id].lane = m.lane
      /\ \A q \in OpIds : q # m.id => o[q] = s.op[q]
      /\ Known(r)
  <2>1. \A q \in OpIds : q # m.id => o[q] = s.op[q]
    BY <1>1, <1>2, LogFields DEF OpMap
  <2>2. o[m.id].lane = m.lane
    BY <1>1, <1>2, LogFields DEF OpMap, NoOp
  <2>3. o[m.id] # NoOp
    BY <1>1, <2>2 DEF NoOp, IdxLanes, None
  <2> QED BY <1>1, <1>2, <1>7, <2>1, <2>2, <2>3, LogFields DEF Known, Activations
<1>9. Indexed(IndexOf(s), m) = IndexOf(r)
  <2>1. PICK x : x = IndexOf(s)
    OBVIOUS
  <2>2. x \in IdxType /\ x.leaf = s.leaf /\ x.prov = s.prov /\ x.op = s.op /\ x.active = s.active
        /\ x.epoch = s.epoch /\ x.step = s.step /\ x.attempt = s.attempt
        /\ x.request = s.request /\ x.settled = s.settled /\ x.agents = s.bound
    BY <2>1, IndexFields
  <2>3. PICK y : y = [x EXCEPT !.op = o, !.active = a, !.prov = pv]
    OBVIOUS
  <2>4. Indexed(IndexOf(s), m) = y
    BY <1>1, <1>2, <2>1, <2>2, <2>3 DEF IdxType, Indexed
  <2>5. y \in IdxType /\ y.entries = x.entries /\ y.leaf = x.leaf /\ y.prov = pv /\ y.op = o
        /\ y.active = a /\ y.epoch = x.epoch /\ y.step = x.step /\ y.attempt = x.attempt
        /\ y.request = x.request /\ y.settled = x.settled /\ y.agents = x.agents
        /\ y.ready = x.ready
    BY <1>5, <2>2, <2>3 DEF IdxType
  <2>6. PICK z : z = IndexOf(r)
    OBVIOUS
  <2>7. z.entries = x.entries
    BY <1>7, <2>1, <2>6, SameEntries
  <2>8. z \in IdxType /\ z.ready = x.ready /\ z.leaf = r.leaf /\ z.prov = r.prov /\ z.op = r.op /\ z.active = r.active
        /\ z.epoch = r.epoch /\ z.step = r.step /\ z.attempt = r.attempt
        /\ z.request = r.request /\ z.settled = r.settled /\ z.agents = r.bound
    BY <1>6, <2>1, <2>6, IndexFields
  <2>9. y = z
    BY <1>7, <2>2, <2>5, <2>7, <2>8, SameIndex
  <2> QED BY <2>4, <2>6, <2>9
<1>10. ASSUME Reopens(s), s.op[m.id] = NoOp, m.lane \notin s.bound, m.how # "child"
       PROVE  Reopens(r)
  <2>1. ToolResultsMatch(r)
    BY <1>7, <1>10 DEF Reopens, ToolResultsMatch
  <2>2. ch = s.child /\ \A q \in s.child : q \in OpIds /\ q # m.id
    BY <1>2, <1>10, LogFields DEF Known
  <2>3. GraphMatches(r)
    BY <1>7, <1>8, <1>10, <2>2 DEF Reopens, GraphMatches
  <2>4. \A l \in IdxLanes : a[l] \in {s.active[l], m.id}
    BY <1>1, <1>2, LogFields DEF ActiveMap
  <2>5. \A b \in s.activations : b.op # m.id
    BY <1>10 DEF Known
  <2>6. ActivationsMatch(r)
    BY <1>6, <1>7, <1>10, <2>4, <2>5, FewerWait DEF Reopens
  <2> QED BY <1>7, <1>10, <2>1, <2>3, <2>6 DEF Reopens
<1> QED BY <1>3, <1>6, <1>7, <1>8, <1>9, <1>10 DEF Follows
-----------------------------------------------------------------------------
ItemKinds == {"lane", "op", "entry", "input", "spawned", "tool", "activation"} \cup Lifecycle

(* The kinds of items.                                                     *)
LEMMA KindsOfItems ==
  ASSUME NEW m \in Items
  PROVE  m.k \in ItemKinds
  BY DEF Items, LaneItems, OpItems, ItemKinds, Lifecycle

(* Every kind of item, together.                                           *)
LEMMA ReducibleFollows ==
  ASSUME NEW s \in LogType, NEW m \in Items, NEW parent, Known(s), Reducible(s, m, parent)
  PROVE  Follows(s, m)
<1>1. m.k \in Lifecycle \cup {"tool", "activation"} => IsOpen(s, m.op)
  BY DEF Reducible, LifecycleReducible
<1>2. m.k \in ItemKinds
  BY KindsOfItems
<1> QED BY <1>1, <1>2, EntryStep, OpStep, LaneStep, ToolStep, ActivationStep, InputStep, SpawnedStep,
           FinishStep, UsageStep, EpochStep, EpochEndStep, StepStep, RequestStep, SettledStep
        DEF ItemKinds, Lifecycle

(* What the reduction accepts the index does not refuse.                   *)
LEMMA ReducibleValid ==
  ASSUME NEW s \in LogType, NEW m \in Items, NEW parent, Reducible(s, m, parent),
         Covered(IndexOf(s), m)
  PROVE  LocallyValid(IndexOf(s), m)
<1>1. PICK x : x = IndexOf(s)
  OBVIOUS
<1>2. PICK E : E = {e \in Entries : s.body[e] # None}
  OBVIOUS
<1>3. /\ x.entries = E /\ x.leaf = s.leaf /\ x.prov = s.prov /\ x.op = s.op /\ x.active = s.active
      /\ x.epoch = s.epoch /\ x.step = s.step /\ x.attempt = s.attempt /\ x.request = s.request
      /\ x.settled = s.settled /\ x.agents = s.bound /\ x.ready = TRUE
  BY <1>1, <1>2, IndexFields
<1>4. CASE m.k = "entry"
  BY <1>1, <1>3, <1>4 DEF Reducible, EntryReducible, LocallyValid, Lifecycle
<1>5. CASE m.k = "op"
  <2>1. OpReducible(s, m)
    BY <1>5 DEF Reducible
  <2>2. \A i \in m.input : i.id \notin x.entries
    BY <1>2, <1>3, <2>1 DEF OpReducible
  <2> QED BY <1>1, <1>3, <1>5, <2>1, <2>2 DEF OpReducible, LocallyValid, Lifecycle
<1>6. CASE m.k \in Lifecycle
  <2>1. LifecycleReducible(s, m)
    BY <1>6 DEF Reducible
  <2>2. \A o : IsOpen(x, o) <=> IsOpen(s, o)
    BY <1>3 DEF IsOpen
  <2>3. \A o, p : InOpenEpoch(x, o, p) <=> InOpenEpoch(s, o, p)
    BY <1>3 DEF InOpenEpoch
  <2> QED BY <1>1, <1>3, <1>6, <2>1, <2>2, <2>3 DEF LifecycleReducible, LocallyValid, Lifecycle
<1> QED BY <1>4, <1>5, <1>6 DEF Covered

(* What the index accepts of the items it covers, the reduction goes on    *)
(* after, with the parent the index hands out.                             *)
LEMMA ValidReducible ==
  ASSUME NEW s \in LogType, NEW m \in Items, Prepared(IndexOf(s), m),
         Covered(IndexOf(s), m), LocallyValid(IndexOf(s), m)
  PROVE  Reducible(s, m, Parent(IndexOf(s), m))
<1>1. PICK x : x = IndexOf(s)
  OBVIOUS
<1>2. PICK E : E = {e \in Entries : s.body[e] # None}
  OBVIOUS
<1>3. /\ x.entries = E /\ x.leaf = s.leaf /\ x.prov = s.prov /\ x.op = s.op /\ x.active = s.active
      /\ x.epoch = s.epoch /\ x.step = s.step /\ x.attempt = s.attempt /\ x.request = s.request
      /\ x.settled = s.settled /\ x.agents = s.bound /\ x.ready = TRUE
  BY <1>1, <1>2, IndexFields
<1>4. CASE m.k = "entry"
  <2>1. m.id \in Entries
    BY <1>4 DEF Items, LaneItems, OpItems
  <2>2. s.body[m.id] = None /\ s.leaf[m.lane] # None
    BY <1>1, <1>2, <1>3, <1>4, <2>1 DEF Prepared
  <2>3. s.prov[m.id] \in {None, m.body}
    BY <1>1, <1>3, <1>4 DEF LocallyValid
  <2> QED BY <1>1, <1>3, <1>4, <2>2, <2>3 DEF Reducible, EntryReducible, Parent, Lifecycle
<1>5. CASE m.k = "op"
  <2>1. m.input \in OneInput
    BY <1>5 DEF Items, LaneItems, OpItems
  <2>2. \A i \in m.input : i.id \in Entries
    BY <2>1 DEF OneInput, Inputs
  <2>3. /\ x.op[m.id] = NoOp
        /\ x.leaf[m.lane] # None /\ m.source = x.leaf[m.lane]
        /\ x.active[m.lane] = None
        /\ \A i \in m.input : i.id \notin x.entries /\ x.prov[i.id] = None
    BY <1>1, <1>5 DEF LocallyValid
  <2>4. \A i \in m.input : s.body[i.id] = None
    BY <1>2, <1>3, <2>2, <2>3
  <2>5. m.how # "queued" /\ m.how # "child"
    BY <1>5 DEF Covered, GraphOnly, Lifecycle
  <2>6. OpReducible(s, m)
    BY <1>3, <2>3, <2>4, <2>5 DEF OpReducible
  <2> QED BY <1>5, <2>6 DEF Reducible, Lifecycle
<1>6. CASE m.k \in Lifecycle
  <2>2. \A o : IsOpen(x, o) <=> IsOpen(s, o)
    BY <1>3 DEF IsOpen
  <2>3. \A o, p : InOpenEpoch(x, o, p) <=> InOpenEpoch(s, o, p)
    BY <1>3 DEF InOpenEpoch
  <2>4. IsOpen(s, m.op) /\ m.k # "tool"
    BY <1>1, <1>6, <2>2 DEF LocallyValid, Lifecycle
  <2>5. /\ m.k = "finish" => s.op[m.op].open = {} /\ s.active[s.op[m.op].lane] = m.op
        /\ m.k = "epoch" =>
             s.op[m.op].open = {} /\ m.index = s.op[m.op].epochs /\ s.epoch[m.id] = None
        /\ m.k = "settled" => s.request[m.id] = m.op /\ m.id \notin s.settled
    BY <1>1, <1>3 DEF LocallyValid
  <2>6. /\ m.k = "epochEnd" => InOpenEpoch(s, m.op, m.id)
        /\ m.k \in {"step", "request"} => InOpenEpoch(s, m.op, m.epoch)
    BY <1>1, <2>3 DEF LocallyValid
  <2>7. /\ m.k = "step" => s.step[m.id] = NoStep /\ m.number = s.attempt[m.epoch, m.kind] + 1
        /\ m.k = "request" =>
             s.step[m.step].op = m.op /\ s.step[m.step].epoch = m.epoch /\ s.request[m.id] = None
    BY <1>1, <1>3 DEF LocallyValid
  <2>8. LifecycleReducible(s, m)
    BY <2>4, <2>5, <2>6, <2>7 DEF LifecycleReducible
  <2> QED BY <1>6, <2>8 DEF Reducible, Lifecycle
<1> QED BY <1>4, <1>5, <1>6 DEF Covered

(* So no accepted item switches the index off.                             *)
LEMMA AdvanceFollows ==
  ASSUME NEW s \in LogType, NEW m \in Items, NEW parent, Known(s), Reducible(s, m, parent)
  PROVE  Advance(IndexOf(s), m) = IndexOf(Reduced(s, m))
  BY ReducibleFollows, ReducibleValid, IndexFields DEF Advance, Follows

(* A replay takes the item or ends the prefix.                             *)
LEMMA ReplayOk ==
  ASSUME NEW s \in LogType, NEW m, NEW parent
  PROVE  /\ s.ok /\ Reducible(s, m, parent) => Replay(s, m, parent) = Reduced(s, m)
         /\ ~(s.ok /\ Reducible(s, m, parent)) =>
              Replay(s, m, parent) \in LogType /\ Replay(s, m, parent).ok = FALSE
  BY DEF Replay, LogType

(* An item the index answers for alone leaves a log that opens.  Each kind *)
(* of item has its own reason: a message is under an identifier no result or *)
(* revision waits for, a new operation has no requests and is on no agent's *)
(* lane, a finished one leaves its lane with none.                         *)
LEMMA CoveredReopens ==
  ASSUME NEW s \in LogType, NEW m \in Items, Known(s), Reopens(s),
         Prepared(IndexOf(s), m), Covered(IndexOf(s), m), LocallyValid(IndexOf(s), m),
         m.k = "entry" => /\ \A t \in s.tools : t.result # m.id
                          /\ \A a \in s.activations : a.entry # m.id
  PROVE  Replays(s, m, Parent(IndexOf(s), m))
<1>1. Reducible(s, m, Parent(IndexOf(s), m))
  BY ValidReducible
<1>2. Replay(s, m, Parent(IndexOf(s), m)) = Reduced(s, m)
  BY <1>1, ReplayOk DEF Reopens
<1>3. CASE m.k = "entry"
  BY <1>1, <1>2, <1>3, EntryStep DEF Reducible, EntryReducible, Covered, Lifecycle, Replays
<1>4. CASE m.k = "op"
  <2>1. m.how # "child" /\ m.lane \notin s.bound
    BY <1>4, IndexFields DEF Covered, GraphOnly, Lifecycle
  <2>2. s.op[m.id] = NoOp
    BY <1>1, <1>4 DEF Reducible, OpReducible
  <2> QED BY <1>2, <1>4, <2>1, <2>2, OpStep DEF Replays
<1>5. CASE m.k \in Lifecycle
  <2>1. IsOpen(s, m.op)
    BY <1>1, <1>5 DEF Reducible, LifecycleReducible
  <2> QED BY <1>2, <1>5, <2>1, FinishStep, UsageStep, EpochStep, EpochEndStep, StepStep,
             RequestStep, SettledStep DEF Replays, Lifecycle
<1> QED BY <1>3, <1>4, <1>5 DEF Covered
-----------------------------------------------------------------------------
(* Where the prefix with a group still reduces, the index after the group is *)
(* the index of it.                                                        *)
Sound(g) ==
  /\ g.s \in LogType
  /\ g.s.ok => Known(g.s) /\ g.next = IndexOf(g.s)

(* One more item of a group keeps that.                                    *)
LEMMA GrownSound ==
  ASSUME NEW g, Sound(g), NEW m \in Items
  PROVE  Sound(Grown(g, m))
<1>1. PICK s, p : s = g.s /\ p = Parent(g.x, m)
  OBVIOUS
<1>2. Grown(g, m).s = Replay(s, m, p) /\ Grown(g, m).next = Advance(g.next, m)
  BY <1>1 DEF Grown
<1>3. s \in LogType /\ (s.ok => Known(s) /\ g.next = IndexOf(s))
  BY <1>1 DEF Sound
<1>4. CASE s.ok /\ Reducible(s, m, p)
  <2>1. Replay(s, m, p) = Reduced(s, m)
    BY <1>3, <1>4, ReplayOk
  <2>2. Follows(s, m)
    BY <1>3, <1>4, ReducibleFollows
  <2>3. Advance(g.next, m) = IndexOf(Reduced(s, m))
    BY <1>3, <1>4, AdvanceFollows
  <2> QED BY <1>2, <2>1, <2>2, <2>3 DEF Sound, Follows
<1>5. CASE ~(s.ok /\ Reducible(s, m, p))
  BY <1>2, <1>3, <1>5, ReplayOk DEF Sound
<1> QED BY <1>4, <1>5

(* A group whose item reduces goes on.                                     *)
LEMMA GrownReplayed ==
  ASSUME NEW g, Sound(g), NEW m \in Items, g.s.ok, Reducible(g.s, m, Parent(g.x, m))
  PROVE  Grown(g, m).s = Reduced(g.s, m) /\ Grown(g, m).s.ok
<1>1. g.s \in LogType /\ Known(g.s)
  BY DEF Sound
<1>2. Grown(g, m).s = Reduced(g.s, m)
  BY <1>1, ReplayOk DEF Grown
<1> QED BY <1>1, <1>2, ReducibleFollows DEF Follows

(* A new session.                                                          *)
LEMMA EmptySound == Sound(NewGroup(EmptyLog, EmptyIndex)) /\ Reopens(EmptyLog)
<1>1. NoOp \in OpType /\ NoStep \in StepType
  BY DEF NoOp, OpType, NoStep, StepType
<1>2. /\ [l \in IdxLanes |-> IF l = "main" THEN "empty" ELSE None] \in LeafMap
      /\ [e \in Entries |-> None] \in BodyMap
      /\ [e \in Entries |-> None] \in CallMap
      /\ [e \in Entries |-> None] \in ProvMap
      /\ [o \in OpIds |-> NoOp] \in OpMap
      /\ [l \in IdxLanes |-> None] \in ActiveMap
      /\ [p \in Epochs |-> None] \in EpochMap
      /\ [s \in Steps |-> NoStep] \in StepMap
      /\ [k \in Epochs \X Kinds |-> 0] \in AttemptMap
      /\ [r \in Requests |-> None] \in RequestMap
  BY <1>1 DEF LeafMap, BodyMap, CallMap, ProvMap, OpMap, ActiveMap, EpochMap, StepMap,
              AttemptMap, RequestMap, Leaves
<1>3. {} \in Tools /\ {} \in Activations /\ {} \in InputSets
  BY DEF Tools, Activations, InputSets
<1>4. EmptyLog \in LogType
  BY <1>2, <1>3 DEF EmptyLog, LogType
<1>5. EmptyIndex \in IdxType
  BY <1>2 DEF EmptyIndex, IdxType
<1>6. /\ EmptyLog.op = [o \in OpIds |-> NoOp] /\ EmptyLog.body = [e \in Entries |-> None]
      /\ EmptyLog.activations = {} /\ EmptyLog.child = {} /\ EmptyLog.tools = {}
      /\ EmptyLog.bound = {} /\ EmptyLog.ok = TRUE
  BY DEF EmptyLog
<1>7. Known(EmptyLog)
  BY <1>6 DEF Known, None
<1>8. EmptyIndex = IndexOf(EmptyLog)
  <2>1. EmptyIndex.entries = {e \in Entries : EmptyLog.body[e] # None}
    BY <1>6 DEF EmptyIndex
  <2>2. IndexOf(EmptyLog) \in IdxType
    BY <1>4, IndexFields
  <2>3. PICK E : E = {e \in Entries : EmptyLog.body[e] # None}
    OBVIOUS
  <2>4. IndexOf(EmptyLog).entries = E /\ EmptyIndex.entries = E
    BY <2>1, <2>3, <1>4, IndexFields
  <2>5. PICK x : x = IndexOf(EmptyLog)
    OBVIOUS
  <2>6. /\ x.leaf = EmptyLog.leaf /\ x.prov = EmptyLog.prov /\ x.op = EmptyLog.op
        /\ x.active = EmptyLog.active /\ x.epoch = EmptyLog.epoch /\ x.step = EmptyLog.step
        /\ x.attempt = EmptyLog.attempt /\ x.request = EmptyLog.request
        /\ x.settled = EmptyLog.settled /\ x.agents = EmptyLog.bound /\ x.ready = TRUE
    BY <1>4, <2>5, IndexFields
  <2>7. /\ EmptyIndex.leaf = EmptyLog.leaf /\ EmptyIndex.prov = EmptyLog.prov
        /\ EmptyIndex.op = EmptyLog.op /\ EmptyIndex.active = EmptyLog.active
        /\ EmptyIndex.epoch = EmptyLog.epoch /\ EmptyIndex.step = EmptyLog.step
        /\ EmptyIndex.attempt = EmptyLog.attempt /\ EmptyIndex.request = EmptyLog.request
        /\ EmptyIndex.settled = EmptyLog.settled /\ EmptyIndex.agents = EmptyLog.bound
        /\ EmptyIndex.ready = TRUE
    BY DEF EmptyIndex, EmptyLog
  <2> QED BY <1>5, <2>2, <2>4, <2>5, <2>6, <2>7, SameIndex
<1>9. Reopens(EmptyLog)
  <2>1. ToolResultsMatch(EmptyLog)
    BY <1>6 DEF ToolResultsMatch, None
  <2>2. GraphMatches(EmptyLog)
    BY <1>6 DEF GraphMatches
  <2>3. ActivationsMatch(EmptyLog)
    BY <1>6, NoneWait
  <2> QED BY <1>6, <2>1, <2>2, <2>3 DEF Reopens
<1> QED BY <1>4, <1>7, <1>8, <1>9 DEF Sound, NewGroup
(* The preparation of a group looks at entries and lanes only.             *)
LEMMA OnlyEntriesAndLanes ==
  ASSUME NEW x, NEW m, m.k \notin {"entry", "lane"}
  PROVE  InGroup(x, m) = x
  BY DEF InGroup

(* The items of the session that is reopened.                              *)
LEMMA MiddleItems ==
  ASSUME NEW o \in OpIds, NEW p \in Epochs, NEW a \in Entries, NEW r \in Entries
  PROVE  /\ [k |-> "op", id |-> o, lane |-> "main", source |-> "empty", input |-> {}, how |-> "direct"] \in Items
         /\ [k |-> "epoch", id |-> p, op |-> o, index |-> 0] \in Items
         /\ [k |-> "entry", id |-> a, lane |-> "main", body |-> "assistant", call |-> None] \in Items
         /\ [k |-> "tool", op |-> o, epoch |-> p, call |-> a, result |-> r] \in Items
<1>1. [k |-> "op", id |-> o, lane |-> "main", source |-> "empty", input |-> {}, how |-> "direct"] \in OpItems
  BY DEF OpItems, IdxLanes, Leaves, OneInput
<1>2. Cardinality(Epochs) \in Nat /\ Cardinality(Epochs) # 0
  BY FS_CardinalityType, FS_EmptySet, AppendIndexAssumption
<1>3. 0 \in 0..(Cardinality(Epochs) - 1)
  BY <1>2
<1> QED BY <1>1, <1>3 DEF Items, IdxLanes

(* The session that is reopened in the middle of an operation that called a *)
(* tool was accepted item by item, and opens.                              *)
LEMMA MiddleSound ==
  ASSUME NEW o \in OpIds, NEW p \in Epochs, NEW a \in Entries, NEW r \in Entries, a # r
  PROVE  Sound(Middle(o, p, a, r)) /\ Reopens(Middle(o, p, a, r).s)
<1> DEFINE m1 == [k |-> "op", id |-> o, lane |-> "main", source |-> "empty", input |-> {}, how |-> "direct"]
           m2 == [k |-> "epoch", id |-> p, op |-> o, index |-> 0]
           m3 == [k |-> "entry", id |-> a, lane |-> "main", body |-> "assistant", call |-> None]
           m4 == [k |-> "tool", op |-> o, epoch |-> p, call |-> a, result |-> r]
<1>0. m1 \in Items /\ m2 \in Items /\ m3 \in Items /\ m4 \in Items
  BY MiddleItems
<1>1. PICK g0, g1, g2, g3, g4 :
        /\ g0 = NewGroup(EmptyLog, EmptyIndex) /\ g1 = Grown(g0, m1) /\ g2 = Grown(g1, m2)
        /\ g3 = Grown(g2, m3) /\ g4 = Grown(g3, m4) 
  OBVIOUS
<1>2. Middle(o, p, a, r) = g4
  BY <1>1 DEF Middle
<1>3. PICK s0, s1, s2, s3, s4 : s0 = g0.s /\ s1 = g1.s /\ s2 = g2.s /\ s3 = g3.s /\ s4 = g4.s
  OBVIOUS
<1>4. Sound(g0) /\ Sound(g1) /\ Sound(g2) /\ Sound(g3) /\ Sound(g4)
  <2>1. Sound(g0)
    BY <1>1, EmptySound
  <2>2. Sound(g1)
    BY <1>0, <1>1, <2>1, GrownSound
  <2>3. Sound(g2)
    BY <1>0, <1>1, <2>2, GrownSound
  <2>4. Sound(g3)
    BY <1>0, <1>1, <2>3, GrownSound
  <2>5. Sound(g4)
    BY <1>0, <1>1, <2>4, GrownSound
  <2> QED BY <2>1, <2>2, <2>3, <2>4, <2>5
<1>5. s0 \in LogType /\ s1 \in LogType /\ s2 \in LogType /\ s3 \in LogType /\ s4 \in LogType
  BY <1>3, <1>4 DEF Sound
<1>6. /\ s0.ok = TRUE /\ s0.leaf["main"] = "empty" /\ s0.body = [e \in Entries |-> None]
      /\ s0.prov = [e \in Entries |-> None] /\ s0.op = [q \in OpIds |-> NoOp]
      /\ s0.active["main"] = None /\ s0.epoch = [q \in Epochs |-> None] /\ s0.tools = {}
      /\ s0.activations = {} /\ s0.bound = {} /\ g0.x = EmptyIndex
  BY <1>1, <1>3 DEF NewGroup, EmptyLog, IdxLanes
<1>7. Reducible(s0, m1, Parent(g0.x, m1))
  <2>1. OpReducible(s0, m1)
    BY <1>6, AppendIndexAssumption DEF OpReducible, None
  <2> QED BY <2>1 DEF Reducible, Lifecycle
<1>8. s1 = Reduced(s0, m1) /\ s1.ok = TRUE /\ g1.x = EmptyIndex
  <2>1. s1 = Reduced(s0, m1) /\ s1.ok
    BY <1>0, <1>1, <1>3, <1>4, <1>6, <1>7, GrownReplayed
  <2>2. g1.x = InGroup(g0.x, m1)
    BY <1>1 DEF Grown
  <2>3. InGroup(g0.x, m1) = g0.x
    BY OnlyEntriesAndLanes
  <2> QED BY <1>5, <1>6, <2>1, <2>2, <2>3, LogFields
<1>9. /\ s1.leaf["main"] = "empty" /\ s1.body = [e \in Entries |-> None]
      /\ s1.prov = [e \in Entries |-> None] /\ s1.op[o] = [NoOp EXCEPT !.lane = "main"]
      /\ s1.epoch = [q \in Epochs |-> None] /\ s1.tools = {} /\ s1.activations = {} /\ s1.bound = {}
  <2>1. s1 = [s0 EXCEPT !.op[o] = [NoOp EXCEPT !.lane = "main"], !.active["main"] = o,
                        !.prov = Provisioned(@, {}), !.dispatched = @ \cup {}, !.child = @ \cup {}]
    BY <1>8 DEF Reduced
  <2>2. Provisioned(s0.prov, {}) = [e \in Entries |-> None]
    BY <1>6 DEF Provisioned, Ids
  <2>3. s1.op = [s0.op EXCEPT ![o] = [NoOp EXCEPT !.lane = "main"]]
    BY <1>5, <2>1 DEF LogType
  <2>4. s1.op[o] = [NoOp EXCEPT !.lane = "main"]
    BY <1>6, <2>3
  <2>5. s1.prov = Provisioned(s0.prov, {})
    BY <1>5, <2>1 DEF LogType
  <2> QED BY <1>5, <1>6, <2>1, <2>2, <2>4, <2>5 DEF LogType
<1>10. s1.op[o].lane = "main" /\ s1.op[o].finished = FALSE /\ s1.op[o].epochs = 0 /\ s1.op[o].open = {}
       /\ s1.op[o] # NoOp
  BY <1>9 DEF NoOp, None
<1>11. Reducible(s1, m2, Parent(g1.x, m2))
  <2>1. LifecycleReducible(s1, m2)
    BY <1>9, <1>10 DEF LifecycleReducible, IsOpen
  <2> QED BY <2>1 DEF Reducible
<1>12. s2 = Reduced(s1, m2) /\ s2.ok = TRUE /\ g2.x = EmptyIndex
  <2>1. s2 = Reduced(s1, m2) /\ s2.ok
    BY <1>0, <1>1, <1>3, <1>4, <1>8, <1>11, GrownReplayed
  <2>2. g2.x = InGroup(g1.x, m2)
    BY <1>1 DEF Grown
  <2>3. InGroup(g1.x, m2) = g1.x
    BY OnlyEntriesAndLanes
  <2> QED BY <1>5, <1>8, <2>1, <2>2, <2>3, LogFields
<1>13. /\ s2.leaf["main"] = "empty" /\ s2.body = [e \in Entries |-> None]
       /\ s2.prov = [e \in Entries |-> None] /\ s2.op[o] = InEpoch(s1.op[o], p)
       /\ s2.epoch[p] = o /\ s2.tools = {} /\ s2.activations = {} /\ s2.bound = {}
  <2>1. s2 = [s1 EXCEPT !.epoch[p] = o, !.op[o] = InEpoch(@, p)]
    BY <1>12 DEF Reduced
  <2>2. s2.op = [s1.op EXCEPT ![o] = InEpoch(s1.op[o], p)] /\ s2.epoch = [s1.epoch EXCEPT ![p] = o]
    BY <1>5, <2>1 DEF LogType
  <2>3. s2.op[o] = InEpoch(s1.op[o], p)
    BY <1>5, <2>2, LogFields DEF OpMap
  <2>4. s2.epoch[p] = o
    BY <1>5, <2>2, LogFields DEF EpochMap
  <2> QED BY <1>5, <1>9, <2>1, <2>3, <2>4 DEF LogType
<1>14. s2.op[o].lane = "main" /\ s2.op[o].finished = FALSE /\ s2.op[o].open = {p} /\ s2.op[o] # NoOp
  <2>1. s1.op[o] \in OpType
    BY <1>5, LogFields DEF OpMap
  <2>2. s2.op[o].lane = "main" /\ s2.op[o].finished = FALSE /\ s2.op[o].open = {p}
    BY <1>10, <1>13, <2>1 DEF InEpoch, OpType
  <2> QED BY <2>2 DEF NoOp, None
<1>15. Reducible(s2, m3, Parent(g2.x, m3))
  <2>1. Parent(g2.x, m3) = "empty"
    BY <1>12 DEF Parent, EmptyIndex, IdxLanes
  <2>2. EntryReducible(s2, m3, "empty")
    BY <1>13 DEF EntryReducible, None
  <2> QED BY <2>1, <2>2 DEF Reducible, Lifecycle
<1>16. s3 = Reduced(s2, m3) /\ s3.ok = TRUE
  BY <1>0, <1>1, <1>3, <1>4, <1>5, <1>12, <1>15, GrownReplayed, LogFields
<1>17. /\ s3.body = [s2.body EXCEPT ![a] = "assistant"] /\ s3.op = s2.op /\ s3.epoch = s2.epoch
       /\ s3.tools = {} /\ s3.activations = {} /\ s3.bound = {}
  <2>1. s3 = [s2 EXCEPT !.leaf["main"] = a, !.body[a] = "assistant", !.call[a] = None]
    BY <1>16 DEF Reduced
  <2> QED BY <1>5, <1>13, <2>1 DEF LogType
<1>18. s3.body[a] = "assistant" /\ \A e \in Entries : e # a => s3.body[e] = None
  BY <1>13, <1>17
<1>19. Reducible(s3, m4, Parent(g3.x, m4))
  <2>1. LifecycleReducible(s3, m4)
    BY <1>13, <1>14, <1>17, <1>18 DEF LifecycleReducible, IsOpen, InOpenEpoch
  <2> QED BY <2>1 DEF Reducible, Lifecycle
<1>20. s4 = Reduced(s3, m4) /\ s4.ok = TRUE
  BY <1>0, <1>1, <1>3, <1>4, <1>5, <1>16, <1>19, GrownReplayed, LogFields
<1>21. /\ s4.body = s3.body /\ s4.tools = {[op |-> o, call |-> a, result |-> r]}
       /\ s4.activations = {} /\ s4.bound = {}
  <2>1. s4 = [s3 EXCEPT !.tools = @ \cup {[op |-> o, call |-> a, result |-> r]}]
    BY <1>20 DEF Reduced
  <2> QED BY <1>5, <1>17, <2>1 DEF LogType
<1>22. Reopens(s4)
  <2>1. ToolResultsMatch(s4)
    BY <1>18, <1>21 DEF ToolResultsMatch, None
  <2>2. GraphMatches(s4)
    BY <1>21 DEF GraphMatches
  <2> QED BY <1>20, <1>21, <2>1, <2>2, NoneWait DEF Reopens
<1> QED BY <1>2, <1>3, <1>4, <1>22

-----------------------------------------------------------------------------
(* The inductive invariant: the index at hand is the one an open would build. *)
ExactInv == log \in LogType /\ log.ok /\ Known(log) /\ idx = IndexOf(log)

(* A group that is committed leaves both as they should be.                *)
LEMMA SoundGroup ==
  ASSUME NEW g, Sound(g), CommitGroup(g)
  PROVE  ExactInv' /\ AcceptedReopens'
  BY DEF Sound, CommitGroup, ExactInv, AcceptedReopens, Reopens

(* So do the sessions a writer starts from.                                *)
LEMMA InitExact ==
  ASSUME IdxInit
  PROVE  ExactInv /\ AcceptedReopens
<1>1. CASE log = EmptyLog /\ idx = EmptyIndex
  BY <1>1, EmptySound DEF Sound, NewGroup, ExactInv, AcceptedReopens, Reopens
<1>2. CASE \E o \in OpIds, p \in Epochs, a \in Entries, r \in Entries :
             a # r /\ log = Middle(o, p, a, r).s /\ idx = Middle(o, p, a, r).next
  BY <1>2, MiddleSound DEF Sound, ExactInv, AcceptedReopens, Reopens
<1> QED BY <1>1, <1>2 DEF IdxInit

(* A commit of one item, answered by the index or by a replay.             *)
LEMMA CommitOneExact ==
  ASSUME ExactInv, NEW m \in Items, CommitOne(m)
  PROVE  ExactInv' /\ (Reuse = FALSE /\ AcceptedReopens => AcceptedReopens')
<1>1. PICK p : p = Parent(idx, m)
  OBVIOUS
<1>2. /\ log \in LogType /\ log.ok /\ Known(log) /\ idx = IndexOf(log)
  BY DEF ExactInv
<1>3. log' = Replay(log, m, p) /\ idx' = Advance(idx, m) /\ Minted(m) /\ Prepared(idx, m)
      /\ (Covered(idx, m) => LocallyValid(idx, m))
      /\ (~Covered(idx, m) => Replays(log, m, p))
  BY <1>1 DEF CommitOne, Fits
<1>4. Reducible(log, m, p)
  <2>1. CASE Covered(idx, m)
    BY <1>1, <1>2, <1>3, <2>1, ValidReducible
  <2>2. CASE ~Covered(idx, m)
    BY <1>2, <1>3, <2>2, ReplayOk DEF Replays, Reopens
  <2> QED BY <2>1, <2>2
<1>5. log' = Reduced(log, m)
  BY <1>2, <1>3, <1>4, ReplayOk
<1>6. Follows(log, m)
  BY <1>2, <1>4, ReducibleFollows
<1>7. idx' = IndexOf(Reduced(log, m))
  BY <1>2, <1>3, <1>4, AdvanceFollows
<1>8. ExactInv'
  BY <1>2, <1>5, <1>6, <1>7 DEF ExactInv, Follows
<1>9. ASSUME Reuse = FALSE, AcceptedReopens
      PROVE  AcceptedReopens'
  <2>1. CASE Covered(idx, m)
    <3>1. m.k = "entry" => m.body \in UserBodies
      BY <2>1 DEF Covered, Lifecycle
    <3>2. m.k = "entry" => /\ \A t \in log.tools : t.result # m.id
                           /\ \A a \in log.activations : a.entry # m.id
      BY <1>3, <1>9, <3>1 DEF Minted
    <3> QED BY <1>1, <1>2, <1>3, <1>9, <2>1, <3>2, CoveredReopens DEF AcceptedReopens, Replays
  <2>2. CASE ~Covered(idx, m)
    BY <1>3, <2>2 DEF Replays, AcceptedReopens
  <2> QED BY <2>1, <2>2
<1> QED BY <1>8, <1>9

(* The items of a prompt are items.                                        *)
LEMMA GroupItems ==
  ASSUME NEW a \in OpItems, NEW i \in Inputs
  PROVE  a \in Items /\ InputEntry(a, i) \in Items
<1>1. a.lane \in IdxLanes
  BY DEF OpItems
<1>2. i.id \in Entries /\ i.body \in UserBodies
  BY DEF Inputs
<1> QED BY <1>1, <1>2 DEF Items, InputEntry

(* Every step, a group or one item, keeps the index exact; and where the   *)
(* runtime makes the identifiers of messages, the log opens.               *)
LEMMA ExactStep ==
  ASSUME ExactInv, [IdxNext]_idxVars
  PROVE  ExactInv' /\ (Reuse = FALSE /\ AcceptedReopens => AcceptedReopens')
<1>0. Sound(NewGroup(log, idx))
  BY DEF ExactInv, Sound, NewGroup
<1>1. ASSUME NEW m \in Items, CommitOne(m)
      PROVE  ExactInv' /\ (Reuse = FALSE /\ AcceptedReopens => AcceptedReopens')
  BY <1>1, CommitOneExact
<1>2. CASE UNCHANGED idxVars
  BY <1>2 DEF idxVars, ExactInv, AcceptedReopens
<1>3. ASSUME NEW a \in OpItems, CommitAccepted(a)
      PROVE  ExactInv' /\ AcceptedReopens'
  <2>1. PICK i \in a.input :
          CommitGroup(Grown(Grown(NewGroup(log, idx), a), InputEntry(a, i)))
    BY <1>3 DEF CommitAccepted
  <2>2. i \in Inputs
    BY DEF OpItems, OneInput
  <2>3. Sound(Grown(Grown(NewGroup(log, idx), a), InputEntry(a, i)))
    BY <1>0, <2>2, GroupItems, GrownSound
  <2> QED BY <2>1, <2>3, SoundGroup
<1>4. ASSUME NEW base \in Leaves, NEW o \in OpIds, NEW c \in OpIds, NEW i \in Inputs,
             CommitSpawn(base, o, c, i)
      PROVE  ExactInv' /\ AcceptedReopens'
  <2>1. PICK a : a = ChildOp(base, c, i)
    OBVIOUS
  <2>2. a \in OpItems /\ a.lane = "side"
    BY <2>1 DEF ChildOp, OpItems, OneInput, IdxLanes
  <2>3. [k |-> "lane", lane |-> a.lane, base |-> base] \in Items
    BY <2>2 DEF Items, LaneItems, IdxLanes
  <2>4. [k |-> "spawned", op |-> o, lane |-> a.lane] \in Items
    BY <2>2 DEF Items
  <2>5. PICK g1, g2, g3, g4 :
          /\ g1 = Grown(NewGroup(log, idx), [k |-> "lane", lane |-> a.lane, base |-> base])
          /\ g2 = Grown(g1, [k |-> "spawned", op |-> o, lane |-> a.lane])
          /\ g3 = Grown(g2, a) /\ g4 = Grown(g3, InputEntry(a, i))
    OBVIOUS
  <2>6. CommitGroup(g4)
    BY <1>4, <2>1, <2>5 DEF CommitSpawn
  <2>7. Sound(g1) /\ Sound(g2)
    BY <1>0, <2>3, <2>4, <2>5, GrownSound
  <2>8. Sound(g3) /\ Sound(g4)
    BY <2>2, <2>5, <2>7, GroupItems, GrownSound
  <2> QED BY <2>6, <2>8, SoundGroup
<1>5. CASE Refuse
  BY <1>2, <1>5 DEF Refuse
<1> QED BY <1>1, <1>2, <1>3, <1>4, <1>5 DEF IdxNext

(* An exact index refuses only what the reduction refuses.                 *)
LEMMA ExactJustifies ==
  ASSUME ExactInv
  PROVE  RefusalJustified
<1>1. log \in LogType /\ idx = IndexOf(log)
  BY DEF ExactInv
<1>2. idx.ready
  BY <1>1, IndexFields
<1>3. ASSUME NEW m \in Items, ~Prepared(idx, m) \/ (Covered(idx, m) /\ ~LocallyValid(idx, m)),
             Replays(log, m, Parent(idx, m))
      PROVE  FALSE
  <2>1. Reducible(log, m, Parent(idx, m))
    BY <1>1, <1>3, ReplayOk DEF Replays, Reopens
  <2>2. CASE ~Prepared(idx, m)
    <3>1. m.k = "entry" /\ EntryReducible(log, m, Parent(idx, m))
      BY <2>1, <2>2 DEF Prepared, Reducible
    <3>2. idx.entries = {e \in Entries : log.body[e] # None} /\ idx.leaf = log.leaf
      BY <1>1, IndexFields
    <3> QED BY <2>2, <3>1, <3>2 DEF Prepared, EntryReducible
  <2>3. CASE Covered(idx, m) /\ ~LocallyValid(idx, m)
    BY <1>1, <2>1, <2>3, ReducibleValid
  <2> QED BY <1>3, <2>2, <2>3
<1> QED BY <1>2, <1>3 DEF RefusalJustified

(* The index a writer keeps while it commits is always the one that a process *)
(* opening the log would build (SessionAppendIndex::advance, store.rs): none *)
(* of its fields drifts from the reduction, whatever was committed.        *)
THEOREM IndexIsExact == IdxSpec => [](idx = IndexOf(log))
<1>1. IdxInit => ExactInv
  BY InitExact
<1>2. ExactInv /\ [IdxNext]_idxVars => ExactInv'
  BY ExactStep
<1>3. ExactInv => idx = IndexOf(log)
  BY DEF ExactInv
<1> QED BY <1>1, <1>2, <1>3, PTL DEF IdxSpec

(* RefusalJustified for any identifiers and any number of commits, whether or *)
(* not a caller reuses an identifier (is_locally_validated_mutation).      *)
THEOREM RefusalsAreJustified == IdxSpec => []RefusalJustified
<1>1. IdxInit => ExactInv
  BY InitExact
<1>2. ExactInv /\ [IdxNext]_idxVars => ExactInv'
  BY ExactStep
<1>3. ExactInv => RefusalJustified
  BY ExactJustifies
<1> QED BY <1>1, <1>2, <1>3, PTL DEF IdxSpec

(* AcceptedReopens for any identifiers and any number of commits, where the *)
(* identifiers of user messages are made by the runtime: what the shortcut of *)
(* validate_prepared_commit accepts, validate_snapshot accepts at the next *)
(* open.                                                                   *)
THEOREM AcceptedAlwaysReopens ==
  ASSUME Reuse = FALSE
  PROVE  IdxSpec => []AcceptedReopens
<1>1. IdxInit => ExactInv /\ AcceptedReopens
  BY InitExact
<1>2. (ExactInv /\ AcceptedReopens) /\ [IdxNext]_idxVars => (ExactInv /\ AcceptedReopens)'
  BY ExactStep
<1> QED BY <1>1, <1>2, PTL DEF IdxSpec
=============================================================================
