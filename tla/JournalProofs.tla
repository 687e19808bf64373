---------------------------- MODULE JournalProofs ----------------------------
(***************************************************************************)
(* Proofs about the journals, for every set of figures and every range of  *)
(* sequence numbers.                                                       *)
(***************************************************************************)
EXTENDS Journal, TLAPS

\* The successor of a 32-bit sequence is a 32-bit sequence of the other
\* parity, and the signed comparison of e11_load orders the two.
LEMMA SuccFacts ==
    ASSUME NEW s \in Seq32
    PROVE  /\ Succ(s) \in Seq32
           /\ s % 2 \in Files /\ Succ(s) % 2 = 1 - (s % 2)
           /\ Succ(s) # s
           /\ Newer(Succ(s), s) /\ ~Newer(s, Succ(s))
           /\ Succ(Succ(s)) # s
  <1>1. s \in Int /\ 0 <= s /\ s <= 2 * HalfSeq - 1
    BY JournalAssumption DEF Seq32
  <1>2. HalfSeq \in Int /\ HalfSeq >= 2
    BY JournalAssumption
  <1>3. Succ(s) \in Seq32 /\ Succ(s) # s
    BY <1>1, <1>2 DEF Seq32, Succ
  <1>4. s % 2 \in Files
    BY <1>1 DEF Files
  <1>5. Succ(s) % 2 = 1 - (s % 2)
    <2>1. CASE s = 2 * HalfSeq - 1
      <3>1. Succ(s) = 0
        BY <2>1 DEF Succ
      <3>2. s % 2 = 1
        BY <2>1, <1>2
      <3> QED BY <3>1, <3>2
    <2>2. CASE s # 2 * HalfSeq - 1
      BY <1>1, <2>2 DEF Succ
    <2> QED BY <2>1, <2>2
  <1>6. Newer(Succ(s), s) /\ ~Newer(s, Succ(s))
    BY <1>1, <1>2 DEF Newer, Succ
  <1>7. Succ(Succ(s)) # s
    BY <1>1, <1>2 DEF Succ
  <1> QED BY <1>3, <1>4, <1>5, <1>6, <1>7

\* 0 and 1 are sequences, and 1 follows 0.
LEMMA FirstSeqs == 0 \in Seq32 /\ 1 \in Seq32 /\ Succ(0) = 1
  BY JournalAssumption DEF Seq32, Succ

\* What the shape of a journal says about it.
LEMMA FileShape ==
    ASSUME TypeOK, NEW k \in Files
    PROVE  /\ Valid(k) => file[k] \in Records
           /\ Valid(k) => file[k].seq \in Seq32 /\ file[k].fig \in Fig
           /\ ~Valid(k) => file[k] \in {Absent, Torn}
           /\ (file[k] = Absent \/ file[k] = Torn) => ~Valid(k)
  BY DEF TypeOK, Valid, Records, Absent, Torn

\* With the invariant, a load that can succeed yields the acknowledged record
\* or the limbo record, and says which.
LEMMA LoadChoice ==
    ASSUME JournalInv
    PROVE  /\ ~HasLimbo => Loaded = acked
           /\ HasLimbo => Loaded = file[LimboFile]
  <1>1. acked \in Records /\ acked.seq \in Seq32 /\ acked.st = "valid"
    BY DEF JournalInv, TypeOK, Records
  <1>2. /\ acked.seq % 2 \in Files /\ LimboFile \in Files
        /\ LimboFile = 1 - (acked.seq % 2)
    BY <1>1, SuccFacts DEF LimboFile, Files
  <1>3. \A k \in Files : Valid(k) => file[k].seq \in Seq32
    BY FileShape DEF JournalInv
  <1>4. CASE file[acked.seq % 2] = acked
    <2>1. Valid(acked.seq % 2)
      BY <1>4, <1>1 DEF Valid
    <2>2. CASE ~Valid(LimboFile)
      BY <2>1, <2>2, <1>2, <1>4 DEF Loaded, Best, HasLimbo, Files
    <2>3. CASE Valid(LimboFile) /\ file[LimboFile].seq = Succ(acked.seq)
      <3>1. /\ Newer(file[LimboFile].seq, acked.seq)
            /\ ~Newer(acked.seq, file[LimboFile].seq)
        BY <2>3, <1>1, SuccFacts
      <3> QED BY <3>1, <2>1, <2>3, <1>2, <1>4 DEF Loaded, Best, HasLimbo, Files
    <2>4. CASE Valid(LimboFile) /\ Succ(file[LimboFile].seq) = acked.seq
                /\ file[LimboFile].seq # Succ(acked.seq)
      <3>1. /\ Newer(acked.seq, file[LimboFile].seq)
            /\ ~Newer(file[LimboFile].seq, acked.seq)
        BY <2>4, <1>2, <1>3, SuccFacts
      <3> QED BY <3>1, <2>1, <2>4, <1>2, <1>4 DEF Loaded, Best, HasLimbo, Files
    <2> QED BY <2>2, <2>3, <2>4 DEF JournalInv, Neighbour
  <1>5. CASE file[acked.seq % 2] # acked
    <2>1. /\ acked = Rec(0, Source) /\ file[0] = Absent
          /\ Valid(1) => file[1].seq = 1
      BY <1>5 DEF JournalInv, Kept
    <2>2. acked.seq = 0 /\ LimboFile = 1 /\ ~Valid(0)
      BY <2>1, <1>2 DEF Rec, Valid, Absent
    <2> QED BY <2>1, <2>2, FirstSeqs DEF Loaded, Best, HasLimbo
  <1> QED BY <1>4, <1>5

\* The record a load adopts is a record, and it is in its own file.
LEMMA LoadedType ==
    ASSUME JournalInv
    PROVE  Loaded \in Records
  <1>1. CASE HasLimbo
    <2>1. LimboFile \in Files
      BY SuccFacts DEF JournalInv, TypeOK, Records, LimboFile, Files
    <2> QED BY <1>1, <2>1, LoadChoice, FileShape DEF HasLimbo, JournalInv
  <1>2. CASE ~HasLimbo
    BY <1>2, LoadChoice DEF JournalInv, TypeOK
  <1> QED BY <1>1, <1>2
-----------------------------------------------------------------------------
LEMMA InitInv == Init => JournalInv
  <1> SUFFICES ASSUME Init PROVE JournalInv OBVIOUS
  <1>1. TypeOK
    BY FirstSeqs, JournalAssumption
    DEF Init, TypeOK, Rec, Records, Absent, Files
  <1>2. acked.seq = 0 /\ LimboFile = 1 /\ ~Valid(1) /\ ~Valid(0)
    BY DEF Init, Rec, LimboFile, Valid, Absent, Files
  <1>3. Kept /\ Neighbour /\ InJob
    BY <1>2 DEF Init, Kept, Neighbour, InJob, Rec, Absent, Files
  <1> QED BY <1>1, <1>3 DEF JournalInv

\* A load keeps the invariant: the loaded record becomes the acknowledged one,
\* and the other file holds its neighbour.
LEMMA LoadStep ==
    ASSUME JournalInv, LoadOk
    PROVE  JournalInv'
  <1>1. Loaded \in Records /\ Loaded.seq \in Seq32
    BY LoadedType DEF Records
  <1>2. TypeOK'
    BY <1>1 DEF JournalInv, TypeOK, LoadOk
  <1>3. acked \in Records /\ acked.seq \in Seq32
    BY DEF JournalInv, TypeOK, Records
  <1>4. InJob'
    BY DEF JournalInv, InJob, LoadOk
  <1>5. CASE ~HasLimbo
    <2>1. acked' = acked /\ file' = file
      BY <1>5, LoadChoice DEF LoadOk
    <2>3. Neighbour'
      BY <2>1 DEF JournalInv, Neighbour, LimboFile, Valid
    <2>4. Kept'
      <3>1. CASE file[acked.seq % 2] = acked
        BY <2>1, <3>1 DEF Kept
      <3>2. CASE file[acked.seq % 2] # acked
        <4>1. /\ ~ever /\ acked = Rec(0, Source) /\ file[0] = Absent
              /\ Valid(1) => file[1].seq = 1
          BY <3>2 DEF JournalInv, Kept
        <4>2. acked.seq = 0 /\ LimboFile = 1 /\ ~Valid(0)
          BY <4>1 DEF Rec, LimboFile, Valid, Absent
        <4>3. ~Valid(1)
          BY <4>1, <4>2, <1>5, FirstSeqs DEF HasLimbo
        <4>4. ~ever'
          BY <4>1, <4>2, <4>3 DEF LoadOk
        <4> QED BY <2>1, <4>1, <4>4 DEF Kept, Rec, Valid
      <3> QED BY <3>1, <3>2
    <2> QED BY <1>2, <1>4, <2>3, <2>4 DEF JournalInv
  <1>6. CASE HasLimbo
    <2>1. acked' = file[LimboFile] /\ file' = file
      BY <1>6, LoadChoice DEF LoadOk
    <2>2. /\ acked'.seq = Succ(acked.seq)
          /\ acked'.seq % 2 = LimboFile
          /\ LimboFile' = acked.seq % 2
      BY <1>3, <1>6, <2>1, SuccFacts DEF HasLimbo, LimboFile, Files
    <2>3. Kept'
      BY <2>1, <2>2 DEF Kept
    <2>4. Neighbour'
      <3>1. CASE file[acked.seq % 2] = acked
        BY <3>1, <2>1, <2>2 DEF Neighbour
      <3>2. CASE file[acked.seq % 2] # acked
        <4>1. file[acked.seq % 2] = Absent
          BY <3>2 DEF JournalInv, Kept, Rec
        <4> QED BY <4>1, <2>1, <2>2 DEF Neighbour, Valid, Absent
      <3> QED BY <3>1, <3>2
    <2> QED BY <1>2, <1>4, <2>3, <2>4 DEF JournalInv
  <1> QED BY <1>5, <1>6

\* A step of e11_save that writes one of Torn or the new record to the target
\* file leaves the acknowledged record alone.
LEMMA TargetStep ==
    ASSUME JournalInv, pc # "idle", UNCHANGED <<acked, ever, job>>,
           NEW r \in {Torn, Rec(Succ(job.seq), job.fig)},
           file' = [file EXCEPT ![Target(job.seq)] = r]
    PROVE  /\ Kept' /\ Neighbour'
           /\ file' \in [Files -> Records \cup {Absent, Torn}]
           /\ file'[Target(job.seq)] = r
  <1>1. /\ acked \in Records /\ acked.seq \in Seq32 /\ job.seq = acked.seq
        /\ job \in Records /\ job.fig \in Fig
    BY DEF JournalInv, TypeOK, Records, InJob
  <1>2. /\ Target(job.seq) = LimboFile /\ LimboFile \in Files
        /\ acked.seq % 2 \in Files /\ acked.seq % 2 # LimboFile
        /\ Succ(acked.seq) \in Seq32
    BY <1>1, SuccFacts DEF Target, LimboFile, Files
  <1>3. r \in Records \cup {Absent, Torn}
    BY <1>1, <1>2 DEF Rec, Records
  <1>4. /\ file' \in [Files -> Records \cup {Absent, Torn}]
        /\ file'[Target(job.seq)] = r
        /\ file'[acked.seq % 2] = file[acked.seq % 2]
    BY <1>2, <1>3 DEF JournalInv, TypeOK
  <1>5. r = Torn \/ (r.st = "valid" /\ r.seq = Succ(acked.seq))
    BY <1>1 DEF Rec
  <1>6. Neighbour'
    BY <1>2, <1>4, <1>5 DEF Neighbour, LimboFile, Valid, Torn
  <1>7. Kept'
    <2>1. CASE file[acked.seq % 2] = acked
      BY <2>1, <1>4 DEF Kept
    <2>2. CASE file[acked.seq % 2] # acked
      <3>1. ~ever /\ acked = Rec(0, Source) /\ file[0] = Absent
        BY <2>2 DEF JournalInv, Kept
      <3>2. acked.seq = 0 /\ LimboFile = 1
        BY <3>1 DEF Rec, LimboFile
      <3>3. Succ(acked.seq) = 1
        BY <3>2, FirstSeqs
      <3>4. Valid(1)' => file'[1].seq = 1
        BY <1>2, <1>4, <1>5, <3>2, <3>3 DEF Valid, Torn
      <3>5. file'[0] = Absent
        BY <1>4, <3>1, <3>2
      <3> QED BY <3>1, <3>4, <3>5 DEF Kept
    <2> QED BY <2>1, <2>2
  <1> QED BY <1>4, <1>6, <1>7

\* The record of the other file is the neighbour of acked, so a save that has
\* been read back makes it the acknowledged one.
LEMMA DoneStep ==
    ASSUME JournalInv, SaveDone
    PROVE  JournalInv'
  <1>1. /\ acked \in Records /\ acked.seq \in Seq32 /\ job.seq = acked.seq
        /\ job \in Records /\ job.fig \in Fig /\ live /\ seq = acked.seq
    BY DEF JournalInv, TypeOK, Records, InJob, SaveDone
  <1>2. /\ Target(job.seq) = LimboFile /\ LimboFile \in Files
        /\ acked.seq % 2 \in Files /\ acked.seq % 2 = 1 - LimboFile
        /\ Succ(acked.seq) \in Seq32 /\ Succ(acked.seq) % 2 = LimboFile
    BY <1>1, SuccFacts DEF Target, LimboFile, Files
  <1>3. /\ acked' \in Records /\ acked'.seq = Succ(acked.seq)
        /\ acked' = file[LimboFile] /\ file' = file
    BY <1>1, <1>2 DEF SaveDone, Rec, Records
  <1>4. LimboFile' = acked.seq % 2
    BY <1>2, <1>3 DEF LimboFile, Files
  <1>5. TypeOK'
    BY <1>1, <1>2, <1>3 DEF JournalInv, TypeOK, SaveDone
  <1>6. Kept'
    BY <1>2, <1>3 DEF Kept
  <1>7. Neighbour'
    <2>1. CASE file[acked.seq % 2] = acked
      BY <2>1, <1>3, <1>4 DEF Neighbour
    <2>2. CASE file[acked.seq % 2] # acked
      <3>1. acked = Rec(0, Source) /\ file[0] = Absent
        BY <2>2 DEF JournalInv, Kept
      <3>2. acked.seq % 2 = 0
        BY <3>1 DEF Rec
      <3> QED BY <3>1, <3>2, <1>3, <1>4 DEF Neighbour, Valid, Absent
    <2> QED BY <2>1, <2>2
  <1>8. InJob'
    BY <1>1, <1>3 DEF InJob, SaveDone
  <1> QED BY <1>5, <1>6, <1>7, <1>8 DEF JournalInv

\* A save that stops where it is, with or without the record in its file.
LEMMA StopStep ==
    ASSUME JournalInv, pc' = "idle", UNCHANGED <<job, seq, acked, ever>>,
           live' \in BOOLEAN, live' => live,
           \/ UNCHANGED file
           \/ /\ pc = "write"
              /\ file' = [file EXCEPT ![Target(job.seq)] = Rec(Succ(job.seq), job.fig)]
    PROVE  JournalInv'
  <1>1. CASE UNCHANGED file
    <2>1. TypeOK' /\ InJob'
      BY <1>1 DEF JournalInv, TypeOK, InJob
    <2>2. Kept' /\ Neighbour'
      BY <1>1 DEF JournalInv, Kept, Neighbour, LimboFile, Valid
    <2> QED BY <2>1, <2>2 DEF JournalInv
  <1>2. CASE ~UNCHANGED file
    <2>1. /\ pc = "write"
          /\ file' = [file EXCEPT ![Target(job.seq)] = Rec(Succ(job.seq), job.fig)]
      BY <1>2
    <2>2. Kept' /\ Neighbour' /\ file' \in [Files -> Records \cup {Absent, Torn}]
      BY <2>1, TargetStep
    <2>3. TypeOK' /\ InJob'
      BY <2>2 DEF JournalInv, TypeOK, InJob
    <2> QED BY <2>2, <2>3 DEF JournalInv
  <1> QED BY <1>1, <1>2

LEMMA StepInv == JournalInv /\ [Next]_vars => JournalInv'
  <1> SUFFICES ASSUME JournalInv, [Next]_vars PROVE JournalInv'
    OBVIOUS
  <1>1. CASE LoadOk
    BY <1>1, LoadStep
  <1>2. ASSUME NEW f \in Fig, SaveStart(f) PROVE JournalInv'
    <2>1. TypeOK'
      BY <1>2 DEF JournalInv, TypeOK, SaveStart, Rec, Records
    <2>2. Kept' /\ Neighbour'
      BY <1>2 DEF JournalInv, SaveStart, Kept, Neighbour, LimboFile, Valid
    <2>3. InJob'
      BY <1>2 DEF JournalInv, SaveStart, InJob, Rec
    <2> QED BY <2>1, <2>2, <2>3 DEF JournalInv
  <1>3. CASE SaveOpen
    <2>1. /\ Kept' /\ Neighbour'
          /\ file' \in [Files -> Records \cup {Absent, Torn}]
          /\ file'[Target(job.seq)] = Torn
      BY <1>3, TargetStep DEF SaveOpen
    <2>2. TypeOK'
      BY <1>3, <2>1 DEF JournalInv, TypeOK, SaveOpen
    <2>3. InJob'
      BY <1>3, <2>1 DEF JournalInv, InJob, SaveOpen
    <2> QED BY <2>1, <2>2, <2>3 DEF JournalInv
  <1>4. CASE SaveWrite
    <2>1. PICK r \in {Rec(Succ(job.seq), job.fig), Torn} :
             file' = [file EXCEPT ![Target(job.seq)] = r]
      BY <1>4 DEF SaveWrite
    <2>2. /\ Kept' /\ Neighbour'
          /\ file' \in [Files -> Records \cup {Absent, Torn}]
          /\ file'[Target(job.seq)] = r
      BY <1>4, <2>1, TargetStep DEF SaveWrite
    <2>3. TypeOK'
      BY <1>4, <2>2 DEF JournalInv, TypeOK, SaveWrite
    <2>4. InJob'
      BY <1>4, <2>1, <2>2 DEF JournalInv, InJob, SaveWrite
    <2> QED BY <2>2, <2>3, <2>4 DEF JournalInv
  <1>5. CASE SaveDone
    BY <1>5, DoneStep
  <1>6. CASE SaveFail
    BY <1>6, StopStep DEF SaveFail, JournalInv, TypeOK
  <1>8. CASE PowerLoss
    BY <1>8, StopStep DEF PowerLoss
  <1>7. CASE UNCHANGED vars
    BY <1>7 DEF vars, JournalInv, TypeOK, Kept, Neighbour, InJob, LimboFile, Valid
  <1> QED BY <1>1, <1>2, <1>3, <1>4, <1>5, <1>6, <1>7, <1>8 DEF Next
-----------------------------------------------------------------------------
\* The invariant that explains why one of the two files is always safe holds
\* in every reachable state.
THEOREM JournalInvariant == Spec => []JournalInv
  BY InitInv, StepInv, PTL DEF Spec

\* Every variable keeps its type: in particular every sequence stays a 32-bit
\* number through the wrap.
THEOREM JournalTypes == Spec => []TypeOK
  <1>1. JournalInv => TypeOK
    BY DEF JournalInv
  <1> QED BY <1>1, JournalInvariant, PTL

\* A load after a power loss at any instant returns the last figure whose save
\* was reported as done, or the one saved after it, for every figure content
\* and every sequence range.
THEOREM NeverStale == Spec => []LoadNeverStale
  <1>1. JournalInv => LoadNeverStale
    <2> SUFFICES ASSUME JournalInv PROVE LoadNeverStale OBVIOUS
    <2>1. LimboFile \in Files
      BY SuccFacts DEF JournalInv, TypeOK, Records, LimboFile, Files
    <2> QED BY <2>1, LoadChoice DEF LoadNeverStale
  <1> QED BY <1>1, JournalInvariant, PTL

\* A figure that was saved once can be read at every later instant.
THEOREM StaysReadable == Spec => []SavedStaysReadable
  <1>1. JournalInv => SavedStaysReadable
    <2> SUFFICES ASSUME JournalInv, ever PROVE SavedStaysReadable
      BY DEF SavedStaysReadable
    <2>1. acked \in Records /\ acked.seq % 2 \in Files
      BY SuccFacts DEF JournalInv, TypeOK, Records
    <2>2. file[acked.seq % 2] = acked
      BY DEF JournalInv, Kept
    <2> QED BY <2>1, <2>2 DEF SavedStaysReadable, Readable, Valid, Records, Files
  <1> QED BY <1>1, JournalInvariant, PTL
-----------------------------------------------------------------------------
\* The figure in limbo, as the refinement mapping computes it.
MapLimbo == IF HasLimbo THEN file[LimboFile].fig ELSE NoFig
MapWriting == IF pc = "idle" THEN NoFig ELSE job.fig

\* After a record becomes the acknowledged one the other file holds an older
\* record or none, so nothing is in limbo.
LEMMA NoLimboAfter ==
    ASSUME JournalInv, HasLimbo, UNCHANGED file, acked' = file[LimboFile]
    PROVE  ~HasLimbo'
  <1>1. acked \in Records /\ acked.seq \in Seq32
    BY DEF JournalInv, TypeOK, Records
  <1>2. /\ acked'.seq = Succ(acked.seq)
        /\ LimboFile' = acked.seq % 2
        /\ Succ(acked'.seq) # acked.seq
    BY <1>1, SuccFacts DEF HasLimbo, LimboFile, Files
  <1>3. CASE file[acked.seq % 2] = acked
    BY <1>2, <1>3 DEF HasLimbo
  <1>4. CASE file[acked.seq % 2] # acked
    <2>1. acked = Rec(0, Source) /\ file[0] = Absent
      BY <1>4 DEF JournalInv, Kept
    <2>2. acked.seq % 2 = 0
      BY <2>1 DEF Rec
    <2> QED BY <1>2, <2>1, <2>2 DEF HasLimbo, Valid, Absent
  <1> QED BY <1>3, <1>4

\* A rewrite of the target file puts the figure being saved in limbo, or
\* nothing.
LEMMA LimboAfterWrite ==
    ASSUME JournalInv, pc # "idle", UNCHANGED <<acked, job>>,
           NEW r \in {Torn, Rec(Succ(job.seq), job.fig)},
           file' = [file EXCEPT ![Target(job.seq)] = r]
    PROVE  MapLimbo' \in {NoFig, job.fig}
  <1>1. acked.seq \in Seq32 /\ job.seq = acked.seq
    BY DEF JournalInv, TypeOK, Records, InJob
  <1>2. Target(job.seq) = LimboFile /\ LimboFile \in Files /\ LimboFile' = LimboFile
    BY <1>1, SuccFacts DEF Target, LimboFile, Files
  <1>3. file'[LimboFile'] = r
    BY <1>2 DEF JournalInv, TypeOK
  <1> QED BY <1>3 DEF MapLimbo, HasLimbo, Valid, Torn, Rec

LEMMA StepRefines ==
    JournalInv /\ [Next]_vars => [Store!FSNext]_(Store!fsVars)
  <1> SUFFICES ASSUME JournalInv, [Next]_vars
               PROVE  [Store!FSNext]_(Store!fsVars)
    OBVIOUS
  <1> USE DEF MapLimbo, MapWriting
  <1>1. /\ acked.fig \in Fig /\ job.fig \in Fig
        /\ acked.fig # NoFig /\ job.fig # NoFig
    BY JournalAssumption DEF JournalInv, TypeOK, Records
  <1>2. HasLimbo => file[LimboFile].fig \in Fig /\ file[LimboFile].fig # NoFig
    <2>1. LimboFile \in Files
      BY SuccFacts DEF JournalInv, TypeOK, Records, LimboFile, Files
    <2> QED BY <2>1, FileShape, JournalAssumption DEF HasLimbo, JournalInv
  <1>3. CASE LoadOk
    <2>1. MapLimbo' = NoFig
      <3>1. CASE HasLimbo
        BY <1>3, <3>1, LoadChoice, NoLimboAfter DEF LoadOk
      <3>2. CASE ~HasLimbo
        BY <1>3, <3>2, LoadChoice DEF LoadOk, HasLimbo, LimboFile, Valid
      <3> QED BY <3>1, <3>2
    <2>2. acked'.fig \in {acked.fig, MapLimbo} \ {NoFig}
      BY <1>1, <1>2, <1>3, LoadChoice DEF LoadOk
    <2> QED BY <1>3, <2>1, <2>2 DEF LoadOk, Store!FSNext, Store!Load
  <1>4. ASSUME NEW f \in Fig, SaveStart(f) PROVE Store!Begin
    <2>1. MapLimbo' = MapLimbo /\ acked' = acked
      BY <1>4 DEF SaveStart, HasLimbo, LimboFile, Valid
    <2> QED BY <1>4, <2>1 DEF SaveStart, Store!Begin, Rec
  <1>5. CASE SaveOpen \/ SaveWrite
    <2>1. /\ pc # "idle" /\ pc' # "idle" /\ UNCHANGED <<acked, job, live>>
          /\ \E r \in {Torn, Rec(Succ(job.seq), job.fig)} :
                 file' = [file EXCEPT ![Target(job.seq)] = r]
      BY <1>5 DEF SaveOpen, SaveWrite
    <2>2. MapLimbo' \in {NoFig, job.fig}
      BY <2>1, LimboAfterWrite
    <2> QED BY <1>1, <2>1, <2>2 DEF Store!FSNext, Store!Progress
  <1>6. CASE SaveDone
    <2>1. /\ job.seq = acked.seq /\ Target(job.seq) = LimboFile
          /\ HasLimbo /\ file[LimboFile].fig = job.fig
          /\ acked' = file[LimboFile] /\ acked'.fig = job.fig
      BY <1>6, SuccFacts
      DEF SaveDone, JournalInv, InJob, TypeOK, Records, Target, LimboFile,
          HasLimbo, Valid, Rec, Files
    <2>2. MapLimbo' = NoFig
      BY <1>6, <2>1, NoLimboAfter DEF SaveDone
    <2> QED BY <1>1, <1>6, <2>1, <2>2 DEF SaveDone, Store!FSNext, Store!Done
  <1>7. ASSUME SaveFail \/ PowerLoss
        PROVE  MapLimbo' \in {NoFig, MapLimbo, MapWriting}
    <2>1. CASE UNCHANGED file
      BY <1>7, <2>1 DEF SaveFail, PowerLoss, HasLimbo, LimboFile, Valid
    <2>2. CASE ~UNCHANGED file
      BY <1>7, <2>2, LimboAfterWrite DEF SaveFail, PowerLoss
    <2> QED BY <2>1, <2>2
  <1>8. CASE SaveFail
    BY <1>1, <1>7, <1>8 DEF SaveFail, Store!FSNext, Store!Fail
  <1>9. CASE PowerLoss
    BY <1>7, <1>9 DEF PowerLoss, Store!FSNext, Store!Forget
  <1>10. CASE UNCHANGED vars
    BY <1>10 DEF vars, Store!fsVars, HasLimbo, LimboFile, Valid
  <1> QED BY <1>3, <1>4, <1>5, <1>6, <1>8, <1>9, <1>10 DEF Next, Store!FSNext

\* The two journals behave like one store that never forgets a save it
\* reported: each step of the worker, each failure and each power loss is a
\* step of FigureStore.
THEOREM JournalRefinesStore == Spec => JournalStore
  <1>1. Init => Store!FSInit
    BY DEF Init, Store!FSInit, HasLimbo, LimboFile, Valid, Absent, Rec, Files
  <1> QED BY <1>1, JournalInvariant, StepRefines, PTL
          DEF Spec, JournalStore, Store!FSSpec
=============================================================================
