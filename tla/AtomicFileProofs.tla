-------------------------- MODULE AtomicFileProofs --------------------------
(***************************************************************************)
(* What write_atomic guarantees, for every text, reader and number of      *)
(* crashes.                                                                *)
(***************************************************************************)
EXTENDS AtomicFile, TLAPS

\* What the writer knows at each of its steps: until it removes the file the old
\* text is in place, and from then on the temporary file is complete.
WriterInv ==
    /\ target \in Contents \cup {Absent}
    /\ pc \in {"open", "fill", "unlink"} => target = before
    /\ pc \in {"unlink", "replace"} => tmp = content
    /\ pc = "replace" => target = Absent

IInv == TypeOK /\ WriterInv /\ OldOrNewOnDisk

\* The initial states satisfy the invariant.
LEMMA IInvInit == Init => IInv
  BY AtomicFileAssumption
  DEF Init, IInv, TypeOK, WriterInv, OldOrNewOnDisk, States, WriterPCs, ReaderPCs, Results

\* Readers change nothing but their own state.
LEMMA ReaderStep ==
  ASSUME IInv, NEW r \in Readers, CheckFile(r) \/ ReadText(r)
  PROVE  IInv'
<1>1. WriterInv' /\ OldOrNewOnDisk'
  BY DEF IInv, WriterInv, OldOrNewOnDisk, CheckFile, ReadText, writer
<1>2. rpc' \in [Readers -> ReaderPCs] /\ result' \in [Readers -> Results]
  BY DEF IInv, TypeOK, CheckFile, ReadText, ReaderPCs, Results
<1>3. TypeOK'
  BY <1>2 DEF IInv, TypeOK, CheckFile, ReadText, writer
<1> QED
  BY <1>1, <1>3 DEF IInv

\* Every step keeps the invariant.
LEMMA IInvStep == IInv /\ [Next]_vars => IInv'
<1> SUFFICES ASSUME IInv, [Next]_vars
             PROVE  IInv'
  OBVIOUS
<1> USE AtomicFileAssumption DEF IInv, TypeOK, WriterInv, OldOrNewOnDisk, States, WriterPCs
<1>1. ASSUME NEW c \in Contents, Call(c)
      PROVE  IInv'
  BY <1>1 DEF Call
<1>2. CASE OpenTmp
  BY <1>2 DEF OpenTmp
<1>3. CASE FillTmp
  BY <1>3 DEF FillTmp
<1>4. CASE Unlink
  BY <1>4 DEF Unlink
<1>5. CASE Replace
  BY <1>5 DEF Replace
<1>6. CASE Clear \/ Crash \/ Restart
  BY <1>6 DEF Clear, Crash, Restart
<1>7. CASE UNCHANGED vars
  BY <1>7 DEF vars, writer
<1> QED
  BY <1>1, <1>2, <1>3, <1>4, <1>5, <1>6, <1>7, ReaderStep DEF Next

\* The invariant holds of every behaviour.
LEMMA Invariant == Spec => []IInv
  BY IInvInit, IInvStep, PTL DEF Spec

\* Type correctness: read_state always ends with one of its answers.
THEOREM FileTypeCorrect == Spec => []TypeOK
<1>1. IInv => TypeOK
  BY DEF IInv
<1> QED
  BY <1>1, Invariant, PTL

\* No crash leaves a text that is cut short under the file's own name.
THEOREM ReadersSeeWholeTexts == Spec => []NeverCutShort
<1>1. IInv => NeverCutShort
  BY AtomicFileAssumption DEF IInv, WriterInv, NeverCutShort
<1> QED
  BY <1>1, Invariant, PTL

\* The old or the new text of a file that existed is on disk at every moment, if
\* only under the temporary name.
THEOREM NothingIsLost == Spec => []OldOrNewOnDisk
<1>1. IInv => OldOrNewOnDisk
  BY DEF IInv
<1> QED
  BY <1>1, Invariant, PTL
=============================================================================
