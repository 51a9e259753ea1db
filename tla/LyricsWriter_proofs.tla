------------------------ MODULE LyricsWriter_proofs -------------------------
(* Theorems about module LyricsWriter for any processes writing any songs. *)
EXTENDS LyricsWriter, TLAPS

\* A step that moves one call on, never towards Remove or Rename without a
\* whole temp file, and leaves no half-written file keeps the invariant.
LEMMA OneCall ==
  ASSUME WriterInv, NEW w \in Writers, NEW call \in Calls,
         writer' = [writer EXCEPT ![w] = call],
         call.pc \in {"remove", "rename"} => call.temp = "whole",
         files' \in [Formats -> Content \ {"partial"}]
  PROVE  WriterInv'
<1>1. writer' \in [Writers -> Calls]
  BY DEF WriterInv, TypeOK
<1>2. \A v \in Writers : writer'[v] = IF v = w THEN call ELSE writer[v]
  BY DEF WriterInv, TypeOK
<1>3. CompleteFirst'
  BY <1>2 DEF WriterInv, CompleteFirst
<1>4. files' \in [Formats -> Content] /\ NeverPartial'
  BY DEF NeverPartial
<1> QED
  BY <1>1, <1>3, <1>4 DEF WriterInv, TypeOK

\* One system call of one process keeps the invariant.
LEMMA WriterStep ==
  ASSUME WriterInv, NEW w \in Writers,
         \/ Call(w) \/ Create(w) \/ Fill(w) \/ Remove(w) \/ Rename(w)
         \/ Sidecar(w) \/ SidecarStays(w) \/ WriteFails(w) \/ Crash(w)
  PROVE  WriterInv'
<1> DEFINE Whole == [Formats -> Content \ {"partial"}]
<1>1. writer \in [Writers -> Calls] /\ writer[w] \in Calls
  BY DEF WriterInv, TypeOK
<1>2. writer[w].kind \in Kinds /\ writer[w].result \in {"none", "saved", "error"}
  BY <1>1 DEF Calls
<1>3. files \in Whole
  BY DEF WriterInv, TypeOK, NeverPartial
<1>4. \A format \in Formats, c \in Content \ {"partial"} :
        [files EXCEPT ![format] = c] \in Whole
  BY <1>3
<1>5. Mine(w) \in Formats /\ Other(Mine(w)) \in Formats
  BY DEF Mine, FormatOf, Other, Formats
<1>6. "none" \in Content \ {"partial"} /\ w \in Content \ {"partial"}
  BY LyricsWriterAssumption DEF Content
<1>7. CASE Call(w)
  <2>1. PICK kind \in Offers[w] :
          writer' = [writer EXCEPT
            ![w] = [pc |-> IF kind = "nothing" THEN "idle" ELSE "create",
                    kind |-> kind, temp |-> "none",
                    result |-> IF kind = "nothing" THEN "error" ELSE "none"]]
    BY <1>7 DEF Call
  <2>2. kind \in Kinds /\ files' \in Whole
    BY <1>3, <1>7, LyricsWriterAssumption DEF Call
  <2> DEFINE call == [pc |-> IF kind = "nothing" THEN "idle" ELSE "create",
                      kind |-> kind, temp |-> "none",
                      result |-> IF kind = "nothing" THEN "error" ELSE "none"]
  <2>3. call \in Calls /\ call.pc \notin {"remove", "rename"}
    BY <2>2 DEF Calls
  <2> HIDE DEF call
  <2>4. writer' = [writer EXCEPT ![w] = call]
    BY <2>1 DEF call
  <2> QED
    BY <2>2, <2>3, <2>4, OneCall
<1>8. ASSUME NEW pc \in {"idle", "create", "fill", "remove", "rename", "sidecar"},
              NEW temp \in {"none", "partial", "whole"},
              NEW result \in {"none", "saved", "error"},
              pc \in {"remove", "rename"} => temp = "whole",
              Step(w, pc, temp, result),
              files' \in Whole
       PROVE  WriterInv'
  <2> DEFINE call == [pc |-> pc, kind |-> writer[w].kind, temp |-> temp,
                      result |-> result]
  <2>1. call \in Calls
    BY <1>2 DEF Calls
  <2>2. call.pc = pc /\ call.temp = temp
    OBVIOUS
  <2>3. writer' = [writer EXCEPT ![w] = call]
    BY <1>8 DEF Step
  <2> HIDE DEF call
  <2> QED
    BY <1>8, <2>1, <2>2, <2>3, OneCall
<1> HIDE DEF Whole
<1>9. CASE Create(w)
  BY <1>2, <1>3, <1>8, <1>9 DEF Create, Goto
<1>10. CASE Fill(w)
  BY <1>2, <1>3, <1>8, <1>10 DEF Fill, Goto
<1>11. writer[w].pc \in {"remove", "rename"} => writer[w].temp = "whole"
  BY DEF WriterInv, CompleteFirst
<1>12. CASE Remove(w)
  BY <1>2, <1>4, <1>5, <1>6, <1>8, <1>11, <1>12 DEF Remove, Goto, At
<1>13. CASE Rename(w)
  BY <1>2, <1>4, <1>5, <1>6, <1>8, <1>11, <1>13 DEF Rename, Goto, At
<1>14. CASE Sidecar(w)
  BY <1>4, <1>5, <1>6, <1>8, <1>14 DEF Sidecar, Return
<1>15. CASE SidecarStays(w) \/ WriteFails(w)
  BY <1>3, <1>8, <1>15 DEF SidecarStays, WriteFails, Return
<1>16. CASE Crash(w)
  <2>1. Idle \in Calls /\ Idle.pc = "idle"
    BY DEF Idle, Calls, Kinds
  <2> QED
    BY <1>3, <1>16, <2>1, OneCall DEF Crash, Whole
<1> QED
  BY <1>7, <1>9, <1>10, <1>12, <1>13, <1>14, <1>15, <1>16

\* However many processes write lyrics of the same audio file, whatever system
\* call fails and whenever one of them dies, no .lrc and no .txt is ever half
\* written (the temp file and the rename of LRCWriter.WriteLRC).
THEOREM LyricsNeverPartial == WriterSpec => []WriterInv
<1>1. Init => WriterInv
  BY LyricsWriterAssumption DEF Init, Idle, WriterInv, TypeOK, CompleteFirst,
     NeverPartial, Calls, Content, Formats, Kinds
<1>2. WriterInv /\ [Next]_vars => WriterInv'
  <2> SUFFICES ASSUME WriterInv, [Next]_vars PROVE WriterInv'
    OBVIOUS
  <2>1. CASE Next
    BY <2>1, WriterStep DEF Next
  <2>2. CASE UNCHANGED vars
    BY <2>2 DEF vars, WriterInv, TypeOK, CompleteFirst, NeverPartial
  <2> QED
    BY <2>1, <2>2
<1> QED
  BY <1>1, <1>2, PTL DEF WriterSpec

-----------------------------------------------------------------------------
(* A process that writes alone.                                            *)

\* What a step takes away was replaced, as GivenUpForNew says.
Replaced ==
  \A format \in Formats :
    files[format] # "none" /\ files'[format] = "none"
    => \/ files[Other(format)] \in Writers
       \/ \E w \in Writers : writer[w].temp = "whole"

\* Nobody else removes what the process has renamed into place.
LEMMA AloneStep ==
  ASSUME WriterInv, RenamedIsThere, SavedIsThere, NEW w, Writers = {w},
         \/ Call(w) \/ Create(w) \/ Fill(w) \/ Remove(w) \/ Rename(w)
         \/ Sidecar(w) \/ SidecarStays(w) \/ WriteFails(w) \/ Crash(w)
  PROVE  RenamedIsThere' /\ SavedIsThere' /\ Replaced
<1>1. /\ w \in Writers /\ writer \in [Writers -> Calls] /\ writer[w] \in Calls
      /\ files \in [Formats -> Content]
      /\ writer[w].pc \in {"remove", "rename"} => writer[w].temp = "whole"
  BY DEF WriterInv, TypeOK, CompleteFirst
<1>2. /\ Mine(w) \in Formats /\ Other(Mine(w)) \in Formats
      /\ Mine(w) # Other(Mine(w)) /\ Other(Other(Mine(w))) = Mine(w)
  BY DEF Mine, FormatOf, Other, Formats
<1>3. /\ writer[w].pc = "sidecar" => files[Mine(w)] = w
      /\ writer[w].pc = "idle" /\ writer[w].result = "saved" => files[Mine(w)] = w
  BY <1>1 DEF RenamedIsThere, SavedIsThere, At
\* A step to a position where the writer has nothing to show for itself.
<1>4. ASSUME NEW call, writer' = [writer EXCEPT ![w] = call],
             call.pc # "sidecar", call.pc = "idle" => call.result # "saved"
      PROVE  RenamedIsThere' /\ SavedIsThere'
  BY <1>1, <1>4 DEF RenamedIsThere, SavedIsThere, At
\* A step to a position where it has.
<1>5. ASSUME NEW call, writer' = [writer EXCEPT ![w] = call],
             call.kind = writer[w].kind, files'[Mine(w)] = w
      PROVE  RenamedIsThere' /\ SavedIsThere'
  BY <1>1, <1>5 DEF RenamedIsThere, SavedIsThere, At, Mine
<1>6. UNCHANGED files => Replaced
  BY DEF Replaced
<1>7. ASSUME NEW pc, NEW temp, NEW result, Step(w, pc, temp, result),
             pc # "sidecar", pc = "idle" => result # "saved"
      PROVE  RenamedIsThere' /\ SavedIsThere'
  <2> DEFINE call == [pc |-> pc, kind |-> writer[w].kind, temp |-> temp, result |-> result]
  <2>1. call.pc = pc /\ call.result = result /\ writer' = [writer EXCEPT ![w] = call]
    BY <1>7 DEF Step
  <2> HIDE DEF call
  <2> QED
    BY <1>4, <1>7, <2>1
<1>8. CASE Call(w)
  <2>1. PICK kind \in Offers[w] :
          writer' = [writer EXCEPT
            ![w] = [pc |-> IF kind = "nothing" THEN "idle" ELSE "create",
                    kind |-> kind, temp |-> "none",
                    result |-> IF kind = "nothing" THEN "error" ELSE "none"]]
    BY <1>8 DEF Call
  <2> DEFINE call == [pc |-> IF kind = "nothing" THEN "idle" ELSE "create",
                      kind |-> kind, temp |-> "none",
                      result |-> IF kind = "nothing" THEN "error" ELSE "none"]
  <2>2. call.pc \in {"idle", "create"} /\ call.result # "saved"
    OBVIOUS
  <2>3. writer' = [writer EXCEPT ![w] = call]
    BY <2>1
  <2> HIDE DEF call
  <2> QED
    BY <1>4, <1>6, <1>8, <2>2, <2>3 DEF Call
<1>9. CASE Create(w) \/ Fill(w)
  BY <1>6, <1>9, <1>7 DEF Create, Fill, Goto
<1>10. CASE WriteFails(w)
  BY <1>6, <1>10, <1>7 DEF WriteFails, Return
<1>11. CASE Crash(w)
  <2>1. Idle.pc = "idle" /\ Idle.result = "none"
    BY DEF Idle
  <2> QED
    BY <1>4, <1>6, <1>11, <2>1 DEF Crash
<1>12. CASE Remove(w)
  <2>1. Replaced
    BY <1>1, <1>12 DEF Remove, At, Replaced
  <2> QED
    BY <1>12, <1>7, <2>1 DEF Remove, Goto
<1>13. CASE Rename(w)
  <2>1. /\ files'[Mine(w)] = w /\ w # "none"
        /\ \A format \in Formats \ {Mine(w)} : files'[format] = files[format]
    BY <1>1, <1>2, <1>13, LyricsWriterAssumption DEF Rename, At
  <2>2. Replaced
    BY <2>1 DEF Replaced
  <2> QED
    BY <1>5, <1>13, <2>1, <2>2 DEF Rename, Goto, Step
<1>14. CASE Sidecar(w)
  <2>1. /\ files[Mine(w)] = w /\ files'[Mine(w)] = w
        /\ \A format \in Formats \ {Other(Mine(w))} : files'[format] = files[format]
    BY <1>1, <1>2, <1>3, <1>14 DEF Sidecar, At
  <2>2. Replaced
    BY <1>1, <1>2, <2>1 DEF Replaced
  <2> QED
    BY <1>5, <1>14, <2>1, <2>2 DEF Sidecar, Return, Step
<1>15. CASE SidecarStays(w)
  BY <1>3, <1>5, <1>6, <1>15 DEF SidecarStays, Return, Step, At
<1> QED
  BY <1>8, <1>9, <1>10, <1>11, <1>12, <1>13, <1>14, <1>15

=============================================================================
