--------------------------- MODULE Attempt_proofs ---------------------------
(***************************************************************************)
(* Theorems about module Attempt: any answers of the provider and of the   *)
(* transcriber, any mode of the scans, with and without verification.      *)
(***************************************************************************)
EXTENDS Attempt, LyricsWriter_proofs

-----------------------------------------------------------------------------
(* The attempt's own state.                                                *)

\* A step of the attempt to another position changes nothing else of it.
LEMMA MoveFields ==
  ASSUME AttemptTypeOK, NEW pc, AttemptTo(pc)
  PROVE  /\ attempt'.pc = pc /\ attempt'.scanned = attempt.scanned
         /\ attempt'.song = attempt.song /\ attempt'.hit = attempt.hit
         /\ attempt'.verified = attempt.verified
BY DEF AttemptTypeOK, AttemptTo

\* Songs, answers and the cache.
LEMMA SongFacts ==
  ASSUME AttemptTypeOK
  PROVE  /\ NoSong \in Songs /\ Decoded(cache.song) \in Songs
         /\ Decoded(cache.song).low => cache.song.low
         /\ \A res \in Responses[era] : FindLyrics(res).song \in Songs
<1>1. LegacyText.named = FALSE /\ LegacyText.low = FALSE
      /\ [LegacyText EXCEPT !.named = TRUE].low = FALSE
  BY DEF LegacyText
<1>2. Decoded(LegacyText) = [LegacyText EXCEPT !.named = TRUE]
  BY <1>1 DEF Decoded
<1>3. cache.song \in Songs /\ era \in 1..Len(Responses)
  BY DEF AttemptTypeOK
<1>4. NoSong \in Songs /\ Decoded(LegacyText) \in Songs
  BY DEF Songs
<1>5. Decoded(cache.song) \in Songs /\ (Decoded(cache.song).low => cache.song.low)
  BY <1>1, <1>2, <1>3, <1>4 DEF Decoded
<1>6. \A res \in Responses[era] : FindLyrics(res).song \in Songs
  BY <1>3 DEF Songs
<1> QED
  BY <1>4, <1>5, <1>6

\* The steps of the worker from Dequeue to the end of the attempt, by what
\* they do to the rest of the state.
LEMMA AttemptFrame ==
  ASSUME AttemptNext
  PROVE  /\ \/ Lookup \/ Fetch \/ Check \/ Sampled \/ StatementFails \/ WriteReturns
            \/ WriteElsewhere
            => UNCHANGED <<files, writer, row, cache, sample, era>>
         /\ Transcribe \/ VerifyFails => UNCHANGED <<files, writer, row, cache, era>>
         /\ Store => UNCHANGED <<files, writer, row, sample, era>>
         /\ Claim \/ Settle \/ SettleFails => UNCHANGED <<files, writer, cache, sample, era>>
         /\ Sample => UNCHANGED <<files, writer, row, cache, attempt, era>>
         /\ WriteBegins => UNCHANGED <<row, cache, sample, era>>
         /\ Writing => UNCHANGED <<row, cache, attempt, sample, era>>
         /\ EnqueueScan \/ EnqueueHook \/ Forget
            => UNCHANGED <<files, writer, cache, attempt, sample, era>>
         /\ Die => UNCHANGED <<row, cache, era>>
         /\ Improve => UNCHANGED <<files, writer, row, cache, attempt, sample>>
BY DEF Lookup, Fetch, Check, Sampled, StatementFails, WriteReturns, WriteElsewhere,
   Transcribe, VerifyFails, Store, Claim, Settle, SettleFails, Sample, WriteBegins,
   Writing, EnqueueScan, EnqueueHook, Forget, Die, Improve, OnlyAttempt, OnlyRow,
   Enqueued, rowVars, vars

\* Every step keeps the types.
LEMMA AttemptTypes ==
  ASSUME AttemptTypeOK, AttemptNext
  PROVE  AttemptTypeOK'
<1> DEFINE Pcs == {"idle", "lookup", "fetch", "check", "sample", "transcribe", "store",
                   "write", "writing", "complete", "fail", "release"}
           States == [pc: Pcs, scanned: BOOLEAN, song: Songs, hit: BOOLEAN,
                      verified: BOOLEAN]
<1>1. /\ attempt \in States
      /\ row \in [status: {"none", "queued", "claimed", "done"}, scanned: BOOLEAN]
      /\ cache \in [song: Songs, by: {"nobody", "legacy", "webhook", "verified", "scan"}]
      /\ sample \in {"none", "live", "stray"}
      /\ era \in 1..Len(Responses)
  BY DEF AttemptTypeOK
<1>2. Resting \in States
  <2>1. NoSong \in Songs
    BY SongFacts
  <2> QED
    BY <2>1 DEF Resting
<1>3. row' \in [status: {"none", "queued", "claimed", "done"}, scanned: BOOLEAN]
  <2>1. CASE EnqueueScan \/ EnqueueHook
    <3>1. PICK scanned \in BOOLEAN : row' = [status |-> "queued", scanned |-> scanned]
      BY <2>1 DEF EnqueueScan, EnqueueHook, Enqueued
    <3> QED
      BY <3>1
  <2>2. CASE Forget \/ Claim \/ Settle
    BY <1>1, <2>2 DEF Forget, Claim, Settle
  <2>3. CASE row' = row
    BY <1>1, <2>3
  <2> QED
    BY <2>1, <2>2, <2>3, AttemptFrame DEF AttemptNext, Work, SettleFails
<1>4. cache' \in [song: Songs, by: {"nobody", "legacy", "webhook", "verified", "scan"}]
  <2>1. CASE Store
    BY <1>1, <2>1 DEF Store
  <2>2. CASE cache' = cache
    BY <1>1, <2>2
  <2> QED
    BY <2>1, <2>2, AttemptFrame DEF AttemptNext, Work
<1>5. sample' \in {"none", "live", "stray"}
  <2>1. CASE Sample \/ Transcribe \/ VerifyFails \/ Die
    BY <1>1, <2>1 DEF Sample, Transcribe, VerifyFails, Die
  <2>2. CASE sample' = sample
    BY <1>1, <2>2
  <2> QED
    BY <2>1, <2>2, AttemptFrame DEF AttemptNext, Work
<1>6. era' \in 1..Len(Responses)
  <2>1. CASE Improve
    BY <1>1, <2>1, AttemptAssumption DEF Improve
  <2>2. CASE era' = era
    BY <1>1, <2>2
  <2> QED
    BY <2>1, <2>2, AttemptFrame DEF AttemptNext, Work
<1>7. attempt' \in States
  <2>1. ASSUME NEW pc \in Pcs, AttemptTo(pc) PROVE attempt' \in States
    BY <1>1, <2>1 DEF AttemptTo
  <2>2. CASE attempt' = attempt \/ attempt' = Resting
    BY <1>1, <1>2, <2>2
  <2>3. CASE Claim
    BY <1>1, <1>2, <2>3 DEF Claim
  <2>4. CASE Lookup
    <3>1. Decoded(cache.song) \in Songs
      BY SongFacts
    <3> QED
      BY <1>1, <2>4, <3>1 DEF Lookup
  <2>5. CASE Fetch
    <3>1. PICK res \in Responses[era] :
            attempt' = CASE FindLyrics(res).error = "limited" -> [attempt EXCEPT !.pc = "release"]
                         [] FindLyrics(res).error = "other" -> [attempt EXCEPT !.pc = "fail"]
                         [] OTHER -> [attempt EXCEPT !.pc = "check",
                                                     !.song = FindLyrics(res).song]
      BY <2>5 DEF Fetch
    <3>2. FindLyrics(res).song \in Songs
      BY SongFacts
    <3> QED
      BY <1>1, <3>1, <3>2
  <2>6. CASE Check
    BY <2>1, <2>6 DEF Check
  <2>7. CASE Transcribe
    BY <1>1, <2>7 DEF Transcribe
  <2>8. CASE Sampled \/ VerifyFails \/ Store \/ StatementFails \/ WriteBegins \/ WriteReturns
             \/ WriteElsewhere
    BY <2>1, <2>8 DEF Sampled, VerifyFails, Store, StatementFails, WriteBegins,
       WriteReturns, WriteElsewhere
  <2>9. CASE Settle \/ SettleFails \/ Die
    BY <2>2, <2>9 DEF Settle, SettleFails, Die
  <2> QED
    BY <2>2, <2>3, <2>4, <2>5, <2>6, <2>7, <2>8, <2>9, AttemptFrame DEF AttemptNext, Work
<1> QED
  BY <1>3, <1>4, <1>5, <1>6, <1>7 DEF AttemptTypeOK

-----------------------------------------------------------------------------
(* The lyrics files.                                                       *)

\* The worker is the only process that writes, and writes only in its attempt.
LEMMA FilesStep ==
  ASSUME AttemptInv, [AttemptNext]_allVars
  PROVE  /\ WriterInv' /\ RenamedIsThere' /\ SavedIsThere' /\ Replaced
         /\ AttemptAt("writing") \/ files' = files
<1>1. WriterInv /\ RenamedIsThere /\ SavedIsThere /\ Writers = {"worker"}
  BY AttemptAssumption DEF AttemptInv
<1>2. CASE UNCHANGED vars
  BY <1>1, <1>2 DEF vars, WriterInv, TypeOK, CompleteFirst, NeverPartial, RenamedIsThere,
     SavedIsThere, At, Mine, Replaced
<1>3. ASSUME \/ Call("worker") \/ Create("worker") \/ Fill("worker") \/ Remove("worker")
             \/ Rename("worker") \/ Sidecar("worker") \/ SidecarStays("worker")
             \/ WriteFails("worker") \/ Crash("worker")
      PROVE  WriterInv' /\ RenamedIsThere' /\ SavedIsThere' /\ Replaced
  <2>1. "worker" \in Writers
    BY <1>1
  <2>2. WriterInv'
    BY <1>1, <1>3, <2>1, WriterStep
  <2> QED
    BY <1>1, <1>3, <2>2, AloneStep
<1>4. CASE WriteBegins
  BY <1>3, <1>4 DEF WriteBegins, Call
<1>5. CASE Writing
  BY <1>3, <1>5 DEF Writing
<1>6. CASE Die
  BY <1>3, <1>6 DEF Die, Crash
<1>7. AttemptNext => WriteBegins \/ Writing \/ Die \/ UNCHANGED vars
  BY AttemptFrame DEF AttemptNext, Work, vars
<1>8. UNCHANGED vars => files' = files
  BY DEF vars
<1> QED
  BY <1>2, <1>4, <1>5, <1>6, <1>7, <1>8 DEF allVars

\* WriteLRC returns "saved" only when the lyrics are there, and they stay
\* there until the row is done and for as long as it is.
LEMMA HoldsStep ==
  ASSUME AttemptInv, AttemptNext
  PROVE  AttemptHolds' /\ DoneIsThere'
<1> DEFINE There == \E format \in Formats : files[format] = "worker"
<1>1. AttemptTypeOK /\ AttemptHolds /\ DoneIsThere /\ SavedIsThere
  BY DEF AttemptInv
<1>2. AttemptAt("writing") \/ There' = There
  BY FilesStep
<1>3. /\ attempt.pc # "idle" => row = [status |-> "claimed", scanned |-> attempt.scanned]
      /\ attempt.pc = "complete" /\ attempt.scanned => There
      /\ row.status = "done" /\ row.scanned => There
  BY <1>1 DEF AttemptHolds, AttemptAt, DoneIsThere
<1>4. /\ row.status # "claimed" => attempt.pc = "idle"
      /\ attempt.pc # "idle" => row.scanned = attempt.scanned
  BY <1>3
\* It is enough to look at the fields.
<1>5. ASSUME attempt'.pc # "idle" => row' = [status |-> "claimed", scanned |-> attempt'.scanned],
             attempt'.pc = "complete" /\ attempt'.scanned => There',
             row'.status = "done" /\ row'.scanned => There'
      PROVE  AttemptHolds' /\ DoneIsThere'
  BY <1>5 DEF AttemptHolds, AttemptAt, DoneIsThere
<1> HIDE DEF There
\* An attempt that goes on over the same row and files.
<1>6. ASSUME row' = row, attempt.pc # "idle", attempt'.scanned = attempt.scanned,
             attempt'.pc = "complete" /\ attempt'.scanned => There'
      PROVE  AttemptHolds' /\ DoneIsThere'
  <2>1. row'.status # "done"
    BY <1>3, <1>6
  <2> QED
    BY <1>3, <1>5, <1>6, <2>1
<1>7. CASE Claim
  <2>1. /\ attempt'.pc = "lookup" /\ attempt'.scanned = row.scanned
        /\ row' = [status |-> "claimed", scanned |-> row.scanned]
    BY <1>1, <1>7 DEF Claim, Resting, AttemptTypeOK
  <2> QED
    BY <1>5, <2>1
<1>8. CASE Lookup
  <2>1. /\ attempt.pc = "lookup" /\ attempt'.pc # "complete"
        /\ attempt'.scanned = attempt.scanned
    BY <1>1, <1>8 DEF Lookup, AttemptAt, AttemptTypeOK
  <2> QED
    BY <1>6, <1>8, <2>1, AttemptFrame
<1>9. CASE Fetch
  <2>1. PICK res \in Responses[era] :
          attempt' = CASE FindLyrics(res).error = "limited" -> [attempt EXCEPT !.pc = "release"]
                       [] FindLyrics(res).error = "other" -> [attempt EXCEPT !.pc = "fail"]
                       [] OTHER -> [attempt EXCEPT !.pc = "check",
                                                   !.song = FindLyrics(res).song]
    BY <1>9 DEF Fetch
  <2>2. attempt.pc = "fetch" /\ attempt'.pc # "complete" /\ attempt'.scanned = attempt.scanned
    BY <1>1, <1>9, <2>1 DEF Fetch, AttemptAt, AttemptTypeOK
  <2> QED
    BY <1>6, <1>9, <2>2, AttemptFrame
<1>10. CASE Transcribe
  <2>1. /\ attempt.pc = "transcribe" /\ attempt'.pc # "complete"
        /\ attempt'.scanned = attempt.scanned
    BY <1>1, <1>10 DEF Transcribe, AttemptAt, AttemptTypeOK
  <2> QED
    BY <1>6, <1>10, <2>1, AttemptFrame
<1>11. CASE Check \/ Sampled \/ VerifyFails \/ Store \/ StatementFails \/ WriteBegins
  <2>1. PICK pc \in {"store", "fail", "sample", "transcribe", "write", "writing"} : AttemptTo(pc)
    BY <1>11 DEF Check, Sampled, VerifyFails, Store, StatementFails, WriteBegins
  <2>2. attempt.pc # "idle"
    BY <1>11 DEF Check, Sampled, VerifyFails, Store, StatementFails, WriteBegins, AttemptAt
  <2>3. attempt'.pc = pc /\ attempt'.scanned = attempt.scanned
    BY <1>1, <2>1, MoveFields
  <2> QED
    BY <1>6, <1>11, <2>2, <2>3, AttemptFrame
<1>12. CASE WriteReturns
  <2>1. PICK pc \in {"complete", "fail"} : AttemptTo(pc)
    BY <1>12 DEF WriteReturns
  <2>2. attempt'.pc = pc /\ attempt'.scanned = attempt.scanned
    BY <1>1, <2>1, MoveFields
  <2>3. /\ attempt.pc = "writing" /\ files' = files
        /\ attempt'.pc = "complete" => writer["worker"].result = "saved" /\ At("worker", "idle")
    BY <1>1, <1>12, MoveFields, AttemptFrame DEF WriteReturns, AttemptAt
  <2>4. attempt'.pc = "complete" => There'
    <3>1. Mine("worker") \in Formats /\ "worker" \in Writers
      BY AttemptAssumption DEF Mine, FormatOf, Formats
    <3> QED
      BY <1>1, <2>3, <3>1 DEF SavedIsThere, There
  <2> QED
    BY <1>6, <1>12, <2>2, <2>3, <2>4, AttemptFrame
<1>13. CASE WriteElsewhere
  <2>1. PICK pc \in {"complete", "fail"} : AttemptTo(pc)
    BY <1>13 DEF WriteElsewhere
  <2>2. attempt'.scanned = attempt.scanned /\ attempt.pc = "write" /\ ~attempt.scanned
    BY <1>1, <1>13, <2>1, MoveFields DEF WriteElsewhere, AttemptAt
  <2> QED
    BY <1>6, <1>13, <2>2, AttemptFrame
<1>14. CASE Writing
  <2>1. attempt' = attempt /\ attempt.pc = "writing" /\ row' = row
    BY <1>14, AttemptFrame DEF Writing, AttemptAt
  <2> QED
    BY <1>6, <2>1
<1>15. CASE Settle
  <2>1. /\ attempt.pc \in {"complete", "fail", "release"} /\ attempt'.pc = "idle"
        /\ row'.status = "done" => attempt.pc = "complete"
        /\ row'.scanned = row.scanned /\ files' = files
    BY <1>1, <1>15, AttemptFrame DEF Settle, Resting, AttemptAt, AttemptTypeOK
  <2> QED
    BY <1>2, <1>3, <1>4, <1>5, <2>1 DEF AttemptAt
<1>16. CASE SettleFails \/ Die
  <2>1. /\ attempt.pc # "idle" /\ attempt'.pc = "idle" /\ row' = row
    BY <1>16, AttemptFrame DEF SettleFails, Die, AttemptAt, Resting
  <2>2. row'.status # "done"
    BY <1>3, <2>1
  <2> QED
    BY <1>5, <2>1, <2>2
<1>17. CASE EnqueueScan \/ EnqueueHook \/ Forget
  <2>1. /\ row.status # "claimed" /\ row'.status # "done" /\ attempt' = attempt
    BY <1>1, <1>17, AttemptFrame DEF EnqueueScan, EnqueueHook, Enqueued, Forget, AttemptTypeOK
  <2> QED
    BY <1>4, <1>5, <2>1
<1>18. CASE Sample \/ Improve
  <2>1. UNCHANGED <<files, row, attempt>>
    BY <1>18, AttemptFrame
  <2> QED
    BY <1>3, <1>5, <2>1 DEF There
<1> QED
  BY <1>7, <1>8, <1>9, <1>10, <1>11, <1>12, <1>13, <1>14, <1>15, <1>16, <1>17, <1>18
     DEF AttemptNext, Work

-----------------------------------------------------------------------------
(* Verification.                                                           *)

\* Doubtful lyrics reach the cache and the writer verified, or by a webhook.
LEMMA DoubtStep ==
  ASSUME AttemptInv, AttemptNext
  PROVE  DoubtIsKnown' /\ DoubtIsVerified'
<1> DEFINE Way(a, c) ==
             /\ a.scanned /\ a.song.low /\ a.pc = "store" => a.verified
             /\ c.song.low => c.by \in {"verified", "webhook"}
             /\ a.scanned /\ a.song.low /\ a.pc \in {"write", "writing", "complete"}
                => a.verified \/ (a.hit /\ c.by \in {"verified", "webhook"})
<1>1. AttemptTypeOK /\ (Verifying => Way(attempt, cache))
  BY DEF AttemptInv, DoubtIsKnown, DoubtIsVerified, AttemptAt
<1>2. SUFFICES ASSUME Verifying PROVE Way(attempt', cache')
  BY DEF DoubtIsKnown, DoubtIsVerified, AttemptAt
<1>3. Way(attempt, cache)
  BY <1>1, <1>2
<1>4. CASE attempt'.pc \notin {"store", "write", "writing", "complete"} /\ cache' = cache
  BY <1>3, <1>4
<1>5. CASE attempt' = attempt /\ cache' = cache
  BY <1>3, <1>5
<1>6. CASE Claim \/ Settle \/ SettleFails \/ Die
  <2>1. cache' = cache
    BY <1>6, AttemptFrame
  <2>2. CASE Claim
    BY <1>4, <2>1, <2>2 DEF Claim, Resting
  <2>3. CASE attempt' = Resting
    BY <1>4, <2>1, <2>3 DEF Resting
  <2> QED
    BY <1>6, <2>2, <2>3 DEF Settle, SettleFails, Die
<1>7. CASE Lookup
  <2>1. cache' = cache /\ (Decoded(cache.song).low => cache.song.low)
    BY <1>1, <1>7, AttemptFrame, SongFacts
  <2>2. \/ attempt'.pc = "fetch"
        \/ /\ attempt'.pc = "write" /\ attempt'.hit = TRUE
           /\ attempt'.song = Decoded(cache.song)
    BY <1>1, <1>7 DEF Lookup, AttemptTypeOK
  <2> QED
    BY <1>3, <1>4, <2>1, <2>2
<1>8. CASE Fetch
  <2>1. PICK res \in Responses[era] :
          attempt' = CASE FindLyrics(res).error = "limited" -> [attempt EXCEPT !.pc = "release"]
                       [] FindLyrics(res).error = "other" -> [attempt EXCEPT !.pc = "fail"]
                       [] OTHER -> [attempt EXCEPT !.pc = "check",
                                                   !.song = FindLyrics(res).song]
    BY <1>8 DEF Fetch
  <2>2. attempt'.pc \in {"release", "fail", "check"} /\ cache' = cache
    BY <1>1, <1>8, <2>1, AttemptFrame DEF AttemptTypeOK
  <2> QED
    BY <1>4, <2>2
<1>9. CASE Check
  <2> DEFINE pc == IF ~Verifying \/ ~attempt.scanned \/ ~attempt.song.low THEN "store"
                   ELSE IF attempt.song.words = {} THEN "fail" ELSE "sample"
  <2>1. AttemptTo(pc) /\ cache' = cache
    BY <1>9, AttemptFrame DEF Check
  <2>2. /\ pc \in {"store", "fail", "sample"}
        /\ pc = "store" => ~attempt.scanned \/ ~attempt.song.low
    BY <1>2
  <2> HIDE DEF pc
  <2>3. /\ attempt'.pc = pc /\ attempt'.scanned = attempt.scanned
        /\ attempt'.song = attempt.song
    BY <1>1, <2>1, MoveFields
  <2> QED
    BY <1>3, <2>1, <2>2, <2>3
<1>10. CASE Transcribe
  <2>1. /\ attempt'.pc = "fail" \/ (attempt'.pc = "store" /\ attempt'.verified = TRUE)
        /\ cache' = cache
    BY <1>1, <1>10, AttemptFrame DEF Transcribe, AttemptTypeOK
  <2> QED
    BY <1>3, <1>4, <2>1
<1>11. CASE Sampled \/ VerifyFails \/ StatementFails
  <2>1. PICK pc \in {"fail", "transcribe"} : AttemptTo(pc)
    BY <1>11 DEF Sampled, VerifyFails, StatementFails
  <2> QED
    BY <1>1, <1>4, <1>11, <2>1, MoveFields, AttemptFrame
<1>12. CASE Store
  <2>1. /\ attempt.pc = "store" /\ AttemptTo("write")
        /\ cache'.song = attempt.song
        /\ cache'.by = CASE ~attempt.scanned -> "webhook"
                         [] attempt.verified -> "verified"
                         [] OTHER -> "scan"
    BY <1>12 DEF Store, AttemptAt
  <2>2. /\ attempt'.pc = "write" /\ attempt'.scanned = attempt.scanned
        /\ attempt'.song = attempt.song /\ attempt'.verified = attempt.verified
    BY <1>1, <2>1, MoveFields
  <2>3. attempt.scanned /\ attempt.song.low => attempt.verified
    BY <1>3, <2>1
  <2>4. attempt.song.low => cache'.by \in {"verified", "webhook"}
    BY <2>1, <2>3
  <2> QED
    BY <2>1, <2>2, <2>3, <2>4
<1>13. CASE WriteBegins \/ WriteReturns \/ WriteElsewhere
  <2>1. PICK pc \in {"writing", "complete", "fail"} : AttemptTo(pc)
    BY <1>13 DEF WriteBegins, WriteReturns, WriteElsewhere
  <2>2. attempt.pc \in {"write", "writing"} /\ cache' = cache
    BY <1>13, AttemptFrame DEF WriteBegins, WriteReturns, WriteElsewhere, AttemptAt
  <2>3. /\ attempt'.pc = pc /\ attempt'.scanned = attempt.scanned
        /\ attempt'.song = attempt.song /\ attempt'.hit = attempt.hit
        /\ attempt'.verified = attempt.verified
    BY <1>1, <2>1, MoveFields
  <2> QED
    BY <1>3, <2>1, <2>2, <2>3
<1>14. CASE Sample \/ Writing \/ EnqueueScan \/ EnqueueHook \/ Forget \/ Improve
  BY <1>5, <1>14, AttemptFrame
<1> QED
  BY <1>6, <1>7, <1>8, <1>9, <1>10, <1>11, <1>12, <1>13, <1>14 DEF AttemptNext, Work

\* Every way out of Verify removes the sample.
LEMMA SampleStep ==
  ASSUME AttemptInv, AttemptNext
  PROVE  SampleRemoved'
<1>1. AttemptTypeOK /\ (sample = "live" => attempt.pc \in {"sample", "transcribe"})
  BY DEF AttemptInv, SampleRemoved
<1>2. CASE attempt.pc \notin {"sample", "transcribe"} /\ sample' = sample
  BY <1>1, <1>2 DEF SampleRemoved
<1>3. CASE attempt' = attempt /\ sample' = sample
  BY <1>1, <1>3 DEF SampleRemoved
<1>4. CASE Sample \/ Sampled
  BY <1>1, <1>4, MoveFields DEF Sample, Sampled, AttemptAt, SampleRemoved
<1>5. CASE Transcribe \/ VerifyFails \/ Die
  BY <1>5 DEF Transcribe, VerifyFails, Die, SampleRemoved
<1>6. CASE \/ Claim \/ Lookup \/ Fetch \/ Check \/ Store \/ StatementFails \/ WriteBegins
           \/ WriteReturns \/ WriteElsewhere \/ Settle \/ SettleFails
  <2>1. attempt.pc \notin {"sample", "transcribe"}
    BY <1>6 DEF Claim, Lookup, Fetch, Check, Store, StatementFails, WriteBegins,
       WriteReturns, WriteElsewhere, Settle, SettleFails, AttemptAt
  <2> QED
    BY <1>2, <1>6, <2>1, AttemptFrame
<1>7. CASE Writing \/ EnqueueScan \/ EnqueueHook \/ Forget \/ Improve
  BY <1>3, <1>7, AttemptFrame
<1> QED
  BY <1>4, <1>5, <1>6, <1>7 DEF AttemptNext, Work

-----------------------------------------------------------------------------
(* The invariant.                                                          *)

\* Every step keeps the invariant.
LEMMA AttemptStep ==
  ASSUME AttemptInv, [AttemptNext]_allVars
  PROVE  AttemptInv'
<1>1. WriterInv' /\ RenamedIsThere' /\ SavedIsThere'
  BY FilesStep
<1>2. CASE AttemptNext
  <2>1. AttemptTypeOK'
    BY <1>2, AttemptTypes DEF AttemptInv
  <2> QED
    BY <1>1, <1>2, <2>1, HoldsStep, DoubtStep, SampleStep DEF AttemptInv
<1>3. CASE UNCHANGED allVars
  BY <1>1, <1>3 DEF allVars, vars, rowVars, AttemptInv, AttemptTypeOK, AttemptHolds,
     AttemptAt, DoneIsThere, DoubtIsKnown, DoubtIsVerified, SampleRemoved
<1> QED
  BY <1>2, <1>3

\* Whatever the provider answers and whatever fails or dies, in any order with
\* scans and webhooks of the same song, the invariant of the attempt holds.
THEOREM AttemptInvariant == AttemptSpec => []AttemptInv
<1>1. AttemptInit => AttemptInv
  <2> SUFFICES ASSUME AttemptInit PROVE AttemptInv
    OBVIOUS
  <2>1. /\ Init /\ row = [status |-> "none", scanned |-> FALSE]
        /\ cache \in {NoEntry, [song |-> LegacyText, by |-> "legacy"]}
        /\ attempt = Resting /\ sample = "none" /\ era = 1
    BY DEF AttemptInit
  <2>2. WriterInv /\ RenamedIsThere /\ SavedIsThere
    BY <2>1, LyricsWriterAssumption DEF Init, Idle, WriterInv, TypeOK, CompleteFirst,
       NeverPartial, Calls, Content, Formats, Kinds, RenamedIsThere, SavedIsThere, At
  <2>3. NoSong \in Songs /\ LegacyText \in Songs /\ NoSong.low = FALSE /\ LegacyText.low = FALSE
    BY DEF Songs, NoSong, LegacyText
  <2>4. /\ cache \in [song: {NoSong, LegacyText}, by: {"nobody", "legacy"}]
        /\ cache.song.low = FALSE
    BY <2>1, <2>3 DEF NoEntry
  <2>5. /\ attempt.pc = "idle" /\ attempt.song = NoSong /\ attempt.scanned = FALSE
        /\ attempt.hit = FALSE /\ attempt.verified = FALSE
    BY <2>1 DEF Resting
  <2>6. AttemptTypeOK
    BY <2>1, <2>3, <2>4, AttemptAssumption DEF AttemptTypeOK, Resting
  <2>7. AttemptHolds /\ DoneIsThere
    BY <2>1, <2>5 DEF AttemptHolds, AttemptAt, DoneIsThere
  <2>8. DoubtIsKnown /\ DoubtIsVerified /\ SampleRemoved
    BY <2>1, <2>4, <2>5 DEF DoubtIsKnown, DoubtIsVerified, AttemptAt, SampleRemoved
  <2> QED
    BY <2>2, <2>6, <2>7, <2>8 DEF AttemptInv
<1>2. AttemptInv /\ [AttemptNext]_allVars => AttemptInv'
  BY AttemptStep
<1> QED
  BY <1>1, <1>2, PTL DEF AttemptSpec

\* Lyrics that the provider was not sure of get beside an audio file only
\* verified, now or when they were cached, or through a webhook.
THEOREM NoUnverifiedDoubt == AttemptSpec => []DoubtIsVerified
<1>1. AttemptInv => DoubtIsVerified
  BY DEF AttemptInv
<1> QED
  BY <1>1, AttemptInvariant, PTL

\* The temporary WAV file does not outlive the verification, however it ends.
THEOREM NoSampleLeft == AttemptSpec => []SampleRemoved
<1>1. AttemptInv => SampleRemoved
  BY DEF AttemptInv
<1> QED
  BY <1>1, AttemptInvariant, PTL

\* A finished row of a scanned file has its lyrics beside the audio file, from
\* the rename of WriteLRC through Complete and for as long as it is done.
THEOREM DoneHasLyrics == AttemptSpec => []DoneIsThere
<1>1. AttemptInv => DoneIsThere
  BY DEF AttemptInv
<1> QED
  BY <1>1, AttemptInvariant, PTL

\* When WriteLRC tells the only process that writes that its lyrics are saved,
\* they are there, whatever failed or died in earlier calls.
THEOREM SavedHasLyrics == AttemptSpec => []SavedIsThere
<1>1. AttemptInv => SavedIsThere
  BY DEF AttemptInv
<1> QED
  BY <1>1, AttemptInvariant, PTL

\* Old lyrics are given up only for complete new ones, whatever system call
\* fails and wherever the process dies.
THEOREM OldForNew == AttemptSpec => GivenUpForNew
<1>1. AttemptInv /\ [AttemptNext]_allVars
      => [\A format \in Formats :
            files[format] # "none" /\ files'[format] = "none"
            => \/ files[Other(format)] \in Writers
               \/ \E w \in Writers : writer[w].temp = "whole"]_vars
  BY FilesStep DEF Replaced
<1> QED
  BY <1>1, AttemptInvariant, PTL DEF AttemptSpec, GivenUpForNew

=============================================================================
