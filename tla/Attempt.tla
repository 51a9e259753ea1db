------------------------------ MODULE Attempt ------------------------------
(***************************************************************************)
(* What the worker does with one claimed row of one song: the cache, the   *)
(* answer of the provider, the verification against the audio, the cache   *)
(* again, the lyrics writer, and how the row is settled.  Around it, scans *)
(* and webhooks enqueue the song, over and over.  A scanned row is written *)
(* beside the audio file, through module LyricsWriter; the row of a        *)
(* webhook somewhere else, of which only the outcome counts.               *)
(***************************************************************************)
EXTENDS LyricsWriter, FiniteSets, Sequences

CONSTANTS
  Responses,     \* in each era, what the provider may answer
  Transcripts,   \* the words that the transcriber may hear
  Verifying,     \* verification.enabled
  MinSimilarity, \* verification.min_similarity, in percent
  ScanMode       \* "plain", or the flag --upgrade or --update of the scans

ASSUME AttemptAssumption ==
  /\ Verifying \in BOOLEAN
  /\ MinSimilarity \in 1..100
  /\ ScanMode \in {"plain", "upgrade", "update"}
  /\ Writers = {"worker"} /\ Offers["worker"] = Kinds
  /\ Len(Responses) \in Nat \ {0}

VARIABLES
  row,       \* the row of the song: its status and whether it names the audio
  cache,     \* the entry of the song in lyrics_cache, or NoEntry
  attempt,   \* the worker's RunOnce
  sample,    \* the temporary WAV file: "none", "live", or "stray" after a crash
  era        \* how far the provider's catalogue has got

rowVars == <<row, cache, attempt, sample, era>>
allVars == <<vars, rowVars>>

NoSong == [kind |-> "nothing", named |-> TRUE, low |-> FALSE, words |-> {}]

\* `by` records on whose authority the entry was stored.
NoEntry == [song |-> NoSong, by |-> "nobody"]

Resting ==
  [pc |-> "idle", scanned |-> FALSE, song |-> NoSong, hit |-> FALSE, verified |-> FALSE]

AttemptAt(pc) == attempt.pc = pc

AttemptTo(pc) == attempt' = [attempt EXCEPT !.pc = pc]

\* A text of earlier versions, which did not store songs as JSON.
LegacyText == [kind |-> "unsynced", named |-> FALSE, low |-> FALSE, words |-> {"json"}]

AttemptInit ==
  /\ Init
  /\ row = [status |-> "none", scanned |-> FALSE]
  /\ cache \in {NoEntry, [song |-> LegacyText, by |-> "legacy"]}
  /\ attempt = Resting
  /\ sample = "none"
  /\ era = 1

-----------------------------------------------------------------------------
(* The provider: musixmatch.Client.FindLyrics.                             *)

\* The song of an answer, by what WriteLRC will find in it.
SongOf(res, lines, body) ==
  [kind |-> CASE lines -> "synced"
              [] body -> "unsynced"
              [] res.instrumental -> "instrumental"
              [] OTHER -> "nothing",
   named |-> res.named, low |-> res.low,
   words |-> IF lines \/ body THEN res.words ELSE {}]

Found(song) == [error |-> "none", song |-> song]
Limited == [error |-> "limited", song |-> NoSong]
Refused == [error |-> "other", song |-> NoSong]

\* The HTTP status, the size and syntax of the body, the hint of a new token,
\* the status of the matcher, then subtitles, plain lyrics and instrumentals.
FindLyrics(res) ==
  CASE res.http \in {401, 429} -> Limited
    [] res.http # 200 \/ res.body # "json" -> Refused
    [] res.renew \/ res.matcher = 401 -> Limited
    [] res.matcher # 200 \/ res.track # "good" -> Refused
    [] res.hasSubtitles ->
         IF res.subtitles = "bad" THEN Refused
         ELSE Found(SongOf(res, res.subtitles = "lines", FALSE))
    [] res.hasLyrics ->
         IF res.restricted \/ res.lyrics = "bad" THEN Refused
         ELSE Found(SongOf(res, FALSE, res.lyrics = "text"))
    [] res.instrumental -> Found(SongOf(res, FALSE, FALSE))
    [] OTHER -> Refused

-----------------------------------------------------------------------------
(* The row.                                                                *)

OnlyRow == UNCHANGED <<vars, cache, attempt, sample, era>>

\* Enqueue refreshes a queued row and leaves a claimed or finished one alone.
Enqueued(scanned) ==
  /\ row.status \in {"none", "queued"}
  /\ row' = [status |-> "queued", scanned |-> scanned]

\* A scan finds the audio file (Scanner.scanDir) and the song is not cached;
\* else EnqueuePending only marks the scan result done.
EnqueueScan ==
  /\ files["lrc"] = "none" \/ ScanMode = "update"
  /\ files["txt"] = "none" \/ ScanMode # "plain"
  /\ cache = NoEntry
  /\ Enqueued(TRUE)
  /\ OnlyRow

EnqueueHook == Enqueued(FALSE) /\ OnlyRow

\* `queue clear` and a removed library forget a finished row.
Forget ==
  /\ row.status = "done"
  /\ row' = [row EXCEPT !.status = "none"]
  /\ OnlyRow

Claim ==
  /\ AttemptAt("idle") /\ row.status = "queued"
  /\ row' = [row EXCEPT !.status = "claimed"]
  /\ attempt' = [Resting EXCEPT !.pc = "lookup", !.scanned = row.scanned]
  /\ UNCHANGED <<vars, cache, sample, era>>

-----------------------------------------------------------------------------
(* Worker.RunOnce after Dequeue.                                           *)

OnlyAttempt == UNCHANGED <<vars, row, cache, sample, era>>

\* Mutant of Decoded: the lines of synced lyrics do not survive the cache.
DecodedUnsynced(song) ==
  IF song.kind = "synced" THEN [song EXCEPT !.kind = "nothing"] ELSE song

\* decodeSong(encodeSong): an entry without artist and title, and one that is
\* not JSON, is taken for the lyrics themselves.
Decoded(song) ==
  IF song.named THEN song ELSE [LegacyText EXCEPT !.named = TRUE]

\* song: LookupExact and LookupFallback.  The queue keeps no album, so both
\* ask for the one entry of the song.
Lookup ==
  /\ AttemptAt("lookup")
  /\ attempt' = IF cache = NoEntry THEN [attempt EXCEPT !.pc = "fetch"]
                ELSE [attempt EXCEPT !.pc = "write", !.hit = TRUE,
                                     !.song = Decoded(cache.song)]
  /\ OnlyAttempt

Fetch ==
  /\ AttemptAt("fetch")
  /\ \E res \in Responses[era] :
       LET f == FindLyrics(res)
       IN  attempt' = CASE f.error = "limited" -> [attempt EXCEPT !.pc = "release"]
                        [] f.error = "other" -> [attempt EXCEPT !.pc = "fail"]
                        [] OTHER -> [attempt EXCEPT !.pc = "check", !.song = f.song]
  /\ OnlyAttempt

\* Mutant of Check: only the rows of webhooks are verified.
CheckHooks ==
  /\ AttemptAt("check")
  /\ AttemptTo(IF ~Verifying \/ attempt.scanned \/ ~attempt.song.low THEN "store"
               ELSE IF attempt.song.words = {} THEN "fail" ELSE "sample")
  /\ OnlyAttempt

\* verify: without a verifier, an audio file or a doubt there is nothing to
\* do; without text to compare, it fails.
Check ==
  /\ AttemptAt("check")
  /\ AttemptTo(IF ~Verifying \/ ~attempt.scanned \/ ~attempt.song.low THEN "store"
               ELSE IF attempt.song.words = {} THEN "fail" ELSE "sample")
  /\ OnlyAttempt

\* HTTPVerifier.sample: the temporary file, before ffmpeg runs.
Sample ==
  /\ AttemptAt("sample") /\ sample # "live"
  /\ sample' = "live"
  /\ UNCHANGED <<vars, row, cache, attempt, era>>

Sampled ==
  /\ AttemptAt("sample") /\ sample = "live"
  /\ AttemptTo("transcribe")
  /\ OnlyAttempt

\* Similarity: the share of the words heard that are in the lyrics.
Accepted(heard, words) ==
  /\ heard # {} /\ words # {}
  /\ Cardinality(heard \cap words) * 100 >= MinSimilarity * Cardinality(heard)

\* The transcript is compared and the sample removed.
Transcribe ==
  /\ AttemptAt("transcribe")
  /\ \E heard \in Transcripts :
       attempt' = IF Accepted(heard, attempt.song.words)
                  THEN [attempt EXCEPT !.pc = "store", !.verified = TRUE]
                  ELSE [attempt EXCEPT !.pc = "fail"]
  /\ sample' = "none"
  /\ UNCHANGED <<vars, row, cache, era>>

\* Mutant of VerifyFails: a failing ffmpeg leaves its file.
VerifyFailsLeaving ==
  /\ AttemptAt("sample") \/ AttemptAt("transcribe")
  /\ AttemptTo("fail")
  /\ sample' = IF AttemptAt("transcribe") THEN "none" ELSE sample
  /\ UNCHANGED <<vars, row, cache, era>>

\* No file, ffmpeg or the transcriber fails, or there is no transcript.
VerifyFails ==
  /\ AttemptAt("sample") \/ AttemptAt("transcribe")
  /\ AttemptTo("fail")
  /\ sample' = IF sample = "live" THEN "none" ELSE sample
  /\ UNCHANGED <<vars, row, cache, era>>

\* store, whatever there is in the song.
Store ==
  /\ AttemptAt("store")
  /\ cache' = [song |-> attempt.song,
               by |-> CASE ~attempt.scanned -> "webhook"
                        [] attempt.verified -> "verified"
                        [] OTHER -> "scan"]
  /\ AttemptTo("write")
  /\ UNCHANGED <<vars, row, sample, era>>

\* A statement fails, or the context is canceled.
StatementFails ==
  /\ AttemptAt("lookup") \/ AttemptAt("store") \/ AttemptAt("complete")
  /\ AttemptTo("fail")
  /\ OnlyAttempt

\* WriteLRC beside the audio file begins, goes on and returns.
WriteBegins ==
  /\ AttemptAt("write") /\ attempt.scanned
  /\ Call("worker") /\ writer'["worker"].kind = attempt.song.kind
  /\ AttemptTo("writing")
  /\ UNCHANGED <<row, cache, sample, era>>

Writing ==
  /\ AttemptAt("writing")
  /\ \/ Create("worker") \/ Fill("worker") \/ Remove("worker") \/ Rename("worker")
     \/ Sidecar("worker") \/ SidecarStays("worker") \/ WriteFails("worker")
  /\ UNCHANGED rowVars

WriteReturns ==
  /\ AttemptAt("writing") /\ At("worker", "idle")
  /\ AttemptTo(IF writer["worker"].result = "saved" THEN "complete" ELSE "fail")
  /\ OnlyAttempt

\* WriteLRC for a webhook, elsewhere.
WriteElsewhere ==
  /\ AttemptAt("write") /\ ~attempt.scanned
  /\ \/ attempt.song.kind # "nothing" /\ AttemptTo("complete")
     \/ AttemptTo("fail")
  /\ OnlyAttempt

\* Mutant of Settle: a failed attempt completes the row as well.
SettleAnyway ==
  /\ attempt.pc \in {"complete", "fail", "release"}
  /\ row' = [row EXCEPT !.status = IF AttemptAt("release") THEN "queued" ELSE "done"]
  /\ attempt' = Resting
  /\ UNCHANGED <<vars, cache, sample, era>>

\* Complete, Fail or Release.
Settle ==
  /\ attempt.pc \in {"complete", "fail", "release"}
  /\ row' = [row EXCEPT !.status = IF AttemptAt("complete") THEN "done" ELSE "queued"]
  /\ attempt' = Resting
  /\ UNCHANGED <<vars, cache, sample, era>>

\* Fail or Release is refused: the row stays claimed.
SettleFails ==
  /\ AttemptAt("fail") \/ AttemptAt("release")
  /\ attempt' = Resting
  /\ UNCHANGED <<vars, row, cache, sample, era>>

\* serve dies and is started again: the row stays claimed.
Die ==
  /\ "crash" \in Faults /\ ~AttemptAt("idle")
  /\ Crash("worker")
  /\ attempt' = Resting
  /\ sample' = IF sample = "live" THEN "stray" ELSE sample
  /\ UNCHANGED <<row, cache, era>>

\* The provider gets more lyrics.
Improve ==
  /\ era < Len(Responses)
  /\ era' = era + 1
  /\ UNCHANGED <<vars, row, cache, attempt, sample>>

Work ==
  \/ Claim \/ Lookup \/ Fetch \/ Check \/ Sample \/ Sampled \/ Transcribe
  \/ VerifyFails \/ Store \/ StatementFails \/ WriteBegins \/ Writing
  \/ WriteReturns \/ WriteElsewhere \/ Settle \/ SettleFails

AttemptNext == Work \/ EnqueueScan \/ EnqueueHook \/ Forget \/ Die \/ Improve

\* The worker goes on, scans are repeated and finished rows are cleared; the
\* provider is sometimes sure of its lyrics, statements and system calls
\* sometimes succeed.
Good(song) == song.kind # "nothing" /\ ~song.low

Fairness ==
  /\ WF_allVars(Work) /\ WF_allVars(EnqueueScan) /\ WF_allVars(Forget)
  /\ WF_allVars(Improve)
  /\ SF_allVars(Fetch /\ AttemptAt("check")' /\ Good(attempt'.song))
  /\ SF_allVars(Lookup) /\ SF_allVars(Store) /\ SF_allVars(WriteElsewhere /\ AttemptAt("complete")')
  /\ SF_allVars(Writing /\ Create("worker")) /\ SF_allVars(Writing /\ Fill("worker"))
  /\ SF_allVars(Writing /\ Remove("worker")) /\ SF_allVars(Writing /\ Rename("worker"))
  /\ SF_allVars(Settle /\ AttemptAt("complete"))

AttemptSpec == AttemptInit /\ [][AttemptNext]_allVars /\ Fairness

-----------------------------------------------------------------------------
(* Properties.                                                             *)

\* Lyrics that the provider was not sure of are written beside an audio file
\* only if they were heard in it, or in an earlier attempt; the one way around
\* is a webhook, whose lyrics are cached without a look at any audio.
DoubtIsVerified ==
  /\ Verifying /\ attempt.scanned /\ attempt.song.low
  /\ attempt.pc \in {"write", "writing", "complete"}
  => attempt.verified \/ (attempt.hit /\ cache.by \in {"verified", "webhook"})

\* The sample is removed on every way out of Verify but a crash.
SampleRemoved == sample = "live" => attempt.pc \in {"sample", "transcribe"}

\* A finished row of a scanned file has its lyrics beside the audio file.
DoneIsThere ==
  row.status = "done" /\ row.scanned => \E format \in Formats : files[format] = "worker"

-----------------------------------------------------------------------------
(* What makes these invariants inductive.                                  *)

\* The songs that occur: those of an answer, and what the cache makes of them.
Songs ==
  {NoSong, LegacyText, Decoded(LegacyText)}
  \cup {FindLyrics(res).song : res \in UNION {Responses[e] : e \in 1..Len(Responses)}}

AttemptTypeOK ==
  /\ row \in [status: {"none", "queued", "claimed", "done"}, scanned: BOOLEAN]
  /\ cache \in [song: Songs, by: {"nobody", "legacy", "webhook", "verified", "scan"}]
  /\ attempt \in
       [pc: {"idle", "lookup", "fetch", "check", "sample", "transcribe", "store", "write",
             "writing", "complete", "fail", "release"},
        scanned: BOOLEAN, song: Songs, hit: BOOLEAN, verified: BOOLEAN]
  /\ sample \in {"none", "live", "stray"}
  /\ era \in 1..Len(Responses)

\* The attempt is about the claimed row, and has written what it completes.
AttemptHolds ==
  /\ ~AttemptAt("idle") => row = [status |-> "claimed", scanned |-> attempt.scanned]
  /\ AttemptAt("complete") /\ attempt.scanned
     => \E format \in Formats : files[format] = "worker"

\* Doubtful lyrics reach the cache in no other way than those two.
DoubtIsKnown ==
  Verifying =>
    /\ attempt.scanned /\ attempt.song.low /\ AttemptAt("store") => attempt.verified
    /\ cache.song.low => cache.by \in {"verified", "webhook"}

\* The conjunction TLAPS proves inductive.
AttemptInv ==
  /\ WriterInv /\ RenamedIsThere /\ SavedIsThere
  /\ AttemptTypeOK /\ AttemptHolds /\ DoneIsThere
  /\ DoubtIsKnown /\ DoubtIsVerified
  /\ SampleRemoved

-----------------------------------------------------------------------------
\* The song has nothing to write, and every attempt will find it so.
Poisoned == cache # NoEntry /\ cache.song.kind = "nothing"

Orphaned == row.status = "claimed" /\ AttemptAt("idle")

\* A queued song is done in the end.  Two things alone stop it for ever: an
\* empty answer, which is cached before WriteLRC turns it down, and a row left
\* claimed by a death or a refused statement.
RowSettles == row.status = "queued" ~> row.status = "done" \/ Poisoned \/ Orphaned

\* With --upgrade, synced lyrics replace the unsynced ones that the worker wrote
\* once the provider has them ("scheduler re-fetches .txt lyrics to promote them").
UpgradePromotes ==
  files["txt"] = "worker" /\ era = Len(Responses) ~> files["lrc"] # "none"

=============================================================================
