----------------------------- MODULE MCAttempt -----------------------------
(* Small instances of Attempt for TLC.                                     *)
EXTENDS Attempt

MCOffers == [w \in Writers |-> Kinds]

\* Synced lyrics of a song that the provider is sure of.
Answer ==
  [http |-> 200, body |-> "json", renew |-> FALSE, matcher |-> 200, track |-> "good",
   hasSubtitles |-> TRUE, subtitles |-> "lines", hasLyrics |-> TRUE,
   restricted |-> FALSE, lyrics |-> "text", instrumental |-> FALSE,
   named |-> TRUE, low |-> FALSE, words |-> {"a", "b"}]

\* Each way to go wrong, and every combination of what a song may have.
MCBad ==
  {[Answer EXCEPT !.http = code] : code \in {0, 401, 404, 429, 500}}
  \cup {[Answer EXCEPT !.body = b] : b \in {"large", "garbage"}}
  \cup {[Answer EXCEPT !.matcher = code] : code \in {0, 401, 404}}
  \cup {[Answer EXCEPT !.renew = TRUE], [Answer EXCEPT !.track = "bad"]}

MCGood ==
  {[Answer EXCEPT !.hasSubtitles = s, !.subtitles = lines, !.hasLyrics = l,
                  !.restricted = r, !.lyrics = text, !.instrumental = i,
                  !.named = n, !.low = low, !.words = w] :
     w \in {{}, {"a", "b"}}, s \in BOOLEAN, lines \in {"bad", "empty", "lines"}, l \in BOOLEAN, r \in BOOLEAN,
     text \in {"bad", "blank", "text"}, i \in BOOLEAN, n \in BOOLEAN, low \in BOOLEAN}

\* At first nothing but errors, then anything.  The names of an unnamed song
\* match nothing.
MCResponses == <<MCBad, MCBad \cup {res \in MCGood : res.named \/ res.low}>>

\* Nothing but noise, half of it right, all wrong.
MCTranscripts == {{}, {"a", "x"}, {"x"}}

\* First plain lyrics only, then synced ones.
MCImproving == <<{[Answer EXCEPT !.hasSubtitles = FALSE]}, {Answer}>>

=============================================================================
