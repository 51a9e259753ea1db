---------------------------- MODULE FetchCommand ----------------------------
(***************************************************************************)
(* The fetch command: runFetch and Scanner.ParseInput, which turn the      *)
(* arguments, the lines of a text file or the files of a directory into    *)
(* the inputs of FetchApp.                                                 *)
(***************************************************************************)
EXTENDS FetchApp, Scanner

allVars == <<vars, scanVars>>

\* The scanner's variables before and after its walk.
Unused ==
  [options |-> [update |-> FALSE, upgrade |-> FALSE, depth |-> 0, bfs |-> FALSE],
   lyrics |-> [s \in Stems |-> {}]]

CommandInit ==
  /\ FetchInit
  /\ IF mode = "dir"
     THEN options \in Options /\ lyrics \in [Stems -> Sidecars] /\ ScanBegins
     ELSE /\ options = Unused.options /\ lyrics = Unused.lyrics
          /\ stack = <<>> /\ results = <<>> /\ lrcExists = "unknown"
          /\ seen = <<>> /\ changes = 0

\* GetSongDir, which no signal interrupts.
ScanStep == Walk /\ UNCHANGED vars

\* The found files become the inputs.  Nothing reads the scanner's variables
\* from here on, which spares TLC telling them apart.
DirParsed ==
  /\ ScanOver
  /\ NewApp(Len(results))
  /\ stack' = <<>> /\ results' = <<>> /\ lrcExists' = "unknown"
  /\ seen' = <<>> /\ changes' = 0
  /\ options' = Unused.options /\ lyrics' = Unused.lyrics

\* AssertInput: only "artist,title" is a song.
IsSong(line) == line = "artist,title"

\* GetSongMulti over the arguments or, after GetSongText, the lines: those that
\* are songs, in their order.
SongsParsed ==
  /\ mode # "dir"
  /\ \E n \in 0..MaxInputs : \E lines \in [1..n -> {"artist,title", "other"}] :
       NewApp(Cardinality({i \in 1..n : IsSong(lines[i])}))
  /\ UNCHANGED scanVars

\* A directory or the text file cannot be read, or the output directory made.
ParseFails ==
  /\ pc = "parse"
  /\ pc' = "error"
  /\ UNCHANGED <<mode, total, inputs, failed, saved, rows, success, failures, canceled,
                 scanVars>>

Proceed ==
  \/ ScanStep \/ DirParsed \/ SongsParsed \/ ParseFails
  \/ Run /\ UNCHANGED scanVars

CommandNext ==
  \/ Proceed
  \/ Cancel /\ UNCHANGED scanVars
  \/ pc = "parse" /\ LyricsChange /\ UNCHANGED vars

\* The command runs on until it returns; nothing makes the user cancel it.
CommandSpec == CommandInit /\ [][CommandNext]_allVars /\ WF_allVars(Proceed)

\* The conjunction TLAPS proves inductive.
CommandInv == FetchInv /\ WalkInv

=============================================================================
