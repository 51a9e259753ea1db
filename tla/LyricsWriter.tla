---------------------------- MODULE LyricsWriter ----------------------------
(***************************************************************************)
(* lyrics.LRCWriter.WriteLRC against the file system, for the lyrics of    *)
(* one audio file: the .lrc and the .txt beside it.  The worker of serve   *)
(* and a fetch command may write there at the same time.  Every system     *)
(* call is a step of its own.                                              *)
(***************************************************************************)
EXTENDS Naturals

CONSTANTS
  Writers,   \* the processes that write
  Offers,    \* the kinds of song that each may be given
  Faults     \* "disk": a system call fails; "crash": a process dies

Kinds == {"synced", "unsynced", "instrumental", "nothing"}

ASSUME LyricsWriterAssumption ==
  /\ "none" \notin Writers /\ "old" \notin Writers /\ "partial" \notin Writers
  /\ Offers \in [Writers -> SUBSET Kinds]
  /\ Faults \subseteq {"disk", "crash"}

VARIABLES
  files,    \* what lies at each of the two paths
  writer    \* per process, its call of WriteLRC

vars == <<files, writer>>

Formats == {"lrc", "txt"}

\* A whole file is named by who wrote it.
Content == {"none", "old", "partial"} \cup Writers

Idle == [pc |-> "idle", kind |-> "nothing", temp |-> "none", result |-> "none"]

Calls ==
  [pc: {"idle", "create", "fill", "remove", "rename", "sidecar"},
   kind: Kinds, temp: {"none", "partial", "whole"},
   result: {"none", "saved", "error"}]

TypeOK == files \in [Formats -> Content] /\ writer \in [Writers -> Calls]

\* Unsynced lyrics make a .txt, whatever name the scanner asked for.
FormatOf(kind) == IF kind = "unsynced" THEN "txt" ELSE "lrc"

Other(format) == IF format = "lrc" THEN "txt" ELSE "lrc"

At(w, pc) == writer[w].pc = pc

Mine(w) == FormatOf(writer[w].kind)

Step(w, pc, temp, result) ==
  writer' = [writer EXCEPT ![w] = [pc |-> pc, kind |-> writer[w].kind,
                                   temp |-> temp, result |-> result]]

Goto(w, pc, temp) == Step(w, pc, temp, writer[w].result)

Return(w, result) == Step(w, "idle", "none", result)

\* Earlier runs left at most one format.
Init ==
  /\ files \in [Formats -> {"none", "old"}]
  /\ \E format \in Formats : files[format] = "none"
  /\ writer = [w \in Writers |-> Idle]

-----------------------------------------------------------------------------
\* The eligibility gate comes before any file is touched.
Call(w) ==
  /\ At(w, "idle")
  /\ \E kind \in Offers[w] :
       writer' = [writer EXCEPT
         ![w] = [pc |-> IF kind = "nothing" THEN "idle" ELSE "create",
                 kind |-> kind, temp |-> "none",
                 result |-> IF kind = "nothing" THEN "error" ELSE "none"]]
  /\ UNCHANGED files

\* Mutant of Create: the lyrics file itself is opened and truncated.
CreateInPlace(w) ==
  /\ At(w, "create")
  /\ Goto(w, "fill", "partial")
  /\ files' = [files EXCEPT ![Mine(w)] = "none"]

\* os.CreateTemp in the same directory, under a name of its own.
Create(w) ==
  /\ At(w, "create")
  /\ Goto(w, "fill", "partial")
  /\ UNCHANGED files

\* Mutant of Fill: the buffer is not flushed.
FillUnflushed(w) ==
  /\ At(w, "fill")
  /\ Goto(w, "remove", "partial")
  /\ UNCHANGED files

\* Tags and lines, Flush, Close and Chmod.
Fill(w) ==
  /\ At(w, "fill")
  /\ Goto(w, "remove", "whole")
  /\ UNCHANGED files

\* os.Remove of the old file, for the sake of Windows.
Remove(w) ==
  /\ At(w, "remove")
  /\ files' = [files EXCEPT ![Mine(w)] = "none"]
  /\ Goto(w, "rename", writer[w].temp)

Rename(w) ==
  /\ At(w, "rename")
  /\ files' = [files EXCEPT ![Mine(w)] =
                 IF writer[w].temp = "whole" THEN w ELSE "partial"]
  /\ Goto(w, "sidecar", "none")

\* Mutant of Sidecar: the extension is not switched.
SidecarOwn(w) ==
  /\ At(w, "sidecar")
  /\ files' = [files EXCEPT ![Mine(w)] = "none"]
  /\ Return(w, "saved")

\* Remove the file of the other format.
Sidecar(w) ==
  /\ At(w, "sidecar")
  /\ files' = [files EXCEPT ![Other(Mine(w))] = "none"]
  /\ Return(w, "saved")

\* A sidecar that cannot be removed is only logged.
SidecarStays(w) ==
  /\ At(w, "sidecar") /\ "disk" \in Faults
  /\ Return(w, "saved")
  /\ UNCHANGED files

\* Any earlier call fails: the temp file is removed, the error returned.
WriteFails(w) ==
  /\ writer[w].pc \in {"create", "fill", "remove", "rename"} /\ "disk" \in Faults
  /\ Return(w, "error")
  /\ UNCHANGED files

\* The process dies and is started again; its temp file stays unread.
Crash(w) ==
  /\ "crash" \in Faults
  /\ writer' = [writer EXCEPT ![w] = Idle]
  /\ UNCHANGED files

Next ==
  \E w \in Writers :
    \/ Call(w) \/ Create(w) \/ Fill(w) \/ Remove(w) \/ Rename(w)
    \/ Sidecar(w) \/ SidecarStays(w) \/ WriteFails(w) \/ Crash(w)

WriterSpec == Init /\ [][Next]_vars

-----------------------------------------------------------------------------
\* A temp file is complete before the old lyrics are touched.
CompleteFirst ==
  \A w \in Writers : writer[w].pc \in {"remove", "rename"} => writer[w].temp = "whole"

\* Whatever fails or dies on the way, and whoever else is writing, no lyrics
\* file is ever half written.
NeverPartial == \A format \in Formats : files[format] # "partial"

\* The conjunction TLAPS proves inductive.
WriterInv == TypeOK /\ CompleteFirst /\ NeverPartial

\* Lyrics are given up only when complete new ones are at hand, in a temp file
\* or already in the other format.  This is for a process writing alone: of
\* two, each can remove what the other relies on.
GivenUpForNew ==
  [][\A format \in Formats :
       files[format] # "none" /\ files'[format] = "none"
       => \/ files[Other(format)] \in Writers
          \/ \E w \in Writers : writer[w].temp = "whole"]_vars

\* When the only process writing is told that its lyrics are saved, they lie
\* at their path, whatever format was there before and whatever failed or died
\* in earlier calls.
SavedIsThere ==
  \A w \in Writers : writer[w].result = "saved" /\ At(w, "idle")
    => files[Mine(w)] = w

\* ... as they do since the rename.
RenamedIsThere == \A w \in Writers : At(w, "sidecar") => files[Mine(w)] = w

=============================================================================
