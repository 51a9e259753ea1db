------------------------------ MODULE Scanner ------------------------------
(***************************************************************************)
(* scanner.Scanner.ScanLibrary: the walk over a directory tree for audio   *)
(* files without lyrics, one directory entry per step, with the recursion  *)
(* of scanDir as a stack.  Other processes save and remove lyrics files    *)
(* meanwhile.                                                              *)
(***************************************************************************)
EXTENDS Integers, SequencesExt

CONSTANTS
  Dirs, Root,   \* the directories
  Subdirs,      \* directory -> its subdirectories in the order of names
  Tracks,       \* directory -> its other entries in the order of names
  TypeOf,       \* entry -> "audio", "unsupported" or "untagged"
  StemOf,       \* entry -> its name without extension, with its directory
  Depths,       \* the values of --depth
  MaxChanges    \* bound: changes of lyrics files during one walk

Files == UNION {ToSet(Tracks[d]) : d \in Dirs}
Stems == {StemOf[f] : f \in Files}

\* The lyrics files that may lie beside the files of a stem.
Sidecars == SUBSET {"lrc", "txt"}

Parent(d) == CHOOSE p \in Dirs : d \in ToSet(Subdirs[p])
DirOf(f) == CHOOSE d \in Dirs : f \in ToSet(Tracks[d])

ASSUME ScannerAssumption ==
  /\ Root \in Dirs
  /\ Subdirs \in [Dirs -> Seq(Dirs)] /\ Tracks \in [Dirs -> Seq(Files)]
  /\ \A d \in Dirs : IsInjective(Subdirs[d]) /\ IsInjective(Tracks[d])
  /\ \A d \in Dirs \ {Root} : \E p \in Dirs : d \in ToSet(Subdirs[p])
  /\ \A d \in Dirs : Root \notin ToSet(Subdirs[d])
  /\ IsFiniteSet(Dirs) /\ Dirs \cap Files = {}
  /\ \A d, e \in Dirs : d # e => /\ ToSet(Subdirs[d]) \cap ToSet(Subdirs[e]) = {}
                                /\ ToSet(Tracks[d]) \cap ToSet(Tracks[e]) = {}
  /\ \E level \in [Dirs -> 0..Cardinality(Dirs)] :
       \A d \in Dirs : \A e \in ToSet(Subdirs[d]) : level[d] < level[e]
  /\ \A f \in Files : TypeOf[f] \in {"audio", "unsupported", "untagged"}
  /\ Depths \subseteq Int /\ MaxChanges \in Nat

VARIABLES
  options,     \* ScanOptions
  stack,       \* the calls of scanDir: the directory and its entries to come
  results,     \* files found so far
  lrcExists,   \* what Stat said of the .lrc file of the current entry, if asked
  lyrics,      \* stem -> the lyrics files beside it
  seen,        \* stem -> all that lay beside it since the walk began
  changes      \* changes of lyrics files during the walk, at most MaxChanges

scanVars == <<options, stack, results, lrcExists, lyrics, seen, changes>>

Options == [update: BOOLEAN, upgrade: BOOLEAN, depth: Depths, bfs: BOOLEAN]

\* Mutant of Eligible: --upgrade takes files with synced lyrics as well.
EligibleUpgraded(f, lrc, txt) ==
  /\ TypeOf[f] = "audio"
  /\ options.update \/ options.upgrade \/ ~(lrc \/ txt)

\* Lyrics that are there are left alone without --update, unsynced ones
\* without --upgrade; then the type and the tags are looked at.
Eligible(f, lrc, txt) ==
  /\ ~(lrc /\ ~options.update)
  /\ ~(txt /\ ~options.upgrade /\ ~options.update /\ ~lrc)
  /\ TypeOf[f] = "audio"

\* Mutant of Listing: files and directories are not told apart.
ListingUnsorted(d) == Subdirs[d] \o Tracks[d]

\* ReadDir and the sort: directories first, or last with --bfs.
Listing(d) ==
  IF options.bfs THEN Tracks[d] \o Subdirs[d] ELSE Subdirs[d] \o Tracks[d]

Frame(d) == [dir |-> d, rest |-> Listing(d)]

\* The walk begins at the root.
ScanBegins ==
  /\ stack = <<Frame(Root)>>
  /\ results = <<>> /\ lrcExists = "unknown"
  /\ seen = [s \in Stems |-> {lyrics[s]}] /\ changes = 0

-----------------------------------------------------------------------------
Top == stack[Len(stack)]
Entry == Head(Top.rest)

\* The loop of the innermost scanDir goes on to its next entry.
Advanced == [stack EXCEPT ![Len(stack)].rest = Tail(@)]

MaxDepth == IF options.depth < 0 THEN 0 ELSE options.depth

\* A subdirectory of a directory at `depth` is entered if depth < MaxDepth.
Descends == Len(stack) - 1 < MaxDepth

Walking == stack # <<>>

VisitDir ==
  /\ Walking /\ Top.rest # <<>> /\ Entry \in Dirs
  /\ stack' = IF Descends THEN Append(Advanced, Frame(Entry)) ELSE Advanced
  /\ UNCHANGED <<options, results, lrcExists, lyrics, seen, changes>>

\* The first of the two calls of os.Stat.
StatLrc ==
  /\ Walking /\ Top.rest # <<>> /\ Entry \notin Dirs /\ lrcExists = "unknown"
  /\ lrcExists' = IF "lrc" \in lyrics[StemOf[Entry]] THEN "yes" ELSE "no"
  /\ UNCHANGED <<options, stack, results, lyrics, seen, changes>>

\* The second, the decision, and reading the tags.
VisitFile ==
  /\ Walking /\ Top.rest # <<>> /\ lrcExists # "unknown"
  /\ stack' = Advanced /\ lrcExists' = "unknown"
  /\ results' = IF Eligible(Entry, lrcExists = "yes", "txt" \in lyrics[StemOf[Entry]])
                THEN Append(results, Entry) ELSE results
  /\ UNCHANGED <<options, lyrics, seen, changes>>

\* scanDir returns to its caller; the outermost call stays, finished.
Leave ==
  /\ Len(stack) > 1 /\ Top.rest = <<>>
  /\ stack' = Front(stack)
  /\ UNCHANGED <<options, results, lrcExists, lyrics, seen, changes>>

ScanOver == Len(stack) = 1 /\ Top.rest = <<>>

\* Lyrics files are saved, removed or renamed during the walk.
LyricsChange ==
  /\ Walking /\ ~ScanOver /\ changes < MaxChanges
  /\ \E s \in Stems : \E there \in Sidecars \ {lyrics[s]} :
       /\ lyrics' = [lyrics EXCEPT ![s] = there]
       /\ seen' = [seen EXCEPT ![s] = @ \cup {there}]
  /\ changes' = changes + 1
  /\ UNCHANGED <<options, stack, results, lrcExists>>

Walk == VisitDir \/ StatLrc \/ VisitFile \/ Leave

\* Types; the scanner is idle when the stack is empty.
ScanTypeOK ==
  /\ options.depth \in Int /\ options.update \in BOOLEAN
  /\ options.upgrade \in BOOLEAN /\ options.bfs \in BOOLEAN
  /\ lrcExists \in {"unknown", "yes", "no"}
  /\ stack \in Seq([dir: Dirs, rest: Seq(Dirs \cup Files)])
  /\ results \in Seq(Files)

-----------------------------------------------------------------------------
(* What the walk should return.                                            *)

\* The directories from the root down to d.
PathTo[d \in Dirs] ==
  IF d = Root THEN <<Root>> ELSE Append(PathTo[Parent(d)], d)

InReach == {f \in Files : Len(PathTo[DirOf(f)]) - 1 <= MaxDepth}

\* What the options ask for: files without lyrics, with --upgrade also those
\* with unsynced lyrics only, with --update all.
Wanted(f, lrc, txt) ==
  TypeOf[f] = "audio" /\ (options.update \/ (~lrc /\ (options.upgrade \/ ~txt)))

\* f was wanted all the time; or some two moments of the walk, at which its
\* two lyrics files are looked at, make it look wanted.
Always(f) == \A t \in seen[StemOf[f]] : Wanted(f, "lrc" \in t, "txt" \in t)
Sometime(f) == \E t, u \in seen[StemOf[f]] : Wanted(f, "lrc" \in t, "txt" \in u)

\* However the lyrics files change during the walk, it finds every file in
\* reach that was wanted all the time, only files in reach that looked wanted,
\* and none twice.
WalkComplete ==
  ScanOver =>
    /\ IsInjective(results)
    /\ \A f \in InReach : Always(f) => f \in ToSet(results)
    /\ \A f \in ToSet(results) : f \in InReach /\ Sometime(f)

\* e is d or lies below it.
OnPath(d, e) == d \in ToSet(PathTo[e])
Above(d, e) == d # e /\ OnPath(d, e)

Earlier(f, g) == \E i, j \in DOMAIN results : i < j /\ results[i] = f /\ results[j] = g

\* The files of a directory are found before those further down with --bfs,
\* else after them, over any number of returns from scanDir.
WalkOrdered ==
  \A f, g \in ToSet(results) : Above(DirOf(f), DirOf(g))
    => (IF options.bfs THEN Earlier(f, g) ELSE Earlier(g, f))

-----------------------------------------------------------------------------
(* The inductive invariant of the walk.                                    *)

\* Entries to come by which the walk still gets to f: f itself, or a directory
\* it lies in.
Ahead(rest, f) ==
  f \in ToSet(rest) \/ \E e \in ToSet(rest) : OnPath(e, DirOf(f))

Waiting(f) == \E k \in DOMAIN stack : Ahead(stack[k].rest, f)

\* The entries that the kth call of scanDir has taken.
Taken(k) == Len(Listing(stack[k].dir)) - Len(stack[k].rest)

\* The calls of scanDir follow a path down the tree, no further than --depth.
\* Each has taken the first entries of its listing and is at the next call's.
StackIsPath ==
  /\ Len(stack) - 1 <= MaxDepth
  /\ \A k \in DOMAIN stack :
       /\ PathTo[stack[k].dir] = [i \in 1..k |-> stack[i].dir]
       /\ Taken(k) >= 0
       /\ \A i \in DOMAIN stack[k].rest :
            stack[k].rest[i] = Listing(stack[k].dir)[Taken(k) + i]
       /\ k < Len(stack) => Taken(k) > 0
                            /\ Listing(stack[k].dir)[Taken(k)] = stack[k + 1].dir

\* What Stat said was true at some moment of the walk.
StatWasTrue ==
  /\ lyrics \in [Stems -> Sidecars] /\ seen \in [Stems -> SUBSET Sidecars]
  /\ \A s \in Stems : lyrics[s] \in seen[s]
  /\ lrcExists # "unknown" =>
       /\ Top.rest # <<>> /\ Entry \in Files
       /\ \E t \in seen[StemOf[Entry]] : (lrcExists = "yes") <=> "lrc" \in t

\* A file is found once, and not before its turn.
FoundOnce ==
  /\ IsInjective(results)
  /\ \A f \in ToSet(results) : f \in InReach /\ Sometime(f) /\ ~Waiting(f)

\* A file in reach is found unless its turn is to come or it was not wanted.
NoneMissed == \A f \in InReach : Waiting(f) \/ f \in ToSet(results) \/ ~Always(f)

WalkInv ==
  /\ ScanTypeOK
  /\ Walking => StackIsPath /\ StatWasTrue /\ FoundOnce /\ NoneMissed /\ WalkOrdered
  /\ ~Walking => results = <<>>

=============================================================================
