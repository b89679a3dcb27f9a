----------------------------- MODULE ScanRules -----------------------------
(***************************************************************************)
(* Which files a scan finds and how it classifies them                     *)
(* (internal/scanner/scanner.go), with the paths that HTTPServer.Scan      *)
(* compares afterwards (internal/server/http.go).                          *)
(*                                                                         *)
(* A path is a sequence of words and separators, because the code compares *)
(* text: "database" is <<"data", "base">> and begins like "data".  Paths   *)
(* are absolute and clean.  A configuration cfg is a record of             *)
(*   excluded   - the directories of managed databases and snapshots,      *)
(*   patterns   - the exclude patterns,                                    *)
(*   extensions - the last words of file names that are looked at,         *)
(*   priorities - the directories of each priority,                        *)
(*   dotdir     - what is before and after {repo-name} in the pattern of   *)
(*                data directories.                                        *)
(* valid is the set of files that have SQLite's header and a page.         *)
(***************************************************************************)
EXTENDS Naturals, Sequences, FiniteSets, FiniteSetsExt, SequencesExt

Separator == "/"
PriorityOrder == <<"docker", "workspace", "copilot", "app_data">>

\* Mistake: the separator is not compared.
IsUnderText(path, prefix) == IsPrefix(prefix, path)

\* isUnder, and each comparison of pathWithinAnyRoot.
IsUnder(path, prefix) == path = prefix \/ IsPrefix(prefix \o <<Separator>>, path)

PathWithinAnyRoot(path, roots) == \E root \in roots : IsUnder(path, root)

OccursAt(path, n, pattern) ==
  n + Len(pattern) <= Len(path) /\ SubSeq(path, n + 1, n + Len(pattern)) = pattern

MatchesExcludePattern(path, pattern) == \E n \in 0 .. Len(path) : OccursAt(path, n, pattern)

Matches(path, cfg) == \E pattern \in cfg.patterns : MatchesExcludePattern(path, pattern)

\* What is at or below a directory for the walk, to which every path is below "/".
Below(path, dir) == path = dir \/ dir = <<Separator>> \/ IsPrefix(dir \o <<Separator>>, path)

\* The directories from the root to a path below it.
DirectoriesTo(path, root) ==
  {dir \in {SubSeq(path, 1, n) : n \in 1 .. Len(path) - 1} : Below(dir, root) /\ Below(path, dir)}

\* fs.SkipDir
Skipped(dir, cfg) == (\E ex \in cfg.excluded : IsUnder(dir, ex)) \/ Matches(dir, cfg)

\* The walk goes into directories that are not skipped; a root that is a file is looked at itself.
Walked(path, root, cfg) ==
  Below(path, root) /\ \A dir \in DirectoriesTo(path, root) : ~Skipped(dir, cfg)

MatchesDotdirPattern(path, pattern) ==
  /\ IsPrefix(pattern.before, path)
  /\ LET rest == SubSeq(path, Len(pattern.before) + 1, Len(path))
     IN  pattern.after = <<>>
         \/ \E n \in 1 .. Len(rest) :
              /\ OccursAt(rest, n, pattern.after)
              /\ \A m \in 0 .. n - 1 : ~OccursAt(rest, m, pattern.after) /\ rest[m + 1] # Separator

\* The first list with a directory above the file counts; a data directory is one of the last list.
ClassifyPriority(path, cfg) ==
  LET lists == {i \in 1 .. 4 : PathWithinAnyRoot(path, cfg.priorities[i])}
                 \cup (IF MatchesDotdirPattern(path, cfg.dotdir) THEN {4} ELSE {})
  IN  IF lists = {} THEN "other" ELSE PriorityOrder[Min(lists)]

\* What is looked at once the walk is at a file.
Accepted(path, valid, cfg) ==
  Last(path) \in cfg.extensions /\ ~Matches(path, cfg) /\ path \in valid

\* ScanContext for a root.
ScanRoot(root, files, valid, cfg) ==
  {[path |-> f, priority |-> ClassifyPriority(f, cfg)] :
     f \in {f \in files : Walked(f, root, cfg) /\ Accepted(f, valid, cfg)}}

\* The files that HTTPServer.Scan upserts, each once.
ScanRoots(roots, files, valid, cfg) == UNION {ScanRoot(root, files, valid, cfg) : root \in roots}
=============================================================================
