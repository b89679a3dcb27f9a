-------------------------- MODULE LifecycleProofs --------------------------
(***************************************************************************)
(* Proofs about Lifecycle, for any files, roots, requests and calls: what  *)
(* a scan that went through has stored is true, no scan works once the     *)
(* HTTP server was stopped, and the catalog is closed behind its users.    *)
(***************************************************************************)
EXTENDS Lifecycle, TLAPS

ScanRecord == [pc: {"none", "enter", "walk", "upsert", "check"}, root: SUBSET Files,
               todo: SUBSET Files, found: SUBSET Files, cancelled: BOOLEAN,
               steady: SUBSET Files, kept: SUBSET Files]

\* What a scan has done and has left to do, of the files that did not come or
\* go under it and that it has not left as they were: those on disk are found
\* or still ahead, then stored or still ahead, then available; those that are
\* not are ahead or not available.
Truthful(r, d, e) ==
  /\ r.steady \subseteq r.root
  /\ r.pc = "walk" => r.steady \cap d \cap r.kept \subseteq r.found \cup r.todo
  /\ r.pc = "upsert" =>
       \A f \in r.steady \cap d \cap r.kept : f \in r.todo \/ e[f] = "available"
  /\ r.pc = "check" =>
       \A f \in r.steady \cap r.kept : IF f \in d THEN e[f] = "available"
                                       ELSE f \in r.todo \/ e[f] # "available"

Truth == \A p \in Scanning : Truthful(scan[p], disk, entry)

ScanInv == ScansTypeOK /\ Truth

-----------------------------------------------------------------------------
\* scanMu admits one scan at a time.
LEMMA OneScan ==
  ASSUME ScansTypeOK, NEW p \in Scanning, NEW q \in Scanning,
         scan[p].pc # "none", scan[q].pc # "none"
  PROVE  p = q
BY DEF ScansTypeOK

LEMMA NoScanFacts == NoScan \in ScanRecord /\ NoScan.pc = "none" /\ Truthful(NoScan, disk, entry)
BY DEF NoScan, ScanRecord, Truthful

\* A step of the only scan keeps the invariant when what it leaves behind is truthful.
LEMMA OwnStep ==
  ASSUME ScanInv, NEW p \in Scanning, scan[p].pc # "none", NEW r \in ScanRecord,
         scan' = [scan EXCEPT ![p] = r], r.pc # "none", scanMu' = scanMu,
         disk' = disk, stopped' = stopped,
         entry' \in [Files -> {"none", "available", "missing"}], Truthful(r, disk', entry')
  PROVE  ScanInv'
<1>1. \A q \in Scanning : scan'[q] = IF q = p THEN r ELSE scan[q]
  BY DEF ScanInv, ScansTypeOK
<1>2. \A q \in Scanning \ {p} : scan[q].pc = "none" BY OneScan DEF ScanInv
<1>3. scan' \in [Scanning -> ScanRecord] BY DEF ScanInv, ScansTypeOK, ScanRecord
<1>4. \A q \in Scanning : scanMu' = q <=> scan'[q].pc # "none"
  BY <1>1, <1>2 DEF ScanInv, ScansTypeOK
<1>5. ScansTypeOK' BY <1>3, <1>4 DEF ScanInv, ScansTypeOK, ScanRecord
<1>6. ASSUME NEW q \in Scanning PROVE Truthful(scan'[q], disk', entry')
  <2>1. CASE q = p BY <1>1, <2>1
  <2>2. CASE q # p
    <3>1. scan'[q] = scan[q] /\ scan[q].pc = "none" BY <1>1, <1>2, <2>2
    <3>2. scan[q].steady \subseteq scan[q].root BY DEF ScanInv, Truth, Truthful
    <3>. QED BY <3>1, <3>2 DEF Truthful
  <2>. QED BY <2>1, <2>2
<1>. QED BY <1>5, <1>6 DEF ScanInv, Truth

\* A scan that returns.
LEMMA LeaveStep ==
  ASSUME ScanInv, NEW p \in Scanning, scan[p].pc # "none", Leave(p)
  PROVE  ScanInv'
<1>1. \A q \in Scanning : scan'[q] = IF q = p THEN NoScan ELSE scan[q]
  BY DEF Leave, ScanInv, ScansTypeOK
<1>2. \A q \in Scanning \ {p} : scan[q].pc = "none" BY OneScan DEF ScanInv
<1>3. scan' \in [Scanning -> ScanRecord]
  BY NoScanFacts DEF Leave, ScanInv, ScansTypeOK, ScanRecord
<1>4. \A q \in Scanning : scanMu' = q <=> scan'[q].pc # "none"
  BY <1>1, <1>2, NoScanFacts, ScansAssumption DEF Leave
<1>5. ScansTypeOK' BY <1>3, <1>4 DEF Leave, ScanInv, ScansTypeOK, ScanRecord
<1>6. ASSUME NEW q \in Scanning PROVE Truthful(scan'[q], disk', entry')
  <2>1. Truthful(scan[q], disk, entry) /\ Truthful(NoScan, disk, entry) BY NoScanFacts DEF ScanInv, Truth
  <2>. QED BY <1>1, <2>1 DEF Leave, Truthful
<1>. QED BY <1>5, <1>6 DEF ScanInv, Truth

\* TryLock succeeds when no scan has the lock.
LEMMA EnterStep ==
  ASSUME ScanInv, NEW p \in Scanning, NEW root \in SUBSET Files, Enter(p, root)
  PROVE  ScanInv'
<1> DEFINE r == [NoScan EXCEPT !.pc = "enter", !.root = root, !.steady = root, !.kept = root]
<1>1. r \in ScanRecord /\ r.pc = "enter" /\ Truthful(r, disk', entry')
  BY DEF NoScan, ScanRecord, Truthful
<1>2. scan' = [scan EXCEPT ![p] = r] BY DEF Enter
<1> HIDE DEF r
<1>3. \A q \in Scanning : scan'[q] = IF q = p THEN r ELSE scan[q]
  BY <1>2 DEF ScanInv, ScansTypeOK
<1>4. \A q \in Scanning : scan[q].pc = "none"
  BY ScansAssumption DEF Enter, ScanInv, ScansTypeOK
<1>5. scan' \in [Scanning -> ScanRecord] BY <1>1, <1>2 DEF ScanInv, ScansTypeOK, ScanRecord
<1>6. \A q \in Scanning : scanMu' = q <=> scan'[q].pc # "none"
  BY <1>1, <1>3, <1>4 DEF Enter
<1>7. ScansTypeOK' BY <1>5, <1>6 DEF Enter, ScanInv, ScansTypeOK, ScanRecord
<1>8. ASSUME NEW q \in Scanning PROVE Truthful(scan'[q], disk', entry')
  <2>1. Truthful(scan[q], disk, entry) BY DEF ScanInv, Truth
  <2>. QED BY <1>1, <1>3, <2>1 DEF Enter, Truthful
<1>. QED BY <1>7, <1>8 DEF ScanInv, Truth

-----------------------------------------------------------------------------
\* The next step of a loop, or the end of the loop.
LEMMA ContinueFacts ==
  ASSUME ScansTypeOK, NEW p \in Scanning, NEW todo \in SUBSET Files, NEW then \in SUBSET Files,
         NEW pc \in {"walk", "upsert", "check"}, NEW next \in {"walk", "upsert", "check"}
  PROVE  LET r == Continue(p, pc, todo, next, then)
         IN  /\ r \in ScanRecord
             /\ r.pc = (IF todo = {} THEN next ELSE pc)
             /\ r.todo = (IF todo = {} THEN then ELSE todo)
             /\ r.steady = scan[p].steady /\ r.root = scan[p].root
             /\ r.found = scan[p].found /\ r.kept = scan[p].kept
<1>1. scan[p] \in ScanRecord BY DEF ScansTypeOK, ScanRecord
<1>. QED BY <1>1 DEF Continue, ScanRecord

LEMMA ObserveStep ==
  ASSUME ScanInv, NEW p \in Scanning, Observe(p)
  PROVE  ScanInv'
<1>1. CASE Leave(p) BY <1>1, LeaveStep DEF Observe
<1>2. CASE Start(p)
  <2> DEFINE r == Continue(p, "walk", scan[p].root, "upsert", {})
  <2>1. scan[p] \in ScanRecord /\ scan[p].pc = "enter" /\ Truthful(scan[p], disk, entry)
    BY DEF Observe, ScanInv, ScansTypeOK, ScanRecord, Truth
  <2>2. scan[p].root \in SUBSET Files BY <2>1 DEF ScanRecord
  <2>3. /\ r \in ScanRecord
        /\ r.pc = (IF scan[p].root = {} THEN "upsert" ELSE "walk")
        /\ r.todo = (IF scan[p].root = {} THEN {} ELSE scan[p].root)
        /\ r.steady = scan[p].steady /\ r.root = scan[p].root
        /\ r.found = scan[p].found /\ r.kept = scan[p].kept
    BY <2>2, ContinueFacts DEF ScanInv
  <2>4. scan' = [scan EXCEPT ![p] = r] /\ UNCHANGED <<disk, entry, scanMu, stopped>>
    BY <1>2 DEF Start
  <2> HIDE DEF r
  <2>5. Truthful(r, disk', entry') BY <2>1, <2>3, <2>4 DEF Truthful
  <2>6. r.pc # "none" BY <2>3
  <2>7. entry' \in [Files -> {"none", "available", "missing"}] BY <2>4 DEF ScanInv, ScansTypeOK
  <2>. QED BY <2>1, <2>3, <2>4, <2>5, <2>6, <2>7, OwnStep
<1>. QED BY <1>1, <1>2 DEF Observe

LEMMA WalkStep ==
  ASSUME ScanInv, NEW p \in Scanning, Walk(p)
  PROVE  ScanInv'
<1>1. CASE Leave(p) BY <1>1, LeaveStep DEF Walk
<1>2. CASE ~Leave(p)
  <2>1. PICK f \in scan[p].todo, read \in BOOLEAN :
          LET found == scan[p].found \cup (IF read THEN {f} \cap disk ELSE {})
              kept  == scan[p].kept \ (IF read THEN {} ELSE {f} \cap disk)
          IN  scan' = [scan EXCEPT ![p] =
                 [Continue(p, "walk", scan[p].todo \ {f}, "upsert", found)
                    EXCEPT !.found = found, !.kept = kept]]
    BY <1>2 DEF Walk
  <2> DEFINE found == scan[p].found \cup (IF read THEN {f} \cap disk ELSE {})
             kept  == scan[p].kept \ (IF read THEN {} ELSE {f} \cap disk)
             s == Continue(p, "walk", scan[p].todo \ {f}, "upsert", found)
             r == [s EXCEPT !.found = found, !.kept = kept]
  <2>2. scan[p] \in ScanRecord /\ scan[p].pc = "walk" /\ Truthful(scan[p], disk, entry)
    BY DEF Walk, ScanInv, ScansTypeOK, ScanRecord, Truth
  <2>3. scan[p].todo \ {f} \in SUBSET Files /\ found \in SUBSET Files /\ kept \in SUBSET Files
    BY <2>2 DEF ScanRecord, ScanInv, ScansTypeOK
  <2>4. /\ s \in ScanRecord
        /\ s.pc = (IF scan[p].todo \ {f} = {} THEN "upsert" ELSE "walk")
        /\ s.todo = (IF scan[p].todo \ {f} = {} THEN found ELSE scan[p].todo \ {f})
        /\ s.steady = scan[p].steady /\ s.root = scan[p].root
    BY <2>3, ContinueFacts DEF ScanInv
  <2>5. scan' = [scan EXCEPT ![p] = r] /\ UNCHANGED <<disk, entry, scanMu, stopped>>
    BY <1>2, <2>1 DEF Walk
  <2> HIDE DEF s
  <2>6. /\ r \in ScanRecord
        /\ r.pc = s.pc /\ r.todo = s.todo /\ r.found = found
        /\ r.steady = s.steady /\ r.root = s.root /\ r.kept = kept
    BY <2>3, <2>4 DEF ScanRecord
  <2> HIDE DEF r
  <2>7. scan[p].steady \cap disk \cap kept \subseteq found \cup (scan[p].todo \ {f})
    BY <2>2 DEF Truthful
  <2>8. Truthful(r, disk', entry')
    <3>1. r.steady \subseteq r.root BY <2>2, <2>4, <2>6 DEF Truthful
    <3>2. CASE scan[p].todo \ {f} = {}
      <4>1. r.pc = "upsert" /\ r.todo = found BY <2>4, <2>6, <3>2
      <4>. QED BY <2>4, <2>5, <2>6, <2>7, <3>1, <3>2, <4>1 DEF Truthful
    <3>3. CASE scan[p].todo \ {f} # {}
      <4>1. r.pc = "walk" /\ r.todo = scan[p].todo \ {f} BY <2>4, <2>6, <3>3
      <4>. QED BY <2>4, <2>5, <2>6, <2>7, <3>1, <4>1 DEF Truthful
    <3>. QED BY <3>2, <3>3
  <2>9. r.pc # "none" BY <2>4, <2>6
  <2>10. entry' \in [Files -> {"none", "available", "missing"}] BY <2>5 DEF ScanInv, ScansTypeOK
  <2>. QED BY <2>2, <2>5, <2>6, <2>8, <2>9, <2>10, OwnStep
<1>. QED BY <1>1, <1>2

LEMMA UpsertStep ==
  ASSUME ScanInv, NEW p \in Scanning, Upsert(p)
  PROVE  ScanInv'
<1>1. scan[p] \in ScanRecord /\ scan[p].pc = "upsert" /\ Truthful(scan[p], disk, entry)
  BY DEF Upsert, ScanInv, ScansTypeOK, ScanRecord, Truth
<1>2. CASE Leave(p) BY <1>1, <1>2, LeaveStep
<1>3. ASSUME NEW f \in scan[p].todo,
             entry' = [entry EXCEPT ![f] = "available"],
             scan' = [scan EXCEPT ![p].todo = @ \ {f}, ![p].kept = @ \cup {f}],
             UNCHANGED <<disk, scanMu, stopped>>
      PROVE  ScanInv'
  <2> DEFINE r == [scan[p] EXCEPT !.todo = @ \ {f}, !.kept = @ \cup {f}]
  <2>1. f \in Files BY <1>1 DEF ScanRecord
  <2>2. r \in ScanRecord /\ r.pc = "upsert" /\ r.todo = scan[p].todo \ {f}
        /\ r.kept = scan[p].kept \cup {f} /\ r.steady = scan[p].steady /\ r.root = scan[p].root
    BY <1>1, <2>1 DEF ScanRecord
  <2>3. scan' = [scan EXCEPT ![p] = r] BY <1>3 DEF ScanInv, ScansTypeOK
  <2> HIDE DEF r
  <2>4. entry' \in [Files -> {"none", "available", "missing"}] BY <1>3 DEF ScanInv, ScansTypeOK
  <2>5. \A g \in Files : entry'[g] = IF g = f THEN "available" ELSE entry[g]
    BY <1>3 DEF ScanInv, ScansTypeOK
  <2>6. scan[p].steady \subseteq Files BY <1>1 DEF ScanRecord
  <2>7. Truthful(r, disk', entry') BY <1>1, <1>3, <2>2, <2>5, <2>6 DEF Truthful
  <2>. QED BY <1>1, <1>3, <2>2, <2>3, <2>4, <2>7, OwnStep
<1>4. ASSUME NEW f \in scan[p].todo,
             scan' = [scan EXCEPT ![p].todo = @ \ {f}, ![p].kept = @ \ {f}],
             UNCHANGED <<disk, entry, scanMu, stopped>>
      PROVE  ScanInv'
  <2> DEFINE r == [scan[p] EXCEPT !.todo = @ \ {f}, !.kept = @ \ {f}]
  <2>1. r \in ScanRecord /\ r.pc = "upsert" /\ r.todo = scan[p].todo \ {f}
        /\ r.kept = scan[p].kept \ {f} /\ r.steady = scan[p].steady /\ r.root = scan[p].root
    BY <1>1 DEF ScanRecord
  <2>2. scan' = [scan EXCEPT ![p] = r] BY <1>4 DEF ScanInv, ScansTypeOK
  <2> HIDE DEF r
  <2>3. entry' \in [Files -> {"none", "available", "missing"}] BY <1>4 DEF ScanInv, ScansTypeOK
  <2>4. Truthful(r, disk', entry') BY <1>1, <1>4, <2>1 DEF Truthful
  <2>. QED BY <1>1, <1>4, <2>1, <2>2, <2>3, <2>4, OwnStep
<1>5. CASE /\ scan[p].todo = {}
           /\ scan' = [scan EXCEPT ![p].pc = "check", ![p].todo = Listed(p), ![p].found = {}]
           /\ UNCHANGED <<disk, entry, scanMu, stopped>>
  <2> DEFINE r == [scan[p] EXCEPT !.pc = "check", !.todo = Listed(p), !.found = {}]
  <2>1. Listed(p) \in SUBSET Files BY <1>1 DEF Listed, ScanRecord
  <2>2. r \in ScanRecord /\ r.pc = "check" /\ r.todo = Listed(p)
        /\ r.kept = scan[p].kept /\ r.steady = scan[p].steady /\ r.root = scan[p].root
    BY <1>1, <2>1 DEF ScanRecord
  <2>3. scan' = [scan EXCEPT ![p] = r] BY <1>5 DEF ScanInv, ScansTypeOK
  <2> HIDE DEF r
  <2>4. entry' \in [Files -> {"none", "available", "missing"}] BY <1>5 DEF ScanInv, ScansTypeOK
  <2>5. Truthful(r, disk', entry') BY <1>1, <1>5, <2>2 DEF Truthful, Listed
  <2>. QED BY <1>1, <1>5, <2>2, <2>3, <2>4, <2>5, OwnStep
<1>. QED BY <1>2, <1>3, <1>4, <1>5 DEF Upsert

LEMMA CheckStep ==
  ASSUME ScanInv, NEW p \in Scanning, Check(p)
  PROVE  ScanInv'
<1>1. scan[p] \in ScanRecord /\ scan[p].pc = "check" /\ Truthful(scan[p], disk, entry)
  BY DEF Check, ScanInv, ScansTypeOK, ScanRecord, Truth
<1>2. CASE scan[p].todo = {} BY <1>1, <1>2, LeaveStep DEF Check
<1>3. ASSUME NEW f \in scan[p].todo,
             entry' = [entry EXCEPT ![f] = IF entry[f] = "none" THEN "none"
                         ELSE IF f \in disk THEN "available" ELSE "missing"],
             scan' = [scan EXCEPT ![p].todo = @ \ {f},
                        ![p].kept = IF entry[f] = "none" THEN @ ELSE @ \cup {f}],
             UNCHANGED <<disk, scanMu, stopped>>
      PROVE  ScanInv'
  <2> DEFINE r == [scan[p] EXCEPT !.todo = @ \ {f},
                                  !.kept = IF entry[f] = "none" THEN @ ELSE @ \cup {f}]
  <2>1. f \in Files /\ scan[p].steady \subseteq Files BY <1>1 DEF ScanRecord
  <2>2. r \in ScanRecord /\ r.pc = "check" /\ r.todo = scan[p].todo \ {f}
        /\ r.kept = (IF entry[f] = "none" THEN scan[p].kept ELSE scan[p].kept \cup {f})
        /\ r.steady = scan[p].steady /\ r.root = scan[p].root
    BY <1>1, <2>1 DEF ScanRecord
  <2>3. scan' = [scan EXCEPT ![p] = r] BY <1>3 DEF ScanInv, ScansTypeOK
  <2> HIDE DEF r
  <2>4. entry' \in [Files -> {"none", "available", "missing"}] BY <1>3 DEF ScanInv, ScansTypeOK
  <2>5. \A g \in Files : entry'[g] = IF g # f THEN entry[g] ELSE IF entry[f] = "none" THEN "none"
                         ELSE IF f \in disk THEN "available" ELSE "missing"
    BY <1>3 DEF ScanInv, ScansTypeOK
  <2>6. Truthful(r, disk', entry') BY <1>1, <1>3, <2>1, <2>2, <2>5 DEF Truthful
  <2>. QED BY <1>1, <1>3, <2>2, <2>3, <2>4, <2>6, OwnStep
<1>4. ASSUME NEW f \in scan[p].todo,
             scan' = [scan EXCEPT ![p].todo = @ \ {f}, ![p].kept = @ \ ({f} \ disk)],
             UNCHANGED <<disk, entry, scanMu, stopped>>
      PROVE  ScanInv'
  <2> DEFINE r == [scan[p] EXCEPT !.todo = @ \ {f}, !.kept = @ \ ({f} \ disk)]
  <2>1. r \in ScanRecord /\ r.pc = "check" /\ r.todo = scan[p].todo \ {f}
        /\ r.kept = scan[p].kept \ ({f} \ disk)
        /\ r.steady = scan[p].steady /\ r.root = scan[p].root
    BY <1>1 DEF ScanRecord
  <2>2. scan' = [scan EXCEPT ![p] = r] BY <1>4 DEF ScanInv, ScansTypeOK
  <2> HIDE DEF r
  <2>3. entry' \in [Files -> {"none", "available", "missing"}] BY <1>4 DEF ScanInv, ScansTypeOK
  <2>4. Truthful(r, disk', entry') BY <1>1, <1>4, <2>1 DEF Truthful
  <2>. QED BY <1>1, <1>4, <2>1, <2>2, <2>3, <2>4, OwnStep
<1>. QED BY <1>2, <1>3, <1>4 DEF Check

LEMMA CancelStep ==
  ASSUME ScanInv, NEW p \in Scanning, Cancel(p)
  PROVE  ScanInv'
<1> DEFINE r == [scan[p] EXCEPT !.cancelled = TRUE]
<1>1. scan[p] \in ScanRecord /\ Truthful(scan[p], disk, entry)
  BY DEF ScanInv, ScansTypeOK, ScanRecord, Truth
<1>2. r \in ScanRecord /\ r.pc = scan[p].pc /\ r.todo = scan[p].todo /\ r.found = scan[p].found
      /\ r.kept = scan[p].kept /\ r.steady = scan[p].steady /\ r.root = scan[p].root
  BY <1>1 DEF ScanRecord
<1>3. scan' = [scan EXCEPT ![p] = r] BY DEF Cancel, ScanInv, ScansTypeOK
<1> HIDE DEF r
<1>4. entry' \in [Files -> {"none", "available", "missing"}] BY DEF Cancel, ScanInv, ScansTypeOK
<1>5. Truthful(r, disk', entry') BY <1>1, <1>2 DEF Truthful, Cancel
<1>. QED BY <1>2, <1>3, <1>4, <1>5, OwnStep DEF Cancel

-----------------------------------------------------------------------------
\* What happens beside the scans.
LEMMA ChangeFileStep ==
  ASSUME ScanInv, NEW f \in Files, ChangeFile(f)
  PROVE  ScanInv'
<1>1. \A q \in Scanning : /\ scan[q] \in ScanRecord
                          /\ scan'[q] = [scan[q] EXCEPT !.steady = @ \ {f}]
  BY DEF ChangeFile, ScanInv, ScansTypeOK, ScanRecord
<1>2. \A q \in Scanning :
        /\ scan'[q] \in ScanRecord /\ scan'[q].pc = scan[q].pc /\ scan'[q].todo = scan[q].todo
        /\ scan'[q].found = scan[q].found /\ scan'[q].kept = scan[q].kept
        /\ scan'[q].steady = scan[q].steady \ {f} /\ scan'[q].root = scan[q].root
  <2> TAKE q \in Scanning
  <2> DEFINE r == [scan[q] EXCEPT !.steady = @ \ {f}]
  <2>1. /\ r \in ScanRecord /\ r.pc = scan[q].pc /\ r.todo = scan[q].todo
        /\ r.found = scan[q].found /\ r.root = scan[q].root
        /\ r.kept = scan[q].kept /\ r.steady = scan[q].steady \ {f}
    BY <1>1 DEF ScanRecord
  <2>2. scan'[q] = r BY <1>1
  <2>. QED BY <2>1, <2>2
<1>3. scan' \in [Scanning -> ScanRecord] BY <1>2 DEF ChangeFile
<1>4. disk' \subseteq Files BY DEF ChangeFile, ScanInv, ScansTypeOK
<1>5. ScansTypeOK' BY <1>2, <1>3, <1>4 DEF ChangeFile, ScanInv, ScansTypeOK, ScanRecord
<1>6. ASSUME NEW q \in Scanning PROVE Truthful(scan'[q], disk', entry')
  <2>1. Truthful(scan[q], disk, entry) BY DEF ScanInv, Truth
  <2>2. \A g \in scan'[q].steady : g \in disk' <=> g \in disk BY <1>2 DEF ChangeFile
  <2>. QED BY <1>2, <2>1, <2>2 DEF ChangeFile, Truthful
<1>. QED BY <1>5, <1>6 DEF ScanInv, Truth

LEMMA RemoveEntryStep ==
  ASSUME ScanInv, NEW f \in Files, RemoveEntry(f)
  PROVE  ScanInv'
<1>1. \A q \in Scanning : /\ scan[q] \in ScanRecord
                          /\ scan'[q] = [scan[q] EXCEPT !.kept = @ \ {f}]
  BY DEF RemoveEntry, ScanInv, ScansTypeOK, ScanRecord
<1>2. \A q \in Scanning :
        /\ scan'[q] \in ScanRecord /\ scan'[q].pc = scan[q].pc /\ scan'[q].todo = scan[q].todo
        /\ scan'[q].found = scan[q].found /\ scan'[q].kept = scan[q].kept \ {f}
        /\ scan'[q].steady = scan[q].steady /\ scan'[q].root = scan[q].root
  <2> TAKE q \in Scanning
  <2> DEFINE r == [scan[q] EXCEPT !.kept = @ \ {f}]
  <2>1. /\ r \in ScanRecord /\ r.pc = scan[q].pc /\ r.todo = scan[q].todo
        /\ r.found = scan[q].found /\ r.root = scan[q].root
        /\ r.kept = scan[q].kept \ {f} /\ r.steady = scan[q].steady
    BY <1>1 DEF ScanRecord
  <2>2. scan'[q] = r BY <1>1
  <2>. QED BY <2>1, <2>2
<1>3. scan' \in [Scanning -> ScanRecord] BY <1>2 DEF RemoveEntry
<1>4. /\ entry' \in [Files -> {"none", "available", "missing"}]
      /\ \A g \in Files : entry'[g] = IF g = f THEN "none" ELSE entry[g]
  BY DEF RemoveEntry, ScanInv, ScansTypeOK
<1>5. ScansTypeOK'
  <2>1. \A q \in Scanning : scanMu' = q <=> scan'[q].pc # "none"
    BY <1>2 DEF RemoveEntry, ScanInv, ScansTypeOK
  <2>. QED BY <1>3, <1>4, <2>1 DEF RemoveEntry, ScanInv, ScansTypeOK, ScanRecord
<1>6. ASSUME NEW q \in Scanning PROVE Truthful(scan'[q], disk', entry')
  <2>1. Truthful(scan[q], disk, entry) BY DEF ScanInv, Truth
  <2>2. scan'[q].steady \subseteq Files BY <1>2 DEF ScanRecord
  <2>. QED BY <1>2, <1>4, <2>1, <2>2 DEF RemoveEntry, Truthful
<1>. QED BY <1>5, <1>6 DEF ScanInv, Truth
-----------------------------------------------------------------------------
(***************************************************************************)
(* The daemon around the scans.                                            *)
(***************************************************************************)
WorkingSteps == {"walk", "upsert", "check"}

\* What a step of the daemon may do to the scans.
ScanNext ==
  \/ UNCHANGED scanVars
  \/ \E p \in Scanning, root \in SUBSET Files : Enter(p, root)
  \/ \E p \in Scanning : ScanStep(p) \/ Cancel(p)
  \/ \E f \in Files : ChangeFile(f) \/ RemoveEntry(f)
  \/ stopped' = TRUE /\ UNCHANGED <<disk, entry, scanMu, scan>>

LEMMA NextScans == Next => ScanNext
<1> SUFFICES ASSUME Next PROVE ScanNext
  OBVIOUS
<1> USE DEF ScanNext
<1>1. CASE ScannerStep
  <2>1. CASE BeginScan BY <2>1 DEF BeginScan, Scanning
  <2>2. CASE EndScan BY <2>2 DEF EndScan
  <2>3. CASE ScanTick BY <2>3 DEF ScanTick
  <2>. QED BY <1>1, <2>1, <2>2, <2>3 DEF ScannerStep
<1>2. CASE LoopStep BY <1>2 DEF LoopStep, EndSync, LoopTick
<1>3. CASE \E s \in Servers : StartServer(s) BY <1>3 DEF StartServer
<1>4. CASE \E r \in Calls \cup Requests : Receive(r) \/ Answer(r)
  BY <1>4 DEF Receive, Answer
<1>5. CASE \E r \in Requests, root \in Roots : ReceiveScan(r, root)
  BY <1>5, ScansAssumption DEF ReceiveScan, Scanning
<1>6. CASE \E p \in Scanning : ContextEnds(p) \/ (ScanStep(p) /\ LoopsIdle /\ ServersIdle)
  BY <1>6 DEF ContextEnds
<1>7. CASE \E f \in Files : (ChangeFile(f) \/ RemoveEntry(f)) /\ LoopsIdle /\ ServersIdle
  BY <1>7
<1>8. CASE Shutdown \/ AwaitScan \/ Expire BY <1>8 DEF Shutdown, AwaitScan, Expire
<1>9. CASE ShutdownStep
  <2>1. CASE StopGrpc BY <2>1 DEF StopGrpc, scanVars
  <2>2. CASE AwaitScanner \/ AwaitLoop \/ StopTracker \/ StopHttp \/ CloseCatalog
    BY <2>2 DEF AwaitScanner, AwaitLoop, StopTracker, StopHttp, CloseCatalog
  <2>. QED BY <1>9, <2>1, <2>2 DEF ShutdownStep
<1>. QED BY <1>1, <1>2, <1>3, <1>4, <1>5, <1>6, <1>7, <1>8, <1>9 DEF Next

LEMMA ScanInvStep == ScanInv /\ ScanNext => ScanInv'
<1> SUFFICES ASSUME ScanInv, ScanNext PROVE ScanInv'
  OBVIOUS
<1>1. CASE UNCHANGED scanVars
  BY <1>1 DEF scanVars, ScanInv, ScansTypeOK, Truth
<1>2. CASE \E p \in Scanning, root \in SUBSET Files : Enter(p, root) BY <1>2, EnterStep
<1>3. CASE \E p \in Scanning : ScanStep(p) \/ Cancel(p)
  BY <1>3, ObserveStep, WalkStep, UpsertStep, CheckStep, CancelStep DEF ScanStep
<1>4. CASE \E f \in Files : ChangeFile(f) \/ RemoveEntry(f)
  BY <1>4, ChangeFileStep, RemoveEntryStep
<1>5. CASE stopped' = TRUE /\ UNCHANGED <<disk, entry, scanMu, scan>>
  BY <1>5 DEF ScanInv, ScansTypeOK, Truth
<1>. QED BY <1>1, <1>2, <1>3, <1>4, <1>5 DEF ScanNext

\* A scan that returns leaves the other ones where they are.
LEMMA LeaveFacts ==
  ASSUME ScansTypeOK, NEW p \in Scanning, Leave(p)
  PROVE  \A q \in Scanning : scan'[q].pc = IF q = p THEN "none" ELSE scan[q].pc
<1>1. \A q \in Scanning : scan'[q] = IF q = p THEN NoScan ELSE scan[q]
  BY DEF Leave, ScansTypeOK
<1>. QED BY <1>1, NoScanFacts

\* No step of a scan makes one of another process, starts work once the
\* server's context is cancelled, or undoes that.
LEMMA ScanEffects ==
  ASSUME ScanInv, NEW p \in Scanning, ScanStep(p) \/ Cancel(p)
  PROVE  /\ stopped' = stopped
         /\ \A q \in Scanning :
              /\ scan'[q].pc # "none" => scan[q].pc # "none"
              /\ stopped /\ scan'[q].pc \in WorkingSteps => scan[q].pc \in WorkingSteps
<1> USE DEF WorkingSteps
<1>1. scan \in [Scanning -> ScanRecord] /\ scan[p] \in ScanRecord /\ ScansTypeOK
  BY DEF ScanInv, ScansTypeOK, ScanRecord
<1>2. CASE Leave(p) BY <1>1, <1>2, LeaveFacts DEF Leave
<1>3. CASE Observe(p)
  <2>1. CASE stopped \/ scan[p].cancelled BY <1>2, <1>3, <2>1 DEF Observe
  <2>2. CASE ~(stopped \/ scan[p].cancelled)
    <3>1. scan[p].pc = "enter" /\ Start(p) BY <1>3, <2>2 DEF Observe
    <3>2. \A q \in Scanning \ {p} : scan'[q] = scan[q] BY <1>1, <3>1 DEF Start
    <3>. QED BY <2>2, <3>1, <3>2 DEF Start
  <2>. QED BY <2>1, <2>2
<1>4. CASE Walk(p)
  <2>1. CASE ~Leave(p)
    <3>1. scan[p].pc = "walk" /\ stopped' = stopped BY <1>4, <2>1 DEF Walk
    <3>2. \A q \in Scanning \ {p} : scan'[q] = scan[q] BY <1>1, <1>4, <2>1 DEF Walk
    <3>. QED BY <3>1, <3>2
  <2>. QED BY <1>2, <2>1
<1>5. CASE Upsert(p)
  <2>1. CASE ~Leave(p)
    <3>1. scan[p].pc = "upsert" /\ stopped' = stopped BY <1>5, <2>1 DEF Upsert
    <3>2. \A q \in Scanning \ {p} : scan'[q] = scan[q] BY <1>1, <1>5, <2>1 DEF Upsert
    <3>. QED BY <3>1, <3>2
  <2>. QED BY <1>2, <2>1
<1>6. CASE Check(p)
  <2>1. CASE ~Leave(p)
    <3>1. scan[p].pc = "check" /\ stopped' = stopped BY <1>6, <2>1 DEF Check
    <3>2. \A q \in Scanning \ {p} : scan'[q] = scan[q] BY <1>1, <1>6, <2>1 DEF Check
    <3>. QED BY <3>1, <3>2
  <2>. QED BY <1>2, <2>1
<1>7. CASE Cancel(p)
  <2>1. \A q \in Scanning \ {p} : scan'[q] = scan[q] BY <1>1, <1>7 DEF Cancel
  <2>2. scan'[p] = [scan[p] EXCEPT !.cancelled = TRUE] BY <1>1, <1>7 DEF Cancel
  <2>3. scan'[p].pc = scan[p].pc BY <1>1, <2>2 DEF ScanRecord
  <2>. QED BY <1>7, <2>1, <2>3 DEF Cancel
<1>. QED BY <1>3, <1>4, <1>5, <1>6, <1>7 DEF ScanStep

LEMMA FileEffects ==
  ASSUME ScanInv, NEW f \in Files, ChangeFile(f) \/ RemoveEntry(f)
  PROVE  stopped' = stopped /\ \A q \in Scanning : scan'[q].pc = scan[q].pc
<1>1. \A q \in Scanning : scan[q] \in ScanRecord
  BY DEF ScanInv, ScansTypeOK, ScanRecord
<1>2. CASE ChangeFile(f)
  <2>1. ASSUME NEW q \in Scanning PROVE scan'[q].pc = scan[q].pc
    <3>1. scan'[q] = [scan[q] EXCEPT !.steady = @ \ {f}] BY <1>2 DEF ChangeFile
    <3>. QED BY <1>1, <3>1 DEF ScanRecord
  <2>. QED BY <1>2, <2>1 DEF ChangeFile
<1>3. CASE RemoveEntry(f)
  <2>1. ASSUME NEW q \in Scanning PROVE scan'[q].pc = scan[q].pc
    <3>1. scan'[q] = [scan[q] EXCEPT !.kept = @ \ {f}] BY <1>3 DEF RemoveEntry
    <3>. QED BY <1>1, <3>1 DEF ScanRecord
  <2>. QED BY <1>3, <2>1 DEF RemoveEntry
<1>. QED BY <1>2, <1>3

LEMMA EnterEffects ==
  ASSUME ScanInv, NEW p \in Scanning, NEW root, Enter(p, root)
  PROVE  /\ stopped' = stopped
         /\ \A q \in Scanning : scan'[q].pc = IF q = p THEN "enter" ELSE scan[q].pc
<1>1. scan'[p].pc = "enter" BY DEF Enter, NoScan, ScanInv, ScansTypeOK
<1>2. \A q \in Scanning \ {p} : scan'[q] = scan[q] BY DEF Enter, ScanInv, ScansTypeOK
<1>. QED BY <1>1, <1>2 DEF Enter
-----------------------------------------------------------------------------
\* Shutdown has been through with the gRPC server, with the scans, with the HTTP server.
PastGrpc == {"lock", "http", "catalog", "exit"}
PastLock == {"http", "catalog", "exit"}
PastHttp == {"catalog", "exit"}

LEMMA PassedFacts ==
  /\ Passed("grpc") <=> phase \in PastGrpc
  /\ Passed("lock") <=> phase \in PastLock
  /\ Passed("http") <=> phase \in PastHttp
<1>1. DOMAIN Phases = 1..9 BY DEF Phases
<1>2. /\ Phases[1] = "run" /\ Phases[2] = "scanner" /\ Phases[3] = "loop"
      /\ Phases[4] = "tracker" /\ Phases[5] = "grpc" /\ Phases[6] = "lock"
      /\ Phases[7] = "http" /\ Phases[8] = "catalog" /\ Phases[9] = "exit"
  BY DEF Phases
<1>3. \A i \in 1..9 : i \in {1, 2, 3, 4, 5, 6, 7, 8, 9} OBVIOUS
<1> HIDE DEF Phases
<1>4. Passed("grpc") <=> phase \in PastGrpc
  <2>1. Passed("grpc") => phase \in PastGrpc BY <1>1, <1>2, <1>3 DEF Passed, PastGrpc
  <2>2. phase \in PastGrpc => \E j \in 1..9 : Phases[j] = phase /\ 5 < j
    BY <1>2 DEF PastGrpc
  <2>. QED BY <1>1, <1>2, <2>1, <2>2 DEF Passed
<1>5. Passed("lock") <=> phase \in PastLock
  <2>1. Passed("lock") => phase \in PastLock BY <1>1, <1>2, <1>3 DEF Passed, PastLock
  <2>2. phase \in PastLock => \E j \in 1..9 : Phases[j] = phase /\ 6 < j
    BY <1>2 DEF PastLock
  <2>. QED BY <1>1, <1>2, <2>1, <2>2 DEF Passed
<1>6. Passed("http") <=> phase \in PastHttp
  <2>1. Passed("http") => phase \in PastHttp BY <1>1, <1>2, <1>3 DEF Passed, PastHttp
  <2>2. phase \in PastHttp => \E j \in 1..9 : Phases[j] = phase /\ 7 < j
    BY <1>2 DEF PastHttp
  <2>. QED BY <1>1, <1>2, <2>1, <2>2 DEF Passed
<1>. QED BY <1>4, <1>5, <1>6

\* What Shutdown has established at each of its steps.  A server that is up is
\* not passed by, one that never started has no calls, and one that is down has
\* none left unless the time was over.
Control ==
  /\ phase \in PastGrpc => stopped
  /\ phase \in PastLock => \A p \in Scanning : scan[p].pc \notin WorkingSteps
  /\ phase \notin {"run", "scanner"} => scanner = "done"
  /\ phase \notin {"run", "scanner", "loop"} => loop = "done"
  /\ phase \in PastGrpc => server["grpc"] # "up"
  /\ server["grpc"] = "new" => inFlight \cap Calls = {}
  /\ server["grpc"] = "down" /\ phase \in PastGrpc => inFlight \cap Calls = {}
  /\ phase \in PastHttp => server["http"] # "up"
  /\ server["http"] = "new" => \A r \in Requests : ~Handling(r)
  /\ server["http"] = "down" /\ phase \in PastHttp =>
       expired \/ \A r \in Requests : ~Handling(r)
  /\ catalog = "closed" => phase = "exit"

\* The types of the daemon's own variables.
Shape ==
  /\ \E i \in DOMAIN Phases : phase = Phases[i]
  /\ ctxScan \in BOOLEAN /\ ctxLoop \in BOOLEAN /\ expired \in BOOLEAN
  /\ scanner \in {"scan", "scanning", "wait", "done"}
  /\ loop \in {"sync", "wait", "done"}
  /\ tracker \in {"tick", "done"}
  /\ server \in [Servers -> {"new", "up", "down", "late"}]
  /\ inFlight \subseteq Calls \cup Requests
  /\ catalog \in {"open", "closed"}

LEMMA PhaseNames ==
  \A p \in {"run", "scanner", "loop", "tracker", "grpc", "lock", "http", "catalog", "exit"} :
    \E i \in DOMAIN Phases : p = Phases[i]
<1>1. DOMAIN Phases = 1..9 BY DEF Phases
<1>2. /\ Phases[1] = "run" /\ Phases[2] = "scanner" /\ Phases[3] = "loop"
      /\ Phases[4] = "tracker" /\ Phases[5] = "grpc" /\ Phases[6] = "lock"
      /\ Phases[7] = "http" /\ Phases[8] = "catalog" /\ Phases[9] = "exit"
  BY DEF Phases
<1> HIDE DEF Phases
<1>. QED BY <1>1, <1>2

DaemonInv == ScanInv /\ Shape /\ Control

LEMMA InitDaemonInv == Init => DaemonInv
<1> SUFFICES ASSUME Init PROVE DaemonInv
  OBVIOUS
<1>1. NoScan \in ScanRecord /\ NoScan.pc = "none" /\ Truthful(NoScan, disk, entry)
  BY NoScanFacts
<1>2. \A p \in Scanning : scan[p] = NoScan BY DEF Init, ScansInit
<1>3. ScanInv
  <2>1. scan \in [Scanning -> ScanRecord] BY <1>1 DEF Init, ScansInit
  <2>2. ScansTypeOK
    BY <1>1, <1>2, <2>1, ScansAssumption DEF Init, ScansInit, ScansTypeOK, ScanRecord
  <2>. QED BY <1>1, <1>2, <2>2 DEF ScanInv, Truth
<1>4. Shape BY PhaseNames DEF Init, Shape, Servers
<1>5. Control
  <2>1. \A r \in Requests : ~Handling(r) BY <1>1, <1>2 DEF Init, Handling, Scanning
  <2>. QED BY <2>1 DEF Init, Control, PastGrpc, PastLock, PastHttp
<1>. QED BY <1>3, <1>4, <1>5 DEF DaemonInv
-----------------------------------------------------------------------------
\* A step that leaves servers, requests and phases alone, makes no scan of a
\* request and starts no work under a cancelled context keeps what was established.
LEMMA QuietStep ==
  ASSUME Shape, Control, ServersIdle,
         scanner = "done" => scanner' = "done", loop = "done" => loop' = "done",
         LoopsIdle \/ (/\ ctxScan' = ctxScan /\ ctxLoop' = ctxLoop /\ tracker' = tracker
                       /\ scanner' \in {"scan", "scanning", "wait", "done"}
                       /\ loop' \in {"sync", "wait", "done"}),
         stopped' = stopped,
         \A p \in Scanning :
           /\ stopped /\ scan'[p].pc \in WorkingSteps => scan[p].pc \in WorkingSteps
           /\ p \in Requests /\ scan'[p].pc # "none" => scan[p].pc # "none"
  PROVE  Shape' /\ Control'
<1>1. Shape' BY DEF Shape, ServersIdle, LoopsIdle
<1>2. \A r \in Requests : Handling(r)' => Handling(r) BY DEF Handling, ServersIdle, Scanning
<1>3. phase \in PastLock => stopped BY DEF Control, PastGrpc, PastLock
<1>4. Control'
  <2> USE DEF ServersIdle
  <2>1. (phase \in PastLock => \A p \in Scanning : scan[p].pc \notin WorkingSteps)'
    BY <1>3 DEF Control
  <2>2. (server["http"] = "new" => \A r \in Requests : ~Handling(r))'
    BY <1>2 DEF Control
  <2>3. (server["http"] = "down" /\ phase \in PastHttp =>
           expired \/ \A r \in Requests : ~Handling(r))'
    BY <1>2 DEF Control
  <2>. QED BY <2>1, <2>2, <2>3 DEF Control
<1>. QED BY <1>1, <1>4

LEMMA ScannerControl ==
  ASSUME DaemonInv, ScannerStep \/ LoopStep
  PROVE  Shape' /\ Control'
<1> USE DEF DaemonInv
<1>1. CASE BeginScan
  <2>1. CASE scanMu = Free
    <3>1. Enter(Scanner, Files) /\ scanner' = "scanning" /\ scanner = "scan"
      BY <1>1, <2>1 DEF BeginScan
    <3>2. /\ stopped' = stopped
          /\ \A q \in Scanning : scan'[q].pc = IF q = Scanner THEN "enter" ELSE scan[q].pc
      BY <3>1, EnterEffects DEF Scanning
    <3>3. ServersIdle /\ ctxScan' = ctxScan /\ ctxLoop' = ctxLoop /\ tracker' = tracker /\ loop' = loop
      BY <1>1 DEF BeginScan
    <3>4. loop' \in {"sync", "wait", "done"} BY <3>3 DEF Shape
    <3>. QED BY <3>1, <3>2, <3>3, <3>4, QuietStep, ScansAssumption DEF WorkingSteps
  <2>2. CASE scanMu # Free
    <3>1. scan' = scan /\ stopped' = stopped /\ scanner' = "wait" /\ scanner = "scan" /\ ServersIdle
          /\ ctxScan' = ctxScan /\ ctxLoop' = ctxLoop /\ tracker' = tracker /\ loop' = loop
      BY <1>1, <2>2 DEF BeginScan, scanVars
    <3>2. loop' \in {"sync", "wait", "done"} BY <3>1 DEF Shape
    <3>. QED BY <3>1, <3>2, QuietStep
  <2>. QED BY <2>1, <2>2
<1>2. CASE EndScan \/ ScanTick
  <2>1. scan' = scan /\ stopped' = stopped /\ scanner # "done" /\ ServersIdle
        /\ scanner' \in {"scan", "scanning", "wait", "done"}
        /\ ctxScan' = ctxScan /\ ctxLoop' = ctxLoop /\ tracker' = tracker /\ loop' = loop
    BY <1>2 DEF EndScan, ScanTick, scanVars
  <2>2. loop' \in {"sync", "wait", "done"} BY <2>1 DEF Shape
  <2>. QED BY <2>1, <2>2, QuietStep
<1>3. CASE LoopStep
  <2>1. scan' = scan /\ stopped' = stopped /\ loop # "done" /\ ServersIdle
        /\ loop' \in {"sync", "wait", "done"}
        /\ ctxScan' = ctxScan /\ ctxLoop' = ctxLoop /\ tracker' = tracker /\ scanner' = scanner
    BY <1>3 DEF LoopStep, EndSync, LoopTick, scanVars
  <2>2. scanner' \in {"scan", "scanning", "wait", "done"} BY <2>1 DEF Shape
  <2>. QED BY <2>1, <2>2, QuietStep
<1>. QED BY <1>1, <1>2, <1>3 DEF ScannerStep

LEMMA ScansControl ==
  ASSUME DaemonInv, LoopsIdle, ServersIdle,
         \/ \E p \in Scanning : ScanStep(p) \/ Cancel(p)
         \/ \E f \in Files : ChangeFile(f) \/ RemoveEntry(f)
  PROVE  Shape' /\ Control'
<1> USE DEF DaemonInv
<1>1. scanner' = scanner /\ loop' = loop BY DEF LoopsIdle
<1>2. CASE \E p \in Scanning : ScanStep(p) \/ Cancel(p)
  <2>1. /\ stopped' = stopped
        /\ \A q \in Scanning :
             /\ scan'[q].pc # "none" => scan[q].pc # "none"
             /\ stopped /\ scan'[q].pc \in WorkingSteps => scan[q].pc \in WorkingSteps
    BY <1>2, ScanEffects
  <2>. QED BY <1>1, <2>1, QuietStep
<1>3. CASE \E f \in Files : ChangeFile(f) \/ RemoveEntry(f)
  <2>1. stopped' = stopped /\ \A q \in Scanning : scan'[q].pc = scan[q].pc
    BY <1>3, FileEffects
  <2>. QED BY <1>1, <2>1, QuietStep
<1>. QED BY <1>2, <1>3

-----------------------------------------------------------------------------
\* Starting a server and serving.
LEMMA ServerControl ==
  ASSUME DaemonInv, NEW s \in Servers, StartServer(s)
  PROVE  Shape' /\ Control'
<1> USE DEF DaemonInv
<1>1. /\ server' = [server EXCEPT ![s] = IF Passed(IF s = "grpc" THEN "grpc" ELSE "http")
                                         THEN "late" ELSE "up"]
      /\ UNCHANGED <<scan, stopped, phase, expired, inFlight, catalog>> /\ LoopsIdle
  BY DEF StartServer, scanVars
<1>2. server \in [Servers -> {"new", "up", "down", "late"}] BY DEF Shape
<1>3. Shape' BY <1>1, <1>2 DEF Shape, LoopsIdle
<1>4. \A r : Handling(r)' <=> Handling(r) BY <1>1 DEF Handling
<1>5. CASE s = "grpc"
  <2>1. /\ server'["http"] = server["http"]
        /\ server'["grpc"] = IF phase \in PastGrpc THEN "late" ELSE "up"
    BY <1>1, <1>2, <1>5, PassedFacts DEF Servers
  <2>. QED BY <1>1, <1>3, <1>4, <2>1 DEF Control, LoopsIdle
<1>6. CASE s = "http"
  <2>1. /\ server'["grpc"] = server["grpc"]
        /\ server'["http"] = IF phase \in PastHttp THEN "late" ELSE "up"
    BY <1>1, <1>2, <1>6, PassedFacts DEF Servers
  <2>. QED BY <1>1, <1>3, <1>4, <2>1 DEF Control, LoopsIdle
<1>. QED BY <1>5, <1>6 DEF Servers

LEMMA ServingControl ==
  ASSUME DaemonInv, NEW r \in Calls \cup Requests, Receive(r) \/ Answer(r)
  PROVE  Shape' /\ Control'
<1> USE DEF DaemonInv
<1>1. UNCHANGED <<scan, stopped, phase, expired, server, catalog>> /\ LoopsIdle
  BY DEF Receive, Answer, scanVars
<1>2. inFlight' \subseteq Calls \cup Requests BY DEF Receive, Answer, Shape
<1>3. Shape' BY <1>1, <1>2 DEF Shape, LoopsIdle
<1>4. \A q \in Requests : Handling(q)' => Handling(q) \/ (q = r /\ Receive(r))
  BY <1>1 DEF Receive, Answer, Handling
<1>5. \A c \in Calls : c \in inFlight' => c \in inFlight \/ (c = r /\ Receive(r))
  BY DEF Receive, Answer
<1>6. Receive(r) /\ r \in Calls => server["grpc"] \in {"up", "late"} BY DEF Receive, Serving
<1>7. Receive(r) /\ r \in Requests => server["http"] \in {"up", "late"}
  BY LifecycleAssumption DEF Receive, Serving
<1>8. Control'
  <2>1. (server["grpc"] = "new" => inFlight \cap Calls = {})'
    BY <1>1, <1>5, <1>6 DEF Control
  <2>2. (server["grpc"] = "down" /\ phase \in PastGrpc => inFlight \cap Calls = {})'
    BY <1>1, <1>5, <1>6 DEF Control
  <2>3. (server["http"] = "new" => \A q \in Requests : ~Handling(q))'
    BY <1>1, <1>4, <1>7 DEF Control
  <2>4. (server["http"] = "down" /\ phase \in PastHttp =>
           expired \/ \A q \in Requests : ~Handling(q))'
    BY <1>1, <1>4, <1>7 DEF Control
  <2>. QED BY <1>1, <2>1, <2>2, <2>3, <2>4 DEF Control, LoopsIdle
<1>. QED BY <1>3, <1>8

LEMMA ReceiveScanControl ==
  ASSUME DaemonInv, NEW r \in Requests, NEW root \in Roots, ReceiveScan(r, root)
  PROVE  Shape' /\ Control'
<1> USE DEF DaemonInv
<1>1. /\ stopped' = stopped
      /\ \A q \in Scanning : scan'[q].pc = IF q = r THEN "enter" ELSE scan[q].pc
  BY EnterEffects DEF ReceiveScan, Scanning
<1>2. LoopsIdle /\ ServersIdle /\ server["http"] \in {"up", "late"}
  BY DEF ReceiveScan, Serving
<1>3. Shape' BY <1>2 DEF Shape, LoopsIdle, ServersIdle
<1>4. Control'
  <2> USE DEF ServersIdle, LoopsIdle
  <2>1. (phase \in PastLock => \A p \in Scanning : scan[p].pc \notin WorkingSteps)'
    BY <1>1, <1>2 DEF Control, WorkingSteps
  <2>2. server'["http"] \notin {"new", "down"} BY <1>2
  <2>. QED BY <1>1, <1>2, <2>1, <2>2 DEF Control
<1>. QED BY <1>3, <1>4

-----------------------------------------------------------------------------
LEMMA ShutdownControl ==
  ASSUME DaemonInv, Shutdown \/ ShutdownStep \/ AwaitScan \/ Expire
  PROVE  Shape' /\ Control'
<1> USE DEF DaemonInv, PastGrpc, PastLock, PastHttp
<1>1. CASE Shutdown \/ AwaitScanner \/ AwaitLoop \/ StopTracker
  <2>1. /\ UNCHANGED <<scan, stopped, expired, server, inFlight, catalog>>
        /\ \/ phase = "run" /\ phase' = "scanner"
           \/ phase = "scanner" /\ phase' = "loop" /\ scanner = "done"
           \/ phase = "loop" /\ phase' = "tracker" /\ loop = "done"
           \/ phase = "tracker" /\ phase' = "grpc"
        /\ scanner' = scanner /\ loop' = loop
    BY <1>1 DEF Shutdown, AwaitScanner, AwaitLoop, StopTracker, LoopsIdle, scanVars
  <2>2. ctxScan' \in BOOLEAN /\ ctxLoop' \in BOOLEAN /\ tracker' \in {"tick", "done"}
    BY <1>1 DEF Shape, Shutdown, AwaitScanner, AwaitLoop, StopTracker, LoopsIdle
  <2>3. Shape' BY <2>1, <2>2, PhaseNames DEF Shape
  <2>4. \A r : Handling(r)' <=> Handling(r) BY <2>1 DEF Handling
  <2>5. phase' \notin {"lock", "http", "catalog", "exit"} BY <2>1
  <2>. QED BY <2>1, <2>3, <2>4, <2>5 DEF Control
<1>2. CASE Expire
  <2>1. UNCHANGED <<scan, stopped, phase, server, inFlight, catalog>> /\ LoopsIdle /\ expired' = TRUE
    BY <1>2 DEF Expire, scanVars
  <2>2. \A r : Handling(r)' <=> Handling(r) BY <2>1 DEF Handling
  <2>3. Shape' BY <2>1 DEF Shape, LoopsIdle
  <2>. QED BY <2>1, <2>2, <2>3 DEF Control, LoopsIdle
<1>3. CASE StopGrpc
  <2>1. UNCHANGED <<scan, expired, inFlight, catalog>> /\ LoopsIdle /\ phase = "grpc"
    BY <1>3 DEF StopGrpc
  <2>2. \A r : Handling(r)' <=> Handling(r) BY <2>1 DEF Handling
  <2>3. server \in [Servers -> {"new", "up", "down", "late"}] BY DEF Shape
  <2>4. CASE StopServing("grpc") /\ UNCHANGED stopped
    <3>1. server'["grpc"] = "down" /\ server'["http"] = server["http"] /\ phase' = "grpc"
      BY <2>1, <2>3, <2>4 DEF StopServing, Servers
    <3>2. Shape' BY <2>1, <2>3, <2>4 DEF Shape, LoopsIdle, StopServing
    <3>. QED BY <2>1, <2>2, <2>4, <3>1, <3>2 DEF Control, LoopsIdle
  <2>5. CASE /\ \/ server["grpc"] = "new"
                \/ server["grpc"] = "down" /\ inFlight \cap Calls = {}
             /\ phase' = "lock"
             /\ stopped' = TRUE
             /\ UNCHANGED server
    <3>1. Shape' BY <2>1, <2>5, PhaseNames DEF Shape, LoopsIdle
    <3>. QED BY <2>1, <2>2, <2>5, <3>1 DEF Control, LoopsIdle
  <2>. QED BY <1>3, <2>4, <2>5 DEF StopGrpc
<1>4. CASE AwaitScan
  <2>1. UNCHANGED <<scan, stopped, expired, server, inFlight, catalog>> /\ LoopsIdle
        /\ phase = "lock" /\ phase' = "http" /\ scanMu = Free
    BY <1>4 DEF AwaitScan, scanVars
  <2>2. \A r : Handling(r)' <=> Handling(r) BY <2>1 DEF Handling
  <2>3. \A p \in Scanning : scan[p].pc \notin WorkingSteps
    BY <2>1, ScansAssumption DEF ScanInv, ScansTypeOK, WorkingSteps
  <2>4. Shape' BY <2>1, PhaseNames DEF Shape, LoopsIdle
  <2>. QED BY <2>1, <2>2, <2>3, <2>4 DEF Control, LoopsIdle
<1>5. CASE StopHttp
  <2>1. UNCHANGED <<scan, stopped, expired, inFlight, catalog>> /\ LoopsIdle /\ phase = "http"
    BY <1>5 DEF StopHttp, scanVars
  <2>2. \A r : Handling(r)' <=> Handling(r) BY <2>1 DEF Handling
  <2>3. server \in [Servers -> {"new", "up", "down", "late"}] BY DEF Shape
  <2>4. CASE StopServing("http")
    <3>1. server'["http"] = "down" /\ server'["grpc"] = server["grpc"] /\ phase' = "http"
      BY <2>1, <2>3, <2>4 DEF StopServing, Servers
    <3>2. Shape' BY <2>1, <2>3, <2>4 DEF Shape, LoopsIdle, StopServing
    <3>. QED BY <2>1, <2>2, <3>1, <3>2 DEF Control, LoopsIdle
  <2>5. CASE /\ \/ server["http"] = "new"
                \/ server["http"] = "down" /\ (expired \/ \A r \in Requests : ~Handling(r))
             /\ phase' = "catalog"
             /\ UNCHANGED server
    <3>1. Shape' BY <2>1, <2>5, PhaseNames DEF Shape, LoopsIdle
    <3>. QED BY <2>1, <2>2, <2>5, <3>1 DEF Control, LoopsIdle
  <2>. QED BY <1>5, <2>4, <2>5 DEF StopHttp
<1>6. CASE CloseCatalog
  <2>1. UNCHANGED <<scan, stopped, expired, server, inFlight>> /\ LoopsIdle
        /\ phase = "catalog" /\ phase' = "exit" /\ catalog' = "closed"
    BY <1>6 DEF CloseCatalog, scanVars
  <2>2. \A r : Handling(r)' <=> Handling(r) BY <2>1 DEF Handling
  <2>3. Shape' BY <2>1, PhaseNames DEF Shape, LoopsIdle
  <2>. QED BY <2>1, <2>2, <2>3 DEF Control, LoopsIdle
<1>. QED BY <1>1, <1>2, <1>3, <1>4, <1>5, <1>6 DEF ShutdownStep

-----------------------------------------------------------------------------
LEMMA NextDaemonInv == DaemonInv /\ [Next]_vars => DaemonInv'
<1> SUFFICES ASSUME DaemonInv, [Next]_vars PROVE DaemonInv'
  OBVIOUS
<1>1. CASE Next
  <2>1. ScanInv' BY <1>1, NextScans, ScanInvStep DEF DaemonInv
  <2>2. Shape' /\ Control'
    <3>1. CASE ScannerStep \/ LoopStep BY <3>1, ScannerControl
    <3>2. CASE \E s \in Servers : StartServer(s) BY <3>2, ServerControl
    <3>3. CASE \E r \in Calls \cup Requests : Receive(r) \/ Answer(r) BY <3>3, ServingControl
    <3>4. CASE \E r \in Requests, root \in Roots : ReceiveScan(r, root)
      BY <3>4, ReceiveScanControl
    <3>5. CASE \E p \in Scanning : ContextEnds(p) \/ (ScanStep(p) /\ LoopsIdle /\ ServersIdle)
      BY <3>5, ScansControl DEF ContextEnds
    <3>6. CASE \E f \in Files : (ChangeFile(f) \/ RemoveEntry(f)) /\ LoopsIdle /\ ServersIdle
      BY <3>6, ScansControl
    <3>7. CASE Shutdown \/ ShutdownStep \/ AwaitScan \/ Expire BY <3>7, ShutdownControl
    <3>. QED BY <1>1, <3>1, <3>2, <3>3, <3>4, <3>5, <3>6, <3>7 DEF Next
  <2>. QED BY <2>1, <2>2 DEF DaemonInv
<1>2. CASE UNCHANGED vars
  <2>1. ScanInv' BY <1>2 DEF vars, DaemonInv, ScanInv, ScansTypeOK, Truth
  <2>2. Shape' BY <1>2 DEF vars, DaemonInv, Shape
  <2>3. Control' BY <1>2 DEF vars, DaemonInv, Control, Handling
  <2>. QED BY <2>1, <2>2, <2>3 DEF DaemonInv
<1>. QED BY <1>1, <1>2
\* A scan that ends after its check has nothing left to look at.
LEMMA EndOfCheck ==
  ASSUME DaemonInv, Next, NEW p \in Scanning, scan[p].pc = "check", scan'[p].pc = "none"
  PROVE  scan[p].todo = {}
<1> USE DEF DaemonInv
<1>1. scan[p] \in ScanRecord /\ scan \in [Scanning -> ScanRecord]
  BY DEF ScanInv, ScansTypeOK, ScanRecord
<1>2. scan'[p].pc # scan[p].pc OBVIOUS
<1>3. CASE \E q \in Scanning : ScanStep(q)
  <2>1. PICK q \in Scanning : ScanStep(q) BY <1>3
  <2>2. scan[q].pc # "none" BY <2>1 DEF ScanStep, Observe, Walk, Upsert, Check
  <2>3. q = p BY <2>2, OneScan DEF ScanInv
  <2>4. Check(p) BY <2>1, <2>3 DEF ScanStep, Observe, Walk, Upsert
  <2>5. ASSUME NEW todo, NEW kept, scan' = [scan EXCEPT ![p].todo = todo, ![p].kept = kept]
        PROVE  FALSE
    <3>1. scan'[p] = [scan[p] EXCEPT !.todo = todo, !.kept = kept] BY <1>1, <2>5
    <3>2. scan'[p].pc = scan[p].pc BY <1>1, <3>1 DEF ScanRecord
    <3>. QED BY <1>2, <3>2
  <2>6. ASSUME NEW f \in scan[p].todo,
               scan' = [scan EXCEPT ![p].todo = @ \ {f},
                          ![p].kept = IF entry[f] = "none" THEN @ ELSE @ \cup {f}]
        PROVE  FALSE
    BY <2>5, <2>6
  <2>7. ASSUME NEW f \in scan[p].todo,
               scan' = [scan EXCEPT ![p].todo = @ \ {f}, ![p].kept = @ \ ({f} \ disk)]
        PROVE  FALSE
    BY <2>5, <2>7
  <2>. QED BY <2>4, <2>6, <2>7 DEF Check
<1>4. CASE \E q \in Scanning : Cancel(q)
  <2>1. PICK q \in Scanning : Cancel(q) BY <1>4
  <2>2. q = p BY <2>1, OneScan DEF Cancel, ScanInv
  <2>3. scan'[p] = [scan[p] EXCEPT !.cancelled = TRUE] BY <1>1, <2>1, <2>2 DEF Cancel
  <2>4. scan'[p].pc = scan[p].pc BY <1>1, <2>3 DEF ScanRecord
  <2>. QED BY <1>2, <2>4
<1>5. CASE \E q \in Scanning, root \in SUBSET Files : Enter(q, root)
  BY <1>2, <1>5, EnterEffects
<1>6. CASE \E f \in Files : ChangeFile(f) \/ RemoveEntry(f) BY <1>2, <1>6, FileEffects
<1>. QED BY <1>2, <1>3, <1>4, <1>5, <1>6, NextScans DEF ScanNext, scanVars

-----------------------------------------------------------------------------
\* Every variable keeps its type, and one process at a time has scanMu.
THEOREM TypeCorrect == Spec => []TypeOK
<1>1. DaemonInv => TypeOK BY DEF DaemonInv, ScanInv, Shape, TypeOK
<1>. QED BY <1>1, InitDaemonInv, NextDaemonInv, PTL DEF Spec

\* Between HTTPServer.Stop's turn with the lock and the end of the daemon no
\* scan works: one that comes then finds the server's context cancelled.
THEOREM ScansAreStopped == Spec => []NoScanAfterStop
<1>1. DaemonInv => NoScanAfterStop
  BY PassedFacts DEF DaemonInv, Control, NoScanAfterStop, Working, WorkingSteps
<1>. QED BY <1>1, InitDaemonInv, NextDaemonInv, PTL DEF Spec

\* The catalog is closed behind the scanner, the loop, the calls and the
\* requests, except for what Shutdown gave up waiting for.
THEOREM CatalogOutlivesItsUsers == Spec => []ClosedWhenUnused
<1>1. DaemonInv => ClosedWhenUnused
  <2> SUFFICES ASSUME DaemonInv, catalog = "closed"
               PROVE  /\ scanner = "done" /\ loop = "done"
                      /\ \A c \in Calls : c \in inFlight => server["grpc"] = "late"
                      /\ \A r \in Requests : Handling(r) => expired \/ server["http"] = "late"
    BY DEF ClosedWhenUnused
  <2>1. phase = "exit" BY DEF DaemonInv, Control
  <2>2. server["grpc"] \in {"new", "up", "down", "late"} /\ server["http"] \in {"new", "up", "down", "late"}
    BY DEF DaemonInv, Shape, Servers
  <2>. QED BY <2>1, <2>2 DEF DaemonInv, Control, PastGrpc, PastHttp
<1>. QED BY <1>1, InitDaemonInv, NextDaemonInv, PTL DEF Spec

\* What a scan leaves in the catalog about a file below its roots is true,
\* whichever files and entries come and go while it runs and whatever it fails
\* at, except where it had to leave the entry as it was.
THEOREM ScansAreTruthful == Spec => ScansTellTheTruth
<1>1. DaemonInv /\ [Next]_vars =>
        [\A p \in Scanning :
           scan[p].pc = "check" /\ scan'[p].pc = "none" =>
             \A f \in scan[p].steady \cap scan[p].kept :
               f \in disk <=> entry[f] = "available"]_scanVars
  <2> SUFFICES ASSUME DaemonInv, [Next]_vars, NEW p \in Scanning,
                      scan[p].pc = "check", scan'[p].pc = "none",
                      NEW f \in scan[p].steady \cap scan[p].kept
               PROVE  f \in disk <=> entry[f] = "available"
    OBVIOUS
  <2>1. Next BY DEF vars
  <2>2. scan[p].todo = {} BY <2>1, EndOfCheck
  <2>3. Truthful(scan[p], disk, entry) BY DEF DaemonInv, ScanInv, Truth
  <2>. QED BY <2>2, <2>3 DEF Truthful
<1>. QED BY <1>1, InitDaemonInv, NextDaemonInv, PTL DEF Spec, ScansTellTheTruth
=============================================================================
