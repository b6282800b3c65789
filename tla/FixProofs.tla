------------------------------ MODULE FixProofs ------------------------------
(***************************************************************************)
(* Proofs about cargo fix, for any crates, files and suggestions.  The     *)
(* inductive invariant FixInv has who holds the lock (FixLockInv), who     *)
(* waits for the diagnostic server (PostInv), and, of each process, how    *)
(* the code of its files differs from what it was (CodeOf).                *)
(***************************************************************************)
EXTENDS Fix, TLAPS

Lint == UNION {s.lints[f] : s \in Sources, f \in File}
Originals == UNION {[D -> SUBSET Lint] : D \in SUBSET File}
ProcAt == {"start", "rustc_only", "rustc", "fix", "write", "final", "report", "success", "failure", "failed",
           "exited", "dead"}
Result == {"none", "ok", "err"}
ProcType ==
  [at : ProcAt,
   todo : SUBSET File, suggestions : SUBSET Lint, file : File \union {stop}, code : SUBSET Lint,
   original : Originals, errors : SUBSET File, made_changes : BOOLEAN, iteration : Nat,
   first : Result, last : Result, exit : Result,
   waits : BOOLEAN, owed : BOOLEAN, applied : SUBSET Lint]

FxTypeOK ==
  /\ sock \in [Proxy -> {"none", "connected", "named", "granted", "nameless", "closed"}]
  /\ source \in Sources /\ content \in [File -> SUBSET Lint]
  /\ proc \in [Proxy -> ProcType]
  /\ diag \in [backlog : Seq(Proxy), client : Proxy \union {stop}]

\* The lock is held by one process, all the while it works on files.
FixLockInv == \A p \in Proxy :
  /\ sock[p] = "granted" => holder = p
  /\ proc[p].at \in {"rustc_only", "rustc", "fix", "write", "final", "report"} => sock[p] = "granted"
  /\ proc[p].at = "write" => proc[p].file \in File

\* A process waits for the diagnostic server as long as its message is on the way.
PostInv ==
  /\ \A p \in Proxy : /\ proc[p].owed => proc[p].waits
                      /\ proc[p].at = "exited" => ~proc[p].waits
                      /\ diag.client = p => ~proc[p].owed /\ (proc[p].waits \/ proc[p].at = "dead")
  /\ \A i \in 1 .. Len(diag.backlog) :
       proc[diag.backlog[i]].at = "dead" \/ (proc[diag.backlog[i]].waits /\ proc[diag.backlog[i]].owed)
  /\ \A i, j \in 1 .. Len(diag.backlog) :
       i # j /\ diag.backlog[i] = diag.backlog[j] => proc[diag.backlog[i]].at = "dead"

\* No suggestion for its files breaks the crate; no other crate has its files.
Clean(s, p) == \A f \in s.files[p] : s.lints[f] \intersect s.bad = {}
Alone(s, p) == \A q \in Proxy \ {p} : s.files[p] \intersect s.files[q] = {}

Failing(r) == r.at \in {"failure", "failed"} \/ (r.at = "exited" /\ r.last # "ok")

FilesOf(p) ==
  /\ DOMAIN proc[p].original \subseteq source.files[p]
  /\ proc[p].at \in {"fix", "write"} => proc[p].todo \subseteq source.files[p]
  /\ proc[p].at \in {"success", "failure"} => proc[p].todo \subseteq DOMAIN proc[p].original
  /\ proc[p].at = "write" => proc[p].file \in DOMAIN proc[p].original /\ proc[p].code = content[proc[p].file]
  /\ proc[p].at = "success" => proc[p].last = "ok"
  /\ proc[p].at \in {"failure", "failed"} => proc[p].last # "ok"
  /\ ~Failing(proc[p]) /\ proc[p].at # "dead" =>
       \A f \in source.files[p] : proc[p].applied \intersect source.lints[f] \subseteq content[f]

\* A crate whose suggestions all compile either has nothing changed or does not fail.
CleanOf(p) == Clean(source, p) =>
  /\ p \in source.broken => /\ proc[p].applied = {} /\ DOMAIN proc[p].original = {}
                            /\ proc[p].at # "write" /\ (proc[p].at = "fix" => proc[p].todo = {})
  /\ p \notin source.broken =>
       /\ proc[p].last # "err"
       /\ proc[p].last = "none" => proc[p].at \in {"start", "rustc_only", "rustc", "dead"}

\* The files of a crate that has them alone are as they were, but for those it keeps the code of.
AloneOf(p) == Alone(source, p) =>
  /\ \A f \in source.files[p] \ DOMAIN proc[p].original : content[f] = {}
  /\ \A f \in DOMAIN proc[p].original : proc[p].original[f] = {}
  /\ proc[p].at = "failure" => \A f \in DOMAIN proc[p].original \ proc[p].todo : content[f] = {}
  /\ Failing(proc[p]) /\ proc[p].at # "failure" => \A f \in source.files[p] : content[f] = {}

CodeOf(p) == FilesOf(p) /\ CleanOf(p) /\ AloneOf(p)
ContentInv == \A f \in File : content[f] \subseteq source.lints[f]

FixInv ==
  /\ FxTypeOK /\ FixLockInv /\ PostInv
  /\ ~source.broken_code => ContentInv /\ \A p \in Proxy : CodeOf(p)

\* A step of one process.
Moves(p) == proc' \in [Proxy -> ProcType] /\ \A q \in Proxy \ {p} : proc'[q] = proc[q]

\* A process that goes on keeps its type, and the others stay.
LEMMA ProcMoves ==
  ASSUME FxTypeOK, NEW p \in Proxy, NEW r \in ProcType, proc' = [proc EXCEPT ![p] = r]
  PROVE  Moves(p) /\ proc'[p] = r
BY DEF Moves, FxTypeOK

\* The lock stays as it is.
LEMMA LockKept ==
  ASSUME FixLockInv, NEW p \in Proxy, Moves(p), UNCHANGED lsvars,
         proc'[p].at \in {"rustc_only", "rustc", "fix", "write", "final", "report"} => sock[p] = "granted",
         proc'[p].at = "write" => proc'[p].file \in File
  PROVE  FixLockInv'
BY DEF FixLockInv, Moves, lsvars

\* A process that owes no message goes on.
LEMMA NoPost ==
  ASSUME FxTypeOK, PostInv, NEW p \in Proxy, Moves(p), UNCHANGED diag, ~proc[p].waits, proc[p].at # "dead",
         ~proc'[p].waits, ~proc'[p].owed
  PROVE  PostInv'
<1>1. diag.backlog \in Seq(Proxy)
  BY DEF FxTypeOK
<1>2. \A i \in 1 .. Len(diag.backlog) : diag.backlog[i] \in Proxy \ {p}
  BY <1>1 DEF PostInv
<1>3. diag.client # p
  BY DEF PostInv
<1> QED
  BY <1>2, <1>3 DEF PostInv, Moves

\* A process posts a message.
LEMMA Posting ==
  ASSUME FxTypeOK, PostInv, NEW p \in Proxy, Moves(p), diag' = [diag EXCEPT !.backlog = Append(@, p)],
         ~proc[p].waits, proc[p].at # "dead", proc'[p].waits, proc'[p].owed, proc'[p].at # "exited"
  PROVE  PostInv' /\ diag' \in [backlog : Seq(Proxy), client : Proxy \union {stop}]
<1>1. diag.backlog \in Seq(Proxy) /\ diag.client \in Proxy \union {stop}
  BY DEF FxTypeOK
<1>2. diag'.backlog = Append(diag.backlog, p) /\ diag'.client = diag.client
  BY DEF FxTypeOK
<1>3. diag' \in [backlog : Seq(Proxy), client : Proxy \union {stop}]
  <2>1. Append(diag.backlog, p) \in Seq(Proxy)
    BY <1>1
  <2> QED
    BY <1>1, <2>1, Zenon DEF FxTypeOK
<1>4. \A i \in 1 .. Len(diag.backlog) : diag.backlog[i] \in Proxy \ {p} /\ diag'.backlog[i] = diag.backlog[i]
  BY <1>1, <1>2 DEF PostInv
<1>5. /\ Len(diag'.backlog) = Len(diag.backlog) + 1 /\ diag'.backlog[Len(diag.backlog) + 1] = p
      /\ Len(diag.backlog) \in Nat
  BY <1>1, <1>2
<1>6. diag'.client # p
  BY <1>2 DEF PostInv
<1>7. \A i \in 1 .. Len(diag'.backlog) :
        proc'[diag'.backlog[i]].at = "dead" \/ (proc'[diag'.backlog[i]].waits /\ proc'[diag'.backlog[i]].owed)
  BY <1>4, <1>5 DEF PostInv, Moves
<1>8. \A i, j \in 1 .. Len(diag'.backlog) :
        i # j /\ diag'.backlog[i] = diag'.backlog[j] => proc'[diag'.backlog[i]].at = "dead"
  BY <1>4, <1>5 DEF PostInv, Moves
<1>9. \A q \in Proxy : /\ proc'[q].owed => proc'[q].waits
                       /\ proc'[q].at = "exited" => ~proc'[q].waits
                       /\ diag'.client = q => ~proc'[q].owed /\ (proc'[q].waits \/ proc'[q].at = "dead")
  BY <1>2, <1>6 DEF PostInv, Moves
<1> QED
  BY <1>3, <1>7, <1>8, <1>9, Zenon DEF PostInv

\* The files stay as they are.
LEMMA CodeKept ==
  ASSUME FixInv, NEW p \in Proxy, Moves(p), UNCHANGED <<source, content>>, ~source.broken_code => CodeOf(p)'
  PROVE  ~source'.broken_code => ContentInv' /\ \A q \in Proxy : CodeOf(q)'
<1> SUFFICES ASSUME ~source.broken_code PROVE ContentInv' /\ \A q \in Proxy : CodeOf(q)'
  OBVIOUS
<1>1. ContentInv'
  BY DEF FixInv, ContentInv
<1>2. ASSUME NEW q \in Proxy \ {p} PROVE CodeOf(q)'
  <2>1. proc'[q] = proc[q] /\ CodeOf(q)
    BY DEF Moves, FixInv
  <2>2. FilesOf(q)'
    BY <2>1 DEF CodeOf, FilesOf, Failing
  <2>3. CleanOf(q)'
    BY <2>1 DEF CodeOf, CleanOf, Clean
  <2>4. AloneOf(q)'
    BY <2>1 DEF CodeOf, AloneOf, Alone, Failing
  <2> QED
    BY <2>2, <2>3, <2>4 DEF CodeOf
<1> QED
  BY <1>1, <1>2

\* A process goes on with the lock, the files and the messages as they are, or posts one.
LEMMA Going ==
  ASSUME FixInv, NEW p \in Proxy, Moves(p), UNCHANGED <<lsvars, source, content>>,
         proc'[p].at \in {"rustc_only", "rustc", "fix", "write", "final", "report"} => sock[p] = "granted",
         proc'[p].at = "write" => proc'[p].file \in File,
         ~source.broken_code => CodeOf(p)', ~proc[p].waits, proc[p].at # "dead",
         \/ UNCHANGED diag /\ ~proc'[p].waits /\ ~proc'[p].owed
         \/ /\ diag' = [diag EXCEPT !.backlog = Append(@, p)]
            /\ proc'[p].waits /\ proc'[p].owed /\ proc'[p].at # "exited"
  PROVE  FixInv'
<1>1. FxTypeOK /\ FixLockInv /\ PostInv
  BY DEF FixInv
<1>2. PostInv' /\ diag' \in [backlog : Seq(Proxy), client : Proxy \union {stop}]
  <2>1. CASE UNCHANGED diag /\ ~proc'[p].waits /\ ~proc'[p].owed
    BY <1>1, <2>1, NoPost DEF FxTypeOK
  <2>2. CASE /\ diag' = [diag EXCEPT !.backlog = Append(@, p)]
             /\ proc'[p].waits /\ proc'[p].owed /\ proc'[p].at # "exited"
    BY <1>1, <2>2, Posting, Zenon
  <2> QED
    BY <2>1, <2>2
<1>3. FixLockInv'
  BY <1>1, LockKept
<1>4. FxTypeOK'
  BY <1>1, <1>2 DEF FxTypeOK, Moves, lsvars
<1> QED
  BY <1>2, <1>3, <1>4, CodeKept DEF FixInv

\* rustc succeeds or fails.
LEMMA StatusTyped == ASSUME NEW p PROVE Status(p) \in {"ok", "err"}
BY DEF Status

\* Where a process can be, and what rustc can return; the sets stay folded from here on.
LEMMA ProcTypes ==
  /\ "rustc" \in ProcAt /\ "rustc_only" \in ProcAt /\ "fix" \in ProcAt /\ "write" \in ProcAt
  /\ "final" \in ProcAt /\ "report" \in ProcAt /\ "success" \in ProcAt /\ "failure" \in ProcAt
  /\ "failed" \in ProcAt /\ "exited" \in ProcAt /\ "dead" \in ProcAt
  /\ "ok" \in Result /\ "err" \in Result
BY DEF ProcAt, Result

\* What the invariant says of one process.
LEMMA ProcTyped ==
  ASSUME FixInv, NEW p \in Proxy
  PROVE  proc[p] \in ProcType /\ FxTypeOK /\ (~source.broken_code => CodeOf(p)) /\ source \in Sources
BY DEF FixInv, FxTypeOK

\* can_run_rustfix says what is being done.
LEMMA CanRunKeeps ==
  ASSUME FixInv, NEW p \in Proxy, CanRunRustfix(p)
  PROVE  FixInv'
<1>1. PICK at \in {"rustc_only", "rustc"} : at = IF p \in source.skipped THEN "rustc_only" ELSE "rustc"
  OBVIOUS
<1> DEFINE r == [proc[p] EXCEPT !.at = at, !.waits = TRUE, !.owed = TRUE]
<1>2. /\ proc[p].at = "start" /\ ~proc[p].waits /\ sock[p] = "granted"
      /\ UNCHANGED <<lsvars, source, content>> /\ diag' = [diag EXCEPT !.backlog = Append(@, p)]
  BY DEF CanRunRustfix, At, HasLock, Post, Step
<1>3. r \in ProcType
  BY ProcTypes, ProcTyped, Zenon DEF ProcType
<1>4. proc' = [proc EXCEPT ![p] = r]
  BY <1>1, ProcTyped DEF CanRunRustfix, Post, Step, ProcType
<1>5. Moves(p) /\ proc'[p] = r
  BY <1>3, <1>4, ProcTyped, ProcMoves, Zenon
<1>6. /\ proc'[p].at = at /\ proc'[p].waits /\ proc'[p].owed /\ proc'[p].original = proc[p].original
      /\ proc'[p].applied = proc[p].applied /\ proc'[p].last = proc[p].last
  BY <1>5, ProcTyped DEF ProcType
<1> HIDE DEF r
<1>7. ~source.broken_code => CodeOf(p)'
  BY <1>2, <1>6, ProcTyped DEF CodeOf, FilesOf, CleanOf, AloneOf, Failing, Clean, Alone
<1> QED
  BY <1>2, <1>5, <1>6, <1>7, Going, Zenon

\* The files and the suggestions of a crate.
LEMMA FilesTyped ==
  ASSUME FixInv, NEW p \in Proxy
  PROVE  source.files[p] \subseteq File /\ \A f \in File : source.lints[f] \subseteq Lint
<1>1. source \in Sources
  BY DEF FixInv, FxTypeOK
<1>2. source.files \in [Proxy -> SUBSET File]
  BY <1>1, SourcesTyped
<1>3. ASSUME NEW f \in File, NEW x \in source.lints[f] PROVE x \in Lint
  BY <1>1, <1>3 DEF Lint
<1> QED
  BY <1>2, <1>3

\* A crate whose suggestions all compile compiles unless it did not to begin with.
LEMMA CleanStatus ==
  ASSUME FixInv, ~source.broken_code, NEW p \in Proxy, Clean(source, p)
  PROVE  Status(p) = IF p \in source.broken THEN "err" ELSE "ok"
<1>1. \A f \in source.files[p] : content[f] \subseteq source.lints[f]
  BY FilesTyped DEF FixInv, ContentInv
<1>2. \A f \in source.files[p] : content[f] \intersect source.bad = {}
  BY <1>1 DEF Clean
<1> QED
  BY <1>2 DEF Status, Compiles

\* A run of rustc without fixes.
LEMMA RustcOnlyKeeps ==
  ASSUME FixInv, NEW p \in Proxy, RustcOnly(p)
  PROVE  FixInv'
<1>1. PICK status \in {"ok", "err"} : status = Status(p)
  BY StatusTyped
<1> DEFINE r == [proc[p] EXCEPT !.first = status, !.last = status, !.at = "report"]
<1>2. proc[p].at = "rustc_only" /\ ~proc[p].waits /\ UNCHANGED <<lsvars, source, content, diag>>
  BY DEF RustcOnly, At, Step
<1>3. r \in ProcType
  BY ProcTypes, ProcTyped, Zenon DEF ProcType
<1>4. proc' = [proc EXCEPT ![p] = r]
  BY <1>1 DEF RustcOnly, Step
<1>5. Moves(p) /\ proc'[p] = r
  BY <1>3, <1>4, ProcTyped, ProcMoves, Zenon
<1>6. /\ proc'[p].at = "report" /\ proc'[p].waits = proc[p].waits /\ proc'[p].owed = proc[p].owed
      /\ proc'[p].original = proc[p].original /\ proc'[p].applied = proc[p].applied /\ proc'[p].last = status
  BY <1>5, ProcTyped DEF ProcType
<1> HIDE DEF r
<1>7. ~source.broken_code /\ Clean(source, p) /\ p \notin source.broken => status = "ok"
  BY <1>1, CleanStatus
<1>8. ~source.broken_code => CodeOf(p)'
  BY <1>2, <1>6, <1>7, ProcTyped DEF CodeOf, FilesOf, CleanOf, AloneOf, Failing, Clean, Alone
<1>9. sock[p] = "granted" /\ ~proc[p].owed
  BY <1>2 DEF FixInv, FixLockInv, PostInv
<1> QED
  BY <1>2, <1>5, <1>6, <1>8, <1>9, Going

\* The last run of rustc, which says whether the fixed code compiles.
LEMMA FinalRustcKeeps ==
  ASSUME FixInv, NEW p \in Proxy, FinalRustc(p)
  PROVE  FixInv'
<1>1. PICK status \in {"ok", "err"} : status = Status(p)
  BY StatusTyped
<1> DEFINE r == [proc[p] EXCEPT !.last = status, !.at = "report"]
<1>2. proc[p].at = "final" /\ ~proc[p].waits /\ UNCHANGED <<lsvars, source, content, diag>>
  BY DEF FinalRustc, At, Step
<1>3. r \in ProcType
  BY ProcTypes, ProcTyped, Zenon DEF ProcType
<1>4. proc' = [proc EXCEPT ![p] = r]
  BY <1>1 DEF FinalRustc, Step
<1>5. Moves(p) /\ proc'[p] = r
  BY <1>3, <1>4, ProcTyped, ProcMoves, Zenon
<1>6. /\ proc'[p].at = "report" /\ proc'[p].waits = proc[p].waits /\ proc'[p].owed = proc[p].owed
      /\ proc'[p].original = proc[p].original /\ proc'[p].applied = proc[p].applied /\ proc'[p].last = status
  BY <1>5, ProcTyped DEF ProcType
<1> HIDE DEF r
<1>7. ~source.broken_code /\ Clean(source, p) /\ p \notin source.broken => status = "ok"
  BY <1>1, CleanStatus
<1>8. ~source.broken_code => CodeOf(p)'
  BY <1>2, <1>6, <1>7, ProcTyped DEF CodeOf, FilesOf, CleanOf, AloneOf, Failing, Clean, Alone
<1>9. sock[p] = "granted" /\ ~proc[p].owed
  BY <1>2 DEF FixInv, FixLockInv, PostInv
<1> QED
  BY <1>2, <1>5, <1>6, <1>8, <1>9, Going

\* rustfix_and_fix: a run of rustc that gives the suggestions.
LEMMA RustfixKeeps ==
  ASSUME FixInv, NEW p \in Proxy, RustfixAndFix(p)
  PROVE  FixInv'
<1>1. PICK status \in {"ok", "err"} : status = Status(p)
  BY StatusTyped
<1>2. PICK first \in Result : first = IF proc[p].iteration = 0 THEN status ELSE proc[p].first
  BY ProcTyped, ProcTypes DEF ProcType
<1>3. PICK todo \in SUBSET File : /\ todo = IF status = "err" /\ ~source.broken_code THEN {}
                                            ELSE {f \in source.files[p] : source.lints[f] \ content[f] # {}}
                                  /\ todo \subseteq source.files[p]
  <2>1. PICK files : files = {f \in source.files[p] : source.lints[f] \ content[f] # {}}
    BY Zenon
  <2>2. files \subseteq source.files[p] /\ files \subseteq File
    BY <2>1, FilesTyped
  <2>3. PICK todo : todo = IF status = "err" /\ ~source.broken_code THEN {} ELSE files
    BY Zenon
  <2>4. todo \subseteq files
    BY <2>3
  <2> QED
    BY <2>1, <2>2, <2>3, <2>4
<1>4. PICK given \in SUBSET Lint : given = Suggestions(p)
  BY FilesTyped, Zenon DEF Suggestions
<1> DEFINE r == [proc[p] EXCEPT !.at = "fix", !.errors = {}, !.made_changes = FALSE, !.last = status,
                                !.first = first, !.suggestions = given, !.todo = todo]
<1>5. proc[p].at = "rustc" /\ ~proc[p].waits /\ UNCHANGED <<lsvars, source, content, diag>>
  BY DEF RustfixAndFix, At, Step
<1>6. r \in ProcType
  <2> DEFINE compiled == [proc[p] EXCEPT !.at = "fix", !.errors = {}, !.made_changes = FALSE, !.last = status]
  <2>1. compiled \in ProcType
    BY ProcTypes, ProcTyped, Zenon DEF ProcType
  <2>2. r = [compiled EXCEPT !.first = first, !.suggestions = given, !.todo = todo]
    OBVIOUS
  <2> HIDE DEF compiled
  <2> QED
    BY <2>1, <2>2, ZenonT(30) DEF ProcType
<1>7. proc' = [proc EXCEPT ![p] = r]
  BY <1>1, <1>2, <1>3, <1>4 DEF RustfixAndFix, Step
<1>8. Moves(p) /\ proc'[p] = r
  BY <1>6, <1>7, ProcTyped, ProcMoves, Zenon
<1>9. /\ proc'[p].at = "fix" /\ proc'[p].waits = proc[p].waits /\ proc'[p].owed = proc[p].owed
      /\ proc'[p].original = proc[p].original /\ proc'[p].applied = proc[p].applied /\ proc'[p].last = status
      /\ proc'[p].todo = todo
  BY <1>8, ProcTyped DEF ProcType
<1> HIDE DEF r
<1>10. ~source.broken_code /\ Clean(source, p) => status = IF p \in source.broken THEN "err" ELSE "ok"
  BY <1>1, CleanStatus
<1>11. ASSUME ~source.broken_code PROVE CodeOf(p)'
  <2>1. FilesOf(p)'
    BY <1>3, <1>5, <1>9, <1>11, ProcTyped DEF CodeOf, FilesOf, Failing
  <2>2. CleanOf(p)'
    BY <1>3, <1>5, <1>9, <1>10, <1>11, ProcTyped DEF CodeOf, CleanOf, Clean
  <2>3. AloneOf(p)'
    BY <1>5, <1>9, <1>11, ProcTyped DEF CodeOf, AloneOf, Failing, Alone
  <2> QED
    BY <2>1, <2>2, <2>3 DEF CodeOf
<1>12. sock[p] = "granted" /\ ~proc[p].owed
  BY <1>5 DEF FixInv, FixLockInv, PostInv
<1> QED
  BY <1>5, <1>8, <1>9, <1>11, <1>12, Going

\* The end of a round: another one, or the last run of rustc.
LEMMA EndRoundKeeps ==
  ASSUME FixInv, NEW p \in Proxy, EndRound(p)
  PROVE  FixInv'
<1>1. PICK at \in {"rustc", "final", "report"}, iteration \in Nat :
        proc' = [proc EXCEPT ![p] = [proc[p] EXCEPT !.iteration = iteration, !.at = at]]
  <2>1. PICK progress \in BOOLEAN : progress = (proc[p].errors # {} /\ proc[p].made_changes)
    BY Zenon
  <2>2. PICK iteration \in Nat : iteration = IF progress THEN proc[p].iteration + 1 ELSE proc[p].iteration
    BY ProcTyped DEF ProcType
  <2>3. PICK at \in {"rustc", "final", "report"} :
          at = IF progress /\ proc[p].iteration + 1 < MaxRetries THEN "rustc"
               ELSE IF proc[p].made_changes THEN "final" ELSE "report"
    OBVIOUS
  <2> QED
    BY <2>1, <2>2, <2>3, Zenon DEF EndRound, Step
<1> DEFINE r == [proc[p] EXCEPT !.iteration = iteration, !.at = at]
<1>2. proc[p].at = "fix" /\ ~proc[p].waits /\ UNCHANGED <<lsvars, source, content, diag>>
  BY DEF EndRound, At, Step
<1>3. r \in ProcType
  BY ProcTypes, ProcTyped, Zenon DEF ProcType
<1>4. Moves(p) /\ proc'[p] = r
  BY <1>1, <1>3, ProcTyped, ProcMoves, Zenon
<1>5. /\ proc'[p].at = at /\ proc'[p].waits = proc[p].waits /\ proc'[p].owed = proc[p].owed
      /\ proc'[p].original = proc[p].original /\ proc'[p].applied = proc[p].applied /\ proc'[p].last = proc[p].last
  BY <1>4, ProcTyped DEF ProcType
<1> HIDE DEF r
<1>6. ~source.broken_code => CodeOf(p)'
  BY <1>2, <1>5, ProcTyped DEF CodeOf, FilesOf, CleanOf, AloneOf, Failing, Clean, Alone
<1>7. sock[p] = "granted" /\ ~proc[p].owed
  BY <1>2 DEF FixInv, FixLockInv, PostInv
<1> QED
  BY <1>2, <1>4, <1>5, <1>6, <1>7, Going

\* A file is read, and its code kept for a revert.
LEMMA ReadFileKeeps ==
  ASSUME FixInv, NEW p \in Proxy, NEW f \in File, ReadFile(p, f)
  PROVE  FixInv'
<1> DEFINE old == proc[p].original
           new == [g \in DOMAIN old \union {f} |-> IF g \in DOMAIN old THEN old[g] ELSE content[f]]
           r == [proc[p] EXCEPT !.at = "write", !.file = f, !.todo = @ \ {f}, !.code = content[f], !.original = new]
<1>1. /\ proc[p].at = "fix" /\ ~proc[p].waits /\ f \in proc[p].todo
      /\ UNCHANGED <<lsvars, source, content, diag>> /\ proc' = [proc EXCEPT ![p] = r]
  BY DEF ReadFile, At, Step
<1>2. content[f] \in SUBSET Lint /\ proc[p] \in ProcType /\ old \in Originals
  BY ProcTyped DEF FxTypeOK, ProcType
<1>3. new \in Originals /\ DOMAIN new = DOMAIN old \union {f}
  <2>1. PICK D \in SUBSET File : old \in [D -> SUBSET Lint]
    BY <1>2 DEF Originals
  <2>2. new \in [D \union {f} -> SUBSET Lint] /\ D \union {f} \in SUBSET File
    BY <1>2, <2>1
  <2> QED
    BY <2>1, <2>2, Zenon DEF Originals
<1>4. \A g \in DOMAIN old : new[g] = old[g]
  OBVIOUS
<1>5. f \notin DOMAIN old => new[f] = content[f]
  OBVIOUS
<1> HIDE DEF new
<1>6. r \in ProcType
  BY ProcTypes, <1>2, <1>3, Zenon DEF ProcType
<1>7. Moves(p) /\ proc'[p] = r
  BY <1>1, <1>6, ProcTyped, ProcMoves, Zenon
<1>8. /\ proc'[p].at = "write" /\ proc'[p].waits = proc[p].waits /\ proc'[p].owed = proc[p].owed
      /\ proc'[p].original = new /\ proc'[p].applied = proc[p].applied /\ proc'[p].last = proc[p].last
      /\ proc'[p].file = f /\ proc'[p].code = content[f] /\ proc'[p].todo \subseteq proc[p].todo
  BY <1>2, <1>7 DEF ProcType
<1> HIDE DEF r
<1>9. ASSUME ~source.broken_code PROVE CodeOf(p)'
  <2>1. CodeOf(p)
    BY <1>9, ProcTyped
  <2>2. f \in source.files[p] /\ (Clean(source, p) => p \notin source.broken)
    BY <1>1, <2>1 DEF CodeOf, FilesOf, CleanOf
  <2>3. FilesOf(p)'
    BY <1>1, <1>3, <1>8, <2>1, <2>2 DEF CodeOf, FilesOf, Failing
  <2>4. CleanOf(p)'
    BY <1>1, <1>8, <2>1, <2>2 DEF CodeOf, CleanOf, Clean
  <2>5. ASSUME Alone(source, p)
        PROVE  /\ \A g \in source.files[p] \ DOMAIN new : content[g] = {}
               /\ \A g \in DOMAIN new : new[g] = {}
    BY <1>3, <1>4, <1>5, <2>1, <2>2, <2>5 DEF CodeOf, AloneOf
  <2>6. AloneOf(p)'
    BY <1>1, <1>8, <2>5 DEF AloneOf, Alone, Failing
  <2> QED
    BY <2>3, <2>4, <2>6 DEF CodeOf
<1>10. sock[p] = "granted" /\ ~proc[p].owed
  BY <1>1 DEF FixInv, FixLockInv, PostInv
<1> QED
  BY <1>1, <1>7, <1>8, <1>9, <1>10, Going

\* A file whose suggestions cannot be applied is left alone.
LEMMA ReplaceFailedKeeps ==
  ASSUME FixInv, NEW p \in Proxy, NEW f \in File, ReplaceFailed(p, f)
  PROVE  FixInv'
<1> DEFINE r == [proc[p] EXCEPT !.errors = @ \ {f}, !.waits = TRUE, !.owed = TRUE]
<1>1. /\ proc[p].at = "report" /\ ~proc[p].waits /\ UNCHANGED <<lsvars, source, content>>
      /\ diag' = [diag EXCEPT !.backlog = Append(@, p)]
  BY DEF ReplaceFailed, At, Post, Step
<1>2. r \in ProcType
  BY ProcTypes, ProcTyped, Zenon DEF ProcType
<1>3. proc' = [proc EXCEPT ![p] = r]
  BY ProcTyped DEF ReplaceFailed, Post, Step, ProcType
<1>4. Moves(p) /\ proc'[p] = r
  BY <1>2, <1>3, ProcTyped, ProcMoves, Zenon
<1>5. /\ proc'[p].at = "report" /\ proc'[p].waits /\ proc'[p].owed /\ proc'[p].original = proc[p].original
      /\ proc'[p].applied = proc[p].applied /\ proc'[p].last = proc[p].last
  BY <1>1, <1>4, ProcTyped DEF ProcType
<1> HIDE DEF r
<1>6. ~source.broken_code => CodeOf(p)'
  BY <1>1, <1>5, ProcTyped DEF CodeOf, FilesOf, CleanOf, AloneOf, Failing, Clean, Alone
<1>7. sock[p] = "granted"
  BY <1>1 DEF FixInv, FixLockInv
<1> QED
  BY <1>1, <1>4, <1>5, <1>6, <1>7, Going

\* The Fixed message of a file is posted.
LEMMA PostFixedKeeps ==
  ASSUME FixInv, NEW p \in Proxy, NEW f \in File, PostFixed(p, f)
  PROVE  FixInv'
<1> DEFINE r == [proc[p] EXCEPT !.todo = @ \ {f}, !.waits = TRUE, !.owed = TRUE]
<1>1. /\ proc[p].at = "success" /\ ~proc[p].waits /\ UNCHANGED <<lsvars, source, content>>
      /\ diag' = [diag EXCEPT !.backlog = Append(@, p)]
  BY DEF PostFixed, At, Post, Step
<1>2. r \in ProcType
  BY ProcTypes, ProcTyped, Zenon DEF ProcType
<1>3. proc' = [proc EXCEPT ![p] = r]
  BY ProcTyped DEF PostFixed, Post, Step, ProcType
<1>4. Moves(p) /\ proc'[p] = r
  BY <1>2, <1>3, ProcTyped, ProcMoves, Zenon
<1>5. /\ proc'[p].at = "success" /\ proc'[p].waits /\ proc'[p].owed /\ proc'[p].original = proc[p].original
      /\ proc'[p].applied = proc[p].applied /\ proc'[p].last = proc[p].last /\ proc'[p].todo \subseteq proc[p].todo
  BY <1>1, <1>4, ProcTyped DEF ProcType
<1> HIDE DEF r
<1>6. ~source.broken_code => CodeOf(p)'
  BY <1>1, <1>5, ProcTyped DEF CodeOf, FilesOf, CleanOf, AloneOf, Failing, Clean, Alone
<1> QED
  BY <1>1, <1>4, <1>5, <1>6, Going

\* The FixFailed message of a crate is posted.
LEMMA LogFailedKeeps ==
  ASSUME FixInv, NEW p \in Proxy, LogFailedFix(p)
  PROVE  FixInv'
<1> DEFINE r == [proc[p] EXCEPT !.at = "failed", !.waits = TRUE, !.owed = TRUE]
<1>1. /\ proc[p].at = "failure" /\ ~proc[p].waits /\ UNCHANGED <<lsvars, source, content>>
      /\ source.broken_code \/ proc[p].todo = {}
      /\ diag' = [diag EXCEPT !.backlog = Append(@, p)]
  BY DEF LogFailedFix, At, Post, Step
<1>2. r \in ProcType
  BY ProcTypes, ProcTyped, Zenon DEF ProcType
<1>3. proc' = [proc EXCEPT ![p] = r]
  BY ProcTyped DEF LogFailedFix, Post, Step, ProcType
<1>4. Moves(p) /\ proc'[p] = r
  BY <1>2, <1>3, ProcTyped, ProcMoves, Zenon
<1>5. /\ proc'[p].at = "failed" /\ proc'[p].waits /\ proc'[p].owed /\ proc'[p].original = proc[p].original
      /\ proc'[p].applied = proc[p].applied /\ proc'[p].last = proc[p].last
  BY <1>1, <1>4, ProcTyped DEF ProcType
<1> HIDE DEF r
<1>6. ASSUME ~source.broken_code PROVE CodeOf(p)'
  <2>1. CodeOf(p) /\ proc[p].todo = {}
    BY <1>1, <1>6, ProcTyped
  <2>2. FilesOf(p)' /\ CleanOf(p)'
    BY <1>1, <1>5, <2>1 DEF CodeOf, FilesOf, CleanOf, Failing, Clean
  <2>3. AloneOf(p)'
    BY <1>1, <1>5, <2>1 DEF CodeOf, AloneOf, Failing, Alone
  <2> QED
    BY <2>2, <2>3 DEF CodeOf
<1> QED
  BY <1>1, <1>4, <1>5, <1>6, Going

\* The process of a crate exits.
LEMMA ExitKeeps ==
  ASSUME FixInv, NEW p \in Proxy, ExitWith(p)
  PROVE  FixInv'
<1>1. PICK exit \in Result : exit = IF At(p, "failed") THEN proc[p].first ELSE proc[p].last
  BY ProcTyped DEF ProcType
<1> DEFINE r == [proc[p] EXCEPT !.exit = exit, !.at = "exited"]
<1>2. /\ ~proc[p].waits /\ UNCHANGED <<lsvars, source, content, diag>>
      /\ \/ proc[p].at \in {"success", "failed"}
         \/ proc[p].at = "failure" /\ proc[p].original = << >>
  BY DEF ExitWith, At, Step
<1>3. r \in ProcType
  BY ProcTypes, ProcTyped, Zenon DEF ProcType
<1>4. proc' = [proc EXCEPT ![p] = r]
  BY <1>1 DEF ExitWith, Step
<1>5. Moves(p) /\ proc'[p] = r
  BY <1>3, <1>4, ProcTyped, ProcMoves, Zenon
<1>6. /\ proc'[p].at = "exited" /\ proc'[p].waits = proc[p].waits /\ proc'[p].owed = proc[p].owed
      /\ proc'[p].original = proc[p].original /\ proc'[p].applied = proc[p].applied /\ proc'[p].last = proc[p].last
  BY <1>5, ProcTyped DEF ProcType
<1> HIDE DEF r
<1>7. proc[p].at = "failure" => DOMAIN proc[p].original = {}
  <2>1. DOMAIN << >> = {}
    OBVIOUS
  <2> QED
    BY <1>2, <2>1
<1>8. ASSUME ~source.broken_code PROVE CodeOf(p)'
  <2>1. CodeOf(p)
    BY <1>8, ProcTyped
  <2>2. FilesOf(p)' /\ CleanOf(p)'
    BY <1>2, <1>6, <2>1 DEF CodeOf, FilesOf, CleanOf, Failing, Clean
  <2>3. AloneOf(p)'
    BY <1>2, <1>6, <1>7, <2>1 DEF CodeOf, AloneOf, FilesOf, Failing, Alone
  <2> QED
    BY <2>2, <2>3 DEF CodeOf
<1>9. ~proc[p].owed
  BY <1>2 DEF FixInv, PostInv
<1> QED
  BY <1>2, <1>5, <1>6, <1>8, <1>9, Going

\* rustfix applies suggestions that it was given.
LEMMA AcceptedGiven ==
  ASSUME NEW given, NEW accepted \in Accepted(given)
  PROVE  accepted \subseteq given
BY DEF Accepted

\* A process changes one of its files, as no other one does.
LEMMA CodeWritten ==
  ASSUME FixInv, ~source.broken_code, NEW p \in Proxy, NEW f \in source.files[p],
         UNCHANGED source, Moves(p), NEW code, code \subseteq source.lints[f],
         content' = [content EXCEPT ![f] = code], CodeOf(p)',
         \A q \in Proxy \ {p} : f \in source.files[q] => content[f] \subseteq code /\ proc[q].at # "write"
  PROVE  ContentInv' /\ \A q \in Proxy : CodeOf(q)'
<1>1. f \in File /\ source.files[p] \subseteq File /\ content \in [File -> SUBSET Lint]
  BY FilesTyped DEF FixInv, FxTypeOK
<1>2. content'[f] = code /\ \A g \in File \ {f} : content'[g] = content[g]
  BY <1>1
<1>3. ContentInv'
  BY <1>2 DEF FixInv, ContentInv
<1>4. ASSUME NEW q \in Proxy \ {p} PROVE CodeOf(q)'
  <2>1. proc'[q] = proc[q] /\ CodeOf(q) /\ source.files[q] \subseteq File
    BY FilesTyped DEF Moves, FixInv
  <2>2. \A g \in source.files[q] : content[g] \subseteq content'[g]
    BY <1>2, <2>1
  <2>3. proc[q].at = "write" => proc[q].file \in source.files[q] /\ content'[proc[q].file] = content[proc[q].file]
    BY <1>2, <2>1, SMTT(30) DEF CodeOf, FilesOf
  <2>4. FilesOf(q)'
    BY <2>1, <2>2, <2>3 DEF CodeOf, FilesOf, Failing
  <2>5. CleanOf(q)'
    BY <2>1 DEF CodeOf, CleanOf, Clean
  <2>6. Alone(source, q) => \A g \in source.files[q] : content'[g] = content[g]
    BY <1>2, <2>1, SMTT(30) DEF Alone
  <2>7. AloneOf(q)'
    BY <2>1, <2>6, SMTT(30) DEF CodeOf, FilesOf, AloneOf, Alone, Failing
  <2> QED
    BY <2>4, <2>5, <2>7 DEF CodeOf
<1> QED
  BY <1>3, <1>4

\* The fixed code of a file is written. Another process that has the file is not about to
\* write it, for it has no lock.
LEMMA WriteFileKeeps ==
  ASSUME FixInv, NEW p \in Proxy, WriteFile(p)
  PROVE  FixInv'
<1> DEFINE f == proc[p].file
           given == proc[p].suggestions \intersect source.lints[f]
<1>1. proc[p].at = "write" /\ ~proc[p].waits /\ UNCHANGED <<lsvars, source, diag>>
  BY DEF WriteFile, At, Step
<1>2. proc[p] \in ProcType /\ FxTypeOK
  BY ProcTyped
<1>3. PICK accepted \in Accepted(given) :
        /\ content' = IF accepted = {} THEN content ELSE [content EXCEPT ![f] = proc[p].code \union accepted]
        /\ proc' = [proc EXCEPT ![p] = [proc[p] EXCEPT
             !.at = "fix", !.applied = @ \union accepted, !.made_changes = @ \/ accepted # {},
             !.errors = IF accepted = given THEN @ ELSE @ \union {f}]]
  BY Zenon DEF WriteFile, Step
<1>4. accepted \subseteq given
  BY AcceptedGiven
<1>5. PICK changes \in BOOLEAN : changes = (proc[p].made_changes \/ accepted # {})
  BY Zenon
<1>6. PICK errors \in SUBSET File : errors = IF accepted = given THEN proc[p].errors ELSE proc[p].errors \union {f}
  <2>1. f \in File /\ proc[p].errors \subseteq File
    BY <1>1, <1>2 DEF ProcType, FixInv, FixLockInv
  <2> QED
    BY <2>1, Zenon
<1>7. PICK all \in SUBSET Lint : all = proc[p].applied \union accepted
  BY <1>2, <1>4, Zenon DEF ProcType
<1> DEFINE r == [proc[p] EXCEPT !.at = "fix", !.applied = all, !.made_changes = changes, !.errors = errors]
<1>8. r \in ProcType
  BY ProcTypes, <1>2, Zenon DEF ProcType
<1>9. proc' = [proc EXCEPT ![p] = r]
  BY <1>3, <1>5, <1>6, <1>7
<1>10. Moves(p) /\ proc'[p] = r
  BY <1>2, <1>8, <1>9, ProcMoves, Zenon
<1>11. /\ proc'[p].at = "fix" /\ proc'[p].waits = proc[p].waits /\ proc'[p].owed = proc[p].owed
       /\ proc'[p].original = proc[p].original /\ proc'[p].applied = proc[p].applied \union accepted
       /\ proc'[p].last = proc[p].last /\ proc'[p].todo = proc[p].todo
  BY <1>2, <1>7, <1>10 DEF ProcType
<1> HIDE DEF r
<1>12. content' \in [File -> SUBSET Lint]
  <2>1. proc[p].code \union accepted \in SUBSET Lint
    BY <1>2, <1>4 DEF ProcType
  <2> QED
    BY <1>2, <1>3, <2>1, Zenon DEF FxTypeOK
<1>13. sock[p] = "granted" /\ ~proc[p].owed
  BY <1>1 DEF FixInv, FixLockInv, PostInv
<1>14. ASSUME ~source.broken_code PROVE ContentInv' /\ \A q \in Proxy : CodeOf(q)'
  <2>1. CodeOf(p)
    BY <1>14, ProcTyped
  <2>2. f \in DOMAIN proc[p].original /\ f \in source.files[p] /\ f \in File /\ proc[p].code = content[f]
    BY <1>1, <2>1, FilesTyped DEF CodeOf, FilesOf
  <2>3. content' = [content EXCEPT ![f] = content[f] \union accepted]
    BY <1>2, <1>3, <2>2, Zenon DEF FxTypeOK
  <2>4. content[f] \union accepted \subseteq source.lints[f]
    BY <1>4, <1>14, <2>2 DEF FixInv, ContentInv
  <2>5. content'[f] = content[f] \union accepted /\ \A g \in File \ {f} : content'[g] = content[g]
    BY <1>2, <2>2, <2>3 DEF FxTypeOK
  <2>6. \A g \in source.files[p] \ {f} : accepted \intersect source.lints[g] = {}
    <3>1. \A g \in File \ {f} : source.lints[f] \intersect source.lints[g] = {}
      BY <2>2, ProcTyped, SourcesTyped
    <3> QED
      BY <1>4, <3>1, FilesTyped
  <2>7. \A g \in source.files[p] : proc[p].applied \intersect source.lints[g] \subseteq content[g]
    BY <1>1, <2>1 DEF CodeOf, FilesOf, Failing
  <2>8. \A g \in source.files[p] : proc'[p].applied \intersect source.lints[g] \subseteq content'[g]
    BY <1>11, <2>5, <2>6, <2>7, FilesTyped, SMTT(30)
  <2>9. FilesOf(p)'
    BY <1>1, <1>11, <2>1, <2>8, SMTT(30) DEF CodeOf, FilesOf, Failing
  <2>10. CleanOf(p)'
    BY <1>1, <1>11, <2>1, SMTT(30) DEF CodeOf, CleanOf, Clean
  <2>11. AloneOf(p)'
    BY <1>1, <1>11, <2>1, <2>2, <2>5, FilesTyped DEF CodeOf, AloneOf, Alone, Failing
  <2>12. \A q \in Proxy \ {p} : proc[q].at # "write"
    BY <1>13 DEF FixInv, FixLockInv
  <2>13. CodeOf(p)'
    BY <2>9, <2>10, <2>11 DEF CodeOf
  <2>14. PICK code : code = content[f] \union accepted
    BY Zenon
  <2>15. content[f] \subseteq code /\ code \subseteq source.lints[f] /\ content' = [content EXCEPT ![f] = code]
    BY <2>3, <2>4, <2>14
  <2> QED
    BY <1>1, <1>10, <1>14, <2>2, <2>12, <2>13, <2>15, CodeWritten, Zenon
<1>15. FxTypeOK'
  BY <1>1, <1>2, <1>10, <1>12 DEF FxTypeOK, Moves, lsvars
<1>16. FixLockInv'
  BY <1>1, <1>10, <1>11, <1>13, LockKept DEF FixInv
<1>17. PostInv'
  BY <1>1, <1>2, <1>10, <1>11, <1>13, NoPost DEF FixInv
<1> QED
  BY <1>1, <1>14, <1>15, <1>16, <1>17 DEF FixInv

\* A crate that a suggestion can break shares no file with another one.
FailsAlone == \A s \in Sources, p \in Proxy : Clean(s, p) \/ Alone(s, p)

\* A file is reverted: its crate has the file alone, or no suggestion for the file was bad
\* and there is nothing to revert.
LEMMA RevertKeeps ==
  ASSUME FixInv, FailsAlone, NEW p \in Proxy, NEW f \in File, RevertFile(p, f)
  PROVE  FixInv'
<1> DEFINE r == [proc[p] EXCEPT !.todo = @ \ {f}]
<1>1. /\ proc[p].at = "failure" /\ ~proc[p].waits /\ ~source.broken_code /\ f \in proc[p].todo
      /\ content' = [content EXCEPT ![f] = proc[p].original[f]]
      /\ UNCHANGED <<lsvars, source, diag>> /\ proc' = [proc EXCEPT ![p] = r]
  BY DEF RevertFile, At, Step
<1>2. proc[p] \in ProcType /\ FxTypeOK /\ CodeOf(p) /\ source \in Sources
  BY <1>1, ProcTyped
<1>3. r \in ProcType
  BY ProcTypes, <1>2 DEF ProcType
<1>4. Moves(p) /\ proc'[p] = r
  BY <1>1, <1>2, <1>3, ProcMoves, Zenon
<1>5. /\ proc'[p].at = "failure" /\ proc'[p].waits = proc[p].waits /\ proc'[p].owed = proc[p].owed
      /\ proc'[p].original = proc[p].original /\ proc'[p].applied = proc[p].applied /\ proc'[p].last = proc[p].last
      /\ proc'[p].todo = proc[p].todo \ {f}
  BY <1>1, <1>2, <1>4 DEF ProcType
<1> HIDE DEF r
<1>6. f \in DOMAIN proc[p].original /\ f \in source.files[p]
  BY <1>1, <1>2 DEF CodeOf, FilesOf
<1>7. Alone(source, p)
  <2>1. ~Clean(source, p)
    <3>1. proc[p].last = "err" \/ proc[p].last = "none"
      BY <1>1, <1>2 DEF CodeOf, FilesOf, ProcType, Result
    <3> QED
      BY <1>1, <1>2, <1>6, <3>1 DEF CodeOf, CleanOf
  <2> QED
    BY <1>2, <2>1 DEF FailsAlone
<1>8. content' = [content EXCEPT ![f] = {}]
  BY <1>1, <1>2, <1>6, <1>7, Zenon DEF CodeOf, AloneOf
<1>9. content'[f] = {} /\ (\A g \in File \ {f} : content'[g] = content[g]) /\ content' \in [File -> SUBSET Lint]
  BY <1>2, <1>8 DEF FxTypeOK
<1>10. CodeOf(p)'
  <2>1. FilesOf(p)' /\ CleanOf(p)'
    BY <1>1, <1>2, <1>5, SMTT(30) DEF CodeOf, FilesOf, CleanOf, Failing, Clean
  <2>2. AloneOf(p)'
    BY <1>1, <1>2, <1>5, <1>9, FilesTyped DEF CodeOf, FilesOf, AloneOf, Alone, Failing
  <2> QED
    BY <2>1, <2>2, SMTT(30) DEF CodeOf
<1>11. \A q \in Proxy \ {p} : f \notin source.files[q]
  BY <1>6, <1>7, Zenon DEF Alone
<1>12. ContentInv' /\ \A q \in Proxy : CodeOf(q)'
  BY <1>1, <1>4, <1>6, <1>8, <1>10, <1>11, CodeWritten, Zenon
<1>13. FxTypeOK'
  BY <1>1, <1>2, <1>4, <1>9 DEF FxTypeOK, Moves, lsvars
<1>14. FixLockInv'
  BY <1>1, <1>4, <1>5, LockKept DEF FixInv
<1>15. ~proc[p].owed
  BY <1>1 DEF FixInv, PostInv
<1>16. PostInv'
  BY <1>1, <1>2, <1>4, <1>5, <1>15, NoPost DEF FixInv
<1> QED
  BY <1>12, <1>13, <1>14, <1>16 DEF FixInv

\* A process gives the lock up.
LEMMA Closing ==
  ASSUME FixInv, NEW p \in Proxy, Moves(p), Close(p), proc[p].at # "exited",
         proc'[p].at \notin {"rustc_only", "rustc", "fix", "write", "final", "report"}
  PROVE  FixLockInv' /\ sock' \in [Proxy -> {"none", "connected", "named", "granted", "nameless", "closed"}]
<1>1. PICK s \in {"nameless", "closed"} : sock' = [sock EXCEPT ![p] = s]
  BY Zenon DEF Close
<1>2. sock' \in [Proxy -> {"none", "connected", "named", "granted", "nameless", "closed"}]
      /\ sock'[p] # "granted" /\ \A q \in Proxy \ {p} : sock'[q] = sock[q]
  BY <1>1 DEF FixInv, FxTypeOK
<1>3. holder' = holder
  BY DEF Close
<1> QED
  BY <1>2, <1>3 DEF FixInv, FixLockInv, Moves

\* The lock is given back.
LEMMA UnlockKeeps ==
  ASSUME FixInv, NEW p \in Proxy, Unlock(p)
  PROVE  FixInv'
<1>1. PICK at \in {"success", "failure"} : at = IF proc[p].last = "ok" THEN "success" ELSE "failure"
  OBVIOUS
<1> DEFINE r == [proc[p] EXCEPT !.at = at, !.todo = DOMAIN proc[p].original]
<1>2. proc[p].at = "report" /\ ~proc[p].waits /\ Close(p) /\ UNCHANGED <<source, content, diag>>
  BY DEF Unlock, At, Step
<1>3. proc[p] \in ProcType /\ FxTypeOK
  BY ProcTyped
<1>4. DOMAIN proc[p].original \in SUBSET File
  <2>1. PICK D \in SUBSET File : proc[p].original \in [D -> SUBSET Lint]
    BY <1>3 DEF ProcType, Originals
  <2> QED
    BY <2>1
<1>5. r \in ProcType
  BY ProcTypes, <1>3, <1>4, Zenon DEF ProcType
<1>6. proc' = [proc EXCEPT ![p] = r]
  BY <1>1 DEF Unlock, Step
<1>7. Moves(p) /\ proc'[p] = r
  BY <1>3, <1>5, <1>6, ProcMoves, Zenon
<1>8. /\ proc'[p].at = at /\ proc'[p].waits = proc[p].waits /\ proc'[p].owed = proc[p].owed
      /\ proc'[p].original = proc[p].original /\ proc'[p].applied = proc[p].applied /\ proc'[p].last = proc[p].last
      /\ proc'[p].todo = DOMAIN proc[p].original
  BY <1>3, <1>7 DEF ProcType
<1> HIDE DEF r
<1>9. ASSUME ~source.broken_code PROVE CodeOf(p)'
  <2>1. CodeOf(p)
    BY <1>9, ProcTyped, SMTT(30)
  <2>2. FilesOf(p)'
    BY <1>1, <1>2, <1>8, <2>1, SMTT(30) DEF CodeOf, FilesOf, Failing
  <2>3. CleanOf(p)'
    BY <1>2, <1>8, <2>1 DEF CodeOf, CleanOf, Clean
  <2>4. AloneOf(p)'
    BY <1>2, <1>8, <2>1 DEF CodeOf, AloneOf, Alone, Failing
  <2> QED
    BY <2>2, <2>3, <2>4 DEF CodeOf
<1>10. ~source'.broken_code => ContentInv' /\ \A q \in Proxy : CodeOf(q)'
  BY <1>2, <1>7, <1>9, CodeKept
<1>11. FixLockInv' /\ sock' \in [Proxy -> {"none", "connected", "named", "granted", "nameless", "closed"}]
  BY <1>1, <1>2, <1>7, <1>8, Closing
<1>12. FxTypeOK'
  BY <1>2, <1>3, <1>7, <1>11 DEF FxTypeOK, Moves
<1>13. ~proc[p].owed
  BY <1>2 DEF FixInv, PostInv
<1>14. PostInv'
  BY <1>2, <1>3, <1>7, <1>8, <1>13, NoPost DEF FixInv
<1> QED
  BY <1>10, <1>11, <1>12, <1>14 DEF FixInv

\* A process dies, wherever it is.
LEMMA DieKeeps ==
  ASSUME FixInv, NEW p \in Proxy, Die(p)
  PROVE  FixInv'
<1> DEFINE r == [proc[p] EXCEPT !.at = "dead", !.waits = FALSE, !.owed = FALSE]
<1>1. proc[p].at # "exited" /\ Close(p) /\ UNCHANGED <<source, content, diag>>
  BY DEF Die, Over
<1>2. proc[p] \in ProcType /\ FxTypeOK
  BY ProcTyped
<1>3. r \in ProcType
  BY ProcTypes, <1>2, Zenon DEF ProcType
<1>4. proc' = [proc EXCEPT ![p] = r]
  BY <1>2, Zenon DEF Die, FxTypeOK
<1>5. Moves(p) /\ proc'[p] = r
  BY <1>2, <1>3, <1>4, ProcMoves, Zenon
<1>6. /\ proc'[p].at = "dead" /\ ~proc'[p].waits /\ ~proc'[p].owed
      /\ proc'[p].original = proc[p].original /\ proc'[p].applied = proc[p].applied /\ proc'[p].last = proc[p].last
  BY <1>2, <1>5, SMTT(30) DEF ProcType
<1> HIDE DEF r
<1>7. ~source.broken_code => CodeOf(p)'
  BY <1>1, <1>6, ProcTyped DEF CodeOf, FilesOf, CleanOf, AloneOf, Failing, Clean, Alone
<1>8. ~source'.broken_code => ContentInv' /\ \A q \in Proxy : CodeOf(q)'
  BY <1>1, <1>5, <1>7, CodeKept
<1>9. FixLockInv' /\ sock' \in [Proxy -> {"none", "connected", "named", "granted", "nameless", "closed"}]
  BY <1>1, <1>5, <1>6, Closing
<1>10. FxTypeOK'
  BY <1>1, <1>2, <1>5, <1>9 DEF FxTypeOK, Moves
<1>11. PostInv'
  <2>1. diag.backlog \in Seq(Proxy)
    BY <1>2 DEF FxTypeOK
  <2>2. \A i \in 1 .. Len(diag.backlog) : diag.backlog[i] \in Proxy
    BY <2>1
  <2>3. PostInv /\ \A q \in Proxy \ {p} : proc'[q] = proc[q]
    BY <1>5 DEF FixInv, Moves
  <2>4. \A q \in Proxy : /\ proc'[q].owed => proc'[q].waits
                         /\ proc'[q].at = "exited" => ~proc'[q].waits
                         /\ diag.client = q => ~proc'[q].owed /\ (proc'[q].waits \/ proc'[q].at = "dead")
    BY <1>6, <2>3 DEF PostInv
  <2>5. \A i \in 1 .. Len(diag.backlog) :
          proc'[diag.backlog[i]].at = "dead" \/ (proc'[diag.backlog[i]].waits /\ proc'[diag.backlog[i]].owed)
    BY <1>6, <2>2, <2>3 DEF PostInv
  <2>6. \A i, j \in 1 .. Len(diag.backlog) :
          i # j /\ diag.backlog[i] = diag.backlog[j] => proc'[diag.backlog[i]].at = "dead"
    BY <1>6, <2>2, <2>3 DEF PostInv
  <2> QED
    BY <1>1, <2>4, <2>5, <2>6 DEF PostInv
<1> QED
  BY <1>8, <1>9, <1>10, <1>11 DEF FixInv

\* The diagnostic server hands a message over, or ends a connection.
LEMMA CodeSame ==
  ASSUME FixInv, UNCHANGED <<source, content>>,
         \A q \in Proxy : /\ proc'[q].at = proc[q].at /\ proc'[q].todo = proc[q].todo /\ proc'[q].file = proc[q].file
                          /\ proc'[q].code = proc[q].code /\ proc'[q].original = proc[q].original
                          /\ proc'[q].last = proc[q].last /\ proc'[q].applied = proc[q].applied
  PROVE  ~source'.broken_code => ContentInv' /\ \A q \in Proxy : CodeOf(q)'
<1>1. ContentInv => ContentInv'
  BY DEF ContentInv
<1>2. ASSUME NEW q \in Proxy, CodeOf(q) PROVE CodeOf(q)'
  <2>1. FilesOf(q)' /\ CleanOf(q)'
    BY <1>2 DEF CodeOf, FilesOf, CleanOf, Failing, Clean
  <2>2. AloneOf(q)'
    BY <1>2 DEF CodeOf, AloneOf, Failing, Alone
  <2> QED
    BY <2>1, <2>2, SMTT(30) DEF CodeOf
<1> QED
  BY <1>1, <1>2 DEF FixInv

\* The diagnostic server reads a message.
LEMMA MessageKeeps ==
  ASSUME FixInv, OnMessage
  PROVE  FixInv'
<1> DEFINE b == diag.backlog
           p == Head(b)
<1>1. /\ diag.client = stop /\ b # << >> /\ diag' = [backlog |-> Tail(b), client |-> p]
      /\ proc' = [proc EXCEPT ![p].owed = FALSE] /\ UNCHANGED <<lsvars, source, content>>
  BY DEF OnMessage
<1>2. FxTypeOK /\ PostInv /\ FixLockInv /\ b \in Seq(Proxy)
  BY DEF FixInv, FxTypeOK
<1>3. p \in Proxy /\ p = b[1] /\ Len(b) \in Nat \ {0} /\ Tail(b) \in Seq(Proxy) /\ Len(Tail(b)) = Len(b) - 1
      /\ \A i \in 1 .. Len(b) - 1 : Tail(b)[i] = b[i + 1]
  BY <1>1, <1>2
<1>4. proc[p] \in ProcType
  BY <1>2, <1>3 DEF FxTypeOK
<1> DEFINE r == [proc[p] EXCEPT !.owed = FALSE]
<1>5. r \in ProcType /\ proc' = [proc EXCEPT ![p] = r]
  BY <1>1, <1>2, <1>3, <1>4, Zenon DEF ProcType, FxTypeOK
<1>6. Moves(p) /\ proc'[p] = r
  BY <1>2, <1>3, <1>5, ProcMoves, Zenon
<1>7. ~r.owed /\ r.waits = proc[p].waits /\ r.at = proc[p].at /\ r.todo = proc[p].todo /\ r.file = proc[p].file
      /\ r.code = proc[p].code /\ r.original = proc[p].original /\ r.last = proc[p].last /\ r.applied = proc[p].applied
  BY <1>4 DEF ProcType
<1> HIDE DEF r, p, b
<1>8. FxTypeOK'
  BY <1>1, <1>2, <1>3, <1>6 DEF FxTypeOK, Moves, lsvars
<1>9. FixLockInv'
  BY <1>1, <1>2, <1>6, <1>7, <1>3 DEF FixLockInv, Moves, lsvars
<1>10. PostInv'
  <2>1. \A i \in 1 .. Len(b) : b[i] \in Proxy /\ (b[i] = p /\ i # 1 => proc[p].at = "dead")
    BY <1>2, <1>3 DEF PostInv, b
  <2>2. proc[p].waits \/ proc[p].at = "dead"
    BY <1>2, <1>3, SMTT(30) DEF PostInv, b
  <2>3. \A q \in Proxy : /\ proc'[q].owed => proc'[q].waits
                         /\ proc'[q].at = "exited" => ~proc'[q].waits
                         /\ p = q => ~proc'[q].owed /\ (proc'[q].waits \/ proc'[q].at = "dead")
    BY <1>2, <1>3, <1>6, <1>7, <2>2, SMTT(30) DEF PostInv, Moves
  <2>4. \A i \in 1 .. Len(Tail(b)) :
          proc'[Tail(b)[i]].at = "dead" \/ (proc'[Tail(b)[i]].waits /\ proc'[Tail(b)[i]].owed)
    BY <1>2, <1>3, <1>6, <1>7, <2>1, SMTT(30) DEF PostInv, Moves, b
  <2>5. ASSUME NEW i \in 1 .. Len(Tail(b)), NEW j \in 1 .. Len(Tail(b)), i # j, Tail(b)[i] = Tail(b)[j]
        PROVE  proc'[Tail(b)[i]].at = "dead"
    <3>1. /\ i + 1 \in 1 .. Len(b) /\ j + 1 \in 1 .. Len(b) /\ i + 1 # j + 1
          /\ Tail(b)[i] = b[i + 1] /\ Tail(b)[j] = b[j + 1]
      BY <1>3, <2>5
    <3>2. proc[b[i + 1]].at = "dead"
      BY <1>2, <2>5, <3>1 DEF PostInv, b
    <3>3. proc'[b[i + 1]].at = proc[b[i + 1]].at
      BY <1>6, <1>7, <2>1, <3>1 DEF Moves
    <3> QED
      BY <3>1, <3>2, <3>3
  <2> QED
    BY <1>1, <2>3, <2>4, <2>5 DEF PostInv
<1>11. ~source'.broken_code => ContentInv' /\ \A q \in Proxy : CodeOf(q)'
  BY <1>1, <1>3, <1>6, <1>7, CodeSame DEF Moves
<1> QED
  BY <1>8, <1>9, <1>10, <1>11 DEF FixInv

\* The diagnostic server closes a connection.
LEMMA DropKeeps ==
  ASSUME FixInv, DropClient
  PROVE  FixInv'
<1> DEFINE p == diag.client
<1>1. /\ p # stop /\ diag' = [diag EXCEPT !.client = stop]
      /\ proc' = [proc EXCEPT ![p].waits = FALSE] /\ UNCHANGED <<lsvars, source, content>>
  BY DEF DropClient
<1>2. FxTypeOK /\ PostInv /\ FixLockInv /\ diag.backlog \in Seq(Proxy) /\ p \in Proxy
  BY <1>1 DEF FixInv, FxTypeOK
<1>3. proc[p] \in ProcType
  BY <1>2 DEF FxTypeOK
<1> DEFINE r == [proc[p] EXCEPT !.waits = FALSE]
<1>4. r \in ProcType /\ proc' = [proc EXCEPT ![p] = r]
  BY <1>1, <1>2, <1>3, Zenon DEF ProcType, FxTypeOK
<1>5. Moves(p) /\ proc'[p] = r
  BY <1>2, <1>4, ProcMoves, ZenonT(30)
<1>6. ~r.waits /\ r.owed = proc[p].owed /\ r.at = proc[p].at /\ r.todo = proc[p].todo /\ r.file = proc[p].file
      /\ r.code = proc[p].code /\ r.original = proc[p].original /\ r.last = proc[p].last /\ r.applied = proc[p].applied
  BY <1>3 DEF ProcType
<1>7. diag' \in [backlog : Seq(Proxy), client : Proxy \union {stop}] /\ diag'.backlog = diag.backlog /\ diag'.client = stop
  BY <1>1, <1>2 DEF FxTypeOK
<1> HIDE DEF r
<1>8. FxTypeOK'
  BY <1>1, <1>2, <1>5, <1>7 DEF FxTypeOK, Moves, lsvars
<1>9. FixLockInv'
  BY <1>1, <1>2, <1>5, <1>6 DEF FixLockInv, Moves, lsvars
<1>10. PostInv'
  <2>1. ~proc[p].owed /\ \A i \in 1 .. Len(diag.backlog) : diag.backlog[i] \in Proxy
    BY <1>2, SMTT(30) DEF PostInv
  <2>2. \A q \in Proxy : /\ proc'[q].owed => proc'[q].waits
                         /\ proc'[q].at = "exited" => ~proc'[q].waits
    BY <1>2, <1>5, <1>6, <2>1 DEF PostInv, Moves
  <2>3. \A i \in 1 .. Len(diag.backlog) :
          proc'[diag.backlog[i]].at = "dead" \/ (proc'[diag.backlog[i]].waits /\ proc'[diag.backlog[i]].owed)
    BY <1>2, <1>5, <1>6, <2>1 DEF PostInv, Moves
  <2>4. \A i, j \in 1 .. Len(diag.backlog) :
          i # j /\ diag.backlog[i] = diag.backlog[j] => proc'[diag.backlog[i]].at = "dead"
    BY <1>2, <1>5, <1>6, <2>1 DEF PostInv, Moves
  <2> QED
    BY <1>7, <2>2, <2>3, <2>4, StopApart DEF PostInv
<1>11. ~source'.broken_code => ContentInv' /\ \A q \in Proxy : CodeOf(q)'
  BY <1>1, <1>2, <1>5, <1>6, CodeSame DEF Moves
<1> QED
  BY <1>8, <1>9, <1>10, <1>11 DEF FixInv

\* The lock changes hands, the rest stays.
LEMMA LockMoves ==
  ASSUME FixInv, UNCHANGED <<source, content, proc, diag>>,
         LockStep \/ FixReturns \/ \E p \in Proxy : AskLock(p)
  PROVE  FixInv'
<1>1. PostInv'
  BY DEF FixInv, PostInv
<1>2. ~source'.broken_code => ContentInv' /\ \A q \in Proxy : CodeOf(q)'
  BY CodeSame
<1>3. FxTypeOK /\ FixLockInv
  BY SMTT(30) DEF FixInv
<1>4. CASE UNCHANGED <<sock, holder>>
  BY <1>1, <1>2, <1>3, <1>4, SMTT(30) DEF FixInv, FxTypeOK, FixLockInv
<1>5. CASE UNCHANGED sock /\ \A p \in Proxy : sock[p] # "granted"
  BY <1>1, <1>2, <1>3, <1>5 DEF FixInv, FxTypeOK, FixLockInv
<1>6. ASSUME NEW p \in Proxy, UNCHANGED holder, sock[p] # "granted",
             NEW s \in {"connected", "named", "granted"}, sock' = [sock EXCEPT ![p] = s], s = "granted" => holder = p
      PROVE  FixInv'
  <2>1. sock' \in [Proxy -> {"none", "connected", "named", "granted", "nameless", "closed"}]
        /\ sock'[p] = s /\ \A q \in Proxy \ {p} : sock'[q] = sock[q]
    BY <1>3, <1>6 DEF FxTypeOK
  <2>2. FixLockInv' /\ FxTypeOK'
    BY <1>3, <1>6, <2>1 DEF FixLockInv, FxTypeOK
  <2> QED
    BY <1>1, <1>2, <2>2 DEF FixInv
<1>7. CASE Accept \/ ReadLine \/ JoinThreads \/ FixReturns
  BY <1>4, <1>7 DEF Accept, ReadLine, JoinThreads, FixReturns, StopServer
<1>8. CASE NextClient
  BY <1>3, <1>4, <1>5, <1>8, StopApart DEF NextClient, FixLockInv
<1>9. CASE ReadToEnd
  BY <1>3, <1>5, <1>9 DEF ReadToEnd, FixLockInv
<1>10. CASE GrantLock
  <2>1. CASE holder \in Proxy
    BY <1>6, <1>10, <2>1, Zenon DEF GrantLock
  <2>2. CASE holder \notin Proxy
    <3>1. UNCHANGED <<sock, holder>>
      BY <1>3, <1>10, <2>2 DEF GrantLock, FxTypeOK
    <3> QED
      BY <1>4, <3>1
  <2> QED
    BY <2>1, <2>2
<1>11. ASSUME NEW p \in Proxy, AskLock(p) PROVE FixInv'
  BY <1>6, <1>11 DEF AskLock, Connect, SendName
<1> QED
  BY <1>7, <1>8, <1>9, <1>10, <1>11, SMTT(30) DEF LockStep, ServerStep

\* The invariant holds at the start.
LEMMA FixBegins == FxInit => FixInv
<1> SUFFICES ASSUME FxInit PROVE FixInv
  OBVIOUS
<1>1. /\ sock = [p \in Proxy |-> "none"] /\ source \in Sources /\ content = [f \in File |-> {}]
      /\ proc = [p \in Proxy |-> Started] /\ diag = [backlog |-> << >>, client |-> stop]
  BY SMTT(30) DEF FxInit, LSInit
<1>2. Started.original = << >> /\ << >> \in Originals /\ DOMAIN << >> = {}
  <2>1. << >> \in [{} -> SUBSET Lint]
    BY SMTT(30)
  <2> QED
    BY <2>1, SMTT(30) DEF Started, Originals
<1>3. Started \in ProcType
  <2>1. "start" \in ProcAt /\ "none" \in Result
    BY SMTT(30) DEF ProcAt, Result
  <2> QED
    BY <1>2, <2>1 DEF Started, ProcType
<1>4. FxTypeOK
  BY <1>1, <1>3 DEF FxTypeOK
<1>5. Started.at = "start" /\ ~Started.owed /\ Started.applied = {} /\ Started.last = "none"
  BY DEF Started
<1>6. FixLockInv
  BY <1>1, <1>5, Zenon DEF FixLockInv
<1>7. PostInv
  BY <1>1, <1>5, StopApart, SMTT(30) DEF PostInv
<1>8. ContentInv
  BY <1>1 DEF ContentInv
<1>9. ASSUME NEW p \in Proxy PROVE CodeOf(p)
  <2>1. source.files[p] \subseteq File
    BY <1>1, SourcesTyped
  <2>2. /\ proc[p].at = "start" /\ DOMAIN proc[p].original = {} /\ proc[p].applied = {} /\ proc[p].last = "none"
        /\ \A f \in source.files[p] : content[f] = {}
    BY <1>1, <1>2, <1>5, <2>1
  <2>3. FilesOf(p) /\ CleanOf(p) /\ AloneOf(p)
    BY <2>2 DEF FilesOf, CleanOf, AloneOf, Failing
  <2> QED
    BY <2>3 DEF CodeOf
<1> QED
  BY <1>4, <1>6, <1>7, <1>8, <1>9 DEF FixInv

\* The invariant of cargo fix: one process at a time works on files, with the lock; the code it
\* writes is the one it read; what it keeps to go back to is what there was.
THEOREM FixInvariant ==
  ASSUME FailsAlone
  PROVE  FxSpec => []FixInv
<1>1. FixInv /\ [FxNext]_fxvars => FixInv'
  <2> SUFFICES ASSUME FixInv, [FxNext]_fxvars PROVE FixInv'
    OBVIOUS
  <2>1. CASE UNCHANGED fxvars
    <3>1. UNCHANGED <<sock, holder, source, content, proc, diag>>
      BY <2>1, SMTT(30) DEF fxvars, lsvars
    <3>2. FxTypeOK' /\ FixLockInv' /\ PostInv'
      BY <3>1 DEF FixInv, FxTypeOK, FixLockInv, PostInv
    <3> QED
      BY <3>1, <3>2, CodeSame DEF FixInv
  <2>2. CASE LockStep \/ FixReturns
    BY <2>2, LockMoves DEF LockStep, FixReturns
  <2>3. CASE OnMessage
    BY <2>3, MessageKeeps
  <2>4. CASE DropClient
    BY <2>4, DropKeeps
  <2>5. ASSUME NEW p \in Proxy, ProxyStep(p) \/ Die(p) PROVE FixInv'
    <3>1. CASE Die(p)
      BY <3>1, DieKeeps
    <3>2. CASE AskLock(p)
      BY <3>2, LockMoves DEF AskLock
    <3>3. CASE CanRunRustfix(p)
      BY <3>3, CanRunKeeps
    <3>4. CASE RustcOnly(p)
      BY <3>4, RustcOnlyKeeps
    <3>5. CASE RustfixAndFix(p)
      BY <3>5, RustfixKeeps
    <3>6. CASE WriteFile(p)
      BY <3>6, WriteFileKeeps
    <3>7. CASE EndRound(p)
      BY <3>7, EndRoundKeeps
    <3>8. CASE FinalRustc(p)
      BY <3>8, FinalRustcKeeps
    <3>9. CASE Unlock(p)
      BY <3>9, UnlockKeeps
    <3>10. CASE LogFailedFix(p)
      BY <3>10, LogFailedKeeps
    <3>11. CASE ExitWith(p)
      BY <3>11, ExitKeeps
    <3>12. ASSUME NEW f \in File, ReadFile(p, f) \/ ReplaceFailed(p, f) \/ PostFixed(p, f) \/ RevertFile(p, f)
           PROVE  FixInv'
      BY <3>12, ReadFileKeeps, ReplaceFailedKeeps, PostFixedKeeps, RevertKeeps
    <3> QED
      BY <2>5, <3>1, <3>2, <3>3, <3>4, <3>5, <3>6, <3>7, <3>8, <3>9, <3>10, <3>11, <3>12 DEF ProxyStep
  <2> QED
    BY <2>1, <2>2, <2>3, <2>4, <2>5 DEF FxNext
<1> QED
  BY <1>1, FixBegins, PTL DEF FxSpec

\* The changes of a process of cargo fix are kept or undone as a whole (rustfix_crate under its
\* global lock, fix_exec_rustc), and its messages are on the queue of cargo before it exits
\* (RustfixDiagnosticServer::run), for any number of crates and files, whoever dies. A crate that
\* a suggestion can break shares no file with another: the code is put back after the lock is
\* released, and what another crate wrote into a shared file meanwhile would go with it.
THEOREM FixSafe ==
  ASSUME FailsAlone
  PROVE  FxSpec => []FixRight
<1>1. FixInv => FixRight
  <2> SUFFICES ASSUME FixInv PROVE FixRight
    OBVIOUS
  <2>1. MessagesBeforeExit
    BY DEF FixInv, PostInv, MessagesBeforeExit
  <2>2. ASSUME NEW p \in Proxy, proc[p].at = "exited", ~source.broken_code, NEW f \in source.files[p]
        PROVE  IF proc[p].last = "ok" THEN proc[p].applied \intersect source.lints[f] \subseteq content[f]
               ELSE proc[p].applied \intersect content[f] = {}
    <3>1. CodeOf(p) /\ source \in Sources /\ proc[p] \in ProcType
      BY <2>2, ProcTyped
    <3>2. CASE proc[p].last = "ok"
      BY <2>2, <3>1, <3>2, SMTT(30) DEF CodeOf, FilesOf, Failing
    <3>3. CASE proc[p].last # "ok"
      <4>1. CASE Clean(source, p)
        <5>1. proc[p].last = "err" \/ proc[p].last = "none"
          BY <3>1, <3>3 DEF ProcType, Result
        <5>2. proc[p].applied = {}
          BY <2>2, <3>1, <4>1, <5>1 DEF CodeOf, CleanOf
        <5> QED
          BY <3>3, <5>2
      <4>2. CASE Alone(source, p)
        <5>1. content[f] = {}
          BY <2>2, <3>1, <3>3, <4>2 DEF CodeOf, AloneOf, Failing
        <5> QED
          BY <3>3, <5>1
      <4> QED
        BY <3>1, <4>1, <4>2 DEF FailsAlone
    <3> QED
      BY <3>2, <3>3
  <2> QED
    BY <2>1, <2>2 DEF FixRight, AllOrNothing
<1>2. FxSpec => []FixInv
  BY FixInvariant
<1> QED
  BY <1>1, <1>2, PTL

=============================================================================
