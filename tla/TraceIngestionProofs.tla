------------------------- MODULE TraceIngestionProofs -------------------------
(***************************************************************************)
(* Proofs about TraceIngestion, for any number of workers, scanners,       *)
(* lines, files, rebuilds, lost leases and interrupted verifications.      *)
(*                                                                         *)
(* TraceInv is inductive: while the first file is in place, every          *)
(* aggregate that is stored or still being built is that of the lines      *)
(* before its offset; only a sealed file whose run.end was recorded can be *)
(* verified; and progress and published context are of one generation.     *)
(*                                                                         *)
(* And about the other scenarios of the sessions, for any texts, runs,     *)
(* compactions and results on their way: LearningInv, MeditationInv and    *)
(* RecordInv are the inductive invariants of OpenCodeLearning, of          *)
(* CompactionMeditation and of OpenCodeCompaction.                         *)
(***************************************************************************)
EXTENDS MCSessions, SequenceTheorems, TLAPS

Manifest == [ended : BOOLEAN, sealed : Nat] \cup {Unread}
Identity == [ino : Nat, size : Nat]
Fingerprint == (Manifest \X Identity) \cup {Unread}
Line == [ino : Nat, line : Nat, end : BOOLEAN]
Finalization == {"recording", "ended_pending_manifest", "ended_unverified", "finalized", "blocked",
                 "source_missing"}
Row == [gen : Nat, rev : Nat, offset : Nat, identity : Identity, manifest : Manifest, agg : Seq(Line),
        finalization : Finalization, fingerprint : Fingerprint]
Payload == [gen : Nat, rev : Nat, offset : Nat, fingerprint : Fingerprint]
Job == [payload : Payload, state : {"pending", "leased", "completed"}, owner : Workers \cup {NoWorker}]
Execution == [pc : {"idle", "manifest", "identity", "batch", "verify", "commit", "done"},
              job : Payload \cup {NoJob}, prev : Row, manifest : Manifest, replaced : BOOLEAN,
              batch : Identity, agg : Seq(Line), offset : Nat, finalization : Finalization,
              more : BOOLEAN]
Scan == [pc : {"rest", "stat", "enqueue"}, row : Row, fingerprint : Fingerprint]

TypeOK ==
  /\ source \in [ino : Nat, size : Nat, ended : BOOLEAN, sealed : Nat, present : BOOLEAN]
  /\ cursor \in Row
  /\ context \in [gen : Nat, agg : Seq(Line), finalization : Finalization \cup {"none"}]
  /\ jobs \subseteq Job
  /\ promoted \subseteq [gen : Nat, agg : Seq(Line)]
  /\ exec \in [Workers -> Execution]
  /\ scan \in [Scanners -> Scan]
  /\ used \in [rebuilds : Nat, aborts : Nat, crashes : Nat]

\* What the recorder seals has ended, and a manifest covers no later file.
SourceInv ==
  /\ source.ino \in 1..MaxFiles /\ source.sealed <= source.ino
  /\ source.ended => source.size > 0
  /\ source.sealed = source.ino => source.ended

\* An aggregate that counts the lines before its offset, each once.
counted(agg, offset) == offset <= source.size /\ agg = linesOf(source, 0, offset)

CountInv ==
  source.ino = 1 =>
    /\ counted(cursor.agg, cursor.offset)
    /\ \A w \in Workers : /\ counted(exec[w].prev.agg, exec[w].prev.offset)
                          /\ counted(exec[w].agg, exec[w].offset)

whole(agg) == wholeFile(agg) /\ runEnded(agg)

\* Only a verified aggregate is finalized, and it is about to be published.
VerifyInv == \A w \in Workers : exec[w].finalization = "finalized" => exec[w].pc = "commit" /\ whole(exec[w].agg)

TraceInv == TypeOK /\ SourceInv /\ CountInv /\ VerifyInv /\ FinalizedIsWhole /\ ContextFollowsProgress
-----------------------------------------------------------------------------
(* Lines and aggregates                                                    *)

\* The lines of a file between two offsets, one by one.
LEMMA LinesTyped ==
  ASSUME NEW src, src.ino \in Nat, src.ended \in BOOLEAN, NEW from \in Nat, NEW to \in Nat, from <= to
  PROVE  /\ linesOf(src, from, to) \in Seq(Line) /\ Len(linesOf(src, from, to)) = to - from
         /\ \A k \in 1..(to - from) : linesOf(src, from, to)[k] =
              [ino |-> src.ino, line |-> from + k, end |-> src.ended /\ from + k = src.size]
<1> DEFINE line(k) == [ino |-> src.ino, line |-> from + k, end |-> src.ended /\ from + k = src.size]
           n == to - from
<1>1. n \in Nat
  OBVIOUS
<1>2. \A k \in 1..n : line(k) \in Line
  BY DEF Line
<1>3. linesOf(src, from, to) = [k \in 1..n |-> line(k)]
  BY DEF linesOf
<1> HIDE DEF line, n
<1>4. [k \in 1..n |-> line(k)] \in [1..n -> Line]
  BY <1>2
<1>5. [k \in 1..n |-> line(k)] \in Seq(Line)
  BY <1>1, <1>4, SeqDef
<1>6. Len([k \in 1..n |-> line(k)]) = n
  BY <1>1
<1>7. linesOf(src, from, to) \in Seq(Line) /\ Len(linesOf(src, from, to)) = n
      /\ \A k \in 1..n : linesOf(src, from, to)[k] = line(k)
  BY <1>3, <1>5, <1>6
<1> QED
  BY <1>7 DEF line, n

\* The lines of a file up to an offset.
LEMMA FromTheFirst ==
  ASSUME NEW src, src.ino \in Nat, src.ended \in BOOLEAN, NEW n \in Nat
  PROVE  /\ linesOf(src, 0, n) \in Seq(Line) /\ Len(linesOf(src, 0, n)) = n
         /\ \A k \in 1..n : linesOf(src, 0, n)[k] =
              [ino |-> src.ino, line |-> k, end |-> src.ended /\ k = src.size]
<1>1. /\ linesOf(src, 0, n) \in Seq(Line) /\ Len(linesOf(src, 0, n)) = n - 0
      /\ \A k \in 1..(n - 0) : linesOf(src, 0, n)[k] =
           [ino |-> src.ino, line |-> 0 + k, end |-> src.ended /\ 0 + k = src.size]
  <2>1. 0 \in Nat /\ 0 <= n
    OBVIOUS
  <2> QED
    BY <2>1, LinesTyped
<1>2. n - 0 = n
  OBVIOUS
<1>3. ASSUME NEW k \in 1..n
      PROVE  linesOf(src, 0, n)[k] = [ino |-> src.ino, line |-> k, end |-> src.ended /\ k = src.size]
  <2>1. 0 + k = k
    OBVIOUS
  <2>2. k \in 1..(n - 0)
    BY <1>2
  <2>3. linesOf(src, 0, n)[k] = [ino |-> src.ino, line |-> 0 + k, end |-> src.ended /\ 0 + k = src.size]
    BY <1>1, <2>2
  <2> HIDE DEF linesOf
  <2> QED
    BY <2>1, <2>3
<1> QED
  BY <1>1, <1>2, <1>3

\* A batch continues what was read before.
LEMMA LinesJoin ==
  ASSUME NEW src, src.ino \in Nat, src.ended \in BOOLEAN, NEW m \in Nat, NEW n \in Nat, m <= n
  PROVE  linesOf(src, 0, m) \o linesOf(src, m, n) = linesOf(src, 0, n)
<1> DEFINE a == linesOf(src, 0, m)
           b == linesOf(src, m, n)
           c == linesOf(src, 0, n)
           line(k) == [ino |-> src.ino, line |-> k, end |-> src.ended /\ k = src.size]
<1>1. a \in Seq(Line) /\ Len(a) = m /\ \A k \in 1..m : a[k] = line(k)
  BY FromTheFirst
<1>2. b \in Seq(Line) /\ Len(b) = n - m /\ \A k \in 1..(n - m) : b[k] = line(m + k)
  BY LinesTyped
<1>3. c \in Seq(Line) /\ Len(c) = n /\ \A k \in 1..n : c[k] = line(k)
  BY FromTheFirst
<1> HIDE DEF a, b, c, line
<1>4. /\ a \o b \in Seq(Line) /\ Len(a \o b) = m + (n - m)
      /\ \A k \in 1..(m + (n - m)) : (a \o b)[k] = IF k <= m THEN a[k] ELSE b[k - m]
  <2>1. /\ a \o b \in Seq(Line) /\ Len(a \o b) = Len(a) + Len(b)
        /\ \A k \in 1..(Len(a) + Len(b)) : (a \o b)[k] = IF k <= Len(a) THEN a[k] ELSE b[k - Len(a)]
    BY <1>1, <1>2, ConcatProperties
  <2> QED
    BY <1>1, <1>2, <2>1
<1>5. \A k \in 1..n : (a \o b)[k] = c[k]
  <2> TAKE k \in 1..n
  <2>1. CASE k <= m
    BY <1>1, <1>3, <1>4, <2>1
  <2>2. CASE ~(k <= m)
    <3>1. k - m \in 1..(n - m) /\ m + (k - m) = k
      BY <2>2
    <3> QED
      BY <1>2, <1>3, <1>4, <2>2, <3>1
  <2> QED
    BY <2>1, <2>2
<1>6. a \o b = c
  BY <1>3, <1>4, <1>5, SeqEqual
<1> QED
  BY <1>6 DEF a, b, c

\* Nothing has been counted before the first line.
LEMMA NoLines ==
  ASSUME NEW src, src.ino \in Nat, src.ended \in BOOLEAN
  PROVE  linesOf(src, 0, 0) = <<>>
<1>1. linesOf(src, 0, 0) \in Seq(Line) /\ Len(linesOf(src, 0, 0)) = 0
  BY LinesTyped
<1> QED
  BY <1>1

\* A sealed file that was read from its first line to its last is whole.
LEMMA SealedIsWhole ==
  ASSUME TypeOK, SourceInv, source.sealed = source.ino
  PROVE  whole(linesOf(source, 0, source.size))
<1> DEFINE agg == linesOf(source, 0, source.size)
<1>1. source.ino \in Nat /\ source.ended \in BOOLEAN /\ source.size \in Nat
      /\ source.ended /\ source.size > 0 /\ source.ino \in 1..MaxFiles
  BY DEF TypeOK, SourceInv
<1>2. /\ agg \in Seq(Line) /\ Len(agg) = source.size
      /\ \A k \in 1..source.size :
           agg[k] = [ino |-> source.ino, line |-> k, end |-> source.ended /\ k = source.size]
  BY <1>1, FromTheFirst
<1> HIDE DEF agg
<1>3. DOMAIN agg = 1..source.size
  BY <1>2, LenProperties
<1>4. ASSUME NEW k \in 1..source.size
      PROVE  /\ agg[k].ino = source.ino /\ agg[k].line = k
             /\ agg[k].end = (source.ended /\ k = source.size)
  <2> DEFINE last == source.ended /\ k = source.size
  <2>1. agg[k] = [ino |-> source.ino, line |-> k, end |-> last]
    BY <1>2
  <2> HIDE DEF last
  <2>2. agg[k].ino = source.ino /\ agg[k].line = k /\ agg[k].end = last
    BY <2>1
  <2> QED
    BY <2>2 DEF last
<1>5. wholeFile(agg)
  BY <1>1, <1>3, <1>4 DEF wholeFile
<1>6. runEnded(agg)
  <2>1. source.size \in 1..source.size
    BY <1>1
  <2>2. agg[source.size].end = (source.ended /\ source.size = source.size)
    BY <1>4, <2>1
  <2>3. agg[source.size].end
    BY <1>1, <2>2
  <2> QED
    BY <1>3, <2>1, <2>3 DEF runEnded
<1> QED
  BY <1>5, <1>6 DEF whole, agg
-----------------------------------------------------------------------------
(* Executions                                                              *)

\* What an execution holds: its aggregates count the lines before their
\* offsets, and it publishes as finalized only what it has verified.
sound(e) ==
  /\ e \in Execution
  /\ source.ino = 1 => counted(e.prev.agg, e.prev.offset) /\ counted(e.agg, e.offset)
  /\ e.finalization = "finalized" => e.pc = "commit" /\ whole(e.agg)

\* TraceInv says of every execution that it is sound.
LEMMA SoundExecutions ==
  ASSUME TypeOK, CountInv, VerifyInv
  PROVE  \A w \in Workers : sound(exec[w])
BY DEF TypeOK, CountInv, VerifyInv, sound

\* What there is before the first scan.
LEMMA FreshTyped == FreshRow \in Row /\ Idle \in Execution /\ AtRest \in Scan /\ NoIdentity \in Identity
<1>1. <<>> \in Seq(Line) /\ NoIdentity \in Identity
  BY DEF NoIdentity, Identity
<1>2. FreshRow \in Row
  BY <1>1 DEF FreshRow, Row, Manifest, Finalization, Fingerprint
<1>3. Idle \in Execution
  BY <1>1, <1>2 DEF Idle, Execution, Manifest, Finalization
<1>4. AtRest \in Scan
  BY <1>2 DEF AtRest, Scan, Fingerprint
<1> QED
  BY <1>1, <1>2, <1>3, <1>4

\* What a reader gets to see of the files.
LEMMA SourceTyped ==
  ASSUME TypeOK
  PROVE  /\ manifestOf(source) \in Manifest /\ identityOf(source) \in Identity
         /\ fingerprintOf(source) \in Fingerprint
         /\ source.ino \in Nat /\ source.size \in Nat /\ source.ended \in BOOLEAN
<1>1. source.ino \in Nat /\ source.size \in Nat /\ source.ended \in BOOLEAN /\ source.sealed \in Nat
  BY DEF TypeOK
<1>2. manifestOf(source) \in Manifest
  <2>1. (source.ended /\ source.sealed # 0) \in BOOLEAN
    OBVIOUS
  <2> QED
    BY <1>1, <2>1 DEF manifestOf, Manifest
<1>3. identityOf(source) \in Identity
  BY <1>1 DEF identityOf, Identity
<1> QED
  BY <1>1, <1>2, <1>3 DEF fingerprintOf, Fingerprint

\* An execution that has not begun has counted nothing.
LEMMA IdleIsSound ==
  ASSUME TypeOK
  PROVE  sound(Idle)
<1>1. linesOf(source, 0, 0) = <<>> /\ source.size >= 0
  BY SourceTyped, NoLines
<1>2. Idle.agg = <<>> /\ Idle.offset = 0 /\ Idle.prev.agg = <<>> /\ Idle.prev.offset = 0
      /\ Idle.finalization # "finalized"
  BY DEF Idle, FreshRow
<1> QED
  BY <1>1, <1>2, FreshTyped DEF sound, counted

\* One step of an execution leaves it sound.
LEMMA ExecutionStep ==
  ASSUME TraceInv, NEW w \in Workers, execute(w) \/ interruptVerify(w)
  PROVE  \E e : sound(e) /\ exec' = [exec EXCEPT ![w] = e]
<1>0. TypeOK /\ SourceInv /\ CountInv /\ VerifyInv /\ sound(exec[w]) /\ sound(Idle) /\ exec[w] \in Execution
      /\ exec \in [Workers -> Execution]
  BY SoundExecutions, IdleIsSound DEF TraceInv, TypeOK
<1> DEFINE x == exec[w]
<1>1. ASSUME NEW e, sound(e), exec' = [exec EXCEPT ![w] = e]
      PROVE  \E y : sound(y) /\ exec' = [exec EXCEPT ![w] = y]
  BY <1>1
<1>2. ASSUME UNCHANGED exec
      PROVE  \E y : sound(y) /\ exec' = [exec EXCEPT ![w] = y]
  BY <1>0, <1>2
<1>3. ASSUME NEW state, ends(w, state)
      PROVE  \E y : sound(y) /\ exec' = [exec EXCEPT ![w] = y]
  BY <1>0, <1>3 DEF ends
<1>4. CASE claim(w)
  <2> DEFINE prev == [cursor EXCEPT !.fingerprint = Unread]
  <2>1. prev \in Row /\ prev.agg = cursor.agg /\ prev.offset = cursor.offset
    BY <1>0 DEF TypeOK, Row, Fingerprint
  <2> HIDE DEF prev
  <2>2. ASSUME NEW job \in Payload
        PROVE  sound([Idle EXCEPT !.pc = "manifest", !.job = job, !.prev = prev])
    <3> DEFINE e == [Idle EXCEPT !.pc = "manifest", !.job = job, !.prev = prev]
    <3>1. e \in Execution /\ e.prev = prev /\ e.agg = Idle.agg /\ e.offset = Idle.offset
          /\ e.finalization = Idle.finalization
      BY <2>1, <2>2, FreshTyped DEF Execution
    <3>2. Idle.finalization = "recording"
      BY DEF Idle
    <3> HIDE DEF e
    <3>3. sound(e)
      BY <1>0, <2>1, <3>1, <3>2 DEF sound, CountInv
    <3> QED
      BY <3>3 DEF e
  <2>3. \/ UNCHANGED exec
        \/ \E j \in jobs : exec' = [exec EXCEPT ![w] = [Idle EXCEPT !.pc = "manifest", !.job = j.payload, !.prev = prev]]
    BY <1>4 DEF claim, prev
  <2>4. \A j \in jobs : j.payload \in Payload
    BY <1>0 DEF TypeOK, Job
  <2> QED
    BY <1>2, <2>2, <2>3, <2>4
<1>5. CASE readManifest(w)
  <2>1. CASE source.present
    <3> DEFINE e == [x EXCEPT !.pc = "identity", !.manifest = manifestOf(source)]
    <3>1. exec' = [exec EXCEPT ![w] = e] /\ x.pc = "manifest"
      BY <1>0, <1>5, <2>1 DEF readManifest
    <3>2. e \in Execution /\ e.prev = x.prev /\ e.agg = x.agg /\ e.offset = x.offset
          /\ e.finalization = x.finalization
      BY <1>0, SourceTyped DEF Execution
    <3> HIDE DEF e
    <3> QED
      BY <1>0, <1>1, <3>1, <3>2 DEF sound
  <2>2. CASE ~source.present
    BY <1>3, <1>5, <2>2 DEF readManifest
  <2> QED
    BY <2>1, <2>2
<1>6. CASE readIdentity(w)
  <2>1. CASE alreadyIngested(x, source)
    BY <1>3, <1>6, <2>1 DEF readIdentity
  <2>2. CASE ~alreadyIngested(x, source)
    <3> DEFINE replaced == isReplaced(x.prev, source)
               agg == IF replaced THEN <<>> ELSE x.prev.agg
               offset == IF replaced THEN 0 ELSE x.prev.offset
               e == [x EXCEPT !.pc = "batch", !.replaced = replaced, !.agg = agg, !.offset = offset]
    <3>1. exec' = [exec EXCEPT ![w] = e] /\ x.pc = "identity"
      BY <1>0, <1>6, <2>2 DEF readIdentity
    <3>2. replaced \in BOOLEAN
      BY DEF isReplaced
    <3>3. agg \in Seq(Line) /\ offset \in Nat
      BY <1>0 DEF Execution, Row
    <3>4. source.ino = 1 => counted(agg, offset)
      <4>1. linesOf(source, 0, 0) = <<>> /\ source.size >= 0
        BY <1>0, SourceTyped, NoLines
      <4> QED
        BY <1>0, <4>1 DEF sound, counted
    <3> HIDE DEF replaced, agg, offset
    <3>5. e \in Execution /\ e.prev = x.prev /\ e.agg = agg /\ e.offset = offset
          /\ e.finalization = x.finalization
      BY <1>0, <3>2, <3>3 DEF Execution
    <3> HIDE DEF e
    <3> QED
      BY <1>0, <1>1, <3>1, <3>4, <3>5 DEF sound
  <2> QED
    BY <2>1, <2>2
<1>7. CASE readBatch(w)
  <2> DEFINE to == batchEnd(w)
             agg == x.agg \o linesOf(source, x.offset, to)
             more == to < source.size
             final == ~more /\ (runEnded(agg) \/ x.manifest.ended) /\ x.manifest.sealed # 0
             pc == IF final THEN "verify" ELSE "commit"
             finalization == IF runEnded(agg) THEN "ended_pending_manifest" ELSE "recording"
             e == [x EXCEPT !.pc = pc, !.batch = identityOf(source), !.agg = agg, !.offset = to,
                            !.more = more, !.finalization = finalization]
  <2>1. exec' = [exec EXCEPT ![w] = e] /\ x.offset <= source.size
    BY <1>0, <1>7 DEF readBatch
  <2>2. to \in Nat /\ x.offset \in Nat /\ x.offset <= to /\ to <= source.size
    BY <1>0, <2>1, SourceTyped, TraceAssumption DEF TraceAssumption, batchEnd, Execution
  <2>3. agg \in Seq(Line)
    <3>1. linesOf(source, x.offset, to) \in Seq(Line)
      BY <1>0, <2>2, SourceTyped, LinesTyped
    <3>2. x.agg \in Seq(Line)
      BY <1>0 DEF Execution
    <3> QED
      BY <3>1, <3>2, ConcatProperties
  <2>4. source.ino = 1 => counted(agg, to)
    <3> SUFFICES ASSUME source.ino = 1
                 PROVE  counted(agg, to)
      OBVIOUS
    <3>1. x.agg = linesOf(source, 0, x.offset)
      BY <1>0 DEF sound, counted
    <3>2. linesOf(source, 0, x.offset) \o linesOf(source, x.offset, to) = linesOf(source, 0, to)
      BY <1>0, <2>2, SourceTyped, LinesJoin
    <3> QED
      BY <2>2, <3>1, <3>2 DEF counted
  <2>5. more \in BOOLEAN /\ pc \in {"verify", "commit"} /\ finalization \in Finalization
        /\ finalization # "finalized" /\ identityOf(source) \in Identity
    BY <1>0, SourceTyped DEF Finalization
  <2> HIDE DEF to, agg, more, final, pc, finalization
  <2>6. e \in Execution /\ e.prev = x.prev /\ e.agg = agg /\ e.offset = to /\ e.finalization = finalization
    BY <1>0, <2>2, <2>3, <2>5 DEF Execution
  <2> HIDE DEF e
  <2> QED
    BY <1>0, <1>1, <2>1, <2>4, <2>5, <2>6 DEF sound
<1>8. CASE verify(w)
  <2> DEFINE agg == linesOf(source, 0, source.size)
             finalization == IF source.sealed = source.ino THEN "finalized" ELSE "blocked"
             e == [x EXCEPT !.pc = "commit", !.agg = agg, !.offset = source.size,
                            !.finalization = finalization]
  <2>1. exec' = [exec EXCEPT ![w] = e]
    BY <1>0, <1>8 DEF verify
  <2>2. agg \in Seq(Line) /\ source.size \in Nat /\ counted(agg, source.size)
    BY <1>0, SourceTyped, FromTheFirst DEF counted
  <2>3. finalization \in Finalization /\ (finalization = "finalized" => whole(agg))
    BY <1>0, SealedIsWhole DEF Finalization
  <2> HIDE DEF agg, finalization
  <2>4. e \in Execution /\ e.prev = x.prev /\ e.agg = agg /\ e.offset = source.size
        /\ e.finalization = finalization /\ e.pc = "commit"
    BY <1>0, <2>2, <2>3 DEF Execution
  <2> HIDE DEF e
  <2> QED
    BY <1>0, <1>1, <2>1, <2>2, <2>3, <2>4 DEF sound
<1>9. CASE interruptVerify(w)
  <2> DEFINE e == [x EXCEPT !.pc = "commit", !.finalization = "ended_unverified"]
  <2>1. exec' = [exec EXCEPT ![w] = e]
    BY <1>0, <1>9 DEF interruptVerify
  <2>2. e \in Execution /\ e.prev = x.prev /\ e.agg = x.agg /\ e.offset = x.offset
        /\ e.finalization = "ended_unverified"
    BY <1>0 DEF Execution, Finalization
  <2> HIDE DEF e
  <2> QED
    BY <1>0, <1>1, <2>1, <2>2 DEF sound
<1>10. CASE commit(w)
  <2> DEFINE e == [Idle EXCEPT !.pc = "done", !.job = x.job]
  <2>1. exec' = [exec EXCEPT ![w] = e]
    BY <1>10 DEF commit
  <2>2. e \in Execution /\ e.prev = Idle.prev /\ e.agg = Idle.agg /\ e.offset = Idle.offset
        /\ e.finalization = Idle.finalization /\ x.job \in Payload \cup {NoJob}
    BY <1>0, FreshTyped DEF Execution
  <2>3. Idle.finalization = "recording"
    BY DEF Idle
  <2> HIDE DEF e
  <2> QED
    BY <1>0, <1>1, <2>1, <2>2, <2>3 DEF sound
<1>11. CASE readFails(w) \/ outOfBounds(w) \/ verifyFails(w) \/ commitConflicts(w) \/ complete(w)
  BY <1>3, <1>11 DEF readFails, outOfBounds, verifyFails, commitConflicts, complete
<1> QED
  BY <1>4, <1>5, <1>6, <1>7, <1>8, <1>9, <1>10, <1>11 DEF execute, advances

\* Jobs that are enqueued, claimed and settled.
LEMMA JobsSettle ==
  ASSUME TypeOK, NEW w \in Workers, NEW state \in {"pending", "completed"}, ends(w, state)
  PROVE  jobs' \subseteq Job
<1>1. CASE leased(w)
  <2>1. own(w) \in jobs /\ jobs \subseteq Job
    BY <1>1 DEF TypeOK, leased, own
  <2>2. [payload |-> own(w).payload, state |-> state, owner |-> NoWorker] \in Job
    BY <2>1 DEF Job
  <2> QED
    BY <1>1, <2>1, <2>2 DEF ends, settleJob, setJob
<1>2. CASE ~leased(w)
  BY <1>2 DEF ends, settleJob, TypeOK
<1> QED
  BY <1>1, <1>2

\* A key that is known is left alone, and the job of a new one is pending.
LEMMA JobsEnqueue ==
  ASSUME TypeOK, NEW payload \in Payload, enqueue(payload)
  PROVE  jobs' \subseteq Job
BY DEF TypeOK, enqueue, Job
-----------------------------------------------------------------------------
(* Steps                                                                   *)

\* What a scan changes in the row of the run is its fingerprint, or that the
\* source is missing.
LEMMA ScanStep ==
  ASSUME TypeOK, NEW s \in Scanners, discover(s)
  PROVE  /\ UNCHANGED <<source, context, promoted, exec, used>>
         /\ jobs' \subseteq Job /\ scan' \in [Scanners -> Scan]
         /\ cursor' \in Row /\ cursor'.agg = cursor.agg /\ cursor'.offset = cursor.offset
         /\ cursor'.gen = cursor.gen /\ cursor'.identity = cursor.identity
<1>0. cursor \in Row /\ jobs \subseteq Job /\ scan \in [Scanners -> Scan] /\ scan[s] \in Scan
  BY DEF TypeOK
<1>1. CASE scanRow(s)
  <2>1. [pc |-> "stat", row |-> cursor, fingerprint |-> Unread] \in Scan
    BY <1>0 DEF Scan, Fingerprint
  <2> QED
    BY <1>0, <1>1, <2>1 DEF scanRow
<1>2. CASE scanFiles(s)
  <2> DEFINE next == [scan[s] EXCEPT !.pc = "enqueue", !.fingerprint = fingerprintOf(source)]
  <2>1. next \in Scan /\ AtRest \in Scan
    BY <1>0, SourceTyped, FreshTyped DEF Scan
  <2>2. /\ UNCHANGED <<source, context, jobs, promoted, exec, used>>
        /\ scan' = [scan EXCEPT ![s] = AtRest] \/ scan' = [scan EXCEPT ![s] = next]
        /\ cursor' = cursor \/ cursor' = [cursor EXCEPT !.finalization = "source_missing"]
    BY <1>2 DEF scanFiles
  <2> HIDE DEF next
  <2>3. scan' \in [Scanners -> Scan]
    BY <1>0, <2>1, <2>2
  <2>4. /\ cursor' \in Row /\ cursor'.agg = cursor.agg /\ cursor'.offset = cursor.offset
        /\ cursor'.gen = cursor.gen /\ cursor'.identity = cursor.identity
    BY <1>0, <2>2 DEF Row, Finalization
  <2> QED
    BY <1>0, <2>2, <2>3, <2>4
<1>3. CASE scanEnqueue(s)
  <2> DEFINE payload == [gen |-> scan[s].row.gen, rev |-> scan[s].row.rev, offset |-> scan[s].row.offset,
                         fingerprint |-> scan[s].fingerprint]
  <2>1. payload \in Payload /\ scan[s].fingerprint \in Fingerprint
    BY <1>0 DEF Scan, Row, Payload
  <2>2. /\ UNCHANGED <<source, context, promoted, exec, used>> /\ enqueue(payload)
        /\ scan' = [scan EXCEPT ![s] = AtRest]
        /\ cursor' = [cursor EXCEPT !.fingerprint = scan[s].fingerprint]
    BY <1>3 DEF scanEnqueue
  <2> HIDE DEF payload
  <2>3. jobs' \subseteq Job
    BY <2>1, <2>2, JobsEnqueue
  <2>4. scan' \in [Scanners -> Scan]
    BY <1>0, <2>2, FreshTyped
  <2>5. /\ cursor' \in Row /\ cursor'.agg = cursor.agg /\ cursor'.offset = cursor.offset
        /\ cursor'.gen = cursor.gen /\ cursor'.identity = cursor.identity
    BY <1>0, <2>1, <2>2 DEF Row
  <2> QED
    BY <2>2, <2>3, <2>4, <2>5
<1> QED
  BY <1>1, <1>2, <1>3 DEF discover

\* Executions publish in `commit` only; besides they may block the run.
LEMMA ExecutionKeeps ==
  ASSUME TypeOK, NEW w \in Workers, execute(w) \/ interruptVerify(w), ~commit(w)
  PROVE  /\ UNCHANGED <<source, context, promoted, scan>>
         /\ jobs' \subseteq Job /\ used' \in [rebuilds : Nat, aborts : Nat, crashes : Nat]
         /\ cursor' \in Row /\ cursor'.agg = cursor.agg /\ cursor'.offset = cursor.offset
         /\ cursor'.gen = cursor.gen /\ cursor'.identity = cursor.identity
<1>0. cursor \in Row /\ jobs \subseteq Job /\ used \in [rebuilds : Nat, aborts : Nat, crashes : Nat]
  BY DEF TypeOK
<1>1. CASE claim(w)
  <2>1. PICK j \in jobs : (setJob(j, "completed", NoWorker) \/ setJob(j, "leased", w))
                          /\ (UNCHANGED used \/ used' = [used EXCEPT !.crashes = @ + 1])
                          /\ UNCHANGED <<source, cursor, context, promoted, scan>>
    BY <1>1 DEF claim
  <2>2. jobs' \subseteq Job
    BY <1>0, <2>1 DEF setJob, Job
  <2> QED
    BY <1>0, <2>1, <2>2
<1>2. CASE readManifest(w) \/ readIdentity(w) \/ readFails(w) \/ verifyFails(w) \/ commitConflicts(w) \/ complete(w)
  <2>1. /\ UNCHANGED <<source, cursor, context, promoted, scan, used>>
        /\ UNCHANGED jobs \/ \E state \in {"pending", "completed"} : ends(w, state)
    BY <1>2 DEF readManifest, readIdentity, readFails, verifyFails, commitConflicts, complete
  <2> QED
    BY <1>0, <2>1, JobsSettle
<1>3. CASE readBatch(w) \/ verify(w)
  BY <1>0, <1>3 DEF readBatch, verify
<1>4. CASE interruptVerify(w)
  BY <1>0, <1>4 DEF interruptVerify
<1>5. CASE outOfBounds(w)
  <2>1. /\ UNCHANGED <<source, context, promoted, scan, used>> /\ ends(w, "completed")
        /\ cursor' = cursor \/ cursor' = [cursor EXCEPT !.finalization = "blocked"]
    BY <1>5 DEF outOfBounds
  <2>2. jobs' \subseteq Job
    BY <2>1, JobsSettle
  <2>3. /\ cursor' \in Row /\ cursor'.agg = cursor.agg /\ cursor'.offset = cursor.offset
        /\ cursor'.gen = cursor.gen /\ cursor'.identity = cursor.identity
    BY <1>0, <2>1 DEF Row, Finalization
  <2> QED
    BY <1>0, <2>1, <2>2, <2>3
<1> QED
  BY <1>1, <1>2, <1>3, <1>4, <1>5 DEF execute, advances

\* A commit publishes row and context together, and promotes a whole file.
LEMMA CommitStep ==
  ASSUME TraceInv, NEW w \in Workers, commit(w)
  PROVE  /\ UNCHANGED <<source, scan, used>> /\ jobs' \subseteq Job
         /\ cursor' \in Row /\ cursor'.agg = exec[w].agg /\ cursor'.offset = exec[w].offset
         /\ context' \in [gen : Nat, agg : Seq(Line), finalization : Finalization \cup {"none"}]
         /\ context'.gen = cursor'.gen /\ context'.agg = exec[w].agg
         /\ context'.finalization = exec[w].finalization
         /\ promoted' \subseteq [gen : Nat, agg : Seq(Line)]
         /\ \A p \in promoted' : p \in promoted \/ (p.agg = exec[w].agg /\ exec[w].finalization = "finalized")
<1> DEFINE x == exec[w]
           gen == newGen(w)
<1>0. TypeOK /\ cursor \in Row /\ jobs \subseteq Job /\ x \in Execution
      /\ promoted \subseteq [gen : Nat, agg : Seq(Line)]
  BY DEF TraceInv, TypeOK
<1>1. gen \in Nat /\ cursor.rev + 1 \in Nat
  BY <1>0 DEF newGen, Row
<1>2. UNCHANGED <<source, scan, used>>
      /\ cursor' = [cursor EXCEPT !.gen = gen, !.rev = cursor.rev + 1, !.offset = x.offset, !.identity = x.batch,
                      !.manifest = x.manifest, !.agg = x.agg, !.finalization = x.finalization]
      /\ context' = [gen |-> gen, agg |-> x.agg, finalization |-> x.finalization]
  BY DEF commit, publish
<1>3. jobs' \subseteq Job
  <2>1. successor(w) \in Payload
    <3> DEFINE fingerprint == <<x.manifest, NoIdentity>>
    <3>1. fingerprint \in Fingerprint
      BY <1>0, FreshTyped DEF Fingerprint, Execution
    <3>2. x.prev.rev + 1 \in Nat /\ x.offset \in Nat
      BY <1>0 DEF Execution, Row
    <3>3. successor(w) = [gen |-> gen, rev |-> x.prev.rev + 1, offset |-> x.offset, fingerprint |-> fingerprint]
      BY DEF successor
    <3> HIDE DEF gen, fingerprint
    <3> QED
      BY <1>1, <3>1, <3>2, <3>3 DEF Payload
  <2> QED
    BY <1>0, <2>1, JobsEnqueue DEF commit
<1>4. promoted' = promoted \/ (promoted' = promoted \cup {[gen |-> gen, agg |-> x.agg]} /\ x.finalization = "finalized")
  BY DEF commit
<1> HIDE DEF gen
<1>5. cursor' \in Row /\ cursor'.agg = x.agg /\ cursor'.offset = x.offset /\ cursor'.gen = gen
  BY <1>0, <1>1, <1>2 DEF Row, Execution
<1>6. /\ context' \in [gen : Nat, agg : Seq(Line), finalization : Finalization \cup {"none"}]
      /\ context'.gen = gen /\ context'.agg = x.agg /\ context'.finalization = x.finalization
  BY <1>0, <1>1, <1>2 DEF Execution
<1>7. [gen |-> gen, agg |-> x.agg] \in [gen : Nat, agg : Seq(Line)]
  BY <1>0, <1>1 DEF Execution
<1> QED
  BY <1>0, <1>2, <1>3, <1>4, <1>5, <1>6, <1>7

\* The recorder appends to a file, seals it, replaces it or removes it.
LEMMA RecordStep ==
  ASSUME TypeOK, SourceInv, record
  PROVE  /\ UNCHANGED <<cursor, context, jobs, promoted, exec, scan, used>>
         /\ source' \in [ino : Nat, size : Nat, ended : BOOLEAN, sealed : Nat, present : BOOLEAN]
         /\ SourceInv'
         /\ source'.ino = 1 => /\ source.ino = 1 /\ source'.size >= source.size
                               /\ \/ source'.ended = source.ended /\ source'.size = source.size
                                  \/ ~source.ended /\ source'.size > source.size
<1>0. /\ source \in [ino : Nat, size : Nat, ended : BOOLEAN, sealed : Nat, present : BOOLEAN]
      /\ source.ino \in 1..MaxFiles /\ source.sealed <= source.ino
      /\ source.ended => source.size > 0
      /\ source.sealed = source.ino => source.ended
      /\ MaxFiles \in Nat /\ MaxSize \in Nat
  BY TraceAssumption DEF TraceAssumption, TypeOK, SourceInv
<1>1. UNCHANGED <<cursor, context, jobs, promoted, exec, scan, used>>
  BY DEF record
<1>2. ASSUME ~source.ended, NEW end \in BOOLEAN, source' = [source EXCEPT !.size = source.size + 1, !.ended = end]
      PROVE  /\ source' \in [ino : Nat, size : Nat, ended : BOOLEAN, sealed : Nat, present : BOOLEAN]
             /\ SourceInv'
             /\ source'.ino = source.ino /\ source'.size > source.size
  <2>1. source'.ino = source.ino /\ source'.size = source.size + 1 /\ source'.ended = end /\ source'.sealed = source.sealed
    BY <1>0, <1>2
  <2>2. source' \in [ino : Nat, size : Nat, ended : BOOLEAN, sealed : Nat, present : BOOLEAN]
    <3> DEFINE size == source.size + 1
    <3>1. size \in Nat /\ source' = [source EXCEPT !.size = size, !.ended = end]
      BY <1>0, <1>2
    <3> HIDE DEF size
    <3> QED
      BY <1>0, <3>1
  <2>3. SourceInv'
    BY <1>0, <1>2, <2>1, <2>2 DEF SourceInv
  <2> QED
    BY <1>0, <2>1, <2>2, <2>3
<1>3. ASSUME source.ended, source' = [source EXCEPT !.sealed = source.ino]
      PROVE  /\ source' \in [ino : Nat, size : Nat, ended : BOOLEAN, sealed : Nat, present : BOOLEAN]
             /\ SourceInv'
             /\ source'.ino = source.ino /\ source'.size = source.size /\ source'.ended = source.ended
  <2>1. source'.ino = source.ino /\ source'.size = source.size /\ source'.ended = source.ended
        /\ source'.sealed = source.ino
    BY <1>0, <1>3
  <2>2. source' \in [ino : Nat, size : Nat, ended : BOOLEAN, sealed : Nat, present : BOOLEAN]
    BY <1>0, <1>3
  <2>3. SourceInv'
    BY <1>0, <1>3, <2>1, <2>2 DEF SourceInv
  <2> QED
    BY <1>0, <2>1, <2>2, <2>3
<1>4. ASSUME source.ino < MaxFiles, NEW n \in 0..MaxSize, NEW end \in BOOLEAN, end => n > 0,
             source' = [source EXCEPT !.ino = @ + 1, !.size = n, !.ended = end]
      PROVE  /\ source' \in [ino : Nat, size : Nat, ended : BOOLEAN, sealed : Nat, present : BOOLEAN]
             /\ SourceInv'
             /\ source'.ino # 1
  <2>1. source'.ino = source.ino + 1 /\ source'.size = n /\ source'.ended = end /\ source'.sealed = source.sealed
    BY <1>0, <1>4
  <2>2. source' \in [ino : Nat, size : Nat, ended : BOOLEAN, sealed : Nat, present : BOOLEAN]
    <3> DEFINE ino == source.ino + 1
    <3>1. ino \in Nat /\ n \in Nat /\ source' = [source EXCEPT !.ino = ino, !.size = n, !.ended = end]
      BY <1>0, <1>4
    <3> HIDE DEF ino
    <3> QED
      BY <1>0, <1>4, <3>1
  <2>3. SourceInv'
    BY <1>0, <1>4, <2>1, <2>2 DEF SourceInv
  <2> QED
    BY <1>0, <2>1, <2>2, <2>3
<1>5. ASSUME source' = [source EXCEPT !.present = FALSE]
      PROVE  /\ source' \in [ino : Nat, size : Nat, ended : BOOLEAN, sealed : Nat, present : BOOLEAN]
             /\ SourceInv'
             /\ source'.ino = source.ino /\ source'.size = source.size /\ source'.ended = source.ended
  <2>1. source'.ino = source.ino /\ source'.size = source.size /\ source'.ended = source.ended
        /\ source'.sealed = source.sealed
    BY <1>0, <1>5
  <2>2. source' \in [ino : Nat, size : Nat, ended : BOOLEAN, sealed : Nat, present : BOOLEAN]
    BY <1>0, <1>5
  <2>3. SourceInv'
    BY <1>0, <1>5, <2>1, <2>2 DEF SourceInv
  <2> QED
    BY <1>0, <2>1, <2>2, <2>3
<1>6. \/ ~source.ended /\ \E end \in BOOLEAN : source' = [source EXCEPT !.size = source.size + 1, !.ended = end]
      \/ source.ended /\ source' = [source EXCEPT !.sealed = source.ino]
      \/ /\ source.ino < MaxFiles
         /\ \E n \in 0..MaxSize, end \in BOOLEAN :
              (end => n > 0) /\ source' = [source EXCEPT !.ino = @ + 1, !.size = n, !.ended = end]
      \/ source' = [source EXCEPT !.present = FALSE]
  BY DEF record
<1>7. CASE ~source.ended /\ \E end \in BOOLEAN : source' = [source EXCEPT !.size = source.size + 1, !.ended = end]
  <2>1. PICK end \in BOOLEAN : source' = [source EXCEPT !.size = source.size + 1, !.ended = end]
    BY <1>7, Zenon
  <2>2. source'.ino = source.ino /\ source'.size > source.size /\ SourceInv'
        /\ source' \in [ino : Nat, size : Nat, ended : BOOLEAN, sealed : Nat, present : BOOLEAN]
    BY <1>2, <1>7, <2>1
  <2> QED
    BY <1>0, <1>1, <1>7, <2>2
<1>8. CASE source.ended /\ source' = [source EXCEPT !.sealed = source.ino]
  <2>1. source'.ino = source.ino /\ source'.size = source.size /\ source'.ended = source.ended /\ SourceInv'
        /\ source' \in [ino : Nat, size : Nat, ended : BOOLEAN, sealed : Nat, present : BOOLEAN]
    BY <1>3, <1>8
  <2>2. source'.size >= source.size
    BY <1>0, <2>1
  <2> QED
    BY <1>1, <2>1, <2>2
<1>9. CASE /\ source.ino < MaxFiles
           /\ \E n \in 0..MaxSize, end \in BOOLEAN :
                (end => n > 0) /\ source' = [source EXCEPT !.ino = @ + 1, !.size = n, !.ended = end]
  BY <1>1, <1>4, <1>9
<1>10. CASE source' = [source EXCEPT !.present = FALSE]
  <2>1. source'.ino = source.ino /\ source'.size = source.size /\ source'.ended = source.ended /\ SourceInv'
        /\ source' \in [ino : Nat, size : Nat, ended : BOOLEAN, sealed : Nat, present : BOOLEAN]
    BY <1>5, <1>10
  <2>2. source'.size >= source.size
    BY <1>0, <2>1
  <2> QED
    BY <1>1, <2>1, <2>2
<1> QED
  BY <1>6, <1>7, <1>8, <1>9, <1>10

\* What was counted in a growing file stays as it was counted.
LEMMA CountedStays ==
  ASSUME TypeOK, SourceInv, record, source'.ino = 1, NEW agg, NEW offset \in Nat, counted(agg, offset)
  PROVE  counted(agg, offset)'
<1>0. /\ source.ino = 1 /\ source'.ino = 1 /\ source.size \in Nat /\ source'.size \in Nat
      /\ source.ended \in BOOLEAN /\ source'.ended \in BOOLEAN
      /\ offset <= source.size /\ source'.size >= source.size
      /\ \/ source'.ended = source.ended /\ source'.size = source.size
         \/ ~source.ended /\ source'.size > source.size
  BY RecordStep DEF TypeOK, counted
<1> DEFINE a == linesOf(source, 0, offset)
           b == linesOf(source', 0, offset)
<1>1. /\ a \in Seq(Line) /\ Len(a) = offset
      /\ \A k \in 1..offset : a[k] = [ino |-> source.ino, line |-> k, end |-> source.ended /\ k = source.size]
  BY <1>0, FromTheFirst
<1>2. /\ b \in Seq(Line) /\ Len(b) = offset
      /\ \A k \in 1..offset : b[k] = [ino |-> source'.ino, line |-> k, end |-> source'.ended /\ k = source'.size]
  BY <1>0, FromTheFirst
<1>3. ASSUME NEW k \in 1..offset
      PROVE  (source.ended /\ k = source.size) = (source'.ended /\ k = source'.size)
  BY <1>0
<1> HIDE DEF a, b
<1>4. \A k \in 1..offset : a[k] = b[k]
  BY <1>0, <1>1, <1>2, <1>3
<1>5. a = b
  BY <1>1, <1>2, <1>4, SeqEqual
<1>6. agg = b /\ offset <= source'.size
  BY <1>0, <1>5 DEF a, counted
<1> QED
  BY <1>6 DEF b, counted
-----------------------------------------------------------------------------
(* The invariant                                                           *)

\* Before the first line nothing is counted.
LEMMA TraceInit ==
  ASSUME Init
  PROVE  TraceInv
<1>1. TypeOK
  <2>1. <<>> \in Seq(Line)
    OBVIOUS
  <2> QED
    BY <2>1, FreshTyped DEF Init, TypeOK
<1>2. SourceInv
  BY TraceAssumption DEF TraceAssumption, Init, SourceInv
<1>3. CountInv /\ VerifyInv
  <2>1. sound(Idle) /\ \A w \in Workers : exec[w] = Idle
    BY <1>1, IdleIsSound DEF Init
  <2>2. cursor.agg = Idle.agg /\ cursor.offset = Idle.offset
    BY DEF Init, FreshRow, Idle
  <2> QED
    BY <2>1, <2>2 DEF CountInv, VerifyInv, sound
<1>4. FinalizedIsWhole /\ ContextFollowsProgress
  BY DEF Init, FinalizedIsWhole, ContextFollowsProgress, FreshRow
<1> QED
  BY <1>1, <1>2, <1>3, <1>4 DEF TraceInv

\* TraceInv is inductive.
LEMMA TraceStep ==
  ASSUME TraceInv, [Next]_vars
  PROVE  TraceInv'
<1>0. TypeOK /\ SourceInv /\ CountInv /\ VerifyInv /\ FinalizedIsWhole /\ ContextFollowsProgress
      /\ exec \in [Workers -> Execution]
  BY DEF TraceInv, TypeOK
\* What leaves the row's progress, the context and the promotions alone.
<1>1. ASSUME UNCHANGED <<source, context, promoted>>,
             cursor'.agg = cursor.agg, cursor'.offset = cursor.offset,
             cursor'.gen = cursor.gen, cursor'.identity = cursor.identity
      PROVE  /\ SourceInv' /\ FinalizedIsWhole' /\ ContextFollowsProgress'
             /\ source'.ino = 1 => counted(cursor.agg, cursor.offset)'
  BY <1>0, <1>1 DEF SourceInv, FinalizedIsWhole, ContextFollowsProgress, CountInv, counted
<1>2. CASE record
  <2>1. TypeOK' /\ SourceInv'
    BY <1>0, <1>2, RecordStep DEF TypeOK
  <2>2. VerifyInv' /\ FinalizedIsWhole' /\ ContextFollowsProgress'
    BY <1>0, <1>2, RecordStep DEF VerifyInv, FinalizedIsWhole, ContextFollowsProgress
  <2>3. CountInv'
    <3> SUFFICES ASSUME source'.ino = 1
                 PROVE  CountInv'
      BY DEF CountInv
    <3>1. source.ino = 1 /\ UNCHANGED <<cursor, exec>>
      BY <1>0, <1>2, RecordStep
    <3>2. cursor.offset \in Nat /\ \A w \in Workers : exec[w].offset \in Nat /\ exec[w].prev.offset \in Nat
      BY <1>0 DEF TypeOK, Row, Execution
    <3>3. counted(cursor.agg, cursor.offset)'
      <4>1. counted(cursor.agg, cursor.offset)
        BY <1>0, <3>1 DEF CountInv
      <4> QED
        BY <1>0, <1>2, <3>1, <3>2, <4>1, CountedStays DEF counted
    <3>4. ASSUME NEW w \in Workers
          PROVE  counted(exec[w].prev.agg, exec[w].prev.offset)' /\ counted(exec[w].agg, exec[w].offset)'
      <4>1. counted(exec[w].prev.agg, exec[w].prev.offset) /\ counted(exec[w].agg, exec[w].offset)
        BY <1>0, <3>1 DEF CountInv
      <4> QED
        BY <1>0, <1>2, <3>1, <3>2, <4>1, CountedStays DEF counted
    <3> QED
      BY <3>3, <3>4 DEF CountInv
  <2> QED
    BY <2>1, <2>2, <2>3 DEF TraceInv
<1>3. CASE rebuild
  <2> DEFINE row == [FreshRow EXCEPT !.gen = cursor.gen + 1, !.rev = cursor.rev + 1]
  <2>1. /\ UNCHANGED <<source, context, jobs, promoted, exec, scan>> /\ cursor' = row
        /\ used' = [used EXCEPT !.rebuilds = @ + 1]
    BY <1>3 DEF rebuild
  <2>2. cursor.gen + 1 \in Nat /\ cursor.rev + 1 \in Nat
    BY <1>0 DEF TypeOK, Row
  <2>3. row \in Row /\ row.agg = FreshRow.agg /\ row.offset = FreshRow.offset /\ row.identity = FreshRow.identity
    BY <2>2, FreshTyped DEF Row
  <2>4. FreshRow.agg = <<>> /\ FreshRow.offset = 0 /\ FreshRow.identity = NoIdentity
    BY DEF FreshRow
  <2> HIDE DEF row
  <2>5. used' \in [rebuilds : Nat, aborts : Nat, crashes : Nat]
    BY <1>0, <2>1 DEF TypeOK
  <2>6. TypeOK'
    BY <1>0, <2>1, <2>3, <2>5 DEF TypeOK
  <2>7. SourceInv' /\ VerifyInv' /\ FinalizedIsWhole' /\ ContextFollowsProgress'
    BY <1>0, <2>1, <2>3, <2>4 DEF SourceInv, VerifyInv, FinalizedIsWhole, ContextFollowsProgress
  <2>8. CountInv'
    <3>1. linesOf(source, 0, 0) = <<>> /\ source.size >= 0
      BY <1>0, SourceTyped, NoLines
    <3> QED
      BY <1>0, <2>1, <2>3, <2>4, <3>1 DEF CountInv, counted
  <2> QED
    BY <2>6, <2>7, <2>8 DEF TraceInv
<1>4. ASSUME NEW s \in Scanners, discover(s)
      PROVE  TraceInv'
  <2>1. TypeOK'
    BY <1>0, <1>4, ScanStep DEF TypeOK
  <2>2. /\ UNCHANGED <<source, context, promoted, exec>>
        /\ cursor'.agg = cursor.agg /\ cursor'.offset = cursor.offset
        /\ cursor'.gen = cursor.gen /\ cursor'.identity = cursor.identity
    BY <1>0, <1>4, ScanStep
  <2>3. CountInv' /\ VerifyInv'
    BY <1>0, <2>2 DEF CountInv, VerifyInv, counted
  <2> QED
    BY <1>1, <2>1, <2>2, <2>3 DEF TraceInv
<1>5. ASSUME NEW w \in Workers, execute(w) \/ interruptVerify(w)
      PROVE  TraceInv'
  <2>1. PICK e : sound(e) /\ exec' = [exec EXCEPT ![w] = e]
    BY <1>5, ExecutionStep
  <2>2. exec' \in [Workers -> Execution] /\ \A v \in Workers : sound(exec'[v])
    BY <1>0, <2>1, SoundExecutions DEF sound
  <2>3. CASE ~commit(w)
    <3>1. /\ UNCHANGED <<source, context, promoted, scan>>
          /\ jobs' \subseteq Job /\ used' \in [rebuilds : Nat, aborts : Nat, crashes : Nat]
          /\ cursor' \in Row /\ cursor'.agg = cursor.agg /\ cursor'.offset = cursor.offset
          /\ cursor'.gen = cursor.gen /\ cursor'.identity = cursor.identity
      BY <1>0, <1>5, <2>3, ExecutionKeeps
    <3>2. TypeOK'
      BY <1>0, <2>2, <3>1 DEF TypeOK
    <3>3. CountInv' /\ VerifyInv'
      BY <1>1, <2>2, <3>1 DEF CountInv, VerifyInv, sound, counted
    <3> QED
      BY <1>1, <3>1, <3>2, <3>3 DEF TraceInv
  <2>4. CASE commit(w)
    <3>1. /\ UNCHANGED <<source, scan, used>> /\ jobs' \subseteq Job
          /\ cursor' \in Row /\ cursor'.agg = exec[w].agg /\ cursor'.offset = exec[w].offset
          /\ context' \in [gen : Nat, agg : Seq(Line), finalization : Finalization \cup {"none"}]
          /\ context'.gen = cursor'.gen /\ context'.agg = exec[w].agg
          /\ context'.finalization = exec[w].finalization
          /\ promoted' \subseteq [gen : Nat, agg : Seq(Line)]
          /\ \A p \in promoted' : p \in promoted \/ (p.agg = exec[w].agg /\ exec[w].finalization = "finalized")
      BY <2>4, CommitStep
    <3>2. TypeOK' /\ SourceInv'
      BY <1>0, <2>2, <3>1 DEF TypeOK, SourceInv
    <3>3. CountInv' /\ VerifyInv'
      BY <1>0, <2>2, <3>1 DEF CountInv, VerifyInv, sound, counted
    <3>4. FinalizedIsWhole'
      BY <1>0, <3>1 DEF FinalizedIsWhole, VerifyInv, whole
    <3>5. ContextFollowsProgress'
      BY <3>1 DEF ContextFollowsProgress
    <3> QED
      BY <3>2, <3>3, <3>4, <3>5 DEF TraceInv
  <2> QED
    BY <2>3, <2>4
<1>6. CASE UNCHANGED vars
  BY <1>0, <1>6 DEF TraceInv, vars, TypeOK, SourceInv, CountInv, VerifyInv, FinalizedIsWhole,
                    ContextFollowsProgress, counted
<1> QED
  BY <1>2, <1>3, <1>4, <1>5, <1>6 DEF Next

\* TraceInv holds in every reachable state.
LEMMA TraceCorrect == Spec => []TraceInv
BY TraceInit, TraceStep, PTL DEF Spec

\* Row, context, jobs, promotions, executions and scans keep their types.
THEOREM TraceTypeCorrect == Spec => []TypeOK
BY TraceCorrect, PTL DEF TraceInv

\* No published state counts a line of the first file twice or skips one:
\* whatever batches, retries, lost leases, interrupted verifications and
\* rebuilds do, the aggregate is that of the lines before the offset
\* (readTraceBatch, and the compare-and-swap of ingestTraceRun).
THEOREM LinesCounted == Spec => []LinesCountedOnce
<1>1. ASSUME TraceInv
      PROVE  LinesCountedOnce
  <2> SUFFICES ASSUME source.ino = 1
               PROVE  cursor.agg = linesOf([source EXCEPT !.ended = runEnded(cursor.agg)], 0, cursor.offset)
    BY DEF LinesCountedOnce
  <2>1. /\ source.ino \in Nat /\ source.size \in Nat /\ source.ended \in BOOLEAN /\ cursor.offset \in Nat
        /\ source \in [ino : Nat, size : Nat, ended : BOOLEAN, sealed : Nat, present : BOOLEAN]
        /\ counted(cursor.agg, cursor.offset)
    BY <1>1 DEF TraceInv, TypeOK, Row, CountInv
  <2> DEFINE agg == cursor.agg
             n == cursor.offset
             over == runEnded(agg)
             src == [source EXCEPT !.ended = over]
             b == linesOf(src, 0, n)
  <2>2. over \in BOOLEAN
    BY DEF runEnded
  <2>3. /\ agg \in Seq(Line) /\ Len(agg) = n /\ n <= source.size
        /\ \A k \in 1..n : agg[k] = [ino |-> source.ino, line |-> k, end |-> source.ended /\ k = source.size]
    <3>1. agg = linesOf(source, 0, n) /\ n <= source.size /\ n \in Nat
      BY <2>1 DEF counted
    <3> HIDE DEF agg, n
    <3> QED
      BY <2>1, <3>1, FromTheFirst
  <2>4. DOMAIN agg = 1..n
    BY <2>3, LenProperties
  <2>5. over <=> \E k \in 1..n : agg[k].end
    BY <2>4 DEF runEnded
  <2> HIDE DEF over, agg
  <2>6. src.ino = source.ino /\ src.size = source.size /\ src.ended = over
    BY <2>1
  <2> HIDE DEF src, n
  <2>7. /\ b \in Seq(Line) /\ Len(b) = n
        /\ \A k \in 1..n : b[k] = [ino |-> src.ino, line |-> k, end |-> src.ended /\ k = src.size]
    BY <2>1, <2>2, <2>6, FromTheFirst DEF n
  <2>8. ASSUME NEW k \in 1..n
        PROVE  agg[k].end = (source.ended /\ k = source.size)
    <3> DEFINE last == source.ended /\ k = source.size
    <3>1. agg[k] = [ino |-> source.ino, line |-> k, end |-> last]
      BY <2>3
    <3> HIDE DEF last
    <3>2. agg[k].end = last
      BY <3>1
    <3> QED
      BY <3>2 DEF last
  <2>9. ASSUME NEW k \in 1..n
        PROVE  (source.ended /\ k = source.size) = (src.ended /\ k = src.size)
    <3>1. CASE k = source.size
      <4>1. \A j \in 1..n : j # k => ~agg[j].end
        BY <2>8, <3>1
      <4>2. over <=> source.ended
        BY <2>5, <2>8, <3>1, <4>1
      <4> QED
        BY <2>1, <2>2, <2>6, <3>1, <4>2
    <3>2. CASE k # source.size
      BY <2>6, <3>2
    <3> QED
      BY <3>1, <3>2
  <2> HIDE DEF b
  <2>10. \A k \in 1..n : agg[k] = b[k]
    BY <2>3, <2>6, <2>7, <2>9
  <2>11. agg = b
    BY <2>3, <2>7, <2>10, SeqEqual
  <2> QED
    BY <2>11 DEF agg, b, n, src, over
<1> QED
  BY <1>1, TraceCorrect, PTL

\* What is delivered as finalized or promoted to memory is one whole file,
\* and the context delivered for a generation says what its row says: the
\* transaction of ingestTraceRun writes both or none.
THEOREM PublishedWhole == Spec => []PublishedIsWhole
<1>1. TraceInv => PublishedIsWhole
  BY DEF TraceInv, PublishedIsWhole
<1> QED
  BY <1>1, TraceCorrect, PTL

-------------------------------------------------------------------------------
(* The recall for the prompts.                                             *)

Operation == [kind : {"prompt", "switch", "handoff"}, object : Nat, sequence : Nat, text : Texts \cup {Unusable},
              at : Nat, answer : {None, "asking"}]

\* Operations that may end with an answer of the memory.
Recalls(o) == o.kind # "handoff"

\* What is under way was asked for before, the newer the later; for the current
\* request it has its text.  What was recalled is of the text of the request,
\* and what may replace it was asked for no earlier.
LearningInv ==
  /\ asked \in Nat /\ operations \in SUBSET Operation /\ request \in Request \cup {None}
  /\ \A o \in operations : o.object <= asked /\ o.at <= asked /\ (o.kind = "handoff" => o.answer = None)
  /\ \A o, q \in operations : Recalls(o) /\ Recalls(q) /\ o.object = q.object /\ o.sequence <= q.sequence => o.at <= q.at
  /\ request # None =>
       /\ request.object <= asked
       /\ \A o \in operations : o.object = request.object => o.text = request.text /\ o.sequence <= request.issued
  /\ recalled # None =>
       /\ request # None /\ recalled.text = request.text /\ recalled.at \in 0..asked
       /\ \A o \in operations : Recalls(o) /\ o.object = request.object /\ o.sequence >= request.applied => o.at >= recalled.at

\* No later answer is of an earlier question.
NoOlder == recalled # None /\ recalled' # None => recalled'.at >= recalled.at

\* A prompt takes the request over or makes a new one, and asks for it.
LEMMA PromptAsks ==
  ASSUME LearningInv, NEW text \in Texts \cup {Unusable}, Learning!prompt(text)
  PROVE  LearningInv' /\ NoOlder
<1> DEFINE same == request # None /\ text # Unusable /\ request.text = text
           kept == IF same THEN request ELSE [object |-> asked + 1, text |-> text, issued |-> 0, applied |-> 0]
           next == [object |-> kept.object, text |-> kept.text, issued |-> kept.issued + 1, applied |-> kept.applied]
           new == [kind |-> "prompt", object |-> next.object, sequence |-> next.issued, text |-> text, at |-> asked + 1, answer |-> None]
<1>1. kept \in Request /\ kept # None /\ kept.text = text
  BY SessionsAssumption DEF LearningInv, Request
<1>2. [kept EXCEPT !.issued = @ + 1] = next
  <2> HIDE DEF kept
  <2> QED
    BY <1>1 DEF Request
<1>3. next \in Request /\ next # None /\ next.text = text /\ next.object = kept.object /\ next.applied = kept.applied
      /\ next.issued = kept.issued + 1
  <2> HIDE DEF kept
  <2>1. next \in Request
    BY <1>1 DEF Request
  <2> QED
    BY <1>1, <2>1, SessionsAssumption
<1>4. /\ asked' = asked + 1 /\ recalled' = (IF same THEN recalled ELSE None)
      /\ \/ request' = kept /\ operations' = operations
         \/ request' = next /\ operations' \subseteq operations \cup {new}
  BY <1>2 DEF Learning!prompt, Learning!newRequest, Learning!owned
<1> HIDE DEF next
<1>5. new \in Operation /\ new.kind = "prompt" /\ new.object = next.object /\ new.sequence = next.issued
      /\ new.text = text /\ new.at = asked + 1
  BY <1>3 DEF Operation, Request, LearningInv
<1> HIDE DEF new
<1>6. CASE same
  <2>1. kept = request /\ request # None
    BY <1>6
  <2> HIDE DEF kept, same
  <2> QED
    BY <1>1, <1>3, <1>4, <1>5, <1>6, <2>1 DEF LearningInv, NoOlder, Recalls, Operation, Request
<1>7. CASE ~same
  <2>1. kept.object = asked + 1 /\ kept.issued = 0
    BY <1>7
  <2> HIDE DEF kept, same
  <2>2. recalled' = None
    BY <1>4, <1>7
  <2>3. \A o \in operations : o.object # kept.object
    BY <2>1 DEF LearningInv, Operation
  <2> QED
    BY <1>1, <1>3, <1>4, <1>5, <2>1, <2>2, <2>3 DEF LearningInv, NoOlder, Recalls, Operation, Request
<1> QED
  BY <1>6, <1>7

\* A change of the model asks once more for the text of the request.
LEMMA SwitchAsks ==
  ASSUME LearningInv, Learning!modelSelected
  PROVE  LearningInv' /\ NoOlder
<1> DEFINE kept == IF request = None THEN [object |-> asked + 1, text |-> Unusable, issued |-> 0, applied |-> 0] ELSE request
           next == [object |-> kept.object, text |-> kept.text, issued |-> kept.issued + 1, applied |-> kept.applied]
           new == [kind |-> "switch", object |-> next.object, sequence |-> next.issued, text |-> next.text, at |-> asked + 1, answer |-> None]
<1>1. kept \in Request /\ kept # None
  BY SessionsAssumption DEF LearningInv, Request
<1>2. [kept EXCEPT !.issued = @ + 1] = next
  <2> HIDE DEF kept
  <2> QED
    BY <1>1 DEF Request
<1>3. next \in Request /\ next # None /\ next.text = kept.text /\ next.object = kept.object /\ next.applied = kept.applied
      /\ next.issued = kept.issued + 1
  <2> HIDE DEF kept
  <2>1. next \in Request
    BY <1>1 DEF Request
  <2> QED
    BY <1>1, <2>1, SessionsAssumption
<1>4. /\ asked' = asked + 1 /\ recalled' = recalled /\ request' = next /\ operations' \subseteq operations \cup {new}
  BY <1>2 DEF Learning!modelSelected, Learning!newRequest, Learning!owned
<1> HIDE DEF next
<1>5. new \in Operation /\ new.kind = "switch" /\ new.object = next.object /\ new.sequence = next.issued
      /\ new.text = next.text /\ new.at = asked + 1
  BY <1>3 DEF Operation, Request, LearningInv
<1> HIDE DEF new
<1>6. CASE request # None
  <2>1. kept = request
    BY <1>6
  <2> HIDE DEF kept
  <2> QED
    BY <1>1, <1>3, <1>4, <1>5, <1>6, <2>1 DEF LearningInv, NoOlder, Recalls, Operation, Request
<1>7. CASE request = None
  <2>1. kept.object = asked + 1 /\ kept.issued = 0
    BY <1>7
  <2> HIDE DEF kept
  <2>2. recalled = None /\ recalled' = None
    BY <1>4, <1>7 DEF LearningInv
  <2>3. \A o \in operations : o.object # kept.object
    BY <2>1 DEF LearningInv, Operation
  <2> QED
    BY <1>1, <1>3, <1>4, <1>5, <2>1, <2>2, <2>3 DEF LearningInv, NoOlder, Recalls, Operation, Request
<1> QED
  BY <1>6, <1>7

\* A handoff asks for nothing and keeps what was recalled.
LEMMA HandoffAsks ==
  ASSUME LearningInv, Learning!ended
  PROVE  LearningInv' /\ NoOlder
<1> DEFINE new == [kind |-> "handoff", object |-> request.object, sequence |-> 0, text |-> request.text, at |-> asked + 1, answer |-> None]
<1>1. /\ asked' = asked + 1 /\ recalled' = recalled /\ request' = request /\ operations' \subseteq operations \cup {new}
      /\ request # None /\ request \in Request
  BY DEF Learning!ended, Learning!owned, LearningInv
<1>2. new \in Operation /\ new.kind = "handoff" /\ new.object = request.object /\ new.sequence = 0
      /\ new.text = request.text /\ new.at = asked + 1 /\ new.answer = None
  BY <1>1 DEF Operation, Request, LearningInv
<1> HIDE DEF new
<1> QED
  BY <1>1, <1>2 DEF LearningInv, NoOlder, Recalls, Operation, Request

\* An operation goes on to ask the memory, or ends.
LEMMA MessagesRead ==
  ASSUME LearningInv, NEW o \in operations, Learning!readMessages(o)
  PROVE  LearningInv' /\ NoOlder
<1> DEFINE new == [o EXCEPT !.answer = "asking"]
<1>1. /\ asked' = asked /\ recalled' = recalled /\ request' = request
      /\ \/ operations' \subseteq operations
         \/ o.kind # "handoff" /\ operations' = (operations \ {o}) \cup {new}
  BY DEF Learning!readMessages
<1>2. o \in Operation
  BY DEF LearningInv
<1>3. /\ new \in Operation /\ new.kind = o.kind /\ new.object = o.object /\ new.sequence = o.sequence
      /\ new.text = o.text /\ new.at = o.at
  BY <1>2 DEF Operation
<1> HIDE DEF new
<1>4. CASE operations' \subseteq operations
  BY <1>1, <1>4 DEF LearningInv, NoOlder, Request
<1>5. CASE o.kind # "handoff" /\ operations' = (operations \ {o}) \cup {new}
  BY <1>1, <1>2, <1>3, <1>5 DEF LearningInv, NoOlder, Recalls, Request, Operation
<1> QED
  BY <1>1, <1>4, <1>5

\* An answer is taken for the current request alone.
LEMMA RecallTaken ==
  ASSUME LearningInv, NEW o \in operations, Learning!recallEnds(o)
  PROVE  LearningInv' /\ NoOlder
<1>1. o \in Operation /\ o.kind # "handoff" /\ operations' = operations \ {o} /\ asked' = asked
  BY SessionsAssumption DEF Learning!recallEnds, LearningInv
<1>2. CASE ~Learning!accepts(o)
  <2>1. request' = request /\ recalled' = recalled
    BY <1>2 DEF Learning!recallEnds
  <2> QED
    BY <1>1, <2>1 DEF LearningInv, NoOlder, Request
<1>3. CASE Learning!accepts(o)
  <2> DEFINE new == [request EXCEPT !.applied = o.sequence]
             answer == [text |-> o.text, at |-> o.at]
  <2>1. request # None /\ request \in Request /\ request.object = o.object /\ o.sequence >= request.applied
    BY <1>3 DEF Learning!accepts, Learning!current, LearningInv
  <2>2. request' = new /\ recalled' \in {None, answer}
    BY <1>3 DEF Learning!recallEnds, Learning!runKiokukoMemoryOperation
  <2>3. /\ new \in Request /\ new # None /\ new.object = request.object /\ new.text = request.text
        /\ new.issued = request.issued /\ new.applied = o.sequence
    <3>1. new \in Request /\ new.object = request.object /\ new.text = request.text
          /\ new.issued = request.issued /\ new.applied = o.sequence
      BY <1>1, <2>1 DEF Request, Operation
    <3> QED
      BY <3>1, SessionsAssumption
  <2>4. answer.text = o.text /\ answer.at = o.at
    OBVIOUS
  <2> HIDE DEF new, answer
  <2>5. o.text = request.text /\ o.at \in 0..asked
    BY <1>1, <2>1 DEF LearningInv, Operation
  <2>6. recalled # None => o.at >= recalled.at
    BY <1>1, <2>1 DEF LearningInv, Recalls
  <2>7. \A q \in operations' : Recalls(q) /\ q.object = o.object /\ q.sequence >= o.sequence => q.at >= o.at
    BY <1>1 DEF LearningInv, Recalls, Operation
  <2>8. recalled' # None =>
          /\ request' # None /\ recalled'.text = request'.text /\ recalled'.at \in 0..asked
          /\ \A q \in operations' : Recalls(q) /\ q.object = request'.object /\ q.sequence >= request'.applied => q.at >= recalled'.at
    BY <2>1, <2>2, <2>3, <2>4, <2>5, <2>7
  <2>9. request'.object <= asked /\ \A q \in operations' : q.object = request'.object => q.text = request'.text /\ q.sequence <= request'.issued
    BY <1>1, <2>1, <2>2, <2>3 DEF LearningInv
  <2>10. NoOlder
    BY <2>2, <2>4, <2>6 DEF NoOlder
  <2> QED
    BY <1>1, <2>2, <2>3, <2>8, <2>9, <2>10 DEF LearningInv
<1> QED
  BY <1>2, <1>3

\* Every step of the recall keeps LearningInv, and takes no older answer.
LEMMA LearningStep == LearningInv /\ [Learning!Next]_learningVars => LearningInv' /\ NoOlder
<1> SUFFICES ASSUME LearningInv, [Learning!Next]_learningVars PROVE LearningInv' /\ NoOlder
  OBVIOUS
<1>1. ASSUME UNCHANGED <<asked, request, recalled>>, operations' \subseteq operations
      PROVE  LearningInv' /\ NoOlder
  BY <1>1 DEF LearningInv, NoOlder, Request
<1>2. CASE UNCHANGED learningVars
  BY <1>1, <1>2 DEF learningVars
<1>3. CASE Learning!Next
  BY <1>1, <1>3, PromptAsks, SwitchAsks, HandoffAsks, MessagesRead, RecallTaken
     DEF Learning!Next, Learning!dispose, Learning!gives
<1> QED
  BY <1>2, <1>3

\* What all scenarios do to the recall is what the plugin does.
LEMMA OnlyLearningSteps == [AllNext]_all => [Learning!Next]_learningVars
  BY DEF AllNext, all, InTrace, InLearning, InMeditation, InRecord, Learning!Next

\* What the model is told was recalled for the text of the last prompt, and
\* never gives way to what was asked for earlier, in whatever order the answers
\* of the memory arrive: the numbers issued and applied of requestState.
THEOREM RecallFollows == SessionsSpec => RecallFollowsPrompt
<1>1. AllInit => LearningInv
  BY SessionsAssumption DEF AllInit, Learning!Init, LearningInv
<1>2. LearningInv /\ [AllNext]_all => LearningInv' /\ NoOlder
  BY OnlyLearningSteps, LearningStep
<1>3. LearningInv => (recalled # None => request # None /\ recalled.text = request.text)
  BY DEF LearningInv
<1>4. SessionsSpec => [](recalled # None => request # None /\ recalled.text = request.text)
  BY <1>1, <1>2, <1>3, PTL DEF SessionsSpec
<1>5. NoOlder => [recalled # None /\ recalled' # None => recalled'.at >= recalled.at]_learningVars
  BY DEF NoOlder
<1>6. SessionsSpec => [][recalled # None /\ recalled' # None => recalled'.at >= recalled.at]_learningVars
  <2>1. LearningInv /\ [AllNext]_all => [recalled # None /\ recalled' # None => recalled'.at >= recalled.at]_learningVars
    BY <1>2, <1>5
  <2> QED
    BY <1>1, <1>2, <2>1, PTL DEF SessionsSpec
<1> QED
  BY <1>4, <1>6 DEF RecallFollowsPrompt, Learning!RecallFollowsPrompt, Learning!learningVars, learningVars

-------------------------------------------------------------------------------
(* The meditation of compactions.                                          *)

Boundary == [revision : Nat, last : Nat, repository : 0..1]
Cycle == [boundary : Boundary, summary : Nat \cup {None}, state : {"captured", "queued", "completed"}]
Save == [event : Nat, pc : {"read", "bind", "post", "answered"}, summary : Nat \cup {None}]
Meditating == [cycle : Nat, summary : Nat]

MeditationTypes ==
  /\ cycles \in Seq(Cycle) /\ summaries \in Seq(Nat) /\ started \in 0..MaxCompactions
  /\ saves \in SUBSET Save /\ meditations \in SUBSET Meditating
  /\ run \in [revision : Nat, last : Nat, open : BOOLEAN] /\ repository \in 0..1
  /\ hook \in [pc : {"capture", "store"}, revision : Nat] \cup {None}
  /\ judged \in [1..MaxCompactions -> Nat \cup {None}]

\* A compaction has one summary and at most one cycle, and a summary that is
\* posted has a cycle to go to.
Counts ==
  /\ Len(summaries) <= started /\ started <= Len(summaries) + 1
  /\ Len(cycles) <= started
  /\ hook # None => started = Len(summaries) + 1
  /\ hook # None /\ hook.pc = "capture" => Len(cycles) < started
  /\ pending # None \/ (hook # None /\ hook.pc = "store") => cycles # <<>>
  /\ \A s \in saves : s.pc \in {"post", "answered"} => cycles # <<>>

\* A job has the summary of its cycle, and so has what was judged.
OneSummary ==
  /\ \A j \in meditations : j.cycle \in 1..Len(cycles) /\ cycles[j.cycle].summary = j.summary
  /\ \A c \in 1..Len(cycles) : cycles[c].state = "completed" => cycles[c].summary # None /\ judged[c] = cycles[c].summary

\* Events, summaries and boundaries follow one another; what is saved was made
\* at or after the event that asked for it.
Timely ==
  /\ \A n \in 1..Len(summaries) : summaries[n] <= run.last
  /\ \A m, n \in 1..Len(summaries) : m <= n => summaries[m] <= summaries[n]
  /\ \A c \in 1..Len(cycles) : cycles[c].boundary.last <= run.last
  /\ \A c \in 1..Len(cycles) : cycles[c].summary # None => cycles[c].summary \in 1..Len(summaries)
  /\ \A s \in saves : s.event \in 1..Len(summaries)
  /\ \A s \in saves : s.pc # "read" => s.summary # None /\ s.event <= s.summary /\ s.summary <= Len(summaries)

\* Nothing that is on its way is of an earlier compaction than the newest cycle.
Alone ==
  /\ \A c \in 1..Len(cycles) : cycles[c].summary # None => cycles[c].boundary.last <= summaries[cycles[c].summary]
  /\ \A c, d \in 1..Len(cycles) : cycles[c].summary # None /\ cycles[d].summary = cycles[c].summary => d = c
  /\ \A s \in saves : cycles # <<>> => cycles[Len(cycles)].boundary.last <= summaries[s.event]
  /\ \A s \in saves, d \in 1..Len(cycles) : d < Len(cycles) /\ cycles[d].summary # None => cycles[d].summary < s.event

MeditationInv == MeditationTypes /\ Counts /\ OneSummary /\ Timely /\ (overtaken \/ Alone)

\* The types MeditationInv says of.
LEMMA MeditationHas ==
  ASSUME MeditationInv
  PROVE  /\ cycles \in Seq(Cycle) /\ Len(cycles) \in Nat /\ summaries \in Seq(Nat) /\ Len(summaries) \in Nat /\ run.last \in Nat
         /\ \A n \in 1..Len(summaries) : summaries[n] \in Nat
         /\ \A c \in 1..Len(cycles) : cycles[c] \in Cycle /\ cycles[c].boundary.last \in Nat /\ cycles[c].summary \in Nat \cup {None}
         /\ \A s \in saves : s \in Save /\ s.event \in Nat /\ s.summary \in Nat \cup {None}
         /\ None \notin Nat
<1>1. /\ cycles \in Seq(Cycle) /\ Len(cycles) \in Nat /\ summaries \in Seq(Nat) /\ Len(summaries) \in Nat /\ run.last \in Nat
      /\ \A s \in saves : s \in Save
  BY DEF MeditationInv, MeditationTypes
<1>2. \A c \in 1..Len(cycles) : cycles[c] \in Cycle
  BY <1>1
<1>3. \A x \in Cycle : x.boundary.last \in Nat /\ x.summary \in Nat \cup {None}
  BY DEF Cycle, Boundary
<1>4. \A x \in Save : x.event \in Nat /\ x.summary \in Nat \cup {None}
  BY DEF Save
<1> QED
  BY <1>1, <1>2, <1>3, <1>4, SessionsAssumption

\* The run and the repository move on: events only become more.
LEMMA RunWorks ==
  ASSUME MeditationInv, Meditation!work
  PROVE  MeditationInv'
<1>1. /\ run' \in [revision : Nat, last : Nat, open : BOOLEAN] /\ run'.last >= run.last
      /\ repository' \in 0..1
      /\ UNCHANGED <<hook, started, summaries, saves, pending, accepted, cycles, meditations, judged, overtaken>>
  <2>1. run \in [revision : Nat, last : Nat, open : BOOLEAN] /\ repository \in 0..1
    BY DEF MeditationInv, MeditationTypes
  <2>2. PICK no \in BOOLEAN : no = FALSE
    OBVIOUS
  <2>3. \/ run' = [run EXCEPT !.last = run.last + 1] /\ repository' = repository
        \/ run' = [run EXCEPT !.revision = run.revision + 1] /\ repository' = repository
        \/ run' = [run EXCEPT !.open = no] /\ repository' = repository
        \/ run' = run /\ repository' = 1 - repository
    BY <2>2, Zenon DEF Meditation!work
  <2>4. CASE run' = [run EXCEPT !.open = no]
    <3>1. repository' \in 0..1
      BY <2>1, <2>3
    <3> QED
      BY <2>1, <2>4, <3>1 DEF Meditation!work
  <2>5. CASE ~(run' = [run EXCEPT !.open = no])
    BY <2>1, <2>3, <2>5 DEF Meditation!work
  <2> QED
    BY <2>4, <2>5
<1>2. MeditationTypes' /\ Counts' /\ OneSummary' /\ (overtaken \/ Alone)'
  BY <1>1 DEF MeditationInv, MeditationTypes, Counts, OneSummary, Alone
<1>3. Timely'
  <2>1. run.last \in Nat /\ run'.last \in Nat /\ (\A n \in 1..Len(summaries) : summaries[n] \in Nat)
        /\ \A c \in 1..Len(cycles) : cycles[c].boundary.last \in Nat
    BY <1>1, MeditationHas
  <2> QED
    BY <1>1, <2>1 DEF MeditationInv, Timely
<1> QED
  BY <1>2, <1>3 DEF MeditationInv

\* A compaction begins when the last one has its summary.
LEMMA CompactionStarts ==
  ASSUME MeditationInv, Meditation!startCompaction
  PROVE  MeditationInv'
<1>1. /\ started = Len(summaries) /\ started < MaxCompactions /\ started' = started + 1 /\ hook = None
      /\ hook' \in [pc : {"capture", "store"}, revision : Nat] \cup {None}
      /\ hook' # None => hook'.pc = "capture"
      /\ UNCHANGED <<run, repository, summaries, saves, pending, accepted, cycles, meditations, judged, overtaken>>
  BY DEF Meditation!startCompaction, MeditationInv, MeditationTypes
<1>2. started' \in 0..MaxCompactions /\ Len(summaries) \in Nat /\ Len(cycles) \in Nat
  BY <1>1, SessionsAssumption DEF MeditationInv, MeditationTypes
<1>3. MeditationTypes'
  BY <1>1, <1>2 DEF MeditationInv, MeditationTypes
<1>4. Counts'
  BY <1>1, <1>2 DEF MeditationInv, Counts, MeditationTypes
<1>5. OneSummary' /\ Timely' /\ (overtaken \/ Alone)'
  BY <1>1 DEF MeditationInv, OneSummary, Timely, Alone
<1> QED
  BY <1>3, <1>4, <1>5 DEF MeditationInv

\* A boundary is captured before the summary of its compaction is there; if
\* a summary is being saved meanwhile, the compaction has overtaken it.
LEMMA BoundaryCaptured ==
  ASSUME MeditationInv, Meditation!captureCompactionBoundary
  PROVE  MeditationInv'
<1>1. /\ hook # None /\ hook.pc = "capture"
      /\ UNCHANGED <<run, repository, started, summaries, saves, pending, accepted, meditations, judged>>
  BY DEF Meditation!captureCompactionBoundary
<1>2. CASE hook' = None /\ UNCHANGED <<cycles, overtaken>>
  BY <1>1, <1>2 DEF MeditationInv, MeditationTypes, Counts, OneSummary, Timely, Alone
<1>3. CASE /\ cycles' = IF Meditation!captured THEN cycles ELSE Append(cycles, [boundary |-> Meditation!boundary, summary |-> None, state |-> "captured"])
           /\ overtaken' = (overtaken \/ saves # {})
           /\ hook' \in {None, [hook EXCEPT !.pc = "store"]}
  <2>1. hook' \in [pc : {"capture", "store"}, revision : Nat] \cup {None} /\ (hook' # None => hook'.pc = "store")
    BY <1>1, <1>3 DEF MeditationInv, MeditationTypes
  <2>2. CASE cycles' = cycles /\ cycles # <<>>
    BY <1>1, <1>3, <2>1, <2>2 DEF MeditationInv, MeditationTypes, Counts, OneSummary, Timely, Alone
  <2>3. CASE cycles' = Append(cycles, [boundary |-> Meditation!boundary, summary |-> None, state |-> "captured"])
    <3> DEFINE new == [boundary |-> Meditation!boundary, summary |-> None, state |-> "captured"]
    <3>1. new \in Cycle /\ new.summary = None /\ new.state = "captured" /\ new.boundary.last = run.last
      BY DEF MeditationInv, MeditationTypes, Cycle, Boundary, Meditation!boundary
    <3> HIDE DEF new
    <3>2. cycles \in Seq(Cycle) /\ Len(cycles) \in Nat /\ run.last \in Nat
      BY DEF MeditationInv, MeditationTypes
    <3>3. /\ cycles' \in Seq(Cycle) /\ Len(cycles') = Len(cycles) + 1 /\ cycles' # <<>>
          /\ cycles'[Len(cycles')] = new /\ \A c \in 1..Len(cycles) : cycles'[c] = cycles[c]
      <4>1. cycles' = Append(cycles, new)
        BY <2>3 DEF new
      <4> QED
        BY <3>1, <3>2, <4>1
    <3>4. MeditationTypes' /\ Counts'
      BY <1>1, <2>1, <3>2, <3>3 DEF MeditationInv, MeditationTypes, Counts
    <3>5. \A c \in 1..Len(cycles') : c \in 1..Len(cycles) \/ (c = Len(cycles') /\ cycles'[c] = new)
      BY <3>2, <3>3
    <3>6. OneSummary' /\ Timely'
      <4>1. \A c \in 1..Len(cycles) : c \in 1..Len(cycles')
        BY <3>2, <3>3
      <4>2. OneSummary'
        <5>1. \A j \in meditations' : j.cycle \in 1..Len(cycles') /\ cycles'[j.cycle].summary = j.summary
          BY <1>1, <3>3, <4>1 DEF MeditationInv, OneSummary
        <5>2. \A c \in 1..Len(cycles') : cycles'[c].state = "completed" => cycles'[c].summary # None /\ judged'[c] = cycles'[c].summary
          BY <1>1, <3>1, <3>3, <3>5 DEF MeditationInv, OneSummary
        <5> QED
          BY <5>1, <5>2 DEF OneSummary
      <4>3. Timely'
        <5>1. \A c \in 1..Len(cycles') : cycles'[c].boundary.last <= run.last
          BY <3>1, <3>2, <3>3, <3>5 DEF MeditationInv, Timely
        <5>2. \A c \in 1..Len(cycles') : cycles'[c].summary # None => cycles'[c].summary \in 1..Len(summaries)
          BY <3>1, <3>3, <3>5 DEF MeditationInv, Timely
        <5> QED
          BY <1>1, <5>1, <5>2 DEF MeditationInv, Timely
      <4> QED
        BY <4>2, <4>3
    <3>7. ~overtaken' => Alone'
      <4> SUFFICES ASSUME ~overtaken' PROVE Alone'
        OBVIOUS
      <4>1. saves' = {} /\ Alone
        BY <1>1, <1>3 DEF MeditationInv
      <4> QED
        BY <1>1, <3>1, <3>3, <3>5, <4>1 DEF Alone
    <3> QED
      BY <3>4, <3>6, <3>7 DEF MeditationInv
  <2>4. Meditation!captured => cycles # <<>>
    BY DEF Meditation!captured
  <2> QED
    BY <1>3, <2>2, <2>3, <2>4
<1> QED
  BY <1>2, <1>3 DEF Meditation!captureCompactionBoundary

\* The plugin remembers that a boundary was accepted.
LEMMA PendingStored ==
  ASSUME MeditationInv, Meditation!storePending
  PROVE  MeditationInv'
BY DEF Meditation!storePending, MeditationInv, MeditationTypes, Counts, OneSummary, Timely, Alone

\* The newest summary is no earlier than any boundary.
LEMMA SummaryMade ==
  ASSUME MeditationInv, Meditation!compactionEnds
  PROVE  MeditationInv'
<1> DEFINE new == [event |-> started, pc |-> "read", summary |-> None]
<1>1. /\ hook = None /\ started = Len(summaries) + 1 /\ summaries' = Append(summaries, run.last)
      /\ \/ saves' = saves \cup {new} \/ saves' = saves
      /\ UNCHANGED <<run, repository, hook, started, pending, accepted, cycles, meditations, judged, overtaken>>
  BY DEF Meditation!compactionEnds, MeditationInv, MeditationTypes, Counts
<1>2. new \in Save /\ new.event = started /\ new.pc = "read"
  BY DEF MeditationInv, MeditationTypes, Save
<1> HIDE DEF new
<1>3. summaries \in Seq(Nat) /\ run.last \in Nat /\ started \in Nat
  BY DEF MeditationInv, MeditationTypes
<1>4. /\ summaries' \in Seq(Nat) /\ Len(summaries') = started /\ summaries'[started] = run.last
      /\ \A n \in 1..Len(summaries) : summaries'[n] = summaries[n]
  BY <1>1, <1>3
<1>5. MeditationTypes' /\ Counts' /\ OneSummary'
  BY <1>1, <1>2, <1>3, <1>4 DEF MeditationInv, MeditationTypes, Counts, OneSummary
<1>6. \A n \in 1..Len(summaries') : n \in 1..Len(summaries) \/ (n = started /\ summaries'[n] = run.last)
  BY <1>1, <1>3, <1>4
<1>7. \A n \in 1..Len(summaries) : n \in 1..Len(summaries') /\ n < started /\ n \in Nat
  BY <1>1, <1>3, <1>4
<1>8. Timely'
  <2>1. \A n \in 1..Len(summaries') : summaries'[n] \in Nat /\ summaries'[n] <= run'.last
    BY <1>1, <1>3, <1>4, <1>6 DEF MeditationInv, Timely
  <2>2. \A m, n \in 1..Len(summaries') : m <= n => summaries'[m] <= summaries'[n]
    BY <1>1, <1>3, <1>4, <1>6, <1>7, <2>1 DEF MeditationInv, Timely
  <2>3. \A c \in 1..Len(cycles) : cycles[c].summary # None => cycles[c].summary \in 1..Len(summaries')
    BY <1>7 DEF MeditationInv, Timely
  <2>4. \A s \in saves' : s.event \in 1..Len(summaries')
    BY <1>1, <1>2, <1>3, <1>4, <1>7 DEF MeditationInv, Timely
  <2>5. \A s \in saves' : s.pc # "read" => s.summary # None /\ s.event <= s.summary /\ s.summary <= Len(summaries')
    <3> SUFFICES ASSUME NEW s \in saves', s.pc # "read" PROVE s.summary # None /\ s.event <= s.summary /\ s.summary <= Len(summaries')
      OBVIOUS
    <3>1. s \in saves /\ s \in Save
      BY <1>1, <1>2 DEF MeditationInv, MeditationTypes
    <3> QED
      BY <1>1, <1>3, <1>4, <3>1 DEF MeditationInv, Timely, Save
  <2> QED
    BY <1>1, <2>1, <2>2, <2>3, <2>4, <2>5 DEF MeditationInv, Timely
<1>9. ~overtaken' => Alone'
  <2> SUFFICES ASSUME ~overtaken' PROVE Alone'
    OBVIOUS
  <2>1. Alone
    BY <1>1 DEF MeditationInv
  <2>2. \A c \in 1..Len(cycles) : cycles[c].summary # None => summaries'[cycles[c].summary] = summaries[cycles[c].summary] /\ cycles[c].summary < started
    BY <1>4, <1>7 DEF MeditationInv, Timely
  <2>3. \A s \in saves : summaries'[s.event] = summaries[s.event]
    BY <1>4 DEF MeditationInv, Timely
  <2>4. cycles # <<>> => cycles[Len(cycles)].boundary.last <= run.last
    BY DEF MeditationInv, MeditationTypes, Timely
  <2> QED
    BY <1>1, <1>2, <1>4, <2>1, <2>2, <2>3, <2>4 DEF Alone
<1> QED
  BY <1>5, <1>8, <1>9 DEF MeditationInv

\* A summary that is being saved moves on, or is given up.
LEMMA SaveMoves ==
  ASSUME MeditationInv, NEW s \in saves,
         Meditation!readSummary(s) \/ Meditation!compareBinding(s) \/ Meditation!storeAccepted(s)
  PROVE  MeditationInv'
<1>1. UNCHANGED <<run, repository, hook, started, summaries, pending, cycles, meditations, judged, overtaken>>
  BY DEF Meditation!readSummary, Meditation!compareBinding, Meditation!storeAccepted
<1>2. s \in Save /\ s.event \in Nat /\ Len(summaries) \in Nat
  BY DEF MeditationInv, MeditationTypes, Save
<1> DEFINE Saves(t) ==
             /\ saves' \subseteq saves \cup {t} /\ t.event = s.event
             /\ t.pc # "read" => t.summary # None /\ t.event <= t.summary /\ t.summary <= Len(summaries)
             /\ t.pc \in {"post", "answered"} => cycles # <<>>
<1>3. \E t \in Save : Saves(t)
  <2>1. CASE saves' = saves \ {s}
    BY <1>2, <2>1 DEF MeditationInv, Counts, Timely
  <2>2. CASE Meditation!readSummary(s) /\ saves' # saves \ {s}
    <3> DEFINE t == [s EXCEPT !.pc = "bind", !.summary = Len(summaries)]
    <3>1. saves' = (saves \ {s}) \cup {t}
      BY <2>2 DEF Meditation!readSummary, Meditation!move, Meditation!ends, Meditation!extractOpenCodeCompactionSummary
    <3>2. t \in Save /\ t.event = s.event /\ t.pc = "bind" /\ t.summary = Len(summaries)
      BY <1>2 DEF Save
    <3> HIDE DEF t
    <3>3. s.event <= Len(summaries) /\ None \notin Nat
      BY <1>2, SessionsAssumption DEF MeditationInv, Timely
    <3> QED
      BY <1>2, <3>1, <3>2, <3>3
  <2>3. CASE Meditation!compareBinding(s) /\ saves' # saves \ {s}
    <3> DEFINE t == [s EXCEPT !.pc = "post", !.summary = s.summary]
    <3>1. saves' = (saves \ {s}) \cup {t} /\ pending = run.revision /\ s.pc = "bind"
      BY <2>3 DEF Meditation!compareBinding, Meditation!move, Meditation!ends
    <3>2. t \in Save /\ t.event = s.event /\ t.pc = "post" /\ t.summary = s.summary
      BY <1>2 DEF Save
    <3> HIDE DEF t
    <3>3. cycles # <<>>
      BY <3>1, SessionsAssumption DEF MeditationInv, MeditationTypes, Counts
    <3> QED
      BY <3>1, <3>2, <3>3 DEF MeditationInv, Timely
  <2> QED
    BY <2>1, <2>2, <2>3 DEF Meditation!storeAccepted, Meditation!ends
<1>4. PICK t \in Save : Saves(t)
  BY <1>3
<1>5. \A x \in saves' : x \in saves \/ x = t
  BY <1>4
<1>6. MeditationTypes' /\ Counts' /\ OneSummary'
  BY <1>1, <1>4, <1>5 DEF MeditationInv, MeditationTypes, Counts, OneSummary
<1>7. Timely'
  BY <1>1, <1>4, <1>5 DEF MeditationInv, Timely
<1>8. ~overtaken' => Alone'
  BY <1>1, <1>4, <1>5 DEF MeditationInv, Alone
<1> QED
  BY <1>6, <1>7, <1>8 DEF MeditationInv

\* A summary goes to the newest cycle, which keeps the first it gets.
LEMMA SummaryAttached ==
  ASSUME MeditationInv, NEW s \in saves, Meditation!compactionCommand(s)
  PROVE  MeditationInv'
<1> DEFINE n == Len(cycles)
<1>1. /\ s.pc = "post" /\ UNCHANGED <<run, repository, hook, started, summaries, pending, accepted, judged, overtaken>>
  BY DEF Meditation!compactionCommand
<1>2. s \in Save /\ n \in 1..Len(cycles) /\ s.summary \in 1..Len(summaries) /\ s.event <= s.summary /\ s.event \in 1..Len(summaries)
      /\ s.summary # None /\ s.summary \in Nat
  BY <1>1 DEF MeditationInv, MeditationTypes, Save, Counts, Timely
<1>3. \E t \in Save : saves' \subseteq saves \cup {t} /\ t.event = s.event /\ t.summary = s.summary
  <2> DEFINE t == [s EXCEPT !.pc = "answered", !.summary = s.summary]
  <2>1. saves' \subseteq saves \cup {t}
    BY DEF Meditation!compactionCommand, Meditation!ends, Meditation!move, Meditation!runKiokukoCompactionHook
  <2>2. t \in Save /\ t.event = s.event /\ t.summary = s.summary
    BY <1>2 DEF Save
  <2> HIDE DEF t
  <2> QED
    BY <2>1, <2>2
<1>4. PICK t \in Save : saves' \subseteq saves \cup {t} /\ t.event = s.event /\ t.summary = s.summary
  BY <1>3
<1>5. \A x \in saves' : x \in saves \/ x = t
  BY <1>4
<1>6. \A x \in saves' : x.event \in 1..Len(summaries) /\ (x.pc # "read" => x.summary # None /\ x.event <= x.summary /\ x.summary <= Len(summaries))
  BY <1>2, <1>4, <1>5 DEF MeditationInv, Timely
<1>7. CASE UNCHANGED <<cycles, meditations>>
  <2>1. MeditationTypes' /\ Counts' /\ OneSummary' /\ Timely'
    BY <1>1, <1>2, <1>4, <1>5, <1>6, <1>7 DEF MeditationInv, MeditationTypes, Counts, OneSummary, Timely
  <2>2. ~overtaken' => Alone'
    BY <1>1, <1>4, <1>5, <1>7 DEF MeditationInv, Alone
  <2> QED
    BY <2>1, <2>2 DEF MeditationInv
<1>8. CASE Meditation!queueCompactionMeditation(s.summary)
  <2> DEFINE row == [cycles[n] EXCEPT !.summary = s.summary]
             job == [cycle |-> n, summary |-> s.summary]
  <2>1. cycles[n] \in Cycle /\ cycles \in Seq(Cycle) /\ Len(cycles) \in Nat
    BY <1>2 DEF MeditationInv, MeditationTypes
  <2>2. PICK st \in {"captured", "queued", "completed"} :
          /\ cycles' = [cycles EXCEPT ![n] = [cycles[n] EXCEPT !.summary = s.summary, !.state = st]]
          /\ st = "completed" => cycles[n].state = "completed"
          /\ meditations' \subseteq meditations \cup {job}
          /\ cycles[n].summary \in {None, s.summary}
    <3>1. WITNESS (IF cycles[n].state = "completed" THEN "completed" ELSE "queued") \in {"captured", "queued", "completed"}
    <3> QED
      BY <1>8, <2>1 DEF Meditation!queueCompactionMeditation, Meditation!attachable, Meditation!attachCompactionPost, Cycle
  <2> DEFINE new == [cycles[n] EXCEPT !.summary = s.summary, !.state = st]
  <2>3. new \in Cycle /\ new.summary = s.summary /\ new.state = st /\ new.boundary = cycles[n].boundary
    BY <1>2, <2>1 DEF Cycle
  <2> HIDE DEF new
  <2>4. /\ cycles' \in Seq(Cycle) /\ Len(cycles') = Len(cycles) /\ cycles'[n] = new /\ \A c \in 1..Len(cycles) : c # n => cycles'[c] = cycles[c]
        /\ DOMAIN cycles' = 1..Len(cycles)
    <3>1. cycles' = [cycles EXCEPT ![n] = new]
      BY <2>2 DEF new
    <3> QED
      BY <1>2, <2>1, <2>3, <3>1
  <2>5. job \in Meditating /\ job.cycle = n /\ job.summary = s.summary
    BY <1>2, <2>1 DEF Meditating
  <2> HIDE DEF job
  <2>6. MeditationTypes'
    <3>1. saves' \in SUBSET Save /\ meditations' \in SUBSET Meditating
      BY <1>4, <2>2, <2>5 DEF MeditationInv, MeditationTypes
    <3>2. /\ summaries' \in Seq(Nat) /\ started' \in 0..MaxCompactions
          /\ run' \in [revision : Nat, last : Nat, open : BOOLEAN] /\ repository' \in 0..1
          /\ hook' \in [pc : {"capture", "store"}, revision : Nat] \cup {None}
          /\ judged' \in [1..MaxCompactions -> Nat \cup {None}]
      BY <1>1 DEF MeditationInv, MeditationTypes
    <3> QED
      BY <2>4, <3>1, <3>2 DEF MeditationTypes
  <2>7. cycles' # <<>> /\ cycles # <<>> /\ Len(cycles') = n /\ n \in Nat /\ 1 <= n
    <3>1. Len(cycles') = n
      BY <2>4
    <3>2. n \in Nat
      BY <2>1
    <3>3. 1 <= n /\ n # 0
      BY <1>2, <3>2
    <3>4. Len(<<>>) = 0
      OBVIOUS
    <3> QED
      BY <3>1, <3>2, <3>3, <3>4
  <2>8. Counts'
    BY <1>1, <2>4, <2>7 DEF MeditationInv, Counts
  <2>9. OneSummary'
    <3>1. \A j \in meditations' : j.cycle \in 1..Len(cycles') /\ cycles'[j.cycle].summary = j.summary
      <4> SUFFICES ASSUME NEW j \in meditations' PROVE j.cycle \in 1..Len(cycles') /\ cycles'[j.cycle].summary = j.summary
        OBVIOUS
      <4>1. CASE j = job
        BY <1>2, <2>3, <2>4, <2>5, <4>1
      <4>2. CASE j \in meditations
        <5>1. j.cycle \in 1..Len(cycles) /\ cycles[j.cycle].summary = j.summary /\ j.summary # None
          BY <4>2, SessionsAssumption DEF MeditationInv, MeditationTypes, OneSummary, Meditating
        <5> QED
          BY <1>2, <2>2, <2>3, <2>4, <5>1
      <4> QED
        BY <2>2, <4>1, <4>2
    <3>2. \A c \in 1..Len(cycles') : cycles'[c].state = "completed" => cycles'[c].summary # None /\ judged'[c] = cycles'[c].summary
      <4> SUFFICES ASSUME NEW c \in 1..Len(cycles), cycles'[c].state = "completed" PROVE cycles'[c].summary # None /\ judged[c] = cycles'[c].summary
        BY <1>1, <2>4
      <4>1. CASE c = n
        <5>1. cycles[n].state = "completed" /\ judged[n] = cycles[n].summary /\ cycles[n].summary # None
          <6>1. st = "completed"
            BY <2>3, <2>4, <4>1
          <6>2. cycles[n].state = "completed"
            BY <2>2, <6>1
          <6> QED
            BY <1>2, <6>2 DEF MeditationInv, OneSummary
        <5> QED
          BY <1>2, <2>2, <2>3, <2>4, <4>1, <5>1
      <4>2. CASE c # n
        BY <2>4, <4>2 DEF MeditationInv, OneSummary
      <4> QED
        BY <4>1, <4>2
    <3> QED
      BY <3>1, <3>2 DEF OneSummary
  <2>10. Timely'
    BY <1>1, <1>2, <1>6, <2>3, <2>4 DEF MeditationInv, Timely
  <2>11. ~overtaken' => Alone'
    <3> SUFFICES ASSUME ~overtaken' PROVE Alone'
      OBVIOUS
    <3>1. Alone
      BY <1>1 DEF MeditationInv
    <3>2. cycles[n].boundary.last <= summaries[s.event] /\ summaries[s.event] <= summaries[s.summary]
          /\ cycles[n].boundary.last \in Nat /\ summaries[s.event] \in Nat /\ summaries[s.summary] \in Nat
      <4>1. cycles # <<>>
        BY <1>2
      <4> QED
        BY <1>2, <3>1, <4>1, MeditationHas DEF Alone, MeditationInv, Timely
    <3>3. \A d \in 1..Len(cycles) : d # n /\ cycles[d].summary # None => cycles[d].summary < s.event /\ cycles[d].summary \in Nat
      <4>1. \A d \in 1..Len(cycles) : d # n => d < Len(cycles)
        BY <1>2, <2>1
      <4> QED
        BY <3>1, <4>1, MeditationHas DEF Alone
    <3>4. \A d \in 1..Len(cycles) : d # n => cycles[d].summary # s.summary
      BY <1>2, <3>3, MeditationHas
    <3>5. \A c \in 1..Len(cycles') : cycles'[c].summary # None => cycles'[c].boundary.last <= summaries'[cycles'[c].summary]
      <4> SUFFICES ASSUME NEW c \in 1..Len(cycles), cycles'[c].summary # None PROVE cycles'[c].boundary.last <= summaries[cycles'[c].summary]
        <5>1. Len(cycles') = Len(cycles) /\ summaries' = summaries
          BY <1>1, <2>4
        <5> QED
          BY <5>1
      <4>1. CASE c = n
        <5>1. cycles'[c] = new
          BY <2>4, <4>1
        <5> QED
          BY <2>3, <3>2, <4>1, <5>1
      <4>2. CASE c # n
        BY <2>4, <3>1, <4>2 DEF Alone
      <4> QED
        BY <4>1, <4>2
    <3>6. \A c, d \in 1..Len(cycles') : cycles'[c].summary # None /\ cycles'[d].summary = cycles'[c].summary => d = c
      BY <2>3, <2>4, <3>1, <3>4 DEF Alone
    <3>7. \A x \in saves' : cycles' # <<>> => cycles'[Len(cycles')].boundary.last <= summaries'[x.event]
      <4>1. cycles # <<>> /\ Len(cycles') = n /\ cycles'[n].boundary = cycles[n].boundary
        BY <2>3, <2>4, <2>7
      <4>2. \A x \in saves : cycles[n].boundary.last <= summaries[x.event]
        BY <3>1, <4>1 DEF Alone
      <4> QED
        BY <1>1, <1>4, <1>5, <4>1, <4>2
    <3>8. \A x \in saves', d \in 1..Len(cycles') : d < Len(cycles') /\ cycles'[d].summary # None => cycles'[d].summary < x.event
      <4>1. \A d \in 1..Len(cycles') : d < Len(cycles') => d \in 1..Len(cycles) /\ d < Len(cycles) /\ cycles'[d] = cycles[d]
        <5>1. Len(cycles') = Len(cycles) /\ Len(cycles) \in Nat
          BY <2>1, <2>4
        <5>2. \A d \in 1..Len(cycles) : d < Len(cycles) => d # n
          BY <5>1
        <5> QED
          BY <2>4, <5>1, <5>2
      <4>2. \A x \in saves, d \in 1..Len(cycles) : d < Len(cycles) /\ cycles[d].summary # None => cycles[d].summary < x.event
        BY <3>1 DEF Alone
      <4> QED
        BY <1>4, <1>5, <4>1, <4>2
    <3> QED
      BY <3>5, <3>6, <3>7, <3>8 DEF Alone
  <2> QED
    BY <2>6, <2>8, <2>9, <2>10, <2>11 DEF MeditationInv
<1> QED
  BY <1>7, <1>8 DEF Meditation!compactionCommand

\* A job judges the claims of the summary of its cycle.
LEMMA ClaimsJudged ==
  ASSUME MeditationInv, NEW j \in meditations, Meditation!processCompactionMeditationJob(j)
  PROVE  MeditationInv'
<1> DEFINE n == j.cycle
           new == [cycles[n] EXCEPT !.state = "completed"]
<1>1. /\ n \in 1..Len(cycles) /\ cycles[n].summary = j.summary /\ j.summary \in Nat /\ cycles \in Seq(Cycle) /\ cycles[n] \in Cycle
      /\ n \in 1..MaxCompactions
  BY SessionsAssumption DEF MeditationInv, MeditationTypes, OneSummary, Meditating, Counts
<1>2. /\ judged' = [judged EXCEPT ![n] = j.summary] /\ cycles' = [cycles EXCEPT ![n] = new]
      /\ UNCHANGED <<repository, hook, started, summaries, saves, pending, accepted, meditations, overtaken>>
  BY DEF Meditation!processCompactionMeditationJob
<1>3. run' \in [revision : Nat, last : Nat, open : BOOLEAN] /\ run'.last >= run.last /\ run.last \in Nat /\ run'.last \in Nat
  <2>1. run \in [revision : Nat, last : Nat, open : BOOLEAN]
    BY DEF MeditationInv, MeditationTypes
  <2>2. run' = run \/ run' = [run EXCEPT !.last = run.last + 1]
    BY DEF Meditation!processCompactionMeditationJob
  <2> QED
    BY <2>1, <2>2
<1>4. new \in Cycle /\ new.summary = j.summary /\ new.boundary = cycles[n].boundary
  BY <1>1 DEF Cycle
<1> HIDE DEF new
<1>5. /\ cycles' \in Seq(Cycle) /\ Len(cycles') = Len(cycles) /\ cycles'[n] = new /\ \A c \in 1..Len(cycles) : c # n => cycles'[c] = cycles[c]
  BY <1>1, <1>2, <1>4
<1>6. /\ judged' \in [1..MaxCompactions -> Nat \cup {None}] /\ judged'[n] = j.summary
      /\ \A c \in 1..MaxCompactions : c # n => judged'[c] = judged[c]
  BY <1>1, <1>2 DEF MeditationInv, MeditationTypes
<1>7. \A c \in 1..Len(cycles) : cycles'[c].summary = cycles[c].summary /\ cycles'[c].boundary = cycles[c].boundary
  BY <1>1, <1>4, <1>5
<1>8. \A c \in 1..Len(cycles) : c \in 1..MaxCompactions
  BY <1>1, SessionsAssumption DEF MeditationInv, MeditationTypes, Counts
<1>9. cycles # <<>> /\ cycles' # <<>>
  BY <1>1, <1>5
<1>10. MeditationTypes' /\ Counts'
  BY <1>2, <1>3, <1>5, <1>6, <1>9 DEF MeditationInv, MeditationTypes, Counts
<1>11. OneSummary'
  <2>1. \A x \in meditations' : x.cycle \in 1..Len(cycles') /\ cycles'[x.cycle].summary = x.summary
    BY <1>2, <1>5, <1>7 DEF MeditationInv, OneSummary
  <2>2. \A c \in 1..Len(cycles') : cycles'[c].state = "completed" => cycles'[c].summary # None /\ judged'[c] = cycles'[c].summary
    BY <1>1, <1>4, <1>5, <1>6, <1>8, SessionsAssumption DEF MeditationInv, OneSummary
  <2> QED
    BY <2>1, <2>2 DEF OneSummary
<1>12. Timely'
  <2>1. (\A c \in 1..Len(cycles) : cycles[c].boundary.last \in Nat) /\ (\A c \in 1..Len(summaries) : summaries[c] \in Nat)
    BY MeditationHas
  <2> QED
    BY <1>2, <1>3, <1>5, <1>7, <2>1 DEF MeditationInv, Timely
<1>13. ~overtaken' => Alone'
  <2>1. Len(cycles) \in 1..Len(cycles)
    BY <1>1
  <2> QED
    BY <1>2, <1>5, <1>7, <1>9, <2>1 DEF MeditationInv, Alone
<1> QED
  BY <1>10, <1>11, <1>12, <1>13 DEF MeditationInv

\* Every step of the compactions keeps MeditationInv.
LEMMA MeditationStep == MeditationInv /\ [Meditation!Next]_meditationVars => MeditationInv'
<1> SUFFICES ASSUME MeditationInv, [Meditation!Next]_meditationVars PROVE MeditationInv'
  OBVIOUS
<1>1. CASE UNCHANGED meditationVars
  BY <1>1 DEF meditationVars, MeditationInv, MeditationTypes, Counts, OneSummary, Timely, Alone
<1>2. CASE Meditation!Next
  BY <1>2, RunWorks, CompactionStarts, BoundaryCaptured, PendingStored, SummaryMade, SaveMoves, SummaryAttached, ClaimsJudged
  DEF Meditation!Next
<1> QED
  BY <1>1, <1>2

\* The session begins without a compaction.
LEMMA MeditationBegins == AllInit => MeditationInv
<1> SUFFICES ASSUME AllInit PROVE MeditationInv
  OBVIOUS
<1>1. cycles = <<>> /\ summaries = <<>> /\ Len(cycles) = 0 /\ Len(summaries) = 0
  BY DEF AllInit, Meditation!Init
<1> QED
  BY <1>1, SessionsAssumption DEF AllInit, Meditation!Init, MeditationInv, MeditationTypes, Counts, OneSummary, Timely, Alone

\* What all scenarios do to the compactions is what the plugin and the jobs do.
LEMMA OnlyMeditationSteps == [AllNext]_all => [Meditation!Next]_meditationVars
BY DEF AllNext, all, InTrace, InLearning, InMeditation, InRecord, Meditation!Next

\* MeditationInv says what is promised.
LEMMA OneSummaryEach == MeditationInv => Meditation!MeditatedOnce
BY DEF MeditationInv, OneSummary, Alone, Meditation!MeditatedOnce

-------------------------------------------------------------------------------
(* The record of the Enno run.                                             *)

Result == [run : Runs, execution : Choice \cup {None}, contract : Contract \cup {None}, ended : BOOLEAN]
Sight == [record : Contract \cup {None}, ended : BOOLEAN]

\* The choices of a run that are known: to the database, to a result on its
\* way, and to the plugin.
Known(r) ==
  {c \in Choice : \/ truth[r] # None /\ c = truth[r].choice
                  \/ \E s \in results : s.run = r /\ s.execution = c
                  \/ choice # None /\ choice.run = r /\ choice.revision = c.revision /\ choice.kind = c.kind}

\* The database has the latest of them, and a run that left Enno is not back.
Follows(K, T) ==
  \A c \in K : /\ c.revision <= T.choice.revision
               /\ c.revision = T.choice.revision => c.kind = T.choice.kind
               /\ T.contract = None /\ ~T.left => c.kind # "enno"
Unbroken(K) ==
  \A x, y, z \in K : x.kind = "enno" /\ z.kind = "enno" /\ x.revision <= y.revision /\ y.revision <= z.revision => y.kind = "enno"
RowSound(T) == (T.contract # None <=> T.choice.kind = "enno") /\ (T.left => T.choice.kind # "enno")
Sound(K, T) ==
  /\ T = None => K = {}
  /\ T # None => RowSound(T) /\ Follows(K, T)
  /\ Unbroken(K)

\* A contract that is known is not later than that of the database.
NotAhead(contract, T) == T.contract # None => ~Record!older(T.contract, contract)

ResultSound(s, T) ==
  /\ s.contract # None => /\ s.execution # None => s.execution.kind = "enno"
                          /\ NotAhead(s.contract, T) /\ (T.left \/ T.contract # None)
  /\ s.ended => T.ended /\ s.contract = T.contract /\ (s.execution # None => s.execution = T.choice)

Latest ==
  entry # None =>
    /\ choice # None /\ choice.run = entry.run /\ choice.kind = "enno"
    /\ entry.run \notin retired /\ truth[entry.run] # None /\ NotAhead(entry, truth[entry.run])
    /\ seen[entry.run].record = [revision |-> entry.revision, phase |-> entry.phase]

\* A record that was dropped is of a run that is retired or has left Enno.
Dropped(r) ==
  \/ r \in retired
  \/ entry # None /\ entry.run = r
  \/ /\ choice # None /\ choice.run = r /\ choice.kind # "enno" /\ truth[r].left
     /\ \A c \in Known(r) : c.kind = "enno" => c.revision < choice.revision

RecordTypes ==
  /\ truth \in [Runs -> RunRow \cup {None}] /\ results \in SUBSET Result
  /\ choice \in ChoiceOfRun \cup {None} /\ entry \in ContractOfRun \cup {None}
  /\ retired \in SUBSET Runs /\ seen \in [Runs -> Sight]

RecordInv ==
  /\ RecordTypes
  /\ \A r \in Runs : Sound(Known(r), truth[r])
  /\ \A s \in results : truth[s.run] # None /\ ResultSound(s, truth[s.run])
  /\ Latest
  /\ \A r \in Runs : (seen[r].ended => r \in retired) /\ (seen[r].record # None => truth[r] # None /\ Dropped(r))

\* The types RecordInv says of.
LEMMA RecordHas ==
  ASSUME RecordInv
  PROVE  /\ \A r \in Runs : truth[r] # None => truth[r] \in RunRow /\ truth[r].choice \in Known(r)
         /\ \A s \in results : s \in Result /\ s.run \in Runs /\ truth[s.run] \in RunRow
         /\ \A s \in results : s.execution # None => s.execution \in Known(s.run)
         /\ choice # None => /\ choice \in ChoiceOfRun /\ [revision |-> choice.revision, kind |-> choice.kind] \in Known(choice.run)
                             /\ truth[choice.run] \in RunRow
         /\ entry # None => entry \in ContractOfRun /\ truth[entry.run] \in RunRow
         /\ \A r \in Runs : Known(r) \subseteq Choice
<1>1. \A r \in Runs : truth[r] # None => truth[r] \in RunRow /\ truth[r].choice \in Known(r)
  BY DEF RecordInv, RecordTypes, Known, RunRow
<1>2. \A s \in results : s \in Result /\ s.run \in Runs /\ truth[s.run] \in RunRow
  BY DEF RecordInv, RecordTypes, Result
<1>3. \A s \in results : s.execution # None => s.execution \in Known(s.run)
  BY <1>2 DEF Known, Result
<1>4. choice # None => /\ choice \in ChoiceOfRun /\ [revision |-> choice.revision, kind |-> choice.kind] \in Known(choice.run)
                       /\ truth[choice.run] \in RunRow
  <2> SUFFICES ASSUME choice # None
               PROVE  /\ choice \in ChoiceOfRun /\ [revision |-> choice.revision, kind |-> choice.kind] \in Known(choice.run)
                      /\ truth[choice.run] \in RunRow
    OBVIOUS
  <2>1. choice \in ChoiceOfRun
    BY DEF RecordInv, RecordTypes
  <2>2. [revision |-> choice.revision, kind |-> choice.kind] \in Choice /\ choice.run \in Runs
    BY <2>1 DEF ChoiceOfRun, Choice
  <2>3. [revision |-> choice.revision, kind |-> choice.kind] \in Known(choice.run)
    BY <2>2 DEF Known
  <2>4. truth[choice.run] # None
    BY <2>2, <2>3 DEF RecordInv, Sound
  <2> QED
    BY <1>1, <2>1, <2>2, <2>3, <2>4
<1>5. entry # None => entry \in ContractOfRun /\ truth[entry.run] \in RunRow
  BY DEF RecordInv, RecordTypes, Latest, ContractOfRun
<1>6. \A r \in Runs : Known(r) \subseteq Choice
  BY DEF Known
<1> QED
  BY <1>1, <1>2, <1>3, <1>4, <1>5, <1>6

\* What is known may be forgotten.
LEMMA SoundLess ==
  ASSUME NEW K, NEW L, K \subseteq L, NEW T, Sound(L, T)
  PROVE  Sound(K, T)
BY DEF Sound, Follows, Unbroken

\* What a step of a run may do.
Moves(S, T) ==
  /\ RowSound(T)
  /\ S = None => T.contract = None
  /\ S # None =>
       /\ ~S.ended
       /\ \/ T.choice = S.choice /\ T.left = S.left
          \/ /\ T.choice.revision = S.choice.revision + 1
             /\ T.choice.kind = "enno" => ~S.left
             /\ S.left => T.left
             /\ S.contract # None /\ T.contract = None => T.left
       /\ T.contract # None /\ S.contract # None => ~Record!older(T.contract, S.contract)

\* A choice of the run becomes known to the database first.
LEMMA SoundMoves ==
  ASSUME NEW K \in SUBSET Choice, NEW S \in RunRow \cup {None}, NEW T \in RunRow, Sound(K, S), Moves(S, T),
         S # None => S.choice \in K
  PROVE  Sound(K \cup {T.choice}, T)
<1>1. T # None /\ T.choice \in Choice /\ (S # None => S \in RunRow)
  BY SessionsAssumption DEF RunRow
<1>2. CASE S = None
  BY <1>1, <1>2 DEF Sound, Moves, RowSound, Follows, Unbroken, RunRow, Choice
<1>3. CASE S # None /\ T.choice = S.choice
  <2>1. K \cup {T.choice} = K
    BY <1>3
  <2>2. T.contract = None => S.contract = None
    BY <1>3 DEF Sound, Moves, RowSound
  <2>3. T.left = S.left
    BY <1>1, <1>3 DEF Moves, RunRow, Choice
  <2> QED
    BY <1>1, <1>3, <2>1, <2>2, <2>3 DEF Sound, Moves, Follows
<1>4. CASE S # None /\ T.choice # S.choice
  <2>1. /\ S.choice \in Choice /\ S.choice \in K /\ T.choice.revision = S.choice.revision + 1
        /\ T.choice.kind = "enno" => ~S.left
        /\ S.left => T.left
        /\ S.contract # None /\ T.contract = None => T.left
    BY <1>1, <1>4 DEF Moves, RunRow
  <2>2. \A c \in K : c.revision \in Nat /\ c.revision <= S.choice.revision /\ c.revision < T.choice.revision /\ S.choice.revision \in Nat /\ T.choice.revision \in Nat
    BY <1>4, <2>1 DEF Sound, Follows, Choice
  <2>3. /\ \A c \in K \cup {T.choice} : c.revision <= T.choice.revision
        /\ \A c \in K \cup {T.choice} : c.revision = T.choice.revision => c.kind = T.choice.kind
    BY <1>1, <2>1, <2>2 DEF Choice
  <2>4. ASSUME NEW c \in K \cup {T.choice}, T.contract = None, ~T.left PROVE c.kind # "enno"
    BY <1>4, <2>1, <2>4 DEF Sound, Moves, RowSound, Follows
  <2>5. ASSUME NEW x \in K \cup {T.choice}, NEW y \in K \cup {T.choice}, NEW z \in K \cup {T.choice},
               x.kind = "enno", z.kind = "enno", x.revision <= y.revision, y.revision <= z.revision
        PROVE  y.kind = "enno"
    <3>1. CASE y = T.choice
      BY <2>1, <2>2, <2>3, <2>5, <3>1
    <3>2. CASE y \in K /\ x = T.choice
      BY <2>2, <2>5, <3>2
    <3>3. CASE y \in K /\ x \in K /\ z = T.choice
      <4>1. ~S.left /\ S.contract # None
        BY <1>4, <2>1, <2>5, <3>3 DEF Sound, Follows
      <4>2. S.choice.kind = "enno" /\ y.revision <= S.choice.revision
        BY <1>4, <2>2, <3>3, <4>1 DEF Sound, RowSound
      <4> QED
        BY <1>4, <2>1, <2>5, <3>3, <4>2 DEF Sound, Unbroken
    <3>4. CASE y \in K /\ x \in K /\ z \in K
      BY <2>5, <3>4 DEF Sound, Unbroken
    <3>5. (x \in K \/ x = T.choice) /\ (y \in K \/ y = T.choice) /\ (z \in K \/ z = T.choice)
      OBVIOUS
    <3>6. y \in K => y.kind = "enno"
      BY <3>2, <3>3, <3>4, <3>5
    <3> QED
      BY <3>1, <3>5, <3>6
  <2>6. Follows(K \cup {T.choice}, T)
    BY <2>3, <2>4 DEF Follows
  <2>7. Unbroken(K \cup {T.choice})
    BY <2>5 DEF Unbroken
  <2> QED
    BY <1>1, <2>6, <2>7 DEF Sound, Moves
<1> QED
  BY <1>2, <1>3, <1>4

\* A step of a run alone: the plugin knows what it knew.
LEMMA RunMoves ==
  ASSUME RecordInv, NEW r \in Runs, NEW T \in RunRow, truth' = [truth EXCEPT ![r] = T],
         UNCHANGED <<results, choice, entry, retired, seen>>, Moves(truth[r], T)
  PROVE  RecordInv'
<1>1. /\ truth' \in [Runs -> RunRow \cup {None}] /\ truth'[r] = T /\ T # None
      /\ \A p \in Runs : p # r => truth'[p] = truth[p]
      /\ truth[r] \in RunRow \cup {None}
  BY SessionsAssumption DEF RecordInv, RecordTypes
<1>2. RecordTypes'
  BY <1>1 DEF RecordInv, RecordTypes
<1>3. \A p \in Runs : p # r => Known(p)' = Known(p)
  BY <1>1 DEF Known
<1>4. Known(r)' \subseteq Known(r) \cup {T.choice}
  BY <1>1 DEF Known
<1>5. \A p \in Runs : Sound(Known(p)', truth'[p])
  <2> SUFFICES ASSUME NEW p \in Runs PROVE Sound(Known(p)', truth'[p])
    OBVIOUS
  <2>1. CASE p # r
    BY <1>1, <1>3, <2>1 DEF RecordInv
  <2>2. CASE p = r
    <3>1. Known(r) \subseteq Choice /\ (truth[r] # None => truth[r].choice \in Known(r)) /\ Sound(Known(r), truth[r])
      BY RecordHas DEF RecordInv
    <3>2. Sound(Known(r) \cup {T.choice}, T)
      BY <1>1, <3>1, SoundMoves
    <3> QED
      BY <1>1, <1>4, <2>2, <3>2, SoundLess
  <2> QED
    BY <2>1, <2>2
<1>6. ASSUME NEW contract \in [revision : Nat, phase : Nat] \cup ContractOfRun, truth[r] # None,
             NotAhead(contract, truth[r]), truth[r].left \/ truth[r].contract # None
      PROVE  NotAhead(contract, T) /\ (T.left \/ T.contract # None)
  <2>1. truth[r] \in RunRow
    BY <1>1, <1>6
  <2>2. truth[r].left => T.left /\ T.contract = None
    BY <1>6, <2>1 DEF Moves, RowSound, RecordInv, Sound, RunRow
  <2>3. CASE truth[r].left
    BY <2>2, <2>3 DEF NotAhead
  <2>4. CASE ~truth[r].left
    <3>1. truth[r].contract # None
      BY <1>6, <2>4
    <3>2. T.left \/ T.contract # None
      BY <1>6, <2>1, <3>1 DEF Moves, RowSound, RecordInv, Sound
    <3>3. ASSUME T.contract # None PROVE ~Record!older(T.contract, contract)
      <4>1. ~Record!older(T.contract, truth[r].contract) /\ ~Record!older(truth[r].contract, contract)
        BY <1>6, <3>1, <3>3 DEF Moves, NotAhead
      <4>2. T.contract \in Contract /\ truth[r].contract \in Contract /\ contract.revision \in Nat /\ contract.phase \in Nat
        BY <1>6, <2>1, <3>1, <3>3 DEF RunRow, ContractOfRun
      <4> QED
        BY <4>1, <4>2 DEF Record!older, Contract
    <3> QED
      BY <3>2, <3>3 DEF NotAhead
  <2> QED
    BY <2>3, <2>4
<1>7. \A s \in results' : truth'[s.run] # None /\ ResultSound(s, truth'[s.run])
  <2> SUFFICES ASSUME NEW s \in results PROVE truth'[s.run] # None /\ ResultSound(s, truth'[s.run])
    OBVIOUS
  <2>1. s \in Result /\ s.run \in Runs /\ truth[s.run] # None /\ ResultSound(s, truth[s.run])
    BY RecordHas DEF RecordInv
  <2>2. CASE s.run # r
    BY <1>1, <2>1, <2>2
  <2>3. CASE s.run = r
    <3>1. ~s.ended
      BY <2>1, <2>3 DEF Moves, ResultSound
    <3>2. s.contract # None => s.contract \in [revision : Nat, phase : Nat]
      BY <2>1 DEF Result, Contract
    <3>3. s.contract # None => NotAhead(s.contract, T) /\ (T.left \/ T.contract # None)
      BY <1>6, <2>1, <2>3, <3>2 DEF ResultSound
    <3> QED
      BY <1>1, <2>1, <2>3, <3>1, <3>3 DEF ResultSound
  <2> QED
    BY <2>2, <2>3
<1>8. Latest'
  <2> SUFFICES ASSUME entry # None PROVE Latest'
    BY DEF Latest
  <2>1. entry \in ContractOfRun /\ truth[entry.run] \in RunRow /\ choice # None /\ choice.run = entry.run /\ choice.kind = "enno"
        /\ entry.run \in Runs /\ entry.run \notin retired /\ truth[entry.run] # None /\ NotAhead(entry, truth[entry.run])
        /\ seen[entry.run].record = [revision |-> entry.revision, phase |-> entry.phase]
    BY RecordHas DEF RecordInv, Latest, ContractOfRun
  <2>2. truth[entry.run].left \/ truth[entry.run].contract # None
    <3>1. PICK c \in Known(entry.run) : c.kind = "enno"
      BY <2>1, RecordHas
    <3> QED
      BY <2>1, <3>1 DEF RecordInv, Sound, Follows
  <2>3. NotAhead(entry, truth'[entry.run]) /\ truth'[entry.run] # None
    <3>1. CASE entry.run = r
      BY <1>1, <1>6, <2>1, <2>2, <3>1
    <3>2. CASE entry.run # r
      BY <1>1, <2>1, <3>2
    <3> QED
      BY <3>1, <3>2
  <2> QED
    BY <2>1, <2>3 DEF Latest
<1>9. \A p \in Runs : (seen'[p].ended => p \in retired') /\ (seen'[p].record # None => truth'[p] # None /\ Dropped(p)')
  <2> SUFFICES ASSUME NEW p \in Runs, seen[p].record # None PROVE truth'[p] # None /\ Dropped(p)'
    BY DEF RecordInv
  <2>1. truth[p] # None /\ Dropped(p)
    BY DEF RecordInv
  <2>2. CASE p # r
    BY <1>1, <1>3, <2>1, <2>2 DEF Dropped
  <2>3. CASE p = r
    <3>1. CASE r \in retired \/ (entry # None /\ entry.run = r)
      BY <1>1, <2>3, <3>1 DEF Dropped
    <3>2. CASE ~(r \in retired \/ (entry # None /\ entry.run = r))
      <4>1. truth[r].left /\ truth[r] \in RunRow
        BY <1>1, <2>1, <2>3, <3>2 DEF Dropped
      <4>2. T.left /\ T.choice.kind # "enno"
        BY <2>1, <2>3, <4>1 DEF Moves, RowSound, RunRow
      <4>3. \A c \in Known(r)' : c.kind = "enno" => c \in Known(r)
        BY <1>4, <4>2
      <4> QED
        BY <1>1, <2>1, <2>3, <3>2, <4>2, <4>3 DEF Dropped
    <3> QED
      BY <3>1, <3>2
  <2> QED
    BY <2>2, <2>3
<1> QED
  BY <1>2, <1>5, <1>7, <1>8, <1>9 DEF RecordInv

\* A run begins, selects a lane or moves on in its contract.
LEMMA RunSteps ==
  ASSUME RecordInv, NEW r \in Runs,
         \/ Record!begin(r) \/ Record!advance(r)
         \/ \E kind \in {"ordinary", "enno"} : Record!select(r, kind)
  PROVE  RecordInv'
<1> DEFINE S == truth[r]
<1>1. /\ UNCHANGED <<results, choice, entry, retired, seen>>
      /\ truth \in [Runs -> RunRow \cup {None}]
  BY DEF Record!begin, Record!advance, Record!select, RecordInv, RecordTypes
<1>2. S # None => S \in RunRow /\ RowSound(S) /\ S.choice \in Choice /\ S.choice.revision \in Nat /\ S.choice.kind \in Record!Kinds
                 /\ S.contract \in Contract \cup {None} /\ S.left \in BOOLEAN /\ S.ended \in BOOLEAN
  <2>1. S # None => S \in RunRow /\ RowSound(S)
    BY RecordHas DEF RecordInv, Sound
  <2> QED
    BY <2>1 DEF RunRow, Choice
<1>3. CASE Record!begin(r)
  <2> DEFINE first == [revision |-> 1, kind |-> "pending"]
             T == [choice |-> first, contract |-> None, left |-> FALSE, ended |-> FALSE]
  <2>1. S = None /\ truth' = [truth EXCEPT ![r] = T]
    BY <1>3 DEF Record!begin
  <2>2. first \in Choice /\ first.kind # "enno"
    BY DEF Choice, Record!Kinds
  <2>3. T \in RunRow /\ Moves(S, T)
    <3> HIDE DEF first
    <3> QED
      BY <2>1, <2>2 DEF RunRow, Moves, RowSound
  <2> HIDE DEF T
  <2> QED
    BY <1>1, <2>1, <2>3, RunMoves
<1>4. CASE Record!advance(r)
  <2>1. S # None /\ ~S.ended
    BY <1>4 DEF Record!advance
  <2>2. ASSUME NEW c \in Contract, truth' = [truth EXCEPT ![r] = [S EXCEPT !.contract = c]], S.contract # None, ~Record!older(c, S.contract)
        PROVE  RecordInv'
    <3> DEFINE T == [S EXCEPT !.contract = c]
    <3>1. T \in RunRow /\ T.contract = c /\ T.choice = S.choice /\ T.left = S.left /\ c # None
      BY <1>2, <2>1, SessionsAssumption DEF RunRow
    <3>2. truth' = [truth EXCEPT ![r] = T]
      BY <2>2
    <3> HIDE DEF T
    <3>3. Moves(S, T)
      BY <1>2, <2>1, <2>2, <3>1 DEF Moves, RowSound
    <3> QED
      BY <1>1, <3>1, <3>2, <3>3, RunMoves
  <2>3. ASSUME NEW yes \in BOOLEAN, truth' = [truth EXCEPT ![r] = [S EXCEPT !.ended = yes]] PROVE RecordInv'
    <3> DEFINE T == [S EXCEPT !.ended = yes]
    <3>1. T \in RunRow /\ T.contract = S.contract /\ T.choice = S.choice /\ T.left = S.left
      BY <1>2, <2>1 DEF RunRow
    <3>2. truth' = [truth EXCEPT ![r] = T]
      BY <2>3
    <3> HIDE DEF T
    <3>3. S.contract # None => ~Record!older(S.contract, S.contract)
      BY <1>2, <2>1 DEF Record!older, Contract
    <3>4. Moves(S, T)
      BY <1>2, <2>1, <3>1, <3>3 DEF Moves, RowSound
    <3> QED
      BY <1>1, <3>1, <3>2, <3>4, RunMoves
  <2>4. CASE S.contract # None /\ truth' = [truth EXCEPT ![r].contract.phase = @ + 1]
    <3>1. S.contract \in Contract
      BY <1>2, <2>1, <2>4
    <3>2. [S.contract EXCEPT !.phase = S.contract.phase + 1] \in Contract
          /\ ~Record!older([S.contract EXCEPT !.phase = S.contract.phase + 1], S.contract)
      BY <3>1 DEF Contract, Record!older
    <3>3. truth' = [truth EXCEPT ![r] = [S EXCEPT !.contract = [S.contract EXCEPT !.phase = S.contract.phase + 1]]]
      BY <1>1, <2>4
    <3> QED
      BY <2>2, <2>4, <3>2, <3>3
  <2>5. CASE S.contract # None /\ truth' = [truth EXCEPT ![r].contract = [revision |-> @.revision + 1, phase |-> 1]]
    <3> DEFINE c == [revision |-> S.contract.revision + 1, phase |-> 1]
    <3>1. S.contract \in Contract
      BY <1>2, <2>1, <2>5
    <3>2. c \in Contract /\ ~Record!older(c, S.contract)
      BY <3>1 DEF Contract, Record!older
    <3>3. truth' = [truth EXCEPT ![r] = [S EXCEPT !.contract = c]]
      BY <1>1, <2>5
    <3> HIDE DEF c
    <3> QED
      BY <2>2, <2>5, <3>2, <3>3
  <2>6. CASE truth' = [truth EXCEPT ![r].ended = TRUE]
    <3>1. truth' = [truth EXCEPT ![r] = [S EXCEPT !.ended = TRUE]]
      BY <1>1, <2>6
    <3> QED
      BY <2>3, <3>1
  <2> QED
    BY <1>4, <2>4, <2>5, <2>6 DEF Record!advance
<1>5. ASSUME NEW kind \in {"ordinary", "enno"}, Record!select(r, kind) PROVE RecordInv'
  <2> DEFINE chosen == [revision |-> S.choice.revision + 1, kind |-> kind]
             first == [revision |-> 1, phase |-> 1]
             contract == IF kind # "enno" THEN None ELSE IF S.contract = None THEN first ELSE S.contract
             gone == S.left \/ (kind # "enno" /\ S.contract # None)
  <2>1. S # None /\ ~S.ended /\ (kind = "enno" => ~S.left)
        /\ truth' = [truth EXCEPT ![r].choice = [revision |-> @.revision + 1, kind |-> kind],
                              ![r].left = @ \/ (kind # "enno" /\ truth[r].contract # None),
                              ![r].contract = IF kind # "enno" THEN None
                                              ELSE IF @ = None THEN [revision |-> 1, phase |-> 1] ELSE @]
    BY <1>5 DEF Record!select
  <2>2. truth' = [truth EXCEPT ![r] = [S EXCEPT !.choice = chosen, !.left = gone, !.contract = contract]]
    BY <1>1, <1>2, <2>1 DEF RunRow
  <2>3. chosen \in Choice /\ chosen.revision = S.choice.revision + 1 /\ chosen.kind = kind
    BY <1>2, <2>1 DEF Choice, Record!Kinds
  <2>4. contract \in Contract \cup {None} /\ (contract # None <=> kind = "enno") /\ (contract # None /\ S.contract # None => contract = S.contract)
    BY <1>2, <2>1, SessionsAssumption DEF Contract
  <2>5. gone \in BOOLEAN /\ (gone <=> S.left \/ (kind # "enno" /\ S.contract # None))
    BY <1>2, <2>1
  <2> HIDE DEF chosen, contract, gone
  <2> DEFINE T == [S EXCEPT !.choice = chosen, !.left = gone, !.contract = contract]
  <2>6. T \in RunRow /\ T.choice = chosen /\ T.left = gone /\ T.contract = contract
    BY <1>2, <2>1, <2>3, <2>4, <2>5 DEF RunRow
  <2>7. truth' = [truth EXCEPT ![r] = T]
    BY <2>2
  <2> HIDE DEF T
  <2>8. S.contract # None => ~Record!older(S.contract, S.contract)
    BY <1>2, <2>1 DEF Record!older, Contract
  <2>9. Moves(S, T)
    BY <1>2, <2>1, <2>3, <2>4, <2>5, <2>6, <2>8 DEF Moves, RowSound
  <2> QED
    BY <1>1, <2>6, <2>7, <2>9, RunMoves
<1> QED
  BY <1>3, <1>4, <1>5

\* A tool answers with what the database says.
LEMMA Answers ==
  ASSUME RecordInv, NEW r \in Runs, NEW withChoice \in BOOLEAN, Record!answer(r, withChoice)
  PROVE  RecordInv'
<1> DEFINE execution == IF withChoice THEN truth[r].choice ELSE None
           new == [run |-> r, execution |-> execution, contract |-> truth[r].contract, ended |-> truth[r].ended]
<1>1. truth[r] # None /\ results' = results \cup {new} /\ UNCHANGED <<truth, choice, entry, retired, seen>>
  BY DEF Record!answer
<1>2. truth[r] \in RunRow /\ truth[r].choice \in Choice /\ truth[r].contract \in Contract \cup {None} /\ truth[r].ended \in BOOLEAN
  BY <1>1, RecordHas DEF RunRow
<1>3. execution \in {None, truth[r].choice}
  OBVIOUS
<1> HIDE DEF execution
<1>4. new \in Result /\ new.run = r /\ new.execution = execution /\ new.contract = truth[r].contract /\ new.ended = truth[r].ended
  BY <1>2, <1>3 DEF Result
<1> HIDE DEF new
<1>5. RecordTypes'
  BY <1>1, <1>4 DEF RecordInv, RecordTypes
<1>6. \A p \in Runs : Known(p)' \subseteq Known(p)
  BY <1>1, <1>3, <1>4, SessionsAssumption DEF Known
<1>7. \A p \in Runs : Sound(Known(p)', truth'[p])
  BY <1>1, <1>6, SoundLess DEF RecordInv
<1>8. ResultSound(new, truth[r])
  <2>1. RowSound(truth[r])
    BY <1>1 DEF RecordInv, Sound
  <2>2. truth[r].contract # None => ~Record!older(truth[r].contract, truth[r].contract)
    BY <1>2 DEF Record!older, Contract
  <2> QED
    BY <1>3, <1>4, <2>1, <2>2 DEF ResultSound, RowSound, NotAhead
<1>9. \A s \in results' : truth'[s.run] # None /\ ResultSound(s, truth'[s.run])
  BY <1>1, <1>4, <1>8 DEF RecordInv
<1>10. Latest'
  BY <1>1 DEF RecordInv, Latest
<1>11. \A p \in Runs : (seen'[p].ended => p \in retired') /\ (seen'[p].record # None => truth'[p] # None /\ Dropped(p)')
  BY <1>1, <1>6 DEF RecordInv, Dropped
<1> QED
  BY <1>5, <1>7, <1>9, <1>10, <1>11 DEF RecordInv

\* What the plugin sees with a result.
Sees(s) ==
  seen' = [seen EXCEPT ![s.run] = [record |-> IF entry' # None /\ entry'.run = s.run THEN Record!latest(@.record, entry') ELSE @.record,
                                   ended |-> @.ended \/ s.ended]]

\* The plugin observes a result, whenever it arrives: what it takes over is
\* not older than what it held, and what it dropped does not come back.
LEMMA ResultObserved ==
  ASSUME RecordInv, NEW s \in results, Record!observe(s)
  PROVE  RecordInv'
<1> DEFINE r == s.run
           T == truth[r]
<1>1. /\ s \in Result /\ r \in Runs /\ T \in RunRow /\ ResultSound(s, T) /\ T # None
      /\ s.execution \in Choice \cup {None} /\ s.contract \in Contract \cup {None} /\ s.ended \in BOOLEAN
      /\ RowSound(T) /\ Follows(Known(r), T) /\ Unbroken(Known(r)) /\ Known(r) \subseteq Choice
      /\ s.execution # None => s.execution \in Known(r)
  <2>1. s \in Result /\ r \in Runs /\ T \in RunRow /\ ResultSound(s, T) /\ T # None /\ Known(r) \subseteq Choice /\ (s.execution # None => s.execution \in Known(r))
    BY RecordHas DEF RecordInv
  <2>2. Sound(Known(r), T)
    BY <2>1 DEF RecordInv
  <2> QED
    BY <2>1, <2>2 DEF Result, Sound
<1>2. results' = results \ {s} /\ truth' = truth /\ Sees(s)
  BY DEF Record!observe, Sees
<1>3. /\ seen'[r].record = IF entry' # None /\ entry'.run = r THEN Record!latest(seen[r].record, entry') ELSE seen[r].record
      /\ seen'[r].ended <=> (seen[r].ended \/ s.ended)
      /\ \A p \in Runs : p # r => seen'[p] = seen[p]
  BY <1>1, <1>2 DEF RecordInv, RecordTypes, Sees, Sight
<1>4. ASSUME entry' \in ContractOfRun \cup {None} PROVE seen' \in [Runs -> Sight]
  <2> DEFINE held == IF entry' # None /\ entry'.run = r THEN Record!latest(seen[r].record, entry') ELSE seen[r].record
             sight == [record |-> held, ended |-> seen[r].ended \/ s.ended]
  <2>1. seen \in [Runs -> Sight] /\ seen[r] \in Sight
    BY <1>1 DEF RecordInv, RecordTypes
  <2>2. held \in Contract \cup {None}
    BY <1>4, <2>1 DEF Record!latest, Sight, Contract, ContractOfRun
  <2>3. (seen[r].ended \/ s.ended) \in BOOLEAN
    OBVIOUS
  <2>4. seen' = [seen EXCEPT ![r] = sight]
    BY <1>2, <2>1 DEF Sees
  <2> HIDE DEF held
  <2>5. sight \in Sight
    BY <2>2, <2>3 DEF Sight
  <2> HIDE DEF sight
  <2> QED
    BY <2>1, <2>4, <2>5
<1>5. ASSUME choice' \in ChoiceOfRun \cup {None}, entry' \in ContractOfRun \cup {None}, retired' \in SUBSET Runs,
             \A p \in Runs : Known(p)' \subseteq Known(p), Latest', seen'[r].ended => r \in retired', retired \subseteq retired',
             \A p \in Runs : seen'[p].record # None => truth[p] # None /\ Dropped(p)'
      PROVE  RecordInv'
  <2>1. RecordTypes'
    BY <1>2, <1>4, <1>5 DEF RecordInv, RecordTypes
  <2>2. \A p \in Runs : Sound(Known(p)', truth'[p])
    BY <1>2, <1>5, SoundLess DEF RecordInv
  <2>3. \A x \in results' : truth'[x.run] # None /\ ResultSound(x, truth'[x.run])
    BY <1>2 DEF RecordInv
  <2>4. \A p \in Runs : seen'[p].ended => p \in retired'
    BY <1>3, <1>5 DEF RecordInv
  <2> QED
    BY <1>2, <1>5, <2>1, <2>2, <2>3, <2>4 DEF RecordInv
<1>6. /\ choice \in ChoiceOfRun \cup {None} /\ entry \in ContractOfRun \cup {None} /\ retired \in SUBSET Runs
      /\ choice # None => [revision |-> choice.revision, kind |-> choice.kind] \in Known(choice.run) /\ choice.run \in Runs
      /\ entry # None => entry.run \in Runs /\ entry.revision \in Nat /\ entry.phase \in Nat
      /\ \A p \in Runs : seen[p].record # None => truth[p] # None /\ Dropped(p)
      /\ seen[r].ended => r \in retired
  BY <1>1, RecordHas DEF RecordInv, RecordTypes, ChoiceOfRun, ContractOfRun
<1>7. entry # None => /\ choice # None /\ choice.run = entry.run /\ choice.kind = "enno"
                      /\ entry.run \notin retired /\ NotAhead(entry, truth[entry.run])
                      /\ seen[entry.run].record = [revision |-> entry.revision, phase |-> entry.phase]
                      /\ truth[entry.run] # None
  BY DEF RecordInv, Latest
<1>8. s.execution # None => s.execution.revision \in Nat /\ s.execution.kind \in Record!Kinds
      /\ [revision |-> s.execution.revision, kind |-> s.execution.kind] = s.execution
  BY <1>1 DEF Choice
<1>9. CASE Record!stale(s)
  <2>1. UNCHANGED <<choice, entry, retired>>
    BY <1>9 DEF Record!observe
  <2>2. \A p \in Runs : Known(p)' \subseteq Known(p)
    BY <1>2, <2>1 DEF Known
  <2>3. s.ended => r \in retired
    <3> SUFFICES ASSUME s.ended, r \notin retired PROVE FALSE
      OBVIOUS
    <3>1. T.ended /\ s.contract = T.contract /\ (s.execution # None => s.execution = T.choice)
      BY <1>1 DEF ResultSound
    <3>2. CASE s.execution # None /\ choice # None /\ choice.run = r
      <4>1. choice.revision <= T.choice.revision /\ (choice.revision = T.choice.revision => choice.kind = T.choice.kind)
        BY <1>1, <1>6, <3>2 DEF Follows
      <4>2. T.choice.revision \in Nat /\ choice.revision \in Nat
        BY <1>1, <1>6, <3>2 DEF RunRow, Choice, ChoiceOfRun
      <4>3. ~(entry # None /\ entry.run = s.run /\ s.contract # None /\ Record!older(s.contract, entry))
        BY <1>7, <3>1 DEF NotAhead
      <4> QED
        BY <1>9, <3>1, <3>2, <4>1, <4>2, <4>3 DEF Record!stale
    <3>3. CASE ~(s.execution # None /\ choice # None /\ choice.run = r)
      BY <1>7, <1>9, <3>1, <3>3 DEF Record!stale, NotAhead
    <3> QED
      BY <3>2, <3>3
  <2>4. entry # None /\ entry.run = r => seen'[r].record = seen[r].record
    BY <1>3, <1>6, <1>7, <2>1 DEF Record!latest, Record!older
  <2>5. \A p \in Runs : seen'[p].record = seen[p].record
    BY <1>3, <2>1, <2>4
  <2>6. Latest'
    BY <1>2, <1>6, <1>7, <2>1, <2>5 DEF Latest
  <2>7. \A p \in Runs : seen'[p].record # None => truth[p] # None /\ Dropped(p)'
    BY <1>2, <1>6, <2>1, <2>2, <2>5 DEF Dropped
  <2> QED
    BY <1>3, <1>5, <1>6, <2>1, <2>2, <2>3, <2>6, <2>7
<1>10. CASE ~Record!stale(s) /\ s.ended
  <2>1. /\ retired' = retired \cup {r}
        /\ choice' = IF choice # None /\ choice.run = r THEN None ELSE choice
        /\ entry' = IF entry # None /\ entry.run = r THEN None ELSE entry
    BY <1>10 DEF Record!observe, Record!observeEnd
  <2>2. \A p \in Runs : Known(p)' \subseteq Known(p)
    BY <1>2, <2>1 DEF Known
  <2>3. Latest'
    BY <1>2, <1>3, <1>6, <1>7, <2>1 DEF Latest
  <2>4. \A p \in Runs : seen'[p].record # None => truth[p] # None /\ Dropped(p)'
    <3> SUFFICES ASSUME NEW p \in Runs, seen'[p].record # None PROVE truth[p] # None /\ Dropped(p)'
      OBVIOUS
    <3>1. CASE p = r
      BY <1>1, <2>1, <3>1 DEF Dropped
    <3>2. CASE p # r
      <4>1. truth[p] # None /\ Dropped(p)
        BY <1>3, <1>6, <3>2
      <4> QED
        BY <1>2, <2>1, <2>2, <3>2, <4>1 DEF Dropped
    <3> QED
      BY <3>1, <3>2
  <2> QED
    BY <1>1, <1>5, <1>6, <2>1, <2>2, <2>3, <2>4
<1>11. CASE ~Record!stale(s) /\ ~s.ended
  <2> DEFINE chosen == IF s.execution = None THEN choice ELSE [run |-> r, revision |-> s.execution.revision, kind |-> s.execution.kind]
             kept == IF entry = None \/ entry.run # r \/ (s.execution # None /\ s.execution.kind # "enno") THEN None ELSE entry
             refused == s.execution = None /\ choice # None /\ choice.run = r /\ choice.kind # "enno"
             next == [run |-> r, revision |-> s.contract.revision, phase |-> s.contract.phase]
  <2>1. /\ retired' = retired \cup Record!left(s) /\ choice' = chosen
        /\ entry' = IF refused \/ s.contract = None \/ (s.execution = None /\ kept = None) THEN kept ELSE next
    BY <1>11 DEF Record!observe, Record!observeState, Record!nextRecord
  <2>2. /\ r \notin Record!left(s) /\ Record!left(s) \subseteq Runs
        /\ (entry # None /\ entry.run # r => entry.run \in Record!left(s))
        /\ (choice # None /\ choice.run # r => choice.run \in Record!left(s))
    BY <1>6 DEF Record!left
  <2>3. /\ r \notin retired
        /\ s.execution # None /\ choice # None /\ choice.run = r => ~(s.execution.revision < choice.revision) /\ (s.execution.revision = choice.revision => s.execution.kind = choice.kind)
        /\ entry # None /\ entry.run = r /\ s.contract # None => ~Record!older(s.contract, entry)
    BY <1>11 DEF Record!stale
  <2>4. choice' \in ChoiceOfRun \cup {None}
    BY <1>1, <1>6, <1>8, <2>1 DEF ChoiceOfRun
  <2>5. s.contract # None => next \in ContractOfRun /\ next # None
    BY <1>1, SessionsAssumption DEF Contract, ContractOfRun
  <2>6. entry' \in ContractOfRun \cup {None} /\ (entry' # None => entry'.run = r)
    BY <1>6, <2>1, <2>5
  <2>7. \A p \in Runs : Known(p)' \subseteq Known(p)
    <3> SUFFICES ASSUME NEW p \in Runs, NEW c \in Known(p)' PROVE c \in Known(p)
      OBVIOUS
    <3>1. CASE choice' # None /\ choice'.run = p /\ choice'.revision = c.revision /\ choice'.kind = c.kind /\ s.execution # None
      <4>1. p = r /\ c \in Choice /\ c.revision = s.execution.revision /\ c.kind = s.execution.kind
        BY <2>1, <3>1 DEF Known
      <4>2. c = s.execution
        BY <1>1, <3>1, <4>1 DEF Choice
      <4> QED
        BY <1>1, <3>1, <4>1, <4>2
    <3>2. CASE ~(choice' # None /\ choice'.run = p /\ choice'.revision = c.revision /\ choice'.kind = c.kind /\ s.execution # None)
      BY <1>2, <2>1, <3>2 DEF Known
    <3> QED
      BY <3>1, <3>2
  <2>8. ASSUME entry' = kept, kept # None PROVE Latest'
    <3>1. entry' = entry /\ entry # None /\ entry.run = r /\ (s.execution = None \/ s.execution.kind = "enno")
      BY <2>8
    <3>2. choice' # None /\ choice'.run = r /\ choice'.kind = "enno"
      <4>1. CASE s.execution = None
        BY <1>7, <2>1, <3>1, <4>1
      <4>2. CASE s.execution # None
        <5>1. choice' = [run |-> r, revision |-> s.execution.revision, kind |-> s.execution.kind]
          BY <2>1, <4>2
        <5>2. choice'.run = r /\ choice'.kind = "enno" /\ choice' \in ChoiceOfRun
          BY <1>1, <1>8, <3>1, <4>2, <5>1 DEF ChoiceOfRun
        <5> QED
          BY <5>2, SessionsAssumption
      <4> QED
        BY <4>1, <4>2
    <3>3. seen'[r].record = seen[r].record
      BY <1>3, <1>6, <1>7, <3>1 DEF Record!latest, Record!older
    <3>4. r \notin retired' /\ NotAhead(entry', truth'[r]) /\ truth'[r] # None
      BY <1>2, <1>7, <2>1, <2>2, <2>3, <3>1
    <3>5. seen'[r].record = [revision |-> entry'.revision, phase |-> entry'.phase]
      BY <1>7, <3>1, <3>3
    <3>6. /\ choice' # None /\ choice'.run = entry'.run /\ choice'.kind = "enno"
          /\ entry'.run \notin retired' /\ truth'[entry'.run] # None /\ NotAhead(entry', truth'[entry'.run])
          /\ seen'[entry'.run].record = [revision |-> entry'.revision, phase |-> entry'.phase]
      BY <2>6, <3>1, <3>2, <3>4, <3>5
    <3> QED
      BY <3>6 DEF Latest
  <2>9. ASSUME entry' = next, s.contract # None, ~refused, s.execution = None => kept # None PROVE Latest'
    <3>1. entry' # None /\ entry'.run = r /\ entry'.revision = s.contract.revision /\ entry'.phase = s.contract.phase
      BY <2>5, <2>9
    <3>2. choice' # None /\ choice'.run = r /\ choice'.kind = "enno"
      <4>1. CASE s.execution = None
        BY <1>7, <2>1, <2>9, <4>1
      <4>2. CASE s.execution # None
        <5>1. choice' = [run |-> r, revision |-> s.execution.revision, kind |-> s.execution.kind]
          BY <2>1, <4>2
        <5>2. s.execution.kind = "enno"
          BY <1>1, <2>9, <4>2 DEF ResultSound
        <5>3. choice'.run = r /\ choice'.kind = "enno" /\ choice' \in ChoiceOfRun
          BY <1>1, <1>8, <4>2, <5>1, <5>2 DEF ChoiceOfRun
        <5> QED
          BY <5>3, SessionsAssumption
      <4> QED
        BY <4>1, <4>2
    <3>3. seen[r].record # None => ~Record!older(entry', seen[r].record)
      <4> SUFFICES ASSUME seen[r].record # None PROVE ~Record!older(entry', seen[r].record)
        OBVIOUS
      <4>1. Dropped(r)
        BY <1>1, <1>6
      <4>2. CASE entry # None /\ entry.run = r
        <5>1. ~Record!older(s.contract, entry) /\ seen[r].record = [revision |-> entry.revision, phase |-> entry.phase]
          BY <1>7, <2>3, <2>9, <4>2
        <5> QED
          BY <3>1, <5>1 DEF Record!older
      <4>3. CASE /\ choice # None /\ choice.run = r /\ choice.kind # "enno"
                 /\ \A c \in Known(r) : c.kind = "enno" => c.revision < choice.revision
        <5>1. s.execution # None
          BY <1>7, <2>9, <4>3
        <5>2. s.execution.kind = "enno"
          BY <1>1, <2>9, <5>1 DEF ResultSound
        <5> QED
          BY <1>1, <2>3, <4>3, <5>1, <5>2
      <4> QED
        BY <2>3, <4>1, <4>2, <4>3 DEF Dropped
    <3>4. seen'[r].record = [revision |-> entry'.revision, phase |-> entry'.phase]
      BY <1>3, <3>1, <3>3 DEF Record!latest
    <3>5. r \notin retired' /\ NotAhead(entry', truth'[r]) /\ truth'[r] # None
      <4>1. NotAhead(s.contract, T)
        BY <1>1, <2>9 DEF ResultSound
      <4>2. NotAhead(entry', T)
        BY <3>1, <4>1 DEF NotAhead, Record!older
      <4> QED
        BY <1>1, <1>2, <2>1, <2>2, <2>3, <4>2
    <3>6. /\ choice' # None /\ choice'.run = entry'.run /\ choice'.kind = "enno"
          /\ entry'.run \notin retired' /\ truth'[entry'.run] # None /\ NotAhead(entry', truth'[entry'.run])
          /\ seen'[entry'.run].record = [revision |-> entry'.revision, phase |-> entry'.phase]
      BY <2>6, <3>1, <3>2, <3>4, <3>5
    <3> QED
      BY <3>6 DEF Latest
  <2>10. Latest'
    <3>1. entry' = None => Latest'
      BY DEF Latest
    <3>2. ASSUME entry' # None PROVE Latest'
      <4>1. CASE entry' = kept
        BY <2>8, <3>2, <4>1
      <4>2. CASE entry' # kept
        BY <2>1, <2>9, <4>2
      <4> QED
        BY <4>1, <4>2
    <3> QED
      BY <3>1, <3>2
  <2>11. \A p \in Runs : seen'[p].record # None => truth[p] # None /\ Dropped(p)'
    <3> SUFFICES ASSUME NEW p \in Runs, seen'[p].record # None PROVE truth[p] # None /\ Dropped(p)'
      OBVIOUS
    <3>1. CASE p # r
      <4>1. truth[p] # None /\ Dropped(p)
        BY <1>3, <1>6, <3>1
      <4>2. p \in retired'
        BY <2>1, <2>2, <3>1, <4>1 DEF Dropped
      <4> QED
        BY <4>1, <4>2 DEF Dropped
    <3>2. CASE p = r /\ entry' # None
      BY <1>1, <2>6, <3>2 DEF Dropped
    <3>3. CASE p = r /\ entry' = None
      <4>1. truth[r] # None /\ Dropped(r)
        BY <1>3, <1>6, <3>3
      <4>2. kept = None
        BY <2>1, <2>5, <3>3
      <4>3. CASE entry # None /\ entry.run = r
        <5>1. s.execution # None /\ s.execution.kind # "enno" /\ choice # None /\ choice.run = r /\ choice.kind = "enno"
          BY <1>7, <4>2, <4>3
        <5>2. choice' = [run |-> r, revision |-> s.execution.revision, kind |-> s.execution.kind] /\ choice' # None
          <6>1. choice' = [run |-> r, revision |-> s.execution.revision, kind |-> s.execution.kind]
            BY <2>1, <5>1
          <6>2. choice' \in ChoiceOfRun
            BY <1>1, <1>8, <5>1, <6>1 DEF ChoiceOfRun
          <6> QED
            BY <6>1, <6>2, SessionsAssumption
        <5> DEFINE old == [revision |-> choice.revision, kind |-> choice.kind]
        <5>3. old \in Known(r) /\ old.kind = "enno" /\ old.revision = choice.revision /\ old.revision \in Nat
          BY <1>6, <5>1 DEF ChoiceOfRun
        <5> HIDE DEF old
        <5>4. old.revision <= s.execution.revision
          BY <1>8, <2>3, <5>1, <5>3
        <5>5. \A c \in Known(r) : c.kind = "enno" => c.revision < s.execution.revision
          <6> SUFFICES ASSUME NEW c \in Known(r), c.kind = "enno", ~(c.revision < s.execution.revision) PROVE FALSE
            OBVIOUS
          <6>1. c.revision \in Nat /\ s.execution.revision <= c.revision
            BY <1>1, <1>8, <5>1 DEF Choice
          <6> QED
            BY <1>1, <5>1, <5>3, <5>4, <6>1 DEF Unbroken
        <5>6. truth[r].left
          <6>1. T.choice \in Known(r) /\ s.execution.revision <= T.choice.revision
            BY <1>1, <4>1, <5>1, RecordHas DEF Follows
          <6>2. T.choice.kind # "enno"
            BY <1>1, <1>8, <5>1, <5>5, <6>1 DEF Choice
          <6> QED
            BY <1>1, <5>3, <6>2 DEF RowSound, Follows
        <5>7. choice'.run = r /\ choice'.kind # "enno" /\ choice'.revision = s.execution.revision
          BY <5>1, <5>2
        <5> QED
          BY <1>2, <2>7, <3>3, <4>1, <5>2, <5>5, <5>6, <5>7 DEF Dropped
      <4>4. CASE /\ choice # None /\ choice.run = r /\ choice.kind # "enno" /\ truth[r].left
                 /\ \A c \in Known(r) : c.kind = "enno" => c.revision < choice.revision
        <5>1. CASE s.execution = None
          BY <1>2, <2>1, <2>7, <3>3, <4>1, <4>4, <5>1 DEF Dropped
        <5>2. CASE s.execution # None
          <6>1. choice' = [run |-> r, revision |-> s.execution.revision, kind |-> s.execution.kind]
            BY <2>1, <5>2
          <6>2. choice' \in ChoiceOfRun
            BY <1>1, <1>8, <5>2, <6>1 DEF ChoiceOfRun
          <6>3. choice.revision \in Nat /\ s.execution.revision \in Nat /\ choice.revision <= s.execution.revision
            BY <1>6, <1>8, <2>3, <4>4, <5>2 DEF ChoiceOfRun
          <6>4. s.execution.kind # "enno"
            BY <1>1, <4>4, <5>2, <6>3
          <6>5. \A c \in Known(r) : c.kind = "enno" => c.revision < s.execution.revision
            BY <1>1, <4>4, <6>3 DEF Choice
          <6>6. choice' # None /\ choice'.run = r /\ choice'.kind # "enno" /\ choice'.revision = s.execution.revision
            BY <6>1, <6>2, <6>4, SessionsAssumption
          <6> QED
            BY <1>2, <2>7, <3>3, <4>1, <4>4, <6>5, <6>6 DEF Dropped
        <5> QED
          BY <5>1, <5>2
      <4> QED
        BY <2>3, <4>1, <4>3, <4>4 DEF Dropped
    <3> QED
      BY <3>1, <3>2, <3>3
  <2>12. retired' \in SUBSET Runs /\ retired \subseteq retired' /\ (seen'[r].ended => r \in retired')
    BY <1>3, <1>6, <1>11, <2>1, <2>2
  <2> QED
    BY <1>5, <2>4, <2>6, <2>7, <2>10, <2>11, <2>12
<1> QED
  BY <1>9, <1>10, <1>11

\* Every step keeps RecordInv.
LEMMA CompactionRecordStep == RecordInv /\ [Record!Next]_recordVars => RecordInv'
<1> SUFFICES ASSUME RecordInv, [Record!Next]_recordVars PROVE RecordInv'
  OBVIOUS
<1>1. CASE UNCHANGED recordVars
  BY <1>1 DEF recordVars, RecordInv, RecordTypes, Sound, Follows, Unbroken, RowSound, ResultSound, NotAhead, Latest, Dropped, Known
<1>2. CASE Record!Next
  <2>1. ASSUME NEW r \in Runs, Record!begin(r) \/ Record!advance(r) PROVE RecordInv'
    BY <2>1, RunSteps
  <2>2. ASSUME NEW r \in Runs, NEW kind \in Record!Kinds \ {"pending"}, Record!select(r, kind) PROVE RecordInv'
    <3>1. kind \in {"ordinary", "enno"}
      BY DEF Record!Kinds
    <3> QED
      BY <2>2, <3>1, RunSteps
  <2>3. ASSUME NEW r \in Runs, NEW withChoice \in BOOLEAN, Record!answer(r, withChoice) PROVE RecordInv'
    BY <2>3, Answers
  <2>4. ASSUME NEW s \in results, Record!observe(s) PROVE RecordInv'
    BY <2>4, ResultObserved
  <2> QED
    BY <1>2, <2>1, <2>2, <2>3, <2>4 DEF Record!Next
<1> QED
  BY <1>1, <1>2

\* The session begins without a record.
LEMMA RecordBegins == AllInit => RecordInv
<1> SUFFICES ASSUME AllInit PROVE RecordInv
  OBVIOUS
<1>1. /\ truth = [r \in Runs |-> None] /\ results = {} /\ choice = None /\ entry = None /\ retired = {}
      /\ seen = [r \in Runs |-> [record |-> None, ended |-> FALSE]]
  BY DEF AllInit, Record!Init
<1>2. [record |-> None, ended |-> FALSE] \in Sight
  BY DEF Sight
<1>3. RecordTypes
  BY <1>1, <1>2 DEF RecordTypes
<1>4. \A r \in Runs : Known(r) = {}
  BY <1>1 DEF Known
<1> QED
  BY <1>1, <1>3, <1>4 DEF RecordInv, Sound, Unbroken, Latest

\* What all scenarios do to the record is what the runs, tools and plugin do.
LEMMA OnlyRecordSteps == [AllNext]_all => [Record!Next]_recordVars
BY DEF AllNext, all, InTrace, InLearning, InMeditation, InRecord, Record!Next, Record!Kinds

\* RecordInv says what is promised.
LEMMA LatestHeld == RecordInv => Record!RecordIsLatest
BY RecordHas DEF RecordInv, Latest, ContractOfRun, Record!RecordIsLatest

\* Whatever the order in which summaries are posted and results arrive: the
\* claims of a completed cycle come from its one summary, made at or after its
\* boundary unless the next compaction overtook it, and the record handed on is
\* the latest ever held, of a run that is neither retired nor seen to end.
THEOREM CompactionTracked == SessionsSpec => []CompactionKeepsTrack
<1>1. SessionsSpec => []MeditationInv
  BY MeditationBegins, OnlyMeditationSteps, MeditationStep, PTL DEF SessionsSpec
<1>2. SessionsSpec => []RecordInv
  BY RecordBegins, OnlyRecordSteps, CompactionRecordStep, PTL DEF SessionsSpec
<1>3. MeditationInv /\ RecordInv => CompactionKeepsTrack
  BY OneSummaryEach, LatestHeld DEF CompactionKeepsTrack
<1> QED
  BY <1>1, <1>2, <1>3, PTL

===============================================================================
