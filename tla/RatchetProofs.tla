--------------------------- MODULE RatchetProofs ---------------------------
(***************************************************************************)
(* Proofs about the ratchet, for any leaks, command lines and number of    *)
(* runs under way: IInv is inductive, and it implies that new debt is      *)
(* blocked and that a frozen tree passes.                                  *)
(***************************************************************************)
EXTENDS Ratchet, TLAPS

-----------------------------------------------------------------------------
(* The baseline's text *)

\* Reading back what was rendered gives the signatures that were rendered.
LEMMA ParseRender == ASSUME NEW F PROVE Parse(Render(F)) = Signatures(F)
<1>1. Parse({Comment}) = {}
  BY DEF Parse, Comment
<1>2. \A s : Entry(s).text = "entry" /\ Entry(s).sig = s
  BY DEF Entry
<1>3. Comment.text # "entry"
  BY DEF Comment
<1>4. Parse(Render(F)) \subseteq Signatures(F)
  BY <1>2, <1>3 DEF Parse, Render
<1>5. Signatures(F) \subseteq Parse(Render(F))
  BY <1>2 DEF Parse, Render
<1> QED BY <1>4, <1>5

LEMMA ParseUnion == ASSUME NEW A, NEW B PROVE Parse(A \cup B) = Parse(A) \cup Parse(B)
  BY DEF Parse

LEMMA ParseSubset == ASSUME NEW A, NEW B, A \subseteq B PROVE Parse(A) \subseteq Parse(B)
  BY DEF Parse

LEMMA TextFileFields ==
  ASSUME NEW L PROVE TextFile(L).lines = L /\ TextFile(L).state # "absent"
  BY DEF TextFile

\* A cut line adds at most a torn signature.
LEMMA ParseCut == ASSUME NEW cut \in Cuts PROVE Parse(cut) \subseteq TornSignatures
<1>1. CASE cut = {}
  BY <1>1 DEF Parse
<1>2. CASE \E l \in TornLines : cut = {l}
  BY <1>2, ParseSubset DEF TornSignatures
<1> QED BY <1>1, <1>2 DEF Cuts

LEMMA ParseTorn ==
  ASSUME NEW F, NEW torn \in TornWrites(F)
  PROVE  Parse(torn.lines) \subseteq Signatures(F) \cup TornSignatures
<1>1. PICK some \in SUBSET Render(F), cut \in Cuts : torn = TextFile(some \cup cut)
  BY Zenon DEF TornWrites
<1>2. torn.lines = some \cup cut
  BY <1>1, TextFileFields
<1>3. Parse(torn.lines) = Parse(some) \cup Parse(cut)
  BY <1>2, ParseUnion
<1>4. Parse(some) \subseteq Signatures(F)
  BY ParseSubset, ParseRender
<1> QED BY <1>3, <1>4, ParseCut

\* Writing over what is there adds nothing that was not there or in the text.
LEMMA ParseOverwritten ==
  ASSUME NEW L, NEW file \in Overwritten(L)
  PROVE  Parse(file.lines) \subseteq Parse(L) \cup Parse(baseline.lines) \cup TornSignatures
<1>1. PICK rest \in SUBSET baseline.lines, cut \in Cuts : file = TextFile(L \cup rest \cup cut)
  BY Zenon DEF Overwritten
<1>2. file.lines = (L \cup rest) \cup cut
  BY <1>1, TextFileFields
<1>3. /\ Parse(file.lines) = Parse(L \cup rest) \cup Parse(cut)
      /\ Parse(L \cup rest) = Parse(L) \cup Parse(rest)
  BY <1>2, ParseUnion
<1>4. Parse(rest) \subseteq Parse(baseline.lines)
  BY ParseSubset
<1> QED BY <1>3, <1>4, ParseCut

LEMMA LoadEntries == ASSUME NEW file PROVE Load(file) \subseteq Parse(file.lines)
  BY DEF Load

LEMMA SignaturesMonotone ==
  ASSUME NEW A, NEW B, A \subseteq B PROVE Signatures(A) \subseteq Signatures(B)
  BY DEF Signatures

-----------------------------------------------------------------------------
(* Types *)

LEMMA ShownSubset == ASSUME NEW S, NEW j PROVE Shown(S, j) \subseteq S
  BY DEF Shown

\* What End leaves of a run.
LEMMA TypeEnd ==
  ASSUME TypeOK, NEW p \in Procs, NEW verdict, NEW stale,
         End(p, verdict, stale), UNCHANGED tree,
         accepted' \subseteq Leaks, calm' \in [Procs -> BOOLEAN]
  PROVE  TypeOK'
  BY DEF TypeOK, End, tree

LEMMA TypeStep == ASSUME TypeOK, [Next]_vars PROVE TypeOK'
<1>1. ASSUME NEW l \in Leaks, Introduce(l) PROVE TypeOK'
  BY <1>1 DEF TypeOK, Introduce, Edited, state
<1>2. ASSUME NEW l \in Leaks, Fix(l) PROVE TypeOK'
  BY <1>2 DEF TypeOK, Fix, Edited, state
<1>3. ASSUME NEW f \in Files, Break(f) PROVE TypeOK'
  BY <1>3 DEF TypeOK, Break, Edited, state
<1>4. ASSUME NEW f \in Files, Mend(f) PROVE TypeOK'
  BY <1>4 DEF TypeOK, Mend, Edited, state
<1>5. ASSUME NEW p \in Procs, NEW j \in Jobs, Start(p, j) PROVE TypeOK'
  BY <1>5 DEF TypeOK, Start, tree
<1>6. ASSUME NEW p \in Procs, NEW f \in Files, ScanFile(p, f) PROVE TypeOK'
  <2>1. Shown({l \in leaks : l.file = f}, job[p]) \subseteq Leaks
    BY ShownSubset DEF TypeOK
  <2>2. found' \in [Procs -> SUBSET Leaks]
    BY <1>6, <2>1 DEF ScanFile, TypeOK
  <2> QED BY <1>6, <2>2 DEF TypeOK, ScanFile, tree, history
<1>7. ASSUME NEW p \in Procs, NEW f \in Files, SkipFile(p, f) PROVE TypeOK'
  BY <1>7 DEF TypeOK, SkipFile, tree, history
<1>8. ASSUME NEW p \in Procs, NEW f \in Files, AuditFails(p, f) PROVE TypeOK'
  BY <1>8, TypeEnd DEF TypeOK, AuditFails
<1>9. ASSUME NEW p \in Procs, Gate(p) PROVE TypeOK'
  BY <1>9, TypeEnd DEF TypeOK, Gate
<1>10. ASSUME NEW p \in Procs, OpenBaseline(p) PROVE TypeOK'
  BY <1>10 DEF TypeOK, OpenBaseline, tree
<1>11. ASSUME NEW p \in Procs, WriteBaseline(p) PROVE TypeOK'
  BY <1>11, TypeEnd DEF TypeOK, WriteBaseline, Written
<1>12. ASSUME NEW p \in Procs, Crash(p) PROVE TypeOK'
  BY <1>12, TypeEnd DEF TypeOK, Crash
<1>13. ASSUME NEW p \in Procs, CrashWriting(p) PROVE TypeOK'
  BY <1>13, TypeEnd DEF TypeOK, CrashWriting
<1>14. CASE UNCHANGED vars
  BY <1>14 DEF TypeOK, vars, tree, state, history
<1> QED
  BY <1>1, <1>2, <1>3, <1>4, <1>5, <1>6, <1>7, <1>8, <1>9, <1>10, <1>11, <1>12,
     <1>13, <1>14 DEF Next, Edit, Step

-----------------------------------------------------------------------------
(* What the baseline holds *)

\* A step that leaves the file alone and starts no write.
LEMMA AcceptedQuiet ==
  ASSUME EntriesAccepted, UpdateAccepts, UNCHANGED <<baseline, accepted>>,
         \A q \in Procs : pc'[q] = "write" => pc[q] = "write" /\ found'[q] = found[q]
  PROVE  EntriesAccepted' /\ UpdateAccepts'
  BY DEF EntriesAccepted, UpdateAccepts, Acceptable

\* A step that ends run p and leaves nothing in the file but what was there,
\* p's findings and torn lines.
LEMMA AcceptedWrite ==
  ASSUME TypeOK, EntriesAccepted, UpdateAccepts, NEW p \in Procs, pc[p] = "write",
         NEW verdict, NEW stale, End(p, verdict, stale), UNCHANGED accepted,
         Parse(baseline'.lines) \subseteq
            Signatures(found[p]) \cup Parse(baseline.lines) \cup TornSignatures
  PROVE  EntriesAccepted' /\ UpdateAccepts'
<1>1. found[p] \subseteq accepted
  BY DEF UpdateAccepts
<1>2. Signatures(found[p]) \subseteq Signatures(accepted)
  BY <1>1, SignaturesMonotone
<1>3. Acceptable' = Acceptable
  BY DEF Acceptable
<1>4. EntriesAccepted'
  BY <1>2, <1>3 DEF EntriesAccepted, Acceptable
<1>5. \A q \in Procs : pc'[q] = "write" => pc[q] = "write" /\ found'[q] = found[q]
  BY DEF TypeOK, End
<1>6. UpdateAccepts'
  BY <1>5 DEF UpdateAccepts
<1> QED BY <1>4, <1>6

LEMMA AcceptedStep ==
  ASSUME TypeOK, EntriesAccepted, UpdateAccepts, [Next]_vars
  PROVE  EntriesAccepted' /\ UpdateAccepts'
<1>1. CASE Edit
  BY <1>1, AcceptedQuiet DEF Edit, Introduce, Fix, Break, Mend, Edited, state
<1>2. ASSUME NEW p \in Procs, NEW j \in Jobs, Start(p, j)
      PROVE  EntriesAccepted' /\ UpdateAccepts'
  BY <1>2, AcceptedQuiet DEF Start, TypeOK
<1>3. ASSUME NEW p \in Procs, NEW f \in Files, ScanFile(p, f)
      PROVE  EntriesAccepted' /\ UpdateAccepts'
  BY <1>3, AcceptedQuiet DEF ScanFile, history, TypeOK
<1>4. ASSUME NEW p \in Procs, NEW f \in Files, SkipFile(p, f)
      PROVE  EntriesAccepted' /\ UpdateAccepts'
  BY <1>4, AcceptedQuiet DEF SkipFile, history
<1>5. ASSUME NEW p \in Procs, \/ \E f \in Files : AuditFails(p, f)
                             \/ Gate(p) \/ Crash(p)
      PROVE  EntriesAccepted' /\ UpdateAccepts'
  <2>1. PICK verdict, stale : End(p, verdict, stale)
    BY <1>5 DEF AuditFails, Gate, Crash
  <2>2. UNCHANGED <<baseline, accepted>>
    BY <1>5 DEF AuditFails, Gate, Crash
  <2>3. \A q \in Procs : pc'[q] = "write" => pc[q] = "write" /\ found'[q] = found[q]
    BY <2>1 DEF End, TypeOK
  <2> QED BY <2>2, <2>3, AcceptedQuiet
<1>6. ASSUME NEW p \in Procs, OpenBaseline(p)
      PROVE  EntriesAccepted' /\ UpdateAccepts'
  <2>1. Parse(baseline'.lines) = {}
    BY <1>6, TextFileFields DEF OpenBaseline, Parse
  <2>2. accepted' = accepted \cup found[p] /\ found' = found
    BY <1>6 DEF OpenBaseline
  <2>3. \A q \in Procs : pc'[q] = "write" => q = p \/ pc[q] = "write"
    BY <1>6 DEF OpenBaseline, TypeOK
  <2>4. EntriesAccepted'
    BY <2>1 DEF EntriesAccepted
  <2>5. UpdateAccepts'
    BY <2>2, <2>3 DEF UpdateAccepts
  <2> QED BY <2>4, <2>5
<1>7. ASSUME NEW p \in Procs, WriteBaseline(p)
      PROVE  EntriesAccepted' /\ UpdateAccepts'
  <2>1. Parse(baseline'.lines) \subseteq
           Parse(Render(found[p])) \cup Parse(baseline.lines) \cup TornSignatures
    <3>1. CASE baseline.lines = {}
      BY <1>7, <3>1, TextFileFields DEF WriteBaseline
    <3>2. CASE baseline.lines # {}
      BY <1>7, <3>2, ParseOverwritten DEF WriteBaseline
    <3> QED BY <3>1, <3>2
  <2>2. pc[p] = "write" /\ End(p, "updated", {}) /\ UNCHANGED accepted
    BY <1>7 DEF WriteBaseline, Written
  <2> QED BY <2>1, <2>2, ParseRender, AcceptedWrite
<1>8. ASSUME NEW p \in Procs, CrashWriting(p)
      PROVE  EntriesAccepted' /\ UpdateAccepts'
  <2>1. PICK torn \in TornWrites(found[p]) : baseline' \in Overwritten(torn.lines)
    BY <1>8 DEF CrashWriting
  <2>2. Parse(baseline'.lines) \subseteq
           Parse(torn.lines) \cup Parse(baseline.lines) \cup TornSignatures
    BY <2>1, ParseOverwritten
  <2>3. Parse(torn.lines) \subseteq Signatures(found[p]) \cup TornSignatures
    BY ParseTorn
  <2>4. pc[p] = "write" /\ End(p, "crashed", {}) /\ UNCHANGED accepted
    BY <1>8 DEF CrashWriting
  <2> QED BY <2>2, <2>3, <2>4, AcceptedWrite
<1>9. CASE UNCHANGED vars
  BY <1>9, AcceptedQuiet DEF vars, state, history
<1> QED
  BY <1>1, <1>2, <1>3, <1>4, <1>5, <1>6, <1>7, <1>8, <1>9 DEF Next, Step

-----------------------------------------------------------------------------
(* What a run has found *)

LEMMA FileOfLeak == ASSUME NEW l \in Leaks PROVE l.file \in Files
  BY DEF Files

\* What a step that ends run p leaves true of the others.
LEMMA CoversEnd ==
  ASSUME TypeOK, AuditCovers, NEW p \in Procs, NEW verdict, NEW stale,
         End(p, verdict, stale), UNCHANGED tree
  PROVE  AuditCovers'
<1> SUFFICES ASSUME NEW q \in Procs
             PROVE  /\ lasting'[q] \subseteq leaks'
                    /\ readable'[q] \cap broken' = {}
                    /\ pc'[q] = "audit" =>
                         {l \in Seen(q)' : l.file \notin todo'[q]} \subseteq found'[q]
  BY DEF AuditCovers
<1>1. CASE q = p
  BY <1>1 DEF End, TypeOK
<1>2. CASE q # p
  <2>1. /\ lasting'[q] = lasting[q] /\ readable'[q] = readable[q] /\ pc'[q] = pc[q]
        /\ todo'[q] = todo[q] /\ found'[q] = found[q] /\ job'[q] = job[q]
    BY <1>2 DEF End, TypeOK
  <2>2. Seen(q)' = Seen(q)
    BY <2>1 DEF Seen, Shown
  <2> QED BY <2>1, <2>2 DEF AuditCovers, tree
<1> QED BY <1>1, <1>2

LEMMA CoversStep ==
  ASSUME TypeOK, AuditCovers, [Next]_vars
  PROVE  AuditCovers'
<1> DEFINE Covers(q) == /\ lasting'[q] \subseteq leaks'
                        /\ readable'[q] \cap broken' = {}
                        /\ pc'[q] = "audit" =>
                             {l \in Seen(q)' : l.file \notin todo'[q]} \subseteq found'[q]
<1> SUFFICES \A q \in Procs : Covers(q)
  BY DEF AuditCovers
<1>1. CASE Edit
  <2> SUFFICES ASSUME NEW q \in Procs PROVE Covers(q)
    OBVIOUS
  <2>1. UNCHANGED <<pc, job, todo, found>>
    BY <1>1 DEF Edit, Introduce, Fix, Break, Mend, Edited, state
  <2>2. lasting'[q] \subseteq lasting[q] /\ readable'[q] \subseteq readable[q]
    BY <1>1 DEF Edit, Introduce, Fix, Break, Mend
  <2>3. Seen(q)' \subseteq Seen(q)
    BY <2>1, <2>2 DEF Seen, Shown
  <2>4. lasting'[q] \subseteq leaks'
    BY <1>1 DEF Edit, Introduce, Fix, Break, Mend, AuditCovers
  <2>5. readable'[q] \cap broken' = {}
    BY <1>1 DEF Edit, Introduce, Fix, Break, Mend, AuditCovers
  <2> QED BY <2>1, <2>3, <2>4, <2>5 DEF AuditCovers
<1>2. ASSUME NEW p \in Procs, NEW j \in Jobs, Start(p, j), NEW q \in Procs
      PROVE  Covers(q)
  <2>1. CASE q = p
    <3>1. /\ lasting'[q] = leaks /\ readable'[q] = Files \ broken /\ todo'[q] = Files
          /\ UNCHANGED tree
      BY <1>2, <2>1 DEF Start, TypeOK
    <3>2. \A l \in Seen(q)' : l.file \in Files
      BY <3>1 DEF Seen
    <3> QED BY <3>1, <3>2 DEF tree
  <2>2. CASE q # p
    <3>1. /\ lasting'[q] = lasting[q] /\ readable'[q] = readable[q] /\ pc'[q] = pc[q]
          /\ todo'[q] = todo[q] /\ found'[q] = found[q] /\ job'[q] = job[q]
          /\ UNCHANGED tree
      BY <1>2, <2>2 DEF Start, TypeOK
    <3>2. Seen(q)' = Seen(q)
      BY <3>1 DEF Seen, Shown
    <3> QED BY <3>1, <3>2 DEF AuditCovers, tree
  <2> QED BY <2>1, <2>2
<1>3. ASSUME NEW p \in Procs, NEW f \in Files, ScanFile(p, f), NEW q \in Procs
      PROVE  Covers(q)
  <2>1. /\ UNCHANGED <<lasting, readable, leaks, broken, job, pc>>
        /\ Seen(q)' = Seen(q)
    BY <1>3 DEF ScanFile, history, tree, Seen, Shown
  <2>2. CASE q = p
    <3>1. /\ todo'[q] = todo[q] \ {f}
          /\ found'[q] = found[q] \cup Shown({l \in leaks : l.file = f}, job[q])
      BY <1>3, <2>2 DEF ScanFile, TypeOK
    <3>2. \A l \in Seen(q) : l.file = f => l \in Shown({m \in leaks : m.file = f}, job[q])
      BY DEF Seen, Shown, AuditCovers
    <3> QED BY <2>1, <3>1, <3>2 DEF AuditCovers
  <2>3. CASE q # p
    <3>1. todo'[q] = todo[q] /\ found'[q] = found[q]
      BY <1>3, <2>3 DEF ScanFile, TypeOK
    <3> QED BY <2>1, <3>1 DEF AuditCovers
  <2> QED BY <2>2, <2>3
<1>4. ASSUME NEW p \in Procs, NEW f \in Files, SkipFile(p, f), NEW q \in Procs
      PROVE  Covers(q)
  <2>1. /\ UNCHANGED <<lasting, readable, leaks, broken, job, pc, found>>
        /\ Seen(q)' = Seen(q)
    BY <1>4 DEF SkipFile, history, tree, Seen, Shown
  <2>2. CASE q = p
    <3>1. todo'[q] = todo[q] \ {f} /\ f \in broken
      BY <1>4, <2>2 DEF SkipFile, TypeOK
    <3>2. \A l \in Seen(q) : l.file # f
      BY <3>1 DEF Seen, AuditCovers
    <3> QED BY <2>1, <3>1, <3>2 DEF AuditCovers
  <2>3. CASE q # p
    <3>1. todo'[q] = todo[q]
      BY <1>4, <2>3 DEF SkipFile, TypeOK
    <3> QED BY <2>1, <3>1 DEF AuditCovers
  <2> QED BY <2>2, <2>3
<1>5. ASSUME NEW p \in Procs, \/ \E f \in Files : AuditFails(p, f)
                             \/ Gate(p) \/ Crash(p) \/ WriteBaseline(p) \/ CrashWriting(p)
      PROVE  AuditCovers'
  <2>1. (\E verdict, stale : End(p, verdict, stale)) /\ UNCHANGED tree
    BY <1>5 DEF AuditFails, Gate, Crash, WriteBaseline, Written, CrashWriting
  <2> QED BY <2>1, CoversEnd
<1>6. ASSUME NEW p \in Procs, OpenBaseline(p), NEW q \in Procs
      PROVE  Covers(q)
  <2>1. /\ UNCHANGED <<lasting, readable, leaks, broken, job, todo, found>>
        /\ Seen(q)' = Seen(q)
    BY <1>6 DEF OpenBaseline, tree, Seen, Shown
  <2>2. pc'[q] = "audit" => pc[q] = "audit"
    BY <1>6 DEF OpenBaseline, TypeOK
  <2> QED BY <2>1, <2>2 DEF AuditCovers
<1>7. CASE UNCHANGED vars
  <2>1. UNCHANGED <<lasting, readable, leaks, broken, job, pc, todo, found>>
    BY <1>7 DEF vars, tree, state, history
  <2> QED BY <2>1 DEF AuditCovers, Seen, Shown
<1>8. AuditCovers' => \A q \in Procs : Covers(q)
  BY DEF AuditCovers
<1> HIDE DEF Covers
<1> QED
  BY <1>1, <1>2, <1>3, <1>4, <1>5, <1>6, <1>7, <1>8 DEF Next, Step

-----------------------------------------------------------------------------
(* What an undisturbed run has found, and what a frozen file holds *)

\* A step that leaves tree and file alone, disturbs nobody, and of each run
\* either leaves what it found and has to do, or ends it.
LEMMA ExactQuiet ==
  ASSUME AuditExact, FrozenExact, UNCHANGED <<leaks, broken, baseline, frozen, calm>>,
         \A q \in Procs :
            pc'[q] # "idle" =>
               /\ pc[q] # "idle"
               /\ found'[q] = found[q] /\ todo'[q] = todo[q] /\ job'[q] = job[q]
  PROVE  AuditExact' /\ FrozenExact'
<1>1. FrozenExact'
  BY DEF FrozenExact
<1>2. AuditExact'
  BY DEF AuditExact, Shown
<1> QED BY <1>1, <1>2

\* A step after which nothing is calm or frozen.
LEMMA ExactDisturbed ==
  ASSUME calm' = [q \in Procs |-> FALSE], frozen' = {}
  PROVE  AuditExact' /\ FrozenExact'
  BY DEF AuditExact, FrozenExact

LEMMA ExactStep ==
  ASSUME TypeOK, AuditExact, FrozenExact, [Next]_vars
  PROVE  AuditExact' /\ FrozenExact'
<1>1. CASE Edit
  BY <1>1, ExactDisturbed DEF Edit, Introduce, Fix, Break, Mend, Edited
<1>2. ASSUME NEW p \in Procs, NEW j \in Jobs, Start(p, j)
      PROVE  AuditExact' /\ FrozenExact'
  <2>1. UNCHANGED <<leaks, broken, baseline, frozen>>
    BY <1>2 DEF Start, tree
  <2>2. FrozenExact'
    BY <2>1 DEF FrozenExact
  <2>3. ASSUME NEW q \in Procs, pc'[q] # "idle", calm'[q]
        PROVE  found'[q] = {l \in Shown(leaks', job'[q]) : l.file \notin todo'[q] \cup broken'}
    <3>1. CASE q = p
      <4>1. found'[q] = {} /\ todo'[q] = Files
        BY <1>2, <3>1 DEF Start, TypeOK
      <4>2. \A l \in Shown(leaks', job'[q]) : l.file \in Files
        BY <2>1, ShownSubset, FileOfLeak DEF TypeOK
      <4> QED BY <4>1, <4>2
    <3>2. CASE q # p
      <4>1. /\ pc'[q] = pc[q] /\ calm'[q] = calm[q] /\ found'[q] = found[q]
            /\ todo'[q] = todo[q] /\ job'[q] = job[q]
        BY <1>2, <3>2 DEF Start, TypeOK
      <4> QED BY <2>1, <2>3, <4>1 DEF AuditExact
    <3> QED BY <3>1, <3>2
  <2>4. AuditExact'
    BY <2>3 DEF AuditExact
  <2> QED BY <2>2, <2>4
<1>3. ASSUME NEW p \in Procs, NEW f \in Files, ScanFile(p, f)
      PROVE  AuditExact' /\ FrozenExact'
  <2>1. UNCHANGED <<leaks, broken, baseline, frozen, calm, job, pc>>
    BY <1>3 DEF ScanFile, tree, history
  <2>2. FrozenExact'
    BY <2>1 DEF FrozenExact
  <2>3. ASSUME NEW q \in Procs, pc[q] # "idle", calm[q]
        PROVE  found'[q] = {l \in Shown(leaks, job[q]) : l.file \notin todo'[q] \cup broken}
    <3>1. found[q] = {l \in Shown(leaks, job[q]) : l.file \notin todo[q] \cup broken}
      BY <2>3 DEF AuditExact
    <3>2. CASE q = p
      <4>1. /\ f \in todo[q] \ broken /\ todo'[q] = todo[q] \ {f}
            /\ found'[q] = found[q] \cup Shown({l \in leaks : l.file = f}, job[q])
        BY <1>3, <3>2 DEF ScanFile, TypeOK
      <4>2. Shown({l \in leaks : l.file = f}, job[q])
              = {l \in Shown(leaks, job[q]) : l.file = f}
        BY DEF Shown
      <4> QED BY <3>1, <4>1, <4>2
    <3>3. CASE q # p
      <4>1. found'[q] = found[q] /\ todo'[q] = todo[q]
        BY <1>3, <3>3 DEF ScanFile, TypeOK
      <4> QED BY <3>1, <4>1
    <3> QED BY <3>2, <3>3
  <2>4. AuditExact'
    BY <2>1, <2>3 DEF AuditExact, Shown
  <2> QED BY <2>2, <2>4
<1>4. ASSUME NEW p \in Procs, NEW f \in Files, SkipFile(p, f)
      PROVE  AuditExact' /\ FrozenExact'
  <2>1. UNCHANGED <<leaks, broken, baseline, frozen, calm, job, pc, found>>
    BY <1>4 DEF SkipFile, tree, history
  <2>2. FrozenExact'
    BY <2>1 DEF FrozenExact
  <2>3. \A q \in Procs : todo'[q] \cup broken = todo[q] \cup broken
    BY <1>4 DEF SkipFile, TypeOK
  <2>4. AuditExact'
    BY <2>1, <2>3 DEF AuditExact, Shown
  <2> QED BY <2>2, <2>4
<1>5. ASSUME NEW p \in Procs, \/ \E f \in Files : AuditFails(p, f)
                             \/ Gate(p) \/ Crash(p)
      PROVE  AuditExact' /\ FrozenExact'
  <2>1. PICK verdict, stale : End(p, verdict, stale)
    BY <1>5 DEF AuditFails, Gate, Crash
  <2>2. UNCHANGED <<leaks, broken, baseline, frozen, calm>>
    BY <1>5 DEF AuditFails, Gate, Crash, tree
  <2>3. \A q \in Procs :
           pc'[q] # "idle" =>
              /\ pc[q] # "idle"
              /\ found'[q] = found[q] /\ todo'[q] = todo[q] /\ job'[q] = job[q]
    BY <2>1 DEF End, TypeOK
  <2> QED BY <2>2, <2>3, ExactQuiet
<1>6. ASSUME NEW p \in Procs, OpenBaseline(p)
      PROVE  AuditExact' /\ FrozenExact'
  <2>1. UNCHANGED <<leaks, broken, job, todo, found>> /\ frozen' = {}
    BY <1>6 DEF OpenBaseline, tree
  <2>2. \A q \in Procs : calm'[q] => calm[q] /\ pc[q] # "idle"
    BY <1>6 DEF OpenBaseline
  <2>3. AuditExact'
    BY <2>1, <2>2 DEF AuditExact, Shown
  <2>4. FrozenExact'
    BY <2>1 DEF FrozenExact
  <2> QED BY <2>3, <2>4
<1>7. ASSUME NEW p \in Procs, WriteBaseline(p)
      PROVE  AuditExact' /\ FrozenExact'
  <2>1. AuditExact'
    BY <1>7 DEF WriteBaseline, Written, AuditExact
  <2>2. CASE ~Exact(p)
    BY <1>7, <2>2, <2>1, ExactDisturbed DEF WriteBaseline, Written
  <2>3. CASE Exact(p)
    <3>1. /\ frozen' = {job[p].strict} /\ UNCHANGED <<leaks, broken>>
          /\ baseline' = TextFile(Render(found[p]))
      BY <1>7, <2>3 DEF WriteBaseline, Written, Exact, tree
    <3>2. found[p] = {l \in Shown(leaks, job[p]) : l.file \notin todo[p] \cup broken}
      BY <1>7, <2>3 DEF AuditExact, WriteBaseline, Exact
    <3>3. todo[p] = {}
      BY <1>7 DEF TypeOK, WriteBaseline
    <3>4. found[p] = {l \in leaks : Visible(l, job[p].strict) /\ l.file \notin broken}
      BY <3>2, <3>3 DEF Shown
    <3>5. Load(baseline') = Signatures(found[p])
      BY <3>1, TextFileFields, ParseRender DEF Load
    <3>6. Load(baseline)' = Signatures(found[p])
      BY <3>5
    <3>7. FrozenExact'
      BY <3>1, <3>4, <3>6 DEF FrozenExact
    <3> QED BY <2>1, <3>7
  <2> QED BY <2>2, <2>3
<1>8. ASSUME NEW p \in Procs, CrashWriting(p)
      PROVE  AuditExact' /\ FrozenExact'
  BY <1>8, ExactDisturbed DEF CrashWriting
<1>9. CASE UNCHANGED vars
  BY <1>9, ExactQuiet DEF vars, tree, state, history
<1> QED
  BY <1>1, <1>2, <1>3, <1>4, <1>5, <1>6, <1>7, <1>8, <1>9 DEF Next, Step

-----------------------------------------------------------------------------
(* The theorems *)

LEMMA InitInv == Init => IInv
<1> SUFFICES ASSUME Init PROVE IInv
  OBVIOUS
<1>1. TypeOK
  BY DEF Init, TypeOK
<1>2. EntriesAccepted
  BY DEF Init, EntriesAccepted, AbsentFile, Parse
<1>3. AuditCovers
  BY DEF Init, AuditCovers
<1>4. UpdateAccepts /\ AuditExact /\ FrozenExact
  BY DEF Init, UpdateAccepts, AuditExact, FrozenExact
<1> QED BY <1>1, <1>2, <1>3, <1>4 DEF IInv

LEMMA StepInv == IInv /\ [Next]_vars => IInv'
  BY TypeStep, AcceptedStep, CoversStep, ExactStep DEF IInv

\* IInv is an invariant of the ratchet.
THEOREM Inductive == Spec => []IInv
  BY InitInv, StepInv, PTL DEF Spec

\* The state of every run and of its ghosts is well typed in every behaviour.
THEOREM TypeCorrect == Spec => []TypeOK
<1>1. IInv => TypeOK
  BY DEF IInv
<1> QED BY <1>1, Inductive, PTL

\* Only a gate run's last step reports a pass or a failure.
LEMMA OnlyGateJudges ==
  ASSUME TypeOK, Next, NEW p \in Procs, NEW verdict \in {"green", "red"},
         Reports(p, verdict)
  PROVE  /\ Gate(p)
         /\ verdict = "green" <=> /\ Fresh(found[p], Load(baseline)) = {}
                                 /\ Stale(found[p], Load(baseline)) = {}
<1>1. ~Edit
  BY DEF Edit, Introduce, Fix, Break, Mend, Edited, state, Reports
<1>2. PICK q \in Procs : Step(q) \/ \E j \in Jobs : Start(q, j)
  BY <1>1 DEF Next
<1>3. q = p
  <2>1. q # p => pc'[p] = pc[p]
    BY <1>2 DEF Step, Start, ScanFile, SkipFile, AuditFails, Gate, OpenBaseline,
       WriteBaseline, Written, Crash, CrashWriting, End, TypeOK
  <2> QED BY <2>1 DEF Reports
<1>4. ASSUME NEW v, NEW stale, End(p, v, stale) PROVE v = verdict
  BY <1>4 DEF End, Reports, TypeOK
<1>5. Gate(p)
  <2>1. ~(\E j \in Jobs : Start(p, j)) /\ ~OpenBaseline(p)
        /\ \A f \in Files : ~ScanFile(p, f) /\ ~SkipFile(p, f)
    BY DEF Reports, Start, OpenBaseline, ScanFile, SkipFile, TypeOK
  <2>2. \A f \in Files : ~AuditFails(p, f)
    BY <1>4 DEF AuditFails
  <2>3. ~WriteBaseline(p) /\ ~Crash(p) /\ ~CrashWriting(p)
    BY <1>4 DEF WriteBaseline, Written, Crash, CrashWriting
  <2> QED BY <1>2, <1>3, <2>1, <2>2, <2>3 DEF Step
<1>6. verdict = IF /\ Fresh(found[p], Load(baseline)) = {}
                   /\ Stale(found[p], Load(baseline)) = {} THEN "green" ELSE "red"
  BY <1>4, <1>5 DEF Gate
<1> QED BY <1>5, <1>6

\* New debt is blocked: of every leak that lasted while a passing gate run
\* audited, an update run had found the signature before.
THEOREM NewDebt == Spec => NewDebtIsBlocked
<1>1. ASSUME IInv, [Next]_vars
      PROVE  [\A p \in Procs : Reports(p, "green") => Signatures(Seen(p)) \subseteq Acceptable]_vars
  <2> SUFFICES ASSUME Next, NEW p \in Procs, Reports(p, "green")
               PROVE  Signatures(Seen(p)) \subseteq Acceptable
    BY <1>1
  <2>1. /\ Gate(p)
        /\ Fresh(found[p], Load(baseline)) = {}
    BY <1>1, OnlyGateJudges DEF IInv
  <2>2. Signatures(found[p]) \subseteq Load(baseline)
    BY <2>1 DEF Fresh, Signatures
  <2>3. Load(baseline) \subseteq Acceptable
    BY <1>1, LoadEntries DEF IInv, EntriesAccepted
  <2>4. Seen(p) \subseteq found[p]
    BY <1>1, <2>1 DEF IInv, AuditCovers, Gate
  <2>5. Signatures(Seen(p)) \subseteq Signatures(found[p])
    BY <2>4, SignaturesMonotone
  <2> QED BY <2>2, <2>3, <2>5
<1> QED BY <1>1, Inductive, PTL DEF Spec, NewDebtIsBlocked

\* Freezing works: a run that nothing disturbs after an undisturbed update
\* never fails.
THEOREM FrozenTree == Spec => FrozenTreePasses
<1>1. ASSUME IInv, [Next]_vars
      PROVE  [\A p \in Procs :
                calm[p] /\ job[p].strict \in frozen => ~Reports(p, "red")]_vars
  <2> SUFFICES ASSUME Next, NEW p \in Procs, calm[p], job[p].strict \in frozen,
                      Reports(p, "red")
               PROVE  FALSE
    BY <1>1
  <2>1. /\ Gate(p)
        /\ ~(Fresh(found[p], Load(baseline)) = {} /\ Stale(found[p], Load(baseline)) = {})
    BY <1>1, OnlyGateJudges DEF IInv
  <2>2. todo[p] = {} /\ pc[p] # "idle"
    BY <2>1 DEF Gate
  <2>3. found[p] = {l \in Shown(leaks, job[p]) : l.file \notin todo[p] \cup broken}
    BY <1>1, <2>2 DEF IInv, AuditExact
  <2>4. found[p] = {l \in leaks : Visible(l, job[p].strict) /\ l.file \notin broken}
    BY <2>2, <2>3 DEF Shown
  <2>5. Load(baseline) = Signatures(found[p])
    BY <1>1, <2>4 DEF IInv, FrozenExact
  <2>6. Fresh(found[p], Load(baseline)) = {} /\ Stale(found[p], Load(baseline)) = {}
    BY <2>5 DEF Fresh, Stale, Signatures
  <2> QED BY <2>1, <2>6
<1> QED BY <1>1, Inductive, PTL DEF Spec, FrozenTreePasses

\* What a judging run reports, in terms of what it found.
LEMMA JudgedByFound ==
  ASSUME TypeOK, Next, NEW p \in Procs, NEW verdict \in {"green", "red"},
         Reports(p, verdict)
  PROVE  said'[p].stale = Stale(found[p], Load(baseline))
<1>1. Gate(p)
  BY OnlyGateJudges
<1> DEFINE stale == Stale(found[p], Load(baseline))
<1>2. \E v : End(p, v, stale)
  BY <1>1 DEF Gate
<1> QED BY <1>2 DEF End, TypeOK

\* A run nobody disturbed answers what one look at the tree and at the baseline
\* would, however many files it reads one after the other.
THEOREM UndisturbedRunsAreAtomic == Spec => UndisturbedIsAtomic
<1>1. ASSUME IInv, [Next]_vars
      PROVE  [\A p \in Procs, verdict \in {"green", "red"} :
                calm[p] /\ Reports(p, verdict) =>
                    LET now == {l \in Shown(leaks, job[p]) : l.file \notin broken}
                        stale == Stale(now, Load(baseline))
                    IN /\ verdict = "green" <=> Fresh(now, Load(baseline)) = {} /\ stale = {}
                       /\ said'[p].stale = stale]_vars
  <2> SUFFICES ASSUME Next, NEW p \in Procs, NEW verdict \in {"green", "red"},
                      calm[p], Reports(p, verdict)
               PROVE  LET now == {l \in Shown(leaks, job[p]) : l.file \notin broken}
                          stale == Stale(now, Load(baseline))
                      IN /\ verdict = "green" <=> Fresh(now, Load(baseline)) = {} /\ stale = {}
                         /\ said'[p].stale = stale
    BY <1>1
  <2>1. /\ Gate(p)
        /\ verdict = "green" <=> /\ Fresh(found[p], Load(baseline)) = {}
                                 /\ Stale(found[p], Load(baseline)) = {}
    BY <1>1, OnlyGateJudges DEF IInv
  <2>2. todo[p] = {} /\ pc[p] # "idle"
    BY <2>1 DEF Gate
  <2>3. found[p] = {l \in Shown(leaks, job[p]) : l.file \notin todo[p] \cup broken}
    BY <1>1, <2>2 DEF IInv, AuditExact
  <2>4. found[p] = {l \in Shown(leaks, job[p]) : l.file \notin broken}
    BY <2>2, <2>3
  <2>5. said'[p].stale = Stale(found[p], Load(baseline))
    BY <1>1, JudgedByFound DEF IInv
  <2> QED BY <2>1, <2>4, <2>5
<1> QED BY <1>1, Inductive, PTL DEF Spec, UndisturbedIsAtomic

\* No run calls an entry stale whose leak it cannot have missed, whatever is
\* edited and rewritten while it reads.
THEOREM StaleEntriesAreUnseen == Spec => StaleIsUnseen
<1>1. ASSUME IInv, [Next]_vars
      PROVE  [\A p \in Procs :
                Reports(p, "red") => said'[p].stale \cap Signatures(Seen(p)) = {}]_vars
  <2> SUFFICES ASSUME Next, NEW p \in Procs, Reports(p, "red")
               PROVE  said'[p].stale \cap Signatures(Seen(p)) = {}
    BY <1>1
  <2>1. Gate(p) /\ said'[p].stale = Stale(found[p], Load(baseline))
    BY <1>1, OnlyGateJudges, JudgedByFound DEF IInv
  <2>2. Seen(p) \subseteq found[p]
    BY <1>1, <2>1 DEF IInv, AuditCovers, Gate
  <2>3. Signatures(Seen(p)) \subseteq Signatures(found[p])
    BY <2>2, SignaturesMonotone
  <2> QED BY <2>1, <2>3 DEF Stale
<1> QED BY <1>1, Inductive, PTL DEF Spec, StaleIsUnseen

=============================================================================
