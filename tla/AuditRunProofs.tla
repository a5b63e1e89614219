--------------------------- MODULE AuditRunProofs ---------------------------
(***************************************************************************)
(* Proofs about AuditRun, for every workspace, command line and baseline:  *)
(* the inductive invariant IInv, from it that a clean verdict is earned,   *)
(* that only a complete audit writes the baseline, that a green run leaves *)
(* the kernel layer closed, and that the pipeline implements the one-step  *)
(* contract Gate.                                                          *)
(***************************************************************************)
EXTENDS AuditRun, TLAPS

-----------------------------------------------------------------------------
(* The type invariant is inductive by itself. *)

LEMMA InitTypeOK == Init => TypeOK
  BY DEF Init, TypeOK, Phases, Says, Running

LEMMA NextTypeOK == TypeOK /\ [Next]_vars => TypeOK'
<1> SUFFICES ASSUME TypeOK, [Next]_vars PROVE TypeOK'
  OBVIOUS
<1> USE DEF TypeOK, Phases, given, audit, Running, Says, Exit
<1>1. CASE Discover BY <1>1 DEF Discover
<1>2. CASE DiscoveryFails BY <1>2 DEF DiscoveryFails
<1>3. CASE NoCoreCrates
  <2>1. CASE args.requireDomain \/ args.requireKernel BY <1>3, <2>1 DEF NoCoreCrates
  <2>2. CASE ~(args.requireDomain \/ args.requireKernel)
    <3>1. out' = Says("audited nothing", {}, {}, {}) BY <1>3, <2>2 DEF NoCoreCrates
    <3>2. out'.verdict = "audited nothing" BY ONLY <3>1 DEF Says
    <3> QED BY <1>3, <2>2, <3>2 DEF NoCoreCrates
  <2> QED BY <2>1, <2>2
<1>4. CASE MissingRequiredRole BY <1>4 DEF MissingRequiredRole
<1>5. CASE StartAudit BY <1>5 DEF StartAudit
<1>6. CASE AuditManifest BY <1>6 DEF AuditManifest
<1>7. CASE PassOver BY <1>7 DEF PassOver
<1>8. CASE ScanFile BY <1>8 DEF ScanFile
<1>9. CASE SkipFile BY <1>9 DEF SkipFile
<1>10. CASE FileFails BY <1>10 DEF FileFails
<1>11. CASE WalkFails BY <1>11 DEF WalkFails
<1>12. CASE FinishCrate BY <1>12 DEF FinishCrate
<1>13. CASE FinishAudit BY <1>13 DEF FinishAudit
<1>14. CASE WriteBaseline BY <1>14 DEF WriteBaseline
<1>15. CASE WriteFails BY <1>15 DEF WriteFails
<1>16. CASE ApplyBaseline BY <1>16 DEF ApplyBaseline
<1>17. CASE LoadFails BY <1>17 DEF LoadFails
<1>18. CASE Emit BY <1>18 DEF Emit, Verdict, ExitCode
<1>19. CASE Done \/ UNCHANGED vars BY <1>19 DEF Done, vars
<1> QED
  BY <1>1, <1>2, <1>3, <1>4, <1>5, <1>6, <1>7, <1>8, <1>9, <1>10, <1>11,
     <1>12, <1>13, <1>14, <1>15, <1>16, <1>17, <1>18, <1>19 DEF Next

\* The pipeline's variables stay within their types, and it has an exit code
\* exactly when it has stopped.
THEOREM TypeCorrect == Spec => []TypeOK
  BY InitTypeOK, NextTypeOK, PTL DEF Spec

-----------------------------------------------------------------------------
(* Where the run is, and what it has established by getting there. *)

\* Crates are named by naturals, so at most one is the least not yet audited.
LEMMA CurrentIsUnique ==
  ASSUME todo \subseteq Packages, NEW c, NEW d, Current(c), Current(d)
  PROVE  c = d
<1>1. c \in Nat /\ d \in Nat BY PackagesAssumption DEF Current
<1>2. c <= d /\ d <= c BY DEF Current
<1> QED BY <1>1, <1>2

LEMMA TodoArePackages == ASSUME TypeOK PROVE todo \subseteq Packages
  BY DEF TypeOK, CoreCrates

LEMMA NextPhaseInv == TypeOK /\ PhaseInv /\ [Next]_vars => PhaseInv'
<1> SUFFICES ASSUME TypeOK, PhaseInv, [Next]_vars PROVE PhaseInv'
  OBVIOUS
<1> USE DEF PhaseInv, Auditing, given, audit, Exit, RequiredRoleMissing, Current
<1>1. CASE Discover BY <1>1 DEF Discover
<1>2. CASE DiscoveryFails BY <1>2 DEF DiscoveryFails
<1>3. CASE NoCoreCrates BY <1>3 DEF NoCoreCrates
<1>4. CASE MissingRequiredRole BY <1>4 DEF MissingRequiredRole
<1>5. CASE StartAudit BY <1>5 DEF StartAudit
<1>6. CASE AuditManifest BY <1>6 DEF AuditManifest
<1>7. CASE PassOver BY <1>7 DEF PassOver
<1>8. CASE ScanFile BY <1>8 DEF ScanFile
<1>9. CASE SkipFile BY <1>9 DEF SkipFile
<1>10. CASE FileFails BY <1>10 DEF FileFails
<1>11. CASE WalkFails BY <1>11 DEF WalkFails
<1>12. CASE FinishCrate BY <1>12 DEF FinishCrate
<1>13. CASE FinishAudit BY <1>13 DEF FinishAudit
<1>14. CASE WriteBaseline BY <1>14 DEF WriteBaseline
<1>15. CASE WriteFails BY <1>15 DEF WriteFails
<1>16. CASE ApplyBaseline BY <1>16 DEF ApplyBaseline
<1>17. CASE LoadFails BY <1>17 DEF LoadFails
<1>18. CASE Emit BY <1>18 DEF Emit
<1>19. CASE Done \/ UNCHANGED vars BY <1>19 DEF Done, vars
<1> QED
  BY <1>1, <1>2, <1>3, <1>4, <1>5, <1>6, <1>7, <1>8, <1>9, <1>10, <1>11,
     <1>12, <1>13, <1>14, <1>15, <1>16, <1>17, <1>18, <1>19 DEF Next

-----------------------------------------------------------------------------
(* What has been accumulated. *)

\* A step that begins no crate, yields no production entry and keeps the
\* outcome keeps what it amounts to.
LEMMA NothingNew ==
  ASSUME Accumulated, UNCHANGED <<ws, args, findings, skipped, scanned>>,
         BegunCrates' = BegunCrates,
         \A d \in BegunCrates : YieldedProduction(d)' = YieldedProduction(d)
  PROVE  Accumulated'
<1>1. \A d \in BegunCrates : ScannedOf(d)' = ScannedOf(d) /\ SkippedOf(d)' = SkippedOf(d)
  BY DEF ScannedOf, SkippedOf
<1>2. \A d \in BegunCrates : FoundIn(d)' = FoundIn(d) /\ SkippedIn(d)' = SkippedIn(d)
  BY <1>1 DEF FoundIn, SkippedIn
<1>3. findings' = UNION {FoundIn(d)' : d \in BegunCrates'}
  BY <1>2 DEF Accumulated
<1>4. skipped' = UNION {SkippedIn(d)' : d \in BegunCrates'}
  BY <1>2 DEF Accumulated
<1> QED BY <1>1, <1>3, <1>4 DEF Accumulated

LEMMA AuditManifestOutcome ==
  ASSUME TypeOK, OutcomeInv, AuditManifest PROVE OutcomeInv'
<1>1. PICK c \in todo :
        /\ Current(c)
        /\ findings' = findings \cup ManifestFindings(ws, c, args.strict)
        /\ walk' = Walked(ws.pkgs[c])
  BY DEF AuditManifest
<1>2. /\ UNCHANGED <<ws, args, todo, skipped, scanned>>
      /\ pc = "crate" /\ pc' = "walk"
  BY DEF AuditManifest, given
<1>3. c \in CoreCrates(ws) /\ c \notin BegunCrates
  BY <1>1, <1>2 DEF TypeOK, BegunCrates, Begun
<1>4. \A d : Current(d)' <=> Current(d)
  BY <1>2 DEF Current
<1>5. \A d : Current(d) => d = c
  BY <1>1, CurrentIsUnique, TodoArePackages
<1>6. BegunCrates' = BegunCrates \cup {c}
  BY <1>1, <1>2, <1>3, <1>4, <1>5 DEF BegunCrates, Begun
<1>7. YieldedProduction(c)' = {}
  BY <1>1, <1>2 DEF YieldedProduction, Yielded
<1>8. \A d \in BegunCrates : YieldedProduction(d)' = YieldedProduction(d)
  BY <1>2 DEF YieldedProduction, Yielded, BegunCrates, Begun
<1>9. ScannedOf(c)' = {} /\ SkippedOf(c)' = {}
  BY <1>7 DEF ScannedOf, SkippedOf
<1>10. \A d \in BegunCrates : ScannedOf(d)' = ScannedOf(d) /\ SkippedOf(d)' = SkippedOf(d)
  BY <1>8 DEF ScannedOf, SkippedOf
<1>11. FoundIn(c)' = ManifestFindings(ws, c, args.strict) /\ SkippedIn(c)' = {}
  BY <1>2, <1>9 DEF FoundIn, SkippedIn
<1>12. \A d \in BegunCrates : FoundIn(d)' = FoundIn(d) /\ SkippedIn(d)' = SkippedIn(d)
  BY <1>2, <1>10 DEF FoundIn, SkippedIn
<1>13. Accumulated BY <1>2 DEF OutcomeInv, Auditing
<1>14. findings' = UNION {FoundIn(d)' : d \in BegunCrates'}
  BY <1>1, <1>6, <1>11, <1>12, <1>13 DEF Accumulated
<1>15. skipped' = UNION {SkippedIn(d)' : d \in BegunCrates'}
  BY <1>2, <1>6, <1>11, <1>12, <1>13 DEF Accumulated
<1>16. Accumulated'
  BY <1>2, <1>6, <1>9, <1>10, <1>13, <1>14, <1>15 DEF Accumulated
<1>17. \A d \in todo' : Current(d)' => walk' \subseteq Walked(ws.pkgs[d])'
  BY <1>1, <1>2, <1>4, <1>5
<1> QED BY <1>2, <1>16, <1>17 DEF OutcomeInv, Auditing

\* The walk moves on by an entry f of the current crate c: only c's yield grows.
LEMMA YieldOne ==
  ASSUME TypeOK, OutcomeInv, NEW c \in todo, Current(c), NEW f \in walk,
         pc = "walk", pc' = "walk", UNCHANGED <<ws, args, todo>>, walk' = walk \ {f}
  PROVE  /\ BegunCrates' = BegunCrates /\ c \in BegunCrates
         /\ f \in Walked(ws.pkgs[c])
         /\ \A d \in BegunCrates \ {c} : YieldedProduction(d)' = YieldedProduction(d)
         /\ YieldedProduction(c)' =
              YieldedProduction(c) \cup (IF IsProduction(f) THEN {f} ELSE {})
         /\ \A d \in todo' : Current(d)' => walk' \subseteq Walked(ws.pkgs[d])'
<1>1. c \in CoreCrates(ws) BY DEF TypeOK
<1>2. \A d : Current(d)' <=> Current(d)
  BY DEF Current
<1>3. \A d : Current(d) => d = c
  BY CurrentIsUnique, TodoArePackages
<1>4. BegunCrates' = BegunCrates /\ c \in BegunCrates
  BY <1>1, <1>2 DEF BegunCrates, Begun
<1>5. walk \subseteq Walked(ws.pkgs[c])
  BY DEF OutcomeInv, Auditing
<1>6. \A d \in BegunCrates \ {c} : d \notin todo
  BY <1>3 DEF BegunCrates, Begun
<1>7. \A d \in BegunCrates \ {c} : YieldedProduction(d)' = YieldedProduction(d)
  BY <1>6 DEF YieldedProduction, Yielded
<1>8. Yielded(c)' = Yielded(c) \cup {f}
  BY <1>5 DEF Yielded
<1>9. YieldedProduction(c)' =
        YieldedProduction(c) \cup (IF IsProduction(f) THEN {f} ELSE {})
  BY <1>8 DEF YieldedProduction
<1>10. \A d \in todo' : Current(d)' => walk' \subseteq Walked(ws.pkgs[d])'
  BY <1>2, <1>3, <1>5
<1> QED BY <1>4, <1>5, <1>7, <1>9, <1>10

LEMMA PassOverOutcome ==
  ASSUME TypeOK, PhaseInv, OutcomeInv, PassOver PROVE OutcomeInv'
<1>1. PICK f \in walk : ~IsProduction(f) /\ walk' = walk \ {f}
  BY DEF PassOver
<1>2. /\ UNCHANGED <<ws, args, todo, findings, skipped, scanned>>
      /\ pc = "walk" /\ pc' = "walk"
  BY DEF PassOver, given
<1>3. PICK c \in todo : Current(c) BY <1>2 DEF PhaseInv
<1>4. /\ BegunCrates' = BegunCrates
      /\ \A d \in BegunCrates : YieldedProduction(d)' = YieldedProduction(d)
      /\ \A d \in todo' : Current(d)' => walk' \subseteq Walked(ws.pkgs[d])'
  BY <1>1, <1>2, <1>3, YieldOne
<1>5. Accumulated' BY <1>2, <1>4, NothingNew DEF OutcomeInv, Auditing
<1> QED BY <1>2, <1>4, <1>5 DEF OutcomeInv, Auditing

LEMMA ScanFileOutcome ==
  ASSUME TypeOK, OutcomeInv, ScanFile PROVE OutcomeInv'
<1>1. PICK c \in todo, f \in walk :
        /\ Current(c)
        /\ IsProduction(f) /\ f.status = "parses"
        /\ findings' = findings \cup FileFindings(c, f, args.strict)
        /\ scanned' = scanned \cup {<<c, f>>}
        /\ walk' = walk \ {f}
  BY DEF ScanFile
<1>2. /\ UNCHANGED <<ws, args, todo, skipped>>
      /\ pc = "walk" /\ pc' = "walk"
  BY DEF ScanFile, given
<1>3. /\ BegunCrates' = BegunCrates /\ c \in BegunCrates
      /\ \A d \in BegunCrates \ {c} : YieldedProduction(d)' = YieldedProduction(d)
      /\ YieldedProduction(c)' = YieldedProduction(c) \cup {f}
      /\ \A d \in todo' : Current(d)' => walk' \subseteq Walked(ws.pkgs[d])'
  BY <1>1, <1>2, YieldOne
<1>4. \A d \in BegunCrates \ {c} :
        ScannedOf(d)' = ScannedOf(d) /\ SkippedOf(d)' = SkippedOf(d)
  BY <1>3 DEF ScannedOf, SkippedOf
<1>5. ScannedOf(c)' = ScannedOf(c) \cup {f} /\ SkippedOf(c)' = SkippedOf(c)
  BY <1>1, <1>3 DEF ScannedOf, SkippedOf
<1>6. \A d \in BegunCrates \ {c} : FoundIn(d)' = FoundIn(d) /\ SkippedIn(d)' = SkippedIn(d)
  BY <1>2, <1>4 DEF FoundIn, SkippedIn
<1>7. FoundIn(c)' = FoundIn(c) \cup FileFindings(c, f, args.strict)
  BY <1>2, <1>5 DEF FoundIn
<1>8. SkippedIn(c)' = SkippedIn(c)
  BY <1>5 DEF SkippedIn
<1>9. Accumulated BY <1>2 DEF OutcomeInv, Auditing
<1>10. findings' = UNION {FoundIn(d)' : d \in BegunCrates'}
  BY <1>1, <1>3, <1>6, <1>7, <1>9 DEF Accumulated
<1>11. skipped' = UNION {SkippedIn(d)' : d \in BegunCrates'}
  BY <1>2, <1>3, <1>6, <1>8, <1>9 DEF Accumulated
<1>12. \A d \in BegunCrates' :
         /\ \A g \in ScannedOf(d)' : <<d, g>> \in scanned'
         /\ \A g \in SkippedOf(d)' : g.status = "unparseable" /\ args'.skipUnparseable
  BY <1>1, <1>2, <1>3, <1>4, <1>5, <1>9 DEF Accumulated
<1>13. Accumulated' BY <1>10, <1>11, <1>12 DEF Accumulated
<1> QED BY <1>2, <1>3, <1>13 DEF OutcomeInv, Auditing

LEMMA SkipFileOutcome ==
  ASSUME TypeOK, OutcomeInv, SkipFile PROVE OutcomeInv'
<1>1. PICK c \in todo, f \in walk :
        /\ Current(c)
        /\ IsProduction(f) /\ f.status = "unparseable" /\ args.skipUnparseable
        /\ skipped' = skipped \cup {<<c, f.tail>>}
        /\ walk' = walk \ {f}
  BY DEF SkipFile
<1>2. /\ UNCHANGED <<ws, args, todo, findings, scanned>>
      /\ pc = "walk" /\ pc' = "walk"
  BY DEF SkipFile, given
<1>3. /\ BegunCrates' = BegunCrates /\ c \in BegunCrates
      /\ \A d \in BegunCrates \ {c} : YieldedProduction(d)' = YieldedProduction(d)
      /\ YieldedProduction(c)' = YieldedProduction(c) \cup {f}
      /\ \A d \in todo' : Current(d)' => walk' \subseteq Walked(ws.pkgs[d])'
  BY <1>1, <1>2, YieldOne
<1>4. \A d \in BegunCrates \ {c} :
        ScannedOf(d)' = ScannedOf(d) /\ SkippedOf(d)' = SkippedOf(d)
  BY <1>3 DEF ScannedOf, SkippedOf
<1>5. ScannedOf(c)' = ScannedOf(c) /\ SkippedOf(c)' = SkippedOf(c) \cup {f}
  BY <1>1, <1>3 DEF ScannedOf, SkippedOf
<1>6. \A d \in BegunCrates \ {c} : FoundIn(d)' = FoundIn(d) /\ SkippedIn(d)' = SkippedIn(d)
  BY <1>2, <1>4 DEF FoundIn, SkippedIn
<1>7. FoundIn(c)' = FoundIn(c)
  BY <1>2, <1>5 DEF FoundIn
<1>8. SkippedIn(c)' = SkippedIn(c) \cup {<<c, f.tail>>}
  BY <1>5 DEF SkippedIn
<1>9. Accumulated BY <1>2 DEF OutcomeInv, Auditing
<1>10. findings' = UNION {FoundIn(d)' : d \in BegunCrates'}
  BY <1>2, <1>3, <1>6, <1>7, <1>9 DEF Accumulated
<1>11. skipped' = UNION {SkippedIn(d)' : d \in BegunCrates'}
  BY <1>1, <1>3, <1>6, <1>8, <1>9 DEF Accumulated
<1>12. \A d \in BegunCrates' :
         /\ \A g \in ScannedOf(d)' : <<d, g>> \in scanned'
         /\ \A g \in SkippedOf(d)' : g.status = "unparseable" /\ args'.skipUnparseable
  BY <1>1, <1>2, <1>3, <1>4, <1>5, <1>9 DEF Accumulated
<1>13. Accumulated' BY <1>10, <1>11, <1>12 DEF Accumulated
<1> QED BY <1>2, <1>3, <1>13 DEF OutcomeInv, Auditing

LEMMA FinishCrateOutcome ==
  ASSUME TypeOK, OutcomeInv, FinishCrate PROVE OutcomeInv'
<1>1. PICK c \in todo :
        Current(c) /\ ws.pkgs[c].src # "broken" /\ todo' = todo \ {c}
  BY DEF FinishCrate
<1>2. /\ UNCHANGED <<ws, args, walk, findings, skipped, scanned>>
      /\ walk = {} /\ pc = "walk" /\ pc' = "crate"
  BY DEF FinishCrate, given
<1>3. c \in CoreCrates(ws) /\ \A d : Current(d) => d = c
  BY <1>1, CurrentIsUnique, TodoArePackages DEF TypeOK
<1>4. BegunCrates' = BegunCrates
  <2>1. ASSUME NEW d \in CoreCrates(ws) PROVE Begun(d)' <=> Begun(d)
    <3>1. CASE d = c BY <1>1, <1>2, <3>1 DEF Begun
    <3>2. CASE d # c BY <1>1, <1>2, <1>3, <3>2 DEF Begun
    <3> QED BY <3>1, <3>2
  <2> QED BY <1>2, <2>1 DEF BegunCrates
<1>5. \A d \in BegunCrates : YieldedProduction(d)' = YieldedProduction(d)
  BY <1>2, <1>1 DEF YieldedProduction, Yielded
<1>6. Accumulated' BY <1>2, <1>4, <1>5, NothingNew DEF OutcomeInv, Auditing
<1>7. \A d \in CoreCrates(ws') \ todo' : ws'.pkgs[d].src # "broken"
  BY <1>1, <1>2 DEF OutcomeInv, Auditing
<1> QED BY <1>2, <1>6, <1>7 DEF OutcomeInv, Auditing

\* The steps of the audit proper that neither begin a crate nor move the walk.
LEMMA OtherOutcome ==
  ASSUME TypeOK, PhaseInv, OutcomeInv, FinishAudit \/ ApplyBaseline PROVE OutcomeInv'
<1>1. /\ UNCHANGED <<ws, args, todo, walk, findings, skipped, scanned>>
      /\ Auditing /\ pc # "walk" /\ pc' # "walk"
  BY DEF FinishAudit, ApplyBaseline, given, audit, Auditing
<1>2. \A d \in Packages : Begun(d)' <=> Begun(d)
  BY <1>1 DEF Begun
<1>3. BegunCrates' = BegunCrates
  BY <1>1, <1>2 DEF BegunCrates, CoreCrates
<1>4. \A d \in BegunCrates : YieldedProduction(d)' = YieldedProduction(d)
  BY <1>1 DEF YieldedProduction, Yielded
<1>5. Accumulated' BY <1>1, <1>3, <1>4, NothingNew DEF OutcomeInv
<1> QED BY <1>1, <1>5 DEF OutcomeInv

LEMMA StartAuditOutcome ==
  ASSUME PhaseInv, StartAudit PROVE OutcomeInv'
<1>1. /\ UNCHANGED <<ws, todo>> /\ todo = CoreCrates(ws) /\ pc' = "crate"
      /\ findings' = {} /\ skipped' = {}
  BY DEF StartAudit, given, audit, PhaseInv
<1>2. BegunCrates' = {}
  BY <1>1 DEF BegunCrates, Begun
<1> QED BY <1>1, <1>2 DEF OutcomeInv, Accumulated

LEMMA NextOutcomeInv == TypeOK /\ PhaseInv /\ OutcomeInv /\ [Next]_vars => OutcomeInv'
<1> SUFFICES ASSUME TypeOK, PhaseInv, OutcomeInv, [Next]_vars PROVE OutcomeInv'
  OBVIOUS
<1>1. CASE ~Auditing'
  BY <1>1 DEF OutcomeInv
<1>2. CASE UNCHANGED vars
  <2>1. UNCHANGED <<ws, args, pc, todo, walk, findings, skipped, scanned>>
    BY <1>2 DEF vars
  <2>2. BegunCrates' = BegunCrates
    BY <2>1 DEF BegunCrates, Begun, Current
  <2>3. \A d \in BegunCrates : YieldedProduction(d)' = YieldedProduction(d)
    BY <2>1 DEF YieldedProduction, Yielded
  <2>4. CASE Auditing
    BY <2>1, <2>2, <2>3, <2>4, NothingNew DEF OutcomeInv, Current
  <2> QED BY <2>1, <2>4 DEF OutcomeInv, Auditing
<1>3. CASE StartAudit BY <1>3, StartAuditOutcome
<1>4. CASE AuditManifest BY <1>4, AuditManifestOutcome
<1>5. CASE PassOver BY <1>5, PassOverOutcome
<1>6. CASE ScanFile BY <1>6, ScanFileOutcome
<1>7. CASE SkipFile BY <1>7, SkipFileOutcome
<1>8. CASE FinishCrate BY <1>8, FinishCrateOutcome
<1>9. CASE FinishAudit \/ ApplyBaseline BY <1>9, OtherOutcome
<1>10. CASE \/ Discover \/ DiscoveryFails \/ NoCoreCrates \/ MissingRequiredRole
            \/ FileFails \/ WalkFails \/ WriteBaseline \/ WriteFails \/ LoadFails \/ Emit
  <2>1. pc' \in {"check roles", "done"}
    BY <1>10 DEF Discover, DiscoveryFails, NoCoreCrates, MissingRequiredRole,
       FileFails, WalkFails, WriteBaseline, WriteFails, LoadFails, Emit, Exit
  <2> QED BY <2>1 DEF OutcomeInv, Auditing
<1> QED
  BY <1>1, <1>2, <1>3, <1>4, <1>5, <1>6, <1>7, <1>8, <1>9, <1>10 DEF Next, Done

-----------------------------------------------------------------------------
(* What was measured, and what is said of it. *)

LEMMA NextRatchetInv == RatchetInv /\ [Next]_vars => RatchetInv'
<1> SUFFICES ASSUME RatchetInv, [Next]_vars PROVE RatchetInv'
  OBVIOUS
<1>1. CASE ApplyBaseline BY <1>1 DEF ApplyBaseline, RatchetInv, given, audit
<1>2. CASE Done \/ UNCHANGED vars BY <1>2 DEF Done, vars, RatchetInv
<1>3. CASE pc' # "emit" BY <1>3 DEF RatchetInv
<1>4. ApplyBaseline \/ Done \/ UNCHANGED vars \/ pc' # "emit"
  BY DEF Next, Discover, DiscoveryFails, NoCoreCrates, MissingRequiredRole, StartAudit,
     AuditManifest, PassOver, ScanFile, SkipFile, FileFails, WalkFails, FinishCrate,
     FinishAudit, WriteBaseline, WriteFails, LoadFails, Emit, Exit
<1> QED BY <1>1, <1>2, <1>3, <1>4

\* Once nothing is left to do, what was yielded is everything there is.
LEMMA AllYielded ==
  ASSUME OutcomeInv, Auditing, todo = {}, NEW c \in CoreCrates(ws)
  PROVE  /\ c \in BegunCrates
         /\ Yielded(c) = Walked(ws.pkgs[c])
         /\ ws.pkgs[c].src # "broken"
<1>1. c \notin todo OBVIOUS
<1>2. Begun(c) BY <1>1 DEF Begun
<1>3. ws.pkgs[c].src # "broken" BY <1>1 DEF OutcomeInv
<1> QED BY <1>1, <1>2, <1>3 DEF BegunCrates, Yielded

\* The contract is an instance: it has its own copy of the vocabulary.
LEMMA SameVocabulary ==
  /\ Contract!CoreCrates(ws) = CoreCrates(ws)
  /\ \A r : Contract!HasRole(ws, r) <=> HasRole(ws, r)
  /\ \A p : Contract!Walked(p) = Walked(p)
  /\ \A f : Contract!IsProduction(f) <=> IsProduction(f)
  /\ \A c, s : Contract!ManifestFindings(ws, c, s) = ManifestFindings(ws, c, s)
  /\ \A c, f, s : Contract!FileFindings(c, f, s) = FileFindings(c, f, s)
<1> USE DEF Contract!CoreCrates, Contract!RoleOf, CoreCrates, RoleOf
<1>1. \A r : Contract!HasRole(ws, r) <=> HasRole(ws, r)
  BY DEF Contract!HasRole, HasRole
<1>2. \A p : Contract!Walked(p) = Walked(p)
  BY DEF Contract!Walked, Walked
<1>3. \A f : Contract!IsProduction(f) <=> IsProduction(f)
  BY DEF Contract!IsProduction, IsProduction
<1>4. \A c, s : Contract!ManifestFindings(ws, c, s) = ManifestFindings(ws, c, s)
  BY DEF Contract!ManifestFindings, ManifestFindings, Contract!UnvettedOrKnown,
     UnvettedOrKnown, Contract!Deps, Deps, Contract!Tolerated, Tolerated,
     Contract!KernelNames, KernelNames, Contract!Vouched, Vouched,
     Contract!DeclaresPureDeps, DeclaresPureDeps
<1>5. \A c, f, s : Contract!FileFindings(c, f, s) = FileFindings(c, f, s)
  BY DEF Contract!FileFindings, FileFindings
<1> QED BY <1>1, <1>2, <1>3, <1>4, <1>5

\* The accumulated outcome of a complete audit, as the contract states it.
LEMMA CompleteOutcome ==
  ASSUME OutcomeInv, Auditing, todo = {}
  PROVE  /\ Contract!Auditable
         /\ findings = Contract!Findings
         /\ skipped = Contract!Skipped
         /\ \A c \in CoreCrates(ws) : \A f \in Walked(ws.pkgs[c]) :
               IsProduction(f) => <<c, f>> \in scanned \/ <<c, f.tail>> \in skipped
<1> DEFINE Core == CoreCrates(ws)
<1>1. BegunCrates = Core
  BY AllYielded DEF BegunCrates
<1>2. \A c \in Core : YieldedProduction(c) = Contract!Production(c)
  BY AllYielded, SameVocabulary DEF YieldedProduction, Contract!Production
<1>3. \A c \in Core : /\ ScannedOf(c) = Contract!Parsed(c)
                      /\ SkippedOf(c) = Contract!Production(c) \ Contract!Parsed(c)
  BY <1>2 DEF ScannedOf, SkippedOf, Contract!Parsed
<1>4. Accumulated BY DEF OutcomeInv
<1>5. Contract!Auditable
  <2> SUFFICES ASSUME NEW c \in Core
               PROVE  /\ ws.pkgs[c].src # "broken"
                      /\ \A f \in Contract!Production(c) :
                            \/ f.status = "parses"
                            \/ f.status = "unparseable" /\ args.skipUnparseable
    BY SameVocabulary DEF Contract!Auditable
  <2>1. ws.pkgs[c].src # "broken" BY AllYielded
  <2>2. ASSUME NEW f \in Contract!Production(c)
        PROVE  \/ f.status = "parses"
               \/ f.status = "unparseable" /\ args.skipUnparseable
    BY <1>1, <1>2, <1>4, <2>2 DEF Accumulated, SkippedOf, ScannedOf
  <2> QED BY <2>1, <2>2
<1>6. findings = Contract!Findings
  <2>1. \A c \in Core : FoundIn(c) =
          ManifestFindings(ws, c, args.strict)
            \cup UNION {FileFindings(c, f, args.strict) : f \in Contract!Parsed(c)}
    BY <1>3 DEF FoundIn
  <2> QED BY <1>1, <1>4, <2>1, SameVocabulary DEF Accumulated, Contract!Findings
<1>7. skipped = Contract!Skipped
  <2>1. \A c \in Core : SkippedIn(c) =
          {<<c, f.tail>> : f \in Contract!Production(c) \ Contract!Parsed(c)}
    BY <1>3 DEF SkippedIn
  <2> QED BY <1>1, <1>4, <2>1, SameVocabulary DEF Accumulated, Contract!Skipped
<1>8. ASSUME NEW c \in Core, NEW f \in Walked(ws.pkgs[c]), IsProduction(f)
      PROVE  <<c, f>> \in scanned \/ <<c, f.tail>> \in skipped
  <2>1. f \in YieldedProduction(c) BY <1>8, AllYielded DEF YieldedProduction
  <2>2. CASE f \in ScannedOf(c) BY <1>1, <1>4, <2>2 DEF Accumulated
  <2>3. CASE f \in SkippedOf(c)
    BY <1>1, <1>4, <2>3 DEF Accumulated, SkippedIn
  <2> QED BY <2>1, <2>2, <2>3 DEF SkippedOf
<1> QED BY <1>5, <1>6, <1>7, <1>8

-----------------------------------------------------------------------------
(* The clean verdict. *)

LEMMA EmitIsEarned ==
  ASSUME TypeOK, PhaseInv, OutcomeInv, RatchetInv, Emit, out'.verdict = "holds"
  PROVE  CleanVerdictIsEarned'
<1>1. /\ pc = "emit" /\ todo = {} /\ Auditing
      /\ UNCHANGED <<ws, args, baseline, findings, scanned>>
      /\ out' = Says(Verdict, ratchet.fresh, ratchet.stale, skipped)
  BY DEF Emit, PhaseInv, given, audit, Auditing
<1>2. Verdict = "holds" BY <1>1 DEF Says
<1>3. ratchet.fresh = {} /\ ratchet.stale = {} /\ skipped = {}
  BY <1>2 DEF Verdict, Violated
<1>4. \A x \in findings : args.baseline /\ Signature(x) \in Load(baseline)
  <2>1. CASE args.baseline
    <3>1. ratchet.fresh = Fresh(findings, Load(baseline)) BY <1>1, <2>1 DEF RatchetInv
    <3> QED BY <1>3, <2>1, <3>1 DEF Fresh
  <2>2. CASE ~args.baseline
    <3>1. ratchet.fresh = findings BY <1>1, <2>2 DEF RatchetInv
    <3> QED BY <1>3, <3>1
  <2> QED BY <2>1, <2>2
<1>5. Accumulated BY <1>1 DEF OutcomeInv
<1> SUFFICES ASSUME NEW c \in CoreCrates(ws)
             PROVE  /\ \A x \in ManifestFindings(ws, c, args.strict) :
                          args.baseline /\ Signature(x) \in Load(baseline)
                    /\ \A f \in Walked(ws.pkgs[c]) : IsProduction(f) =>
                          /\ <<c, f>> \in scanned
                          /\ \A x \in FileFindings(c, f, args.strict) :
                                args.baseline /\ Signature(x) \in Load(baseline)
  BY <1>1 DEF CleanVerdictIsEarned
<1>6. c \in BegunCrates /\ Yielded(c) = Walked(ws.pkgs[c])
  BY <1>1, AllYielded
<1>7. FoundIn(c) \subseteq findings BY <1>5, <1>6 DEF Accumulated
<1>8. ManifestFindings(ws, c, args.strict) \subseteq findings BY <1>7 DEF FoundIn
<1>9. ASSUME NEW f \in Walked(ws.pkgs[c]), IsProduction(f)
      PROVE  f \in ScannedOf(c)
  <2>1. f \in YieldedProduction(c) BY <1>6, <1>9 DEF YieldedProduction
  <2>2. SkippedIn(c) = {} BY <1>3, <1>5, <1>6 DEF Accumulated
  <2>3. f \notin SkippedOf(c) BY <2>2 DEF SkippedIn
  <2> QED BY <2>1, <2>3 DEF SkippedOf
<1>10. ASSUME NEW f \in Walked(ws.pkgs[c]), IsProduction(f)
       PROVE  <<c, f>> \in scanned /\ FileFindings(c, f, args.strict) \subseteq findings
  <2>1. f \in ScannedOf(c) BY <1>9, <1>10
  <2>2. <<c, f>> \in scanned BY <1>5, <1>6, <2>1 DEF Accumulated
  <2>3. FileFindings(c, f, args.strict) \subseteq FoundIn(c) BY <2>1 DEF FoundIn
  <2> QED BY <1>7, <2>2, <2>3
<1> QED BY <1>4, <1>8, <1>10

\* No other step says that the core holds.
LEMMA NextCleanVerdict == IInv /\ [Next]_vars => CleanVerdictIsEarned'
<1> SUFFICES ASSUME IInv, [Next]_vars PROVE CleanVerdictIsEarned'
  OBVIOUS
<1>1. CASE out'.verdict # "holds"
  BY <1>1 DEF CleanVerdictIsEarned
<1>2. CASE out'.verdict = "holds" /\ Emit
  BY <1>2, EmitIsEarned DEF IInv
<1>3. CASE out'.verdict = "holds" /\ ~Emit
  <2>1. CASE pc = "done"
    <3>1. UNCHANGED <<ws, args, baseline, out, scanned>>
      BY <2>1 DEF Next, Discover, DiscoveryFails, NoCoreCrates, MissingRequiredRole,
         StartAudit, AuditManifest, PassOver, ScanFile, SkipFile, FileFails, WalkFails,
         FinishCrate, FinishAudit, WriteBaseline, WriteFails, ApplyBaseline, LoadFails,
         Emit, Done, vars
    <3> QED BY <3>1 DEF IInv, CleanVerdictIsEarned
  <2>2. CASE pc # "done"
    <3>1. out.verdict = "none"
      <4>1. out = Says("none", {}, {}, {}) BY <2>2 DEF IInv, PhaseInv
      <4> QED BY ONLY <4>1 DEF Says
    <3>2. CASE NoCoreCrates
      <4>1. UNCHANGED out \/ out' = Says("audited nothing", {}, {}, {})
        BY <3>2 DEF NoCoreCrates
      <4>2. CASE UNCHANGED out BY <1>3, <3>1, <4>2
      <4>3. CASE out' = Says("audited nothing", {}, {}, {})
        <5>1. out'.verdict = "audited nothing" BY ONLY <4>3 DEF Says
        <5> QED BY <1>3, <5>1
      <4> QED BY <4>1, <4>2, <4>3
    <3>3. CASE WriteBaseline
      <4>1. out' = Says("updated", {}, {}, skipped) BY <3>3 DEF WriteBaseline
      <4> QED BY <1>3, <4>1 DEF Says
    <3>4. CASE UNCHANGED out
      BY <1>3, <3>1, <3>4
    <3> QED
      BY <1>3, <3>2, <3>3, <3>4 DEF Next, Discover, DiscoveryFails, MissingRequiredRole,
         StartAudit, AuditManifest, PassOver, ScanFile, SkipFile, FileFails, WalkFails,
         FinishCrate, FinishAudit, WriteFails, ApplyBaseline, LoadFails, Done, vars
  <2> QED BY <2>1, <2>2
<1> QED BY <1>1, <1>2, <1>3

LEMMA InitIInv == Init => IInv
<1> SUFFICES ASSUME Init PROVE IInv
  OBVIOUS
<1>1. TypeOK BY InitTypeOK
<1>2. pc = "discover" /\ out = Says("none", {}, {}, {}) /\ findings = {} /\ skipped = {}
  BY DEF Init
<1>3. PhaseInv BY <1>2 DEF PhaseInv, Auditing
<1>4. OutcomeInv BY <1>2 DEF OutcomeInv, Auditing
<1>5. RatchetInv BY <1>2 DEF RatchetInv
<1>6. CleanVerdictIsEarned BY <1>2 DEF CleanVerdictIsEarned, Says
<1> QED BY <1>1, <1>3, <1>4, <1>5, <1>6 DEF IInv

LEMMA NextIInv == IInv /\ [Next]_vars => IInv'
  BY NextTypeOK, NextPhaseInv, NextOutcomeInv, NextRatchetInv, NextCleanVerdict DEF IInv

\* The inductive invariant holds in every run.
LEMMA Inductive == Spec => []IInv
  BY InitIInv, NextIInv, PTL DEF Spec

\* No run ever says that the functional core holds over a production file it
\* has not parsed and scanned, or over a finding its baseline does not accept.
THEOREM CleanVerdict == Spec => []CleanVerdictIsEarned
<1>1. IInv => CleanVerdictIsEarned BY DEF IInv
<1> QED BY <1>1, Inductive, PTL

\* After any step of the audit the outcome is exactly what the crates begun and
\* the entries yielded so far amount to.
THEOREM OutcomeIsExact == Spec => []OutcomeInv
<1>1. IInv => OutcomeInv BY DEF IInv
<1> QED BY <1>1, Inductive, PTL

-----------------------------------------------------------------------------
(* The baseline file, and the kernel layer. *)

\* Only the two steps of --update-baseline touch the file.
LEMMA OnlyUpdatesWrite ==
  ASSUME [Next]_vars, baseline' # baseline PROVE WriteBaseline \/ WriteFails
  BY DEF Next, Discover, DiscoveryFails, NoCoreCrates, MissingRequiredRole, StartAudit,
     AuditManifest, PassOver, ScanFile, SkipFile, FileFails, WalkFails, FinishCrate,
     FinishAudit, ApplyBaseline, LoadFails, Emit, Done, vars

\* No abandoned audit leaves a baseline of the findings it got to: whoever
\* writes the file has been through every production file of every core crate.
THEOREM BaselineFromCompleteAudit == Spec => BaselineOnlyFromCompleteAudit
<1>1. ASSUME IInv, [Next]_vars, baseline' # baseline
      PROVE  /\ args.updateBaseline /\ pc' = "done"
             /\ \A c \in CoreCrates(ws) : \A f \in Walked(ws.pkgs[c]) :
                   IsProduction(f) => <<c, f>> \in scanned \/ <<c, f.tail>> \in skipped
  <2>1. WriteBaseline \/ WriteFails BY <1>1, OnlyUpdatesWrite
  <2>2. pc = "outcome" /\ args.updateBaseline /\ pc' = "done"
    BY <2>1 DEF WriteBaseline, WriteFails, Exit
  <2>3. Auditing /\ todo = {} /\ OutcomeInv
    BY <1>1, <2>2 DEF IInv, PhaseInv, Auditing
  <2> QED BY <2>2, <2>3, CompleteOutcome
<1> QED BY <1>1, Inductive, PTL DEF Spec, BaselineOnlyFromCompleteAudit

\* A judged run that accepts nothing and exits 0 has found nothing at all.
LEMMA GreenFoundNothing ==
  ASSUME IInv, Emit, exit' = "SUCCESS", ~args.advisory, ~args.baseline
  PROVE  findings = {}
<1>1. pc = "emit" /\ exit' = ExitCode BY DEF Emit, Exit
<1>2. ratchet.fresh = {} BY <1>1 DEF ExitCode, Violated
<1>3. ratchet = [fresh |-> findings, stale |-> {}] BY <1>1 DEF IInv, RatchetInv
<1> QED BY <1>2, <1>3

\* No manifest finding, no way out of the kernels.
LEMMA NoFindingNoLeak ==
  ASSUME NEW c \in KernelNames(ws), ManifestFindings(ws, c, args.strict) = {},
         NEW d \in ws.pkgs[c].deps, d.kind = "normal", ~d.optional
  PROVE  d.name \in KernelNames(ws)
<1>1. d.name \in Deps(ws.pkgs[c], args.strict) BY DEF Deps
<1>2. Tolerated(ws, c, d.name) BY <1>1 DEF ManifestFindings
<1> QED BY <1>2 DEF Tolerated, KernelNames

LEMMA KernelStep == IInv /\ KernelLayerIsClosed /\ [Next]_vars => KernelLayerIsClosed'
<1> SUFFICES ASSUME IInv, KernelLayerIsClosed, [Next]_vars,
                    exit' = "SUCCESS", ~args'.advisory, ~args'.baseline,
                    NEW c \in KernelNames(ws)', NEW d \in ws'.pkgs[c].deps,
                    d.kind = "normal", ~d.optional
             PROVE  d.name \in KernelNames(ws)'
  BY DEF KernelLayerIsClosed
<1>1. UNCHANGED <<ws, args>>
  BY DEF Next, Discover, DiscoveryFails, NoCoreCrates, MissingRequiredRole, StartAudit,
     AuditManifest, PassOver, ScanFile, SkipFile, FileFails, WalkFails, FinishCrate,
     FinishAudit, WriteBaseline, WriteFails, ApplyBaseline, LoadFails, Emit, Done,
     vars, given
<1>2. c \in KernelNames(ws) /\ KernelNames(ws)' = KernelNames(ws) /\ c \in CoreCrates(ws)
  BY <1>1 DEF KernelNames, CoreCrates
<1>3. CASE exit = "SUCCESS"
  BY <1>1, <1>2, <1>3 DEF KernelLayerIsClosed
<1>4. CASE exit # "SUCCESS"
  <2>1. WriteBaseline \/ NoCoreCrates \/ Emit
    BY <1>4 DEF Next, Discover, DiscoveryFails, MissingRequiredRole, StartAudit,
       AuditManifest, PassOver, ScanFile, SkipFile, FileFails, WalkFails, FinishCrate,
       FinishAudit, WriteFails, ApplyBaseline, LoadFails, Done, vars, Exit
  <2>2. ~WriteBaseline
    BY <1>1, ArgsAssumption DEF WriteBaseline, IInv, TypeOK
  <2>3. ~NoCoreCrates
    BY <1>2 DEF NoCoreCrates, IInv, PhaseInv
  <2>4. Emit BY <2>1, <2>2, <2>3
  <2>5. findings = {} BY <1>1, <2>4, GreenFoundNothing
  <2>6. Auditing /\ todo = {} /\ OutcomeInv
    BY <2>4 DEF Emit, IInv, PhaseInv, Auditing
  <2>7. c \in BegunCrates BY <1>2, <2>6, AllYielded
  <2>8. FoundIn(c) \subseteq findings BY <2>6, <2>7 DEF OutcomeInv, Accumulated
  <2>9. ManifestFindings(ws, c, args.strict) = {} BY <2>5, <2>8 DEF FoundIn
  <2> QED BY <1>1, <1>2, <2>9, NoFindingNoLeak
<1> QED BY <1>3, <1>4

\* A green run that accepted nothing has no kernel with a normal dependency
\* outside the kernels, whatever any manifest vouches for.
THEOREM KernelLayer == Spec => []KernelLayerIsClosed
<1>1. Init => KernelLayerIsClosed
  BY DEF Init, KernelLayerIsClosed, Running
<1> QED BY <1>1, KernelStep, Inductive, PTL DEF Spec

-----------------------------------------------------------------------------
(* The pipeline implements the contract. *)

LEMMA InitRefines == Init => Contract!GateInit
  BY DEF Init, Contract!GateInit, Says, Contract!Silent, Contract!NotVerdict,
     Running, Contract!Running

\* The steps before the outcome that answer: each is Refuse or PassEmpty.
LEMMA EarlyAnswerRefines ==
  ASSUME TypeOK, PhaseInv, OutcomeInv,
         \/ DiscoveryFails \/ NoCoreCrates \/ MissingRequiredRole
         \/ FileFails \/ WalkFails
  PROVE  Contract!GateNext
<1> USE SameVocabulary
<1>1. exit = Contract!Running
  <2>1. pc # "done"
    BY DEF DiscoveryFails, NoCoreCrates, MissingRequiredRole, FileFails, WalkFails
  <2> QED BY <2>1 DEF TypeOK, Running, Contract!Running
<1>2. CASE DiscoveryFails
  BY <1>1, <1>2 DEF DiscoveryFails, Exit, given, Contract!GateNext, Contract!Refuse
<1>3. RequiredRoleMissing => \E r \in Contract!Demanded : ~HasRole(ws, r)
  BY DEF RequiredRoleMissing, Contract!Demanded
<1>4. CASE NoCoreCrates
  <2>1. pc = "check roles" /\ CoreCrates(ws) = {} /\ UNCHANGED <<ws, args, baseline>>
    BY <1>4 DEF NoCoreCrates, PhaseInv, given
  <2>2. \A r : ~HasRole(ws, r) BY <2>1 DEF HasRole
  <2>3. CASE args.requireDomain \/ args.requireKernel
    <3>1. RequiredRoleMissing BY <2>2, <2>3 DEF RequiredRoleMissing
    <3>2. exit' = "TOOL_ERROR" /\ UNCHANGED out BY <1>4, <2>3 DEF NoCoreCrates, Exit
    <3> QED BY <1>1, <1>3, <2>1, <3>1, <3>2 DEF Contract!GateNext, Contract!Refuse
  <2>4. CASE ~(args.requireDomain \/ args.requireKernel)
    <3>1. exit' = "SUCCESS" /\ out' = Says("audited nothing", {}, {}, {})
      BY <1>4, <2>4 DEF NoCoreCrates, Exit
    <3>2. out' = Contract!NotVerdict("audited nothing")
      BY <3>1 DEF Says, Contract!NotVerdict
    <3>3. Contract!Demanded = {} BY <2>4 DEF Contract!Demanded
    <3>4. ws.resolves BY <2>1 DEF PhaseInv
    <3> QED BY <1>1, <2>1, <3>1, <3>2, <3>3, <3>4 DEF Contract!GateNext, Contract!PassEmpty
  <2> QED BY <2>3, <2>4
<1>5. CASE MissingRequiredRole
  BY <1>1, <1>3, <1>5
     DEF MissingRequiredRole, Exit, given, Contract!GateNext, Contract!Refuse
<1>6. CASE FileFails \/ WalkFails
  <2>1. /\ pc = "walk" /\ exit' = "TOOL_ERROR" /\ UNCHANGED <<ws, args, baseline, out>>
    BY <1>6 DEF FileFails, WalkFails, Exit, given
  <2>2. PICK c \in todo : Current(c) BY <2>1 DEF PhaseInv
  <2>3. c \in CoreCrates(ws) /\ walk \subseteq Walked(ws.pkgs[c])
    BY <2>1, <2>2 DEF TypeOK, OutcomeInv, Auditing
  <2>4. ~Contract!Auditable
    <3>1. CASE FileFails
      <4>1. PICK f \in walk :
              /\ IsProduction(f)
              /\ f.status = "unreadable" \/ (f.status = "unparseable" /\ ~args.skipUnparseable)
        BY <3>1 DEF FileFails
      <4>2. f \in Contract!Production(c) BY <2>3, <4>1 DEF Contract!Production
      <4> QED BY <2>3, <4>1, <4>2 DEF Contract!Auditable
    <3>2. CASE WalkFails
      <4>1. PICK d \in todo : ws.pkgs[d].src = "broken" BY <3>2 DEF WalkFails
      <4> QED BY <4>1 DEF TypeOK, Contract!Auditable
    <3> QED BY <1>6, <3>1, <3>2
  <2> QED BY <1>1, <2>1, <2>3, <2>4 DEF Contract!GateNext, Contract!Refuse
<1> QED BY <1>2, <1>4, <1>5, <1>6

\* A complete audit that meets its roles is Ready for an outcome.
LEMMA OutcomeIsReady ==
  ASSUME PhaseInv, OutcomeInv, pc \in {"outcome", "emit"}
  PROVE  /\ Contract!Ready /\ todo = {}
         /\ findings = Contract!Findings /\ skipped = Contract!Skipped
<1>1. /\ ws.resolves /\ CoreCrates(ws) # {} /\ ~RequiredRoleMissing
      /\ todo = {} /\ Auditing
  BY DEF PhaseInv, Auditing
<1>2. \A r \in Contract!Demanded : HasRole(ws, r)
  BY <1>1 DEF RequiredRoleMissing, Contract!Demanded
<1>3. /\ Contract!Auditable
      /\ findings = Contract!Findings /\ skipped = Contract!Skipped
  BY <1>1, CompleteOutcome
<1> QED BY <1>1, <1>2, <1>3, SameVocabulary DEF Contract!Ready

LEMMA OutcomeAnswerRefines ==
  ASSUME TypeOK, PhaseInv, OutcomeInv, WriteBaseline \/ WriteFails \/ LoadFails
  PROVE  Contract!GateNext
<1>1. /\ pc = "outcome" /\ exit = Contract!Running /\ UNCHANGED <<ws, args>>
  BY DEF WriteBaseline, WriteFails, LoadFails, TypeOK, Running, Contract!Running, given
<1>2. /\ Contract!Ready
      /\ findings = Contract!Findings /\ skipped = Contract!Skipped
  BY <1>1, OutcomeIsReady
<1>3. Contract!Render(findings) = Render(findings)
  BY DEF Contract!Render, Render, Contract!Signatures, Signatures, Contract!Signature,
     Signature, Contract!Entry, Entry, Contract!Comment, Comment
<1>4. CASE WriteBaseline
  <2>1. /\ args.updateBaseline
        /\ baseline' = TextFile(Render(findings))
        /\ out' = Says("updated", {}, {}, skipped)
        /\ exit' = "SUCCESS"
    BY <1>4 DEF WriteBaseline, Exit
  <2>2. baseline' = Contract!TextFile(Contract!Render(Contract!Findings))
    BY <1>2, <1>3, <2>1 DEF TextFile, Contract!TextFile
  <2>3. out' = [Contract!NotVerdict("updated") EXCEPT !.skipped = Contract!Skipped]
    BY <1>2, <2>1 DEF Says, Contract!NotVerdict
  <2> QED BY <1>1, <1>2, <2>1, <2>2, <2>3 DEF Contract!GateNext, Contract!Rewrite
<1>5. CASE WriteFails
  <2>1. /\ args.updateBaseline
        /\ baseline' \in {baseline} \cup TornWrites(findings)
        /\ exit' = "TOOL_ERROR" /\ UNCHANGED out
    BY <1>5 DEF WriteFails, Exit
  <2>2. Contract!TornWrites(findings) = TornWrites(findings)
    BY <1>3 DEF Contract!TornWrites, TornWrites, Contract!TextFile, TextFile,
       Contract!Cuts, Cuts, Contract!Entry, Entry
  <2>3. baseline' \in {baseline} \cup Contract!TornWrites(Contract!Findings)
    BY <1>2, <2>1, <2>2
  <2> QED BY <1>1, <1>2, <2>1, <2>3 DEF Contract!GateNext, Contract!Rewrite
<1>6. CASE LoadFails
  BY <1>1, <1>2, <1>6 DEF LoadFails, Exit, Contract!GateNext, Contract!Refuse
<1> QED BY <1>4, <1>5, <1>6

LEMMA EmitRefines ==
  ASSUME TypeOK, PhaseInv, OutcomeInv, RatchetInv, Emit
  PROVE  Contract!GateNext
<1> DEFINE accepted == IF args.baseline THEN Contract!Load(baseline) ELSE {}
<1>1. /\ pc = "emit" /\ exit = Contract!Running
      /\ UNCHANGED <<ws, args, baseline>>
      /\ ~args.updateBaseline
      /\ args.baseline => baseline.state # "unreadable"
      /\ exit' = ExitCode
      /\ out' = Says(Verdict, ratchet.fresh, ratchet.stale, skipped)
  BY DEF Emit, TypeOK, PhaseInv, RatchetInv, Running, Contract!Running, given, Exit
<1>2. /\ Contract!Ready
      /\ findings = Contract!Findings /\ skipped = Contract!Skipped
  BY <1>1, OutcomeIsReady
<1>3. /\ out'.verdict = Verdict /\ out'.fresh = ratchet.fresh
      /\ out'.stale = ratchet.stale /\ out'.skipped = skipped
  <2>1. out' = Says(Verdict, ratchet.fresh, ratchet.stale, skipped) BY <1>1
  <2> QED BY ONLY <2>1 DEF Says
<1>4. Load(baseline) = Contract!Load(baseline)
  BY DEF Load, Contract!Load, Parse, Contract!Parse
<1>5. /\ ratchet.fresh = {x \in findings : Contract!Signature(x) \notin accepted}
      /\ ratchet.stale = {s \in accepted : \A x \in findings : Contract!Signature(x) # s}
  <2>1. \A x : Contract!Signature(x) = Signature(x) BY DEF Contract!Signature, Signature
  <2>2. CASE args.baseline
    <3>1. /\ ratchet.fresh = Fresh(findings, Load(baseline))
          /\ ratchet.stale = Stale(findings, Load(baseline))
      BY <1>1, <2>2 DEF RatchetInv
    <3>2. ratchet.fresh = {x \in findings : Contract!Signature(x) \notin accepted}
      BY <1>4, <2>1, <2>2, <3>1 DEF Fresh
    <3>3. ratchet.stale = {s \in accepted : \A x \in findings : Contract!Signature(x) # s}
      BY <1>4, <2>1, <2>2, <3>1 DEF Stale, Signatures
    <3> QED BY <3>2, <3>3
  <2>3. CASE ~args.baseline
    BY <1>1, <2>3 DEF RatchetInv
  <2> QED BY <2>2, <2>3
<1>6. /\ Verdict \in {"json", "leaked", "holds", "withheld"}
      /\ Verdict = "json" <=> args.json
      /\ Verdict = "holds" => ~Violated /\ skipped = {}
      /\ Verdict = "withheld" => ~Violated /\ skipped # {}
      /\ Verdict = "leaked" => Violated
  BY DEF Verdict
<1>7. /\ ExitCode \in {"SUCCESS", "VIOLATION"}
      /\ ExitCode = "VIOLATION" <=> Violated /\ ~args.advisory
  BY DEF ExitCode
<1>8. Violated <=> out'.fresh # {} \/ out'.stale # {}
  BY <1>3 DEF Violated
<1>9. out' = [verdict |-> out'.verdict, fresh |-> out'.fresh,
              stale |-> out'.stale, skipped |-> out'.skipped]
  BY <1>1, <1>3 DEF Says
<1>10. /\ out'.fresh = {x \in Contract!Findings : Contract!Signature(x) \notin accepted}
       /\ out'.stale = {s \in accepted : \A x \in Contract!Findings : Contract!Signature(x) # s}
       /\ out'.skipped = Contract!Skipped
  BY <1>2, <1>3, <1>5
<1>11. Contract!Judge
  BY <1>1, <1>2, <1>3, <1>6, <1>7, <1>8, <1>9, <1>10 DEF Contract!Judge
<1> QED BY <1>1, <1>11 DEF Contract!GateNext

LEMMA NextRefines == IInv /\ [Next]_vars => [Contract!GateNext]_Contract!gateVars
<1> SUFFICES ASSUME IInv, [Next]_vars PROVE [Contract!GateNext]_Contract!gateVars
  OBVIOUS
<1>1. CASE UNCHANGED <<ws, args, baseline, exit, out>>
  BY <1>1 DEF Contract!gateVars
<1>2. CASE \/ DiscoveryFails \/ NoCoreCrates \/ MissingRequiredRole
           \/ FileFails \/ WalkFails
  BY <1>2, EarlyAnswerRefines DEF IInv
<1>3. CASE WriteBaseline \/ WriteFails \/ LoadFails
  BY <1>3, OutcomeAnswerRefines DEF IInv
<1>4. CASE Emit BY <1>4, EmitRefines DEF IInv
<1> QED
  BY <1>1, <1>2, <1>3, <1>4 DEF Next, Discover, StartAudit, AuditManifest, PassOver,
     ScanFile, SkipFile, FinishCrate, FinishAudit, ApplyBaseline, Done, vars, given

\* Every run of the pipeline, whatever it meets and wherever it is abandoned,
\* answers what the one-step contract allows.
THEOREM PipelineImplementsGate == Spec => ImplementsGate
  BY InitRefines, NextRefines, Inductive, PTL
     DEF Spec, ImplementsGate, Contract!GateSpec

=============================================================================
