--------------------------- MODULE AttestationProofs ---------------------------
(***************************************************************************)
(* A record is written only over a flat account, if the terminal answered  *)
(* the last look, and an attested source is one whose images have passed   *)
(* every case, for any plan with a case that trades, any number of orders  *)
(* and of runs.                                                            *)
(***************************************************************************)
EXTENDS Attestation, TLAPS

\* Where a case is at work.
AtWork == {"order", "settle", "wait", "close", "flatten"}

\* Between cases nothing is open or to come but what earlier cases left.
Placed ==
    /\ pc = "idle" => case = 1 /\ ran = {} /\ ~failed
    /\ pc \in AtWork \cup {"case"} => case <= Len(Plan)
    /\ pc \notin AtWork => open = 0 /\ late = 0

\* A watch that is over has seen every fill, and one that ends well has seen
\* them closed, unless the terminal left its last look unanswered.
Watch ==
    /\ over => pc \in {"watch", "report"} /\ olderLate = 0
    /\ pc = "report" /\ ~only /\ ~failed => over /\ (sure => older = 0 /\ ~foreign)

\* Cases that trade behind the gate have seen a demo account.
Gated ==
    /\ pc \in AtWork => DemoGate
    /\ \A c \in ran : c <= Len(Plan) /\ Plan[c] = "session" /\ ~failed => demo

\* What a record says was found.
RecordsTrue ==
    /\ image = [v \in Variants |-> tree]
    /\ \A r \in records : <<r.source, r.variant>> \in tested

IInv == TypeOK /\ Placed /\ Watch /\ Gated /\ RecordsTrue

-----------------------------------------------------------------------------
(* The invariant.                                                          *)

LEMMA PlanTyped ==
    /\ Len(Plan) \in Nat /\ Len(Plan) > 0
    /\ \A c \in 1..Len(Plan) : Plan[c] \in {"login", "boot", "session"}
  BY AttestationAssumption

\* A result is a failure from then on, and success is what it says.
LEMMA CaseEndsEffect ==
    ASSUME failed \in BOOLEAN, CaseEnds(passed) \/ CaseEnds(FALSE)
    PROVE  /\ failed' \in BOOLEAN /\ (failed => failed') /\ (CaseEnds(FALSE) => failed')
           /\ ran' = ran \cup {case} /\ case' = case + 1
           /\ pc' = IF case = Len(Plan) THEN "watch" ELSE "case"
           /\ sends' = 0 /\ rounds' = 0 /\ passed' = TRUE
           /\ older' = older + open /\ olderLate' = olderLate + late
           /\ open' = 0 /\ late' = 0
           /\ UNCHANGED <<project, run, over, sure, foreign>>
  BY Zenon DEF CaseEnds

LEMMA WatchedEffect ==
    ASSUME failed \in BOOLEAN, NEW ok \in BOOLEAN, NEW answers \in BOOLEAN, Watched(ok, answers)
    PROVE  /\ failed' \in BOOLEAN /\ (failed => failed') /\ (~ok => failed')
           /\ sure' = answers
           /\ ran' = ran \cup {Final} /\ pc' = "report"
           /\ UNCHANGED <<project, run, exposure, case, over, sends, rounds, passed>>
  BY Zenon DEF Watched

LEMMA ExitEffect ==
    ASSUME foreign \in BOOLEAN, Exit
    PROVE  /\ foreign' \in BOOLEAN
           /\ pc' = "idle" /\ case' = 1 /\ sends' = 0 /\ rounds' = 0 /\ passed' = TRUE
           /\ over' = FALSE /\ sure' = FALSE /\ ran' = {} /\ failed' = FALSE
           /\ open' = 0 /\ late' = 0 /\ older' = 0 /\ olderLate' = 0
           /\ UNCHANGED run
  BY Zenon DEF Exit

LEMMA CaseEndsType ==
    ASSUME TypeOK, case <= Len(Plan), CaseEnds(passed) \/ CaseEnds(FALSE)
    PROVE  TypeOK'
<1>1. /\ failed' \in BOOLEAN /\ ran' = ran \cup {case} /\ case' = case + 1
      /\ pc' = IF case = Len(Plan) THEN "watch" ELSE "case"
      /\ sends' = 0 /\ rounds' = 0 /\ passed' = TRUE
      /\ older' = older + open /\ olderLate' = olderLate + late
      /\ open' = 0 /\ late' = 0
      /\ UNCHANGED <<project, run, over, sure, foreign>>
  BY CaseEndsEffect DEF TypeOK
<1>2. case \in Required /\ case + 1 \in 1..Final
  BY PlanTyped DEF TypeOK, Required, Final
<1>3. 0 \in 0..MaxSends /\ 0 \in 0..Rounds
  BY AttestationAssumption
<1>4. pc' \in Phases
  BY <1>1 DEF Phases
<1> QED
  BY <1>1, <1>2, <1>3, <1>4 DEF TypeOK, project, run

LEMMA WatchedType ==
    ASSUME TypeOK, NEW ok \in BOOLEAN, NEW answers \in BOOLEAN, Watched(ok, answers)
    PROVE  TypeOK'
<1>1. /\ failed' \in BOOLEAN /\ sure' \in BOOLEAN /\ ran' = ran \cup {Final} /\ pc' = "report"
      /\ UNCHANGED <<project, run, exposure, case, over, sends, rounds, passed>>
  BY WatchedEffect DEF TypeOK
<1>2. Final \in Required
  BY PlanTyped DEF Required, Final
<1> QED
  BY <1>1, <1>2 DEF TypeOK, project, run, exposure, Phases

LEMMA IInvInit == Init => IInv
<1> SUFFICES ASSUME Init PROVE IInv
  OBVIOUS
<1> USE PlanTyped, AttestationAssumption
<1>1. TypeOK
  <2>1. tree \in Sources /\ image \in [Variants -> Sources]
    BY DEF Init
  <2>2. /\ records \subseteq [source : Sources, variant : Variants]
        /\ tested \subseteq Sources \X Variants
        /\ ran \subseteq Required
    BY DEF Init
  <2>3. runs \in 0..MaxRuns /\ case \in 1..Final /\ sends \in 0..MaxSends /\ rounds \in 0..Rounds
    BY DEF Init, Final
  <2>4. foreign \in BOOLEAN /\ demo \in BOOLEAN /\ only \in BOOLEAN
    BY Zenon DEF Init
  <2>5. passed \in BOOLEAN /\ failed \in BOOLEAN /\ over \in BOOLEAN /\ sure \in BOOLEAN
    BY Zenon DEF Init
  <2> QED
    BY <2>1, <2>2, <2>3, <2>4, <2>5 DEF Init, TypeOK, Phases
<1>2. Placed
  BY DEF Init, Placed, AtWork
<1>3. Watch /\ Gated /\ RecordsTrue
  BY DEF Init, Watch, Gated, RecordsTrue, AtWork
<1> QED
  BY <1>1, <1>2, <1>3 DEF IInv

LEMMA TypeOKStep == IInv /\ [Next]_vars => TypeOK'
<1> SUFFICES ASSUME IInv, [Next]_vars PROVE TypeOK'
  OBVIOUS
<1> USE PlanTyped, AttestationAssumption
    DEF IInv, TypeOK, Placed, Watch, Gated, RecordsTrue, Phases, AtWork, Final, Required, DemoGate,
        vars, project, run, results, exposure, progress
<1>1. CASE EditAndBuild
  BY <1>1 DEF EditAndBuild
<1>2. CASE CleanUp
  BY <1>2 DEF CleanUp
<1>3. CASE \E v \in Variants, d \in BOOLEAN, o \in BOOLEAN : StartRun(v, d, o)
  BY <1>3 DEF StartRun
<1>4. CASE Cut
  BY <1>4, ExitEffect DEF Cut
<1>5. CASE LateFill
  BY <1>5 DEF LateFill
<1>6. CASE SkipCase
  BY <1>6 DEF SkipCase
<1>7. CASE StartCase
  BY <1>7 DEF StartCase, Goto
<1>8. CASE CaseRefused
  <2>1. CASE Plan[case] = "session"
    BY <1>8, <2>1, ExitEffect DEF CaseRefused
  <2>2. CASE Plan[case] # "session"
    BY <1>8, <2>2, CaseEndsType DEF CaseRefused
  <2> QED
    BY <2>1, <2>2
<1>9. CASE OrderSent
  <2>1. open' \in Nat /\ late' \in Nat /\ UNCHANGED <<older, olderLate, foreign>>
    BY <1>9 DEF OrderSent, Sent
  <2>2. pc = "order" /\ sends' \in 0..MaxSends
    BY <1>9 DEF OrderSent
  <2>3. Proceeds("wait") \/ Proceeds("settle") \/ Fails
    BY <1>9 DEF OrderSent
  <2> QED
    BY <2>1, <2>2, <2>3 DEF Proceeds, Fails, Goto
<1>10. ASSUME NEW answers \in BOOLEAN, Settle(answers) PROVE TypeOK'
  BY <1>10 DEF Settle, Proceeds, Fails, Goto
<1>11. CASE WaitPosition
  BY <1>11 DEF WaitPosition, Proceeds, Fails, Goto
<1>12. ASSUME NEW answers \in BOOLEAN, Close(answers) PROVE TypeOK'
  <2>1. open' \in Nat
    BY <1>12 DEF Close
  <2>2. Proceeds("flatten") \/ Fails
    BY <1>12 DEF Close
  <2>3. pc = "close" /\ UNCHANGED <<sends, late, older, olderLate, foreign>>
    BY <1>12 DEF Close
  <2> QED
    BY <2>1, <2>2, <2>3 DEF Proceeds, Fails, Goto
<1>13. CASE FlattenRound
  BY <1>13 DEF FlattenRound
<1>14. ASSUME NEW answers \in BOOLEAN, FlattenDone(answers) PROVE TypeOK'
  BY <1>14, CaseEndsType DEF FlattenDone
<1>15. CASE FlattenGivesUp
  BY <1>15, CaseEndsType DEF FlattenGivesUp
<1>16. CASE ReadFails
  BY <1>16, CaseEndsType, WatchedType DEF ReadFails
<1>17. CASE WatchRound
  BY <1>17 DEF WatchRound
<1>18. CASE WatchDeadline
  BY <1>18 DEF WatchDeadline
<1>19. ASSUME NEW answers \in BOOLEAN, WatchEnds(answers) PROVE TypeOK'
  BY <1>19, WatchedType DEF WatchEnds
<1>20. CASE WatchFails
  BY <1>20, WatchedType DEF WatchFails
<1>21. CASE SkipWatch
  BY <1>21 DEF SkipWatch, Goto
<1>22. CASE Report
  <2>1. [source |-> tree, variant |-> variant] \in [source : Sources, variant : Variants]
    OBVIOUS
  <2>2. records' \subseteq [source : Sources, variant : Variants]
    BY <1>22, <2>1 DEF Report
  <2>3. tested' \subseteq Sources \X Variants
    BY <1>22 DEF Report
  <2>4. Exit /\ UNCHANGED <<tree, image, runs>>
    BY <1>22 DEF Report
  <2> QED
    BY <2>2, <2>3, <2>4, ExitEffect
<1>23. CASE UNCHANGED vars
  BY <1>23
<1> QED
  BY <1>1, <1>2, <1>3, <1>4, <1>5, <1>6, <1>7, <1>8, <1>9, <1>10, <1>11, <1>12, <1>13, <1>14, <1>15, <1>16, <1>17, <1>18, <1>19, <1>20, <1>21, <1>22, <1>23 DEF Next, RunStep, Unanswered

LEMMA PlacedStep == IInv /\ [Next]_vars => Placed'
<1> SUFFICES ASSUME IInv, [Next]_vars PROVE Placed'
  OBVIOUS
<1> USE PlanTyped, AttestationAssumption
    DEF IInv, TypeOK, Placed, Watch, Gated, RecordsTrue, Phases, AtWork, Final, Required, DemoGate,
        vars, project, run, results, exposure, progress
<1>1. CASE EditAndBuild
  BY <1>1 DEF EditAndBuild
<1>2. CASE CleanUp
  BY <1>2 DEF CleanUp
<1>3. CASE \E v \in Variants, d \in BOOLEAN, o \in BOOLEAN : StartRun(v, d, o)
  BY <1>3 DEF StartRun
<1>4. CASE Cut
  BY <1>4, ExitEffect DEF Cut
<1>5. CASE LateFill
  BY <1>5 DEF LateFill
<1>6. CASE SkipCase
  BY <1>6 DEF SkipCase
<1>7. CASE StartCase
  BY <1>7 DEF StartCase, Goto
<1>8. CASE CaseRefused
  <2>1. CASE Plan[case] = "session"
    BY <1>8, <2>1, ExitEffect DEF CaseRefused
  <2>2. CASE Plan[case] # "session"
    BY <1>8, <2>2, CaseEndsEffect DEF CaseRefused
  <2> QED
    BY <2>1, <2>2
<1>9. CASE OrderSent
  <2>1. open' \in Nat /\ late' \in Nat /\ UNCHANGED <<older, olderLate, foreign>>
    BY <1>9 DEF OrderSent, Sent
  <2>2. pc = "order" /\ sends' \in 0..MaxSends
    BY <1>9 DEF OrderSent
  <2>3. Proceeds("wait") \/ Proceeds("settle") \/ Fails
    BY <1>9 DEF OrderSent
  <2> QED
    BY <2>1, <2>2, <2>3 DEF Proceeds, Fails, Goto
<1>10. ASSUME NEW answers \in BOOLEAN, Settle(answers) PROVE Placed'
  BY <1>10 DEF Settle, Proceeds, Fails, Goto
<1>11. CASE WaitPosition
  BY <1>11 DEF WaitPosition, Proceeds, Fails, Goto
<1>12. ASSUME NEW answers \in BOOLEAN, Close(answers) PROVE Placed'
  <2>1. open' \in Nat
    BY <1>12 DEF Close
  <2>2. Proceeds("flatten") \/ Fails
    BY <1>12 DEF Close
  <2>3. pc = "close" /\ UNCHANGED <<sends, late, older, olderLate, foreign>>
    BY <1>12 DEF Close
  <2> QED
    BY <2>1, <2>2, <2>3 DEF Proceeds, Fails, Goto
<1>13. CASE FlattenRound
  BY <1>13 DEF FlattenRound
<1>14. ASSUME NEW answers \in BOOLEAN, FlattenDone(answers) PROVE Placed'
  BY <1>14, CaseEndsEffect DEF FlattenDone
<1>15. CASE FlattenGivesUp
  BY <1>15, CaseEndsEffect DEF FlattenGivesUp
<1>16. CASE ReadFails
  <2>1. CASE pc = "flatten" /\ CaseEnds(FALSE)
    BY <2>1, CaseEndsEffect
  <2>2. CASE pc = "watch" /\ Watched(FALSE, FALSE)
    BY <2>2, WatchedEffect
  <2> QED
    BY <1>16, <2>1, <2>2 DEF ReadFails
<1>17. CASE WatchRound
  BY <1>17 DEF WatchRound
<1>18. CASE WatchDeadline
  BY <1>18 DEF WatchDeadline
<1>19. ASSUME NEW answers \in BOOLEAN, WatchEnds(answers) PROVE Placed'
  BY <1>19, WatchedEffect DEF WatchEnds, SeesFlat, Listed
<1>20. CASE WatchFails
  BY <1>20, WatchedEffect DEF WatchFails
<1>21. CASE SkipWatch
  BY <1>21 DEF SkipWatch, Goto
<1>22. CASE Report
  BY <1>22 DEF Report, Exit
<1>23. CASE UNCHANGED vars
  BY <1>23
<1> QED
  BY <1>1, <1>2, <1>3, <1>4, <1>5, <1>6, <1>7, <1>8, <1>9, <1>10, <1>11, <1>12, <1>13, <1>14, <1>15, <1>16, <1>17, <1>18, <1>19, <1>20, <1>21, <1>22, <1>23 DEF Next, RunStep, Unanswered

LEMMA WatchStep == IInv /\ [Next]_vars => Watch'
<1> SUFFICES ASSUME IInv, [Next]_vars PROVE Watch'
  OBVIOUS
<1> USE PlanTyped, AttestationAssumption
    DEF IInv, TypeOK, Placed, Watch, Gated, RecordsTrue, Phases, AtWork, Final, Required, DemoGate,
        vars, project, run, results, exposure, progress
<1>1. CASE EditAndBuild
  BY <1>1 DEF EditAndBuild
<1>2. CASE CleanUp
  BY <1>2 DEF CleanUp
<1>3. CASE \E v \in Variants, d \in BOOLEAN, o \in BOOLEAN : StartRun(v, d, o)
  BY <1>3 DEF StartRun
<1>4. CASE Cut
  BY <1>4, ExitEffect DEF Cut
<1>5. CASE LateFill
  BY <1>5 DEF LateFill
<1>6. CASE SkipCase
  BY <1>6 DEF SkipCase
<1>7. CASE StartCase
  BY <1>7 DEF StartCase, Goto
<1>8. CASE CaseRefused
  <2>1. CASE Plan[case] = "session"
    BY <1>8, <2>1, ExitEffect DEF CaseRefused
  <2>2. CASE Plan[case] # "session"
    BY <1>8, <2>2, CaseEndsEffect DEF CaseRefused
  <2> QED
    BY <2>1, <2>2
<1>9. CASE OrderSent
  <2>1. open' \in Nat /\ late' \in Nat /\ UNCHANGED <<older, olderLate, foreign>>
    BY <1>9 DEF OrderSent, Sent
  <2>2. pc = "order" /\ sends' \in 0..MaxSends
    BY <1>9 DEF OrderSent
  <2>3. Proceeds("wait") \/ Proceeds("settle") \/ Fails
    BY <1>9 DEF OrderSent
  <2> QED
    BY <2>1, <2>2, <2>3 DEF Proceeds, Fails, Goto
<1>10. ASSUME NEW answers \in BOOLEAN, Settle(answers) PROVE Watch'
  BY <1>10 DEF Settle, Proceeds, Fails, Goto
<1>11. CASE WaitPosition
  BY <1>11 DEF WaitPosition, Proceeds, Fails, Goto
<1>12. ASSUME NEW answers \in BOOLEAN, Close(answers) PROVE Watch'
  <2>1. open' \in Nat
    BY <1>12 DEF Close
  <2>2. Proceeds("flatten") \/ Fails
    BY <1>12 DEF Close
  <2>3. pc = "close" /\ UNCHANGED <<sends, late, older, olderLate, foreign>>
    BY <1>12 DEF Close
  <2> QED
    BY <2>1, <2>2, <2>3 DEF Proceeds, Fails, Goto
<1>13. CASE FlattenRound
  BY <1>13 DEF FlattenRound
<1>14. ASSUME NEW answers \in BOOLEAN, FlattenDone(answers) PROVE Watch'
  BY <1>14, CaseEndsEffect DEF FlattenDone
<1>15. CASE FlattenGivesUp
  BY <1>15, CaseEndsEffect DEF FlattenGivesUp
<1>16. CASE ReadFails
  <2>1. CASE pc = "flatten" /\ CaseEnds(FALSE)
    BY <2>1, CaseEndsEffect
  <2>2. CASE pc = "watch" /\ Watched(FALSE, FALSE)
    BY <2>2, WatchedEffect
  <2> QED
    BY <1>16, <2>1, <2>2 DEF ReadFails
<1>17. CASE WatchRound
  BY <1>17 DEF WatchRound
<1>18. CASE WatchDeadline
  BY <1>18 DEF WatchDeadline
<1>19. ASSUME NEW answers \in BOOLEAN, WatchEnds(answers) PROVE Watch'
  BY <1>19, WatchedEffect DEF WatchEnds, SeesFlat, Listed
<1>20. CASE WatchFails
  BY <1>20, WatchedEffect DEF WatchFails
<1>21. CASE SkipWatch
  BY <1>21 DEF SkipWatch, Goto
<1>22. CASE Report
  BY <1>22 DEF Report, Exit
<1>23. CASE UNCHANGED vars
  BY <1>23
<1> QED
  BY <1>1, <1>2, <1>3, <1>4, <1>5, <1>6, <1>7, <1>8, <1>9, <1>10, <1>11, <1>12, <1>13, <1>14, <1>15, <1>16, <1>17, <1>18, <1>19, <1>20, <1>21, <1>22, <1>23 DEF Next, RunStep, Unanswered

LEMMA GatedStep == IInv /\ [Next]_vars => Gated'
<1> SUFFICES ASSUME IInv, [Next]_vars PROVE Gated'
  OBVIOUS
<1> USE PlanTyped, AttestationAssumption
    DEF IInv, TypeOK, Placed, Watch, Gated, RecordsTrue, Phases, AtWork, Final, Required, DemoGate,
        vars, project, run, results, exposure, progress
<1>1. CASE EditAndBuild
  BY <1>1 DEF EditAndBuild
<1>2. CASE CleanUp
  BY <1>2 DEF CleanUp
<1>3. CASE \E v \in Variants, d \in BOOLEAN, o \in BOOLEAN : StartRun(v, d, o)
  BY <1>3 DEF StartRun
<1>4. CASE Cut
  BY <1>4, ExitEffect DEF Cut
<1>5. CASE LateFill
  BY <1>5 DEF LateFill
<1>6. CASE SkipCase
  BY <1>6 DEF SkipCase
<1>7. CASE StartCase
  BY <1>7 DEF StartCase, Goto
<1>8. CASE CaseRefused
  <2>1. CASE Plan[case] = "session"
    BY <1>8, <2>1, ExitEffect DEF CaseRefused
  <2>2. CASE Plan[case] # "session"
    BY <1>8, <2>2, CaseEndsEffect DEF CaseRefused
  <2> QED
    BY <2>1, <2>2
<1>9. CASE OrderSent
  <2>1. open' \in Nat /\ late' \in Nat /\ UNCHANGED <<older, olderLate, foreign>>
    BY <1>9 DEF OrderSent, Sent
  <2>2. pc = "order" /\ sends' \in 0..MaxSends
    BY <1>9 DEF OrderSent
  <2>3. Proceeds("wait") \/ Proceeds("settle") \/ Fails
    BY <1>9 DEF OrderSent
  <2> QED
    BY <2>1, <2>2, <2>3 DEF Proceeds, Fails, Goto
<1>10. ASSUME NEW answers \in BOOLEAN, Settle(answers) PROVE Gated'
  BY <1>10 DEF Settle, Proceeds, Fails, Goto
<1>11. CASE WaitPosition
  BY <1>11 DEF WaitPosition, Proceeds, Fails, Goto
<1>12. ASSUME NEW answers \in BOOLEAN, Close(answers) PROVE Gated'
  <2>1. open' \in Nat
    BY <1>12 DEF Close
  <2>2. Proceeds("flatten") \/ Fails
    BY <1>12 DEF Close
  <2>3. pc = "close" /\ UNCHANGED <<sends, late, older, olderLate, foreign>>
    BY <1>12 DEF Close
  <2> QED
    BY <2>1, <2>2, <2>3 DEF Proceeds, Fails, Goto
<1>13. CASE FlattenRound
  BY <1>13 DEF FlattenRound
<1>14. ASSUME NEW answers \in BOOLEAN, FlattenDone(answers) PROVE Gated'
  BY <1>14, CaseEndsEffect DEF FlattenDone
<1>15. CASE FlattenGivesUp
  BY <1>15, CaseEndsEffect DEF FlattenGivesUp
<1>16. CASE ReadFails
  <2>1. CASE pc = "flatten" /\ CaseEnds(FALSE)
    BY <2>1, CaseEndsEffect
  <2>2. CASE pc = "watch" /\ Watched(FALSE, FALSE)
    BY <2>2, WatchedEffect
  <2> QED
    BY <1>16, <2>1, <2>2 DEF ReadFails
<1>17. CASE WatchRound
  BY <1>17 DEF WatchRound
<1>18. CASE WatchDeadline
  BY <1>18 DEF WatchDeadline
<1>19. ASSUME NEW answers \in BOOLEAN, WatchEnds(answers) PROVE Gated'
  <2>1. ran' = ran \cup {Len(Plan) + 1} /\ (failed => failed')
    BY <1>19, WatchedEffect DEF WatchEnds
  <2>2. pc' = "report" /\ demo' = demo
    BY <1>19, WatchedEffect DEF WatchEnds
  <2> QED
    BY <2>1, <2>2
<1>20. CASE WatchFails
  BY <1>20, WatchedEffect DEF WatchFails
<1>21. CASE SkipWatch
  BY <1>21 DEF SkipWatch, Goto
<1>22. CASE Report
  BY <1>22 DEF Report, Exit
<1>23. CASE UNCHANGED vars
  BY <1>23
<1> QED
  BY <1>1, <1>2, <1>3, <1>4, <1>5, <1>6, <1>7, <1>8, <1>9, <1>10, <1>11, <1>12, <1>13, <1>14, <1>15, <1>16, <1>17, <1>18, <1>19, <1>20, <1>21, <1>22, <1>23 DEF Next, RunStep, Unanswered

LEMMA RecordsTrueStep == IInv /\ [Next]_vars => RecordsTrue'
<1> SUFFICES ASSUME IInv, [Next]_vars PROVE RecordsTrue'
  OBVIOUS
<1> USE PlanTyped, AttestationAssumption
    DEF IInv, TypeOK, Placed, Watch, Gated, RecordsTrue, Phases, AtWork, Final, Required, DemoGate,
        vars, project, run, results, exposure, progress
<1>1. CASE EditAndBuild
  BY <1>1 DEF EditAndBuild
<1>2. CASE CleanUp
  BY <1>2 DEF CleanUp
<1>3. CASE \E v \in Variants, d \in BOOLEAN, o \in BOOLEAN : StartRun(v, d, o)
  BY <1>3 DEF StartRun
<1>4. CASE Cut
  BY <1>4, ExitEffect DEF Cut
<1>5. CASE LateFill
  BY <1>5 DEF LateFill
<1>6. CASE SkipCase
  BY <1>6 DEF SkipCase
<1>7. CASE StartCase
  BY <1>7 DEF StartCase, Goto
<1>8. CASE CaseRefused
  <2>1. CASE Plan[case] = "session"
    BY <1>8, <2>1, ExitEffect DEF CaseRefused
  <2>2. CASE Plan[case] # "session"
    BY <1>8, <2>2, CaseEndsEffect DEF CaseRefused
  <2> QED
    BY <2>1, <2>2
<1>9. CASE OrderSent
  <2>1. open' \in Nat /\ late' \in Nat /\ UNCHANGED <<older, olderLate, foreign>>
    BY <1>9 DEF OrderSent, Sent
  <2>2. pc = "order" /\ sends' \in 0..MaxSends
    BY <1>9 DEF OrderSent
  <2>3. Proceeds("wait") \/ Proceeds("settle") \/ Fails
    BY <1>9 DEF OrderSent
  <2> QED
    BY <2>1, <2>2, <2>3 DEF Proceeds, Fails, Goto
<1>10. ASSUME NEW answers \in BOOLEAN, Settle(answers) PROVE RecordsTrue'
  BY <1>10 DEF Settle, Proceeds, Fails, Goto
<1>11. CASE WaitPosition
  BY <1>11 DEF WaitPosition, Proceeds, Fails, Goto
<1>12. ASSUME NEW answers \in BOOLEAN, Close(answers) PROVE RecordsTrue'
  <2>1. open' \in Nat
    BY <1>12 DEF Close
  <2>2. Proceeds("flatten") \/ Fails
    BY <1>12 DEF Close
  <2>3. pc = "close" /\ UNCHANGED <<sends, late, older, olderLate, foreign>>
    BY <1>12 DEF Close
  <2> QED
    BY <2>1, <2>2, <2>3 DEF Proceeds, Fails, Goto
<1>13. CASE FlattenRound
  BY <1>13 DEF FlattenRound
<1>14. ASSUME NEW answers \in BOOLEAN, FlattenDone(answers) PROVE RecordsTrue'
  BY <1>14, CaseEndsEffect DEF FlattenDone
<1>15. CASE FlattenGivesUp
  BY <1>15, CaseEndsEffect DEF FlattenGivesUp
<1>16. CASE ReadFails
  <2>1. CASE pc = "flatten" /\ CaseEnds(FALSE)
    BY <2>1, CaseEndsEffect
  <2>2. CASE pc = "watch" /\ Watched(FALSE, FALSE)
    BY <2>2, WatchedEffect
  <2> QED
    BY <1>16, <2>1, <2>2 DEF ReadFails
<1>17. CASE WatchRound
  BY <1>17 DEF WatchRound
<1>18. CASE WatchDeadline
  BY <1>18 DEF WatchDeadline
<1>19. ASSUME NEW answers \in BOOLEAN, WatchEnds(answers) PROVE RecordsTrue'
  BY <1>19, WatchedEffect DEF WatchEnds, SeesFlat, Listed
<1>20. CASE WatchFails
  BY <1>20, WatchedEffect DEF WatchFails
<1>21. CASE SkipWatch
  BY <1>21 DEF SkipWatch, Goto
<1>22. CASE Report
  <2>1. image' = image /\ tree' = tree /\ tested \subseteq tested'
    BY <1>22 DEF Report
  <2>2. CASE ~Records
    BY <1>22, <2>1, <2>2 DEF Report
  <2>3. CASE Records
    <3>1. ran = Required
      BY <2>3 DEF Records, Missing
    <3>2. demo
      <4>1. PICK c \in 1..Len(Plan) : Plan[c] = "session"
        OBVIOUS
      <4> QED
        BY <2>3, <3>1, <4>1 DEF Records
    <3>3. <<tree, variant>> \in tested'
      BY <1>22, <2>3, <3>1, <3>2 DEF Report, Records, FullPass
    <3>4. \A r \in records' : r \in records \/ r = [source |-> tree, variant |-> variant]
      BY <1>22, <2>3 DEF Report
    <3> QED
      BY <2>1, <3>3, <3>4
  <2> QED
    BY <2>2, <2>3
<1>23. CASE UNCHANGED vars
  BY <1>23
<1> QED
  BY <1>1, <1>2, <1>3, <1>4, <1>5, <1>6, <1>7, <1>8, <1>9, <1>10, <1>11, <1>12, <1>13, <1>14, <1>15, <1>16, <1>17, <1>18, <1>19, <1>20, <1>21, <1>22, <1>23 DEF Next, RunStep, Unanswered

-----------------------------------------------------------------------------
(* Theorems.                                                               *)

LEMMA IInvStep == IInv /\ [Next]_vars => IInv'
  BY TypeOKStep, PlacedStep, WatchStep, GatedStep, RecordsTrueStep DEF IInv

LEMMA Invariance == Spec => []IInv
  BY IInvInit, IInvStep, PTL DEF Spec

\* The state of a run and of the project around it stays in its type.
THEOREM TypeCorrect == Spec => []TypeOK
<1>1. IInv => TypeOK
  BY DEF IInv
<1> QED
  BY <1>1, Invariance, PTL

\* A record is written only when nothing that the run ordered is open or to
\* come, whatever was answered and however late it filled, if the terminal
\* answered the last look.
THEOREM RecordedFlat == Spec => RecordedFlatIfAnswered
<1>1. ASSUME IInv, [Next]_vars
      PROVE  [records' # records /\ sure
                 => open + late + older + olderLate = 0 /\ ~foreign]_vars
  <2>1. CASE Report
    BY <1>1, <2>1 DEF Report, Records, IInv, TypeOK, Placed, Watch, AtWork
  <2>2. CASE ~Report
    <3>1. UNCHANGED records
      BY <1>1, <2>2 DEF Next, RunStep, Unanswered, EditAndBuild, CleanUp, StartRun, Cut, LateFill,
         SkipCase, StartCase, CaseRefused, OrderSent, Proceeds, Fails, Settle, WaitPosition, Close,
         FlattenRound, FlattenDone, FlattenGivesUp, ReadFails, CaseEnds, Watched, WatchRound,
         WatchDeadline, WatchEnds, WatchFails, SkipWatch, vars, project
    <3> QED
      BY <3>1
  <2> QED
    BY <2>1, <2>2
<1> QED
  BY <1>1, Invariance, PTL DEF Spec, RecordedFlatIfAnswered

\* No set of records attests a source that its images have not passed on.
THEOREM AttestedTested == Spec => []AttestedMeansTested
<1>1. IInv => AttestedMeansTested
  BY DEF IInv, RecordsTrue, Attested, AttestedMeansTested
<1> QED
  BY <1>1, Invariance, PTL
=============================================================================
