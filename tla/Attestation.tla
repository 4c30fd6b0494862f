------------------------------ MODULE Attestation ------------------------------
(***************************************************************************)
(* The attestation that a promotion needs (src/attestation): a run drives  *)
(* one image through a plan of cases that place and close real orders,     *)
(* watches the account for fills that come late, and writes a record;      *)
(* verify.py looks for the records of both images.  Replies may be         *)
(* unclear, orders may fill long after them, a terminal that does not      *)
(* answer looks like one without positions, and a run may be cut short.    *)
(***************************************************************************)
EXTENDS Naturals, Sequences

CONSTANTS
    Variants,   \* the images: vnc, headless
    Sources,    \* bound: states of the source tree
    Plan,       \* the kinds of the cases, in order
    MaxSends,   \* orders sent until UNCLEAR_RETRY_S is over
    Rounds,     \* rounds of flatten
    MaxRuns     \* bound: runs

ASSUME AttestationAssumption ==
    /\ Plan \in Seq({"login", "boot", "session"})
    /\ \E c \in 1..Len(Plan) : Plan[c] = "session"
    /\ MaxSends \in Nat \ {0} /\ Rounds \in Nat \ {0} /\ MaxRuns \in Nat

VARIABLES
    tree,       \* the source
    image,      \* the source each image was built from
    records,    \* attestation/records
    runs,       \* runs started
    variant,    \* the image of this run
    demo,       \* its account is a demo account
    only,       \* it was asked for some cases only
    case,       \* the current case
    pc,         \* where the run is
    sends,      \* orders the case has sent
    rounds,     \* rounds its flatten has made
    passed,     \* nothing failed in the case so far
    ran,        \* cases with a result
    failed,     \* one of the results, or the setup, is a failure
    over,       \* the final watch is over its deadline
    sure,       \* history: the terminal answered the last look of the watch
    open,       \* positions of the case
    late,       \* its orders that may still fill
    older,      \* positions of earlier cases
    olderLate,  \* their orders that may still fill
    foreign,    \* positions that this run did not open
    tested      \* history: images, as built, that passed every case on a demo account

project == <<tree, image, records, runs, tested>>
run == <<variant, demo, only>>
results == <<ran, failed>>
exposure == <<open, late, older, olderLate, foreign>>
progress == <<case, pc, sends, rounds, passed, over, sure>>
vars == <<project, run, results, exposure, progress>>

Final == Len(Plan) + 1
Required == 1..Final

Phases == {"idle", "case", "order", "settle", "wait", "close", "flatten", "watch", "report"}

TypeOK ==
    /\ tree \in Sources /\ image \in [Variants -> Sources]
    /\ records \subseteq [source : Sources, variant : Variants]
    /\ tested \subseteq Sources \X Variants
    /\ runs \in 0..MaxRuns
    /\ variant \in Variants /\ demo \in BOOLEAN /\ only \in BOOLEAN
    /\ case \in 1..Final /\ pc \in Phases
    /\ sends \in 0..MaxSends /\ rounds \in 0..Rounds
    /\ passed \in BOOLEAN /\ failed \in BOOLEAN /\ over \in BOOLEAN
    /\ sure \in BOOLEAN
    /\ ran \subseteq Required
    /\ open \in Nat /\ late \in Nat /\ older \in Nat /\ olderLate \in Nat
    /\ foreign \in BOOLEAN

Init ==
    /\ tree \in Sources /\ image = [v \in Variants |-> tree]
    /\ records = {} /\ tested = {} /\ runs = 0
    /\ variant \in Variants /\ demo = FALSE /\ only = FALSE
    /\ case = 1 /\ pc = "idle" /\ sends = 0 /\ rounds = 0
    /\ passed = TRUE /\ ran = {} /\ failed = FALSE /\ over = FALSE /\ sure = FALSE
    /\ open = 0 /\ late = 0 /\ older = 0 /\ olderLate = 0
    /\ foreign \in BOOLEAN

-----------------------------------------------------------------------------
(* Around a run.  Nobody edits the tree while a run lasts, and the image    *)
(* that is tested was built from it: run.py checks neither.                 *)

EditAndBuild ==
    /\ pc = "idle"
    /\ tree' \in Sources \ {tree}
    /\ image' = [v \in Variants |-> tree']
    /\ UNCHANGED <<records, runs, tested, run, results, exposure, progress>>

\* The owner of the account closes what is left.
CleanUp ==
    /\ pc = "idle" /\ foreign
    /\ foreign' = FALSE
    /\ UNCHANGED <<project, run, results, open, late, older, olderLate, progress>>

StartRun(v, d, o) ==
    /\ pc = "idle" /\ runs < MaxRuns
    /\ runs' = runs + 1
    /\ variant' = v /\ demo' = d /\ only' = o
    /\ pc' = "case"
    /\ UNCHANGED <<tree, image, records, tested, results, exposure,
                   case, sends, rounds, passed, over, sure>>

\* The process ends; what it leaves behind is foreign to the next run.
Exit ==
    /\ pc' = "idle" /\ case' = 1 /\ sends' = 0 /\ rounds' = 0 /\ passed' = TRUE
    /\ over' = FALSE /\ sure' = FALSE
    /\ ran' = {} /\ failed' = FALSE
    /\ foreign' = (foreign \/ open + late + older + olderLate > 0)
    /\ open' = 0 /\ late' = 0 /\ older' = 0 /\ olderLate' = 0
    /\ UNCHANGED run

\* SIGTERM, Ctrl-C, an exception that is not Failed, docker failing.
Cut ==
    /\ pc # "idle"
    /\ Exit
    /\ UNCHANGED project

\* The broker: an order that was not answered, or only acknowledged, fills
\* or comes to nothing.
LateFill ==
    /\ \/ /\ late > 0 /\ late' = late - 1
          /\ open' \in {open, open + 1}
          /\ UNCHANGED <<older, olderLate>>
       \/ /\ olderLate > 0 /\ olderLate' = olderLate - 1
          /\ older' \in {older, older + 1}
          /\ UNCHANGED <<open, late>>
    /\ UNCHANGED <<project, run, results, foreign, progress>>

-----------------------------------------------------------------------------
(* A case: an order, its position, its close, and a flatten in any event.  *)

\* How many of n positions GET /get_positions returns: a terminal that does
\* not answer has none, like an empty account, and with status 200.
Listed(n, answers) == IF answers THEN n ELSE 0

Goto(label) == pc' = label /\ UNCHANGED <<case, over, sure>>

\* _timed writes the result; a fill from now on is one of an earlier case.
CaseEnds(ok) ==
    /\ ran' = ran \cup {case}
    /\ failed' = (failed \/ ~ok)
    /\ case' = case + 1
    /\ pc' = IF case = Len(Plan) THEN "watch" ELSE "case"
    /\ sends' = 0 /\ rounds' = 0 /\ passed' = TRUE
    /\ older' = older + open /\ olderLate' = olderLate + late
    /\ open' = 0 /\ late' = 0
    /\ UNCHANGED <<project, run, over, sure, foreign>>

\* With --only the cases that were not named are passed over.
SkipCase ==
    /\ pc = "case" /\ only
    /\ case' = case + 1
    /\ pc' = IF case = Len(Plan) THEN "watch" ELSE "case"
    /\ UNCHANGED <<project, run, results, exposure, sends, rounds, passed, over, sure>>

\* run_all's gate, and the one of _login_and_trade.
DemoGate == Plan[case] \in {"login", "session"} => demo

StartCase ==
    /\ pc = "case" /\ DemoGate
    /\ Goto("order")
    /\ UNCHANGED <<project, run, results, exposure, sends, rounds, passed>>

\* Not ready, the wrong account, not a demo account: the case fails, or in
\* run_all itself the whole run does.
CaseRefused ==
    /\ pc = "case"
    /\ IF Plan[case] = "session" THEN Exit /\ UNCHANGED project ELSE CaseEnds(FALSE)

Fails ==
    /\ passed' = FALSE
    /\ Goto("flatten")
    /\ UNCHANGED <<project, run, results, rounds>>

Proceeds(label) ==
    /\ Goto(label)
    /\ UNCHANGED <<project, run, results, rounds, passed>>

\* What the broker makes of an order: nothing, a position, a fill to come.
Sent(filled, pending) ==
    /\ open' = open + filled /\ late' = late + pending
    /\ UNCHANGED <<older, olderLate, foreign>>

\* POST /order.  A reply that never comes is status 0, which is no unclear
\* reply: the case fails, like on a refusal, and leaves the order to the
\* final watch.
OrderSent ==
    /\ pc = "order" /\ sends < MaxSends
    /\ sends' = sends + 1
    /\ \/ (Sent(1, 0) \/ Sent(0, 1)) /\ Proceeds("wait")
       \/ (Sent(1, 0) \/ Sent(0, 1) \/ Sent(0, 0)) /\ Proceeds("settle")
       \/ (Sent(1, 0) \/ Sent(0, 1) \/ Sent(0, 0)) /\ Fails

\* An unclear reply is settled from the positions: none within RECONCILE_S
\* means that the order is sent again.
Settle(answers) ==
    /\ pc = "settle"
    /\ \/ Listed(open, answers) > 0 /\ Proceeds("wait")
       \/ Listed(open, answers) = 0 /\ sends < MaxSends /\ Proceeds("order")
       \/ Fails
    /\ UNCHANGED <<exposure, sends>>

\* _wait_positions: exactly one.
WaitPosition ==
    /\ pc = "wait"
    /\ \/ open = 1 /\ Proceeds("close")
       \/ Fails
    /\ UNCHANGED <<exposure, sends>>

\* close, with its retries: the ticket is not listed in the end, or the case
\* fails.
Close(answers) ==
    /\ pc = "close" /\ open > 0
    /\ open' \in {open, open - 1}
    /\ \/ Listed(open', answers) < open /\ Proceeds("flatten")
       \/ Fails
    /\ UNCHANGED <<sends, late, older, olderLate, foreign>>

\* A round closes what the broker lets it close.
FlattenRound ==
    /\ pc = "flatten" /\ rounds < Rounds
    /\ rounds' = rounds + 1
    /\ open' \in 0..open
    /\ UNCHANGED <<project, run, results, case, pc, over, sure, sends, passed, late,
                   older, olderLate, foreign>>

FlattenDone(answers) ==
    pc = "flatten" /\ rounds > 0 /\ Listed(open, answers) = 0 /\ CaseEnds(passed)

\* After the last round there is a warning, and the case has its result.
FlattenGivesUpNever == FALSE
FlattenGivesUp == pc = "flatten" /\ rounds = Rounds /\ open > 0 /\ CaseEnds(passed)

-----------------------------------------------------------------------------
(* final_account_is_flat and the record.                                   *)

Watched(ok, answers) ==
    /\ ran' = ran \cup {Final}
    /\ failed' = (failed \/ ~ok)
    /\ sure' = answers
    /\ pc' = "report"
    /\ UNCHANGED <<project, run, exposure, case, over, sends, rounds, passed>>

\* Positions of this run are closed as they appear, if the broker lets them.
WatchRound ==
    /\ pc = "watch" /\ older > 0 /\ ~foreign
    /\ older' \in 0..(older - 1)
    /\ UNCHANGED <<project, run, results, open, late, olderLate, foreign, progress>>

\* late_fill_watch is long enough for every fill to come.
WatchDeadline ==
    /\ pc = "watch" /\ ~over /\ olderLate = 0
    /\ over' = TRUE
    /\ UNCHANGED <<project, run, results, exposure, case, pc, sends, rounds, passed, sure>>

\* A look lists nothing at all.
SeesFlatWhateverIsOpen(answers) == ~(answers /\ foreign)
SeesFlat(answers) == Listed(older, answers) = 0 /\ ~(answers /\ foreign)

WatchEnds(answers) == pc = "watch" /\ over /\ SeesFlat(answers) /\ Watched(TRUE, answers)

\* A look lists a foreign position, or one still open UNCLEAR_RETRY_S later.
WatchFails == pc = "watch" /\ (foreign \/ (over /\ older > 0)) /\ Watched(FALSE, TRUE)

\* A read of flatten or of the watch comes to an error: the gateway has lost
\* the connection (503) or does not answer.
ReadFails ==
    \/ pc = "flatten" /\ CaseEnds(FALSE)
    \/ pc = "watch" /\ Watched(FALSE, FALSE)

SkipWatch ==
    /\ pc = "watch" /\ only
    /\ Goto("report")
    /\ UNCHANGED <<project, run, results, exposure, sends, rounds, passed>>

Missing == IF only THEN {} ELSE Required \ ran

RecordsPartialRuns == ~failed /\ Missing = {}
Records == ~failed /\ Missing = {} /\ ~only

FullPass == demo /\ ~failed /\ ran = Required

Report ==
    /\ pc = "report"
    /\ records' = IF Records THEN records \cup {[source |-> tree, variant |-> variant]}
                  ELSE records
    /\ tested' = IF FullPass THEN tested \cup {<<image[variant], variant>>} ELSE tested
    /\ Exit
    /\ UNCHANGED <<tree, image, runs>>

\* verify.py: a record of this very source for each image.
Attested == \A v \in Variants : [source |-> tree, variant |-> v] \in records

-----------------------------------------------------------------------------

RunStep ==
    \/ SkipCase \/ StartCase \/ CaseRefused
    \/ OrderSent \/ Settle(TRUE) \/ WaitPosition \/ Close(TRUE)
    \/ FlattenRound \/ FlattenDone(TRUE) \/ FlattenGivesUp
    \/ WatchRound \/ WatchDeadline \/ WatchEnds(TRUE) \/ WatchFails \/ SkipWatch
    \/ Report

\* The terminal leaves a read of the positions unanswered while the gateway
\* still counts it as connected.
Unanswered == Settle(FALSE) \/ Close(FALSE) \/ FlattenDone(FALSE) \/ WatchEnds(FALSE)

Next ==
    \/ EditAndBuild \/ CleanUp
    \/ \E v \in Variants, d \in BOOLEAN, o \in BOOLEAN : StartRun(v, d, o)
    \/ RunStep \/ Unanswered \/ ReadFails \/ Cut \/ LateFill

Spec == Init /\ [][Next]_vars

\* The run goes on by itself, with no help from a read that fails or is not
\* answered, and the broker decides about every order in the end.
FairSpec == Spec /\ WF_vars(RunStep) /\ WF_vars(LateFill)

-----------------------------------------------------------------------------
(* Properties.                                                             *)

\* "The whole account ends flat after a watch" (docs/contributing/
\* attestation.md), if the terminal answered the last look of it: when a record
\* is written nothing this run ordered is open or to come and nobody else's
\* position is there, whatever was answered unclearly, left unanswered or
\* filled late before.
RecordedFlatIfAnswered ==
    [][records' # records /\ sure => open + late + older + olderLate = 0 /\ ~foreign]_vars

\* A source passes verify.py only when both images built from it have passed
\* every case on a demo account: earlier records, runs of some cases only and
\* runs that failed or were cut never add up to an attestation.
AttestedMeansTested ==
    Attested => \A v \in Variants : <<tree, v>> \in tested

\* A run ends, whatever the broker does with its orders and closes.
RunsEnd == (pc # "idle") ~> (pc = "idle")
=============================================================================
