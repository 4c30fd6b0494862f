------------------------------- MODULE BootLogin -------------------------------
(***************************************************************************)
(* The login at boot: the loop of scripts/04-install-mt5.sh tries one      *)
(* connect address after the other until the terminal is authorized, while *)
(* the API attaches to the same terminal.  They share three files: the     *)
(* terminal's journals, the session marker that the API writes and the     *)
(* loop reads (app/autologin.py), and the login server that the loop       *)
(* writes and the API's reconnects read.                                   *)
(*                                                                         *)
(* MT5 runs one instance: a terminal started while another runs goes away. *)
(* How the API decides to reconnect is MT5Connection's subject.            *)
(***************************************************************************)
EXTENDS Naturals

CONSTANTS
    N,      \* number of connect candidates, in the order they are tried
    Name,   \* the address that stands for the plain server name
    Working,    \* the addresses through which the broker answers
    Tries,  \* bound: checks of a login window
    None    \* no address: no file, or a terminal that was given no login

ASSUME BootAssumption ==
    /\ N \in Nat
    /\ Name \in Nat
    /\ Tries \in Nat \ {0}
    /\ Working \subseteq Nat
    /\ None \notin Nat

VARIABLES
    loop,       \* where the loop is
    cand,       \* the candidate it tries
    left,       \* checks left in the window
    ini,        \* start.ini, with the password, exists
    server,     \* the login server file
    journal,    \* is there a journal line, and one since the baseline
    marker,     \* is there a session marker, and one since the attempt began
    terminal,   \* the terminal process
    via,        \* the address it logs in through
    noted,      \* its login is in the journal
    api,        \* where the API is
    stamp,      \* the time its marker will carry
    live,       \* the session it attached to exists
    shown,      \* history: its marker was written before the loop's last look
    touched     \* history: the API launched a terminal or gave it a login
                \* before the loop had its answer

window == <<cand, left>>
files == <<ini, server>>
process == <<terminal, via, noted>>
client == <<api, stamp, live>>
history == <<shown, touched>>
vars == <<loop, window, files, journal, marker, process, client, history>>

Addresses == 1..N \cup {Name}

\* A record that may exist from before the present attempt.
Ages == {"none", "old", "new"}

TypeOK ==
    /\ loop \in {"launch", "wait", "look", "kill", "record", "fallback", "shred", "done"}
    /\ cand \in 1..N \cup {1}
    /\ left \in 0..Tries
    /\ ini \in BOOLEAN
    /\ server \in 1..N \cup {None}
    /\ journal \in Ages
    /\ marker \in Ages
    /\ terminal \in {"none", "waiting", "in"}
    /\ via \in Addresses \cup {None}
    /\ noted \in BOOLEAN
    /\ api \in {"boot", "away", "marking", "writing", "attached"}
    /\ stamp \in {"old", "new"}
    /\ live \in BOOLEAN
    /\ shown \in BOOLEAN
    /\ touched \in BOOLEAN

\* The journals are kept from boot to boot; the loop removes the other files.
Init ==
    /\ loop = IF N = 0 THEN "fallback" ELSE "launch"
    /\ cand = 1
    /\ left = 0
    /\ ini = FALSE
    /\ server = None
    /\ journal \in {"none", "old"}
    /\ marker = "none"
    /\ terminal = "none"
    /\ via = None
    /\ noted = FALSE
    /\ api = "boot"
    /\ stamp = "old"
    /\ live = FALSE
    /\ shown = FALSE
    /\ touched = FALSE

-----------------------------------------------------------------------------
(* The terminal.                                                           *)

\* The process ends, and with it the session of the API.
Gone ==
    /\ terminal' = "none"
    /\ via' = None
    /\ noted' = FALSE
    /\ live' = FALSE
    /\ shown' = FALSE

Start(address) ==
    IF terminal = "none"
    THEN /\ terminal' = "waiting"
         /\ via' = address
         /\ noted' = FALSE
    ELSE UNCHANGED process

\* Without a login a terminal never logs in.
LogsIn ==
    /\ terminal = "waiting"
    /\ via \in Working
    /\ terminal' = "in"
    /\ UNCHANGED <<loop, window, files, journal, marker, via, noted, client, history>>

\* The line "authorized on" lands, some time after the login.
Journals ==
    /\ terminal = "in"
    /\ ~noted
    /\ noted' = TRUE
    /\ journal' = "new"
    /\ UNCHANGED <<loop, window, files, marker, terminal, via, client, history>>

TerminalDies ==
    /\ terminal # "none"
    /\ Gone
    /\ UNCHANGED <<loop, window, files, journal, marker, api, stamp, touched>>

-----------------------------------------------------------------------------
(* The API.                                                                *)

\* Whether the loop is still to find out who authorized the terminal.
Undecided == loop \notin {"shred", "done"}

\* mt5.initialize() of the boot attach carries no login.
BootAttach ==
    /\ api = "boot"
    /\ terminal = "none"
    /\ Start(None)
    /\ touched' = (touched \/ Undecided)
    /\ UNCHANGED <<loop, window, files, journal, marker, client, shown>>

BootGivesUp ==
    /\ api = "boot"
    /\ api' = "away"
    /\ UNCHANGED <<loop, window, files, journal, marker, process, stamp, live, history>>

\* reconnect_credentials: the recorded address, else the server's name.
ReconnectWithoutLogin == None
ReconnectServer == IF server # None THEN server ELSE Name

\* A reconnect launches a terminal with the login...
Reconnect ==
    /\ api = "away"
    /\ terminal = "none"
    /\ Start(ReconnectServer)
    /\ touched' = (touched \/ Undecided)
    /\ UNCHANGED <<loop, window, files, journal, marker, client, shown>>

\* ... or gives it to one that waits; the terminal's own login may be faster.
GiveLogin ==
    /\ api = "away"
    /\ terminal = "waiting"
    /\ via' = ReconnectServer
    /\ touched' = (touched \/ Undecided)
    /\ UNCHANGED <<loop, window, files, journal, marker, terminal, noted, client, shown>>

\* initialize() and account_info() succeed, and the session is served.
Attach ==
    /\ api \in {"boot", "away"}
    /\ terminal = "in"
    /\ api' = "marking"
    /\ stamp' = "new"
    /\ live' = TRUE
    /\ UNCHANGED <<loop, window, files, journal, marker, process, history>>

\* _mark_session is best effort: the file may not open.  It is empty between
\* the opening and the writing.
OpenMarker ==
    /\ api = "marking"
    /\ \/ api' = "writing" /\ marker' = "none" /\ shown' = FALSE
       \/ api' = "attached" /\ UNCHANGED <<marker, shown>>
    /\ UNCHANGED <<loop, window, files, journal, process, stamp, live, touched>>

WriteMarker ==
    /\ api = "writing"
    /\ api' = "attached"
    /\ marker' = stamp
    /\ shown' = (live /\ stamp = "new" /\ loop \in {"wait", "look"})
    /\ UNCHANGED <<loop, window, files, journal, process, stamp, live, touched>>

\* A dead session is found out; a live one can be given up, too, when it does
\* not reconcile.  The marker stays.
Detach ==
    /\ api = "attached"
    /\ api' = "away"
    /\ live' = FALSE
    /\ shown' = FALSE
    /\ UNCHANGED <<loop, window, files, journal, marker, process, stamp, touched>>
FindOut == ~live /\ Detach
GiveUp == live /\ Detach

-----------------------------------------------------------------------------
(* The loop.                                                               *)

\* A stamp seen from the next attempt.  The start of an attempt is cut to whole
\* seconds, so a stamp from just before it may still count.
Aged(time) == IF time = "new" THEN {"old", "new"} ELSE {time}
Outdated(time) == IF time = "new" THEN "old" ELSE time

\* render_ini, the baseline of the journals, the start time, the terminal.
Launch ==
    /\ loop = "launch"
    /\ loop' = "wait"
    /\ left' = Tries
    /\ ini' = TRUE
    /\ journal' = Outdated(journal)
    /\ marker' \in Aged(marker)
    /\ stamp' \in Aged(stamp)
    /\ Start(cand)
    /\ UNCHANGED <<cand, server, api, live, history>>

AuthorizedByAnyLine == journal # "none" \/ marker = "new"
Authorized == journal = "new" \/ marker = "new"

Wait ==
    /\ loop = "wait"
    /\ IF left = 0 THEN loop' = "look" /\ UNCHANGED left
       ELSE IF Authorized THEN loop' = "record" /\ UNCHANGED left
       ELSE left' = left - 1 /\ UNCHANGED loop
    /\ UNCHANGED <<cand, files, journal, marker, process, client, history>>

\* One last look before killing anything.
LastLookSkipped ==
    /\ loop = "look"
    /\ loop' = "kill"
    /\ UNCHANGED <<window, files, journal, marker, process, client, history>>
LastLook ==
    /\ loop = "look"
    /\ loop' = IF Authorized THEN "record" ELSE "kill"
    /\ UNCHANGED <<window, files, journal, marker, process, client, history>>

\* pkill, and a pause of three seconds, after which no stamp of a session that
\* was killed counts: bound, no thread takes longer from account_info() to the
\* stamp.
Kill ==
    /\ loop = "kill"
    /\ Gone
    /\ marker' = Outdated(marker)
    /\ stamp' = "old"
    /\ IF cand < N THEN loop' = "launch" /\ cand' = cand + 1
       ELSE loop' = "fallback" /\ UNCHANGED cand
    /\ UNCHANGED <<left, files, journal, api, touched>>

Record ==
    /\ loop = "record"
    /\ loop' = "shred"
    /\ server' = cand
    /\ UNCHANGED <<window, ini, journal, marker, process, client, history>>

\* No candidate authorized: the first keeps trying.
Fallback ==
    /\ loop = "fallback"
    /\ loop' = "shred"
    /\ IF N = 0 THEN UNCHANGED <<ini, process>> ELSE ini' = TRUE /\ Start(1)
    /\ UNCHANGED <<window, server, journal, marker, client, history>>

\* No plaintext password lingers in the volume.
ShredAuthorized ==
    /\ loop = "shred"
    /\ server # None
    /\ loop' = "done"
    /\ ini' = FALSE
    /\ UNCHANGED <<window, server, journal, marker, process, client, history>>
Shred ==
    /\ loop = "shred"
    /\ loop' = "done"
    /\ ini' = FALSE
    /\ UNCHANGED <<window, server, journal, marker, process, client, history>>

-----------------------------------------------------------------------------
LoopStep ==
    Launch \/ Wait \/ LastLook \/ Kill \/ Record \/ Fallback \/ Shred

ApiStep ==
    \/ BootAttach \/ BootGivesUp \/ Reconnect \/ GiveLogin \/ Attach
    \/ OpenMarker \/ WriteMarker
    \/ FindOut \/ GiveUp

TerminalStep == LogsIn \/ Journals \/ TerminalDies

Next == LoopStep \/ ApiStep \/ TerminalStep

Spec == Init /\ [][Next]_vars

\* The loop is a shell process of its own whose only waits are sleeps.  A
\* thread of the API that attaches goes on, and with requests arriving the API
\* tries again and again.  A terminal logs in through an address that works.
FairSpec ==
    /\ Spec
    /\ WF_vars(LoopStep)
    /\ WF_vars(BootGivesUp) /\ WF_vars(Reconnect) /\ WF_vars(GiveLogin) /\ WF_vars(Attach)
    /\ WF_vars(OpenMarker) /\ WF_vars(WriteMarker) /\ WF_vars(FindOut)
    /\ WF_vars(LogsIn)

-----------------------------------------------------------------------------
(* Properties.                                                             *)

\* "A terminal the API is using is never killed because its journal line has
\* not landed yet": not when the API attached during the attempt and had its
\* marker written before the last look.
ShownSessionSpared == loop = "kill" => ~shown

\* The address that reconnects will use is one that authorized a terminal,
\* unless the API launched a terminal, or gave one its login, while the loop
\* was trying.
RecordedServerWorked == server # None /\ ~touched => server \in Working

\* Whatever terminal and API do, the loop comes to an end, and the password
\* does not stay on the volume.
PasswordShredded == <>[](loop = "done" /\ ~ini)

\* However often the terminal dies and the API loses its session, once they
\* stop doing so the API holds a live session for good, through the recorded
\* address or the server's name.
ComesBack ==
    Name \in Working /\ []~touched /\ <>[][~TerminalDies /\ ~GiveUp]_vars
        => <>[](api = "attached" /\ live)
=============================================================================
