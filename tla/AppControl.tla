----------------------------- MODULE AppControl -----------------------------
(***************************************************************************)
(* The Android application that controls the proxy: MainActivity's buttons   *)
(* and dialogs, RunningCheckService's poll every three seconds, the scripts  *)
(* that ExecuteShell runs (setip, squidz, squidrun, killserver, cleancache,  *)
(* resize_squid), the serial AsyncTask executor, and of Squid only what the  *)
(* scripts meet: its process, its pid file and the NAT rules that send the   *)
(* phone's HTTP traffic to it.                                              *)
(*                                                                         *)
(* Activity and service share one main thread; the executor's worker and    *)
(* Squid run beside it.  The service reads "ps" first and acts on what it    *)
(* read later, so a poll is two steps with the main thread busy in between.  *)
(* Cache sizes are counted in units of 50 MB, as the seek bar's offset is.   *)
(***************************************************************************)
EXTENDS Naturals

CONSTANTS
    MaxBar,       \* the seek bar's maximum
    MaxQueue,     \* bound: tasks waiting in the executor
    MaxCrashes,   \* bound: deaths of Squid that nobody asked for
    MaxAppDeaths  \* bound: deaths of the application's process

ASSUME BoundsAssumption ==
    /\ MaxBar \in Nat \ {0} /\ MaxQueue \in Nat \ {0}
    /\ MaxCrashes \in Nat /\ MaxAppDeaths \in Nat

VARIABLES
    on,        \* the preference server_on
    seen,      \* Common.isSquidRunning
    main,      \* main thread: "dead", "idle", or "act" (a poll has read ps)
    dialog,    \* the open AlertDialog: "none", "clean", "resize"
    queue,     \* RunAsyncTasks waiting in the serial executor
    worker,    \* the executor runs squidrun.sh
    squids,    \* Squid processes
    ready,     \* the Squid started last has written its pid file
    pid,       \* squid.pid: "none", "live" (names a living Squid), "stale"
    redirect,  \* the NAT rules are set
    bar,       \* seek bar position
    resize, backup, conf,  \* size chosen, size kept as current, size in squid.conf
    crashes, appDeaths,
    buttons,   \* images shown: "fresh" (as laid out), "stopped", "running"
    refresh,   \* a broadcast to refresh the buttons is under way
    lost       \* ghost: the last start ended on its own, no killserver.sh after it

squidVars == <<queue, worker, squids, ready, pid>>
sizeVars == <<bar, resize, backup, conf>>
countVars == <<crashes, appDeaths>>
viewVars == <<buttons, refresh>>
vars == <<on, seen, main, dialog, squidVars, redirect, sizeVars, countVars, viewVars, lost>>

Init ==
    /\ on = FALSE /\ seen = FALSE /\ main = "idle" /\ dialog = "none"
    /\ queue = 0 /\ worker = FALSE /\ squids = 0 /\ ready = FALSE /\ pid = "none"
    /\ redirect = FALSE
    /\ conf \in 1 .. MaxBar + 1 /\ resize = conf /\ backup = conf /\ bar = conf - 1
    /\ crashes = 0 /\ appDeaths = 0
    /\ buttons = "fresh" /\ refresh = FALSE /\ lost = FALSE
-----------------------------------------------------------------------------
(***************************************************************************)
(* The user.  The layout puts "off" over "on" and shows both, and onCreate   *)
(* hides only the gray trash can; from the first broadcast on,              *)
(* MessageReceiver shows "on" and the trash can, or "off" and the gray one.  *)
(* A dialog takes the clicks, not the polls.                                *)
(***************************************************************************)
CanClick == main = "idle" /\ dialog = "none"

SwitchOn ==
    /\ CanClick /\ buttons = "stopped"
    /\ on' = TRUE
    /\ UNCHANGED <<seen, main, dialog, squidVars, redirect, sizeVars, countVars, viewVars, lost>>

SwitchOff ==
    /\ CanClick /\ buttons # "stopped"
    /\ on' = FALSE
    /\ UNCHANGED <<seen, main, dialog, squidVars, redirect, sizeVars, countVars, viewVars, lost>>

\* MessageReceiver.onReceive, with isSquidRunning as it is by now
Refresh ==
    /\ main = "idle" /\ refresh
    /\ buttons' = IF seen THEN "running" ELSE "stopped"
    /\ refresh' = FALSE
    /\ UNCHANGED <<on, seen, main, dialog, squidVars, redirect, sizeVars, countVars, lost>>

CleanClick ==
    /\ CanClick /\ buttons # "running" /\ ~seen
    /\ dialog' = "clean"
    /\ UNCHANGED <<on, seen, main, squidVars, redirect, sizeVars, countVars, viewVars, lost>>

\* cleancache.sh: "rm -r ./cache", "rm ./*.*" (squid.pid is one of them), squid -z.
\* isSquidRunning was looked at when the dialog opened and is not looked at again.
CleanYes ==
    /\ main = "idle" /\ dialog = "clean"
    /\ dialog' = "none"
    /\ pid' = "none"
    /\ UNCHANGED <<on, seen, main, queue, worker, squids, ready, redirect, sizeVars, countVars,
                   viewVars, lost>>

CleanNo ==
    /\ main = "idle" /\ dialog = "clean"
    /\ dialog' = "none"
    /\ UNCHANGED <<on, seen, main, squidVars, redirect, sizeVars, countVars, viewVars, lost>>

\* onProgressChanged while dragging, onStopTrackingTouch at the end
SeekbarDragged(i) ==
    /\ CanClick
    /\ bar' = i /\ resize' = IF i = bar THEN resize ELSE i + 1
    /\ dialog' = "resize"
    /\ UNCHANGED <<on, seen, main, squidVars, redirect, backup, conf, countVars, viewVars, lost>>

\* mutant: a position past the end is kept
SetProgressUnclamped(p) == bar' = p /\ resize' = p + 1

\* setProgress clamps, and calls onProgressChanged when the position changes
SetProgress(p) ==
    LET q == IF p > MaxBar THEN MaxBar ELSE p
    IN  /\ bar' = q
        /\ resize' = IF q = bar THEN resize ELSE q + 1

\* The file names Squid, or cannot be opened and stays as it is, or is cut and
\* the write fails unnoticed: Squid carries on in every case.
writePidFile == pid' \in {"live", pid, "none"}

\* The new size is kept as the current one before anybody asks whether Squid
\* runs.  "squid -k reconfigure" makes a Squid it can signal write its pid again.
ResizeYes ==
    /\ main = "idle" /\ dialog = "resize"
    /\ dialog' = "none"
    /\ backup' = resize
    /\ IF seen THEN conf' = resize /\ UNCHANGED <<bar, resize>>
               ELSE SetProgress(resize) /\ UNCHANGED conf
    /\ IF seen /\ pid = "live" THEN writePidFile ELSE UNCHANGED pid
    /\ UNCHANGED <<on, seen, main, queue, worker, squids, ready, redirect, countVars, viewVars, lost>>

ResizeNo ==
    /\ main = "idle" /\ dialog = "resize"
    /\ dialog' = "none"
    /\ SetProgress(backup)
    /\ UNCHANGED <<on, seen, main, squidVars, redirect, backup, conf, countVars, viewVars, lost>>
-----------------------------------------------------------------------------
(***************************************************************************)
(* RunningCheckService.                                                     *)
(***************************************************************************)
\* mutant: the pid file is taken for the process
PollCheckPidFile ==
    /\ main = "idle"
    /\ seen' = (pid # "none") /\ refresh' = TRUE
    /\ main' = "act"
    /\ UNCHANGED <<on, dialog, squidVars, redirect, sizeVars, countVars, buttons, lost>>

\* checkRunningServer: ps squid; then the broadcast is sent
PollCheck ==
    /\ main = "idle"
    /\ seen' = (squids > 0) /\ refresh' = TRUE
    /\ main' = "act"
    /\ UNCHANGED <<on, dialog, squidVars, redirect, sizeVars, countVars, buttons, lost>>

\* runServer: setip.sh, squidz.sh, squidkparse.sh, then a task for squidrun.sh
RunServer ==
    /\ main = "act" /\ on /\ ~seen
    /\ queue < MaxQueue
    /\ redirect' = TRUE
    /\ queue' = queue + 1
    /\ main' = "idle" /\ lost' = FALSE
    /\ UNCHANGED <<on, seen, dialog, worker, squids, ready, pid, sizeVars, countVars, viewVars>>

\* mutant: the rules go, the process stays
KillServerFlushOnly ==
    /\ main = "act" /\ ~on /\ seen
    /\ redirect' = FALSE
    /\ main' = "idle" /\ lost' = FALSE
    /\ UNCHANGED <<on, seen, dialog, squidVars, sizeVars, countVars, viewVars>>

\* mutant: the process goes, the rules stay
KillServerKillOnly ==
    /\ main = "act" /\ ~on /\ seen /\ pid = "live"
    /\ squids' = squids - 1 /\ pid' = "stale" /\ ready' = FALSE /\ worker' = FALSE
    /\ main' = "idle" /\ lost' = FALSE
    /\ UNCHANGED <<on, seen, dialog, queue, redirect, sizeVars, countVars, viewVars>>

\* killserver.sh: kill -9 the process that squid.pid names, flush the NAT rules
KillServer ==
    /\ main = "act" /\ ~on /\ seen
    /\ redirect' = FALSE
    /\ IF pid = "live"
       THEN /\ squids' = squids - 1 /\ pid' = "stale" /\ ready' = FALSE /\ worker' = FALSE
       ELSE UNCHANGED <<squids, pid, ready, worker>>
    /\ main' = "idle" /\ lost' = FALSE
    /\ UNCHANGED <<on, seen, dialog, queue, sizeVars, countVars, viewVars>>

PollNothing ==
    /\ main = "act" /\ on = seen
    /\ main' = "idle"
    /\ UNCHANGED <<on, seen, dialog, squidVars, redirect, sizeVars, countVars, viewVars, lost>>
-----------------------------------------------------------------------------
(***************************************************************************)
(* The executor and Squid.                                                  *)
(***************************************************************************)
\* mutant: a pid file that is there is believed
checkRunningPidAny == pid # "none"

\* a second Squid leaves at once: squid.pid names a living process
checkRunningPid == pid = "live"

\* mutant: tasks run in parallel
WorkerStartParallel ==
    /\ main # "dead" /\ queue > 0
    /\ queue' = queue - 1
    /\ IF checkRunningPid THEN UNCHANGED <<worker, squids, ready>>
       ELSE worker' = TRUE /\ squids' = squids + 1 /\ ready' = FALSE
    /\ UNCHANGED <<on, seen, main, dialog, pid, redirect, sizeVars, countVars, viewVars, lost>>

\* The next task runs squidrun.sh; if Squid leaves at once, the task is over.
WorkerStart ==
    /\ main # "dead" /\ queue > 0 /\ ~worker
    /\ queue' = queue - 1
    /\ IF checkRunningPid THEN UNCHANGED <<worker, squids, ready>>
       ELSE worker' = TRUE /\ squids' = squids + 1 /\ ready' = FALSE
    /\ UNCHANGED <<on, seen, main, dialog, pid, redirect, sizeVars, countVars, viewVars, lost>>

\* writePidFile, at the end of mainInitialize
WritePidFile ==
    /\ squids > 0 /\ ~ready
    /\ writePidFile /\ ready' = TRUE
    /\ UNCHANGED <<on, seen, main, dialog, queue, worker, squids, redirect, sizeVars,
                   countVars, viewVars, lost>>

\* Squid exits or crashes; its task, if it still has one, is over.
SquidDies ==
    /\ squids > 0 /\ crashes < MaxCrashes /\ crashes' = crashes + 1
    /\ squids' = squids - 1 /\ worker' = FALSE /\ ready' = FALSE
    /\ pid' = IF pid = "live" THEN "stale" ELSE pid
    /\ lost' = (lost \/ queue = 0)
    /\ UNCHANGED <<on, seen, main, dialog, queue, redirect, sizeVars, appDeaths, viewVars>>

\* Android kills the application and with it the starts still queued; Squid, a
\* process of its own, runs on.
AppDies ==
    /\ main # "dead" /\ appDeaths < MaxAppDeaths /\ appDeaths' = appDeaths + 1
    /\ main' = "dead" /\ dialog' = "none" /\ seen' = FALSE /\ refresh' = FALSE
    /\ queue' = 0 /\ worker' = FALSE
    /\ lost' = (lost \/ (queue > 0 /\ squids = 0))
    /\ UNCHANGED <<on, squids, ready, pid, redirect, sizeVars, crashes, buttons>>

\* The sticky service comes back; the activity reads the size from squid.conf.
AppStarts ==
    /\ main = "dead" /\ main' = "idle" /\ buttons' = "fresh"
    /\ resize' = conf /\ backup' = conf /\ bar' = conf - 1
    /\ UNCHANGED <<on, seen, dialog, squidVars, redirect, conf, countVars, refresh, lost>>

\* The activity is created again, on a rotation say, in a living process: it
\* forgets that Squid runs until the next poll, shows the buttons as laid out,
\* and an open dialog and a broadcast to the old receiver are gone.
ActivityCreated ==
    /\ main = "idle"
    /\ seen' = FALSE /\ dialog' = "none" /\ buttons' = "fresh" /\ refresh' = FALSE
    /\ resize' = conf /\ backup' = conf /\ bar' = conf - 1
    /\ UNCHANGED <<on, main, squidVars, redirect, conf, countVars, lost>>
-----------------------------------------------------------------------------
Next ==
    \/ SwitchOn \/ SwitchOff \/ Refresh
    \/ CleanClick \/ CleanYes \/ CleanNo
    \/ \E i \in 0 .. MaxBar : SeekbarDragged(i)
    \/ ResizeYes \/ ResizeNo
    \/ PollCheck \/ RunServer \/ KillServer \/ PollNothing
    \/ WorkerStart \/ WritePidFile \/ SquidDies
    \/ AppDies \/ AppStarts \/ ActivityCreated

\* The handler re-posts the poll, the executor and Squid keep running, and a
\* sticky service is restarted.  Nothing is assumed of the user.
Fairness ==
    /\ WF_vars(PollCheck)
    /\ WF_vars(RunServer \/ KillServer \/ PollNothing)
    /\ WF_vars(WorkerStart)
    /\ WF_vars(WritePidFile)
    /\ WF_vars(AppStarts)

Spec == Init /\ [][Next]_vars /\ Fairness
-----------------------------------------------------------------------------
\* Every variable keeps its type.
TypeOK ==
    /\ on \in BOOLEAN /\ seen \in BOOLEAN
    /\ main \in {"dead", "idle", "act"} /\ dialog \in {"none", "clean", "resize"}
    /\ queue \in 0 .. MaxQueue /\ worker \in BOOLEAN /\ squids \in Nat /\ ready \in BOOLEAN
    /\ pid \in {"none", "live", "stale"} /\ redirect \in BOOLEAN
    /\ bar \in 0 .. MaxBar
    /\ resize \in 1 .. MaxBar + 1 /\ backup \in 1 .. MaxBar + 1 /\ conf \in 1 .. MaxBar + 1
    /\ crashes \in 0 .. MaxCrashes /\ appDeaths \in 0 .. MaxAppDeaths
    /\ buttons \in {"fresh", "stopped", "running"} /\ refresh \in BOOLEAN /\ lost \in BOOLEAN

\* However many polls have queued a start, and whatever died in between, two
\* Squids never share the cache directory.
AtMostOneSquid == squids <= 1

\* The NAT rules send the phone's traffic to a Squid that runs or to a start
\* that still waits, unless Squid, or the application with its queue, died:
\* a start is never given up for a pid file that names nobody.
RulesHaveServer == redirect => squids > 0 \/ queue > 0 \/ lost

\* A user who leaves the server on ends up with a running Squid.
OnStarts == <>[]on => <>[](squids > 0)

\* A Squid that is up and that squid.pid does not name: its file was cleaned
\* away or could not be written.
Unnamed == squids > 0 /\ ready /\ pid # "live"

\* A user who leaves the server off ends up without a Squid, or with one that
\* killserver.sh has no pid of.
OffStops == <>[]~on => <>[](squids = 0 \/ Unnamed)

\* Switching off takes the NAT rules away in the end, also when starts are still
\* queued or nothing can be killed, unless the last start ended on its own: then
\* the poll finds no Squid and leaves them.
OffRestoresNetwork == <>[]~on => <>[](redirect => lost)

=============================================================================
