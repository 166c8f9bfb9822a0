-------------------------- MODULE AppControlProofs --------------------------
(***************************************************************************)
(* Safety of the control of Squid, for every size of the seek bar, every   *)
(* length of the executor's queue and any number of crashes: the types,    *)
(* that two Squids never run together, and what stands behind the rules.   *)
(***************************************************************************)
EXTENDS AppControl, TLAPS

\* A Squid that no task of the executor waits for was left behind by a dead
\* application.  No start is queued then, and no poll that read "ps" before
\* Squid came up is about to queue one.
OrphanAlone == squids > 0 /\ ~worker => queue = 0 /\ (main = "act" => seen)

\* A task runs only as long as the Squid it started, and a pid file that
\* names a living process names Squid.
TaskHasSquid == worker => squids > 0
PidIsSquid == pid = "live" => squids > 0

\* The part of TypeOK about flags, and the rest of it.
FlagsOK ==
    /\ on \in BOOLEAN /\ seen \in BOOLEAN /\ worker \in BOOLEAN
    /\ ready \in BOOLEAN /\ redirect \in BOOLEAN /\ refresh \in BOOLEAN
    /\ lost \in BOOLEAN
OthersOK ==
    /\ main \in {"dead", "idle", "act"} /\ dialog \in {"none", "clean", "resize"}
    /\ queue \in 0 .. MaxQueue /\ squids \in Nat
    /\ pid \in {"none", "live", "stale"}
    /\ bar \in 0 .. MaxBar
    /\ resize \in 1 .. MaxBar + 1 /\ backup \in 1 .. MaxBar + 1 /\ conf \in 1 .. MaxBar + 1
    /\ crashes \in 0 .. MaxCrashes /\ appDeaths \in 0 .. MaxAppDeaths
    /\ buttons \in {"fresh", "stopped", "running"}

\* TypeOK is the two parts.
LEMMA TypeParts == TypeOK <=> FlagsOK /\ OthersOK
BY Zenon DEF TypeOK, FlagsOK, OthersOK

\* The inductive invariant.
IInv ==
    /\ FlagsOK /\ OthersOK /\ AtMostOneSquid /\ RulesHaveServer
    /\ OrphanAlone /\ TaskHasSquid /\ PidIsSquid

\* The invariant holds when the application is started for the first time.
LEMMA InitIInv == Init => IInv
<1> SUFFICES ASSUME Init PROVE IInv
    OBVIOUS
<1>1. FlagsOK
    BY Zenon DEF Init, FlagsOK
<1>2. OthersOK
    BY BoundsAssumption DEF Init, OthersOK
<1>3. QED
    BY <1>1, <1>2 DEF Init, IInv, AtMostOneSquid, RulesHaveServer, OrphanAlone,
                TaskHasSquid, PidIsSquid

\* The flags stay flags.
LEMMA NextFlags == FlagsOK /\ [Next]_vars => FlagsOK'
<1> SUFFICES ASSUME FlagsOK, [Next]_vars PROVE FlagsOK'
    OBVIOUS
<1> USE DEF FlagsOK, squidVars, sizeVars, countVars, viewVars
<1>1. CASE SwitchOn
    BY Zenon, <1>1 DEF SwitchOn, CanClick
<1>2. CASE SwitchOff
    BY Zenon, <1>2 DEF SwitchOff, CanClick
<1>3. CASE CleanClick
    BY Zenon, <1>3 DEF CleanClick, CanClick
<1>4. CASE CleanYes
    BY Zenon, <1>4 DEF CleanYes
<1>5. CASE CleanNo
    BY Zenon, <1>5 DEF CleanNo
<1>6. ASSUME NEW i \in 0 .. MaxBar, SeekbarDragged(i)
      PROVE FlagsOK'
    BY Zenon, <1>6 DEF SeekbarDragged, CanClick
<1>7. CASE ResizeYes
    BY Zenon, <1>7 DEF ResizeYes, SetProgress, writePidFile
<1>8. CASE ResizeNo
    BY Zenon, <1>8 DEF ResizeNo, SetProgress
<1>9. CASE PollCheck
    <2>1. (squids > 0) \in BOOLEAN
        OBVIOUS
    <2>2. QED
        BY Zenon, <1>9, <2>1 DEF PollCheck
<1>10. CASE RunServer
    BY Zenon, <1>10 DEF RunServer
<1>11. CASE KillServer
    BY Zenon, <1>11 DEF KillServer
<1>12. CASE PollNothing
    BY Zenon, <1>12 DEF PollNothing
<1>13. CASE WorkerStart
    BY Zenon, <1>13 DEF WorkerStart, checkRunningPid
<1>14. CASE WritePidFile
    BY Zenon, <1>14 DEF WritePidFile, writePidFile
<1>15. CASE SquidDies
    <2>1. (lost \/ queue = 0) \in BOOLEAN
        OBVIOUS
    <2>2. QED
        BY Zenon, <1>15, <2>1 DEF SquidDies
<1>16. CASE AppDies
    <2>1. (lost \/ (queue > 0 /\ squids = 0)) \in BOOLEAN
        OBVIOUS
    <2>2. QED
        BY Zenon, <1>16, <2>1 DEF AppDies
<1>17. CASE AppStarts
    BY Zenon, <1>17 DEF AppStarts
<1>18. CASE ActivityCreated
    BY Zenon, <1>18 DEF ActivityCreated
<1>19. CASE Refresh
    BY Zenon, <1>19 DEF Refresh
<1>20. CASE UNCHANGED vars
    BY Zenon, <1>20 DEF vars
<1>21. QED
    BY <1>1, <1>2, <1>3, <1>4, <1>5, <1>6, <1>7, <1>8, <1>9,
       <1>10, <1>11, <1>12, <1>13, <1>14, <1>15, <1>16, <1>17, <1>18, <1>19, <1>20 DEF Next

\* Every step of the user, the poll, the executor, Squid or Android keeps it.
LEMMA NextIInv == IInv /\ [Next]_vars => IInv'
<1> SUFFICES ASSUME IInv, [Next]_vars PROVE IInv'
    OBVIOUS
<1> DEFINE Rest == /\ OthersOK /\ AtMostOneSquid /\ RulesHaveServer
                   /\ OrphanAlone /\ TaskHasSquid /\ PidIsSquid
<1>0. FlagsOK'
    BY NextFlags DEF IInv
<1> SUFFICES Rest'
    BY <1>0 DEF IInv
<1> USE BoundsAssumption
    DEF IInv, OthersOK, AtMostOneSquid, RulesHaveServer, OrphanAlone,
        TaskHasSquid, PidIsSquid, squidVars, sizeVars, countVars, viewVars
<1>1. CASE SwitchOn
    BY <1>1 DEF SwitchOn, CanClick
<1>2. CASE SwitchOff
    BY <1>2 DEF SwitchOff, CanClick
<1>3. CASE CleanClick
    BY <1>3 DEF CleanClick, CanClick
<1>4. CASE CleanYes
    BY <1>4 DEF CleanYes
<1>5. CASE CleanNo
    BY <1>5 DEF CleanNo
<1>6. ASSUME NEW i \in 0 .. MaxBar, SeekbarDragged(i)
      PROVE Rest'
    BY <1>6 DEF SeekbarDragged, CanClick
<1>7. CASE ResizeYes
    BY <1>7 DEF ResizeYes, SetProgress, writePidFile
<1>8. CASE ResizeNo
    BY <1>8 DEF ResizeNo, SetProgress
<1>9. CASE PollCheck
    BY <1>9 DEF PollCheck
<1>10. CASE RunServer
    BY <1>10 DEF RunServer
<1>11. CASE KillServer
    BY <1>11 DEF KillServer
<1>12. CASE PollNothing
    BY <1>12 DEF PollNothing
<1>13. CASE WorkerStart
    BY <1>13 DEF WorkerStart, checkRunningPid
<1>14. CASE WritePidFile
    BY <1>14 DEF WritePidFile, writePidFile
<1>15. CASE SquidDies
    <2>1. (lost => lost') /\ (queue = 0 => lost')
        BY Zenon, <1>15 DEF SquidDies
    <2>2. /\ squids > 0 /\ crashes < MaxCrashes /\ crashes' = crashes + 1
          /\ squids' = squids - 1 /\ worker' = FALSE /\ ready' = FALSE
          /\ pid' = IF pid = "live" THEN "stale" ELSE pid
          /\ UNCHANGED <<on, seen, main, dialog, queue, redirect, sizeVars, appDeaths, viewVars>>
        BY Zenon, <1>15 DEF SquidDies
    <2>3. QED
        BY <2>1, <2>2
<1>16. CASE AppDies
    <2>1. (lost => lost') /\ (queue > 0 /\ squids = 0 => lost')
        BY Zenon, <1>16 DEF AppDies
    <2>2. /\ main # "dead" /\ appDeaths < MaxAppDeaths /\ appDeaths' = appDeaths + 1
          /\ main' = "dead" /\ dialog' = "none" /\ queue' = 0 /\ worker' = FALSE
          /\ UNCHANGED <<on, squids, ready, pid, redirect, sizeVars, crashes, buttons>>
        BY Zenon, <1>16 DEF AppDies
    <2>3. QED
        BY <2>1, <2>2
<1>17. CASE AppStarts
    BY <1>17 DEF AppStarts
<1>18. CASE ActivityCreated
    BY <1>18 DEF ActivityCreated
<1>19. CASE Refresh
    BY <1>19 DEF Refresh
<1>20. CASE UNCHANGED vars
    BY <1>20 DEF vars
<1>21. QED
    BY <1>1, <1>2, <1>3, <1>4, <1>5, <1>6, <1>7, <1>8, <1>9,
       <1>10, <1>11, <1>12, <1>13, <1>14, <1>15, <1>16, <1>17, <1>18, <1>19, <1>20 DEF Next

\* The invariant holds in every reachable state of the control.
THEOREM ControlInvariant == Spec => []IInv
BY InitIInv, NextIInv, PTL DEF Spec

\* Sizes, queue and flags of the application keep their types; in particular a
\* resize, refused or not, never leaves the seek bar or squid.conf out of range.
THEOREM ControlTypes == Spec => []TypeOK
<1>1. IInv => TypeOK
    BY TypeParts DEF IInv
<1>2. QED
    BY <1>1, ControlInvariant, PTL

\* Two Squids never share the cache directory, however many starts the poll
\* has queued and whatever has died in between.
THEOREM NeverTwoSquids == Spec => []AtMostOneSquid
<1>1. IInv => AtMostOneSquid
    BY DEF IInv
<1>2. QED
    BY <1>1, ControlInvariant, PTL

\* Whenever the NAT rules are set, a Squid runs or a start waits, unless the last
\* start ended on its own.
THEOREM RulesAlwaysServed == Spec => []RulesHaveServer
<1>1. IInv => RulesHaveServer
    BY DEF IInv
<1>2. QED
    BY <1>1, ControlInvariant, PTL
=============================================================================
