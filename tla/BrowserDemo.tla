---------------------------- MODULE BrowserDemo ----------------------------
(***************************************************************************)
(* One sandbox of the browser demo, open in several tabs: the clock that   *)
(* moves it from Active to Idle to Suspend and accounts its seconds        *)
(* (lifecycle.js), and the localStorage key the tabs share (tab-sync.js),  *)
(* as src.js drives them.  Tabs tick late, are hidden, reloaded and        *)
(* restored, and may both write between one another's check and write.     *)
(***************************************************************************)
EXTENDS Integers, FiniteSets

CONSTANTS
    Tab,
    IdleMs, SuspendMs,  \* policy.idleAfter, policy.suspendAfter
    LastNow,            \* bound: at
    MaxRevision         \* bound: stored revisions; and each tab's user acts once,
                        \* before the last time

ASSUME DemoAssumption ==
    IdleMs \in Nat \ {0} /\ SuspendMs \in Nat \ {0} /\ LastNow \in Nat /\ MaxRevision \in Nat

VARIABLES
    pageTime,
    phase,    \* of a tab: "closed", "cached", "open", "saving" or "writing"
    memory,   \* a tab's copy of the sandbox
    rev,      \* the revision a tab believes is stored
    stored,   \* localStorage: [revision, box]
    events,   \* of a tab: stored states of which storage events are on their way to
              \* it, the last two, a bound on how late an event is
    edited,   \* tabs whose user has acted: the edit carries the tab's name
    \* History, which no action looks at.
    written,  \* edits that were ever stored
    checked,  \* the revision that was stored when a tab checked before its write
    raced,    \* a tab wrote between another's check and write, as tab-sync.js says
    shown,    \* per time: for how many of the seconds before it some page was open
    overlap   \* two pages were open at once, or a second passed within a save
demoVars == <<pageTime, phase, memory, rev, stored, events, edited, written, checked,
              raced, shown, overlap>>

Status == {"Active", "Idle", "Suspend"}
Fresh == [status |-> "Active", since |-> 0, activity |-> 0, accounted |-> 0,
          seconds |-> [s \in Status |-> 0], edits |-> {}, skipped |-> 0]
DemoInit ==
    /\ pageTime = 0 /\ phase = [t \in Tab |-> "closed"] /\ memory = [t \in Tab |-> Fresh]
    /\ rev = [t \in Tab |-> 0] /\ stored = [revision |-> 0, box |-> Fresh]
    /\ events = [t \in Tab |-> {}] /\ edited = {} /\ written = {}
    /\ checked = [t \in Tab |-> 0] /\ raced = FALSE
    /\ shown = [time \in 0..LastNow |-> 0] /\ overlap = FALSE

OpenPhases == {"open", "saving", "writing"}
PageOpen(t) == phase[t] \in OpenPhases
PageBeside(t) == \E other \in Tab \ {t} : PageOpen(other)

Later(x, y) == IF x > y THEN x ELSE y
Earlier(x, y) == IF x < y THEN x ELSE y

-----------------------------------------------------------------------------
(* lifecycle.js: deadline; one turn of advance's loop, which a late tick   *)
(* takes once per transition; setState and recordActivity.                 *)
NoDeadline == LastNow + IdleMs + SuspendMs + 1
Deadline(b) ==
    CASE b.status = "Active" -> b.activity + IdleMs
      [] b.status = "Idle" -> Later(b.since, b.activity) + SuspendMs
      [] OTHER -> NoDeadline
Turn(b, end) ==
    LET boundary == Later(b.accounted, Deadline(b))
        until == Earlier(end, boundary)
        counted == [b EXCEPT !.seconds[b.status] = @ + until - b.accounted, !.accounted = until]
    IN  IF boundary > end THEN counted
        ELSE [counted EXCEPT !.status = IF @ = "Active" THEN "Idle" ELSE "Suspend",
                             !.since = until]
OneTurn(b, at) == LET end == Later(b.accounted, at) IN [Turn(b, end) EXCEPT !.accounted = end]
Settle(b, at) ==
    LET end == Later(b.accounted, at)
    IN  Turn(Turn(Turn(b, end), end), end)
SetState(b, state, at) ==
    LET settled == Settle(b, at)
    IN  [settled EXCEPT !.status = state, !.since = settled.accounted,
                        !.activity = settled.accounted]
RecordActivity(b, at) ==
    LET settled == Settle(b, at) IN [settled EXCEPT !.activity = settled.accounted]

(* restoreClock: the time since the last accounting is not counted, in the *)
(* belief that the page was closed through it; `skipped` records for how   *)
(* many of those seconds a page, another one, was open.                    *)
KeepClock(b, at) == b
RestoreClock(b, at) ==
    LET shift == at - Earlier(b.accounted, at)
    IN  [b EXCEPT !.activity = Earlier(@, b.accounted) + shift,
                  !.since = Earlier(@, b.accounted) + shift,
                  !.accounted = @ + shift,
                  !.skipped = @ + shown[at] - shown[b.accounted]]

-----------------------------------------------------------------------------
(* tab-sync.js: adopt a newer stored state. *)
AlwaysKeeps(t, state) == FALSE
Newer(t, state) == state.revision > rev[t]
Take(t, state) ==
    /\ memory' = [memory EXCEPT ![t] = state.box] /\ rev' = [rev EXCEPT ![t] = state.revision]

(* The page loads what is stored, or comes back from the page cache and    *)
(* refreshes; both restore the clock.  Events only reach an open page.     *)
Load(t) ==
    /\ phase[t] = "closed" /\ phase' = [phase EXCEPT ![t] = "open"]
    /\ memory' = [memory EXCEPT ![t] = RestoreClock(stored.box, pageTime)]
    /\ rev' = [rev EXCEPT ![t] = stored.revision]
    /\ overlap' = (overlap \/ PageBeside(t))
    /\ UNCHANGED <<pageTime, stored, events, edited, written, checked, raced, shown>>
PageShow(t) ==
    /\ phase[t] = "cached" /\ phase' = [phase EXCEPT ![t] = "open"]
    /\ LET box == IF Newer(t, stored) THEN stored.box ELSE memory[t]
       IN  memory' = [memory EXCEPT ![t] = RestoreClock(box, pageTime)]
    /\ rev' = [rev EXCEPT ![t] = IF Newer(t, stored) THEN stored.revision ELSE @]
    /\ overlap' = (overlap \/ PageBeside(t))
    /\ UNCHANGED <<pageTime, stored, events, edited, written, checked, raced, shown>>

(* A user action refreshes, changes the sandbox and saves.                 *)
Edit(t) ==
    /\ phase[t] = "open" /\ t \notin edited /\ rev[t] < MaxRevision /\ pageTime < LastNow
    /\ phase' = [phase EXCEPT ![t] = "saving"] /\ edited' = edited \cup {t}
    /\ LET box == IF Newer(t, stored) THEN stored.box ELSE memory[t]
       IN  \E new \in {RecordActivity(box, pageTime)} \cup {SetState(box, s, pageTime) : s \in Status} :
              memory' = [memory EXCEPT ![t] = [new EXCEPT !.edits = @ \cup {t}]]
    /\ rev' = [rev EXCEPT ![t] = IF Newer(t, stored) THEN stored.revision ELSE @]
    /\ UNCHANGED <<pageTime, stored, events, written, checked, raced, shown, overlap>>

(* save, after an action, every five seconds or on pagehide: tick, then    *)
(* write, which refreshes and gives up when it finds a newer state.  Other *)
(* tabs run between that check and the write.  After either the page may   *)
(* stay, go to the page cache or be gone.                                  *)
Leaves(t, box, revision) ==
    \/ \E next \in {"open", "cached"} :
          /\ phase' = [phase EXCEPT ![t] = next]
          /\ memory' = [memory EXCEPT ![t] = box] /\ rev' = [rev EXCEPT ![t] = revision]
    \/ /\ phase' = [phase EXCEPT ![t] = "closed"]
       /\ memory' = [memory EXCEPT ![t] = Fresh] /\ rev' = [rev EXCEPT ![t] = 0]
SaveChecks(t) ==
    /\ phase[t] \in {"open", "saving"} /\ rev[t] < MaxRevision
    /\ IF Newer(t, stored)
       THEN Leaves(t, stored.box, stored.revision) /\ UNCHANGED checked
       ELSE /\ memory' = [memory EXCEPT ![t] = Settle(@, pageTime)]
            /\ phase' = [phase EXCEPT ![t] = "writing"] /\ UNCHANGED rev
            /\ checked' = [checked EXCEPT ![t] = stored.revision]
    /\ events' = [events EXCEPT ![t] = IF phase'[t] \in OpenPhases THEN @ ELSE {}]
    /\ UNCHANGED <<pageTime, stored, edited, written, raced, shown, overlap>>
SaveWrites(t) ==
    /\ phase[t] = "writing"
    /\ stored' = [revision |-> rev[t] + 1, box |-> memory[t]]
    /\ Leaves(t, memory[t], rev[t] + 1)
    /\ events' = [u \in Tab |-> CASE u # t /\ PageOpen(u) -> {e \in events[u] : e = stored} \cup {stored'}
                                  [] u = t /\ phase'[t] = "open" -> events[t]
                                  [] OTHER -> {}]
    /\ written' = written \cup memory[t].edits
    /\ raced' = (raced \/ stored.revision # checked[t])
    /\ checked' = [checked EXCEPT ![t] = 0]
    /\ UNCHANGED <<pageTime, edited, shown, overlap>>

(* onStorage: an event may be older than what the tab has by now.          *)
OnStorage(t) ==
    /\ phase[t] = "open"
    /\ \E state \in events[t] : Newer(t, state) /\ Take(t, state)
    /\ UNCHANGED <<pageTime, phase, stored, events, edited, written, checked, raced, shown, overlap>>
DemoTick ==
    /\ pageTime < LastNow /\ pageTime' = pageTime + 1
    /\ shown' = [shown EXCEPT ![pageTime + 1] =
                    shown[pageTime] + IF \E t \in Tab : PageOpen(t) THEN 1 ELSE 0]
    /\ overlap' = (overlap \/ \E t \in Tab : phase[t] = "writing")
    /\ UNCHANGED <<phase, memory, rev, stored, events, edited, written, checked, raced>>

DemoNext ==
    \/ DemoTick
    \/ \E t \in Tab : \/ Load(t) \/ PageShow(t) \/ Edit(t) \/ SaveChecks(t)
                      \/ SaveWrites(t) \/ OnStorage(t)
DemoSpec == DemoInit /\ [][DemoNext]_demoVars

-----------------------------------------------------------------------------
Copies == {memory[t] : t \in Tab} \cup {stored.box}
Total(b) == b.seconds["Active"] + b.seconds["Idle"] + b.seconds["Suspend"]

SecondsOnce ==
    \A b \in Copies :
        /\ b.accounted <= pageTime /\ b.skipped >= 0
        /\ Total(b) + b.skipped = shown[b.accounted]
        /\ overlap \/ b.skipped = 0
DelayedTickSame ==
    \A b \in Copies : \A at \in b.accounted..pageTime :
        Settle(Settle(b, at), pageTime) = Settle(b, pageTime)
StoredEditsStay == raced \/ written \subseteq stored.box.edits

(* Up to its last accounting, every copy has counted each second in which  *)
(* a page was open once, and no other, but for those a page skipped when   *)
(* it was loaded or shown beside another that had not saved them yet; with *)
(* one page open at a time, none is skipped.  A tick that comes late ends  *)
(* in the same states, with the same seconds, as one that came every       *)
(* second.  And an edit that reached the storage stays there, whatever the *)
(* other tabs write, but for the race tab-sync.js:25 admits: a tab that    *)
(* writes between another's check and its write is overwritten (advance,   *)
(* restoreClock, refresh, write, onStorage).                               *)
DemoSound ==
    /\ phase \in [Tab -> {"closed", "cached", "open", "saving", "writing"}]
    /\ SecondsOnce /\ DelayedTickSame /\ StoredEditsStay
=============================================================================
