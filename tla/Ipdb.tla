-------------------------------- MODULE Ipdb --------------------------------
(***************************************************************************)
(* The IP database and its updater (internal/storage/ipdb.go,              *)
(* internal/repository/ipdb.go): the files in the data and temp            *)
(* directories, the handle the lookups use, the daily task, the update     *)
(* message of the control plane, the clean-up goroutines, crashes and      *)
(* restarts.                                                               *)
(*                                                                         *)
(* A directory maps names to files.  The name of an installed database is  *)
(* a day and a stamp, 0 for none; names sort by day, then by stamp, as     *)
(* their strings do.  A file is whole when the last extraction that        *)
(* truncated it has finished and all of it was written when it was closed: *)
(* extractions of a day write the same bytes.                              *)
(* Opening a file that is not whole may succeed, since only its header is  *)
(* read.  On Windows a file in use is neither removed nor replaced; the    *)
(* platform is chosen in the initial state.                                *)
(*                                                                         *)
(* The zip of an attempt has a name of its own; everything that can happen *)
(* to it before the extraction makes the attempt fail.                     *)
(***************************************************************************)
EXTENDS Integers, FiniteSetsExt, Functions

CONSTANTS
    Days,             \* a bound on the calendar
    Window,           \* the days of the month the task tries: 3, 4 and 5
    MaxDownloadAttempts,
    MaxFaults,        \* a bound on crashes and failed closes, together
    File, Handle      \* numbers for them: bounds on how many there are at once

ASSUME IpdbConstants ==
    /\ Days \in Nat \ {0} /\ {MaxDownloadAttempts, MaxFaults} \subseteq Nat
    /\ Window \subseteq 1 .. Days
    /\ File \subseteq Nat \ {0} /\ Handle \subseteq Nat \ {0}

VARIABLES
    day, woken,       \* today, and the last day the task woke at three
    windows,          \* the platform locks files in use
    faults,           \* crashes and failed closes so far
    phase,            \* what InitIPDB has come to
    data, temp,       \* the directories: names to files
    whole, writer,    \* the files that are complete, and who truncated the
                      \* others last and is still writing
    handle,           \* the open handles, each with its file
    wrapper,          \* IPDB: the handle, 0 for none, and the file's name
    quota,            \* downloadCounter
    update,           \* where the update of the task and of the message are
    cleaner,          \* the clean-up goroutines: directory, names to remove
    lookup,           \* the handle a lookup took, 0 for none
    fetched,          \* history: downloads this process began today
    carried,          \* history: those counted yesterday and begun today
    newest,           \* history: the day of the newest database served
    spoilt            \* history: the files whose extraction met another one of
                      \* the day, or whose close failed

clock == <<day, woken, windows, faults>>
disk == <<data, temp, whole, writer>>
history == <<carried, newest, spoilt>>
vars == <<clock, phase, disk, handle, wrapper, quota, update, cleaner, lookup, fetched, history>>

Day == 1 .. Days
Task == "task"
Message == "message"
Updater == {Task, Message}
Cleaner == {"before", "after"}

NoName == <<0, 0>>
NotUpdating ==
    [pc |-> "idle", tries |-> 0, since |-> 0, date |-> 0, file |-> 0,
     name |-> NoName, old |-> NoName, handle |-> 0]
NotCleaning == [pc |-> "idle", doomed |-> {}]

Before(m, n) == m[1] < n[1] \/ (m[1] = n[1] /\ m[2] < n[2])

\* Bug: the first in order is taken for the latest.
LatestSortedDownBug(names) == CHOOSE n \in names : \A m \in names : m = n \/ Before(n, m)

Latest(names) == CHOOSE n \in names : \A m \in names : m = n \/ Before(m, n)

\* The files and handles something still refers to, and the next ones: none
\* when the numbers are used up.
Least(free) == {x \in free : \A y \in free : x <= y}
Held == Range(data) \union Range(temp) \union Range(handle) \union {update[u].file : u \in Updater}
NewFile == Least(File \ Held)
Taken == DOMAIN handle \union {lookup, wrapper.handle} \union {update[u].handle : u \in Updater}
NewHandle == Least(Handle \ Taken)

\* The platform refuses to remove or to replace the file.
InUse(f) == windows /\ (f \in Range(handle) \/ \E u \in Updater : update[u].pc = "copy" /\ update[u].file = f)

Drop(dir, n) == Restrict(dir, DOMAIN dir \ {n})
Bind(dir, n, f) == [m \in DOMAIN dir \union {n} |-> IF m = n THEN f ELSE dir[m]]

\* The directory after os.Remove, whose error nobody looks at.
Removed(dir, n) == IF n \in DOMAIN dir /\ ~InUse(dir[n]) THEN Drop(dir, n) ELSE dir

-----------------------------------------------------------------------------
Init ==
    /\ day = 1 /\ woken = 0 /\ windows \in BOOLEAN /\ faults = 0
    /\ phase = "down"
    /\ data = << >> /\ temp = << >> /\ whole = {} /\ writer = [f \in File |-> "nobody"]
    /\ handle = << >>
    /\ wrapper = [handle |-> 0, name |-> NoName]
    /\ quota = [day |-> 0, used |-> 0]
    /\ update = [u \in Updater |-> NotUpdating]
    /\ cleaner = [c \in Cleaner |-> NotCleaning]
    /\ lookup = 0
    /\ fetched = 0
    /\ carried = 0 /\ newest = 0 /\ spoilt = {}

At(u, pc) == update[u].pc = pc
Goto(u, pc) == update' = [update EXCEPT ![u].pc = pc]
Begin(u) == [update EXCEPT ![u] = [NotUpdating EXCEPT !.pc = "allow", !.since = day]]
Started(c) == [cleaner EXCEPT ![c].pc = "started"]
BinName(u) == <<update[u].date, 0>>

Used == IF quota.day = day THEN quota.used ELSE 0

Serve(h, n) ==
    /\ wrapper' = [handle |-> h, name |-> n]
    /\ newest' = Max({newest, n[1]})
    /\ UNCHANGED <<carried, spoilt>>

\* InitIPDB opens the latest file; it downloads one only when there is none.
InitIPDB ==
    /\ phase = "down"
    /\ DOMAIN data # {}
    /\ LET n == Latest(DOMAIN data) IN
        \/ /\ \E h \in NewHandle : handle' = Bind(handle, h, data[n]) /\ Serve(h, n)
           /\ phase' = "running"
           /\ cleaner' = Started("before")
        \/ /\ data[n] \notin whole
           /\ phase' = "failed"
           /\ UNCHANGED <<handle, wrapper, cleaner, history>>
    /\ UNCHANGED <<clock, disk, quota, update, lookup, fetched>>

FirstDownload ==
    /\ phase = "down"
    /\ DOMAIN data = {}
    /\ phase' = "starting"
    /\ update' = Begin(Task)
    /\ UNCHANGED <<clock, disk, handle, wrapper, quota, cleaner, lookup, fetched, history>>

\* shouldIPDBUpdate.  Its test of the month never holds: extractIPDBYearMonth
\* compares the characters of the date with the numbers 0 to 9, and fails.
ShouldUpdate == day \in Window /\ Used < MaxDownloadAttempts

\* The task wakes at three; an update that a message started the day before,
\* and the clean-up of the start, have ended by then.
TaskWakes ==
    /\ phase = "running" /\ woken < day
    /\ \A u \in Updater : ~At(u, "idle") => update[u].since = day
    /\ cleaner["before"] = NotCleaning
    /\ woken' = day
    /\ cleaner' = Started("before")
    /\ update' = IF ShouldUpdate THEN Begin(Task) ELSE update
    /\ UNCHANGED <<day, windows, faults, phase, disk, handle, wrapper, quota, lookup, fetched, history>>

\* The subscription handles one message at a time.
TriggerIPDBUpdate ==
    /\ phase \in {"running", "failed"}
    /\ At(Message, "idle")
    /\ update' = Begin(Message)
    /\ UNCHANGED <<clock, phase, disk, handle, wrapper, quota, cleaner, lookup, fetched, history>>

\* The update of u is over, without a new database.
Ends(u) ==
    /\ update' = [update EXCEPT ![u] = NotUpdating]
    /\ cleaner' = IF u = Task /\ phase = "running" THEN Started("after") ELSE cleaner
    /\ phase' = IF u = Task /\ phase = "starting" THEN "failed" ELSE phase

\* Bug: the loop has no bound of its own.
MayDownloadNoBoundBug(u) == Used < MaxDownloadAttempts

\* Bug: the check is one too generous.
MayDownloadOffByOneBug(u) == update[u].tries < MaxDownloadAttempts /\ Used <= MaxDownloadAttempts

\* One turn of the loop of downloadNewIPDBVersion, and ipdbAllowDownloadToday.
MayDownload(u) == update[u].tries < MaxDownloadAttempts /\ Used < MaxDownloadAttempts

\* The day is read before the lock, which matters at midnight only: and then no
\* second update is under way.
Allow(u) ==
    /\ At(u, "allow")
    /\ IF MayDownload(u)
       THEN /\ quota' = [day |-> day, used |-> Used + 1]
            /\ update' = [update EXCEPT ![u].pc = "begin", ![u].tries = @ + 1]
            /\ UNCHANGED <<cleaner, phase>>
       ELSE Ends(u) /\ UNCHANGED quota
    /\ UNCHANGED <<clock, disk, handle, wrapper, lookup, fetched, history>>

\* The file gets the date of the day the download begins, which need not be the
\* day it was counted on.
BeginDownload(u) ==
    /\ At(u, "begin")
    /\ fetched' = fetched + 1
    /\ update' = [update EXCEPT ![u].pc = "download", ![u].date = day]
    /\ UNCHANGED <<clock, phase, disk, handle, wrapper, quota, cleaner, lookup, history>>

\* No answer, a failed request, no disk space, a zip that does not validate or
\* that a clean-up removed: the attempt is lost.
DownloadFails(u) ==
    /\ At(u, "download")
    /\ Goto(u, "allow")
    /\ UNCHANGED <<clock, phase, disk, handle, wrapper, quota, cleaner, lookup, fetched, history>>

\* The provider answers with the page that says its limit is reached.
LimitPage(u) ==
    /\ At(u, "download")
    /\ quota' = [day |-> day, used |-> MaxDownloadAttempts]
    /\ Ends(u)
    /\ UNCHANGED <<clock, disk, handle, wrapper, lookup, fetched, history>>

\* The other update is at work on a file of the same name.
Meets(u) ==
    \E v \in Updater \ {u} : update[v].pc \in {"copy", "verify", "rename"} /\ BinName(v) = BinName(u)

\* os.Create of the day's file in temp, which truncates one that is there.
Extract(u) ==
    /\ At(u, "download")
    /\ LET n == BinName(u) IN
        /\ \E f \in IF n \in DOMAIN temp THEN {temp[n]} ELSE NewFile :
            /\ temp' = Bind(temp, n, f)
            /\ whole' = whole \ {f}
            /\ writer' = [writer EXCEPT ![f] = u]
            /\ update' = [update EXCEPT ![u].pc = "copy", ![u].file = f]
            /\ spoilt' = IF Meets(u) THEN spoilt \union {f} ELSE spoilt \ {f}
    /\ UNCHANGED <<clock, phase, data, handle, wrapper, quota, cleaner, lookup, fetched, carried, newest>>

Stopped(u) == IF writer[update[u].file] = u THEN [writer EXCEPT ![update[u].file] = "nobody"] ELSE writer

\* The error of closing the file is logged, and nothing else.
Copied(u) ==
    /\ At(u, "copy")
    /\ LET f == update[u].file IN
        \/ /\ whole' = IF writer[f] = u THEN whole \union {f} ELSE whole
           /\ UNCHANGED <<faults, spoilt>>
        \/ /\ faults < MaxFaults
           /\ faults' = faults + 1
           /\ spoilt' = spoilt \union {f}
           /\ UNCHANGED whole
    /\ writer' = Stopped(u)
    /\ update' = [update EXCEPT ![u].pc = "verify", ![u].file = 0]
    /\ UNCHANGED <<day, woken, windows, phase, data, temp, handle, wrapper, quota, cleaner, lookup, fetched,
                   carried, newest>>

\* Bug: the error of io.Copy is dropped.
CopyFailsDroppedBug(u) ==
    /\ At(u, "copy")
    /\ writer' = Stopped(u)
    /\ update' = [update EXCEPT ![u].pc = "verify", ![u].file = 0]
    /\ UNCHANGED <<clock, phase, data, temp, whole, handle, wrapper, quota, cleaner, lookup, fetched, history>>

\* The part that was written stays in temp.
CopyFails(u) ==
    /\ At(u, "copy")
    /\ writer' = Stopped(u)
    /\ update' = [update EXCEPT ![u].pc = "allow", ![u].file = 0]
    /\ UNCHANGED <<clock, phase, data, temp, whole, handle, wrapper, quota, cleaner, lookup, fetched, history>>

\* OpenDB reads the header of whatever has the name now.
Verify(u) ==
    /\ At(u, "verify")
    /\ LET n == BinName(u) IN
        \/ n \in DOMAIN temp /\ Goto(u, "rename") /\ UNCHANGED temp
        \/ /\ n \in DOMAIN temp => temp[n] \notin whole
           /\ Goto(u, "allow")
           /\ temp' = Removed(temp, n)
    /\ UNCHANGED <<clock, phase, data, whole, writer, handle, wrapper, quota, cleaner, lookup, fetched, history>>

\* A stamp later than every one that is still around.
NextStamp ==
    1 + Max({n[2] : n \in DOMAIN data \union {wrapper.name} \union {update[u].name : u \in Updater}
                            \union UNION {cleaner[c].doomed : c \in Cleaner}})

\* os.Rename replaces the file of the day, or, where that is in use, gives the
\* new one a stamp.
Rename(u) ==
    /\ At(u, "rename")
    /\ BinName(u) \in DOMAIN temp
    /\ LET n == BinName(u)
           target == IF n \in DOMAIN data /\ InUse(data[n]) THEN <<n[1], NextStamp>> ELSE n
       IN  /\ ~InUse(temp[n])
           /\ data' = Bind(data, target, temp[n])
           /\ temp' = Drop(temp, n)
           /\ update' = [update EXCEPT ![u].pc = "open", ![u].name = target]
    /\ UNCHANGED <<clock, phase, whole, writer, handle, wrapper, quota, cleaner, lookup, fetched, history>>

RenameFails(u) ==
    /\ At(u, "rename")
    /\ Goto(u, "allow")
    /\ UNCHANGED <<clock, phase, disk, handle, wrapper, quota, cleaner, lookup, fetched, history>>

\* UpdateIPDB, or InitIPDB, opens the installed file.
OpenNew(u) ==
    /\ At(u, "open")
    /\ update[u].name \in DOMAIN data
    /\ \E h \in NewHandle :
        /\ handle' = Bind(handle, h, data[update[u].name])
        /\ update' = [update EXCEPT ![u].pc = "swap", ![u].handle = h]
    /\ UNCHANGED <<clock, phase, disk, wrapper, quota, cleaner, lookup, fetched, history>>

OpenFails(u) ==
    /\ At(u, "open")
    /\ update[u].name \in DOMAIN data => data[update[u].name] \notin whole
    /\ Ends(u)
    /\ UNCHANGED <<clock, disk, handle, wrapper, quota, lookup, fetched, history>>

\* InitIPDB has its first database, and starts the task.
FirstServed ==
    /\ phase = "starting" /\ At(Task, "swap")
    /\ Serve(update[Task].handle, update[Task].name)
    /\ phase' = "running"
    /\ update' = [update EXCEPT ![Task] = NotUpdating]
    /\ cleaner' = Started("before")
    /\ UNCHANGED <<clock, disk, handle, quota, lookup, fetched>>

\* Bug: the old handle is read before the lock is taken.
SwapStaleBug(u) ==
    /\ phase = "running" /\ At(u, "swap")
    /\ Serve(update[u].handle, update[u].name)
    /\ \E old \in {wrapper.handle} \union {update[v].handle : v \in {v \in Updater : At(v, "close")}} :
        update' = [update EXCEPT ![u].pc = "close", ![u].handle = old, ![u].old = wrapper.name]
    /\ UNCHANGED <<clock, phase, disk, handle, quota, cleaner, lookup, fetched>>

\* Under the lock, UpdateIPDB exchanges the handle and the name.
Swap(u) ==
    /\ phase = "running" /\ At(u, "swap")
    /\ Serve(update[u].handle, update[u].name)
    /\ update' = [update EXCEPT ![u].pc = "close", ![u].handle = wrapper.handle, ![u].old = wrapper.name]
    /\ UNCHANGED <<clock, phase, disk, handle, quota, cleaner, lookup, fetched>>

CloseOld(u) ==
    /\ At(u, "close")
    /\ handle' = Drop(handle, update[u].handle)
    /\ update' = [update EXCEPT ![u].pc = "remove", ![u].handle = 0]
    /\ UNCHANGED <<clock, phase, disk, wrapper, quota, cleaner, lookup, fetched, history>>

\* Bug: the old file is removed even when it has the name of the new one.
RemoveOldAlwaysBug(u) ==
    /\ At(u, "remove")
    /\ data' = Removed(data, update[u].old)
    /\ Ends(u)
    /\ UNCHANGED <<clock, temp, whole, writer, handle, wrapper, quota, lookup, fetched, history>>

RemoveOld(u) ==
    /\ At(u, "remove")
    /\ data' = IF update[u].old = update[u].name THEN data ELSE Removed(data, update[u].old)
    /\ Ends(u)
    /\ UNCHANGED <<clock, temp, whole, writer, handle, wrapper, quota, lookup, fetched, history>>

UpdateIPDB(u) ==
    \/ Allow(u) \/ BeginDownload(u) \/ DownloadFails(u) \/ LimitPage(u) \/ Extract(u)
    \/ Copied(u) \/ CopyFails(u) \/ Verify(u) \/ Rename(u) \/ RenameFails(u)
    \/ OpenNew(u) \/ OpenFails(u) \/ Swap(u) \/ CloseOld(u) \/ RemoveOld(u)

\* What is left of a clean-up, which ends with the data directory.
Doomed(c, dir, names) ==
    cleaner' = [cleaner EXCEPT ![c] =
        IF dir = "data" /\ names = {} THEN NotCleaning ELSE [pc |-> dir, doomed |-> names]]

\* cleanupIPDBTempFiles lists the temp directory and removes what it listed,
\* in order; then it lists the data directory and removes all but the latest.
ListTemp(c) ==
    /\ cleaner[c].pc = "started"
    /\ Doomed(c, "temp", DOMAIN temp)
    /\ UNCHANGED <<clock, phase, disk, handle, wrapper, quota, update, lookup, fetched, history>>

ListData(c) ==
    /\ cleaner[c] = [pc |-> "temp", doomed |-> {}]
    /\ Doomed(c, "data", IF DOMAIN data = {} THEN {} ELSE DOMAIN data \ {Latest(DOMAIN data)})
    /\ UNCHANGED <<clock, phase, disk, handle, wrapper, quota, update, lookup, fetched, history>>

RemoveListed(c) ==
    /\ cleaner[c].doomed # {}
    /\ LET n == CHOOSE n \in cleaner[c].doomed : \A m \in cleaner[c].doomed : m = n \/ Before(n, m)
       IN  /\ Doomed(c, cleaner[c].pc, cleaner[c].doomed \ {n})
           /\ IF cleaner[c].pc = "temp"
              THEN temp' = Removed(temp, n) /\ UNCHANGED data
              ELSE data' = Removed(data, n) /\ UNCHANGED temp
    /\ UNCHANGED <<clock, phase, whole, writer, handle, wrapper, quota, update, lookup, fetched, history>>

Cleanup(c) == ListTemp(c) \/ ListData(c) \/ RemoveListed(c)

\* A lookup, or the health probe, takes the handle under the lock and reads
\* from it after.
Get ==
    /\ phase = "running" /\ lookup = 0
    /\ lookup' = wrapper.handle
    /\ UNCHANGED <<clock, phase, disk, handle, wrapper, quota, update, cleaner, fetched, history>>

GetAll ==
    /\ lookup # 0
    /\ lookup' = 0
    /\ UNCHANGED <<clock, phase, disk, handle, wrapper, quota, update, cleaner, fetched, history>>

Lookup == Get \/ GetAll

\* The process ends: killed, or by the nil wrapper a message updates when
\* InitIPDB has failed.
Gone ==
    /\ phase' = "down"
    /\ handle' = << >>
    /\ wrapper' = [handle |-> 0, name |-> NoName]
    /\ quota' = [day |-> 0, used |-> 0]
    /\ fetched' = 0
    /\ update' = [u \in Updater |-> NotUpdating]
    /\ cleaner' = [c \in Cleaner |-> NotCleaning]
    /\ lookup' = 0
    /\ writer' = [f \in File |-> "nobody"]
    /\ carried' = 0
    /\ UNCHANGED <<data, temp, whole, newest, spoilt>>

Crash ==
    /\ phase # "down" /\ faults < MaxFaults
    /\ faults' = faults + 1
    /\ Gone
    /\ UNCHANGED <<day, woken, windows>>

NilWrapper ==
    /\ phase = "failed" /\ At(Message, "swap")
    /\ Gone
    /\ UNCHANGED clock

\* What began before midnight ends long before three.
Midnight ==
    /\ day < Days
    /\ \A u \in Updater : update[u].since \in {0, day}
    /\ phase = "running" => At(Task, "idle")
    /\ \A c \in Cleaner : cleaner[c] = NotCleaning
    /\ day' = day + 1
    /\ fetched' = 0
    /\ carried' = Cardinality({u \in Updater : At(u, "begin")})
    /\ UNCHANGED <<woken, windows, faults, phase, disk, handle, wrapper, quota, update, cleaner, lookup,
                   newest, spoilt>>

Next ==
    \/ InitIPDB \/ FirstDownload \/ FirstServed
    \/ TaskWakes \/ TriggerIPDBUpdate
    \/ \E u \in Updater : UpdateIPDB(u)
    \/ \E c \in Cleaner : Cleanup(c)
    \/ Lookup \/ Crash \/ NilWrapper \/ Midnight

Spec == Init /\ [][Next]_vars

-----------------------------------------------------------------------------
Name == Day \X Nat
Directory(dir) == DOMAIN dir \subseteq Name /\ Range(dir) \subseteq File

TypeOK ==
    /\ day \in Day /\ woken \in 0 .. Days /\ windows \in BOOLEAN /\ faults \in 0 .. MaxFaults
    /\ phase \in {"down", "starting", "running", "failed"}
    /\ Directory(data) /\ Directory(temp)
    /\ whole \subseteq File /\ writer \in [File -> Updater \union {"nobody"}]
    /\ DOMAIN handle \subseteq Handle /\ Range(handle) \subseteq File
    /\ \A u \in Updater :
        /\ update[u].pc \in {"idle", "allow", "begin", "download", "copy", "verify", "rename",
                             "open", "swap", "close", "remove"}
        /\ update[u].tries \in 0 .. MaxDownloadAttempts
    /\ \A c \in Cleaner : cleaner[c].doomed \subseteq Name

\* "Whether today's downloads are beyond the maximum": this process begins no
\* more downloads on a calendar day than are allowed, whoever asks for the
\* updates; but one that was counted just before midnight comes on top.  (The
\* provider's limit is one of 24 hours, which the code does not keep.)
DownloadsWithinQuota == fetched <= MaxDownloadAttempts + carried

Owned(u) == update[u].handle

\* Two updates may swap at once: the handle that is served is open, and every
\* other open handle belongs to the one update that will close it.  A lookup
\* fails on a closed handle only after a swap has replaced it.
HandlesAreOwned ==
    phase = "running" =>
        /\ DOMAIN handle = ({wrapper.handle} \union {Owned(u) : u \in Updater}) \ {0}
        /\ wrapper.handle \notin {0, Owned(Task), Owned(Message)}
        /\ Owned(Task) = Owned(Message) => Owned(Task) = 0

\* An extraction that failed, or that a crash cut short, is never installed or
\* served, though its file stays in temp under the name the next one uses.  The
\* files that may be incomplete are those whose extraction met another one of
\* the same day and those whose close failed: nothing verifies more than a header.
InstalledIsWhole == Range(data) \union Range(handle) \subseteq whole \union spoilt

\* The data directory always holds a file of the day of the one that is
\* served or a newer one, for the next start, whatever updates and clean-ups
\* are under way.
NextStartHasADatabase ==
    phase = "running" => \E n \in DOMAIN data : n[1] >= wrapper.name[1]

\* No update and no restart goes back to a database of an earlier day.
NeverOlder == phase = "running" => wrapper.name[1] = newest
=============================================================================
