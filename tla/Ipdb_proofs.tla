----------------------------- MODULE Ipdb_proofs -----------------------------
(***************************************************************************)
(* Proofs about Ipdb: every safety property of the IP database and its     *)
(* updater, for every calendar, number of downloads a day, number of       *)
(* faults, and number of files and handles, on both platforms.             *)
(***************************************************************************)
EXTENDS Ipdb, FiniteSetTheorems, TLAPS

-----------------------------------------------------------------------------
(* Finite sets have a last element in any total order; so the latest         *)
(* database, the first name of a listing and the largest stamp exist.        *)

LEMMA LastExists ==
    ASSUME NEW S, IsFiniteSet(S), S # {}, NEW R,
           \A x, y \in S : x = y \/ <<x, y>> \in R \/ <<y, x>> \in R,
           \A x, y, z \in S : <<x, y>> \in R /\ <<y, z>> \in R => <<x, z>> \in R
    PROVE  \E x \in S : \A y \in S : x = y \/ <<y, x>> \in R
<1> DEFINE HasLast(A) == \E x \in A : \A y \in A : x = y \/ <<y, x>> \in R
           Without == {A \in SUBSET S : A # {} /\ ~HasLast(A)}
<1>1. SUFFICES ASSUME Without # {} PROVE FALSE
  <2>1. S \in Without \/ HasLast(S)
    OBVIOUS
  <2> QED
    BY <1>1, <2>1
<1>2. IsWellFoundedOn(StrictSubsetOrdering(S), FiniteSubsetsOf(S))
  BY FS_StrictSubsetOrderingWellFounded
<1>3. Without \subseteq FiniteSubsetsOf(S)
  BY FS_FiniteSubsetsOfFinite
<1> HIDE DEF Without
<1>4. PICK A \in Without : \A B \in Without : ~(<<B, A>> \in StrictSubsetOrdering(S))
  BY <1>1, <1>2, <1>3, WFMin
<1> USE DEF Without
<1>5. PICK a \in A : TRUE
  BY <1>4
<1> DEFINE B == A \ {a}
<1>6. CASE B = {}
  <2>1. A = {a}
    BY <1>5, <1>6
  <2> QED
    BY <1>4, <2>1
<1>7. CASE B # {}
  <2>1. B \in SUBSET S /\ B \subseteq A /\ B # A
    BY <1>4, <1>5
  <2>2. <<B, A>> \in StrictSubsetOrdering(S)
    BY <1>4, <2>1 DEF StrictSubsetOrdering
  <2>3. HasLast(B)
    BY <1>4, <1>7, <2>1, <2>2
  <2>4. PICK b \in B : \A y \in B : b = y \/ <<y, b>> \in R
    BY <2>3
  <2>5. a \in S /\ b \in S /\ a # b /\ \A y \in A : y \in S /\ (y \in B \/ y = a)
    BY <1>4, <1>5, <2>4
  <2>6. CASE <<a, b>> \in R
    <3>1. \A y \in A : b = y \/ <<y, b>> \in R
      BY <2>4, <2>5, <2>6
    <3> QED
      BY <1>4, <2>4, <3>1
  <2>7. CASE <<b, a>> \in R
    <3>1. \A y \in A : a = y \/ <<y, a>> \in R
      BY <2>4, <2>5, <2>7
    <3> QED
      BY <1>4, <1>5, <3>1
  <2> QED
    BY <2>5, <2>6, <2>7
<1> QED
  BY <1>6, <1>7

LEMMA MaxExists ==
    ASSUME NEW S \in SUBSET Nat, IsFiniteSet(S), S # {}
    PROVE  Max(S) \in S /\ \A y \in S : y <= Max(S)
<1> DEFINE R == {p \in S \X S : p[1] < p[2]}
<1>1. \A x, y \in S : <<x, y>> \in R <=> x < y
  OBVIOUS
<1> HIDE DEF R
<1>2. ASSUME NEW x \in S, NEW y \in S PROVE x = y \/ <<x, y>> \in R \/ <<y, x>> \in R
  <2>1. x \in Int /\ y \in Int
    OBVIOUS
  <2>2. x = y \/ x < y \/ y < x
    BY <2>1
  <2> QED
    BY <1>1, <2>2
<1>3. ASSUME NEW x \in S, NEW y \in S, NEW z \in S, <<x, y>> \in R, <<y, z>> \in R PROVE <<x, z>> \in R
  <2>1. x \in Int /\ y \in Int /\ z \in Int /\ x < y /\ y < z
    BY <1>1, <1>3
  <2>2. x < z
    BY <2>1
  <2> QED
    BY <1>1, <2>2
<1>4. \E x \in S : \A y \in S : x = y \/ <<y, x>> \in R
  <2>1. \A x, y \in S : x = y \/ <<x, y>> \in R \/ <<y, x>> \in R
    BY <1>2
  <2>2. \A x, y, z \in S : <<x, y>> \in R /\ <<y, z>> \in R => <<x, z>> \in R
    BY <1>3
  <2> HIDE <1>1, <1>2, <1>3
  <2> QED
    BY <2>1, <2>2, LastExists
<1>5. PICK x \in S : \A y \in S : x = y \/ <<y, x>> \in R
  BY <1>4
<1>6. ASSUME NEW y \in S PROVE x >= y
  <2>1. x \in Int /\ y \in Int
    OBVIOUS
  <2>2. x = y \/ <<y, x>> \in R
    BY <1>5
  <2>3. x = y \/ y < x
    BY <1>1, <2>2
  <2> QED
    BY <2>1, <2>3
<1>7. Max(S) \in S /\ \A y \in S : Max(S) >= y
  BY <1>6 DEF Max
<1> DEFINE m == Max(S)
<1>8. m \in S /\ \A y \in S : m >= y
  BY <1>7
<1> HIDE DEF m
<1>9. \A y \in S : y <= m
  <2>1. m \in S
    BY <1>8
  <2>2. ASSUME NEW y \in S PROVE y <= m
    <3>1. m \in Int /\ y \in Int
      BY <2>1
    <3>2. m >= y
      BY <1>8
    <3> QED
      BY <3>1, <3>2
  <2> QED
    BY <2>2
<1> QED
  BY <1>8, <1>9 DEF m

LEMMA BeforeIsAnOrder ==
    ASSUME NEW x \in Nat \X Nat, NEW y \in Nat \X Nat, NEW z \in Nat \X Nat
    PROVE  /\ x = y \/ Before(x, y) \/ Before(y, x)
           /\ Before(x, y) /\ Before(y, z) => Before(x, z)
<1>1. {x[1], x[2], y[1], y[2], z[1], z[2]} \subseteq Int
  OBVIOUS
<1>2. x[1] = y[1] /\ x[2] = y[2] => x = y
  OBVIOUS
<1>3. x = y \/ Before(x, y) \/ Before(y, x)
  BY <1>1, <1>2 DEF Before
<1>4. Before(x, y) /\ Before(y, z) => Before(x, z)
  BY <1>1 DEF Before
<1> QED
  BY <1>3, <1>4

LEMMA LatestExists ==
    ASSUME NEW names \in SUBSET (Nat \X Nat), IsFiniteSet(names), names # {}
    PROVE  Latest(names) \in names /\ \A m \in names : m = Latest(names) \/ Before(m, Latest(names))
<1> DEFINE R == {p \in names \X names : Before(p[1], p[2])}
<1>1. \A x, y \in names : <<x, y>> \in R <=> Before(x, y)
  OBVIOUS
<1>2. \A x, y \in names : x = y \/ Before(x, y) \/ Before(y, x)
  BY BeforeIsAnOrder
<1>3. \A x, y, z \in names : Before(x, y) /\ Before(y, z) => Before(x, z)
  BY BeforeIsAnOrder
<1> HIDE DEF R
<1>4. \E x \in names : \A y \in names : x = y \/ <<y, x>> \in R
  BY <1>1, <1>2, <1>3, LastExists, SMTT(20)
<1>5. \E x \in names : \A y \in names : y = x \/ Before(y, x)
  BY <1>1, <1>4
<1> QED
  BY <1>5 DEF Latest

LEMMA FirstExists ==
    ASSUME NEW names \in SUBSET (Nat \X Nat), IsFiniteSet(names), names # {}
    PROVE  (CHOOSE n \in names : \A m \in names : m = n \/ Before(n, m)) \in names
<1> DEFINE R == {p \in names \X names : Before(p[2], p[1])}
<1>1. \A x, y \in names : <<x, y>> \in R <=> Before(y, x)
  OBVIOUS
<1>2. \A x, y \in names : x = y \/ Before(x, y) \/ Before(y, x)
  BY BeforeIsAnOrder
<1>3. \A x, y, z \in names : Before(x, y) /\ Before(y, z) => Before(x, z)
  BY BeforeIsAnOrder
<1> HIDE DEF R
<1>4. \E x \in names : \A y \in names : x = y \/ <<y, x>> \in R
  BY <1>1, <1>2, <1>3, LastExists, SMTT(20)
<1>5. \E x \in names : \A y \in names : y = x \/ Before(x, y)
  BY <1>1, <1>4
<1> QED
  BY <1>5

-----------------------------------------------------------------------------
(* The inductive invariant, in parts.  Each part is preserved by every step  *)
(* in the states where it and the parts its lemma assumes hold.  Calendar    *)
(* and Kept need each other: a start looks for the latest file, which has to *)
(* be there and to be the newest that was served.                            *)

AnyName == (0 .. Days) \X Nat
Phase == {"down", "starting", "running", "failed"}
Pc == {"idle", "allow", "begin", "download", "copy", "verify", "rename", "open", "swap", "close", "remove"}

UpdateType ==
    [pc : Pc, tries : 0 .. MaxDownloadAttempts, since : 0 .. Days, date : 0 .. Days,
     file : File \union {0}, name : AnyName, old : AnyName, handle : Handle \union {0}]
CleanerType == [pc : {"idle", "started", "temp", "data"}, doomed : SUBSET Name]

IsDirectory(dir) == dir \in [DOMAIN dir -> File] /\ DOMAIN dir \subseteq Name /\ IsFiniteSet(DOMAIN dir)

ClockTypes ==
    /\ day \in Day /\ woken \in 0 .. Days /\ windows \in BOOLEAN /\ faults \in 0 .. MaxFaults
    /\ phase \in Phase
    /\ quota \in [day : 0 .. Days, used : Nat] /\ fetched \in Nat
    /\ newest \in 0 .. Days /\ carried \in Nat

DiskTypes ==
    /\ IsDirectory(data) /\ IsDirectory(temp)
    /\ whole \subseteq File /\ writer \in [File -> Updater \union {"nobody"}]

HandleTypes ==
    /\ handle \in [DOMAIN handle -> File] /\ DOMAIN handle \subseteq Handle
    /\ wrapper \in [handle : Handle \union {0}, name : AnyName]
    /\ lookup \in Handle \union {0}

UpdateTypes ==
    /\ update \in [Updater -> UpdateType]
    /\ \A u \in Updater :
        /\ update[u].pc \notin {"idle", "allow", "begin"} => update[u].date \in Day
        /\ update[u].pc = "copy" => update[u].file \in File
        /\ update[u].pc \in {"open", "swap", "close", "remove"} => update[u].name \in Name

CleanerTypes ==
    /\ cleaner \in [Cleaner -> CleanerType]
    /\ \A c \in Cleaner : IsFiniteSet(cleaner[c].doomed)

Types == ClockTypes /\ DiskTypes /\ HandleTypes /\ UpdateTypes /\ CleanerTypes

\* The counter knows of what this process has begun to download today and of what
\* it is about to begin, but for what was counted before midnight.
Waits(u) == IF update[u].pc = "begin" THEN 1 ELSE 0
Waiting == Waits(Task) + Waits(Message)

Counted ==
    /\ quota.used <= MaxDownloadAttempts
    /\ fetched + Waiting <= Used + carried

\* What an updater holds, by where it is, and what there is in each phase.  The
\* task runs on a day it woke.
Stages ==
    /\ \A u \in Updater :
        /\ update[u].pc = "idle" => update[u] = NotUpdating
        /\ update[u].handle # 0 => update[u].pc \in {"swap", "close"}
        /\ update[u].pc \in {"swap", "close"} => update[u].handle # 0
        /\ update[u].file # 0 => update[u].pc = "copy"
        /\ update[u].pc \in {"close", "remove"} => phase = "running"
    /\ phase \in {"down", "failed"} => update[Task].pc = "idle"
    /\ phase \in {"down", "starting"} => update[Message].pc = "idle"
    /\ phase # "running" => \A c \in Cleaner : cleaner[c] = NotCleaning
    /\ phase # "running" <=> wrapper.handle = 0
    /\ phase = "running" /\ update[Task].pc # "idle" => woken = day

\* The handles, in every phase.
Owners ==
    /\ DOMAIN handle = ({wrapper.handle} \union {Owned(u) : u \in Updater}) \ {0}
    /\ wrapper.handle # 0 => wrapper.handle \notin {Owned(Task), Owned(Message)}
    /\ Owned(Task) = Owned(Message) => Owned(Task) = 0

\* The files that may be installed: complete, or known to be spoilt.
Sound == whole \union spoilt

\* Every updater verifies and installs what it has extracted, unless the file of
\* that name is one whose extraction has met its own.
Extracted(u) ==
    LET n == BinName(u)
        f == update[u].file
    IN  /\ update[u].pc = "copy" =>
            /\ writer[f] = u \/ f \in spoilt
            /\ \A m \in DOMAIN temp : temp[m] = f => m = n
            /\ n \in DOMAIN temp => temp[n] = f \/ temp[n] \in Sound
        /\ update[u].pc \in {"verify", "rename"} /\ n \in DOMAIN temp => temp[n] \in Sound

Served == Range(data) \union Range(handle)

\* No file is in both directories.
Files ==
    /\ \A m, n \in DOMAIN temp : temp[m] = temp[n] => m = n
    /\ \A n \in DOMAIN temp : temp[n] \notin Served
    /\ Served \subseteq Sound
    /\ \A u \in Updater : Extracted(u)

\* The clean-up after an update has ended before the next update of the task.
Listings ==
    /\ phase = "running" /\ (update[Task].pc # "idle" \/ woken # day) => cleaner["after"] = NotCleaning
    /\ \A c \in Cleaner : cleaner[c].doomed # {} => cleaner[c].pc \in {"temp", "data"}

\* The days of updates and databases.  No two updates that run at once are of
\* different days.
Calendar ==
    /\ newest <= day
    /\ \A n \in DOMAIN data : n[1] <= day
    /\ \A u \in Updater :
        /\ update[u].since <= day
        /\ update[u].date # 0 => update[u].since <= update[u].date /\ update[u].date <= day
        /\ update[u].pc \in {"open", "swap", "close", "remove"} => update[u].name[1] = update[u].date
        /\ update[u].pc \in {"close", "remove"} => update[u].old[1] <= update[u].name[1]
        /\ update[u].pc \in {"download", "copy", "verify", "rename", "open", "swap"} => newest <= update[u].date
    /\ phase = "running" /\ update[Task].pc # "idle" =>
        /\ update[Task].since = day
        /\ update[Message].pc # "idle" => update[Message].since = day
    /\ phase = "running" => wrapper.name[1] = newest /\ newest \in Day
    /\ phase = "starting" => newest = 0

\* Where files in use can be removed, the names have no stamps, and a database
\* of the latest day is never listed, nor the old one of an update.
Top(m) ==
    /\ newest <= m[1]
    /\ \A c \in Cleaner : cleaner[c].pc = "data" => \A n \in cleaner[c].doomed : n[1] < m[1]
    /\ \A u \in Updater :
        update[u].pc \in {"open", "swap", "close", "remove"} => update[u].name[1] <= m[1]

Nothing ==
    /\ DOMAIN data = {} /\ newest = 0
    /\ \A c \in Cleaner : cleaner[c].pc # "data"
    /\ \A u \in Updater : update[u].pc \notin {"open", "swap", "close", "remove"}

Unstamped ==
    /\ \A n \in DOMAIN data : n[2] = 0
    /\ wrapper.name[2] = 0
    /\ \A u \in Updater : update[u].name[2] = 0 /\ update[u].old[2] = 0
    /\ Nothing \/ \E m \in DOMAIN data : Top(m)

\* Where they cannot, the files that are served stay.
InPlace(h, n) == n \in DOMAIN data /\ data[n] = handle[h]

Locked ==
    /\ phase = "running" => InPlace(wrapper.handle, wrapper.name)
    /\ \A u \in Updater : update[u].pc = "swap" => InPlace(update[u].handle, update[u].name)

Kept ==
    /\ newest > 0 => \E n \in DOMAIN data : newest <= n[1]
    /\ windows => Locked
    /\ ~windows => Unstamped

\* What the days and the next start rest on.  The quota and the files, with
\* Counted and Files, need less.
IInv == Types /\ Stages /\ Owners /\ Listings /\ Calendar /\ Kept

-----------------------------------------------------------------------------
(* What binding, dropping and removing do to a directory.                    *)

LEMMA BindIs ==
    ASSUME NEW S, NEW dir, dir \in [DOMAIN dir -> S], NEW n, NEW f \in S
    PROVE  /\ DOMAIN Bind(dir, n, f) = DOMAIN dir \union {n}
           /\ Bind(dir, n, f) \in [DOMAIN dir \union {n} -> S]
           /\ Bind(dir, n, f)[n] = f
           /\ \A m \in DOMAIN dir : m # n => Bind(dir, n, f)[m] = dir[m]
           /\ Range(Bind(dir, n, f)) \subseteq Range(dir) \union {f}
<1>1. /\ DOMAIN Bind(dir, n, f) = DOMAIN dir \union {n}
      /\ Bind(dir, n, f) \in [DOMAIN dir \union {n} -> S]
      /\ Bind(dir, n, f)[n] = f
      /\ \A m \in DOMAIN dir : m # n => Bind(dir, n, f)[m] = dir[m]
  BY DEF Bind
<1>2. Range(Bind(dir, n, f)) \subseteq Range(dir) \union {f}
  <2> SUFFICES ASSUME NEW m \in DOMAIN dir \union {n}
               PROVE  Bind(dir, n, f)[m] \in Range(dir) \union {f}
    BY <1>1 DEF Range
  <2> QED
    BY <1>1 DEF Range
<1> QED
  BY <1>1, <1>2

LEMMA DropIs ==
    ASSUME NEW S, NEW dir, dir \in [DOMAIN dir -> S], NEW n
    PROVE  /\ DOMAIN Drop(dir, n) = DOMAIN dir \ {n}
           /\ Drop(dir, n) \in [DOMAIN dir \ {n} -> S]
           /\ \A m \in DOMAIN dir : m # n => Drop(dir, n)[m] = dir[m]
           /\ Range(Drop(dir, n)) \subseteq Range(dir)
  BY DEF Drop, Restrict, Range

LEMMA RemovedIs ==
    ASSUME NEW dir, NEW n
    PROVE  /\ Removed(dir, n) = dir \/ Removed(dir, n) = Drop(dir, n)
           /\ n \in DOMAIN dir /\ InUse(dir[n]) => Removed(dir, n) = dir
  BY DEF Removed

LEMMA BindDirectory ==
    ASSUME NEW dir, IsDirectory(dir), NEW n \in Name, NEW f \in File
    PROVE  IsDirectory(Bind(dir, n, f))
<1> DEFINE b == Bind(dir, n, f)
<1>1. DOMAIN b = DOMAIN dir \union {n} /\ b \in [DOMAIN dir \union {n} -> File]
  <2>1. dir \in [DOMAIN dir -> File]
    BY DEF IsDirectory
  <2> QED
    BY <2>1 DEF Bind
<1>2. IsFiniteSet(DOMAIN dir \union {n})
  BY FS_AddElement DEF IsDirectory
<1> HIDE DEF b
<1>3. IsDirectory(b)
  BY <1>1, <1>2 DEF IsDirectory
<1> QED
  BY <1>3 DEF b

LEMMA RemovedDirectory ==
    ASSUME NEW dir, IsDirectory(dir), NEW n
    PROVE  IsDirectory(Drop(dir, n)) /\ IsDirectory(Removed(dir, n))
<1> DEFINE d == Drop(dir, n)
<1>1. DOMAIN d = DOMAIN dir \ {n} /\ d \in [DOMAIN dir \ {n} -> File]
  BY DropIs DEF IsDirectory
<1>2. IsFiniteSet(DOMAIN dir \ {n})
  BY FS_RemoveElement DEF IsDirectory
<1> HIDE DEF d
<1>3. IsDirectory(d)
  BY <1>1, <1>2 DEF IsDirectory
<1> QED
  BY <1>3, RemovedIs DEF d

-----------------------------------------------------------------------------
\* The types of the state.
LEMMA TypesInit == Init => Types
<1> SUFFICES ASSUME Init PROVE Types
  OBVIOUS
<1>1. ClockTypes
  <2>1. 1 \in Day /\ 0 \in 0 .. Days /\ 0 \in 0 .. MaxFaults /\ 0 \in Nat
    BY IpdbConstants DEF Day
  <2>2. quota \in [day : 0 .. Days, used : Nat]
    BY <2>1 DEF Init
  <2> QED
    BY <2>1, <2>2 DEF Init, ClockTypes, Phase
<1>2. IsDirectory(<< >>)
  BY FS_EmptySet DEF IsDirectory
<1>3. DiskTypes
  BY <1>2 DEF Init, DiskTypes
<1>4. NoName \in AnyName
  BY IpdbConstants DEF NoName, AnyName
<1>5. HandleTypes
  BY <1>4 DEF Init, HandleTypes
<1>6. NotUpdating \in UpdateType /\ NotUpdating.pc = "idle"
  BY <1>4, IpdbConstants DEF NotUpdating, UpdateType, Pc
<1>7. UpdateTypes
  BY <1>6 DEF Init, UpdateTypes
<1>8. CleanerTypes
  BY FS_EmptySet DEF Init, CleanerTypes, CleanerType, NotCleaning
<1> QED
  BY <1>1, <1>3, <1>5, <1>7, <1>8 DEF Types

\* A new name does not collide with one that is around.
LEMMA NextStampIsLater ==
    ASSUME Types
    PROVE  NextStamp \in Nat /\ \A n \in DOMAIN data : n[2] < NextStamp
<1> DEFINE A == DOMAIN data \union {wrapper.name} \union {update[u].name : u \in Updater}
                           \union UNION {cleaner[c].doomed : c \in Cleaner}
           T == {n[2] : n \in A}
<1>1. A \subseteq AnyName
  BY IpdbConstants DEF Types, DiskTypes, IsDirectory, HandleTypes, UpdateTypes, UpdateType,
     CleanerTypes, CleanerType, Name, AnyName, Day
<1>2. IsFiniteSet(A)
  <2>1. {update[u].name : u \in Updater} = {update[Task].name} \union {update[Message].name}
    BY DEF Updater
  <2>2. UNION {cleaner[c].doomed : c \in Cleaner} = cleaner["before"].doomed \union cleaner["after"].doomed
    BY DEF Cleaner
  <2>3. IsFiniteSet(cleaner["before"].doomed) /\ IsFiniteSet(cleaner["after"].doomed)
    BY DEF Types, CleanerTypes, Cleaner
  <2>4. IsFiniteSet(DOMAIN data)
    BY DEF Types, DiskTypes, IsDirectory
  <2>5. \A x : IsFiniteSet({x})
    BY FS_Singleton
  <2>6. IsFiniteSet({update[u].name : u \in Updater})
    <3>1. IsFiniteSet({update[Task].name}) /\ IsFiniteSet({update[Message].name})
      BY <2>5
    <3>2. IsFiniteSet({update[Task].name} \union {update[Message].name})
      BY <3>1, FS_Union
    <3> QED
      BY <2>1, <3>2
  <2>7. IsFiniteSet(UNION {cleaner[c].doomed : c \in Cleaner})
    <3>1. IsFiniteSet(cleaner["before"].doomed \union cleaner["after"].doomed)
      BY <2>3, FS_Union
    <3> QED
      BY <2>2, <3>1
  <2>8. IsFiniteSet(DOMAIN data \union {wrapper.name})
    BY <2>4, <2>5, FS_Union
  <2>9. IsFiniteSet(DOMAIN data \union {wrapper.name} \union {update[u].name : u \in Updater})
    BY <2>6, <2>8, FS_Union
  <2> QED
    BY <2>7, <2>9, FS_Union
<1>3. IsFiniteSet(T)
  <2> DEFINE f == [n \in A |-> n[2]]
  <2>1. f \in Surjection(A, T)
    BY DEF Surjection
  <2> HIDE DEF f, A, T
  <2> QED
    BY <1>2, <2>1, FS_Surjection
<1>4. T \in SUBSET Nat /\ T # {}
  BY <1>1 DEF AnyName
<1>5. Max(T) \in T /\ \A y \in T : y <= Max(T)
  BY <1>3, <1>4, MaxExists
<1>6. NextStamp = 1 + Max(T)
  BY DEF NextStamp
<1>7. \A n \in DOMAIN data : n[2] \in T
  OBVIOUS
<1> HIDE DEF T
<1>8. Max(T) \in Nat
  BY <1>4, <1>5
<1> DEFINE m == Max(T)
<1>9. ASSUME NEW n \in DOMAIN data PROVE n[2] < 1 + m
  <2>1. n[2] \in T /\ n[2] <= m
    BY <1>5, <1>7
  <2>2. n[2] \in Nat /\ m \in Nat
    BY <1>4, <1>8, <2>1
  <2> QED
    BY <2>1, <2>2
<1> QED
  BY <1>6, <1>8, <1>9

\* The steps of an update change the record of its updater only.
LEMMA UpdateTypesStep ==
    ASSUME Types, NEW u \in Updater, UpdateIPDB(u)
    PROVE  UpdateTypes'
<1> USE DEF Types, UpdateTypes
<1>1. NoName \in AnyName /\ Name \subseteq AnyName /\ Day \subseteq 1 .. Days /\ Day \subseteq 0 .. Days
  BY IpdbConstants DEF NoName, AnyName, Name, Day
<1>2. NotUpdating \in UpdateType /\ NotUpdating.pc = "idle"
  BY <1>1, IpdbConstants DEF NotUpdating, UpdateType, Pc
<1>3. update \in [Updater -> UpdateType] /\ update[u] \in UpdateType
  OBVIOUS
<1>4. Ends(u) => UpdateTypes'
  BY <1>2 DEF Ends
<1>5. ASSUME NEW pc \in Pc, Goto(u, pc), pc \in {"idle", "allow", "begin"} \/ update[u].date \in Day,
             pc # "copy", pc \notin {"open", "swap", "close", "remove"}
      PROVE  UpdateTypes'
  BY <1>3, <1>5 DEF Goto, UpdateType, Pc
<1>6. CASE Allow(u)
  <2>2. CASE MayDownload(u)
    <3>1. update[u].tries + 1 \in 0 .. MaxDownloadAttempts
      BY <1>3, <2>2, IpdbConstants DEF MayDownload, UpdateType
    <3>2. update' = [update EXCEPT ![u].pc = "begin", ![u].tries = @ + 1]
      BY <1>6, <2>2 DEF Allow
    <3> QED
      BY <1>3, <3>1, <3>2 DEF UpdateType, Pc
  <2>3. CASE ~MayDownload(u)
    BY <1>4, <1>6, <2>3 DEF Allow
  <2> QED
    BY <2>2, <2>3
<1>7. CASE DownloadFails(u) \/ RenameFails(u)
  BY <1>5, <1>7 DEF DownloadFails, RenameFails, Pc
<1>8. CASE LimitPage(u) \/ OpenFails(u) \/ RemoveOld(u)
  BY <1>4, <1>8 DEF LimitPage, OpenFails, RemoveOld
<1>9. CASE Extract(u)
  <2> PICK f \in IF BinName(u) \in DOMAIN temp THEN {temp[BinName(u)]} ELSE NewFile :
              update' = [update EXCEPT ![u].pc = "copy", ![u].file = f]
    BY <1>9 DEF Extract
  <2>1. f \in File
    BY DEF DiskTypes, IsDirectory, NewFile, Least
  <2>2. update[u].date \in Day
    BY <1>9 DEF Extract, At
  <2> QED
    BY <1>3, <2>1, <2>2 DEF UpdateType, Pc
<1>10. CASE Copied(u)
  <2>1. update' = [update EXCEPT ![u].pc = "verify", ![u].file = 0] /\ update[u].date \in Day
    BY <1>10 DEF Copied, At
  <2> QED
    BY <1>3, <2>1 DEF UpdateType, Pc
<1>11. CASE CopyFails(u)
  <2>1. update' = [update EXCEPT ![u].pc = "allow", ![u].file = 0]
    BY <1>11 DEF CopyFails
  <2> QED
    BY <1>3, <2>1 DEF UpdateType, Pc
<1>12. CASE Verify(u)
  <2>1. update[u].date \in Day
    BY <1>12 DEF Verify, At
  <2> QED
    BY <1>5, <1>12, <2>1 DEF Verify, Pc
<1>13. CASE Rename(u)
  <2> PICK n \in Name : update' = [update EXCEPT ![u].pc = "open", ![u].name = n]
    <3>1. BinName(u) \in DOMAIN temp /\ BinName(u) \in Name
      BY <1>13 DEF Rename, DiskTypes, IsDirectory
    <3>2. <<BinName(u)[1], NextStamp>> \in Name
      BY <3>1, NextStampIsLater DEF Name
    <3> QED
      BY <1>13, <3>1, <3>2 DEF Rename
  <2>1. update[u].date \in Day
    BY <1>13 DEF Rename, At
  <2> QED
    BY <1>1, <1>3, <2>1 DEF UpdateType, Pc
<1>14. CASE OpenNew(u)
  <2> PICK h \in NewHandle : update' = [update EXCEPT ![u].pc = "swap", ![u].handle = h]
    BY <1>14 DEF OpenNew
  <2>1. h \in Handle /\ update[u].date \in Day /\ update[u].name \in Name
    BY <1>14 DEF OpenNew, At, NewHandle, Least
  <2> QED
    BY <1>3, <2>1 DEF UpdateType, Pc
<1>15. CASE Swap(u)
  <2>1. update' = [update EXCEPT ![u].pc = "close", ![u].handle = wrapper.handle, ![u].old = wrapper.name]
    BY <1>15 DEF Swap
  <2>2. wrapper.handle \in Handle \union {0} /\ wrapper.name \in AnyName
        /\ update[u].date \in Day /\ update[u].name \in Name
    BY <1>15 DEF Swap, At, HandleTypes
  <2> QED
    BY <1>3, <2>1, <2>2 DEF UpdateType, Pc
<1>16. CASE CloseOld(u)
  <2>1. update' = [update EXCEPT ![u].pc = "remove", ![u].handle = 0]
        /\ update[u].date \in Day /\ update[u].name \in Name
    BY <1>16 DEF CloseOld, At
  <2> QED
    BY <1>3, <2>1 DEF UpdateType, Pc
<1>17. CASE BeginDownload(u)
  <2>1. update' = [update EXCEPT ![u].pc = "download", ![u].date = day] /\ day \in Day
    BY <1>17 DEF BeginDownload, ClockTypes
  <2> QED
    BY <1>1, <1>3, <2>1 DEF UpdateType, Pc
<1> QED
  BY <1>6, <1>7, <1>8, <1>9, <1>10, <1>11, <1>12, <1>13, <1>14, <1>15, <1>16, <1>17 DEF UpdateIPDB


\* How many updaters have a download counted that they have not begun.
LEMMA WaitingIs == Cardinality({u \in Updater : At(u, "begin")}) = Waiting
<1> DEFINE S == {u \in Updater : At(u, "begin")}
<1>1. Task # Message /\ Updater = {Task, Message}
  BY DEF Task, Message, Updater
<1>2. /\ IsFiniteSet({}) /\ Cardinality({}) = 0
      /\ IsFiniteSet({Task}) /\ Cardinality({Task}) = 1
      /\ Cardinality({Message}) = 1
  BY FS_EmptySet, FS_Singleton
<1>3. Cardinality({Task} \union {Message}) = 2
  BY <1>1, <1>2, FS_AddElement
<1>4. S = {} \/ S = {Task} \/ S = {Message} \/ S = {Task} \union {Message}
  BY <1>1
<1>5. /\ Task \in S <=> update[Task].pc = "begin"
      /\ Message \in S <=> update[Message].pc = "begin"
  BY <1>1 DEF At
<1> HIDE DEF S
<1>6. Cardinality(S) = (IF Task \in S THEN 1 ELSE 0) + (IF Message \in S THEN 1 ELSE 0)
  BY <1>1, <1>2, <1>3, <1>4
<1> QED
  BY <1>5, <1>6 DEF Waiting, Waits, S

\* The day of the newest database is that of one that was served.
LEMMA ServeTypes ==
    ASSUME ClockTypes, NEW h \in Handle \union {0}, NEW n \in AnyName, Serve(h, n)
    PROVE  /\ newest' \in 0 .. Days /\ carried' = carried
           /\ wrapper' \in [handle : Handle \union {0}, name : AnyName]
           /\ newest <= newest' /\ n[1] <= newest' /\ newest' \in {newest, n[1]}
<1> DEFINE S == {newest, n[1]}
<1>1. newest \in 0 .. Days /\ n[1] \in 0 .. Days
  BY DEF ClockTypes, AnyName
<1>2. newest \in Nat /\ n[1] \in Nat /\ newest \in S /\ n[1] \in S
  BY <1>1, IpdbConstants
<1>3. IsFiniteSet(S)
  <2>1. IsFiniteSet({newest}) /\ IsFiniteSet({n[1]})
    BY FS_Singleton
  <2>2. IsFiniteSet({newest} \union {n[1]})
    BY <2>1, FS_Union
  <2>3. S = {newest} \union {n[1]}
    OBVIOUS
  <2> QED
    BY <2>2, <2>3
<1>4. S \in SUBSET Nat /\ S # {} /\ newest' = Max(S)
  BY <1>2 DEF Serve
<1> HIDE DEF S
<1>5. Max(S) \in S /\ \A y \in S : y <= Max(S)
  BY <1>3, <1>4, MaxExists
<1> QED
  BY <1>1, <1>2, <1>4, <1>5 DEF Serve, S

\* The steps that touch the calendar, the phase, the counter or the history.
LEMMA ClockTypesStep ==
    ASSUME Types, [Next]_vars
    PROVE  ClockTypes'
<1> USE DEF Types, ClockTypes, clock, history
<1>1. 0 \in 0 .. Days /\ Day \subseteq 0 .. Days /\ MaxDownloadAttempts \in Nat /\ Used \in Nat
  BY IpdbConstants DEF Day, Used
<1>2. ASSUME NEW u \in Updater, Ends(u) PROVE phase' \in Phase
  BY <1>2 DEF Ends, Phase
<1>3. CASE InitIPDB
  <2>1. phase' \in Phase /\ UNCHANGED <<day, woken, windows, faults, quota, fetched>>
    BY <1>3 DEF InitIPDB, Phase
  <2>2. DOMAIN data # {} /\ IsFiniteSet(DOMAIN data) /\ DOMAIN data \subseteq Name
        /\ Name \subseteq AnyName /\ Name \subseteq Nat \X Nat
    BY <1>3, IpdbConstants DEF InitIPDB, DiskTypes, IsDirectory, Name, AnyName, Day
  <2>3. Latest(DOMAIN data) \in AnyName
    BY <2>2, LatestExists
  <2>4. (\E h \in NewHandle : Serve(h, Latest(DOMAIN data))) \/ UNCHANGED history
    BY <1>3 DEF InitIPDB
  <2>5. newest' \in 0 .. Days /\ carried' \in Nat
    <3>1. ASSUME NEW h \in NewHandle, Serve(h, Latest(DOMAIN data))
          PROVE  newest' \in 0 .. Days /\ carried' = carried
      BY <2>3, <3>1, ServeTypes DEF NewHandle, Least
    <3> QED
      BY <2>4, <3>1
  <2> QED
    BY <2>1, <2>5
<1>4. CASE FirstDownload \/ TriggerIPDBUpdate \/ Lookup \/ \E c \in Cleaner : Cleanup(c)
  BY <1>4 DEF FirstDownload, TriggerIPDBUpdate, Lookup, Get, GetAll, Cleanup, ListTemp, ListData,
     RemoveListed, Phase
<1>5. CASE FirstServed
  <2>1. update[Task].handle \in Handle \union {0} /\ update[Task].name \in AnyName
    BY DEF UpdateTypes, UpdateType, Updater
  <2>2. newest' \in 0 .. Days /\ carried' = carried
    BY <1>5, <2>1, ServeTypes DEF FirstServed
  <2> QED
    BY <1>5, <2>2 DEF FirstServed, Phase
<1>6. CASE TaskWakes
  BY <1>1, <1>6 DEF TaskWakes
<1>7. ASSUME NEW u \in Updater, Allow(u) PROVE ClockTypes'
  <2>1. Used + 1 \in Nat
    BY <1>1
  <2>2. quota' \in [day : 0 .. Days, used : Nat] /\ phase' \in Phase
    BY <1>1, <1>2, <1>7, <2>1 DEF Allow
  <2> QED
    BY <1>7, <2>2 DEF Allow
<1>8. ASSUME NEW u \in Updater, LimitPage(u) PROVE ClockTypes'
  <2>1. quota' \in [day : 0 .. Days, used : Nat] /\ phase' \in Phase
    BY <1>1, <1>2, <1>8 DEF LimitPage
  <2> QED
    BY <1>8, <2>1 DEF LimitPage
<1>9. ASSUME NEW u \in Updater,
             BeginDownload(u) \/ DownloadFails(u) \/ Extract(u) \/ CopyFails(u) \/ Verify(u) \/ Rename(u)
             \/ RenameFails(u) \/ OpenNew(u) \/ CloseOld(u)
      PROVE  ClockTypes'
  BY <1>9 DEF BeginDownload, DownloadFails, Extract, CopyFails, Verify, Rename, RenameFails, OpenNew, CloseOld
<1>10. ASSUME NEW u \in Updater, Copied(u) PROVE ClockTypes'
  <2>1. faults' \in 0 .. MaxFaults
    BY <1>10, IpdbConstants DEF Copied
  <2> QED
    BY <1>10, <2>1 DEF Copied
<1>11. ASSUME NEW u \in Updater, OpenFails(u) \/ RemoveOld(u) PROVE ClockTypes'
  BY <1>2, <1>11 DEF OpenFails, RemoveOld
<1>12. ASSUME NEW u \in Updater, Swap(u) PROVE ClockTypes'
  <2>1. update[u].handle \in Handle \union {0} /\ update[u].name \in AnyName
    BY DEF UpdateTypes, UpdateType
  <2>2. newest' \in 0 .. Days /\ carried' = carried
    BY <1>12, <2>1, ServeTypes DEF Swap
  <2> QED
    BY <1>12, <2>2 DEF Swap
<1>13. CASE Crash
  <2>1. faults + 1 \in 0 .. MaxFaults
    BY <1>13, IpdbConstants DEF Crash
  <2> QED
    BY <1>1, <1>13, <2>1 DEF Crash, Gone, Phase
<1>14. CASE NilWrapper
  BY <1>1, <1>14 DEF NilWrapper, Gone, Phase
<1>15. CASE Midnight
  <2>1. day + 1 \in Day
    BY <1>15, IpdbConstants DEF Midnight, Day
  <2>2. carried' \in Nat
    BY <1>15, WaitingIs DEF Midnight, At, Waiting, Waits
  <2> QED
    BY <1>15, <2>1, <2>2 DEF Midnight
<1>16. CASE UNCHANGED vars
  BY <1>16 DEF vars
<1> QED
  BY <1>3, <1>4, <1>5, <1>6, <1>7, <1>8, <1>9, <1>10, <1>11, <1>12, <1>13, <1>14, <1>15, <1>16
     DEF Next, UpdateIPDB

\* The steps that touch the disk.
LEMMA DiskTypesStep ==
    ASSUME Types, [Next]_vars
    PROVE  DiskTypes'
<1> USE DEF Types, disk
<1>1. IsDirectory(data) /\ IsDirectory(temp) /\ whole \subseteq File
      /\ writer \in [File -> Updater \union {"nobody"}]
  BY DEF DiskTypes
<1>2. CASE UNCHANGED disk
  BY <1>1, <1>2 DEF DiskTypes, IsDirectory
<1>3. ASSUME NEW u \in Updater, Stopped(u) = writer' PROVE writer' \in [File -> Updater \union {"nobody"}]
  BY <1>1, <1>3 DEF Stopped
<1>4. ASSUME NEW u \in Updater, Extract(u) PROVE DiskTypes'
  <2> DEFINE n == BinName(u)
  <2>1. n \in Name
    BY <1>4 DEF Extract, At, BinName, UpdateTypes, Name
  <2> PICK f \in IF n \in DOMAIN temp THEN {temp[n]} ELSE NewFile :
            /\ temp' = Bind(temp, n, f) /\ whole' = whole \ {f} /\ writer' = [writer EXCEPT ![f] = u]
    BY <1>4 DEF Extract
  <2>2. f \in File
    BY <1>1 DEF IsDirectory, NewFile, Least
  <2> HIDE DEF n
  <2>3. IsDirectory(temp')
    <3>1. IsDirectory(Bind(temp, n, f))
      BY <1>1, <2>1, <2>2, BindDirectory
    <3> QED
      BY <3>1
  <2>4. data' = data
    BY <1>4 DEF Extract
  <2> QED
    BY <1>1, <2>2, <2>3, <2>4 DEF DiskTypes, IsDirectory
<1>5. ASSUME NEW u \in Updater, Copied(u) \/ CopyFails(u) PROVE DiskTypes'
  <2>1. update[u].file \in File
    BY <1>5 DEF Copied, CopyFails, At, UpdateTypes
  <2>2. whole' \subseteq File /\ writer' \in [File -> Updater \union {"nobody"}]
    BY <1>1, <1>3, <1>5, <2>1 DEF Copied, CopyFails
  <2> QED
    BY <1>1, <1>5, <2>2 DEF Copied, CopyFails, DiskTypes, IsDirectory
<1>6. ASSUME NEW u \in Updater, Verify(u) PROVE DiskTypes'
  <2>1. IsDirectory(Removed(temp, BinName(u)))
    BY <1>1, RemovedDirectory
  <2>2. temp' = temp \/ temp' = Removed(temp, BinName(u))
    BY <1>6 DEF Verify
  <2>3. IsDirectory(temp')
    BY <1>1, <2>1, <2>2
  <2> QED
    BY <1>1, <1>6, <2>3 DEF Verify, DiskTypes, IsDirectory
<1>7. ASSUME NEW u \in Updater, Rename(u) PROVE DiskTypes'
  <2> PICK n \in Name : data' = Bind(data, n, temp[BinName(u)]) /\ temp' = Drop(temp, BinName(u))
    <3>1. BinName(u) \in DOMAIN temp /\ BinName(u) \in Name
      BY <1>1, <1>7 DEF Rename, IsDirectory
    <3>2. <<BinName(u)[1], NextStamp>> \in Name
      BY <3>1, NextStampIsLater DEF Name
    <3> QED
      BY <1>7, <3>1, <3>2 DEF Rename
  <2>1. temp[BinName(u)] \in File
    BY <1>1, <1>7 DEF Rename, IsDirectory
  <2>2. IsDirectory(Bind(data, n, temp[BinName(u)])) /\ IsDirectory(Drop(temp, BinName(u)))
    BY <1>1, <2>1, BindDirectory, RemovedDirectory
  <2>3. IsDirectory(data') /\ IsDirectory(temp')
    BY <2>2
  <2> QED
    BY <1>1, <1>7, <2>3 DEF Rename, DiskTypes, IsDirectory
<1>8. ASSUME NEW u \in Updater, RemoveOld(u) PROVE DiskTypes'
  <2>1. IsDirectory(Removed(data, update[u].old))
    BY <1>1, RemovedDirectory
  <2>2. data' = data \/ data' = Removed(data, update[u].old)
    BY <1>8 DEF RemoveOld
  <2>3. IsDirectory(data')
    BY <1>1, <2>1, <2>2
  <2> QED
    BY <1>1, <1>8, <2>3 DEF RemoveOld, DiskTypes, IsDirectory
<1>9. ASSUME NEW c \in Cleaner, RemoveListed(c) PROVE DiskTypes'
  <2>1. \A n : IsDirectory(Removed(data, n)) /\ IsDirectory(Removed(temp, n))
    BY <1>1, RemovedDirectory
  <2>2. \E n : data' \in {data, Removed(data, n)} /\ temp' \in {temp, Removed(temp, n)}
    BY <1>9 DEF RemoveListed
  <2>3. IsDirectory(data') /\ IsDirectory(temp')
    BY <1>1, <2>1, <2>2
  <2> QED
    BY <1>1, <1>9, <2>3 DEF RemoveListed, DiskTypes, IsDirectory
<1>10. CASE Crash \/ NilWrapper
  BY <1>1, <1>10 DEF Crash, NilWrapper, Gone, DiskTypes, IsDirectory
<1>11. UNCHANGED disk \/ Crash \/ NilWrapper
       \/ (\E c \in Cleaner : RemoveListed(c))
       \/ \E u \in Updater : Extract(u) \/ Copied(u) \/ CopyFails(u) \/ Verify(u) \/ Rename(u) \/ RemoveOld(u)
  <2>1. ASSUME NEW u \in Updater, UpdateIPDB(u)
        PROVE  UNCHANGED disk \/ Extract(u) \/ Copied(u) \/ CopyFails(u) \/ Verify(u) \/ Rename(u) \/ RemoveOld(u)
    BY <2>1 DEF UpdateIPDB, Allow, BeginDownload, DownloadFails, LimitPage, RenameFails, OpenNew, OpenFails, Swap, CloseOld
  <2>2. ASSUME NEW c \in Cleaner, Cleanup(c) PROVE UNCHANGED disk \/ RemoveListed(c)
    BY <2>2 DEF Cleanup, ListTemp, ListData
  <2> QED
    BY <2>1, <2>2 DEF Next, InitIPDB, FirstDownload, FirstServed, TaskWakes, TriggerIPDBUpdate, Lookup, Get,
       GetAll, Midnight, vars
<1> QED
  BY <1>2, <1>4, <1>5, <1>6, <1>7, <1>8, <1>9, <1>10, <1>11

\* The steps that touch the handles, the wrapper or the lookup.
LEMMA HandleTypesStep ==
    ASSUME Types, [Next]_vars
    PROVE  HandleTypes'
<1> USE DEF Types, HandleTypes
<1> DEFINE Record == [handle : Handle \union {0}, name : AnyName]
<1>1. UNCHANGED <<handle, wrapper, lookup>> => HandleTypes'
  OBVIOUS
<1>2. ASSUME NEW h \in NewHandle, NEW f \in File, handle' = Bind(handle, h, f)
      PROVE  handle' \in [DOMAIN handle' -> File] /\ DOMAIN handle' \subseteq Handle
  <2>1. DOMAIN Bind(handle, h, f) = DOMAIN handle \union {h}
        /\ Bind(handle, h, f) \in [DOMAIN handle \union {h} -> File]
    BY DEF Bind
  <2>2. h \in Handle
    BY DEF NewHandle, Least
  <2> QED
    BY <1>2, <2>1, <2>2
<1>3. CASE InitIPDB
  <2> DEFINE n == Latest(DOMAIN data)
  <2>1. DOMAIN data # {} /\ IsFiniteSet(DOMAIN data) /\ DOMAIN data \subseteq Name
        /\ Name \subseteq AnyName /\ Name \subseteq Nat \X Nat
    BY <1>3, IpdbConstants DEF InitIPDB, DiskTypes, IsDirectory, Name, AnyName, Day
  <2>2. n \in AnyName /\ data[n] \in File
    BY <2>1, LatestExists DEF DiskTypes, IsDirectory
  <2> HIDE DEF n
  <2>3. \/ \E h \in NewHandle : handle' = Bind(handle, h, data[n]) /\ Serve(h, n)
        \/ UNCHANGED <<handle, wrapper>>
    BY <1>3 DEF InitIPDB, n
  <2>4. lookup' = lookup
    BY <1>3 DEF InitIPDB
  <2>5. ASSUME NEW h \in NewHandle, handle' = Bind(handle, h, data[n]), Serve(h, n)
        PROVE  HandleTypes'
    <3>1. h \in Handle
      BY DEF NewHandle, Least
    <3>2. wrapper' \in Record
      BY <2>2, <2>5, <3>1 DEF Serve
    <3> QED
      BY <1>2, <2>2, <2>4, <2>5, <3>2
  <2> QED
    BY <1>1, <2>3, <2>4, <2>5
<1>4. ASSUME NEW u \in Updater, Serve(update[u].handle, update[u].name), UNCHANGED <<handle, lookup>>
      PROVE  HandleTypes'
  <2>1. update[u].handle \in Handle \union {0} /\ update[u].name \in AnyName
    BY DEF UpdateTypes, UpdateType
  <2> QED
    BY <1>4, <2>1 DEF Serve
<1>5. ASSUME NEW u \in Updater, OpenNew(u) PROVE HandleTypes'
  <2>1. data[update[u].name] \in File
    BY <1>5 DEF OpenNew, DiskTypes, IsDirectory
  <2> QED
    BY <1>2, <1>5, <2>1 DEF OpenNew
<1>6. ASSUME NEW u \in Updater, CloseOld(u) PROVE HandleTypes'
  <2>1. DOMAIN Drop(handle, update[u].handle) = DOMAIN handle \ {update[u].handle}
        /\ Drop(handle, update[u].handle) \in [DOMAIN handle \ {update[u].handle} -> File]
    BY DEF Drop, Restrict
  <2> QED
    BY <1>6, <2>1 DEF CloseOld
<1>7. CASE Lookup
  BY <1>7 DEF Lookup, Get, GetAll
<1>8. CASE Crash \/ NilWrapper
  <2>1. NoName \in AnyName
    BY IpdbConstants DEF NoName, AnyName
  <2> QED
    <3>1. handle' = << >> /\ wrapper' = [handle |-> 0, name |-> NoName] /\ lookup' = 0
      BY <1>8 DEF Crash, NilWrapper, Gone
    <3> QED
      BY <2>1, <3>1
<1>9. CASE FirstServed
  BY <1>4, <1>9 DEF FirstServed, Updater
<1>10. ASSUME NEW u \in Updater, Swap(u) PROVE HandleTypes'
  BY <1>4, <1>10 DEF Swap
<1>11. UNCHANGED <<handle, wrapper, lookup>> \/ InitIPDB \/ FirstServed \/ Lookup \/ Crash \/ NilWrapper
       \/ \E u \in Updater : OpenNew(u) \/ CloseOld(u) \/ Swap(u)
  <2>1. ASSUME NEW u \in Updater, UpdateIPDB(u)
        PROVE  UNCHANGED <<handle, wrapper, lookup>> \/ OpenNew(u) \/ CloseOld(u) \/ Swap(u)
    BY <2>1 DEF UpdateIPDB, Allow, BeginDownload, DownloadFails, LimitPage, Extract, Copied, CopyFails, Verify, Rename,
       RenameFails, OpenFails, RemoveOld
  <2>2. ASSUME NEW c \in Cleaner, Cleanup(c) PROVE UNCHANGED <<handle, wrapper, lookup>>
    BY <2>2 DEF Cleanup, ListTemp, ListData, RemoveListed
  <2> QED
    BY <2>1, <2>2 DEF Next, FirstDownload, TaskWakes, TriggerIPDBUpdate, Midnight, vars
<1> QED
  BY <1>1, <1>3, <1>5, <1>6, <1>7, <1>8, <1>9, <1>10, <1>11

\* The steps that touch the clean-ups.
LEMMA CleanerTypesStep ==
    ASSUME Types, [Next]_vars
    PROVE  CleanerTypes'
<1> USE DEF Types, CleanerTypes
<1>1. NotCleaning \in CleanerType /\ IsFiniteSet(NotCleaning.doomed)
  BY FS_EmptySet DEF NotCleaning, CleanerType
<1>2. ASSUME NEW c \in Cleaner, cleaner' = Started(c) PROVE CleanerTypes'
  BY <1>2 DEF Started, CleanerType
<1>3. UNCHANGED cleaner => CleanerTypes'
  OBVIOUS
<1>4. ASSUME NEW u \in Updater, Ends(u) PROVE CleanerTypes'
  BY <1>2, <1>3, <1>4 DEF Ends, Cleaner
<1>5. ASSUME NEW u \in Updater, UpdateIPDB(u) PROVE CleanerTypes'
  BY <1>3, <1>4, <1>5 DEF UpdateIPDB, Allow, BeginDownload, DownloadFails, LimitPage, Extract, Copied, CopyFails, Verify,
     Rename, RenameFails, OpenNew, OpenFails, Swap, CloseOld, RemoveOld
<1>6. ASSUME NEW c \in Cleaner, NEW dir \in {"temp", "data"}, NEW names \in SUBSET Name,
             IsFiniteSet(names), Doomed(c, dir, names)
      PROVE  CleanerTypes'
  <2>1. [pc |-> dir, doomed |-> names] \in CleanerType
    BY DEF CleanerType
  <2> DEFINE e == IF dir = "data" /\ names = {} THEN NotCleaning ELSE [pc |-> dir, doomed |-> names]
  <2>2. e \in CleanerType /\ IsFiniteSet(e.doomed)
    BY <1>1, <1>6, <2>1
  <2>3. cleaner' = [cleaner EXCEPT ![c] = e]
    BY <1>6 DEF Doomed
  <2> HIDE DEF e
  <2> QED
    BY <2>2, <2>3
<1>7. ASSUME NEW c \in Cleaner, ListTemp(c) PROVE CleanerTypes'
  BY <1>6, <1>7 DEF ListTemp, DiskTypes, IsDirectory
<1>8. ASSUME NEW c \in Cleaner, ListData(c) PROVE CleanerTypes'
  <2> DEFINE names == IF DOMAIN data = {} THEN {} ELSE DOMAIN data \ {Latest(DOMAIN data)}
  <2>1. names \in SUBSET Name /\ IsFiniteSet(names)
    BY FS_EmptySet, FS_RemoveElement DEF DiskTypes, IsDirectory
  <2>2. Doomed(c, "data", names)
    BY <1>8 DEF ListData
  <2> HIDE DEF names
  <2> QED
    BY <1>6, <2>1, <2>2
<1>9. ASSUME NEW c \in Cleaner, RemoveListed(c) PROVE CleanerTypes'
  <2> PICK n : Doomed(c, cleaner[c].pc, cleaner[c].doomed \ {n})
    BY <1>9 DEF RemoveListed
  <2> DEFINE names == cleaner[c].doomed \ {n}
             pc == cleaner[c].pc
  <2>1. names \in SUBSET Name /\ IsFiniteSet(names)
    BY FS_RemoveElement DEF CleanerType
  <2>2. pc \in {"idle", "started", "temp", "data"} /\ cleaner' = [cleaner EXCEPT ![c] =
            IF pc = "data" /\ names = {} THEN NotCleaning ELSE [pc |-> pc, doomed |-> names]]
    BY DEF Doomed, CleanerType
  <2> HIDE DEF names, pc
  <2>3. [pc |-> pc, doomed |-> names] \in CleanerType
    BY <2>1, <2>2 DEF CleanerType
  <2> DEFINE e == IF pc = "data" /\ names = {} THEN NotCleaning ELSE [pc |-> pc, doomed |-> names]
  <2>4. e \in CleanerType /\ IsFiniteSet(e.doomed)
    BY <1>1, <2>1, <2>3
  <2>5. cleaner' = [cleaner EXCEPT ![c] = e]
    BY <2>2
  <2> HIDE DEF e
  <2> QED
    BY <2>4, <2>5
<1>10. CASE InitIPDB \/ FirstServed \/ TaskWakes
  BY <1>2, <1>3, <1>10 DEF InitIPDB, FirstServed, TaskWakes, Cleaner
<1>11. CASE Crash \/ NilWrapper
  BY <1>1, <1>11 DEF Crash, NilWrapper, Gone
<1>12. CASE FirstDownload \/ TriggerIPDBUpdate \/ Lookup \/ Midnight \/ UNCHANGED vars
  BY <1>3, <1>12 DEF FirstDownload, TriggerIPDBUpdate, Lookup, Get, GetAll, Midnight, vars
<1> QED
  BY <1>5, <1>7, <1>8, <1>9, <1>10, <1>11, <1>12 DEF Next, Cleanup

\* The records of the updates are changed by the start and the end of one, too.
LEMMA TypesStep ==
    ASSUME Types, [Next]_vars
    PROVE  Types'
<1>1. UpdateTypes'
  <2> USE DEF Types, UpdateTypes
  <2>1. day \in 0 .. Days /\ 0 \in 0 .. Days /\ MaxDownloadAttempts \in Nat
    BY IpdbConstants DEF ClockTypes, Day
  <2>2. NotUpdating \in UpdateType /\ [NotUpdating EXCEPT !.pc = "allow", !.since = day] \in UpdateType
    <3>1. NoName \in AnyName /\ 0 \in 0 .. MaxDownloadAttempts
      BY <2>1 DEF NoName, AnyName
    <3>2. NotUpdating \in UpdateType
      BY <2>1, <3>1 DEF NotUpdating, UpdateType, Pc
    <3> QED
      BY <2>1, <3>2 DEF UpdateType, Pc
  <2>3. ASSUME NEW u \in Updater, update' = Begin(u) PROVE UpdateTypes'
    <3> DEFINE b == [NotUpdating EXCEPT !.pc = "allow", !.since = day]
    <3>1. b.pc = "allow" /\ b \in UpdateType
      BY <2>2 DEF NotUpdating
    <3>2. update' = [update EXCEPT ![u] = b]
      BY <2>3 DEF Begin
    <3> HIDE DEF b
    <3> QED
      BY <3>1, <3>2
  <2>4. UNCHANGED update => UpdateTypes'
    OBVIOUS
  <2>5. CASE FirstDownload \/ TriggerIPDBUpdate \/ TaskWakes
    BY <2>3, <2>4, <2>5 DEF FirstDownload, TriggerIPDBUpdate, TaskWakes, Updater
  <2>6. CASE FirstServed \/ Crash \/ NilWrapper
    BY <2>2, <2>6 DEF FirstServed, Crash, NilWrapper, Gone, NotUpdating
  <2>7. CASE InitIPDB \/ Lookup \/ Midnight \/ UNCHANGED vars \/ \E c \in Cleaner : Cleanup(c)
    BY <2>4, <2>7 DEF InitIPDB, Lookup, Get, GetAll, Midnight, vars, Cleanup, ListTemp, ListData, RemoveListed
  <2> QED
    BY <2>5, <2>6, <2>7, UpdateTypesStep DEF Next
<1> QED
  BY <1>1, ClockTypesStep, DiskTypesStep, HandleTypesStep, CleanerTypesStep DEF Types

LEMMA TypesImplyTypeOK == Types => TypeOK
<1> SUFFICES ASSUME Types PROVE TypeOK
  OBVIOUS
<1>1. Directory(data) /\ Directory(temp) /\ Range(handle) \subseteq File
  BY DEF Types, DiskTypes, IsDirectory, HandleTypes, Directory, Range
<1> QED
  BY <1>1 DEF Types, ClockTypes, DiskTypes, HandleTypes, UpdateTypes, UpdateType, CleanerTypes, CleanerType,
     TypeOK, Phase, Pc

\* The state of the updater is what its operations assume it to be: the names
\* in the directories are days and stamps, and every name, handle and listing
\* is of something that exists.
THEOREM IpdbTypes == Spec => []TypeOK
<1>1. Types /\ [Next]_vars => Types'
  BY TypesStep
<1> QED
  BY <1>1, TypesInit, TypesImplyTypeOK, PTL DEF Spec

-----------------------------------------------------------------------------
\* What Stages says of the record of an updater.
Stage(r, p) ==
    /\ r.pc = "idle" => r = NotUpdating
    /\ r.handle # 0 => r.pc \in {"swap", "close"}
    /\ r.pc \in {"swap", "close"} => r.handle # 0
    /\ r.file # 0 => r.pc = "copy"
    /\ r.pc \in {"close", "remove"} => p = "running"

\* An updater at rest holds nothing.
LEMMA IdleStage == \A p : Stage(NotUpdating, p) /\ NotUpdating.pc = "idle" /\ NotUpdating.handle = 0
                          /\ NotUpdating.file = 0
  BY DEF Stage, NotUpdating

\* The quota of today, and what this process has used of it.
LEMMA UsedIs ==
    ASSUME Types, Counted
    PROVE  /\ Used \in 0 .. MaxDownloadAttempts /\ MaxDownloadAttempts \in Nat
           /\ fetched \in Nat /\ carried \in Nat /\ Waiting \in Nat
  BY IpdbConstants DEF Types, ClockTypes, Counted, Used, Waiting, Waits

\* A step in which no download is counted, or begun, starts no wait either.
NobodyWaits ==
    /\ UNCHANGED <<day, quota, fetched, carried>>
    /\ \A v \in Updater : update'[v].pc = "begin" => update[v].pc = "begin"

LEMMA OthersWait ==
    ASSUME Types, NEW u \in Updater, UpdateIPDB(u)
    PROVE  /\ NobodyWaits \/ Allow(u) \/ BeginDownload(u) \/ LimitPage(u)
           /\ Ends(u) => update'[u].pc = "idle"
           /\ \A v \in Updater : v # u => update'[v] = update[v]
<1>1. update \in [Updater -> UpdateType]
  BY DEF Types, UpdateTypes
<1>2. Ends(u) => update'[u].pc = "idle" /\ \A v \in Updater : v # u => update'[v] = update[v]
  BY <1>1, IdleStage DEF Ends
<1>3. CASE Allow(u) \/ BeginDownload(u) \/ LimitPage(u)
  <2>1. Ends(u) \/ \A v \in Updater : v # u => update'[v] = update[v]
    BY <1>1, <1>3 DEF Allow, BeginDownload, LimitPage
  <2> QED
    BY <1>2, <1>3, <2>1
<1>4. CASE ~(Allow(u) \/ BeginDownload(u) \/ LimitPage(u))
  <2>1. UNCHANGED <<day, quota, fetched, carried>>
    BY <1>4 DEF UpdateIPDB, DownloadFails, Extract, Copied, CopyFails, Verify, Rename, RenameFails, OpenNew,
       OpenFails, Swap, Serve, CloseOld, RemoveOld, clock, history
  <2>2. Ends(u) \/ (update'[u].pc # "begin" /\ \A v \in Updater : v # u => update'[v] = update[v])
    BY <1>1, <1>4 DEF UpdateIPDB, DownloadFails, Extract, Copied, CopyFails, Verify, Rename, RenameFails,
       OpenNew, OpenFails, Swap, CloseOld, RemoveOld, Goto, UpdateType
  <2> QED
    BY <1>2, <2>1, <2>2 DEF NobodyWaits
<1> QED
  BY <1>3, <1>4

LEMMA FewerWait ==
    ASSUME NEW f \in Int, NEW w \in Int, NEW v \in Int, NEW c \in Int, NEW x \in Int, NEW y \in Int,
           f + w <= x + c, v <= w, x <= y
    PROVE  f + v <= y + c
  OBVIOUS

\* A download is counted, and then it begins; midnight forgets those that have
\* begun, and the end of the process all of them.
LEMMA CountedStep ==
    ASSUME Types, Counted, [Next]_vars
    PROVE  Counted'
<1> DEFINE M == MaxDownloadAttempts
<1>1. /\ M \in Nat /\ Used \in 0 .. M /\ fetched \in Nat /\ carried \in Nat /\ Waiting \in Nat
      /\ quota.used \in Nat /\ quota.used <= M /\ fetched + Waiting <= Used + carried
  BY UsedIs DEF Counted, Types, ClockTypes
<1>2. update \in [Updater -> UpdateType] /\ Task \in Updater /\ Message \in Updater /\ Task # Message
      /\ \A v \in Updater : v = Task \/ v = Message
  BY DEF Types, UpdateTypes, Updater, Task, Message
<1>3. ASSUME \A v \in Updater : update'[v].pc = "begin" => update[v].pc = "begin"
      PROVE  Waiting' \in Nat /\ Waiting' <= Waiting
  BY <1>2, <1>3 DEF Waiting, Waits
<1>4. CASE NobodyWaits
  <2>1. Waiting' \in Nat /\ Waiting' <= Waiting /\ Used' = Used /\ UNCHANGED <<quota, fetched, carried>>
    BY <1>3, <1>4 DEF NobodyWaits, Used
  <2>2. /\ fetched \in Int /\ carried \in Int /\ Used \in Int /\ Waiting \in Int /\ Waiting' \in Int
        /\ Used <= Used /\ Waiting' <= Waiting
    BY <1>1, <2>1
  <2>3. fetched + Waiting' <= Used + carried
    BY <1>1, <2>2, FewerWait
  <2> QED
    BY <1>1, <2>1, <2>3 DEF Counted
<1>5. ASSUME NEW u \in Updater, Allow(u) PROVE Counted'
  <2>1. CASE MayDownload(u)
    <3>1. /\ Used' = Used + 1 /\ quota'.used = Used + 1 /\ Used < M
          /\ UNCHANGED <<fetched, carried>>
      BY <1>5, <2>1 DEF Allow, clock, history, MayDownload, Used
    <3>2. update[u].pc = "allow" /\ update' = [update EXCEPT ![u].pc = "begin", ![u].tries = @ + 1]
      BY <1>5, <2>1 DEF Allow, At
    <3>3. update'[u].pc = "begin" /\ \A v \in Updater : v # u => update'[v] = update[v]
      BY <1>2, <3>2 DEF UpdateType
    <3>4. Waiting' = Waiting + 1
      BY <1>2, <3>2, <3>3 DEF Waiting, Waits
    <3> QED
      BY <1>1, <3>1, <3>4 DEF Counted
  <2>2. CASE ~MayDownload(u)
    <3>1. UNCHANGED <<day, quota, fetched, carried>> /\ Ends(u)
      BY <1>5, <2>2 DEF Allow, clock, history
    <3>2. \A v \in Updater : update'[v].pc = "begin" => update[v].pc = "begin"
      BY <1>5, <3>1, OthersWait DEF UpdateIPDB
    <3> QED
      BY <1>4, <3>1, <3>2 DEF NobodyWaits
  <2> QED
    BY <2>1, <2>2
<1>6. ASSUME NEW u \in Updater, BeginDownload(u) PROVE Counted'
  <2>1. /\ Used' = Used /\ fetched' = fetched + 1 /\ UNCHANGED <<quota, carried>>
        /\ update[u].pc = "begin" /\ update' = [update EXCEPT ![u].pc = "download", ![u].date = day]
    BY <1>6 DEF BeginDownload, At, clock, history, Used
  <2>2. update'[u].pc = "download" /\ \A v \in Updater : v # u => update'[v] = update[v]
    BY <1>2, <2>1 DEF UpdateType
  <2>3. Waiting = Waiting' + 1 /\ Waiting' \in Nat
    BY <1>2, <2>1, <2>2 DEF Waiting, Waits
  <2> QED
    BY <1>1, <2>1, <2>3 DEF Counted
<1>7. ASSUME NEW u \in Updater, LimitPage(u) PROVE Counted'
  <2>1. quota' = [day |-> day, used |-> M] /\ UNCHANGED <<day, fetched, carried>> /\ Ends(u)
    BY <1>7 DEF LimitPage, clock, history
  <2>2. Used' = M /\ quota'.used = M
    BY <2>1 DEF Used
  <2>3. Waiting' \in Nat /\ Waiting' <= Waiting
    BY <1>3, <1>7, <2>1, OthersWait DEF UpdateIPDB
  <2>4. /\ fetched \in Int /\ carried \in Int /\ Used \in Int /\ M \in Int /\ Waiting \in Int
        /\ Waiting' \in Int /\ Used <= M /\ Waiting' <= Waiting
    BY <1>1, <2>3
  <2>5. fetched + Waiting' <= M + carried
    BY <1>1, <2>4, FewerWait
  <2> QED
    BY <1>1, <2>1, <2>2, <2>5 DEF Counted
<1>8. CASE Crash \/ NilWrapper
  <2>1. /\ quota' = [day |-> 0, used |-> 0] /\ fetched' = 0 /\ carried' = 0
        /\ update' = [v \in Updater |-> NotUpdating]
    BY <1>8 DEF Crash, NilWrapper, Gone
  <2>2. Waiting' = 0
    BY <1>2, <2>1, IdleStage DEF Waiting, Waits
  <2>3. Used' = 0 /\ quota'.used = 0
    BY <2>1 DEF Used
  <2> QED
    BY <1>1, <2>1, <2>2, <2>3 DEF Counted
<1>9. CASE Midnight
  <2>1. UNCHANGED <<quota, update>> /\ fetched' = 0 /\ carried' = Waiting
    BY <1>9, WaitingIs DEF Midnight
  <2>2. Waiting' = Waiting /\ Used' \in Nat
    BY <1>1, <2>1 DEF Waiting, Waits, Used
  <2>3. \A w, x \in Nat : 0 + w <= x + w
    OBVIOUS
  <2>4. 0 + Waiting <= Used' + Waiting
    BY <1>1, <2>2, <2>3
  <2> QED
    BY <1>1, <2>1, <2>2, <2>4 DEF Counted
<1>10. CASE FirstDownload \/ TaskWakes \/ TriggerIPDBUpdate
  <2>1. UNCHANGED <<day, quota, fetched, carried>>
    BY <1>10 DEF FirstDownload, TaskWakes, TriggerIPDBUpdate, clock, history
  <2>2. update' = update \/ \E u \in Updater : update' = Begin(u)
    BY <1>2, <1>10 DEF FirstDownload, TaskWakes, TriggerIPDBUpdate
  <2>3. [NotUpdating EXCEPT !.pc = "allow", !.since = day].pc = "allow"
    BY DEF NotUpdating
  <2>4. \A v \in Updater : update'[v].pc = "begin" => update[v].pc = "begin"
    BY <1>2, <2>2, <2>3 DEF Begin
  <2> QED
    BY <1>4, <2>1, <2>4 DEF NobodyWaits
<1>11. CASE FirstServed
  <2>1. UNCHANGED <<day, quota, fetched, carried>> /\ update' = [update EXCEPT ![Task] = NotUpdating]
    BY <1>11 DEF FirstServed, Serve, clock
  <2>2. \A v \in Updater : update'[v].pc = "begin" => update[v].pc = "begin"
    BY <1>2, <2>1, IdleStage
  <2> QED
    BY <1>4, <2>1, <2>2 DEF NobodyWaits
<1>12. CASE InitIPDB \/ Lookup \/ UNCHANGED vars \/ \E c \in Cleaner : Cleanup(c)
  <2>1. UNCHANGED <<day, quota, fetched, carried, update>>
    BY <1>12 DEF InitIPDB, Serve, Lookup, Get, GetAll, Cleanup, ListTemp, ListData, RemoveListed, vars, clock,
       history
  <2> QED
    BY <1>4, <2>1 DEF NobodyWaits
<1>13. ASSUME NEW u \in Updater, UpdateIPDB(u) PROVE Counted'
  BY <1>4, <1>5, <1>6, <1>7, <1>13, OthersWait
<1> QED
  BY <1>8, <1>9, <1>10, <1>11, <1>12, <1>13 DEF Next

\* This process never begins more downloads on a day than are allowed, whether the
\* task or a message asks, but for one that was counted just before midnight.
THEOREM QuotaHolds == Spec => []DownloadsWithinQuota
<1>1. Init => Counted
  <2> SUFFICES ASSUME Init PROVE Counted
    OBVIOUS
  <2>1. Waiting = 0
    BY IdleStage DEF Init, Waiting, Waits, Updater
  <2>2. Used = 0 /\ quota.used = 0 /\ fetched = 0 /\ carried = 0
    BY DEF Init, Used
  <2> QED
    BY <2>1, <2>2, IpdbConstants DEF Counted
<1>2. Types /\ Counted /\ [Next]_vars => Types' /\ Counted'
  BY TypesStep, CountedStep
<1>3. Types /\ Counted => DownloadsWithinQuota
  <2> SUFFICES ASSUME Types, Counted PROVE DownloadsWithinQuota
    OBVIOUS
  <2>1. /\ Used \in 0 .. MaxDownloadAttempts /\ MaxDownloadAttempts \in Nat
        /\ fetched \in Nat /\ carried \in Nat /\ Waiting \in Nat /\ fetched + Waiting <= Used + carried
    BY UsedIs DEF Counted
  <2> QED
    BY <2>1 DEF DownloadsWithinQuota
<1> QED
  BY <1>1, <1>2, <1>3, TypesInit, PTL DEF Spec

-----------------------------------------------------------------------------
LEMMA StagesInit == Init => Stages
<1> SUFFICES ASSUME Init PROVE Stages
  OBVIOUS
<1>1. \A u \in Updater : update[u] = NotUpdating
  BY DEF Init
<1>2. \A u \in Updater : update[u].pc = "idle" /\ update[u].handle = 0 /\ update[u].file = 0
  BY <1>1, IdleStage
<1>3. Task \in Updater /\ Message \in Updater
  BY DEF Updater
<1> QED
  BY <1>1, <1>2, <1>3 DEF Init, Stages

\* The new record of the updater that takes a step.
LEMMA UpdateStage ==
    ASSUME Types, Stages, NEW u \in Updater, UpdateIPDB(u)
    PROVE  /\ Stage(update'[u], phase)
           /\ \A v \in Updater : v # u => update'[v] = update[v]
           /\ update[u].pc # "idle"
<1> DEFINE r == update[u]
<1>1. update \in [Updater -> UpdateType] /\ r \in UpdateType
  BY DEF Types, UpdateTypes
<1>2. Stage(r, phase)
  BY DEF Stages, Stage
<1>3. r.pc # "idle"
  BY DEF UpdateIPDB, Allow, BeginDownload, DownloadFails, LimitPage, Extract, Copied, CopyFails, Verify, Rename,
     RenameFails, OpenNew, OpenFails, Swap, CloseOld, RemoveOld, At
<1>4. Ends(u) => update'[u] = NotUpdating /\ \A v \in Updater : v # u => update'[v] = update[v]
  BY <1>1 DEF Ends
<1>5. ASSUME NEW s, update' = [update EXCEPT ![u] = s], Stage(s, phase)
      PROVE  Stage(update'[u], phase) /\ \A v \in Updater : v # u => update'[v] = update[v]
  BY <1>1, <1>5
<1>6. CASE Ends(u)
  BY <1>3, <1>4, <1>6, IdleStage
<1>7. ASSUME NEW pc \in Pc, Goto(u, pc), r.pc \notin {"swap", "close", "copy"},
             pc \notin {"idle", "swap", "close", "remove"}
      PROVE  Stage(update'[u], phase) /\ \A v \in Updater : v # u => update'[v] = update[v]
  BY <1>1, <1>2, <1>7 DEF Goto, Stage, UpdateType
<1>8. CASE Allow(u) \/ BeginDownload(u)
  <2>1. \/ Ends(u)
        \/ update' = [update EXCEPT ![u].pc = "begin", ![u].tries = @ + 1]
        \/ update' = [update EXCEPT ![u].pc = "download", ![u].date = day]
    BY <1>8 DEF Allow, BeginDownload
  <2>2. r.pc \in {"allow", "begin"}
    BY <1>8 DEF Allow, BeginDownload, At
  <2> QED
    BY <1>1, <1>2, <1>3, <1>6, <2>1, <2>2 DEF Stage, UpdateType
<1>9. CASE DownloadFails(u) \/ Verify(u) \/ RenameFails(u)
  BY <1>3, <1>7, <1>9 DEF DownloadFails, Verify, RenameFails, At, Pc
<1>10. CASE Extract(u)
  <2> PICK f : update' = [update EXCEPT ![u].pc = "copy", ![u].file = f]
    BY <1>10 DEF Extract
  <2>1. r.pc = "download"
    BY <1>10 DEF Extract, At
  <2> QED
    BY <1>1, <1>2, <1>3, <2>1 DEF Stage, UpdateType
<1>11. CASE Copied(u) \/ CopyFails(u)
  <2>1. PICK pc \in {"verify", "allow"} : update' = [update EXCEPT ![u].pc = pc, ![u].file = 0]
    BY <1>11 DEF Copied, CopyFails
  <2>2. r.pc = "copy"
    BY <1>11 DEF Copied, CopyFails, At
  <2> QED
    BY <1>1, <1>2, <1>3, <2>1, <2>2 DEF Stage, UpdateType
<1>12. CASE Rename(u)
  <2>1. PICK n : update' = [update EXCEPT ![u].pc = "open", ![u].name = n]
    BY <1>12 DEF Rename
  <2>2. r.pc = "rename"
    BY <1>12 DEF Rename, At
  <2> QED
    BY <1>1, <1>2, <1>3, <2>1, <2>2 DEF Stage, UpdateType
<1>13. CASE OpenNew(u)
  <2>1. PICK h \in NewHandle : update' = [update EXCEPT ![u].pc = "swap", ![u].handle = h]
    BY <1>13 DEF OpenNew
  <2>2. r.pc = "open" /\ h # 0
    BY <1>13, IpdbConstants DEF OpenNew, At, NewHandle, Least
  <2> QED
    BY <1>1, <1>2, <1>3, <2>1, <2>2 DEF Stage, UpdateType
<1>14. CASE Swap(u)
  <2>1. update' = [update EXCEPT ![u].pc = "close", ![u].handle = wrapper.handle, ![u].old = wrapper.name]
    BY <1>14 DEF Swap
  <2>2. r.pc = "swap" /\ phase = "running" /\ wrapper.handle # 0
    BY <1>14 DEF Swap, At, Stages
  <2> QED
    BY <1>1, <1>2, <1>3, <2>1, <2>2 DEF Stage, UpdateType
<1>15. CASE CloseOld(u)
  <2>1. update' = [update EXCEPT ![u].pc = "remove", ![u].handle = 0]
    BY <1>15 DEF CloseOld
  <2>2. r.pc = "close"
    BY <1>15 DEF CloseOld, At
  <2> QED
    BY <1>1, <1>2, <1>3, <2>1, <2>2 DEF Stage, UpdateType
<1>16. CASE LimitPage(u) \/ OpenFails(u) \/ RemoveOld(u)
  BY <1>6, <1>16 DEF LimitPage, OpenFails, RemoveOld
<1> QED
  BY <1>8, <1>9, <1>10, <1>11, <1>12, <1>13, <1>14, <1>15, <1>16 DEF UpdateIPDB

\* The phases of InitIPDB and the stages of the updates go together.
LEMMA StagesStep ==
    ASSUME Types, Stages, [Next]_vars
    PROVE  Stages'
<1> DEFINE Phases(p, t, m, c, h, w, d) ==
              /\ p \in {"down", "failed"} => t = "idle"
              /\ p \in {"down", "starting"} => m = "idle"
              /\ p # "running" => \A e \in Cleaner : c[e] = NotCleaning
              /\ p # "running" <=> h = 0
              /\ p = "running" /\ t # "idle" => w = d
<1>1. /\ \A u \in Updater : Stage(update[u], phase)
      /\ Phases(phase, update[Task].pc, update[Message].pc, cleaner, wrapper.handle, woken, day)
  BY DEF Stages, Stage
<1>2. SUFFICES
      /\ \A u \in Updater : Stage(update'[u], phase')
      /\ Phases(phase', update'[Task].pc, update'[Message].pc, cleaner', wrapper'.handle, woken', day')
  BY DEF Stages, Stage
<1>3. update \in [Updater -> UpdateType] /\ cleaner \in [Cleaner -> CleanerType] /\ phase \in Phase
      /\ Task \in Updater /\ Message \in Updater /\ Task # Message
  BY DEF Types, UpdateTypes, CleanerTypes, ClockTypes, Updater, Task, Message
<1>4. ASSUME NEW u \in Updater, UpdateIPDB(u)
      PROVE  /\ \A v \in Updater : Stage(update'[v], phase')
             /\ Phases(phase', update'[Task].pc, update'[Message].pc, cleaner', wrapper'.handle, woken', day')
  <2>1. /\ Stage(update'[u], phase)
        /\ \A v \in Updater : v # u => update'[v] = update[v]
        /\ update[u].pc # "idle"
    BY <1>4, UpdateStage
  <2>2. \A v \in Updater : Stage(update'[v], phase)
    BY <1>1, <2>1
  <2>3. UNCHANGED <<day, woken>>
    BY <1>4 DEF UpdateIPDB, Allow, BeginDownload, DownloadFails, LimitPage, Extract, Copied, CopyFails, Verify, Rename,
       RenameFails, OpenNew, OpenFails, Swap, CloseOld, RemoveOld, clock
  <2>4. CASE Ends(u) /\ UNCHANGED wrapper
    <3>1. update'[u].pc = "idle" /\ update'[u] = NotUpdating
      BY <1>3, <2>4 DEF Ends, NotUpdating
    <3>2. phase' = IF u = Task /\ phase = "starting" THEN "failed" ELSE phase
      BY <2>4 DEF Ends
    <3>3. phase # "running" => cleaner' = cleaner
      BY <2>4 DEF Ends
    <3>4. CASE u = Task /\ phase = "starting"
      <4>1. update'[Message].pc = "idle" /\ update'[Message] = NotUpdating
        BY <1>1, <1>3, <2>1, <3>4 DEF Stage
      <4>2. \A v \in Updater : update'[v] = NotUpdating
        BY <3>1, <3>4, <4>1 DEF Updater
      <4> QED
        BY <1>1, <2>3, <2>4, <3>1, <3>2, <3>3, <3>4, <4>2, IdleStage
    <3>5. CASE ~(u = Task /\ phase = "starting")
      BY <1>1, <1>3, <2>1, <2>2, <2>3, <2>4, <3>1, <3>2, <3>3, <3>5
    <3> QED
      BY <3>4, <3>5
  <2>5. CASE UNCHANGED <<phase, wrapper, cleaner>>
    BY <1>1, <1>3, <2>1, <2>2, <2>3, <2>5
  <2>6. CASE Swap(u)
    <3>1. UNCHANGED <<phase, cleaner>> /\ phase = "running" /\ wrapper'.handle # 0
      BY <1>1, <2>6 DEF Swap, Serve, At, Stage
    <3> QED
      BY <1>1, <1>3, <2>1, <2>2, <2>3, <3>1
  <2>7. UNCHANGED <<phase, wrapper, cleaner>> \/ Swap(u) \/ (Ends(u) /\ UNCHANGED wrapper)
    BY <1>4 DEF UpdateIPDB, Allow, BeginDownload, DownloadFails, LimitPage, Extract, Copied, CopyFails, Verify, Rename,
       RenameFails, OpenNew, OpenFails, CloseOld, RemoveOld
  <2> QED
    BY <2>4, <2>5, <2>6, <2>7
<1>5. CASE InitIPDB
  <2>1. phase = "down" /\ update' = update /\ UNCHANGED <<woken, day>>
    BY <1>5 DEF InitIPDB, clock
  <2>2. \A u \in Updater : update[u].pc = "idle" /\ update[u] = NotUpdating
    BY <1>1, <2>1 DEF Stage, Updater
  <2>3. \/ \E h \in NewHandle : wrapper'.handle = h /\ phase' = "running"
        \/ phase' = "failed" /\ UNCHANGED <<wrapper, cleaner>>
    BY <1>5 DEF InitIPDB, Serve
  <2>4. \A h \in NewHandle : h # 0
    BY IpdbConstants DEF NewHandle, Least
  <2> QED
    BY <1>1, <1>3, <2>1, <2>2, <2>3, <2>4, IdleStage
<1>6. ASSUME NEW u \in Updater, update' = Begin(u), UNCHANGED <<wrapper>>, update[u].pc = "idle"
      PROVE  /\ Stage(update'[u], phase') /\ update'[u].pc = "allow"
             /\ \A v \in Updater : v # u => update'[v] = update[v]
  BY <1>3, <1>6 DEF Begin, Stage, NotUpdating
<1>7. CASE FirstDownload
  <2>1. /\ phase = "down" /\ phase' = "starting" /\ update' = Begin(Task)
        /\ UNCHANGED <<woken, day, wrapper, cleaner>>
    BY <1>7 DEF FirstDownload, clock
  <2>2. update[Task].pc = "idle" /\ update[Message].pc = "idle" /\ update[Message] = NotUpdating
    BY <1>1, <1>3, <2>1 DEF Stage
  <2>3. update'[Message] = update[Message] /\ Stage(update'[Task], phase')
    BY <1>3, <1>6, <2>1, <2>2
  <2>4. \A v \in Updater : Stage(update'[v], phase')
    BY <2>2, <2>3, IdleStage DEF Updater
  <2> QED
    BY <1>1, <2>1, <2>2, <2>3, <2>4
<1>8. CASE FirstServed
  <2>1. /\ phase = "starting" /\ phase' = "running" /\ wrapper'.handle = update[Task].handle
        /\ update[Task].pc = "swap" /\ update' = [update EXCEPT ![Task] = NotUpdating]
        /\ UNCHANGED <<woken, day>>
    BY <1>8 DEF FirstServed, clock, Serve, At
  <2>2. \A v \in Updater : update'[v] = NotUpdating
    BY <1>1, <1>3, <2>1 DEF Stage, Updater
  <2>3. wrapper'.handle # 0
    BY <1>1, <1>3, <2>1 DEF Stage
  <2> QED
    BY <1>3, <2>1, <2>2, <2>3, IdleStage
<1>9. CASE TaskWakes
  <2>1. /\ phase = "running" /\ phase' = phase /\ woken < day /\ woken' = day /\ day' = day
        /\ update' = update \/ update' = Begin(Task)
        /\ wrapper' = wrapper
    BY <1>9 DEF TaskWakes
  <2>2. update[Task].pc = "idle"
    <3>1. woken \in Int /\ day \in Int
      BY IpdbConstants DEF Types, ClockTypes, Day
    <3>2. woken # day
      BY <2>1, <3>1
    <3> QED
      BY <1>1, <2>1, <3>2
  <2>3. \A v \in Updater : Stage(update'[v], phase')
    BY <1>1, <1>3, <1>6, <2>1, <2>2
  <2> QED
    BY <1>1, <2>1, <2>3
<1>10. CASE TriggerIPDBUpdate
  <2>1. /\ phase \in {"running", "failed"} /\ update[Message].pc = "idle" /\ update' = Begin(Message)
        /\ UNCHANGED <<woken, day, wrapper, cleaner, phase>>
    BY <1>10 DEF TriggerIPDBUpdate, clock, At
  <2>2. \A v \in Updater : Stage(update'[v], phase')
    BY <1>1, <1>3, <1>6, <2>1
  <2>3. update'[Task] = update[Task]
    BY <1>3, <1>6, <2>1
  <2> QED
    BY <1>1, <2>1, <2>2, <2>3
<1>11. ASSUME NEW c \in Cleaner, Cleanup(c)
       PROVE  phase = "running" /\ UNCHANGED <<update, phase, wrapper, woken, day>>
  <2>1. UNCHANGED <<update, phase, wrapper, woken, day>>
    BY <1>11 DEF Cleanup, ListTemp, ListData, RemoveListed, clock
  <2>2. cleaner[c].pc # "idle" \/ cleaner[c].doomed # {}
    BY <1>11 DEF Cleanup, ListTemp, ListData, RemoveListed
  <2>3. cleaner[c] # NotCleaning
    BY <2>2 DEF NotCleaning
  <2> QED
    BY <1>1, <2>1, <2>3
<1>12. CASE \E c \in Cleaner : Cleanup(c)
  BY <1>1, <1>11, <1>12
<1>13. CASE Lookup \/ UNCHANGED vars
  BY <1>1, <1>13 DEF Lookup, Get, GetAll, vars, clock
<1>14. CASE Crash \/ NilWrapper
  <2>1. /\ phase' = "down" /\ wrapper'.handle = 0 /\ update' = [u \in Updater |-> NotUpdating]
        /\ cleaner' = [c \in Cleaner |-> NotCleaning]
    BY <1>14 DEF Crash, NilWrapper, Gone
  <2>2. \A v \in Updater : update'[v] = NotUpdating
    BY <2>1
  <2> QED
    BY <1>3, <2>1, <2>2, IdleStage
<1>15. CASE Midnight
  <2>1. /\ phase = "running" => update[Task].pc = "idle"
        /\ UNCHANGED <<update, phase, wrapper, cleaner>>
    BY <1>15 DEF Midnight, At
  <2> QED
    BY <1>1, <2>1
<1> QED
  BY <1>4, <1>5, <1>7, <1>8, <1>9, <1>10, <1>12, <1>13, <1>14, <1>15 DEF Next

-----------------------------------------------------------------------------
\* Every open handle has one owner: the wrapper, or the updater that closes it.
LEMMA OwnersStep ==
    ASSUME Types, Stages, Owners, [Next]_vars
    PROVE  Owners'
<1> DEFINE Own(opened, w, t, m) ==
              /\ opened = {w, t, m} \ {0}
              /\ w # 0 => w \notin {t, m}
              /\ t = m => t = 0
<1>1. Own(DOMAIN handle, wrapper.handle, update[Task].handle, update[Message].handle)
  BY DEF Owners, Owned, Updater
<1>2. Own(DOMAIN handle', wrapper'.handle, update'[Task].handle, update'[Message].handle) => Owners'
  <2>1. {update'[u].handle : u \in Updater} = {update'[Task].handle, update'[Message].handle}
    BY DEF Updater
  <2> QED
    BY <2>1 DEF Owners, Owned, Updater
<1>3. /\ update \in [Updater -> UpdateType] /\ Task \in Updater /\ Message \in Updater /\ Task # Message
      /\ \A u \in Updater : u = Task \/ u = Message
  BY DEF Types, UpdateTypes, Updater, Task, Message
<1>4. \A h \in NewHandle : h # 0 /\ h \notin DOMAIN handle \union {wrapper.handle} \union {update[u].handle : u \in Updater}
  BY IpdbConstants DEF NewHandle, Least, Taken
<1>5. \A u \in Updater : update[u].pc \notin {"swap", "close"} => update[u].handle = 0
  BY DEF Stages
<1>6. \A f, h, x : DOMAIN Bind(f, h, x) = DOMAIN f \union {h}
  BY DEF Bind
<1>7. ASSUME UNCHANGED <<handle, wrapper>>, \A u \in Updater : update'[u].handle = update[u].handle
      PROVE  Owners'
  BY <1>1, <1>2, <1>3, <1>7
<1>8. ASSUME NEW u \in Updater, update[u].pc \notin {"swap", "close"},
             Ends(u) \/ update' = Begin(u)
      PROVE  \A v \in Updater : update'[v].handle = update[v].handle
  <2>1. update[u].handle = 0
    BY <1>5, <1>8
  <2>2. NotUpdating.handle = 0 /\ [NotUpdating EXCEPT !.pc = "allow", !.since = day].handle = 0
    BY DEF NotUpdating
  <2>3. \E r : r.handle = 0 /\ update' = [update EXCEPT ![u] = r]
    BY <1>8, <2>2 DEF Ends, Begin
  <2> QED
    BY <1>3, <2>1, <2>3
<1>9. ASSUME NEW u \in Updater, OpenNew(u) PROVE Owners'
  <2> PICK h \in NewHandle : /\ handle' = Bind(handle, h, data[update[u].name])
                             /\ update' = [update EXCEPT ![u].pc = "swap", ![u].handle = h]
    BY <1>9 DEF OpenNew
  <2>1. wrapper' = wrapper /\ update[u].handle = 0
    BY <1>5, <1>9 DEF OpenNew, At
  <2>2. DOMAIN handle' = DOMAIN handle \union {h}
    BY <1>6
  <2>3. update'[u].handle = h /\ \A v \in Updater : v # u => update'[v] = update[v]
    BY <1>3 DEF UpdateType
  <2>4. h # 0 /\ h \notin {wrapper.handle, update[Task].handle, update[Message].handle}
    BY <1>3, <1>4
  <2>5. CASE u = Task
    BY <1>1, <1>2, <1>3, <2>1, <2>2, <2>3, <2>4, <2>5
  <2>6. CASE u = Message
    BY <1>1, <1>2, <1>3, <2>1, <2>2, <2>3, <2>4, <2>6
  <2> QED
    BY <1>3, <2>5, <2>6
<1>10. ASSUME NEW u \in Updater, Swap(u) PROVE Owners'
  <2>1. /\ update' = [update EXCEPT ![u].pc = "close", ![u].handle = wrapper.handle, ![u].old = wrapper.name]
        /\ wrapper'.handle = update[u].handle /\ handle' = handle
        /\ wrapper.handle # 0 /\ update[u].handle # 0
    BY <1>10 DEF Swap, Serve, At, Stages
  <2>2. update'[u].handle = wrapper.handle /\ \A v \in Updater : v # u => update'[v] = update[v]
    BY <1>3, <2>1 DEF UpdateType
  <2>3. CASE u = Task
    BY <1>1, <1>2, <1>3, <2>1, <2>2, <2>3
  <2>4. CASE u = Message
    BY <1>1, <1>2, <1>3, <2>1, <2>2, <2>4
  <2> QED
    BY <1>3, <2>3, <2>4
<1>11. ASSUME NEW u \in Updater, CloseOld(u) PROVE Owners'
  <2>1. /\ update' = [update EXCEPT ![u].pc = "remove", ![u].handle = 0]
        /\ wrapper' = wrapper /\ update[u].handle # 0
        /\ DOMAIN handle' = DOMAIN handle \ {update[u].handle}
    BY <1>11 DEF CloseOld, At, Stages, Drop, Restrict
  <2>2. update'[u].handle = 0 /\ \A v \in Updater : v # u => update'[v] = update[v]
    BY <1>3, <2>1 DEF UpdateType
  <2>3. CASE u = Task
    BY <1>1, <1>2, <1>3, <2>1, <2>2, <2>3
  <2>4. CASE u = Message
    BY <1>1, <1>2, <1>3, <2>1, <2>2, <2>4
  <2> QED
    BY <1>3, <2>3, <2>4
<1>12. ASSUME NEW u \in Updater,
              DownloadFails(u) \/ Extract(u) \/ Copied(u) \/ CopyFails(u) \/ Verify(u) \/ Rename(u) \/ RenameFails(u)
       PROVE  Owners'
  <2>1. \A v \in Updater : update'[v].handle = update[v].handle
    BY <1>3, <1>12 DEF DownloadFails, Extract, Copied, CopyFails, Verify, Rename, RenameFails, Goto, UpdateType
  <2>2. UNCHANGED <<handle, wrapper>>
    BY <1>12 DEF DownloadFails, Extract, Copied, CopyFails, Verify, Rename, RenameFails
  <2> QED
    BY <1>7, <2>1, <2>2
<1>13. ASSUME NEW u \in Updater,
              Allow(u) \/ BeginDownload(u) \/ LimitPage(u) \/ OpenFails(u) \/ RemoveOld(u)
       PROVE  Owners'
  <2>1. UNCHANGED <<handle, wrapper>> /\ update[u].pc \notin {"swap", "close"}
    BY <1>13 DEF Allow, BeginDownload, LimitPage, OpenFails, RemoveOld, At
  <2>2. \/ Ends(u)
        \/ update' = [update EXCEPT ![u].pc = "begin", ![u].tries = @ + 1]
        \/ update' = [update EXCEPT ![u].pc = "download", ![u].date = day]
    BY <1>13 DEF Allow, BeginDownload, LimitPage, OpenFails, RemoveOld
  <2>3. \A v \in Updater : update'[v].handle = update[v].handle
    BY <1>3, <1>8, <2>1, <2>2 DEF UpdateType
  <2> QED
    BY <1>7, <2>1, <2>3
<1>14. CASE InitIPDB
  <2>1. phase = "down" /\ update' = update
    BY <1>14 DEF InitIPDB
  <2>2. wrapper.handle = 0 /\ \A u \in Updater : update[u].handle = 0
    BY <1>3, <1>5, <2>1 DEF Stages
  <2>3. CASE UNCHANGED <<handle, wrapper>>
    BY <1>7, <2>1, <2>3
  <2>4. CASE \E h \in NewHandle : DOMAIN handle' = DOMAIN handle \union {h} /\ wrapper'.handle = h
    BY <1>1, <1>2, <1>3, <1>4, <2>1, <2>2, <2>4
  <2>5. ASSUME NEW h \in NewHandle, NEW n, handle' = Bind(handle, h, data[n]), Serve(h, n)
        PROVE  DOMAIN handle' = DOMAIN handle \union {h} /\ wrapper'.handle = h
    BY <1>6, <2>5 DEF Serve
  <2>6. \/ \E h \in NewHandle, n \in {Latest(DOMAIN data)} : handle' = Bind(handle, h, data[n]) /\ Serve(h, n)
        \/ UNCHANGED <<handle, wrapper>>
    BY <1>14 DEF InitIPDB
  <2> QED
    BY <2>3, <2>4, <2>5, <2>6
<1>15. CASE FirstServed
  <2>1. /\ phase = "starting" /\ wrapper'.handle = update[Task].handle /\ update[Task].handle # 0
        /\ update' = [update EXCEPT ![Task] = NotUpdating] /\ handle' = handle
    BY <1>3, <1>15 DEF FirstServed, Serve, At, Stages
  <2>2. wrapper.handle = 0 /\ update[Message].handle = 0
    BY <1>3, <1>5, <2>1 DEF Stages
  <2>3. update'[Task].handle = 0 /\ update'[Message] = update[Message]
    BY <1>3, <2>1 DEF NotUpdating
  <2> QED
    BY <1>1, <1>2, <2>1, <2>2, <2>3
<1>16. CASE FirstDownload \/ TaskWakes \/ TriggerIPDBUpdate
  <2>1. UNCHANGED <<handle, wrapper>>
    BY <1>16 DEF FirstDownload, TaskWakes, TriggerIPDBUpdate
  <2>2. \E u \in Updater : update' = update \/ (update[u].pc = "idle" /\ update' = Begin(u))
    <3>1. CASE FirstDownload \/ TriggerIPDBUpdate
      BY <1>3, <3>1 DEF FirstDownload, TriggerIPDBUpdate, At, Stages
    <3>2. CASE TaskWakes
      <4>1. woken < day /\ phase = "running" /\ woken \in Int /\ day \in Int
        BY <3>2, IpdbConstants DEF TaskWakes, Types, ClockTypes, Day
      <4>2. woken # day
        BY <4>1
      <4>3. update[Task].pc = "idle"
        BY <4>1, <4>2 DEF Stages
      <4> QED
        BY <1>3, <3>2, <4>3 DEF TaskWakes
    <3> QED
      BY <1>16, <3>1, <3>2
  <2> QED
    BY <1>7, <1>8, <2>1, <2>2
<1>17. CASE Lookup \/ Midnight \/ UNCHANGED vars \/ \E c \in Cleaner : Cleanup(c)
  <2>1. UNCHANGED <<handle, wrapper, update>>
    BY <1>17 DEF Lookup, Get, GetAll, Midnight, vars, Cleanup, ListTemp, ListData, RemoveListed
  <2> QED
    BY <1>7, <2>1
<1>18. CASE Crash \/ NilWrapper
  <2>1. /\ wrapper'.handle = 0 /\ update' = [u \in Updater |-> NotUpdating] /\ handle' = << >>
    BY <1>18 DEF Crash, NilWrapper, Gone
  <2>2. update'[Task].handle = 0 /\ update'[Message].handle = 0 /\ DOMAIN handle' = {}
    BY <1>3, <2>1 DEF NotUpdating
  <2> QED
    BY <1>2, <2>1, <2>2
<1> QED
  BY <1>9, <1>10, <1>11, <1>12, <1>13, <1>14, <1>15, <1>16, <1>17, <1>18 DEF Next, UpdateIPDB

\* A lookup never finds a closed handle but the one a swap has just replaced,
\* no open one is forgotten, and no two updates close the same one, whatever
\* the task and the messages do at once.
THEOREM HandlesOwned == Spec => []HandlesAreOwned
<1>1. Init => Stages /\ Owners
  <2> SUFFICES ASSUME Init PROVE Owners
    BY StagesInit
  <2>1. {Owned(u) : u \in Updater} = {0} /\ Owned(Task) = 0 /\ Owned(Message) = 0
    BY IdleStage DEF Init, Owned, Updater
  <2> QED
    BY <2>1 DEF Init, Owners
<1>2. Types /\ Stages /\ Owners /\ [Next]_vars => Types' /\ Stages' /\ Owners'
  BY TypesStep, StagesStep, OwnersStep
<1>3. Stages /\ Owners => HandlesAreOwned
  BY DEF Stages, Owners, HandlesAreOwned
<1> QED
  BY <1>1, <1>2, <1>3, TypesInit, PTL DEF Spec

-----------------------------------------------------------------------------
\* No updater begins to write, and every other one stays at the file and the
\* day where it is.
NobodyStarts ==
    \A v \in Updater :
        /\ update'[v].pc = "copy" =>
            update[v].pc = "copy" /\ update'[v].file = update[v].file /\ update'[v].date = update[v].date
        /\ update'[v].pc \in {"verify", "rename"} =>
            update[v].pc \in {"verify", "rename"} /\ update'[v].date = update[v].date

\* The directories lose names at most, but for what one gets from the other.
TempShrinks == DOMAIN temp' \subseteq DOMAIN temp /\ \A m \in DOMAIN temp' : temp'[m] = temp[m]

LEMMA FilesShrink ==
    ASSUME Types, Files, TempShrinks, NobodyStarts, Served' \subseteq Served,
           UNCHANGED <<whole, writer, spoilt>>
    PROVE  Files'
<1>1. \A m, n \in DOMAIN temp' : temp'[m] = temp'[n] => m = n
  BY DEF Files, TempShrinks
<1>2. \A n \in DOMAIN temp' : temp'[n] \notin Served'
  BY DEF Files, TempShrinks
<1>3. ASSUME NEW u \in Updater PROVE Extracted(u)'
  <2>1. Extracted(u) /\ Sound' = Sound
    BY DEF Files, Sound
  <2> HIDE DEF Sound
  <2>2. CASE update'[u].pc = "copy"
    BY <2>1, <2>2 DEF Extracted, BinName, TempShrinks, NobodyStarts
  <2>3. CASE update'[u].pc \in {"verify", "rename"}
    BY <2>1, <2>3 DEF Extracted, BinName, TempShrinks, NobodyStarts
  <2> QED
    BY <2>2, <2>3 DEF Extracted
<1>4. Served' \subseteq Sound'
  BY DEF Files, Sound
<1> HIDE DEF Served, Extracted, Sound
<1> QED
  BY <1>1, <1>2, <1>3, <1>4 DEF Files

\* The file an extraction truncates is neither installed nor served, and is no
\* file another updater works on, unless the two meet.
LEMMA ExtractFiles ==
    ASSUME Types, Stages, Files, NEW u \in Updater, Extract(u)
    PROVE  Files'
<1> DEFINE n == BinName(u)
<1>1. PICK f \in IF n \in DOMAIN temp THEN {temp[n]} ELSE NewFile :
          /\ temp' = Bind(temp, n, f)
          /\ whole' = whole \ {f}
          /\ writer' = [writer EXCEPT ![f] = u]
          /\ update' = [update EXCEPT ![u].pc = "copy", ![u].file = f]
          /\ spoilt' = IF Meets(u) THEN spoilt \union {f} ELSE spoilt \ {f}
  BY DEF Extract
<1>2. UNCHANGED <<data, handle>>
  BY DEF Extract
<1>3. /\ update \in [Updater -> UpdateType] /\ writer \in [File -> Updater \union {"nobody"}]
      /\ temp \in [DOMAIN temp -> File]
  BY DEF Types, UpdateTypes, DiskTypes, IsDirectory
<1>4. f \in File /\ f \notin Served
  BY <1>1, <1>3 DEF Files, NewFile, Least, Held, Served
<1>5. ASSUME n \notin DOMAIN temp
      PROVE  (\A m \in DOMAIN temp : temp[m] # f) /\ \A v \in Updater : update[v].file # f
  BY <1>1, <1>5 DEF NewFile, Least, Held, Range
<1>6. \A m \in DOMAIN temp : temp[m] = f <=> m = n
  BY <1>1, <1>5 DEF Files
<1>7. /\ DOMAIN temp' = DOMAIN temp \union {n} /\ temp'[n] = f
      /\ \A m \in DOMAIN temp : m # n => temp'[m] = temp[m]
  BY <1>1 DEF Bind
<1>8. \A m \in DOMAIN temp' : temp'[m] = f <=> m = n
  BY <1>6, <1>7
<1>9. /\ update'[u].pc = "copy" /\ update'[u].file = f /\ update'[u].date = update[u].date
      /\ \A v \in Updater : v # u => update'[v] = update[v]
  BY <1>1, <1>3 DEF UpdateType
<1>10. Served' = Served
  BY <1>2 DEF Served
<1>11. /\ Meets(u) => f \in spoilt'
       /\ \A g : g # f => (g \in Sound' <=> g \in Sound) /\ (g \in spoilt' <=> g \in spoilt)
       /\ spoilt' \subseteq Sound'
  BY <1>1 DEF Sound
<1>12. \A v \in Updater : v # u /\ update[v].pc \in {"copy", "verify", "rename"} /\ BinName(v) = n => Meets(u)
  BY DEF Meets
<1> HIDE DEF n, Served, Sound, Meets
<1>13. \A l, m \in DOMAIN temp' : temp'[l] = temp'[m] => l = m
  <2>1. \A l, m \in DOMAIN temp : temp[l] = temp[m] => l = m
    BY DEF Files
  <2> QED
    BY <1>7, <1>8, <2>1
<1>14. \A m \in DOMAIN temp' : temp'[m] \notin Served'
  BY <1>4, <1>7, <1>10 DEF Files
<1>15. Served' \subseteq Sound'
  BY <1>4, <1>10, <1>11 DEF Files
<1>16. ASSUME NEW v \in Updater, v # u PROVE Extracted(v)'
  <2>1. Extracted(v)
    BY DEF Files
  <2>2. update'[v] = update[v] /\ BinName(v)' = BinName(v)
    BY <1>9, <1>16 DEF BinName
  <2>3. ASSUME BinName(v) \in DOMAIN temp', update[v].pc \in {"copy", "verify", "rename"},
               BinName(v) \in DOMAIN temp => temp[BinName(v)] \in Sound
        PROVE  temp'[BinName(v)] \in Sound'
    <3>1. CASE BinName(v) = n
      BY <1>7, <1>11, <1>12, <1>16, <2>3, <3>1
    <3>2. CASE BinName(v) # n
      <4>1. BinName(v) \in DOMAIN temp /\ temp'[BinName(v)] = temp[BinName(v)] /\ temp[BinName(v)] # f
        BY <1>6, <1>7, <2>3, <3>2
      <4> QED
        BY <1>11, <2>3, <4>1
    <3> QED
      BY <3>1, <3>2
  <2>4. CASE update[v].pc = "copy"
    <3> DEFINE g == update[v].file
    <3>1. /\ g \in File
          /\ writer[g] = v \/ g \in spoilt
          /\ \A m \in DOMAIN temp : temp[m] = g => m = BinName(v)
          /\ BinName(v) \in DOMAIN temp => temp[BinName(v)] = g \/ temp[BinName(v)] \in Sound
      BY <2>1, <2>4 DEF Extracted, Types, UpdateTypes
    <3> HIDE DEF g
    <3>2. CASE g = f
      <4>1. BinName(v) = n /\ f \in spoilt'
        BY <1>5, <1>6, <1>11, <1>12, <1>16, <2>4, <3>1, <3>2 DEF g
      <4> QED
        BY <1>7, <1>8, <2>2, <2>4, <3>2, <4>1 DEF Extracted, g
    <3>3. CASE g # f
      <4>1. writer'[g] = v \/ g \in spoilt'
        BY <1>1, <1>3, <1>11, <3>1, <3>3
      <4>2. \A m \in DOMAIN temp' : temp'[m] = g => m = BinName(v)
        BY <1>7, <3>1, <3>3
      <4>3. BinName(v) \in DOMAIN temp' => temp'[BinName(v)] = g \/ temp'[BinName(v)] \in Sound'
        BY <1>7, <1>11, <1>12, <1>16, <2>3, <2>4, <3>1
      <4> QED
        BY <2>2, <2>4, <4>1, <4>2, <4>3 DEF Extracted, g
    <3> QED
      BY <3>2, <3>3
  <2>5. CASE update[v].pc \in {"verify", "rename"}
    <3>1. BinName(v) \in DOMAIN temp => temp[BinName(v)] \in Sound
      BY <2>1, <2>5 DEF Extracted
    <3> QED
      BY <2>2, <2>3, <2>5, <3>1 DEF Extracted
  <2> QED
    BY <2>2, <2>4, <2>5 DEF Extracted
<1>17. Extracted(u)'
  <2>1. writer'[f] = u
    BY <1>1, <1>3, <1>4
  <2>2. BinName(u)' = n
    BY <1>9 DEF BinName, n
  <2> QED
    BY <1>7, <1>8, <1>9, <2>1, <2>2 DEF Extracted
<1>18. \A v \in Updater : Extracted(v)'
  BY <1>16, <1>17
<1> QED
  BY <1>13, <1>14, <1>15, <1>18 DEF Files

\* A copy that ends makes the file complete unless another one truncated it or
\* its close fails.
LEMMA CopyFiles ==
    ASSUME Types, Files, NEW u \in Updater, Copied(u) \/ CopyFails(u)
    PROVE  Files'
<1> DEFINE f == update[u].file
<1>1. /\ update[u].pc = "copy" /\ f \in File
      /\ update \in [Updater -> UpdateType] /\ writer \in [File -> Updater \union {"nobody"}]
  BY DEF Types, UpdateTypes, DiskTypes, Copied, CopyFails, At
<1>2. /\ UNCHANGED <<data, temp, handle>>
      /\ writer' = IF writer[f] = u THEN [writer EXCEPT ![f] = "nobody"] ELSE writer
      /\ whole \subseteq whole' /\ spoilt \subseteq spoilt'
  BY DEF Copied, CopyFails, Stopped, history
<1>3. PICK pc \in {"verify", "allow"} :
          /\ update' = [update EXCEPT ![u].pc = pc, ![u].file = 0]
          /\ pc = "verify" /\ writer[f] = u => f \in whole' \union spoilt'
  BY DEF Copied, CopyFails
<1>4. /\ update'[u].pc = pc /\ update'[u].date = update[u].date
      /\ \A v \in Updater : v # u => update'[v] = update[v]
  BY <1>1, <1>3 DEF UpdateType
<1>5. Served' = Served /\ Sound \subseteq Sound'
  BY <1>2 DEF Served, Sound
<1>6. \A v \in Updater : BinName(v)' = BinName(v)
  BY <1>4 DEF BinName
<1> HIDE DEF f
<1>7. Extracted(u)'
  <2>1. /\ writer[f] = u \/ f \in spoilt
        /\ BinName(u) \in DOMAIN temp => temp[BinName(u)] = f \/ temp[BinName(u)] \in Sound
    BY <1>1 DEF Files, Extracted, f
  <2>2. pc = "verify" => f \in Sound'
    BY <1>2, <1>3, <2>1 DEF Sound
  <2> HIDE DEF Sound
  <2> QED
    BY <1>2, <1>4, <1>5, <1>6, <2>1, <2>2 DEF Extracted
<1>8. ASSUME NEW v \in Updater, v # u PROVE Extracted(v)'
  <2>1. Extracted(v) /\ update'[v] = update[v]
    BY <1>4, <1>8 DEF Files
  <2>2. update[v].pc = "copy" => writer'[update[v].file] = v \/ update[v].file \in spoilt'
    BY <1>1, <1>2, <1>8, <2>1 DEF Extracted, Types, UpdateTypes
  <2> HIDE DEF Sound
  <2> QED
    BY <1>2, <1>5, <1>6, <2>1, <2>2 DEF Extracted
<1>9. \A v \in Updater : Extracted(v)'
  BY <1>7, <1>8
<1>10. /\ \A m, n \in DOMAIN temp' : temp'[m] = temp'[n] => m = n
       /\ \A n \in DOMAIN temp' : temp'[n] \notin Served'
       /\ Served' \subseteq Sound'
  BY <1>2, <1>5 DEF Files
<1> QED
  BY <1>9, <1>10 DEF Files

\* What is installed was complete in temp, or spoilt, and is there no more.
LEMMA RenameFiles ==
    ASSUME Types, Files, NEW u \in Updater, Rename(u)
    PROVE  Files'
<1> DEFINE n == BinName(u)
<1>1. n \in DOMAIN temp /\ update[u].pc = "rename"
      /\ update \in [Updater -> UpdateType] /\ data \in [DOMAIN data -> File] /\ temp \in [DOMAIN temp -> File]
  BY DEF Types, UpdateTypes, DiskTypes, IsDirectory, Rename, At
<1>2. PICK t : /\ data' = Bind(data, t, temp[n]) /\ temp' = Drop(temp, n)
               /\ update' = [update EXCEPT ![u].pc = "open", ![u].name = t]
  BY DEF Rename
<1>3. UNCHANGED <<handle, writer, spoilt>> /\ Sound' = Sound
  BY DEF Rename, history, Sound
<1>4. Served' \subseteq Served \union {temp[n]}
  <2>1. temp[n] \in File
    BY <1>1
  <2>2. Range(Bind(data, t, temp[n])) \subseteq Range(data) \union {temp[n]}
    BY <1>1, <2>1, BindIs
  <2> QED
    BY <1>2, <1>3, <2>2 DEF Served
<1>5. DOMAIN temp' = DOMAIN temp \ {n} /\ \A m \in DOMAIN temp' : temp'[m] = temp[m]
  BY <1>2 DEF Drop, Restrict
<1>6. /\ update'[u].pc = "open"
      /\ \A v \in Updater : v # u => update'[v] = update[v]
  BY <1>1, <1>2 DEF UpdateType
<1> HIDE DEF n, Sound
<1>7. /\ \A l, m \in DOMAIN temp' : temp'[l] = temp'[m] => l = m
      /\ \A m \in DOMAIN temp' : temp'[m] \notin Served'
  BY <1>1, <1>4, <1>5 DEF Files
<1>8. Served' \subseteq Sound'
  <2>1. Extracted(u) /\ Served \subseteq Sound
    BY DEF Files
  <2> QED
    BY <1>1, <1>3, <1>4, <2>1 DEF Extracted, n
<1>9. ASSUME NEW v \in Updater PROVE Extracted(v)'
  <2>1. Extracted(v)
    BY DEF Files
  <2>2. CASE v = u
    BY <1>6, <2>2 DEF Extracted
  <2>3. CASE v # u
    <3>1. update'[v] = update[v] /\ BinName(v)' = BinName(v)
      BY <1>6, <2>3 DEF BinName
    <3> QED
      BY <1>3, <1>5, <2>1, <3>1 DEF Extracted
  <2> QED
    BY <2>2, <2>3
<1> QED
  BY <1>7, <1>8, <1>9 DEF Files

\* Every other step leaves the files it does not take away as they are.
LEMMA FilesStep ==
    ASSUME Types, Stages, Files, [Next]_vars
    PROVE  Files'
<1>1. /\ update \in [Updater -> UpdateType] /\ data \in [DOMAIN data -> File] /\ temp \in [DOMAIN temp -> File]
      /\ handle \in [DOMAIN handle -> File]
  BY DEF Types, UpdateTypes, DiskTypes, IsDirectory, HandleTypes
<1>2. ASSUME NEW h, NEW n \in DOMAIN data, handle' = Bind(handle, h, data[n]), data' = data
      PROVE  Served' \subseteq Served
  <2>1. data[n] \in File /\ data[n] \in Range(data)
    BY <1>1 DEF Range
  <2>2. Range(Bind(handle, h, data[n])) \subseteq Range(handle) \union {data[n]}
    BY <1>1, <2>1, BindIs
  <2> QED
    BY <1>2, <2>1, <2>2 DEF Served
<1>3. \A n : Range(Removed(data, n)) \subseteq Range(data)
  BY DEF Removed, Drop, Restrict, Range
<1>4. ASSUME NEW n, temp' = Removed(temp, n) PROVE TempShrinks
  BY <1>4 DEF Removed, Drop, Restrict, TempShrinks
<1>5. UNCHANGED temp => TempShrinks
  BY DEF TempShrinks
<1>6. UNCHANGED <<data, handle>> => Served' \subseteq Served
  BY DEF Served
<1>7. ASSUME NEW u \in Updater, NEW r, update' = [update EXCEPT ![u] = r],
             r.pc \notin {"copy", "verify", "rename"}
      PROVE  NobodyStarts
  BY <1>1, <1>7 DEF NobodyStarts
<1>8. ASSUME NEW u \in Updater, Ends(u) \/ update' = Begin(u) PROVE NobodyStarts
  <2>1. NotUpdating.pc = "idle" /\ [NotUpdating EXCEPT !.pc = "allow", !.since = day].pc = "allow"
    BY DEF NotUpdating
  <2> QED
    BY <1>7, <1>8, <2>1 DEF Ends, Begin
<1>9. UNCHANGED update => NobodyStarts
  BY DEF NobodyStarts
<1>10. ASSUME NEW u \in Updater,
              Allow(u) \/ BeginDownload(u) \/ DownloadFails(u) \/ LimitPage(u) \/ RenameFails(u)
              \/ OpenFails(u) \/ Swap(u)
       PROVE  Files'
  <2>1. UNCHANGED <<data, temp, handle, whole, writer, spoilt>>
    BY <1>10 DEF Allow, BeginDownload, DownloadFails, LimitPage, RenameFails, OpenFails, Swap, Serve, disk, history
  <2>2. NobodyStarts
    <3>1. CASE Ends(u)
      BY <1>8, <3>1
    <3>2. CASE ~Ends(u)
      <4>1. \/ update' = [update EXCEPT ![u].pc = "begin", ![u].tries = @ + 1]
            \/ update' = [update EXCEPT ![u].pc = "download", ![u].date = day]
            \/ update' = [update EXCEPT ![u].pc = "allow"]
            \/ update' = [update EXCEPT ![u].pc = "close", ![u].handle = wrapper.handle, ![u].old = wrapper.name]
        BY <1>10, <3>2 DEF Allow, BeginDownload, DownloadFails, LimitPage, RenameFails, OpenFails, Swap, Goto
      <4> QED
        BY <1>1, <4>1 DEF NobodyStarts, UpdateType
    <3> QED
      BY <3>1, <3>2
  <2> QED
    BY <1>5, <1>6, <2>1, <2>2, FilesShrink
<1>11. ASSUME NEW u \in Updater, Verify(u) PROVE Files'
  <2>1. UNCHANGED <<data, handle, whole, writer, spoilt>> /\ TempShrinks
    BY <1>4, <1>5, <1>11 DEF Verify, history
  <2>2. update[u].pc = "verify" /\ \E pc \in {"rename", "allow"} : update' = [update EXCEPT ![u].pc = pc]
    BY <1>11 DEF Verify, Goto, At
  <2>3. NobodyStarts
    BY <1>1, <2>2 DEF NobodyStarts, UpdateType
  <2> QED
    BY <1>6, <2>1, <2>3, FilesShrink
<1>12. ASSUME NEW u \in Updater, OpenNew(u) PROVE Files'
  <2>1. UNCHANGED <<data, temp, whole, writer, spoilt>>
    BY <1>12 DEF OpenNew, disk, history
  <2>2. update[u].name \in DOMAIN data /\ \E h \in NewHandle : handle' = Bind(handle, h, data[update[u].name])
    BY <1>12 DEF OpenNew
  <2>3. NobodyStarts
    <3>1. \E h : update' = [update EXCEPT ![u].pc = "swap", ![u].handle = h]
      BY <1>12 DEF OpenNew
    <3> QED
      BY <1>1, <3>1 DEF NobodyStarts, UpdateType
  <2> QED
    BY <1>2, <1>5, <2>1, <2>2, <2>3, FilesShrink
<1>13. ASSUME NEW u \in Updater, CloseOld(u) PROVE Files'
  <2>1. UNCHANGED <<data, temp, whole, writer, spoilt>>
    BY <1>13 DEF CloseOld, disk, history
  <2>2. Served' \subseteq Served
    BY <1>13, <2>1 DEF CloseOld, Served, Range, Drop, Restrict
  <2>3. NobodyStarts
    <3>1. update' = [update EXCEPT ![u].pc = "remove", ![u].handle = 0]
      BY <1>13 DEF CloseOld
    <3> QED
      BY <1>1, <3>1 DEF NobodyStarts, UpdateType
  <2> QED
    BY <1>5, <2>1, <2>2, <2>3, FilesShrink
<1>14. ASSUME NEW u \in Updater, RemoveOld(u) PROVE Files'
  <2>1. UNCHANGED <<temp, handle, whole, writer, spoilt>> /\ NobodyStarts
    BY <1>8, <1>14 DEF RemoveOld, history
  <2>2. Served' \subseteq Served
    BY <1>3, <1>14, <2>1 DEF RemoveOld, Served
  <2> QED
    BY <1>5, <2>1, <2>2, FilesShrink
<1>15. ASSUME NEW c \in Cleaner, Cleanup(c) PROVE Files'
  <2>1. UNCHANGED <<handle, whole, writer, spoilt, update>> /\ NobodyStarts
    BY <1>9, <1>15 DEF Cleanup, ListTemp, ListData, RemoveListed, disk, history
  <2>2. (UNCHANGED temp \/ \E n : temp' = Removed(temp, n)) /\ (UNCHANGED data \/ \E n : data' = Removed(data, n))
    BY <1>15 DEF Cleanup, ListTemp, ListData, RemoveListed, disk
  <2>3. Served' \subseteq Served
    BY <1>3, <2>1, <2>2 DEF Served
  <2> QED
    BY <1>4, <1>5, <2>1, <2>2, <2>3, FilesShrink
<1>16. CASE InitIPDB
  <2>1. UNCHANGED <<data, temp, whole, writer, spoilt, update>> /\ NobodyStarts
    BY <1>9, <1>16 DEF InitIPDB, Serve, disk, history
  <2>2. Latest(DOMAIN data) \in DOMAIN data
    <3>1. DOMAIN data # {} /\ IsFiniteSet(DOMAIN data) /\ DOMAIN data \in SUBSET (Nat \X Nat)
      BY <1>16, IpdbConstants DEF InitIPDB, Types, DiskTypes, IsDirectory, Name, Day
    <3> QED
      BY <3>1, LatestExists
  <2>3. handle' = handle \/ \E h \in NewHandle : handle' = Bind(handle, h, data[Latest(DOMAIN data)])
    BY <1>16 DEF InitIPDB
  <2> QED
    BY <1>2, <1>5, <1>6, <2>1, <2>2, <2>3, FilesShrink
<1>17. CASE FirstDownload \/ FirstServed \/ TaskWakes \/ TriggerIPDBUpdate
  <2>1. UNCHANGED <<data, temp, handle, whole, writer, spoilt>>
    BY <1>17 DEF FirstDownload, FirstServed, TaskWakes, TriggerIPDBUpdate, Serve, disk, history
  <2>2. NobodyStarts
    <3>1. CASE FirstServed
      BY <1>7, <3>1, IdleStage DEF FirstServed, Updater
    <3>2. CASE FirstDownload \/ TaskWakes \/ TriggerIPDBUpdate
      BY <1>8, <1>9, <3>2 DEF FirstDownload, TaskWakes, TriggerIPDBUpdate, Updater
    <3> QED
      BY <1>17, <3>1, <3>2
  <2> QED
    BY <1>5, <1>6, <2>1, <2>2, FilesShrink
<1>18. CASE Lookup \/ Midnight \/ UNCHANGED vars
  <2>1. UNCHANGED <<data, temp, handle, whole, writer, spoilt, update>>
    BY <1>18 DEF Lookup, Get, GetAll, Midnight, vars, disk, history
  <2> QED
    BY <1>5, <1>6, <1>9, <2>1, FilesShrink
<1>19. CASE Crash \/ NilWrapper
  <2>1. /\ UNCHANGED <<data, temp, whole, spoilt>> /\ handle' = << >>
        /\ update' = [u \in Updater |-> NotUpdating]
    BY <1>19 DEF Crash, NilWrapper, Gone, history
  <2>2. \A u \in Updater : update'[u].pc = "idle"
    BY <2>1, IdleStage
  <2>3. \A u \in Updater : Extracted(u)'
    BY <2>2 DEF Extracted
  <2>4. Served' \subseteq Served /\ Sound' = Sound
    BY <2>1 DEF Served, Range, Sound
  <2> QED
    BY <2>1, <2>3, <2>4 DEF Files
<1> QED
  BY <1>10, <1>11, <1>12, <1>13, <1>14, <1>15, <1>16, <1>17, <1>18, <1>19, ExtractFiles, CopyFiles, RenameFiles
     DEF Next, UpdateIPDB

\* An extraction that failed or was killed is never installed or served: what
\* is, is complete, or its own extraction met another one or failed to close.
THEOREM InstalledComplete == Spec => []InstalledIsWhole
<1>1. Init => Stages /\ Files
  <2> SUFFICES ASSUME Init PROVE Files
    BY StagesInit
  <2>2. \A u \in Updater : update[u].pc = "idle"
    BY IdleStage DEF Init
  <2>3. \A u \in Updater : Extracted(u)
    BY <2>2 DEF Extracted
  <2>4. Served = {}
    BY DEF Init, Served, Range
  <2> QED
    BY <2>3, <2>4 DEF Init, Files
<1>2. Types /\ Stages /\ Files /\ [Next]_vars => Types' /\ Stages' /\ Files'
  BY TypesStep, StagesStep, FilesStep
<1>3. Files => InstalledIsWhole
  BY DEF Files, InstalledIsWhole, Served, Sound
<1> QED
  BY <1>1, <1>2, <1>3, TypesInit, PTL DEF Spec

-----------------------------------------------------------------------------
\* The task ends once a day, when the clean-up of the day before is over.
LEMMA ListingsStep ==
    ASSUME Types, Stages, Listings, [Next]_vars
    PROVE  Listings'
<1> DEFINE Over(p, t, w, d, c) == p = "running" /\ (t # "idle" \/ w # d) => c["after"] = NotCleaning
           Wants(c) == \A e \in Cleaner : c[e].doomed # {} => c[e].pc \in {"temp", "data"}
<1>1. Over(phase, update[Task].pc, woken, day, cleaner) /\ Wants(cleaner)
  BY DEF Listings
<1>2. Over(phase', update'[Task].pc, woken', day', cleaner') /\ Wants(cleaner') => Listings'
  BY DEF Listings
<1>3. /\ update \in [Updater -> UpdateType] /\ cleaner \in [Cleaner -> CleanerType]
      /\ Task \in Updater /\ "after" \in Cleaner /\ "before" \in Cleaner
      /\ NotCleaning.doomed = {}
  BY DEF Types, UpdateTypes, CleanerTypes, Updater, Cleaner, NotCleaning
<1>4. ASSUME NEW c \in Cleaner, cleaner' = Started(c), cleaner[c] = NotCleaning PROVE Wants(cleaner')
  BY <1>1, <1>3, <1>4 DEF Started, CleanerType
<1>5. ASSUME UNCHANGED <<phase, woken, day, cleaner>>,
             update'[Task].pc # "idle" => update[Task].pc # "idle"
      PROVE  Listings'
  BY <1>1, <1>2, <1>5
<1>6. ASSUME NEW u \in Updater, UpdateIPDB(u) PROVE Listings'
  <2>1. update'[Task].pc # "idle" => update[Task].pc # "idle"
    BY <1>3, <1>6, UpdateStage
  <2>2. UNCHANGED <<day, woken>>
    BY <1>6 DEF UpdateIPDB, Allow, BeginDownload, DownloadFails, LimitPage, Extract, Copied, CopyFails, Verify, Rename,
       RenameFails, OpenNew, OpenFails, Swap, CloseOld, RemoveOld, clock
  <2>3. CASE UNCHANGED <<phase, cleaner>>
    BY <1>5, <2>1, <2>2, <2>3
  <2>4. CASE Ends(u) /\ ~UNCHANGED <<phase, cleaner>>
    <3>1. u = Task /\ update'[Task].pc = "idle"
      BY <1>3, <2>4, IdleStage DEF Ends
    <3>2. CASE phase = "running"
      <4>1. cleaner' = Started("after") /\ phase' = phase
        BY <2>4, <3>1, <3>2 DEF Ends
      <4>2. update[Task].pc # "idle"
        BY <1>6, <3>1, UpdateStage
      <4>3. woken = day /\ cleaner["after"] = NotCleaning
        BY <1>1, <3>2, <4>2 DEF Stages
      <4> QED
        BY <1>2, <1>3, <1>4, <2>2, <3>1, <4>1, <4>3
    <3>3. CASE phase # "running"
      <4>1. cleaner' = cleaner /\ phase' # "running"
        BY <2>4, <3>1, <3>3 DEF Ends
      <4> QED
        BY <1>1, <1>2, <4>1
    <3> QED
      BY <3>2, <3>3
  <2>5. UNCHANGED <<phase, cleaner>> \/ Ends(u)
    BY <1>6 DEF UpdateIPDB, Allow, BeginDownload, DownloadFails, LimitPage, Extract, Copied, CopyFails, Verify, Rename,
       RenameFails, OpenNew, OpenFails, Swap, CloseOld, RemoveOld
  <2> QED
    BY <2>3, <2>4, <2>5
<1>7. CASE InitIPDB \/ FirstServed
  <2>1. phase # "running"
    BY <1>7 DEF InitIPDB, FirstServed
  <2>2. \A c \in Cleaner : cleaner[c] = NotCleaning
    BY <2>1 DEF Stages
  <2>3. cleaner' = cleaner \/ cleaner' = Started("before")
    BY <1>7 DEF InitIPDB, FirstServed
  <2>4. cleaner'["after"] = NotCleaning
    BY <1>3, <2>2, <2>3 DEF Started
  <2> QED
    BY <1>1, <1>2, <1>3, <1>4, <2>2, <2>3, <2>4
<1>8. CASE FirstDownload
  BY <1>1, <1>2, <1>8 DEF FirstDownload
<1>9. CASE TaskWakes
  <2>1. /\ phase = "running" /\ woken < day /\ cleaner["before"] = NotCleaning
        /\ cleaner' = Started("before")
    BY <1>9 DEF TaskWakes
  <2>2. woken # day
    <3>1. woken \in Int /\ day \in Int
      BY IpdbConstants DEF Types, ClockTypes, Day
    <3> QED
      BY <2>1, <3>1
  <2>3. cleaner'["after"] = NotCleaning
    BY <1>1, <1>3, <2>1, <2>2 DEF Started
  <2> QED
    BY <1>2, <1>3, <1>4, <2>1, <2>3
<1>10. CASE TriggerIPDBUpdate
  <2>1. update'[Task] = update[Task]
    BY <1>3, <1>10 DEF TriggerIPDBUpdate, Begin, Task, Message
  <2> QED
    BY <1>5, <1>10, <2>1 DEF TriggerIPDBUpdate, clock
<1>11. ASSUME NEW c \in Cleaner, Cleanup(c) PROVE Listings'
  <2>1. UNCHANGED <<update, phase, woken, day>>
    BY <1>11 DEF Cleanup, ListTemp, ListData, RemoveListed, clock
  <2>2. cleaner[c].pc # "idle" \/ cleaner[c].doomed # {}
    BY <1>11 DEF Cleanup, ListTemp, ListData, RemoveListed
  <2>3. cleaner[c] # NotCleaning
    BY <2>2 DEF NotCleaning
  <2>4. \E dir \in {"temp", "data"} : \E names : Doomed(c, dir, names)
    BY <1>1, <1>11 DEF Cleanup, ListTemp, ListData, RemoveListed
  <2> PICK dir \in {"temp", "data"} : \E names : Doomed(c, dir, names)
    BY <2>4
  <2> PICK names : Doomed(c, dir, names)
    OBVIOUS
  <2> DEFINE e == IF dir = "data" /\ names = {} THEN NotCleaning ELSE [pc |-> dir, doomed |-> names]
  <2>5. cleaner' = [cleaner EXCEPT ![c] = e]
    BY DEF Doomed
  <2>6. e.doomed # {} => e.pc \in {"temp", "data"}
    BY <1>3
  <2> HIDE DEF e
  <2> QED
    BY <1>1, <1>2, <1>3, <2>1, <2>3, <2>5, <2>6
<1>12. CASE Lookup \/ UNCHANGED vars
  BY <1>5, <1>12 DEF Lookup, Get, GetAll, vars, clock
<1>13. CASE Crash \/ NilWrapper
  <2>1. phase' = "down" /\ cleaner' = [c \in Cleaner |-> NotCleaning]
    BY <1>13 DEF Crash, NilWrapper, Gone
  <2> QED
    BY <1>2, <1>3, <2>1
<1>14. CASE Midnight
  <2>1. cleaner["after"] = NotCleaning /\ cleaner' = cleaner
    BY <1>3, <1>14 DEF Midnight
  <2> QED
    BY <1>1, <1>2, <2>1
<1> QED
  BY <1>6, <1>7, <1>8, <1>9, <1>10, <1>11, <1>12, <1>13, <1>14 DEF Next

-----------------------------------------------------------------------------
\* What Calendar says of the record of an updater.
Dated(r, d) ==
    /\ r.since <= d
    /\ r.date # 0 => r.since <= r.date /\ r.date <= d
    /\ r.pc \in {"open", "swap", "close", "remove"} => r.name[1] = r.date
    /\ r.pc \in {"close", "remove"} => r.old[1] <= r.name[1]

Fresh(r, new) == r.pc \in {"download", "copy", "verify", "rename", "open", "swap"} => new <= r.date

\* The days are numbers.
LEMMA DaysAreNumbers ==
    ASSUME Types
    PROVE  /\ day \in Int /\ newest \in Int /\ woken \in Int
           /\ \A u \in Updater : update[u].since \in Int /\ update[u].date \in Int
                                 /\ update[u].name[1] \in Int /\ update[u].old[1] \in Int
           /\ \A n \in DOMAIN data : n[1] \in Int
           /\ wrapper.name[1] \in Int
<1>1. 0 .. Days \subseteq Int /\ Day \subseteq Int
  BY IpdbConstants DEF Day
<1>2. \A n \in AnyName : n[1] \in Int
  BY <1>1 DEF AnyName
<1>3. \A n \in Name : n[1] \in Int
  BY <1>1 DEF Name
<1> QED
  BY <1>1, <1>2, <1>3 DEF Types, ClockTypes, UpdateTypes, UpdateType, HandleTypes, DiskTypes, IsDirectory

\* An updater at rest, and one that begins, has no days to keep.
LEMMA IdleDated ==
    ASSUME Types
    PROVE  /\ Dated(NotUpdating, day) /\ \A n : Fresh(NotUpdating, n)
           /\ LET b == [NotUpdating EXCEPT !.pc = "allow", !.since = day]
              IN  Dated(b, day) /\ (\A n : Fresh(b, n)) /\ b.pc = "allow" /\ b.since = day
<1>1. 0 <= day /\ day <= day
  BY IpdbConstants DEF Types, ClockTypes, Day
<1> QED
  BY <1>1 DEF NotUpdating, Dated, Fresh

\* The updater that takes a step keeps to its days.
LEMMA UpdateDated ==
    ASSUME Types, Calendar, NEW u \in Updater, UpdateIPDB(u)
    PROVE  /\ Dated(update'[u], day)
           /\ Fresh(update'[u], newest)
           /\ update'[u].pc # "idle" => update'[u].since = update[u].since
<1> DEFINE r == update[u]
           Good(s) == Dated(s, day) /\ Fresh(s, newest) /\ (s.pc # "idle" => s.since = r.since)
<1>1. update \in [Updater -> UpdateType] /\ r \in UpdateType
  BY DEF Types, UpdateTypes
<1>2. Dated(r, day) /\ Fresh(r, newest)
  BY DEF Calendar, Dated, Fresh
<1>3. /\ day \in Int /\ newest \in Int /\ newest <= day
      /\ r.since \in Int /\ r.date \in Int /\ r.name[1] \in Int /\ wrapper.name[1] \in Int
  BY DaysAreNumbers DEF Calendar
<1>4. NotUpdating.pc = "idle"
  BY DEF NotUpdating
<1>5. ASSUME NEW s, update' = [update EXCEPT ![u] = s], Good(s) PROVE Good(update'[u])
  BY <1>1, <1>5
<1>6. Ends(u) => Good(update'[u])
  BY <1>1, <1>4, IdleDated DEF Ends
<1>7. ASSUME NEW pc, Goto(u, pc), pc \in {"allow"} \/ (pc = "rename" /\ r.pc = "verify")
      PROVE  Good(update'[u])
  <2> DEFINE s == [r EXCEPT !.pc = pc]
  <2>1. Good(s)
    BY <1>1, <1>2, <1>7 DEF Dated, Fresh, UpdateType
  <2>2. update' = [update EXCEPT ![u] = s]
    BY <1>7 DEF Goto
  <2> QED
    BY <1>5, <2>1, <2>2
<1>8. CASE Allow(u)
  <2> DEFINE s == [r EXCEPT !.pc = "begin", !.tries = @ + 1]
  <2>1. Ends(u) \/ update' = [update EXCEPT ![u] = s]
    BY <1>8 DEF Allow
  <2>2. s.pc = "begin" /\ s.date = r.date /\ s.since = r.since
    BY <1>1 DEF UpdateType
  <2>3. Good(s)
    BY <1>2, <2>2 DEF Dated, Fresh
  <2> QED
    BY <1>5, <1>6, <2>1, <2>3
<1>17. CASE BeginDownload(u)
  <2> DEFINE s == [r EXCEPT !.pc = "download", !.date = day]
  <2>1. update' = [update EXCEPT ![u] = s]
    BY <1>17 DEF BeginDownload
  <2>2. s.pc = "download" /\ s.date = day /\ s.since = r.since
    BY <1>1 DEF UpdateType
  <2>3. Good(s)
    BY <1>2, <1>3, <2>2 DEF Dated, Fresh
  <2> QED
    BY <1>5, <2>1, <2>3
<1>9. CASE DownloadFails(u) \/ RenameFails(u) \/ Verify(u)
  BY <1>7, <1>9 DEF DownloadFails, RenameFails, Verify, At
<1>10. CASE Extract(u)
  <2> PICK f : update' = [update EXCEPT ![u].pc = "copy", ![u].file = f]
    BY <1>10 DEF Extract
  <2> DEFINE s == [r EXCEPT !.pc = "copy", !.file = f]
  <2>1. r.pc = "download"
    BY <1>10 DEF Extract, At
  <2>2. Good(s)
    BY <1>1, <1>2, <2>1 DEF Dated, Fresh, UpdateType
  <2> QED
    BY <1>5, <2>2
<1>11. CASE Copied(u) \/ CopyFails(u)
  <2> PICK pc \in {"verify", "allow"} : update' = [update EXCEPT ![u].pc = pc, ![u].file = 0]
    BY <1>11 DEF Copied, CopyFails
  <2> DEFINE s == [r EXCEPT !.pc = pc, !.file = 0]
  <2>1. r.pc = "copy"
    BY <1>11 DEF Copied, CopyFails, At
  <2>2. Good(s)
    BY <1>1, <1>2, <2>1 DEF Dated, Fresh, UpdateType
  <2> QED
    BY <1>5, <2>2
<1>12. CASE Rename(u)
  <2> PICK n : update' = [update EXCEPT ![u].pc = "open", ![u].name = n] /\ n[1] = r.date
    <3> DEFINE n == IF BinName(u) \in DOMAIN data /\ InUse(data[BinName(u)])
                   THEN <<BinName(u)[1], NextStamp>> ELSE BinName(u)
    <3>1. n[1] = r.date
      BY DEF BinName
    <3>2. update' = [update EXCEPT ![u].pc = "open", ![u].name = n]
      BY <1>12 DEF Rename
    <3> QED
      BY <3>1, <3>2
  <2> DEFINE s == [r EXCEPT !.pc = "open", !.name = n]
  <2>1. r.pc = "rename"
    BY <1>12 DEF Rename, At
  <2>2. Good(s)
    BY <1>1, <1>2, <2>1 DEF Dated, Fresh, UpdateType
  <2> QED
    BY <1>5, <2>2
<1>13. CASE OpenNew(u)
  <2> PICK h : update' = [update EXCEPT ![u].pc = "swap", ![u].handle = h]
    BY <1>13 DEF OpenNew
  <2> DEFINE s == [r EXCEPT !.pc = "swap", !.handle = h]
  <2>1. r.pc = "open"
    BY <1>13 DEF OpenNew, At
  <2>2. Good(s)
    BY <1>1, <1>2, <2>1 DEF Dated, Fresh, UpdateType
  <2> QED
    BY <1>5, <2>2
<1>14. CASE Swap(u)
  <2> DEFINE s == [r EXCEPT !.pc = "close", !.handle = wrapper.handle, !.old = wrapper.name]
  <2>1. r.pc = "swap" /\ phase = "running" /\ update' = [update EXCEPT ![u] = s]
    BY <1>14 DEF Swap, At
  <2>2. s.pc = "close" /\ s.old = wrapper.name /\ s.name = r.name /\ s.date = r.date /\ s.since = r.since
    BY <1>1 DEF UpdateType
  <2>3. wrapper.name[1] = newest /\ newest <= r.date /\ r.name[1] = r.date
    BY <1>2, <2>1 DEF Calendar, Dated, Fresh
  <2>4. Good(s)
    BY <1>2, <2>2, <2>3 DEF Dated, Fresh
  <2> QED
    BY <1>5, <2>1, <2>4
<1>15. CASE CloseOld(u)
  <2> DEFINE s == [r EXCEPT !.pc = "remove", !.handle = 0]
  <2>1. r.pc = "close" /\ update' = [update EXCEPT ![u] = s]
    BY <1>15 DEF CloseOld, At
  <2>2. Good(s)
    BY <1>1, <1>2, <2>1 DEF Dated, Fresh, UpdateType
  <2> QED
    BY <1>5, <2>1, <2>2
<1>16. CASE LimitPage(u) \/ OpenFails(u) \/ RemoveOld(u)
  BY <1>6, <1>16 DEF LimitPage, OpenFails, RemoveOld
<1> QED
  BY <1>8, <1>9, <1>10, <1>11, <1>12, <1>13, <1>14, <1>15, <1>16, <1>17 DEF UpdateIPDB

\* Updates that run at once while a database is served are of today: the one that
\* swaps last does not go back.
LEMMA CalendarStep ==
    ASSUME Types, Stages, Calendar, Kept, [Next]_vars
    PROVE  Calendar'
<1> DEFINE Together(p, d, t, m) == p = "running" /\ t.pc # "idle" => t.since = d /\ (m.pc # "idle" => m.since = d)
           Newest(p, w, n) == (p = "running" => w[1] = n /\ n \in Day) /\ (p = "starting" => n = 0)
<1>1. /\ newest <= day /\ \A n \in DOMAIN data : n[1] <= day
      /\ \A u \in Updater : Dated(update[u], day) /\ Fresh(update[u], newest)
      /\ Together(phase, day, update[Task], update[Message])
      /\ Newest(phase, wrapper.name, newest)
  BY DEF Calendar, Dated, Fresh
<1>2. /\ newest' <= day' /\ \A n \in DOMAIN data' : n[1] <= day'
      /\ \A u \in Updater : Dated(update'[u], day') /\ Fresh(update'[u], newest')
      /\ Together(phase', day', update'[Task], update'[Message])
      /\ Newest(phase', wrapper'.name, newest')
      => Calendar'
  BY DEF Calendar, Dated, Fresh
<1>3. /\ day \in Int /\ newest \in Int
      /\ \A u \in Updater : update[u].since \in Int /\ update[u].date \in Int
                            /\ update[u].name[1] \in Int /\ update[u].old[1] \in Int
      /\ \A n \in DOMAIN data : n[1] \in Int
  BY DaysAreNumbers
<1>4. /\ update \in [Updater -> UpdateType] /\ Task \in Updater /\ Message \in Updater /\ Task # Message
      /\ \A u \in Updater : u = Task \/ u = Message
  BY DEF Types, UpdateTypes, Updater, Task, Message
<1>5. NotUpdating.pc = "idle"
  BY DEF NotUpdating
<1>6. ASSUME NEW dir, NEW n PROVE DOMAIN Removed(dir, n) \subseteq DOMAIN dir
  BY DEF Removed, Drop, Restrict
<1>7. ASSUME NEW u \in Updater, UpdateIPDB(u) PROVE Calendar'
  <2>1. /\ Dated(update'[u], day) /\ Fresh(update'[u], newest)
        /\ update'[u].pc # "idle" => update'[u].since = update[u].since
    BY <1>7, UpdateDated
  <2>2. update[u].pc # "idle" /\ \A v \in Updater : v # u => update'[v] = update[v]
    BY <1>7, UpdateStage
  <2>3. day' = day
    BY <1>7 DEF UpdateIPDB, Allow, BeginDownload, DownloadFails, LimitPage, Extract, Copied, CopyFails, Verify, Rename,
       RenameFails, OpenNew, OpenFails, Swap, CloseOld, RemoveOld, clock
  <2>4. \A v \in Updater : update'[v].pc # "idle" => update[v].pc # "idle" /\ update'[v].since = update[v].since
    BY <2>1, <2>2
  <2>5. \A v \in Updater : Dated(update'[v], day) /\ Fresh(update'[v], newest)
    BY <1>1, <2>1, <2>2
  <2>6. \A n \in DOMAIN data' : n[1] <= day
    <3>1. CASE Rename(u)
      <4> DEFINE t == IF BinName(u) \in DOMAIN data /\ InUse(data[BinName(u)])
                      THEN <<BinName(u)[1], NextStamp>> ELSE BinName(u)
      <4>1. DOMAIN data' = DOMAIN data \union {t}
        BY <3>1 DEF Rename, Bind
      <4>2. t[1] = update[u].date
        BY DEF BinName
      <4>3. update[u].date # 0
        <5>1. update[u].date \in Day /\ 0 \notin Day
          BY <3>1 DEF Rename, At, Types, UpdateTypes, Day
        <5> QED
          BY <5>1
      <4>4. update[u].date <= day
        BY <1>1, <4>3 DEF Dated
      <4> HIDE DEF t
      <4> QED
        BY <1>1, <4>1, <4>2, <4>4
    <3>2. CASE ~Rename(u)
      <4>1. DOMAIN data' \subseteq DOMAIN data
        BY <1>6, <1>7, <3>2 DEF UpdateIPDB, Allow, BeginDownload, DownloadFails, LimitPage, Extract, Copied, CopyFails, Verify,
           RenameFails, OpenNew, OpenFails, Swap, CloseOld, RemoveOld, disk
      <4> QED
        BY <1>1, <4>1
    <3> QED
      BY <3>1, <3>2
  <2>7. CASE Swap(u)
    <3> DEFINE d == update[u].date
    <3>1. /\ update[u].pc = "swap" /\ phase = "running" /\ phase' = phase
          /\ Serve(update[u].handle, update[u].name) /\ update'[u].pc = "close"
      BY <1>4, <2>7 DEF Swap, At, UpdateType
    <3>2. update[u].handle \in Handle \union {0} /\ update[u].name \in AnyName /\ update[u].name \in Name
      BY <1>4, <3>1 DEF Types, UpdateTypes, UpdateType
    <3>3. newest' \in {newest, update[u].name[1]} /\ update[u].name[1] <= newest' /\ wrapper'.name = update[u].name
      BY <3>1, <3>2, ServeTypes DEF Types, Serve
    <3>4. update[u].name[1] = d /\ newest <= d
      BY <1>1, <3>1 DEF Dated, Fresh
    <3>5. newest' = d
      BY <1>3, <3>3, <3>4
    <3>6. d \in Day /\ d # 0
      BY <3>2, <3>4 DEF Name, Day
    <3>7. d <= day
      BY <1>1, <3>6 DEF Dated
    <3>8. ASSUME NEW v \in Updater, v # u, update[v].pc # "idle" PROVE update[u].since = day /\ update[v].since = day
      BY <1>1, <1>4, <2>2, <3>1, <3>8
    <3>9. ASSUME NEW v \in Updater, v # u,
                 update[v].pc \in {"download", "copy", "verify", "rename", "open", "swap"}
          PROVE  d <= update[v].date
      <4>1. update[v].date # 0
        <5>1. update[v].date \in Day /\ 0 \notin Day
          BY <3>9 DEF Types, UpdateTypes, Day
        <5> QED
          BY <5>1
      <4>2. update[v].since = day
        BY <3>8, <3>9
      <4>3. day <= update[v].date
        BY <1>1, <4>1, <4>2 DEF Dated
      <4> QED
        BY <1>3, <3>7, <4>3
    <3>10. ASSUME NEW v \in Updater PROVE Fresh(update'[v], newest')
      BY <2>2, <3>1, <3>5, <3>9 DEF Fresh
    <3>11. Together(phase', day', update'[Task], update'[Message])
      BY <1>1, <1>4, <2>3, <2>4, <3>1
    <3>12. Newest(phase', wrapper'.name, newest')
      BY <3>1, <3>3, <3>4, <3>5, <3>6
    <3> QED
      BY <1>2, <2>3, <2>5, <2>6, <3>5, <3>7, <3>10, <3>11, <3>12
  <2>8. CASE ~Swap(u)
    <3>1. UNCHANGED <<wrapper, newest>> /\ (phase' = phase \/ phase' = "failed")
      BY <1>7, <2>8 DEF UpdateIPDB, Allow, BeginDownload, DownloadFails, LimitPage, Extract, Copied, CopyFails, Verify, Rename,
         RenameFails, OpenNew, OpenFails, CloseOld, RemoveOld, Ends, history
    <3>2. Together(phase', day', update'[Task], update'[Message])
      BY <1>1, <1>4, <2>3, <2>4, <3>1
    <3> QED
      BY <1>1, <1>2, <2>3, <2>5, <2>6, <3>1, <3>2
  <2> QED
    BY <2>7, <2>8
<1>8. ASSUME NEW u \in Updater, update' = [update EXCEPT ![u] = NotUpdating] \/ update' = Begin(u)
      PROVE  /\ \A v \in Updater : Dated(update'[v], day) /\ Fresh(update'[v], newest)
             /\ \A v \in Updater : v # u => update'[v] = update[v]
             /\ update'[u].pc = "idle" \/ update'[u].since = day
  <2>1. \E s : /\ update' = [update EXCEPT ![u] = s]
               /\ Dated(s, day) /\ Fresh(s, newest) /\ (s.pc = "idle" \/ s.since = day)
    BY <1>5, <1>8, IdleDated DEF Begin
  <2> QED
    BY <1>1, <1>4, <2>1
<1>9. CASE InitIPDB
  <2> DEFINE n == Latest(DOMAIN data)
  <2>1. phase = "down" /\ UNCHANGED <<day, data, update>>
    BY <1>9 DEF InitIPDB, clock, disk
  <2>2. \A u \in Updater : update[u].pc = "idle" /\ update[u] = NotUpdating
    BY <1>4, <2>1 DEF Stages
  <2>3. DOMAIN data # {} /\ IsFiniteSet(DOMAIN data) /\ DOMAIN data \subseteq Name
        /\ Name \subseteq AnyName /\ Name \subseteq Nat \X Nat
    BY <1>9, IpdbConstants DEF InitIPDB, Types, DiskTypes, IsDirectory, Name, AnyName, Day
  <2>4. n \in DOMAIN data /\ \A m \in DOMAIN data : m = n \/ Before(m, n)
    BY <2>3, LatestExists
  <2> HIDE DEF n
  <2>5. n \in Name /\ n \in AnyName /\ n[1] \in Day
    BY <2>3, <2>4 DEF Name
  <2>6. \A m \in DOMAIN data : m[1] <= n[1]
    BY <1>3, <2>4 DEF Before
  <2>7. newest <= n[1]
    <3>1. CASE newest > 0
      <4>1. PICK m \in DOMAIN data : newest <= m[1]
        BY <3>1 DEF Kept
      <4>2. m[1] \in Int /\ n[1] \in Int /\ m[1] <= n[1]
        BY <1>3, <2>4, <2>6
      <4> QED
        BY <1>3, <4>1, <4>2
    <3>2. CASE ~(newest > 0)
      BY <1>3, <2>5, <3>2 DEF Day
    <3> QED
      BY <3>1, <3>2
  <2>8. ASSUME NEW h \in NewHandle, Serve(h, n), phase' = "running" PROVE Calendar'
    <3>1. newest' \in {newest, n[1]} /\ n[1] <= newest' /\ wrapper'.name = n
      BY <2>5, <2>8, ServeTypes DEF Types, Serve, NewHandle, Least
    <3>2. newest' = n[1]
      BY <1>3, <2>4, <2>7, <3>1
    <3>3. n[1] <= day
      BY <1>1, <2>4
    <3>4. \A u \in Updater : Dated(update'[u], day) /\ Fresh(update'[u], newest') /\ update'[u].pc = "idle"
      BY <2>1, <2>2, IdleDated
    <3> QED
      BY <1>1, <1>2, <1>4, <2>1, <2>5, <2>8, <3>1, <3>2, <3>3, <3>4
  <2>9. ASSUME phase' = "failed", UNCHANGED newest PROVE Calendar'
    BY <1>1, <1>2, <2>1, <2>9
  <2> QED
    BY <1>9, <2>8, <2>9 DEF InitIPDB, n, history
<1>10. CASE FirstDownload
  <2>1. /\ phase' = "starting" /\ update' = Begin(Task) /\ UNCHANGED <<day, data, newest>>
        /\ DOMAIN data = {}
    BY <1>10 DEF FirstDownload, clock, disk, history
  <2>2. newest = 0
    <3>1. ~(newest > 0) /\ newest \in 0 .. Days
      BY <2>1 DEF Kept, Types, ClockTypes
    <3> QED
      BY <3>1
  <2> QED
    BY <1>1, <1>2, <1>4, <1>8, <2>1, <2>2
<1>11. CASE FirstServed
  <2> DEFINE n == update[Task].name
  <2>1. /\ phase = "starting" /\ phase' = "running" /\ UNCHANGED <<day, data>>
        /\ update' = [update EXCEPT ![Task] = NotUpdating]
        /\ update[Task].pc = "swap" /\ Serve(update[Task].handle, n)
    BY <1>11 DEF FirstServed, At, clock, disk
  <2>2. update[Task].handle \in Handle \union {0} /\ n \in AnyName /\ n \in Name
    BY <1>4, <2>1 DEF Types, UpdateTypes, UpdateType
  <2>3. newest' \in {newest, n[1]} /\ n[1] <= newest' /\ wrapper'.name = n
    BY <2>1, <2>2, ServeTypes DEF Types, Serve
  <2>4. n[1] \in Day /\ newest = 0 /\ n[1] = update[Task].date
    BY <1>1, <1>4, <2>1, <2>2 DEF Name, Dated
  <2>5. newest' = n[1] /\ n[1] # 0
    BY <2>3, <2>4 DEF Day
  <2>6. n[1] <= day
    BY <1>1, <1>4, <2>4, <2>5 DEF Dated
  <2>7. update[Message].pc = "idle"
    BY <2>1 DEF Stages
  <2>8. \A v \in Updater : Dated(update'[v], day) /\ update'[v].pc = "idle"
    BY <1>4, <1>5, <1>8, <2>1, <2>7
  <2>9. \A v \in Updater : Fresh(update'[v], newest')
    BY <2>8 DEF Fresh
  <2> QED
    BY <1>1, <1>2, <1>4, <2>1, <2>3, <2>4, <2>5, <2>6, <2>8, <2>9
<1>12. CASE TaskWakes
  <2>1. /\ phase = "running" /\ UNCHANGED <<day, data, newest, wrapper, phase>>
        /\ \A u \in Updater : update[u].pc # "idle" => update[u].since = day
        /\ update' = update \/ update' = Begin(Task)
    BY <1>12 DEF TaskWakes, At, disk, history
  <2>2. CASE update' = update
    BY <1>1, <1>2, <2>1, <2>2
  <2>3. CASE update' = Begin(Task)
    BY <1>1, <1>2, <1>4, <1>8, <2>1, <2>3
  <2> QED
    BY <2>1, <2>2, <2>3
<1>13. CASE TriggerIPDBUpdate
  <2>1. update' = Begin(Message) /\ UNCHANGED <<day, data, newest, wrapper, phase>>
    BY <1>13 DEF TriggerIPDBUpdate, clock, disk, history
  <2> QED
    BY <1>1, <1>2, <1>4, <1>8, <2>1
<1>14. ASSUME NEW c \in Cleaner, Cleanup(c) PROVE Calendar'
  <2>1. UNCHANGED <<day, update, newest, wrapper, phase>>
    BY <1>14 DEF Cleanup, ListTemp, ListData, RemoveListed, clock, history
  <2>2. DOMAIN data' \subseteq DOMAIN data
    BY <1>6, <1>14 DEF Cleanup, ListTemp, ListData, RemoveListed, disk
  <2> QED
    BY <1>1, <1>2, <2>1, <2>2
<1>15. CASE Lookup \/ UNCHANGED vars
  <2>1. UNCHANGED <<day, data, update, newest, wrapper, phase>>
    BY <1>15 DEF Lookup, Get, GetAll, vars, clock, disk, history
  <2> QED
    BY <1>1, <1>2, <2>1
<1>16. CASE Crash \/ NilWrapper
  <2>1. /\ phase' = "down" /\ UNCHANGED <<day, data, newest>>
        /\ update' = [u \in Updater |-> NotUpdating]
    BY <1>16 DEF Crash, NilWrapper, Gone, clock, history
  <2>2. \A u \in Updater : Dated(update'[u], day) /\ Fresh(update'[u], newest)
    BY <2>1, IdleDated
  <2> QED
    BY <1>1, <1>2, <2>1, <2>2
<1>17. CASE Midnight
  <2>1. /\ UNCHANGED <<data, update, newest, wrapper, phase>> /\ day' = day + 1
        /\ phase = "running" => update[Task].pc = "idle"
    BY <1>17 DEF Midnight, At, disk, history
  <2>2. \A u \in Updater : Dated(update'[u], day') /\ Fresh(update'[u], newest')
    BY <1>1, <1>3, <2>1 DEF Dated, Fresh
  <2>3. newest' <= day' /\ \A n \in DOMAIN data' : n[1] <= day'
    BY <1>1, <1>3, <2>1
  <2> QED
    BY <1>1, <1>2, <2>1, <2>2, <2>3
<1> QED
  BY <1>7, <1>9, <1>10, <1>11, <1>12, <1>13, <1>14, <1>15, <1>16, <1>17 DEF Next

-----------------------------------------------------------------------------
\* On a platform that locks files in use, what is served stays where it is.
LEMMA LockedStep ==
    ASSUME Types, Stages, Owners, Locked, windows, [Next]_vars
    PROVE  Locked'
<1> DEFINE Stays == \A h \in DOMAIN handle : \A n : InPlace(h, n) => n \in DOMAIN data' /\ data'[n] = handle[h]
<1>1. /\ update \in [Updater -> UpdateType] /\ data \in [DOMAIN data -> File] /\ temp \in [DOMAIN temp -> File]
      /\ Task \in Updater /\ Message \in Updater /\ \A u \in Updater : u = Task \/ u = Message
  BY DEF Types, UpdateTypes, DiskTypes, IsDirectory, Updater, Task, Message
<1>2. /\ phase = "running" => wrapper.handle \in DOMAIN handle
      /\ \A u \in Updater : update[u].pc = "swap" => update[u].handle \in DOMAIN handle
  <2>1. DOMAIN handle = {wrapper.handle, update[Task].handle, update[Message].handle} \ {0}
    BY DEF Owners, Owned, Updater
  <2> QED
    BY <1>1, <2>1 DEF Stages
<1>3. /\ phase = "running" => InPlace(wrapper.handle, wrapper.name)
      /\ \A u \in Updater : update[u].pc = "swap" => InPlace(update[u].handle, update[u].name)
  BY DEF Locked
<1>4. \A h \in DOMAIN handle : InUse(handle[h])
  BY DEF InUse, Range
<1>5. UNCHANGED data => Stays
  BY DEF InPlace
<1>6. ASSUME NEW k, data' = Removed(data, k) PROVE Stays
  <2>1. CASE data' = data
    BY <1>5, <2>1
  <2>2. CASE data' # data
    <3>1. k \in DOMAIN data /\ ~InUse(data[k]) /\ data' = Drop(data, k)
      BY <1>6, <2>2 DEF Removed
    <3>2. DOMAIN data' = DOMAIN data \ {k} /\ \A n \in DOMAIN data' : data'[n] = data[n]
      BY <3>1 DEF Drop, Restrict
    <3> QED
      BY <1>4, <3>1, <3>2 DEF InPlace
  <2> QED
    BY <2>1, <2>2
<1>7. ASSUME NEW u \in Updater, Rename(u) PROVE Stays
  <2> DEFINE n == BinName(u)
             t == IF n \in DOMAIN data /\ InUse(data[n]) THEN <<n[1], NextStamp>> ELSE n
  <2>1. data' = Bind(data, t, temp[n])
    BY <1>7 DEF Rename
  <2>2. \A k \in DOMAIN data : k[2] < NextStamp
    BY NextStampIsLater
  <2>3. <<n[1], NextStamp>> \notin DOMAIN data
    <3>1. NextStamp \in Nat
      BY NextStampIsLater
    <3> DEFINE s == NextStamp
    <3>2. s \in Nat /\ (<<n[1], s>> \in DOMAIN data => <<n[1], s>>[2] < s)
      BY <2>2, <3>1
    <3> HIDE DEF s, n
    <3>3. <<n[1], s>>[2] = s /\ ~(s < s)
      BY <3>2
    <3>4. <<n[1], s>> \notin DOMAIN data
      BY <3>2, <3>3
    <3> QED
      BY <3>4 DEF s
  <2>4. t \in DOMAIN data => ~InUse(data[t])
    BY <2>3
  <2> HIDE DEF t, n
  <2>5. \A k \in DOMAIN data : k # t => k \in DOMAIN data' /\ data'[k] = data[k]
    BY <2>1 DEF Bind
  <2> QED
    BY <1>4, <2>4, <2>5 DEF InPlace
<1>8. ASSUME Stays, UNCHANGED <<handle, wrapper>>, phase' = "running" => phase = "running",
             \A v \in Updater : update'[v].pc = "swap" =>
                 update[v].pc = "swap" /\ update'[v].handle = update[v].handle /\ update'[v].name = update[v].name
      PROVE  Locked'
  <2>1. phase' = "running" => InPlace(wrapper.handle, wrapper.name)'
    BY <1>2, <1>3, <1>8 DEF InPlace
  <2>2. ASSUME NEW v \in Updater, update'[v].pc = "swap" PROVE InPlace(update[v].handle, update[v].name)'
    BY <1>2, <1>3, <1>8, <2>2 DEF InPlace
  <2> QED
    BY <2>1, <2>2 DEF Locked
<1>9. ASSUME NEW u \in Updater, UpdateIPDB(u), ~OpenNew(u) PROVE update'[u].pc # "swap"
  <2>1. Ends(u) => update'[u].pc = "idle"
    BY <1>1, IdleStage DEF Ends
  <2>2. CASE Allow(u) \/ BeginDownload(u)
    BY <1>1, <2>1, <2>2 DEF Allow, BeginDownload, UpdateType
  <2>3. CASE Extract(u) \/ Copied(u) \/ CopyFails(u)
    <3>1. PICK pc, f : pc # "swap" /\ update' = [update EXCEPT ![u].pc = pc, ![u].file = f]
      BY <2>3 DEF Extract, Copied, CopyFails
    <3>2. update'[u] = [update[u] EXCEPT !.pc = pc, !.file = f]
      BY <1>1, <3>1
    <3>3. \A r \in UpdateType : [r EXCEPT !.pc = pc, !.file = f].pc = pc
      BY DEF UpdateType
    <3> QED
      BY <1>1, <3>1, <3>2, <3>3
  <2>4. CASE Rename(u) \/ Swap(u) \/ CloseOld(u)
    BY <1>1, <2>4 DEF Rename, Swap, CloseOld, UpdateType
  <2>5. CASE DownloadFails(u) \/ Verify(u) \/ RenameFails(u)
    BY <1>1, <2>5 DEF DownloadFails, Verify, RenameFails, Goto, UpdateType
  <2>6. CASE LimitPage(u) \/ OpenFails(u) \/ RemoveOld(u)
    BY <2>1, <2>6 DEF LimitPage, OpenFails, RemoveOld
  <2> QED
    BY <1>9, <2>2, <2>3, <2>4, <2>5, <2>6 DEF UpdateIPDB
<1>10. ASSUME NEW u \in Updater, UpdateIPDB(u) PROVE Locked'
  <2>1. \A v \in Updater : v # u => update'[v] = update[v]
    BY <1>10, UpdateStage
  <2>2. CASE OpenNew(u)
    <3> DEFINE n == update[u].name
    <3>1. PICK h \in NewHandle : /\ handle' = Bind(handle, h, data[n])
                                 /\ update' = [update EXCEPT ![u].pc = "swap", ![u].handle = h]
      BY <2>2 DEF OpenNew
    <3>2. UNCHANGED <<data, wrapper, phase>> /\ n \in DOMAIN data
      BY <2>2 DEF OpenNew, disk
    <3>3. h \notin DOMAIN handle
      BY DEF NewHandle, Least, Taken
    <3>4. handle'[h] = data[n] /\ \A g \in DOMAIN handle : handle'[g] = handle[g]
      BY <3>1, <3>3 DEF Bind
    <3>5. update'[u].name = n /\ update'[u].handle = h
      BY <1>1, <3>1 DEF UpdateType
    <3>6. InPlace(update[u].handle, update[u].name)'
      BY <3>2, <3>4, <3>5 DEF InPlace
    <3>7. phase' = "running" => InPlace(wrapper.handle, wrapper.name)'
      BY <1>2, <1>3, <3>2, <3>4 DEF InPlace
    <3>8. ASSUME NEW v \in Updater, v # u, update'[v].pc = "swap" PROVE InPlace(update[v].handle, update[v].name)'
      BY <1>2, <1>3, <2>1, <3>2, <3>4, <3>8 DEF InPlace
    <3> QED
      BY <3>6, <3>7, <3>8 DEF Locked
  <2>3. CASE Swap(u)
    <3>1. UNCHANGED <<data, handle, phase>> /\ wrapper'.handle = update[u].handle /\ wrapper'.name = update[u].name
          /\ update[u].pc = "swap"
      BY <2>3 DEF Swap, Serve, disk, At
    <3>2. update'[u].pc # "swap"
      BY <1>9, <1>10, <2>3 DEF OpenNew, Swap, At
    <3>3. InPlace(wrapper.handle, wrapper.name)'
      BY <1>3, <3>1 DEF InPlace
    <3>4. ASSUME NEW v \in Updater, update'[v].pc = "swap" PROVE InPlace(update[v].handle, update[v].name)'
      <4>1. update'[v] = update[v]
        BY <2>1, <3>2, <3>4
      <4> QED
        BY <1>3, <3>1, <3>4, <4>1 DEF InPlace
    <3> QED
      BY <3>3, <3>4 DEF Locked
  <2>4. CASE CloseOld(u)
    <3> DEFINE o == update[u].handle
    <3>1. UNCHANGED <<data, wrapper, phase>> /\ handle' = Drop(handle, o) /\ o # 0 /\ update[u].pc = "close"
          /\ phase = "running"
      BY <2>4 DEF CloseOld, disk, At, Stages
    <3>2. \A g \in DOMAIN handle : g # o => handle'[g] = handle[g]
      BY <3>1 DEF Drop, Restrict
    <3>3. wrapper.handle # o /\ \A v \in Updater : v # u => update[v].handle # o
      BY <1>1, <3>1 DEF Owners, Owned, Stages
    <3>4. InPlace(wrapper.handle, wrapper.name)'
      BY <1>2, <1>3, <3>1, <3>2, <3>3 DEF InPlace
    <3>5. ASSUME NEW v \in Updater, update'[v].pc = "swap" PROVE InPlace(update[v].handle, update[v].name)'
      <4>1. v # u
        BY <1>9, <1>10, <2>4, <3>5 DEF OpenNew, CloseOld, At
      <4>2. update'[v] = update[v]
        BY <2>1, <4>1
      <4> QED
        BY <1>2, <1>3, <3>1, <3>2, <3>3, <3>5, <4>1, <4>2 DEF InPlace
    <3> QED
      BY <3>4, <3>5 DEF Locked
  <2>5. CASE ~(OpenNew(u) \/ Swap(u) \/ CloseOld(u))
    <3>1. UNCHANGED <<handle, wrapper>> /\ (phase' = phase \/ phase' = "failed")
      BY <1>10, <2>5 DEF UpdateIPDB, Allow, BeginDownload, DownloadFails, LimitPage, Extract, Copied, CopyFails, Verify,
         Rename, RenameFails, OpenFails, RemoveOld, Ends
    <3>2. UNCHANGED data \/ Rename(u) \/ (\E k : data' = Removed(data, k))
      BY <1>10, <2>5 DEF UpdateIPDB, Allow, BeginDownload, DownloadFails, LimitPage, Extract, Copied, CopyFails, Verify,
         RenameFails, OpenFails, RemoveOld, disk
    <3>3. Stays
      BY <1>5, <1>6, <1>7, <3>2
    <3>4. \A v \in Updater : update'[v].pc = "swap" => update'[v] = update[v]
      BY <1>9, <1>10, <2>1, <2>5
    <3> QED
      BY <1>8, <3>1, <3>3, <3>4
  <2> QED
    BY <2>2, <2>3, <2>4, <2>5
<1>11. CASE InitIPDB
  <2> DEFINE n == Latest(DOMAIN data)
  <2>1. phase = "down" /\ UNCHANGED <<data, update>> /\ DOMAIN data # {}
    BY <1>11 DEF InitIPDB, disk
  <2>2. \A u \in Updater : update[u].pc = "idle"
    BY <1>1, <2>1 DEF Stages
  <2>3. n \in DOMAIN data
    <3>1. DOMAIN data # {} /\ IsFiniteSet(DOMAIN data) /\ DOMAIN data \in SUBSET (Nat \X Nat)
      BY <2>1, IpdbConstants DEF Types, DiskTypes, IsDirectory, Name, Day
    <3> QED
      BY <3>1, LatestExists
  <2> HIDE DEF n
  <2>4. ASSUME NEW h \in NewHandle, handle' = Bind(handle, h, data[n]), Serve(h, n) PROVE Locked'
    <3>1. wrapper'.handle = h /\ wrapper'.name = n /\ handle'[h] = data[n]
      BY <2>4 DEF Serve, Bind
    <3>2. InPlace(wrapper.handle, wrapper.name)'
      BY <2>1, <2>3, <3>1 DEF InPlace
    <3> QED
      BY <2>1, <2>2, <3>2 DEF Locked
  <2>5. ASSUME phase' = "failed" PROVE Locked'
    BY <2>1, <2>2, <2>5 DEF Locked
  <2> QED
    BY <1>11, <2>4, <2>5 DEF InitIPDB, n
<1>12. CASE FirstServed
  <2>1. /\ phase = "starting" /\ update[Task].pc = "swap" /\ UNCHANGED <<data, handle>>
        /\ wrapper'.handle = update[Task].handle /\ wrapper'.name = update[Task].name
        /\ update' = [update EXCEPT ![Task] = NotUpdating]
    BY <1>12 DEF FirstServed, Serve, At, disk
  <2>2. update[Message].pc = "idle" /\ NotUpdating.pc = "idle"
    BY <2>1, IdleStage DEF Stages
  <2>3. \A v \in Updater : update'[v].pc = "idle"
    BY <1>1, <2>1, <2>2
  <2>4. InPlace(wrapper.handle, wrapper.name)'
    BY <1>1, <1>3, <2>1 DEF InPlace
  <2> QED
    BY <2>3, <2>4 DEF Locked
<1>13. CASE FirstDownload \/ TaskWakes \/ TriggerIPDBUpdate
  <2>1. UNCHANGED <<data, handle, wrapper>> /\ (phase' = "running" => phase = "running")
    BY <1>13 DEF FirstDownload, TaskWakes, TriggerIPDBUpdate, disk
  <2>2. update' = update \/ update' = Begin(Task) \/ update' = Begin(Message)
    BY <1>13 DEF FirstDownload, TaskWakes, TriggerIPDBUpdate
  <2>3. \A v \in Updater : update'[v].pc = "swap" => update'[v] = update[v]
    <3>1. [NotUpdating EXCEPT !.pc = "allow", !.since = day].pc = "allow"
      BY DEF NotUpdating
    <3> QED
      BY <1>1, <2>2, <3>1 DEF Begin
  <2> QED
    BY <1>5, <1>8, <2>1, <2>3
<1>14. ASSUME NEW c \in Cleaner, Cleanup(c) PROVE Locked'
  <2>1. UNCHANGED <<update, handle, wrapper, phase>>
    BY <1>14 DEF Cleanup, ListTemp, ListData, RemoveListed
  <2>2. UNCHANGED data \/ \E k : data' = Removed(data, k)
    BY <1>14 DEF Cleanup, ListTemp, ListData, RemoveListed, disk
  <2>3. Stays
    BY <1>5, <1>6, <2>2
  <2> QED
    BY <1>8, <2>1, <2>3
<1>15. CASE Lookup \/ UNCHANGED vars \/ Midnight
  <2>1. UNCHANGED <<data, update, handle, wrapper, phase>>
    BY <1>15 DEF Lookup, Get, GetAll, vars, disk, Midnight
  <2> QED
    BY <1>5, <1>8, <2>1
<1>16. CASE Crash \/ NilWrapper
  <2>1. phase' = "down" /\ update' = [u \in Updater |-> NotUpdating]
    BY <1>16 DEF Crash, NilWrapper, Gone
  <2>2. \A u \in Updater : update'[u].pc = "idle"
    BY <2>1, IdleStage
  <2> QED
    BY <2>1, <2>2 DEF Locked
<1> QED
  BY <1>10, <1>11, <1>12, <1>13, <1>14, <1>15, <1>16 DEF Next

-----------------------------------------------------------------------------
\* Elsewhere the names have no stamps, and some database of the latest day is
\* on no list of a clean-up and is nobody's old one.
Late == {"open", "swap", "close", "remove"}
Lasts == Nothing \/ \E m \in DOMAIN data : Top(m)

\* Nothing is added, the lists get no longer, and what is a top database stays.
LEMMA LastsKept ==
    ASSUME Types, Lasts,
           \A c \in Cleaner : cleaner'[c].pc = "data" =>
               cleaner[c].pc = "data" /\ cleaner'[c].doomed \subseteq cleaner[c].doomed,
           \A v \in Updater : update'[v].pc \in Late =>
               update[v].pc \in Late /\ update'[v].name = update[v].name,
           newest' = newest \/ \E v \in Updater : update[v].pc \in Late /\ newest' = update[v].name[1],
           DOMAIN data' \subseteq DOMAIN data,
           \A m \in DOMAIN data : Top(m) => m \in DOMAIN data'
    PROVE  Lasts'
<1>1. CASE Nothing
  <2>1. Nothing'
    BY <1>1 DEF Nothing, Late
  <2> QED
    BY <2>1 DEF Lasts
<1>2. CASE \E m \in DOMAIN data : Top(m)
  <2> PICK m \in DOMAIN data : Top(m)
    BY <1>2
  <2>1. m \in DOMAIN data'
    OBVIOUS
  <2>2. newest' <= m[1]
    BY DEF Top, Late
  <2>3. \A c \in Cleaner : cleaner'[c].pc = "data" => \A n \in cleaner'[c].doomed : n[1] < m[1]
    BY DEF Top
  <2>4. \A v \in Updater : update'[v].pc \in Late => update'[v].name[1] <= m[1]
    BY DEF Top, Late
  <2>5. Top(m)'
    BY <2>2, <2>3, <2>4 DEF Top, Late
  <2> QED
    BY <2>1, <2>5 DEF Lasts
<1> QED
  BY <1>1, <1>2 DEF Lasts

LEMMA UnstampedStep ==
    ASSUME Types, Stages, Listings, Calendar, Kept, ~windows, [Next]_vars
    PROVE  Unstamped'
<1> DEFINE Plain(r) == r.name[2] = 0 /\ r.old[2] = 0
<1>1. /\ \A n \in DOMAIN data : n[2] = 0
      /\ wrapper.name[2] = 0
      /\ \A u \in Updater : Plain(update[u])
      /\ Lasts
  BY DEF Kept, Unstamped, Lasts
<1>2. /\ \A n \in DOMAIN data' : n[2] = 0
      /\ wrapper'.name[2] = 0
      /\ \A u \in Updater : Plain(update'[u])
      /\ Lasts'
      => Unstamped'
  BY DEF Unstamped, Lasts
<1>3. /\ update \in [Updater -> UpdateType] /\ cleaner \in [Cleaner -> CleanerType]
      /\ IsFiniteSet(DOMAIN data) /\ DOMAIN data \subseteq Name
      /\ Task \in Updater /\ Message \in Updater /\ \A u \in Updater : u = Task \/ u = Message
  BY DEF Types, UpdateTypes, CleanerTypes, DiskTypes, IsDirectory, Updater, Task, Message
<1>4. /\ newest \in Int /\ \A u \in Updater : update[u].name[1] \in Int /\ update[u].old[1] \in Int
      /\ \A n \in DOMAIN data : n[1] \in Int
  BY DaysAreNumbers
<1>5. \A f : ~InUse(f)
  BY DEF InUse
<1>6. /\ NotUpdating.pc = "idle" /\ Plain(NotUpdating)
      /\ LET b == [NotUpdating EXCEPT !.pc = "allow", !.since = day] IN b.pc = "allow" /\ Plain(b)
  BY DEF NotUpdating, NoName
<1>7. \A dir, n : DOMAIN Removed(dir, n) \subseteq DOMAIN dir
  BY DEF Removed, Drop, Restrict
<1>8. ASSUME NEW c \in Cleaner, cleaner' = Started(c)
      PROVE  \A d \in Cleaner : cleaner'[d].pc = "data" => cleaner[d].pc = "data" /\ cleaner'[d] = cleaner[d]
  BY <1>3, <1>8 DEF Started, CleanerType
<1>9. DOMAIN data # {} => /\ Latest(DOMAIN data) \in DOMAIN data
                          /\ \A m \in DOMAIN data : m = Latest(DOMAIN data) \/ Before(m, Latest(DOMAIN data))
  <2>1. DOMAIN data \in SUBSET (Nat \X Nat)
    BY <1>3, IpdbConstants DEF Name, Day
  <2> QED
    BY <1>3, <2>1, LatestExists
<1>10. ASSUME NEW u \in Updater, Rename(u) PROVE Unstamped'
  <2> PICK n : n = BinName(u)
    OBVIOUS
  <2>1. /\ data' = Bind(data, n, temp[n]) /\ UNCHANGED <<wrapper, newest, cleaner>>
        /\ update' = [update EXCEPT ![u].pc = "open", ![u].name = n]
        /\ update[u].pc = "rename"
    BY <1>5, <1>10 DEF Rename, At, history
  <2>2. DOMAIN data' = DOMAIN data \union {n}
    BY <2>1 DEF Bind
  <2>3. n[2] = 0 /\ n[1] = update[u].date
    BY DEF BinName
  <2>4. update[u].date \in Int
    BY DaysAreNumbers
  <2>5. /\ update'[u].pc = "open" /\ update'[u].name = n /\ update'[u].old = update[u].old
        /\ \A v \in Updater : v # u => update'[v] = update[v]
    BY <1>3, <2>1 DEF UpdateType
  <2>6. Lasts'
    <3>1. CASE Nothing
      <4>1. newest' <= n[1]
        BY <1>4, <2>1, <2>3, <3>1 DEF Calendar, Nothing
      <4>2. n[1] <= n[1]
        BY <2>3, <2>4
      <4>3. \A v \in Updater : update'[v].pc \in Late => update'[v].name[1] <= n[1]
        BY <2>5, <3>1, <4>2 DEF Nothing, Late
      <4>4. \A c \in Cleaner : cleaner'[c].pc # "data"
        BY <2>1, <3>1 DEF Nothing
      <4>5. Top(n)'
        BY <4>1, <4>3, <4>4 DEF Top, Late
      <4> QED
        BY <2>2, <4>5 DEF Lasts
    <3>2. CASE \E m \in DOMAIN data : Top(m)
      <4> PICK m \in DOMAIN data : Top(m)
        BY <3>2
      <4>1. /\ newest <= m[1] /\ m[1] \in Int
            /\ \A c \in Cleaner : cleaner[c].pc = "data" => \A k \in cleaner[c].doomed : k[1] < m[1]
            /\ \A v \in Updater : update[v].pc \in Late => update[v].name[1] <= m[1]
        BY <1>4 DEF Top, Late
      <4>2. PICK t \in DOMAIN data' : m[1] <= t[1] /\ n[1] <= t[1] /\ t[1] \in Int
        <5>1. CASE n[1] <= m[1]
          BY <2>2, <4>1, <5>1
        <5>2. CASE ~(n[1] <= m[1])
          <6>1. m[1] <= n[1] /\ n[1] <= n[1] /\ n[1] \in Int
            BY <2>3, <2>4, <4>1, <5>2
          <6> QED
            BY <2>2, <6>1
        <5> QED
          BY <5>1, <5>2
      <4>3. newest' <= t[1]
        BY <1>4, <2>1, <4>1, <4>2
      <4>4. ASSUME NEW c \in Cleaner, cleaner'[c].pc = "data", NEW k \in cleaner'[c].doomed PROVE k[1] < t[1]
        <5>1. k[1] < m[1]
          BY <2>1, <4>1, <4>4
        <5>2. k[1] \in Int
          BY <1>3, <2>1, <4>4, IpdbConstants DEF CleanerType, Name, Day
        <5> QED
          BY <4>1, <4>2, <5>1, <5>2
      <4>5. ASSUME NEW v \in Updater, update'[v].pc \in Late PROVE update'[v].name[1] <= t[1]
        <5>1. CASE v = u
          BY <2>5, <4>2, <5>1
        <5>2. CASE v # u
          <6>1. update[v].name[1] <= m[1] /\ update[v].name[1] \in Int /\ update'[v] = update[v]
            BY <1>4, <2>5, <4>1, <4>5, <5>2
          <6> QED
            BY <4>1, <4>2, <6>1
        <5> QED
          BY <5>1, <5>2
      <4>6. Top(t)'
        BY <4>3, <4>4, <4>5 DEF Top, Late
      <4> QED
        BY <4>6 DEF Lasts
    <3> QED
      BY <1>1, <3>1, <3>2 DEF Lasts
  <2>7. Plain(update'[u])
    BY <1>1, <2>3, <2>5
  <2>8. \A v \in Updater : Plain(update'[v])
    BY <1>1, <2>5, <2>7
  <2>9. wrapper'.name[2] = 0 /\ \A k \in DOMAIN data' : k[2] = 0
    BY <1>1, <2>1, <2>2, <2>3
  <2> QED
    BY <1>2, <2>6, <2>8, <2>9
<1>11. ASSUME NEW u \in Updater, UpdateIPDB(u), ~Rename(u) PROVE Unstamped'
  <2>1. \A v \in Updater : v # u => update'[v] = update[v]
    BY <1>11, UpdateStage
  <2>2. /\ Plain(update'[u])
        /\ update'[u].pc \in Late => update[u].pc \in Late /\ update'[u].name = update[u].name
    <3>1. Plain(update[u])
      BY <1>1
    <3>2. CASE Ends(u)
      BY <1>3, <1>6, <3>2 DEF Ends, Late
    <3>3. CASE ~Ends(u)
      BY <1>1, <1>3, <1>11, <3>1, <3>3 DEF UpdateIPDB, Allow, BeginDownload, DownloadFails, LimitPage, Extract, Copied, CopyFails,
         Verify, RenameFails, OpenNew, OpenFails, Swap, CloseOld, RemoveOld, Goto, At, UpdateType, Late
    <3> QED
      BY <3>2, <3>3
  <2>3. \A c \in Cleaner : cleaner'[c].pc = "data" => cleaner[c].pc = "data" /\ cleaner'[c] = cleaner[c]
    <3>1. cleaner' = cleaner \/ cleaner' = Started("after")
      BY <1>11 DEF UpdateIPDB, Allow, BeginDownload, DownloadFails, LimitPage, Extract, Copied, CopyFails,
         Verify, RenameFails, OpenNew, OpenFails, Swap, CloseOld, RemoveOld, Ends
    <3> QED
      BY <1>8, <3>1 DEF Cleaner
  <2>4. /\ newest' = newest \/ (update[u].pc \in Late /\ newest' = update[u].name[1])
        /\ wrapper' = wrapper \/ wrapper'.name = update[u].name
    <3>1. CASE Swap(u)
      <4>1. update[u].pc = "swap" /\ Serve(update[u].handle, update[u].name)
        BY <3>1 DEF Swap, At
      <4>2. update[u].handle \in Handle \union {0} /\ update[u].name \in AnyName
        BY <1>3 DEF UpdateType
      <4>3. newest' \in {newest, update[u].name[1]}
        BY <4>1, <4>2, ServeTypes DEF Types
      <4> QED
        BY <4>1, <4>3 DEF Serve, Late
    <3>2. CASE ~Swap(u)
      BY <1>11, <3>2 DEF UpdateIPDB, Allow, BeginDownload, DownloadFails, LimitPage, Extract, Copied, CopyFails,
         Verify, RenameFails, OpenNew, OpenFails, CloseOld, RemoveOld, history
    <3> QED
      BY <3>1, <3>2
  <2>5. /\ DOMAIN data' \subseteq DOMAIN data
        /\ \A m \in DOMAIN data : Top(m) => m \in DOMAIN data'
    <3>1. CASE RemoveOld(u)
      <4> DEFINE o == update[u].old
                 n == update[u].name
      <4>1. /\ update[u].pc = "remove"
            /\ data' = IF o = n THEN data ELSE Removed(data, o)
        BY <3>1 DEF RemoveOld, At
      <4>2. o[1] <= n[1] /\ o[1] \in Int /\ n[1] \in Int /\ o[2] = n[2]
        BY <1>1, <1>4, <4>1 DEF Calendar
      <4>3. o \in AnyName /\ n \in AnyName
        BY <1>3 DEF UpdateType
      <4> HIDE DEF o, n
      <4>4. ASSUME NEW m \in DOMAIN data, Top(m), m = o PROVE o = n
        <5>1. n[1] <= o[1]
          BY <4>1, <4>4 DEF Top, n
        <5>2. n[1] = o[1]
          BY <4>2, <5>1
        <5> QED
          BY <4>2, <4>3, <5>2 DEF AnyName
      <4>5. DOMAIN data \ {o} \subseteq DOMAIN Removed(data, o)
        BY DEF Removed, Drop, Restrict
      <4> QED
        BY <1>7, <4>1, <4>4, <4>5
    <3>2. CASE ~RemoveOld(u)
      <4>1. data' = data
        BY <1>11, <3>2 DEF UpdateIPDB, Allow, BeginDownload, DownloadFails, LimitPage, Extract, Copied, CopyFails,
           Verify, RenameFails, OpenNew, OpenFails, Swap, CloseOld, disk
      <4> QED
        BY <4>1
    <3> QED
      BY <3>1, <3>2
  <2>6. Lasts'
    <3>1. \A c \in Cleaner : cleaner'[c].pc = "data" =>
               cleaner[c].pc = "data" /\ cleaner'[c].doomed \subseteq cleaner[c].doomed
      BY <2>3
    <3>2. \A v \in Updater : update'[v].pc \in Late => update[v].pc \in Late /\ update'[v].name = update[v].name
      BY <2>1, <2>2
    <3>3. newest' = newest \/ \E v \in Updater : update[v].pc \in Late /\ newest' = update[v].name[1]
      BY <2>4
    <3> HIDE DEF Late
    <3> QED
      BY <1>1, <2>5, <3>1, <3>2, <3>3, LastsKept
  <2>7. \A v \in Updater : Plain(update'[v])
    BY <1>1, <2>1, <2>2
  <2>8. \A n \in DOMAIN data' : n[2] = 0
    BY <1>1, <2>5
  <2>9. wrapper'.name[2] = 0
    BY <1>1, <2>4
  <2> QED
    BY <1>2, <2>6, <2>7, <2>8, <2>9
<1>12. ASSUME \A c \in Cleaner : cleaner'[c].pc = "data" => cleaner[c].pc = "data" /\ cleaner'[c] = cleaner[c],
              \A v \in Updater : update'[v].pc \in Late => update'[v] = update[v],
              UNCHANGED <<data, newest>>
       PROVE  Lasts'
  <2>1. \A c \in Cleaner : cleaner'[c].pc = "data" =>
             cleaner[c].pc = "data" /\ cleaner'[c].doomed \subseteq cleaner[c].doomed
    BY <1>12
  <2>2. \A v \in Updater : update'[v].pc \in Late => update[v].pc \in Late /\ update'[v].name = update[v].name
    BY <1>12
  <2>3. DOMAIN data' \subseteq DOMAIN data /\ \A m \in DOMAIN data : Top(m) => m \in DOMAIN data'
    BY <1>12
  <2> HIDE DEF Late
  <2> QED
    BY <1>1, <1>12, <2>1, <2>2, <2>3, LastsKept
<1>13. CASE FirstDownload \/ TaskWakes \/ TriggerIPDBUpdate
  <2>1. UNCHANGED <<data, newest, wrapper>>
    BY <1>13 DEF FirstDownload, TaskWakes, TriggerIPDBUpdate, disk, history
  <2>2. update' = update \/ update' = Begin(Task) \/ update' = Begin(Message)
    BY <1>13 DEF FirstDownload, TaskWakes, TriggerIPDBUpdate
  <2>3. \A v \in Updater : Plain(update'[v]) /\ (update'[v].pc \in Late => update'[v] = update[v])
    <3>1. \E s : Plain(s) /\ s.pc = "allow" /\ \A v \in Updater : update' = update \/ update'[v] = update[v] \/ update'[v] = s
      BY <1>3, <1>6, <2>2 DEF Begin
    <3> QED
      BY <1>1, <3>1 DEF Late
  <2>4. cleaner' = cleaner \/ cleaner' = Started("before")
    BY <1>13 DEF FirstDownload, TaskWakes, TriggerIPDBUpdate
  <2>5. Lasts'
    <3>1. \A c \in Cleaner : cleaner'[c].pc = "data" => cleaner[c].pc = "data" /\ cleaner'[c] = cleaner[c]
      BY <1>8, <2>4 DEF Cleaner
    <3> QED
      BY <1>12, <2>1, <2>3, <3>1
  <2> QED
    BY <1>1, <1>2, <2>1, <2>3, <2>5
<1>14. CASE FirstServed
  <2> DEFINE n == update[Task].name
  <2>1. /\ phase = "starting" /\ update[Task].pc = "swap" /\ data' = data
        /\ Serve(update[Task].handle, n) /\ update' = [update EXCEPT ![Task] = NotUpdating]
        /\ cleaner' = Started("before")
    BY <1>14 DEF FirstServed, At, disk
  <2>2. update[Task].handle \in Handle \union {0} /\ n \in AnyName
    BY <1>3 DEF UpdateType
  <2>3. newest' \in {newest, n[1]} /\ wrapper'.name = n
    BY <2>1, <2>2, ServeTypes DEF Types, Serve
  <2>4. \A v \in Updater : Plain(update'[v]) /\ (update'[v].pc \in Late => update'[v] = update[v])
    BY <1>1, <1>3, <1>6, <2>1 DEF Late
  <2>5. Lasts'
    <3>1. \A c \in Cleaner : cleaner'[c].pc = "data" =>
               cleaner[c].pc = "data" /\ cleaner'[c].doomed \subseteq cleaner[c].doomed
      BY <1>8, <2>1 DEF Cleaner
    <3>2. \A v \in Updater : update'[v].pc \in Late => update[v].pc \in Late /\ update'[v].name = update[v].name
      BY <2>4
    <3>3. newest' = newest \/ \E v \in Updater : update[v].pc \in Late /\ newest' = update[v].name[1]
      BY <1>3, <2>1, <2>3 DEF Late
    <3>4. DOMAIN data' \subseteq DOMAIN data /\ \A m \in DOMAIN data : Top(m) => m \in DOMAIN data'
      BY <2>1
    <3> HIDE DEF Late
    <3> QED
      BY <1>1, <3>1, <3>2, <3>3, <3>4, LastsKept
  <2> QED
    BY <1>1, <1>2, <1>3, <2>1, <2>3, <2>4, <2>5
<1>15. CASE InitIPDB
  <2> PICK n : n = Latest(DOMAIN data)
    OBVIOUS
  <2>1. phase = "down" /\ UNCHANGED <<data, update>> /\ DOMAIN data # {}
    BY <1>15 DEF InitIPDB, disk
  <2>2. /\ \A u \in Updater : update[u].pc = "idle"
        /\ \A c \in Cleaner : cleaner[c] = NotCleaning
    BY <1>3, <2>1 DEF Stages
  <2>3. n \in DOMAIN data
    BY <1>9, <2>1
  <2>4. ASSUME NEW h \in NewHandle, Serve(h, n), cleaner' = Started("before") PROVE Unstamped'
    <3>1. n \in AnyName /\ h \in Handle
      BY <1>3, <2>3, IpdbConstants DEF Name, AnyName, Day, NewHandle, Least
    <3>2. newest' \in {newest, n[1]} /\ wrapper'.name = n
      BY <2>4, <3>1, ServeTypes DEF Types, Serve
    <3>3. newest <= n[1]
      <4>1. CASE newest > 0
        <5>1. PICK m \in DOMAIN data : newest <= m[1]
          BY <4>1 DEF Kept
        <5>2. m = n \/ Before(m, n)
          BY <1>9, <2>1
        <5>3. m[1] \in Int /\ n[1] \in Int
          BY <1>4, <2>3
        <5> QED
          BY <1>4, <5>1, <5>2, <5>3 DEF Before
      <4>2. CASE ~(newest > 0)
        <5>1. n[1] \in Day
          BY <1>3, <2>3 DEF Name
        <5> QED
          BY <1>4, <4>2, <5>1 DEF Day
      <4> QED
        BY <4>1, <4>2
    <3>4. newest' <= n[1]
      <4>1. n[1] <= n[1]
        BY <1>4, <2>3
      <4> QED
        BY <3>2, <3>3, <4>1
    <3>5. \A c \in Cleaner : cleaner'[c].pc # "data"
      BY <1>3, <2>2, <2>4 DEF Started, NotCleaning
    <3>6. \A v \in Updater : update'[v].pc \notin Late
      BY <2>1, <2>2 DEF Late
    <3>7. Top(n)'
      BY <3>4, <3>5, <3>6 DEF Top, Late
    <3>8. Lasts'
      BY <2>1, <2>3, <3>7 DEF Lasts
    <3> QED
      BY <1>1, <1>2, <2>1, <2>3, <3>2, <3>8
  <2>5. ASSUME UNCHANGED <<wrapper, cleaner, newest>> PROVE Unstamped'
    <3>1. Lasts'
      BY <1>12, <2>1, <2>5
    <3> QED
      BY <1>1, <1>2, <2>1, <2>5, <3>1
  <2> QED
    BY <1>15, <2>4, <2>5 DEF InitIPDB, history
<1>16. ASSUME NEW c \in Cleaner, ListTemp(c) PROVE Unstamped'
  <2>1. UNCHANGED <<data, update, wrapper, newest>> /\ Doomed(c, "temp", DOMAIN temp)
    BY <1>16 DEF ListTemp, disk, history
  <2>2. \A d \in Cleaner : cleaner'[d].pc = "data" => cleaner[d].pc = "data" /\ cleaner'[d] = cleaner[d]
    BY <1>3, <2>1 DEF Doomed
  <2>3. Lasts'
    BY <1>12, <2>1, <2>2
  <2> QED
    BY <1>1, <1>2, <2>1, <2>3
<1>17. ASSUME NEW c \in Cleaner, ListData(c) PROVE Unstamped'
  <2>1. UNCHANGED <<data, update, wrapper, newest>>
    BY <1>17 DEF ListData, disk, history
  <2>2. CASE DOMAIN data = {}
    <3>1. cleaner' = [cleaner EXCEPT ![c] = NotCleaning] /\ NotCleaning.pc = "idle"
      BY <1>17, <2>2 DEF ListData, Doomed, NotCleaning
    <3>2. \A d \in Cleaner : cleaner'[d].pc = "data" => cleaner[d].pc = "data" /\ cleaner'[d] = cleaner[d]
      BY <1>3, <3>1
    <3>3. Lasts'
      BY <1>12, <2>1, <3>2
    <3> QED
      BY <1>1, <1>2, <2>1, <3>3
  <2>3. CASE DOMAIN data # {}
    <3> PICK l : l = Latest(DOMAIN data)
      OBVIOUS
    <3>1. l \in DOMAIN data /\ \A m \in DOMAIN data : m = l \/ Before(m, l)
      BY <1>9, <2>3
    <3>2. Doomed(c, "data", DOMAIN data \ {l})
      BY <1>17, <2>3 DEF ListData
    <3>3. \A n \in DOMAIN data \ {l} : n[1] < l[1]
      <4> SUFFICES ASSUME NEW n \in DOMAIN data \ {l} PROVE n[1] < l[1]
        OBVIOUS
      <4>1. n[2] = 0 /\ l[2] = 0 /\ Before(n, l)
        BY <1>1, <3>1
      <4> QED
        BY <4>1 DEF Before
    <3>4. PICK m \in DOMAIN data : Top(m)
      BY <1>1, <2>3 DEF Lasts, Nothing
    <3>5. m[1] <= l[1] /\ m[1] \in Int /\ l[1] \in Int
      BY <1>4, <3>1 DEF Before
    <3>6. newest' <= l[1]
      BY <1>4, <2>1, <3>4, <3>5 DEF Top
    <3>7. ASSUME NEW v \in Updater, update'[v].pc \in Late PROVE update'[v].name[1] <= l[1]
      <4>1. update[v].name[1] <= m[1] /\ update[v].name[1] \in Int
        BY <1>4, <2>1, <3>4, <3>7 DEF Top, Late
      <4> QED
        BY <2>1, <3>5, <4>1
    <3>8. ASSUME NEW d \in Cleaner, cleaner'[d].pc = "data", NEW k \in cleaner'[d].doomed PROVE k[1] < l[1]
      <4>1. CASE d = c
        <5>1. cleaner'[c].doomed \subseteq DOMAIN data \ {l}
          BY <1>3, <3>2 DEF Doomed, NotCleaning
        <5> QED
          BY <3>3, <3>8, <4>1, <5>1
      <4>2. CASE d # c
        <5>1. cleaner'[d] = cleaner[d]
          BY <1>3, <3>2, <4>2 DEF Doomed
        <5>2. k[1] < m[1] /\ k[1] \in Int
          BY <1>3, <3>4, <3>8, <5>1, IpdbConstants DEF Top, CleanerType, Name, Day
        <5> QED
          BY <3>5, <5>2
      <4> QED
        BY <4>1, <4>2
    <3>9. Top(l)'
      BY <3>6, <3>7, <3>8 DEF Top, Late
    <3>10. Lasts'
      BY <2>1, <3>1, <3>9 DEF Lasts
    <3> QED
      BY <1>1, <1>2, <2>1, <3>10
  <2> QED
    BY <2>2, <2>3
<1>18. ASSUME NEW c \in Cleaner, RemoveListed(c) PROVE Unstamped'
  <2> PICK n : n = (CHOOSE k \in cleaner[c].doomed : \A m \in cleaner[c].doomed : m = k \/ Before(k, m))
    OBVIOUS
  <2>1. /\ UNCHANGED <<update, wrapper, newest>>
        /\ Doomed(c, cleaner[c].pc, cleaner[c].doomed \ {n})
        /\ IF cleaner[c].pc = "temp" THEN data' = data ELSE data' = Removed(data, n)
        /\ cleaner[c].doomed # {}
    BY <1>18 DEF RemoveListed, history
  <2>2. n \in cleaner[c].doomed
    <3>1. cleaner[c].doomed \in SUBSET (Nat \X Nat) /\ IsFiniteSet(cleaner[c].doomed)
      BY <1>3, IpdbConstants DEF Types, CleanerTypes, CleanerType, Name, Day
    <3> QED
      BY <2>1, <3>1, FirstExists
  <2>3. cleaner[c].pc # "temp" => cleaner[c].pc = "data"
    BY <2>1 DEF Listings
  <2>4. DOMAIN data' \subseteq DOMAIN data
    BY <1>7, <2>1
  <2>5. ASSUME NEW m \in DOMAIN data, Top(m) PROVE m \in DOMAIN data'
    <3>1. CASE cleaner[c].pc = "temp"
      BY <2>1, <3>1
    <3>2. CASE cleaner[c].pc = "data"
      <4>1. n[1] < m[1]
        BY <2>2, <2>5, <3>2 DEF Top
      <4>2. n # m
        <5> SUFFICES ASSUME n = m PROVE FALSE
          OBVIOUS
        <5>1. m[1] \in Int /\ m[1] < m[1]
          BY <1>4, <4>1
        <5> QED
          BY <5>1
      <4>3. DOMAIN data \ {n} \subseteq DOMAIN Removed(data, n)
        BY DEF Removed, Drop, Restrict
      <4> QED
        BY <2>1, <3>2, <4>2, <4>3
    <3> QED
      BY <2>3, <3>1, <3>2
  <2>6. \A d \in Cleaner : cleaner'[d].pc = "data" => cleaner[d].pc = "data" /\ cleaner'[d].doomed \subseteq cleaner[d].doomed
    <3>1. \A d \in Cleaner : d # c => cleaner'[d] = cleaner[d]
      BY <1>3, <2>1 DEF Doomed
    <3>2. cleaner'[c].pc = "data" => cleaner[c].pc = "data" /\ cleaner'[c].doomed \subseteq cleaner[c].doomed
      BY <1>3, <2>1 DEF Doomed, NotCleaning
    <3> QED
      BY <3>1, <3>2
  <2>7. \A v \in Updater : update'[v].pc \in Late => update[v].pc \in Late /\ update'[v].name = update[v].name
    BY <2>1
  <2>8. Lasts'
    <3> HIDE DEF Late
    <3> QED
      BY <1>1, <2>1, <2>4, <2>5, <2>6, <2>7, LastsKept
  <2> QED
    BY <1>1, <1>2, <2>1, <2>4, <2>8
<1>19. CASE Lookup \/ UNCHANGED vars \/ Midnight
  <2>1. UNCHANGED <<data, update, wrapper, newest, cleaner>>
    BY <1>19 DEF Lookup, Get, GetAll, vars, Midnight, disk, history
  <2>2. Lasts'
    BY <1>12, <2>1
  <2> QED
    BY <1>1, <1>2, <2>1, <2>2
<1>20. CASE Crash \/ NilWrapper
  <2>1. /\ UNCHANGED <<data, newest>> /\ wrapper'.name = NoName
        /\ update' = [u \in Updater |-> NotUpdating] /\ cleaner' = [c \in Cleaner |-> NotCleaning]
    BY <1>20 DEF Crash, NilWrapper, Gone, history
  <2>2. /\ \A u \in Updater : Plain(update'[u]) /\ update'[u].pc \notin Late
        /\ \A c \in Cleaner : cleaner'[c].pc # "data"
        /\ NoName[2] = 0
    BY <1>6, <2>1 DEF Late, NotCleaning, NoName
  <2>3. Lasts'
    BY <1>12, <2>1, <2>2
  <2> QED
    BY <1>1, <1>2, <2>1, <2>2, <2>3
<1> QED
  BY <1>10, <1>11, <1>13, <1>14, <1>15, <1>16, <1>17, <1>18, <1>19, <1>20 DEF Next, Cleanup

-----------------------------------------------------------------------------
\* While something is served its own file, or one of the last day, is there; in
\* the other phases nothing is removed.
LEMMA KeptStep ==
    ASSUME Types, Stages, Owners, Listings, Calendar, Kept, [Next]_vars
    PROVE  Kept'
<1>1. windows' = windows
  <2>1. ASSUME NEW u \in Updater, UpdateIPDB(u) PROVE windows' = windows
    BY <2>1 DEF UpdateIPDB, Allow, BeginDownload, DownloadFails, LimitPage, Extract, Copied, CopyFails, Verify, Rename,
       RenameFails, OpenNew, OpenFails, Swap, CloseOld, RemoveOld, clock
  <2>2. ASSUME NEW c \in Cleaner, Cleanup(c) PROVE windows' = windows
    BY <2>2 DEF Cleanup, ListTemp, ListData, RemoveListed, clock
  <2> QED
    BY <2>1, <2>2 DEF Next, InitIPDB, FirstDownload, FirstServed, TaskWakes, TriggerIPDBUpdate, Lookup, Get,
       GetAll, Crash, NilWrapper, Gone, Midnight, vars, clock
<1>2. CASE ~windows
  <2>1. Unstamped'
    BY <1>2, UnstampedStep
  <2>2. newest' > 0 => \E n \in DOMAIN data' : newest' <= n[1]
    BY <2>1 DEF Unstamped, Nothing, Top
  <2> QED
    BY <1>1, <1>2, <2>1, <2>2 DEF Kept
<1>3. CASE windows
  <2>1. Locked'
    BY <1>3, LockedStep DEF Kept
  <2>2. ASSUME phase' = "running" PROVE \E n \in DOMAIN data' : newest' <= n[1]
    <3>1. wrapper'.name \in DOMAIN data'
      BY <2>1, <2>2 DEF Locked, InPlace
    <3>2. wrapper'.name[1] = newest' /\ newest' \in Day
      BY <2>2, CalendarStep DEF Calendar
    <3>3. newest' <= wrapper'.name[1]
      BY <3>2 DEF Day
    <3> QED
      BY <3>1, <3>3
  <2>3. ASSUME phase' # "running" PROVE DOMAIN data \subseteq DOMAIN data' /\ newest' = newest
    <3>1. ASSUME NEW c \in Cleaner, RemoveListed(c) PROVE FALSE
      <4>1. cleaner[c] # NotCleaning /\ phase' = phase
        BY <3>1 DEF RemoveListed, NotCleaning
      <4> QED
        BY <2>3, <4>1 DEF Stages
    <3>2. ASSUME NEW u \in Updater, RemoveOld(u) \/ Swap(u) PROVE FALSE
      <4>1. phase = "running" /\ (phase' = phase \/ phase = "starting")
        BY <3>2 DEF RemoveOld, Swap, Ends, At, Stages
      <4> QED
        BY <2>3, <4>1
    <3>3. \A t, f : DOMAIN data \subseteq DOMAIN Bind(data, t, f)
      BY DEF Bind
    <3>4. \A u \in Updater : Rename(u) => DOMAIN data \subseteq DOMAIN data' /\ newest' = newest
      BY <3>3 DEF Rename, history
    <3> QED
      BY <2>3, <3>1, <3>2, <3>4
         DEF Next, UpdateIPDB, InitIPDB, FirstDownload, FirstServed, TaskWakes, TriggerIPDBUpdate, Allow,
             BeginDownload, DownloadFails, LimitPage, Extract, Copied, CopyFails, Verify, RenameFails, OpenNew, OpenFails,
             CloseOld, Cleanup, ListTemp, ListData, Lookup, Get, GetAll, Crash,
             NilWrapper, Gone, Midnight, vars, clock, disk, history
  <2>4. newest' > 0 => \E n \in DOMAIN data' : newest' <= n[1]
    BY <2>2, <2>3 DEF Kept
  <2> QED
    BY <1>1, <1>3, <2>1, <2>4 DEF Kept
<1>4. windows \in BOOLEAN
  BY DEF Types, ClockTypes
<1> QED
  BY <1>2, <1>3, <1>4

\* The inductive invariant.
LEMMA IInvInit == Init => IInv
<1> SUFFICES ASSUME Init PROVE IInv
  OBVIOUS
<1>1. Types /\ Stages
  BY TypesInit, StagesInit
<1>2. \A u \in Updater : update[u] = NotUpdating
  BY DEF Init
<1>3. /\ NotUpdating.pc = "idle" /\ NotUpdating.handle = 0 /\ NotUpdating.since = 0 /\ NotUpdating.date = 0
      /\ NotUpdating.name[2] = 0 /\ NotUpdating.old[2] = 0 /\ NotCleaning = [pc |-> "idle", doomed |-> {}]
  BY DEF NotUpdating, NoName, NotCleaning
<1>4. /\ \A c \in Cleaner : cleaner[c] = NotCleaning
      /\ Task \in Updater /\ Message \in Updater
  BY DEF Init, Updater
<1>5. Owners
  <2>1. {Owned(u) : u \in Updater} = {0} /\ Owned(Task) = 0 /\ Owned(Message) = 0
    BY <1>2, <1>3, <1>4 DEF Owned
  <2> QED
    BY <2>1 DEF Init, Owners
<1>6. Listings
  BY <1>3, <1>4 DEF Init, Listings
<1>7. Calendar
  BY <1>2, <1>3, <1>4 DEF Init, Calendar
<1>8. Kept
  BY <1>2, <1>3, <1>4 DEF Init, Kept, Locked, Unstamped, Nothing, NoName
<1> QED
  BY <1>1, <1>5, <1>6, <1>7, <1>8 DEF IInv

LEMMA IInvStep == IInv /\ [Next]_vars => IInv'
  BY TypesStep, StagesStep, OwnersStep, ListingsStep, CalendarStep, KeptStep DEF IInv

\* The database that is served is the newest that ever was: neither an update
\* nor a restart goes back, though the updates of the task and of a message
\* may overlap and run past midnight.
THEOREM NeverGoesBack == Spec => []NeverOlder
<1>1. IInv => NeverOlder
  BY DEF IInv, Calendar, NeverOlder
<1> QED
  BY <1>1, IInvInit, IInvStep, PTL DEF Spec

\* A restart at any moment finds a database of the day of the one that is
\* served or a newer one: no clean-up and no removal of an old file takes it.
THEOREM NextStartServed == Spec => []NextStartHasADatabase
<1>1. IInv => NextStartHasADatabase
  <2> SUFFICES ASSUME IInv, phase = "running" PROVE \E n \in DOMAIN data : n[1] >= wrapper.name[1]
    BY DEF NextStartHasADatabase
  <2>1. wrapper.name[1] = newest /\ newest \in Day
    BY DEF IInv, Calendar
  <2>2. newest > 0
    BY <2>1 DEF Day
  <2>3. PICK n \in DOMAIN data : newest <= n[1]
    BY <2>2 DEF IInv, Kept
  <2>4. n[1] \in Int /\ newest \in Int
    BY DaysAreNumbers DEF IInv
  <2> QED
    BY <2>1, <2>3, <2>4
<1> QED
  BY <1>1, IInvInit, IInvStep, PTL DEF Spec
=============================================================================
