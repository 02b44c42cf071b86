-------------------------- MODULE WebLibrary_proof --------------------------
(***************************************************************************)
(* Proofs about the library's shared state: BackupsInOrder, SessionsAlive   *)
(* and ServedIsRecent, one part after the other, what a log that cannot be  *)
(* opened does to the logger, and the types of it all.                     *)
(*                                                                         *)
(* The log files are described by three numbers: the newest generation      *)
(* among the backups, how many there are, and the one number without a      *)
(* file that a rotation moves down.  A session is kept by a count that is   *)
(* never below the number of its handles, nor is what a thread that lowers  *)
(* it has loaded: lost decrements err to the safe side.  A cache entry, and *)
(* a page that a thread has read but not yet stored, is as old as it says,  *)
(* and an entry lies where no other does, though perhaps where one was.     *)
(***************************************************************************)
EXTENDS WebLibrary, FiniteSetTheorems, SequenceTheorems, TLAPS

USE MaxWorkAssumption, ThreadsAssumption

-----------------------------------------------------------------------------
(* The log files.                                                          *)

\* The backups are numbered by age, the newest the generation top, and lie
\* under 1 .. last without one number: the place where a rotation has come to,
\* or the one after the last.
Rotated(top, gap, last) ==
    /\ gap \in 1 .. last + 1 /\ last <= MaxLogs
    /\ last <= IF gap <= last THEN top + 1 ELSE top
    /\ backups = [i \in Numbers |->
            IF i < gap THEN top + 1 - i
            ELSE IF gap < i /\ i <= last THEN top + 2 - i
            ELSE 0]

\* The log is the next generation; it is not there only between the last rename
\* and the creation of the next.  Before it is renamed there is room for it.
LogFiles(top, gap, last) ==
    /\ Rotated(top, gap, last)
    /\ current \in {0, top + 1} /\ current <= MaxLogs /\ top <= MaxLogs
    /\ current = 0 => gap = last + 1 /\ (last = 0 => top = 0)
    /\ MaxBackups > 0 => last <= MaxBackups

\* rotate() counts down to the number before the free one.
Rotates(gap) ==
    part = "log" /\ at[Main] \in {"remove", "rename"} =>
        /\ rotating = gap - 1
        /\ current # 0
        /\ at[Main] = "rename" => ~TooMany

FilesInv == \E top, gap, last \in Nat : LogFiles(top, gap, last) /\ Rotates(gap)

LogPlaces == {"idle", "message", "log", "remove", "rename", "open"}

LogInv ==
    /\ FilesInv
    /\ part = "log" => at \in [Actors -> LogPlaces]
    /\ part = "log" /\ fileOpen => current # 0 /\ at[Main] \notin {"remove", "rename"}

-----------------------------------------------------------------------------
(* What the numbers of the files say.                                      *)

\* No number before the free one is without a file, and the free one is.
LEMMA RotatedFacts ==
    ASSUME NEW top \in Nat, NEW gap \in Nat, NEW last \in Nat, Rotated(top, gap, last)
    PROVE  /\ gap - 1 \in 0 .. top /\ gap - 1 <= MaxLogs
           /\ backups \in [Numbers -> Nat]
           /\ \A i \in Numbers :
                /\ i < gap => backups[i] = top + 1 - i
                /\ gap < i /\ i <= last => backups[i] = top + 2 - i
                /\ i = gap \/ last < i => backups[i] = 0
                /\ Exists(i) <=> i <= last /\ i # gap
<1> USE LogAssumption DEF Numbers
<1>1. gap - 1 \in 0 .. top /\ gap - 1 <= MaxLogs
  BY DEF Rotated
<1>2. \A i \in Numbers :
        /\ i < gap => backups[i] = top + 1 - i /\ i <= last
        /\ gap < i /\ i <= last => backups[i] = top + 2 - i
        /\ i = gap \/ last < i => backups[i] = 0
  BY DEF Rotated
<1>3. \A i \in Numbers :
        /\ i < gap => backups[i] \in Nat \ {0}
        /\ gap < i /\ i <= last => backups[i] \in Nat \ {0}
  BY <1>1, <1>2 DEF Rotated
<1>4. \A i \in Numbers : backups[i] \in Nat /\ (Exists(i) <=> i <= last /\ i # gap)
  BY <1>2, <1>3 DEF Exists
<1>5. backups = [i \in Numbers |-> backups[i]]
  BY DEF Rotated
<1>6. backups \in [Numbers -> Nat]
  BY <1>4, <1>5
<1> QED BY <1>1, <1>2, <1>4, <1>6

\* What rotate() counts are the backups before the free number.
LEMMA CountIsBeforeGap ==
    ASSUME NEW top \in Nat, NEW gap \in Nat, NEW last \in Nat, Rotated(top, gap, last)
    PROVE  Count = gap - 1
<1> USE LogAssumption DEF Numbers
<1>1. gap \in Nat /\ gap >= 1 /\ gap - 1 <= last /\ last <= MaxLogs
  BY DEF Rotated
<1>2. {i \in Numbers : \A j \in 1 .. i : Exists(j)} = 1 .. gap - 1
  <2>1. ASSUME NEW i \in 1 .. gap - 1 PROVE i \in Numbers /\ \A j \in 1 .. i : Exists(j)
    BY <1>1, RotatedFacts
  <2>2. ASSUME NEW i \in Numbers, \A j \in 1 .. i : Exists(j) PROVE i \in 1 .. gap - 1
    <3>1. SUFFICES ASSUME gap <= i PROVE FALSE
      BY <1>1
    <3>2. gap \in Numbers /\ gap \in 1 .. i
      BY <1>1, <3>1
    <3> QED BY <2>2, <3>2, RotatedFacts
  <2> QED BY <2>1, <2>2
<1> HIDE DEF Numbers
<1>3. Cardinality(1 .. gap - 1) = gap - 1
  BY <1>1, FS_Interval
<1> QED BY <1>2, <1>3 DEF Count

\* The newest log is the one under the file's name, or else the first backup.
LEMMA NewestIs ==
    ASSUME NEW top \in Nat, NEW gap \in Nat, NEW last \in Nat, LogFiles(top, gap, last)
    PROVE  Newest = IF current = 0 THEN top ELSE top + 1
<1> DEFINE S == {current} \cup {backups[i] : i \in Numbers}
           n == IF current = 0 THEN top ELSE top + 1
<1> USE LogAssumption DEF LogFiles
<1>1. Rotated(top, gap, last) /\ current \in {0, top + 1}
  OBVIOUS
<1>2. \A g \in S : g \in Nat /\ g <= n
  <2>1. \A i \in Numbers : backups[i] \in Nat /\ backups[i] <= top
    <3> TAKE i \in Numbers
    <3>1. i \in Nat /\ i >= 1
      BY DEF Numbers
    <3> QED BY <1>1, <3>1, RotatedFacts
  <2> QED BY <1>1, <2>1
<1>3. n \in S
  <2>1. CASE current # 0
    BY <1>1, <2>1
  <2>2. CASE current = 0 /\ last = 0
    BY <2>2
  <2>3. CASE current = 0 /\ last # 0
    <3>1. gap = last + 1 /\ 1 < gap /\ 1 \in Numbers
      BY <2>3, <1>1 DEF Numbers, Rotated
    <3>2. backups[1] = top
      BY <1>1, <3>1, RotatedFacts
    <3> QED BY <2>3, <3>1, <3>2
  <2> QED BY <2>1, <2>2, <2>3
<1>4. \A x \in S : (\A y \in S : x >= y) => x = n
  BY <1>2, <1>3
<1>5. \A y \in S : n >= y
  BY <1>2, <1>3
<1>6. Newest = CHOOSE x \in S : \A y \in S : x >= y
  BY DEF Newest, Max
<1> HIDE DEF S, n
<1>7. Newest = n
  BY <1>3, <1>4, <1>5, <1>6
<1> QED BY <1>7 DEF n

\* The files are those rotation should keep.
LEMMA FilesAreInOrder == FilesInv => BackupsInOrder
<1> SUFFICES ASSUME FilesInv PROVE BackupsInOrder
  OBVIOUS
<1> USE LogAssumption
<1>1. PICK top \in Nat, gap \in Nat, last \in Nat : LogFiles(top, gap, last)
  BY DEF FilesInv
<1>2. Rotated(top, gap, last) /\ current \in {0, top + 1}
  BY <1>1 DEF LogFiles
<1>3. \A i \in Kept : /\ i \in Nat /\ 1 <= i /\ i <= last /\ i # gap
                      /\ backups[i] = IF i < gap THEN top + 1 - i ELSE top + 2 - i
  <2> TAKE i \in Kept
  <2>1. i \in Numbers /\ Exists(i)
    BY DEF Kept
  <2>2. i \in Nat /\ 1 <= i
    BY <2>1 DEF Numbers
  <2> QED BY <1>2, <2>1, <2>2, RotatedFacts
<1>4. ASSUME NEW i \in Kept, NEW j \in Kept, i < j
      PROVE  backups[i] > backups[j]
  <2>1. gap \in Nat
    OBVIOUS
  <2>2. /\ i \in Nat /\ j \in Nat /\ i # gap /\ j # gap
        /\ backups[i] = IF i < gap THEN top + 1 - i ELSE top + 2 - i
        /\ backups[j] = IF j < gap THEN top + 1 - j ELSE top + 2 - j
    BY <1>3
  <2> QED BY <1>4, <2>1, <2>2
<1>5. ASSUME NEW i \in Kept, current # 0
      PROVE  current > backups[i]
  <2>1. i \in Nat /\ 1 <= i /\ i # gap
        /\ backups[i] = IF i < gap THEN top + 1 - i ELSE top + 2 - i
    BY <1>3
  <2>2. i < gap \/ i >= 2
    BY <1>2, <2>1 DEF Rotated
  <2> QED BY <1>2, <1>5, <2>1, <2>2
<1>6. ASSUME NEW i \in Kept, NEW g \in backups[i] .. Newest
      PROVE  g \in {current} \cup {backups[j] : j \in Kept}
  <2>1. Newest = IF current = 0 THEN top ELSE top + 1
    BY <1>1, NewestIs
  <2>2. CASE g = top + 1
    BY <1>2, <1>3, <2>1, <2>2
  <2>3. CASE g # top + 1
    <3> DEFINE before == top + 1 - g
               j == IF before < gap THEN before ELSE before + 1
    <3>1. g \in Int /\ backups[i] <= g /\ g <= top
      BY <1>2, <1>3, <2>1, <2>3
    <3>2. before \in Nat /\ 1 <= before /\ before <= IF i < gap THEN i ELSE i - 1
      BY <1>3, <3>1
    <3>3. j \in Numbers /\ j <= last /\ j # gap
      BY <1>2, <1>3, <3>2 DEF Rotated, Numbers
    <3>4. j \in Kept
      BY <1>2, <3>3, RotatedFacts DEF Kept
    <3>5. backups[j] = g
      BY <1>3, <3>1, <3>2, <3>4
    <3> QED BY <3>4, <3>5
  <2> QED BY <2>2, <2>3
<1>7. MaxBackups > 0 => Cardinality(Kept) <= MaxBackups
  <2>1. Kept \in SUBSET (1 .. last)
    BY <1>3
  <2>2. Cardinality(1 .. last) = last /\ IsFiniteSet(1 .. last)
    BY FS_Interval
  <2>3. Cardinality(Kept) <= last
    BY <2>1, <2>2, FS_Subset
  <2>4. IsFiniteSet(Kept)
    BY <2>1, <2>2, FS_Subset
  <2>5. Cardinality(Kept) \in Nat
    BY <2>4, FS_CardinalityType
  <2> QED BY <1>1, <2>3, <2>5 DEF LogFiles
<1> QED BY <1>4, <1>5, <1>6, <1>7 DEF BackupsInOrder

-----------------------------------------------------------------------------
(* The log's steps.                                                        *)

LEMMA LogBegins == Init => LogInv
<1> SUFFICES ASSUME Init PROVE LogInv
  OBVIOUS
<1> USE LogAssumption DEF Init
<1>1. PICK n \in 0 .. MaxBackups :
        /\ n < MaxLogs
        /\ current = IF n = 0 THEN 0 ELSE n + 1
        /\ backups = [i \in Numbers |-> IF i <= n THEN n + 1 - i ELSE 0]
  BY DEF LogInit
<1>2. n \in Nat /\ n + 1 \in Nat
  BY <1>1
<1>3. Rotated(n, n + 1, n)
  <2>1. \A i \in Numbers : (IF i <= n THEN n + 1 - i ELSE 0)
                           = IF i < n + 1 THEN n + 1 - i
                             ELSE IF n + 1 < i /\ i <= n THEN n + 2 - i ELSE 0
    BY <1>2 DEF Numbers
  <2> QED BY <1>1, <1>2, <2>1 DEF Rotated
<1>4. LogFiles(n, n + 1, n)
  BY <1>1, <1>2, <1>3 DEF LogFiles
<1>5. at = [a \in Actors |-> "idle"] /\ Main \in Actors /\ fileOpen = FALSE
  BY DEF Actors, LogInit, NoLogger
<1>6. Rotates(n + 1)
  BY <1>5 DEF Rotates
<1>7. FilesInv
  BY <1>2, <1>4, <1>6 DEF FilesInv
<1>8. at \in [Actors -> LogPlaces]
  BY <1>5 DEF LogPlaces
<1> QED BY <1>5, <1>7, <1>8 DEF LogInv

\* A step that leaves the files alone, and begins no rotation.
LEMMA FilesLeftAlone ==
    ASSUME FilesInv, UNCHANGED <<part, filesVars>>,
           part = "log" /\ at'[Main] \in {"remove", "rename"}
                => at'[Main] = at[Main] /\ rotating' = rotating
    PROVE  FilesInv'
<1>1. PICK top \in Nat, gap \in Nat, last \in Nat : LogFiles(top, gap, last) /\ Rotates(gap)
  BY DEF FilesInv
<1>2. LogFiles(top, gap, last)'
  BY <1>1 DEF LogFiles, Rotated, filesVars
<1>3. Rotates(gap)'
  BY <1>1 DEF Rotates, TooMany, filesVars
<1> QED BY <1>2, <1>3 DEF FilesInv

\* The file of the oldest backup goes, if there are too many.
LEMMA RemoveInOrder ==
    ASSUME FilesInv, part = "log", part' = part, at \in [Actors -> LogPlaces], RemoveBackup
    PROVE  FilesInv'
<1> USE LogAssumption
<1>1. PICK top \in Nat, gap \in Nat, last \in Nat : LogFiles(top, gap, last) /\ Rotates(gap)
  BY DEF FilesInv
<1>2. /\ rotating = gap - 1 /\ current # 0 /\ MaxBackups > 0 /\ rotating >= MaxBackups
      /\ backups' = [backups EXCEPT ![rotating] = 0] /\ rotating' = rotating - 1
      /\ current' = current /\ at' = at /\ at[Main] = "remove"
  BY <1>1 DEF Rotates, RemoveBackup, TooMany, threadVars
<1>3. Rotated(top, gap, last) /\ last <= MaxBackups /\ gap = last + 1 /\ last >= 1
  BY <1>1, <1>2 DEF LogFiles, Rotated
<1>4. rotating = last /\ last \in Numbers /\ last - 1 \in Nat
  BY <1>2, <1>3 DEF Rotated, Numbers
<1>5. Rotated(top, last, last - 1)'
  <2>1. backups' = [i \in Numbers |-> IF i < last THEN top + 1 - i
                                      ELSE IF last < i /\ i <= last - 1 THEN top + 2 - i
                                      ELSE 0]
    <3>1. \A i \in Numbers : i \in Nat
      BY DEF Numbers
    <3>2. backups' = [i \in Numbers |-> IF i = last THEN 0 ELSE backups[i]]
      BY <1>2, <1>3, <1>4, RotatedFacts
    <3>3. \A i \in Numbers :
            (IF i = last THEN 0 ELSE backups[i])
            = IF i < last THEN top + 1 - i
              ELSE IF last < i /\ i <= last - 1 THEN top + 2 - i ELSE 0
      BY <1>3, <1>4, <3>1 DEF Rotated
    <3> QED BY <3>2, <3>3
  <2>2. last \in 1 .. (last - 1) + 1 /\ last - 1 <= MaxLogs /\ last - 1 <= top
    BY <1>3 DEF Rotated
  <2> QED BY <1>4, <2>1, <2>2 DEF Rotated
<1>6. LogFiles(top, last, last - 1)'
  BY <1>1, <1>2, <1>4, <1>5 DEF LogFiles
<1>7. Rotates(last)'
  BY <1>2, <1>4 DEF Rotates
<1> QED BY <1>4, <1>6, <1>7 DEF FilesInv

\* The free number moves down by one.
LEMMA RenameInOrder ==
    ASSUME FilesInv, part = "log", part' = part, at \in [Actors -> LogPlaces], RenameBackup
    PROVE  FilesInv'
<1> USE LogAssumption
<1>1. PICK top \in Nat, gap \in Nat, last \in Nat : LogFiles(top, gap, last) /\ Rotates(gap)
  BY DEF FilesInv
<1>2. /\ rotating = gap - 1 /\ current # 0 /\ rotating > 0 /\ rotating' = rotating - 1
      /\ MaxBackups > 0 => rotating < MaxBackups
      /\ current' = current /\ at' = at /\ at[Main] = "rename"
      /\ backups' = IF Exists(gap) THEN backups
                    ELSE [backups EXCEPT ![gap] = backups[gap - 1], ![gap - 1] = 0]
  <2>1. rotating = gap - 1 /\ current # 0 /\ ~TooMany
    BY <1>1 DEF Rotates, RenameBackup
  <2>2. /\ rotating > 0 /\ current' = current /\ rotating' = rotating - 1
        /\ backups' = IF Exists(rotating + 1) THEN backups
                      ELSE [backups EXCEPT ![rotating + 1] = backups[rotating], ![rotating] = 0]
    BY DEF RenameBackup
  <2>3. at' = at /\ at[Main] = "rename"
    BY DEF RenameBackup, threadVars
  <2>4. rotating + 1 = gap /\ rotating \in Int
    BY <2>1
  <2>5. MaxBackups > 0 => rotating < MaxBackups
    BY <2>1, <2>4 DEF TooMany
  <2>6. backups' = IF Exists(gap) THEN backups
                   ELSE [backups EXCEPT ![gap] = backups[gap - 1], ![gap - 1] = 0]
    BY <2>1, <2>2, <2>4
  <2> QED BY <2>1, <2>2, <2>3, <2>5, <2>6
<1>3. Rotated(top, gap, last) /\ current = top + 1
  BY <1>1, <1>2 DEF LogFiles
<1> DEFINE last2 == IF gap = last + 1 THEN gap ELSE last
<1>4. /\ gap \in Numbers /\ gap - 1 \in Numbers /\ gap - 1 \in Nat /\ last2 \in Nat
      /\ last2 <= top + 1 /\ last2 <= MaxLogs /\ gap <= last2 /\ gap - 1 <= top
  BY <1>1, <1>2, <1>3 DEF LogFiles, Rotated, Numbers
<1>5. ~Exists(gap) /\ backups[gap - 1] = top + 2 - gap
  BY <1>3, <1>4, RotatedFacts
<1>6. Rotated(top, gap - 1, last2)'
  <2>1. backups' = [i \in Numbers |-> IF i < gap - 1 THEN top + 1 - i
                                      ELSE IF gap - 1 < i /\ i <= last2 THEN top + 2 - i
                                      ELSE 0]
    <3>1. \A i \in Numbers : i \in Nat
      BY DEF Numbers
    <3>2. backups' = [backups EXCEPT ![gap] = top + 2 - gap, ![gap - 1] = 0]
      BY <1>2, <1>5
    <3>3. backups' = [i \in Numbers |-> IF i = gap - 1 THEN 0
                                        ELSE IF i = gap THEN top + 2 - gap ELSE backups[i]]
      BY <1>3, <1>4, <3>2, RotatedFacts
    <3>4. \A i \in Numbers :
            (IF i = gap - 1 THEN 0 ELSE IF i = gap THEN top + 2 - gap ELSE backups[i])
            = IF i < gap - 1 THEN top + 1 - i
              ELSE IF gap - 1 < i /\ i <= last2 THEN top + 2 - i ELSE 0
      BY <1>3, <1>4, <3>1 DEF Rotated
    <3> QED BY <3>3, <3>4
  <2>2. gap - 1 \in 1 .. last2 + 1
    BY <1>2, <1>4
  <2> HIDE DEF last2
  <2> QED BY <1>4, <2>1, <2>2 DEF Rotated
<1>7. MaxBackups > 0 => last2 <= MaxBackups
  BY <1>1, <1>2 DEF LogFiles
<1> HIDE DEF last2
<1>8. LogFiles(top, gap - 1, last2)'
  BY <1>1, <1>2, <1>4, <1>6, <1>7 DEF LogFiles
<1>9. Rotates(gap - 1)'
  BY <1>2 DEF Rotates, TooMany
<1> QED BY <1>4, <1>8, <1>9 DEF FilesInv

\* The log becomes the first backup.
LEMMA RenameLogInOrder ==
    ASSUME FilesInv, part = "log", part' = part, at \in [Actors -> LogPlaces], RenameLog
    PROVE  FilesInv'
<1> USE LogAssumption
<1>1. PICK top \in Nat, gap \in Nat, last \in Nat : LogFiles(top, gap, last) /\ Rotates(gap)
  BY DEF FilesInv
<1>2. /\ rotating = gap - 1 /\ current # 0 /\ rotating = 0
      /\ MaxBackups > 0 => rotating < MaxBackups
      /\ at[Main] = "rename" /\ at' = [at EXCEPT ![Main] = "open"]
      /\ ~Exists(1) => backups' = [backups EXCEPT ![1] = current] /\ current' = 0
  BY <1>1 DEF Rotates, RenameLog, TooMany, Goes
<1>3. Rotated(top, gap, last) /\ current = top + 1 /\ gap = 1
  BY <1>1, <1>2 DEF LogFiles
<1> DEFINE last2 == IF last = 0 THEN 1 ELSE last
<1>4. 1 \in Numbers /\ last2 \in Nat /\ top + 1 \in Nat /\ top + 1 <= MaxLogs
      /\ last2 <= top + 1 /\ last2 <= MaxLogs /\ last2 # 0
  BY <1>1, <1>3 DEF LogFiles, Rotated, Numbers
<1>5. ~Exists(1) /\ backups \in [Numbers -> Nat]
  BY <1>3, <1>4, RotatedFacts
<1>6. Rotated(top + 1, last2 + 1, last2)'
  <2>1. backups' = [i \in Numbers |-> IF i < last2 + 1 THEN top + 1 + 1 - i
                                      ELSE IF last2 + 1 < i /\ i <= last2 THEN top + 1 + 2 - i
                                      ELSE 0]
    <3>1. \A i \in Numbers : i \in Nat /\ i >= 1
      BY DEF Numbers
    <3>2. backups' = [i \in Numbers |-> IF i = 1 THEN top + 1 ELSE backups[i]]
      BY <1>2, <1>3, <1>5
    <3>3. \A i \in Numbers :
            (IF i = 1 THEN top + 1 ELSE backups[i])
            = IF i < last2 + 1 THEN top + 1 + 1 - i
              ELSE IF last2 + 1 < i /\ i <= last2 THEN top + 1 + 2 - i ELSE 0
      BY <1>3, <1>4, <3>1 DEF Rotated
    <3> QED BY <3>2, <3>3
  <2> HIDE DEF last2
  <2> QED BY <1>4, <2>1 DEF Rotated
<1>7. MaxBackups > 0 => last2 <= MaxBackups
  BY <1>1, <1>2 DEF LogFiles
<1> HIDE DEF last2
<1>8. LogFiles(top + 1, last2 + 1, last2)'
  BY <1>1, <1>2, <1>4, <1>5, <1>6, <1>7 DEF LogFiles
<1>9. Rotates(last2 + 1)'
  BY <1>2 DEF Rotates, Actors
<1> QED BY <1>4, <1>8, <1>9 DEF FilesInv

\* The file is created after the newest backup, or there already.
LEMMA OpenInOrder ==
    ASSUME FilesInv, part = "log", part' = part, at \in [Actors -> LogPlaces], Open
    PROVE  FilesInv' /\ current' # 0
<1> USE LogAssumption
<1>1. PICK top \in Nat, gap \in Nat, last \in Nat : LogFiles(top, gap, last) /\ Rotates(gap)
  BY DEF FilesInv
<1>2. Newest = IF current = 0 THEN top ELSE top + 1
  BY <1>1, NewestIs
<1>3. current' = top + 1 /\ top + 1 <= MaxLogs /\ backups' = backups
  BY <1>1, <1>2 DEF Open, LogFiles
<1>4. LogFiles(top, gap, last)'
  BY <1>1, <1>3 DEF LogFiles, Rotated
<1>5. at'[Main] = "idle"
  BY DEF Open, Goes, Actors
<1>6. Rotates(gap)'
  BY <1>5 DEF Rotates
<1> QED BY <1>1, <1>3, <1>4, <1>6 DEF FilesInv

LEMMA LogStep ==
    ASSUME LogInv, Logs, part = "log", part' = part
    PROVE  LogInv'
<1> USE LogAssumption DEF LogInv
<1>1. /\ Main \in Actors /\ at \in [Actors -> LogPlaces] /\ FilesInv
      /\ fileOpen => current # 0 /\ at[Main] \notin {"remove", "rename"}
  BY DEF Actors
<1>2. ASSUME NEW a \in Actors, LogMessage(a) \/ LockLog(a) \/ Log(a) \/ ClearBuffer(a)
      PROVE  LogInv'
  <2>1. /\ \/ at' = at
           \/ \E place \in LogPlaces \ {"remove", "rename"} : at' = [at EXCEPT ![a] = place]
        /\ UNCHANGED <<filesVars, rotating, fileOpen>>
    BY <1>2 DEF LogMessage, LockLog, Log, ClearBuffer, Enters, Goes, LogPlaces, filesVars
  <2>2. /\ at' \in [Actors -> LogPlaces]
        /\ at'[Main] \in {"remove", "rename"} => at'[Main] = at[Main]
    BY <1>1, <2>1
  <2>3. FilesInv'
    BY <1>1, <2>1, <2>2, FilesLeftAlone
  <2> QED BY <1>1, <2>1, <2>2, <2>3 DEF filesVars
<1>3. ASSUME RefreshSettings \/ OpenFails
      PROVE  LogInv'
  <2>1. /\ \E place \in {"open", "message"} : at' = [at EXCEPT ![Main] = place]
        /\ UNCHANGED <<filesVars, rotating>> /\ (fileOpen' => fileOpen)
    BY <1>3 DEF RefreshSettings, OpenFails, CloseFile, Enters, Goes, filesVars
  <2>2. /\ at' \in [Actors -> LogPlaces] /\ at'[Main] \in {"open", "message"}
    BY <1>1, <2>1 DEF LogPlaces
  <2>3. FilesInv'
    BY <1>1, <2>1, <2>2, FilesLeftAlone
  <2> QED BY <1>1, <2>1, <2>2, <2>3 DEF filesVars
<1>4. ASSUME FlushTimer
      PROVE  LogInv'
  <2>1. /\ at' = [at EXCEPT ![Main] = "remove"] /\ fileOpen /\ ~fileOpen'
        /\ current' = current /\ backups' = backups /\ rotating' = Count
    BY <1>4 DEF FlushTimer, CloseFile, Enters, filesVars
  <2>2. at' \in [Actors -> LogPlaces] /\ at'[Main] = "remove"
    BY <1>1, <2>1 DEF LogPlaces
  <2>3. PICK top \in Nat, gap \in Nat, last \in Nat : LogFiles(top, gap, last)
    BY <1>1 DEF FilesInv
  <2>4. Count = gap - 1
    BY <2>3, CountIsBeforeGap DEF LogFiles
  <2>5. LogFiles(top, gap, last)' /\ Rotates(gap)'
    BY <1>1, <2>1, <2>2, <2>3, <2>4 DEF LogFiles, Rotated, Rotates
  <2>6. FilesInv'
    BY <2>3, <2>5 DEF FilesInv
  <2> QED BY <2>1, <2>2, <2>6
<1>5. ASSUME RemoveBackup
      PROVE  LogInv'
  <2>1. FilesInv'
    BY <1>1, <1>5, RemoveInOrder
  <2>2. at' = at /\ current' = current /\ fileOpen' = fileOpen
    BY <1>5 DEF RemoveBackup, threadVars
  <2> QED BY <1>1, <2>1, <2>2
<1>6. ASSUME Removed
      PROVE  LogInv'
  <2>1. /\ at[Main] = "remove" /\ at' = [at EXCEPT ![Main] = "rename"] /\ ~TooMany
        /\ current' = current /\ backups' = backups /\ rotating' = rotating
        /\ fileOpen' = fileOpen
    BY <1>6 DEF Removed, Goes, logVars
  <2>2. at' \in [Actors -> LogPlaces] /\ at'[Main] = "rename"
    BY <1>1, <2>1 DEF LogPlaces
  <2>3. PICK top \in Nat, gap \in Nat, last \in Nat : LogFiles(top, gap, last) /\ Rotates(gap)
    BY <1>1 DEF FilesInv
  <2>4. LogFiles(top, gap, last)'
    BY <2>1, <2>3 DEF LogFiles, Rotated
  <2>5. Rotates(gap)'
    BY <2>1, <2>2, <2>3 DEF Rotates, TooMany
  <2>6. FilesInv'
    BY <2>4, <2>5 DEF FilesInv
  <2> QED BY <1>1, <2>1, <2>2, <2>6
<1>7. ASSUME RenameBackup
      PROVE  LogInv'
  <2>1. FilesInv'
    BY <1>1, <1>7, RenameInOrder
  <2>2. at' = at /\ current' = current /\ fileOpen' = fileOpen
    BY <1>7 DEF RenameBackup, threadVars
  <2> QED BY <1>1, <2>1, <2>2
<1>8. ASSUME RenameLog
      PROVE  LogInv'
  <2>1. FilesInv'
    BY <1>1, <1>8, RenameLogInOrder
  <2>2. /\ at[Main] = "rename" /\ at' = [at EXCEPT ![Main] = "open"] /\ fileOpen' = fileOpen
    BY <1>8 DEF RenameLog, Goes
  <2>3. at' \in [Actors -> LogPlaces] /\ ~fileOpen'
    BY <1>1, <2>2 DEF LogPlaces
  <2> QED BY <2>1, <2>3
<1>9. ASSUME Open
      PROVE  LogInv'
  <2>1. FilesInv' /\ current' # 0
    BY <1>1, <1>9, OpenInOrder
  <2>2. at' = [at EXCEPT ![Main] = "idle"]
    BY <1>9 DEF Open, Goes
  <2>3. at' \in [Actors -> LogPlaces] /\ at'[Main] = "idle"
    BY <1>1, <2>2 DEF LogPlaces
  <2> QED BY <2>1, <2>3
<1> QED BY <1>2, <1>3, <1>4, <1>5, <1>6, <1>7, <1>8, <1>9 DEF Logs

\* Steps of the other parts, of time and the end of the process begin no
\* rotation.
LEMMA LogInvariance == LogInv /\ [Next]_vars => LogInv'
<1> SUFFICES ASSUME LogInv, [Next]_vars PROVE LogInv'
  OBVIOUS
<1>1. CASE part = "log" /\ Logs /\ UNCHANGED <<part, sessionVars, fileVars>>
  BY <1>1, LogStep
<1>2. CASE part # "log" /\ UNCHANGED <<part, logVars>>
  <2>1. FilesInv'
    BY <1>2, FilesLeftAlone DEF LogInv, logVars, filesVars
  <2> QED BY <1>2, <2>1 DEF LogInv
<1>3. CASE UNCHANGED <<part, at, logVars>>
  <2>1. UNCHANGED <<part, at, current, backups, rotating, fileOpen>>
    BY <1>3 DEF logVars, filesVars
  <2>2. FilesInv'
    BY <2>1, FilesLeftAlone DEF LogInv, filesVars
  <2> QED BY <2>1, <2>2 DEF LogInv
<1>4. CASE Restart
  <2>1. /\ at' = [a \in Actors |-> "idle"] /\ UNCHANGED <<part, filesVars>> /\ fileOpen' = FALSE
    BY <1>4 DEF Restart, LoggerGone
  <2>2. at'[Main] = "idle" /\ at' \in [Actors -> LogPlaces]
    BY <2>1 DEF Actors, LogPlaces
  <2>3. FilesInv'
    BY <2>1, <2>2, FilesLeftAlone DEF LogInv
  <2> QED BY <2>1, <2>2, <2>3 DEF LogInv
<1> QED BY <1>1, <1>2, <1>3, <1>4 DEF Next, vars, Tick, threadVars

\* The backups on the disk are the newest logs in their order, whatever number
\* of backups is kept and whenever the process is killed.
THEOREM BackupsInOrderAlways == Spec => []BackupsInOrder
<1>1. LogInv => BackupsInOrder
  BY FilesAreInOrder DEF LogInv
<1> QED BY <1>1, LogBegins, LogInvariance, PTL DEF Spec

-----------------------------------------------------------------------------
(* The logger's own warning.                                               *)

\* The logger's mutex is held by who is in log(), or rotates or opens the file.
LocksHeld ==
    part = "log" =>
        /\ \A a \in Actors : at[a] = "log" => logMutex = a
        /\ at[Main] \in {"remove", "rename", "open"} => logMutex = Main

\* open() warned under the mutex: the main thread waits in log() for itself.
WaitsForItself ==
    part = "log" /\ at[Main] = "message" /\ handler = Main /\ logMutex = Main

LEMMA OpenFailsWaits ==
    ASSUME LogInv, LocksHeld, OpenFails, part = "log", part' = part
    PROVE  WaitsForItself'
<1>1. Main \in Actors /\ at \in [Actors -> LogPlaces]
  BY DEF Actors, LogInv
<1>2. /\ at[Main] = "open" /\ at' = [at EXCEPT ![Main] = "message"]
      /\ handler' = Main /\ logMutex' = logMutex
  BY DEF OpenFails, Goes
<1> QED BY <1>1, <1>2 DEF LocksHeld, WaitsForItself

LEMMA LocksStep ==
    ASSUME LogInv, LocksHeld, Logs, part = "log", part' = part
    PROVE  LocksHeld' /\ (WaitsForItself => WaitsForItself')
<1>1. Main \in Actors /\ at \in [Actors -> LogPlaces] /\ Nobody \notin Actors
  BY ThreadsAssumption DEF Actors, LogInv
<1>2. ASSUME NEW a \in Actors, LogMessage(a)
      PROVE  LocksHeld' /\ (WaitsForItself => WaitsForItself')
  <2>1. at[a] = "idle" /\ at' = [at EXCEPT ![a] = "message"] /\ logMutex' = logMutex
        /\ handler = Nobody
    BY <1>2 DEF LogMessage, Enters
  <2> QED BY <1>1, <2>1 DEF LocksHeld, WaitsForItself
<1>3. ASSUME NEW a \in Actors, LockLog(a)
      PROVE  LocksHeld' /\ (WaitsForItself => WaitsForItself')
  <2>1. at[a] = "message" /\ at' = [at EXCEPT ![a] = "log"] /\ logMutex' = a
        /\ logMutex = Nobody
    BY <1>3 DEF LockLog, Goes
  <2>2. at[Main] \notin {"remove", "rename", "open"} /\ \A b \in Actors : at[b] # "log"
    BY <1>1, <2>1 DEF LocksHeld
  <2> QED BY <1>1, <2>1, <2>2 DEF LocksHeld, WaitsForItself
<1>4. ASSUME NEW a \in Actors, Log(a)
      PROVE  LocksHeld' /\ (WaitsForItself => WaitsForItself')
  <2>1. at[a] = "log" /\ at' = [at EXCEPT ![a] = "idle"]
    BY <1>4 DEF Log, Goes
  <2>2. logMutex = a
    BY <2>1 DEF LocksHeld
  <2>3. \A b \in Actors : b # a => at[b] # "log"
    BY <2>2 DEF LocksHeld
  <2>4. at[Main] \notin {"remove", "rename", "open"} /\ ~WaitsForItself
    BY <1>1, <2>1, <2>2 DEF LocksHeld, WaitsForItself
  <2> QED BY <1>1, <2>1, <2>3, <2>4 DEF LocksHeld
<1>5. ASSUME NEW a \in Actors, ClearBuffer(a)
      PROVE  LocksHeld' /\ (WaitsForItself => WaitsForItself')
  BY <1>5 DEF ClearBuffer, LocksHeld, WaitsForItself
<1>6. ASSUME RefreshSettings \/ FlushTimer
      PROVE  LocksHeld' /\ (WaitsForItself => WaitsForItself')
  <2>1. PICK place \in {"remove", "open"} : at' = [at EXCEPT ![Main] = place]
    BY <1>6 DEF RefreshSettings, FlushTimer, Enters
  <2>2. at[Main] = "idle" /\ logMutex = Nobody /\ logMutex' = Main
    BY <1>6 DEF RefreshSettings, FlushTimer, Enters
  <2>3. \A a \in Actors : at[a] # "log"
    BY <1>1, <2>2 DEF LocksHeld
  <2> QED BY <1>1, <2>1, <2>2, <2>3 DEF LocksHeld, WaitsForItself
<1>7. ASSUME RemoveBackup \/ RenameBackup
      PROVE  LocksHeld' /\ (WaitsForItself => WaitsForItself')
  BY <1>7 DEF RemoveBackup, RenameBackup, threadVars, LocksHeld, WaitsForItself
<1>8. ASSUME Removed \/ RenameLog
      PROVE  LocksHeld' /\ (WaitsForItself => WaitsForItself')
  <2>1. PICK place \in {"rename", "open"} : at' = [at EXCEPT ![Main] = place]
    BY <1>8 DEF Removed, RenameLog, Goes
  <2>2. at[Main] \in {"remove", "rename"} /\ logMutex' = logMutex
    BY <1>8 DEF Removed, RenameLog, Goes, logVars
  <2> QED BY <1>1, <2>1, <2>2 DEF LocksHeld, WaitsForItself
<1>9. ASSUME Open
      PROVE  LocksHeld' /\ (WaitsForItself => WaitsForItself')
  <2>1. at[Main] = "open" /\ at' = [at EXCEPT ![Main] = "idle"]
    BY <1>9 DEF Open, Goes
  <2>2. \A a \in Actors : at[a] # "log"
    BY <1>1, <2>1 DEF LocksHeld
  <2> QED BY <1>1, <2>1, <2>2 DEF LocksHeld, WaitsForItself
<1>10. ASSUME OpenFails
       PROVE  LocksHeld' /\ WaitsForItself'
  <2>1. at' = [at EXCEPT ![Main] = "message"] /\ logMutex' = logMutex
    BY <1>10 DEF OpenFails, Goes
  <2>2. WaitsForItself'
    BY <1>10, OpenFailsWaits
  <2> QED BY <1>1, <2>1, <2>2 DEF LocksHeld
<1> QED BY <1>2, <1>3, <1>4, <1>5, <1>6, <1>7, <1>8, <1>9, <1>10 DEF Logs

\* What open() cannot open silences the logger: once it warns, the main thread
\* waits for its own mutex with msgHandler's, and no step but the end of the
\* process changes that, whatever the other threads do.
SilentUntilRestart ==
    /\ part = "log" /\ OpenFails => WaitsForItself'
    /\ WaitsForItself => WaitsForItself' \/ Restart

THEOREM FailedOpenSilencesLog == Spec => [][SilentUntilRestart]_vars
<1>1. Init => LogInv /\ LocksHeld
  <2>1. Init => LocksHeld
    BY DEF Init, LocksHeld, Actors
  <2> QED BY <2>1, LogBegins
<1>2. LogInv /\ LocksHeld /\ [Next]_vars => LogInv' /\ LocksHeld' /\ [SilentUntilRestart]_vars
  <2> SUFFICES ASSUME LogInv, LocksHeld, [Next]_vars
               PROVE  LocksHeld' /\ [SilentUntilRestart]_vars
    BY LogInvariance
  <2>1. part' = part
    BY DEF Next, Tick, Restart, vars
  <2>2. part = "log" /\ OpenFails => WaitsForItself'
    BY <2>1, OpenFailsWaits
  <2>3. CASE part = "log" /\ Logs
    BY <2>1, <2>2, <2>3, LocksStep DEF SilentUntilRestart
  <2>4. CASE part # "log"
    BY <2>1, <2>4 DEF LocksHeld, SilentUntilRestart, WaitsForItself
  <2>5. CASE UNCHANGED <<part, at, handler, logMutex>>
    BY <2>2, <2>5 DEF LocksHeld, SilentUntilRestart, WaitsForItself
  <2>6. CASE Restart
    <3>1. at' = [a \in Actors |-> "idle"]
      BY <2>6 DEF Restart
    <3>2. LocksHeld'
      BY <3>1 DEF LocksHeld, Actors
    <3> QED BY <2>2, <2>6, <3>2 DEF SilentUntilRestart
  <2> QED BY <2>3, <2>4, <2>5, <2>6 DEF Next, Tick, vars, threadVars, logVars
<1> QED BY <1>1, <1>2, PTL DEF Spec

-----------------------------------------------------------------------------
(* The handles of a session.                                               *)

\* Who holds d, for given handles and data being released: an actor and the
\* place of the handle in its scopes, 0 for the one it is releasing.
HeldBy(scopes, leaving, d) ==
    {h \in Actors \X Nat :
        IF h[2] = 0 THEN leaving[h[1]] = d
        ELSE h[2] <= Len(scopes[h[1]]) /\ scopes[h[1]][h[2]] = d}

Scopes == [Actors -> Seq(Data)]
Leavings == [Actors -> Data \cup {NoSession}]

\* The innermost handle of an actor, and what it is releasing.
Top(scopes, a) == <<a, Len(scopes[a])>>
Released(a) == <<a, 0>>

\* The steps: a copy to an actor's scope, a new session's handle, the start of a
\* destructor and of an assignment, and their end.
Copied(scopes2, scopes, a, e) ==
    /\ scopes2[a] = Append(scopes[a], e)
    /\ \A b \in Actors : b # a => scopes2[b] = scopes[b]

Created(scopes2, scopes, a, e) ==
    /\ scopes2[a] = <<e>>
    /\ \A b \in Actors : b # a => scopes2[b] = scopes[b]

Destroyed(scopes2, leaving2, scopes, leaving, a) ==
    /\ scopes[a] # <<>> /\ leaving[a] = NoSession
    /\ scopes2[a] = Front(scopes[a]) /\ leaving2[a] = Last(scopes[a])
    /\ \A b \in Actors : b # a => scopes2[b] = scopes[b] /\ leaving2[b] = leaving[b]

Assigned(scopes2, leaving2, scopes, leaving, a) ==
    /\ scopes[a] # <<>> /\ leaving[a] = NoSession
    /\ scopes2[a] = Tail(scopes[a]) /\ leaving2[a] = Head(scopes[a])
    /\ \A b \in Actors : b # a => scopes2[b] = scopes[b] /\ leaving2[b] = leaving[b]

Finished(leaving2, leaving, a) ==
    /\ leaving2[a] = NoSession
    /\ \A b \in Actors : b # a => leaving2[b] = leaving[b]

\* What it is to be such a pair.
LEMMA HeldIs ==
    ASSUME NEW scopes, NEW leaving, NEW d
    PROVE  /\ \A a \in Actors, i \in Nat :
                <<a, i>> \in HeldBy(scopes, leaving, d) <=>
                    IF i = 0 THEN leaving[a] = d
                    ELSE i <= Len(scopes[a]) /\ scopes[a][i] = d
           /\ \A h \in HeldBy(scopes, leaving, d) :
                \E a \in Actors, i \in Nat : h = <<a, i>>
BY DEF HeldBy

\* Sets of such pairs are equal when they have the same ones.
LEMMA SamePairs ==
    ASSUME NEW S, NEW T,
           \A h \in S \cup T : \E a \in Actors, i \in Nat : h = <<a, i>>,
           \A a \in Actors, i \in Nat : <<a, i>> \in S <=> <<a, i>> \in T
    PROVE  S = T
<1>1. ASSUME NEW h \in S PROVE h \in T
  <2>1. PICK a \in Actors, i \in Nat : h = <<a, i>>
    OBVIOUS
  <2> QED BY <2>1
<1>2. ASSUME NEW h \in T PROVE h \in S
  <2>1. PICK a \in Actors, i \in Nat : h = <<a, i>>
    OBVIOUS
  <2> QED BY <2>1
<1> QED BY <1>1, <1>2

\* A copy is one handle more.
LEMMA HeldWithCopy ==
    ASSUME NEW scopes \in Scopes, NEW leaving \in Leavings, NEW a \in Actors,
           NEW e \in Data, NEW d \in Data, NEW scopes2, Copied(scopes2, scopes, a, e)
    PROVE  /\ Top(scopes2, a) \notin HeldBy(scopes, leaving, d)
           /\ HeldBy(scopes2, leaving, d)
                = IF d = e THEN HeldBy(scopes, leaving, d) \cup {Top(scopes2, a)}
                  ELSE HeldBy(scopes, leaving, d)
<1> DEFINE held == HeldBy(scopes, leaving, d)
           held2 == HeldBy(scopes2, leaving, d)
           n == Len(scopes[a]) + 1
<1>1. scopes[a] \in Seq(Data) /\ n \in Nat /\ n # 0 /\ Len(scopes[a]) \in Nat
  BY DEF Scopes
<1>2. Len(Append(scopes[a], e)) = n /\ Append(scopes[a], e)[n] = e
      /\ \A i \in Nat : i # 0 /\ i < n => Append(scopes[a], e)[i] = scopes[a][i]
  BY <1>1
<1>3. scopes2[a] = Append(scopes[a], e) /\ \A b \in Actors : b # a => scopes2[b] = scopes[b]
  BY DEF Copied
<1>4. Top(scopes2, a) = <<a, n>>
  BY <1>2, <1>3 DEF Top
<1>5. ASSUME NEW b \in Actors, NEW i \in Nat
      PROVE  <<b, i>> \in held2 <=> <<b, i>> \in held \/ (d = e /\ b = a /\ i = n)
  <2>1. CASE b # a
    BY <1>3, <2>1, HeldIs
  <2>2. CASE b = a /\ i = 0
    BY <1>1, <2>2, HeldIs
  <2>3. CASE b = a /\ i # 0
    <3>1. <<b, i>> \in held2 <=> i <= n /\ Append(scopes[a], e)[i] = d
      BY <1>2, <1>3, <2>3, HeldIs
    <3>2. <<b, i>> \in held <=> i < n /\ scopes[a][i] = d
      BY <1>1, <2>3, HeldIs
    <3> QED BY <1>1, <1>2, <2>3, <3>1, <3>2
  <2> QED BY <2>1, <2>2, <2>3
<1>6. <<a, n>> \notin held
  BY <1>1, HeldIs
<1>7. \A h \in held2 : \E b \in Actors, i \in Nat : h = <<b, i>>
  BY HeldIs
<1>8. \A h \in held : \E b \in Actors, i \in Nat : h = <<b, i>>
  BY HeldIs
<1> HIDE DEF held, held2, n
<1>9. held2 = IF d = e THEN held \cup {<<a, n>>} ELSE held
  <2>1. CASE d = e
    <3> DEFINE more == held \cup {<<a, n>>}
    <3>1. \A h \in held2 \cup more : \E b \in Actors, i \in Nat : h = <<b, i>>
      BY <1>1, <1>7, <1>8
    <3>2. \A b \in Actors, i \in Nat : <<b, i>> \in held2 <=> <<b, i>> \in more
      BY <1>5, <2>1
    <3> HIDE DEF more
    <3>3. held2 = more
      BY <3>1, <3>2, SamePairs
    <3> QED BY <2>1, <3>3 DEF more
  <2>2. CASE d # e
    <3>1. \A b \in Actors, i \in Nat : <<b, i>> \in held2 <=> <<b, i>> \in held
      BY <1>5, <2>2
    <3>2. \A h \in held2 \cup held : \E b \in Actors, i \in Nat : h = <<b, i>>
      BY <1>7, <1>8
    <3>3. held2 = held
      BY <3>1, <3>2, SamePairs
    <3> QED BY <2>2, <3>3
  <2> QED BY <2>1, <2>2
<1> QED BY <1>4, <1>6, <1>9 DEF held, held2

\* The handle of a new session is the only one of its scope.
LEMMA HeldAtCreation ==
    ASSUME NEW scopes \in Scopes, NEW leaving \in Leavings, NEW a \in Actors,
           NEW e \in Data, NEW d \in Data, NEW scopes2, Created(scopes2, scopes, a, e)
    PROVE  /\ d # e => HeldBy(scopes2, leaving, d) \subseteq HeldBy(scopes, leaving, d)
           /\ d = e /\ HeldBy(scopes, leaving, d) = {} =>
                HeldBy(scopes2, leaving, d) = {Top(scopes2, a)}
<1> DEFINE held == HeldBy(scopes, leaving, d)
           held2 == HeldBy(scopes2, leaving, d)
<1>1. Len(<<e>>) = 1 /\ <<e>>[1] = e
  OBVIOUS
<1>2. scopes2[a] = <<e>> /\ \A b \in Actors : b # a => scopes2[b] = scopes[b]
  BY DEF Created
<1>3. ASSUME NEW b \in Actors, NEW i \in Nat
      PROVE  <<b, i>> \in held2 <=> IF b = a /\ i # 0 THEN i = 1 /\ d = e
                                    ELSE <<b, i>> \in held
  <2>1. CASE b # a \/ i = 0
    BY <1>2, <2>1, HeldIs
  <2>2. CASE b = a /\ i # 0
    <3>1. <<a, i>> \in held2 <=> i <= Len(scopes2[a]) /\ scopes2[a][i] = d
      BY <2>2, HeldIs
    <3> QED BY <1>1, <1>2, <2>2, <3>1
  <2> QED BY <2>1, <2>2
<1>4. \A h \in held2 : \E b \in Actors, i \in Nat : h = <<b, i>>
  BY HeldIs
<1>5. Top(scopes2, a) = <<a, 1>>
  BY <1>1, <1>2 DEF Top
<1> HIDE DEF held, held2
<1>6. ASSUME d # e, NEW h \in held2 PROVE h \in held
  <2>1. PICK b \in Actors, i \in Nat : h = <<b, i>>
    BY <1>4
  <2> QED BY <1>3, <1>6, <2>1
<1>7. ASSUME d = e, held = {} PROVE held2 = {<<a, 1>>}
  <2>1. ASSUME NEW h \in held2 PROVE h = <<a, 1>>
    <3>1. PICK b \in Actors, i \in Nat : h = <<b, i>>
      BY <1>4
    <3> QED BY <1>3, <1>7, <3>1
  <2>2. <<a, 1>> \in held2
    BY <1>3, <1>7
  <2> QED BY <2>1, <2>2
<1> QED BY <1>5, <1>6, <1>7 DEF held, held2

\* A destructor's handle is released instead of held.
LEMMA HeldAtDestructor ==
    ASSUME NEW scopes \in Scopes, NEW leaving \in Leavings, NEW a \in Actors,
           NEW d \in Data, NEW scopes2, NEW leaving2,
           Destroyed(scopes2, leaving2, scopes, leaving, a)
    PROVE  /\ Released(a) \notin HeldBy(scopes, leaving, d)
           /\ \/ /\ Top(scopes, a) \in HeldBy(scopes, leaving, d)
                 /\ HeldBy(scopes2, leaving2, d)
                    = (HeldBy(scopes, leaving, d) \ {Top(scopes, a)}) \cup {Released(a)}
              \/ HeldBy(scopes2, leaving2, d) = HeldBy(scopes, leaving, d)
<1> USE SessionsAssumption
<1> DEFINE held == HeldBy(scopes, leaving, d)
           held2 == HeldBy(scopes2, leaving2, d)
           n == Len(scopes[a])
<1>1. scopes[a] \in Seq(Data) /\ n \in Nat /\ n # 0
  BY DEF Scopes, Destroyed
<1>2. Len(Front(scopes[a])) = n - 1 /\ Last(scopes[a]) = scopes[a][n]
      /\ \A i \in Nat : i # 0 /\ i < n => Front(scopes[a])[i] = scopes[a][i]
  BY <1>1 DEF Front, Last
<1>3. scopes[a] # <<>> /\ leaving[a] = NoSession
  BY DEF Destroyed
<1>4. /\ scopes2[a] = Front(scopes[a]) /\ leaving2[a] = scopes[a][n]
      /\ \A b \in Actors : b # a => scopes2[b] = scopes[b] /\ leaving2[b] = leaving[b]
  BY <1>2 DEF Destroyed
<1>5. ASSUME NEW b \in Actors, NEW i \in Nat
      PROVE  <<b, i>> \in held2 <=> IF b = a /\ i = 0 THEN scopes[a][n] = d
                                    ELSE <<b, i>> \in held /\ ~(b = a /\ i = n)
  <2>1. CASE b # a
    BY <1>4, <2>1, HeldIs
  <2>2. CASE b = a /\ i = 0
    BY <1>4, <2>2, HeldIs
  <2>3. CASE b = a /\ i # 0
    <3>1. <<b, i>> \in held2 <=> i <= n - 1 /\ Front(scopes[a])[i] = d
      BY <1>2, <1>4, <2>3, HeldIs
    <3>2. <<b, i>> \in held <=> i <= n /\ scopes[a][i] = d
      BY <1>1, <2>3, HeldIs
    <3> QED BY <1>1, <1>2, <2>3, <3>1, <3>2
  <2> QED BY <2>1, <2>2, <2>3
<1>6. /\ <<a, 0>> \notin held
      /\ <<a, n>> \in held <=> scopes[a][n] = d
  BY <1>3, <1>1, HeldIs
<1>7. \A h \in held2 : \E b \in Actors, i \in Nat : h = <<b, i>>
  BY HeldIs
<1>8. \A h \in held : \E b \in Actors, i \in Nat : h = <<b, i>>
  BY HeldIs
<1>9. <<a, n>> # <<a, 0>> /\ 0 \in Nat
  BY <1>1
<1> HIDE DEF held, held2, n
<1>10. IF d = scopes[a][n] THEN held2 = (held \ {<<a, n>>}) \cup {<<a, 0>>}
      ELSE held2 = held
  <2>1. CASE d = scopes[a][n]
    <3> DEFINE moved == (held \ {<<a, n>>}) \cup {<<a, 0>>}
    <3>1. \A h \in held2 \cup moved : \E b \in Actors, i \in Nat : h = <<b, i>>
      BY <1>7, <1>8, <1>9
    <3>2. \A b \in Actors, i \in Nat : <<b, i>> \in held2 <=> <<b, i>> \in moved
      BY <1>5, <1>9, <2>1
    <3> HIDE DEF moved
    <3>3. held2 = moved
      BY <3>1, <3>2, SamePairs
    <3> QED BY <2>1, <3>3 DEF moved
  <2>2. CASE d # scopes[a][n]
    <3>1. \A b \in Actors, i \in Nat : <<b, i>> \in held2 <=> <<b, i>> \in held
      BY <1>5, <1>6, <2>2
    <3>2. \A h \in held2 \cup held : \E b \in Actors, i \in Nat : h = <<b, i>>
      BY <1>7, <1>8
    <3>3. held2 = held
      BY <3>1, <3>2, SamePairs
    <3> QED BY <2>2, <3>3
  <2> QED BY <2>1, <2>2
<1>11. Top(scopes, a) = <<a, n>> /\ Released(a) = <<a, 0>>
  BY DEF Top, Released, n
<1> QED BY <1>6, <1>10, <1>11 DEF held, held2

\* The end of a release is one handle less.
LEMMA HeldAfterRelease ==
    ASSUME NEW scopes \in Scopes, NEW leaving \in Leavings, NEW a \in Actors,
           NEW d \in Data, NEW leaving2, Finished(leaving2, leaving, a)
    PROVE  /\ Released(a) \in HeldBy(scopes, leaving, d) <=> leaving[a] = d
           /\ HeldBy(scopes, leaving2, d) = HeldBy(scopes, leaving, d) \ {Released(a)}
<1> USE SessionsAssumption
<1> DEFINE held == HeldBy(scopes, leaving, d)
           held2 == HeldBy(scopes, leaving2, d)
<1>1. leaving2[a] = NoSession /\ \A b \in Actors : b # a => leaving2[b] = leaving[b]
  BY DEF Finished
<1>2. ASSUME NEW b \in Actors, NEW i \in Nat
      PROVE  <<b, i>> \in held2 <=> <<b, i>> \in held /\ ~(b = a /\ i = 0)
  BY <1>1, HeldIs
<1>3. \A h \in held2 : \E b \in Actors, i \in Nat : h = <<b, i>>
  BY HeldIs
<1>4. \A h \in held : \E b \in Actors, i \in Nat : h = <<b, i>>
  BY HeldIs
<1>5. <<a, 0>> \in held <=> leaving[a] = d
  BY HeldIs
<1> HIDE DEF held, held2
<1>6. held2 = held \ {<<a, 0>>}
  BY <1>2, <1>3, <1>4
<1> QED BY <1>5, <1>6 DEF held, held2, Released

\* operator= releases the outermost handle: the others keep their order, one
\* place further out.
LEMMA HeldAtAssignment ==
    ASSUME NEW scopes \in Scopes, NEW leaving \in Leavings, NEW a \in Actors,
           NEW d \in Data, NEW scopes2, NEW leaving2,
           Assigned(scopes2, leaving2, scopes, leaving, a)
    PROVE  ExistsBijection(HeldBy(scopes, leaving, d), HeldBy(scopes2, leaving2, d))
<1> USE SessionsAssumption
<1> DEFINE held == HeldBy(scopes, leaving, d)
           held2 == HeldBy(scopes2, leaving2, d)
           n == Len(scopes[a])
<1>1. scopes[a] \in Seq(Data) /\ n \in Nat /\ n # 0
  BY DEF Scopes, Assigned
<1>2. Len(Tail(scopes[a])) = n - 1 /\ Head(scopes[a]) = scopes[a][1]
      /\ \A i \in Nat : i # 0 /\ i < n => Tail(scopes[a])[i] = scopes[a][i + 1]
  BY <1>1
<1>3. /\ scopes2[a] = Tail(scopes[a]) /\ leaving2[a] = scopes[a][1]
      /\ \A b \in Actors : b # a => scopes2[b] = scopes[b] /\ leaving2[b] = leaving[b]
  BY <1>2 DEF Assigned
<1>4. ASSUME NEW b \in Actors, NEW i \in Nat
      PROVE  <<b, i>> \in held2 <=> <<b, IF b = a THEN i + 1 ELSE i>> \in held
  <2>1. CASE b # a
    BY <1>3, <2>1, HeldIs
  <2>2. CASE b = a /\ i = 0
    <3>1. <<a, 1>> \in held <=> scopes[a][1] = d
      BY <1>1, HeldIs
    <3>2. <<a, 0>> \in held2 <=> scopes[a][1] = d
      BY <1>3, HeldIs
    <3> QED BY <2>2, <3>1, <3>2
  <2>3. CASE b = a /\ i # 0
    <3>1. <<a, i>> \in held2 <=> i <= Len(scopes2[a]) /\ scopes2[a][i] = d
      BY <2>3, HeldIs
    <3>2. <<b, i>> \in held2 <=> i <= Len(scopes2[a]) /\ scopes2[a][i] = d
      BY <2>3, <3>1
    <3>3. <<b, i>> \in held2 <=> i <= n - 1 /\ Tail(scopes[a])[i] = d
      BY <1>2, <1>3, <3>2
    <3>4. i + 1 \in Nat /\ i + 1 # 0
      OBVIOUS
    <3>5. <<a, i + 1>> \in held <=> i + 1 <= n /\ scopes[a][i + 1] = d
      BY <1>1, <3>4, HeldIs
    <3> QED BY <1>1, <1>2, <2>3, <3>3, <3>5
  <2> QED BY <2>1, <2>2, <2>3
<1>5. <<a, 0>> \notin held
  BY HeldIs DEF Assigned
<1>6. \A h \in held2 : \E b \in Actors, i \in Nat : h = <<b, i>>
  BY HeldIs
<1>7. \A h \in held : \E b \in Actors, i \in Nat : h = <<b, i>>
  BY HeldIs
<1> DEFINE f == [h \in held |-> <<h[1], IF h[1] = a THEN h[2] - 1 ELSE h[2]>>]
<1> HIDE DEF held, held2, n
<1>8. ASSUME NEW b \in Actors, NEW i \in Nat, <<b, i>> \in held
      PROVE  /\ f[<<b, i>>] = <<b, IF b = a THEN i - 1 ELSE i>>
             /\ f[<<b, i>>] \in held2 /\ (b = a => i # 0)
  <2>1. b = a => i # 0
    BY <1>5, <1>8
  <2>2. f[<<b, i>>] = <<b, IF b = a THEN i - 1 ELSE i>>
    BY <1>8
  <2>3. CASE b # a
    BY <1>4, <1>8, <2>2, <2>3
  <2>4. CASE b = a
    <3>1. i - 1 \in Nat /\ (i - 1) + 1 = i
      BY <2>1, <2>4
    <3>2. <<b, i - 1>> \in held2
      BY <1>4, <1>8, <2>4, <3>1
    <3> QED BY <2>1, <2>2, <2>4, <3>2
  <2> QED BY <2>1, <2>3, <2>4, <2>2
<1>9. ASSUME NEW h \in held PROVE f[h] \in held2
  <2>1. PICK b \in Actors, i \in Nat : h = <<b, i>>
    BY <1>7
  <2> HIDE DEF f
  <2> QED BY <1>8, <2>1
<1>10. ASSUME NEW h \in held, NEW k \in held, f[h] = f[k] PROVE h = k
  <2>1. PICK b \in Actors, i \in Nat : h = <<b, i>>
    BY <1>7
  <2>2. PICK c \in Actors, j \in Nat : k = <<c, j>>
    BY <1>7
  <2>3. f[h] = <<b, IF b = a THEN i - 1 ELSE i>> /\ f[k] = <<c, IF c = a THEN j - 1 ELSE j>>
    BY <1>8, <2>1, <2>2
  <2>4. b = c
    BY <1>10, <2>3
  <2>5. (IF b = a THEN i - 1 ELSE i) = (IF b = a THEN j - 1 ELSE j)
    BY <1>10, <2>3, <2>4
  <2>6. i = j
    BY <2>5
  <2> QED BY <2>1, <2>2, <2>4, <2>6
<1>11. ASSUME NEW k \in held2 PROVE \E h \in held : f[h] = k
  <2>1. PICK b \in Actors, i \in Nat : k = <<b, i>>
    BY <1>6
  <2> DEFINE j == IF b = a THEN i + 1 ELSE i
  <2>2. j \in Nat /\ <<b, j>> \in held
    BY <1>4, <2>1
  <2>3. f[<<b, j>>] = <<b, IF b = a THEN j - 1 ELSE j>>
    BY <1>8, <2>2
  <2>4. (IF b = a THEN j - 1 ELSE j) = i
    OBVIOUS
  <2> QED BY <2>1, <2>2, <2>3, <2>4
<1>12. f \in Bijection(held, held2)
  <2>1. f \in [held -> held2]
    BY <1>9
  <2> HIDE DEF f
  <2>2. f \in Injection(held, held2)
    BY <1>10, <2>1 DEF Injection, IsInjective
  <2>3. f \in Surjection(held, held2)
    BY <1>11, <2>1 DEF Surjection
  <2> QED BY <2>2, <2>3 DEF Bijection
<1> QED BY <1>12 DEF ExistsBijection, held, held2

-----------------------------------------------------------------------------
(* The reference counts.                                                   *)

\* Who holds d now; with the store, as many as its count should say.
Held(d) == HeldBy(handles, releasing, d)
HandleCount(d) == Cardinality(Held(d)) + (IF d \in stored THEN 1 ELSE 0)

\* Who is about to unlock data may delete it, if what it loaded is low.
Dooms(a, d) == unlocking[a] = d /\ loaded[a] <= 1

\* A session's count is never below the number of its handles, nor is what a
\* thread that is lowering it has loaded; it is allocated while it has any, and
\* has none once a thread may delete it, and one thread at most may.
Counted(d) ==
    /\ IsFiniteSet(Held(d))
    /\ refCount[d] >= HandleCount(d)
    /\ \A a \in Actors : releasing[a] = d => loaded[a] >= HandleCount(d)
    /\ d \in stored \/ Held(d) # {} => d \in live
    /\ \A a \in Actors : Dooms(a, d) =>
        /\ d \in live /\ d \notin stored /\ Held(d) = {}
        /\ \A b \in Actors : Dooms(b, d) => b = a

\* The handles now and after a step, for the lemmas above.
LEMMA HeldNow ==
    ASSUME NEW d
    PROVE  /\ Held(d) = HeldBy(handles, releasing, d)
           /\ Held(d)' = HeldBy(handles', releasing', d)
BY DEF Held, HeldBy

\* Where a thread can be in the sessions' part, and the types of its state.
SessionPlaces ==
    {"idle", "lookup", "touch", "using", "assign", "assigned", "parting", "removing", "erasing",
     "leaving", "scanning", "checking", "dropping"}

SessionsType ==
    /\ at \in [Actors -> SessionPlaces]
    /\ stored \subseteq Data /\ scan \subseteq Data
    /\ refCount \in [Data -> Int] /\ loaded \in [Actors -> Int]
    /\ handles \in Scopes /\ releasing \in Leavings /\ unlocking \in Leavings

\* The timer event keeps the mutex, and so what it scans in the store; a step
\* that needs a handle finds one.
PlacesOK ==
    /\ \A t \in Threads :
        /\ at[t] \in {"touch", "using", "assign", "assigned", "removing"} => handles[t] # <<>>
        /\ at[t] = "erasing" => storeMutex = t
        /\ at[t] \notin {"scanning", "checking", "dropping"}
    /\ at[Main] \in {"idle", "scanning", "checking", "dropping"}
    /\ at[Main] # "idle" => storeMutex = Main /\ scan \subseteq stored
    /\ at[Main] = "checking" =>
        /\ handles[Main] # <<>>
        /\ Last(handles[Main]) \in stored /\ Last(handles[Main]) \notin scan

SessionsOK ==
    /\ SessionsType /\ PlacesOK
    /\ \A d \in Data : Counted(d)

\* The handles counted are those SessionsAlive is about.
LEMMA CountedAreAlive == SessionsOK => SessionsAlive
<1> SUFFICES ASSUME SessionsOK PROVE SessionsAlive
  OBVIOUS
<1>1. SessionsType /\ \A d \in Data : Counted(d)
  BY DEF SessionsOK
<1>2. ASSUME NEW d \in stored PROVE d \in live
  BY <1>1 DEF SessionsType, Counted
<1>3. ASSUME NEW a \in Actors, NEW i \in 1 .. Len(handles[a])
      PROVE  handles[a][i] \in live
  <2>1. handles[a] \in Seq(Data)
    BY <1>1 DEF SessionsType, Scopes
  <2>2. i \in Nat /\ i # 0 /\ i <= Len(handles[a]) /\ handles[a][i] \in Data
    BY <2>1
  <2>3. <<a, i>> \in Held(handles[a][i])
    BY <2>2, HeldIs DEF Held
  <2> QED BY <1>1, <2>2, <2>3 DEF Counted
<1>4. ASSUME NEW a \in Actors, releasing[a] # NoSession
      PROVE  releasing[a] \in live
  <2>1. releasing[a] \in Data
    BY <1>1, <1>4 DEF SessionsType, Leavings
  <2>2. <<a, 0>> \in Held(releasing[a])
    BY HeldIs DEF Held
  <2> QED BY <1>1, <2>1, <2>2 DEF Counted
<1> QED BY <1>2, <1>3, <1>4 DEF SessionsAlive

\* What a step does to a session it does not deal with: it may drop handles.
LEMMA Bystander ==
    ASSUME NEW d \in Data, Counted(d), Held(d)' \subseteq Held(d),
           (d \in stored)' => d \in stored, (d \in live)' <=> d \in live,
           refCount'[d] = refCount[d],
           refCount[d] \in Int,
           \A a \in Actors : releasing'[a] = d => releasing[a] = d /\ loaded'[a] = loaded[a]
                                                  /\ loaded[a] \in Int,
           \A a \in Actors : unlocking'[a] = d => unlocking[a] = d /\ loaded'[a] = loaded[a]
    PROVE  Counted(d)'
<1>1. IsFiniteSet(Held(d)) /\ Held(d)' \in SUBSET Held(d)
  BY DEF Counted
<1>2. IsFiniteSet(Held(d))'
  BY <1>1, FS_Subset
<1>3. Cardinality(Held(d)') <= Cardinality(Held(d))
  BY <1>1, FS_Subset
<1>4. Cardinality(Held(d)) \in Nat /\ Cardinality(Held(d)') \in Nat
  BY <1>1, <1>2, FS_CardinalityType
<1>5. HandleCount(d)' <= HandleCount(d) /\ HandleCount(d) \in Int /\ HandleCount(d)' \in Int
  BY <1>3, <1>4 DEF HandleCount
<1>6. (d \in stored \/ Held(d) # {} => d \in live)'
  BY <1>1 DEF Counted
<1>7. refCount'[d] >= HandleCount(d)'
  BY <1>5 DEF Counted
<1>8. \A a \in Actors : releasing'[a] = d => loaded'[a] >= HandleCount(d)'
  BY <1>5 DEF Counted
<1>9. ASSUME NEW a \in Actors, Dooms(a, d)'
      PROVE  /\ d \in live' /\ d \notin stored' /\ Held(d)' = {}
             /\ \A b \in Actors : Dooms(b, d)' => b = a
  <2>1. \A b \in Actors : Dooms(b, d)' => Dooms(b, d)
    BY DEF Dooms
  <2>2. /\ d \in live /\ d \notin stored /\ Held(d) = {}
        /\ \A b \in Actors : Dooms(b, d) => b = a
    BY <1>9, <2>1 DEF Counted
  <2> QED BY <2>1, <2>2
<1> QED BY <1>2, <1>6, <1>7, <1>8, <1>9 DEF Counted

\* Before a step, every session is counted.
AllCounted == SessionsType /\ \A d \in Data : Counted(d)

\* A copy of a handle that is held, or in the store.
LEMMA CopyCounts ==
    ASSUME AllCounted, NEW a \in Actors, NEW e \in Data, e \in live, Copy(a, e),
           UNCHANGED <<stored, live, releasing, loaded, unlocking>>
    PROVE  \A d \in Data : Counted(d)'
<1>1. /\ Unread(e) /\ refCount' = [refCount EXCEPT ![e] = @ + 1]
      /\ handles' = [handles EXCEPT ![a] = Append(@, e)]
  BY DEF Copy
<1>2. /\ SessionsType /\ handles \in Scopes /\ releasing \in Leavings
      /\ refCount \in [Data -> Int] /\ loaded \in [Actors -> Int]
      /\ \A d \in Data : Counted(d)
  BY DEF AllCounted, SessionsType
<1>3. Copied(handles', handles, a, e) /\ releasing' = releasing
  BY <1>1, <1>2 DEF Scopes, Copied
<1>4. ASSUME NEW d \in Data, d # e PROVE Counted(d)'
  <2>1. Held(d)' = Held(d)
    <3>1. HeldBy(handles', releasing, d) = HeldBy(handles, releasing, d)
      BY <1>2, <1>3, <1>4, HeldWithCopy
    <3> QED BY <1>3, <3>1, HeldNow
  <2>2. refCount'[d] = refCount[d] /\ refCount[d] \in Int
    BY <1>1, <1>2, <1>4
  <2> QED BY <1>2, <2>1, <2>2, Bystander
<1>5. Counted(e)'
  <2> DEFINE new == Top(handles', a)
  <2>1. Held(e)' = Held(e) \cup {new} /\ new \notin Held(e)
    <3>1. /\ HeldBy(handles', releasing, e) = HeldBy(handles, releasing, e) \cup {new}
          /\ new \notin HeldBy(handles, releasing, e)
      BY <1>2, <1>3, HeldWithCopy
    <3> HIDE DEF new
    <3> QED BY <1>3, <3>1, HeldNow
  <2>2. IsFiniteSet(Held(e)) /\ Cardinality(Held(e)) \in Nat
    BY <1>2, FS_CardinalityType DEF Counted
  <2> HIDE DEF new
  <2>3. IsFiniteSet(Held(e))' /\ Cardinality(Held(e)') = Cardinality(Held(e)) + 1
    BY <2>1, <2>2, FS_AddElement
  <2>4. refCount'[e] = refCount[e] + 1 /\ refCount[e] \in Int
    BY <1>1, <1>2
  <2>5. refCount'[e] >= HandleCount(e)'
    BY <1>2, <2>2, <2>3, <2>4 DEF Counted, HandleCount
  <2>6. \A b \in Actors : releasing'[b] # e /\ ~Dooms(b, e)'
    BY <1>1 DEF Unread, Dooms
  <2> QED BY <2>3, <2>5, <2>6 DEF Counted
<1> QED BY <1>4, <1>5

\* The store's handle becomes one of a scope.
LEMMA TakeOutCounts ==
    ASSUME AllCounted, NEW a \in Actors, NEW e \in Data, e \in stored,
           stored' = stored \ {e}, handles' = [handles EXCEPT ![a] = Append(@, e)],
           UNCHANGED <<live, refCount, releasing, loaded, unlocking>>
    PROVE  \A d \in Data : Counted(d)'
<1>1. /\ SessionsType /\ handles \in Scopes /\ releasing \in Leavings
      /\ refCount \in [Data -> Int] /\ loaded \in [Actors -> Int]
      /\ \A d \in Data : Counted(d)
  BY DEF AllCounted, SessionsType
<1>2. Copied(handles', handles, a, e) /\ releasing' = releasing
  BY <1>1 DEF Scopes, Copied
<1>3. ASSUME NEW d \in Data, d # e PROVE Counted(d)'
  <2>1. Held(d)' = Held(d)
    <3>1. HeldBy(handles', releasing, d) = HeldBy(handles, releasing, d)
      BY <1>1, <1>2, <1>3, HeldWithCopy
    <3> QED BY <1>2, <3>1, HeldNow
  <2>2. refCount'[d] = refCount[d] /\ refCount[d] \in Int
    BY <1>1, <1>3
  <2> QED BY <1>1, <2>1, <2>2, Bystander
<1>4. Counted(e)'
  <2> DEFINE new == Top(handles', a)
  <2>1. Held(e)' = Held(e) \cup {new} /\ new \notin Held(e)
    <3>1. /\ HeldBy(handles', releasing, e) = HeldBy(handles, releasing, e) \cup {new}
          /\ new \notin HeldBy(handles, releasing, e)
      BY <1>1, <1>2, HeldWithCopy
    <3> HIDE DEF new
    <3> QED BY <1>2, <3>1, HeldNow
  <2>2. IsFiniteSet(Held(e)) /\ Cardinality(Held(e)) \in Nat
    BY <1>1, FS_CardinalityType DEF Counted
  <2> HIDE DEF new
  <2>3. IsFiniteSet(Held(e))' /\ Cardinality(Held(e)') = Cardinality(Held(e)) + 1
    BY <2>1, <2>2, FS_AddElement
  <2>4. HandleCount(e)' = HandleCount(e)
    BY <2>2, <2>3 DEF HandleCount
  <2>5. \A b \in Actors : ~Dooms(b, e)'
    BY <1>1 DEF Counted, Dooms
  <2> QED BY <1>1, <2>3, <2>4, <2>5 DEF Counted
<1> QED BY <1>3, <1>4

\* A handle that is released counts until it is.
LEMMA BeginCounts ==
    ASSUME AllCounted, NEW a \in Actors, NEW e \in Data, BeginRelease(a, e),
           UNCHANGED <<stored, live, refCount>>,
           \A d \in Data : /\ IsFiniteSet(Held(d)')
                           /\ Cardinality(Held(d)') = Cardinality(Held(d))
                           /\ Held(d)' # {} => Held(d) # {}
    PROVE  \A d \in Data : Counted(d)'
<1>1. TAKE d \in Data
<1> USE SessionsAssumption
<1>2. /\ releasing[a] = NoSession /\ releasing' = [releasing EXCEPT ![a] = e]
      /\ loaded' = [loaded EXCEPT ![a] = refCount[e]]
      /\ unlocking[a] = NoSession /\ unlocking' = unlocking
  BY DEF BeginRelease
<1>3. Counted(d) /\ releasing \in Leavings /\ loaded \in [Actors -> Int]
  BY DEF AllCounted, SessionsType
<1>4. HandleCount(d)' = HandleCount(d)
  BY DEF HandleCount
<1>5. ASSUME NEW b \in Actors, releasing'[b] = d
      PROVE  loaded'[b] >= HandleCount(d)
  <2>1. CASE b = a
    <3>1. d = e /\ loaded'[b] = refCount[d]
      BY <1>2, <1>3, <1>5, <2>1 DEF Leavings
    <3> QED BY <1>3, <3>1 DEF Counted
  <2>2. CASE b # a
    BY <1>2, <1>3, <1>5, <2>2 DEF Leavings, Counted
  <2> QED BY <2>1, <2>2
<1>6. ASSUME NEW b \in Actors, Dooms(b, d)'
      PROVE  /\ d \in live' /\ d \notin stored' /\ Held(d)' = {}
             /\ \A c \in Actors : Dooms(c, d)' => c = b
  <2>1. \A c \in Actors : Dooms(c, d)' => Dooms(c, d)
    BY <1>2, <1>3 DEF Dooms
  <2>2. /\ d \in live /\ d \notin stored /\ Held(d) = {}
        /\ \A c \in Actors : Dooms(c, d) => c = b
    BY <1>3, <1>6, <2>1 DEF Counted
  <2> QED BY <2>1, <2>2
<1> QED BY <1>3, <1>4, <1>5, <1>6 DEF Counted

LEMMA DestructorCounts ==
    ASSUME AllCounted, NEW a \in Actors, handles[a] # <<>>, BeginRelease(a, Last(handles[a])),
           handles' = [handles EXCEPT ![a] = Front(@)], UNCHANGED <<stored, live, refCount>>
    PROVE  \A d \in Data : Counted(d)'
<1> DEFINE e == Last(handles[a])
           last == Top(handles, a)
           freed == Released(a)
<1>1. /\ releasing[a] = NoSession /\ releasing' = [releasing EXCEPT ![a] = e]
  BY DEF BeginRelease
<1>2. handles \in Scopes /\ releasing \in Leavings /\ \A d \in Data : Counted(d)
  BY DEF AllCounted, SessionsType
<1>3. e \in Data
  <2>1. handles[a] \in Seq(Data) /\ Len(handles[a]) \in 1 .. Len(handles[a])
    BY <1>2 DEF Scopes
  <2> QED BY <2>1, ElementOfSeq DEF Last
<1>4. ASSUME NEW d \in Data
      PROVE  /\ IsFiniteSet(Held(d)') /\ Cardinality(Held(d)') = Cardinality(Held(d))
             /\ Held(d)' # {} => Held(d) # {}
  <2>1. IsFiniteSet(Held(d)) /\ Cardinality(Held(d)) \in Nat
    BY <1>2, FS_CardinalityType DEF Counted
  <2>2. /\ freed \notin Held(d)
        /\ \/ last \in Held(d) /\ Held(d)' = (Held(d) \ {last}) \cup {freed}
           \/ Held(d)' = Held(d)
    <3>1. Destroyed(handles', releasing', handles, releasing, a)
      BY <1>1, <1>2 DEF Scopes, Leavings, Destroyed
    <3>2. /\ freed \notin HeldBy(handles, releasing, d)
          /\ \/ /\ last \in HeldBy(handles, releasing, d)
                /\ HeldBy(handles', releasing', d)
                        = (HeldBy(handles, releasing, d) \ {last}) \cup {freed}
             \/ HeldBy(handles', releasing', d) = HeldBy(handles, releasing, d)
      BY <1>2, <3>1, HeldAtDestructor
    <3> HIDE DEF last, freed
    <3> QED BY <3>2, HeldNow
  <2>3. CASE Held(d)' = Held(d)
    BY <2>1, <2>3
  <2>4. CASE last \in Held(d) /\ Held(d)' = (Held(d) \ {last}) \cup {freed}
    <3> HIDE DEF last, freed
    <3>1. IsFiniteSet(Held(d) \ {last}) /\ Cardinality(Held(d) \ {last}) = Cardinality(Held(d)) - 1
      BY <2>1, <2>2, <2>4, FS_RemoveElement
    <3>2. freed \notin Held(d) \ {last}
      BY <2>2
    <3>3. /\ IsFiniteSet((Held(d) \ {last}) \cup {freed})
          /\ Cardinality((Held(d) \ {last}) \cup {freed}) = Cardinality(Held(d) \ {last}) + 1
      BY <3>1, <3>2, FS_AddElement
    <3> QED BY <2>1, <2>4, <3>1, <3>3
  <2> QED BY <2>2, <2>3, <2>4
<1> QED BY <1>3, <1>4, BeginCounts

LEMMA AssignmentCounts ==
    ASSUME AllCounted, NEW a \in Actors, handles[a] # <<>>, BeginRelease(a, Head(handles[a])),
           handles' = [handles EXCEPT ![a] = Tail(@)], UNCHANGED <<stored, live, refCount>>
    PROVE  \A d \in Data : Counted(d)'
<1>1. /\ releasing[a] = NoSession /\ releasing' = [releasing EXCEPT ![a] = Head(handles[a])]
  BY DEF BeginRelease
<1>2. handles \in Scopes /\ releasing \in Leavings /\ \A d \in Data : Counted(d)
  BY DEF AllCounted, SessionsType
<1>3. Head(handles[a]) \in Data
  <2>1. handles[a] \in Seq(Data)
    BY <1>2 DEF Scopes
  <2> QED BY <2>1, HeadTailProperties
<1>4. ASSUME NEW d \in Data
      PROVE  /\ IsFiniteSet(Held(d)') /\ Cardinality(Held(d)') = Cardinality(Held(d))
             /\ Held(d)' # {} => Held(d) # {}
  <2>1. IsFiniteSet(Held(d))
    BY <1>2 DEF Counted
  <2>2. ExistsBijection(Held(d), Held(d)')
    <3>1. Assigned(handles', releasing', handles, releasing, a)
      BY <1>1, <1>2 DEF Scopes, Leavings, Assigned
    <3>2. ExistsBijection(HeldBy(handles, releasing, d), HeldBy(handles', releasing', d))
      BY <1>2, <3>1, HeldAtAssignment
    <3> QED BY <3>2, HeldNow
  <2>3. IsFiniteSet(Held(d)') /\ Cardinality(Held(d)') = Cardinality(Held(d))
    BY <2>1, <2>2, FS_Bijection
  <2> QED BY <2>1, <2>3, FS_EmptySet
<1> QED BY <1>3, <1>4, BeginCounts

\* Two threads may load the same count, and one decrement be lost: the count is
\* then too high, and the session is deleted by nobody.
LEMMA StoreCounts ==
    ASSUME AllCounted, NEW a \in Actors, StoreCount(a)
    PROVE  \A d \in Data : Counted(d)'
<1> USE SessionsAssumption
<1> DEFINE freed == Released(a)
<1>1. PICK e \in Data : e = releasing[a]
  BY DEF AllCounted, SessionsType, StoreCount, Leavings
<1>2. /\ refCount' = [refCount EXCEPT ![e] = loaded[a] - 1]
      /\ releasing' = [releasing EXCEPT ![a] = NoSession]
      /\ unlocking' = [unlocking EXCEPT ![a] = e]
      /\ UNCHANGED <<stored, live, handles, loaded>>
  BY <1>1 DEF StoreCount
<1>3. /\ handles \in Scopes /\ releasing \in Leavings /\ unlocking \in Leavings
      /\ refCount \in [Data -> Int] /\ loaded \in [Actors -> Int]
      /\ \A d \in Data : Counted(d)
  BY DEF AllCounted, SessionsType
<1>4. \A b \in Actors : releasing'[b] # NoSession => b # a /\ releasing'[b] = releasing[b]
  BY <1>2, <1>3 DEF Leavings
<1>5. \A d \in Data : Held(d)' = Held(d) \ {freed} /\ (freed \in Held(d) <=> d = e)
  <2>1. Finished(releasing', releasing, a) /\ handles' = handles
    BY <1>2, <1>3 DEF Leavings, Finished
  <2> TAKE d \in Data
  <2>2. /\ freed \in HeldBy(handles, releasing, d) <=> releasing[a] = d
        /\ HeldBy(handles, releasing', d) = HeldBy(handles, releasing, d) \ {freed}
    BY <1>3, <2>1, HeldAfterRelease
  <2>3. Held(d) = HeldBy(handles, releasing, d) /\ Held(d)' = HeldBy(handles, releasing', d)
    BY <2>1, HeldNow
  <2> HIDE DEF freed
  <2> QED BY <1>1, <2>2, <2>3
<1>6. ASSUME NEW d \in Data, d # e PROVE Counted(d)'
  <2>1. refCount'[d] = refCount[d] /\ refCount[d] \in Int /\ (d \in live' <=> d \in live)
    BY <1>2, <1>3, <1>6
  <2>2. Held(d)' \subseteq Held(d)
    BY <1>5
  <2>3. \A b \in Actors : releasing'[b] = d => releasing[b] = d /\ loaded'[b] = loaded[b]
                                               /\ loaded[b] \in Int
    BY <1>2, <1>3, <1>4
  <2>4. \A b \in Actors : unlocking'[b] = d => unlocking[b] = d /\ loaded'[b] = loaded[b]
    BY <1>2, <1>3, <1>6 DEF Leavings
  <2> QED BY <1>2, <1>3, <2>1, <2>2, <2>3, <2>4, Bystander
<1>7. Counted(e)'
  <2>1. /\ IsFiniteSet(Held(e)) /\ Cardinality(Held(e)) \in Nat
        /\ loaded[a] >= HandleCount(e) /\ loaded[a] \in Int
    BY <1>1, <1>3, FS_CardinalityType DEF Counted
  <2>2. freed \in Held(e) /\ Held(e)' = Held(e) \ {freed}
    BY <1>5
  <2> HIDE DEF freed
  <2>3. IsFiniteSet(Held(e) \ {freed}) /\ Cardinality(Held(e) \ {freed}) = Cardinality(Held(e)) - 1
    BY <2>1, <2>2, FS_RemoveElement
  <2> DEFINE left == Cardinality(Held(e) \ {freed}) + (IF e \in stored THEN 1 ELSE 0)
  <2>4. /\ left = HandleCount(e) - 1 /\ HandleCount(e) \in Int
        /\ Cardinality(Held(e) \ {freed}) \in Nat
    BY <2>1, <2>3, FS_CardinalityType DEF HandleCount
  <2>5. loaded[a] <= 1 => e \notin stored /\ Held(e) \ {freed} = {}
    <3>1. loaded[a] <= 1 => e \notin stored /\ Cardinality(Held(e) \ {freed}) = 0
      BY <2>1, <2>4
    <3> QED BY <2>3, <3>1, FS_EmptySet
  <2> HIDE DEF left
  <2>6. ASSUME NEW d \in Data, d = e PROVE Counted(d)'
    <3>1. Held(d)' = Held(e) \ {freed}
      BY <2>2, <2>6
    <3>2. HandleCount(d)' = left
      BY <1>2, <2>6, <3>1 DEF HandleCount, left
    <3>3. refCount'[d] = loaded[a] - 1
      BY <1>2, <1>3, <2>6
    <3>4. refCount'[d] >= HandleCount(d)'
      BY <2>1, <2>4, <3>2, <3>3
    <3>5. ASSUME NEW b \in Actors, releasing'[b] = d
          PROVE  loaded'[b] >= HandleCount(d)'
      <4>1. releasing[b] = d /\ loaded'[b] = loaded[b] /\ loaded[b] \in Int
        BY <1>2, <1>3, <1>4, <3>5
      <4>2. loaded[b] >= HandleCount(e)
        BY <1>3, <2>6, <4>1 DEF Counted
      <4> QED BY <2>4, <3>2, <4>1, <4>2
    <3>6. (d \in stored \/ Held(d) # {} => d \in live)'
      <4>1. d \in live
        BY <1>3, <2>2, <2>6 DEF Counted
      <4> QED BY <1>2, <4>1
    <3>7. ASSUME NEW b \in Actors, Dooms(b, d)'
          PROVE  /\ d \in live' /\ d \notin stored' /\ Held(d)' = {}
                 /\ \A c \in Actors : Dooms(c, d)' => c = b
      <4>1. \A c \in Actors : ~Dooms(c, d)
        BY <1>3, <2>2, <2>6 DEF Counted
      <4>2. \A c \in Actors : Dooms(c, d)' => c = a /\ loaded[a] <= 1
        BY <1>2, <1>3, <4>1 DEF Dooms, Leavings
      <4>3. d \in live
        BY <1>3, <2>2, <2>6 DEF Counted
      <4> QED BY <1>2, <2>5, <2>6, <3>1, <3>7, <4>2, <4>3
    <3> QED BY <2>3, <3>1, <3>4, <3>5, <3>6, <3>7 DEF Counted
  <2> QED BY <2>6
<1> QED BY <1>6, <1>7

\* Who deletes is the one that may, and nobody has a handle any more.
LEMMA UnlockCounts ==
    ASSUME AllCounted, NEW a \in Actors, EndRelease(a), UNCHANGED <<stored, handles>>
    PROVE  \A d \in Data : Counted(d)'
<1> USE SessionsAssumption
<1>1. PICK e \in Data : e = unlocking[a]
  BY DEF AllCounted, SessionsType, EndRelease, Leavings
<1>2. /\ unlocking' = [unlocking EXCEPT ![a] = NoSession]
      /\ live' = live \/ (live' = live \ {e} /\ loaded[a] <= 1)
      /\ UNCHANGED <<stored, handles, refCount, releasing, loaded>>
  BY <1>1 DEF EndRelease, Deletes
<1>3. /\ unlocking \in Leavings /\ refCount \in [Data -> Int] /\ loaded \in [Actors -> Int]
      /\ \A d \in Data : Counted(d)
  BY DEF AllCounted, SessionsType
<1>4. ASSUME NEW d \in Data
      PROVE  /\ Held(d)' = Held(d) /\ refCount'[d] = refCount[d] /\ refCount[d] \in Int
             /\ \A b \in Actors : releasing'[b] = d => releasing[b] = d /\ loaded'[b] = loaded[b]
                                                     /\ loaded[b] \in Int
             /\ \A b \in Actors : unlocking'[b] = d => /\ b # a /\ unlocking[b] = d
                                                       /\ loaded'[b] = loaded[b]
  <2>1. Held(d)' = Held(d)
    BY <1>2 DEF Held, HeldBy
  <2>2. \A b \in Actors : unlocking'[b] = d => b # a /\ unlocking[b] = d
    BY <1>2, <1>3 DEF Leavings
  <2> QED BY <1>2, <1>3, <2>1, <2>2
<1>5. ASSUME NEW d \in Data, d # e \/ live' = live PROVE Counted(d)'
  <2>1. d \in live' <=> d \in live
    BY <1>2, <1>5
  <2> QED BY <1>2, <1>3, <1>4, <2>1, Bystander
<1>6. ASSUME loaded[a] <= 1 PROVE Counted(e)'
  <2>1. /\ e \notin stored /\ Held(e) = {}
        /\ \A b \in Actors : Dooms(b, e) => b = a
    BY <1>1, <1>3, <1>6 DEF Counted, Dooms
  <2>2. \A b \in Actors : ~Dooms(b, e)'
    BY <1>4, <2>1 DEF Dooms
  <2>3. HandleCount(e)' = HandleCount(e)
    BY <1>2, <1>4 DEF HandleCount
  <2>4. \A b \in Actors : releasing'[b] = e => loaded'[b] >= HandleCount(e)'
    BY <1>2, <1>3, <2>3 DEF Counted
  <2> QED BY <1>2, <1>3, <1>4, <2>1, <2>2, <2>3, <2>4 DEF Counted
<1> QED BY <1>2, <1>5, <1>6

\* The session of a handle is allocated.
LEMMA LastIsLive ==
    ASSUME SessionsOK, NEW a \in Actors, handles[a] # <<>>
    PROVE  Last(handles[a]) \in Data /\ Last(handles[a]) \in live
<1>1. handles[a] \in Seq(Data)
  BY DEF SessionsOK, SessionsType, Scopes
<1>2. Len(handles[a]) \in 1 .. Len(handles[a])
  BY <1>1
<1>3. SessionsAlive
  BY CountedAreAlive
<1> QED BY <1>1, <1>2, <1>3, ElementOfSeq DEF SessionsAlive, Last

\* A step that leaves the counts and the handles alone.
LEMMA NothingCounted ==
    ASSUME AllCounted,
           UNCHANGED <<stored, live, refCount, handles, releasing, loaded, unlocking>>
    PROVE  \A d \in Data : Counted(d)'
<1>1. TAKE d \in Data
<1>2. Held(d)' = Held(d)
  BY DEF Held, HeldBy
<1> QED BY <1>2, Bystander DEF AllCounted, SessionsType

\* A new session has a handle of the store and one of the caller.
LEMMA CreationCounts ==
    ASSUME AllCounted, NEW t \in Threads, NEW e \in Data, CreateSession(t, e)
    PROVE  \A d \in Data : Counted(d)'
<1>1. /\ t \in Actors /\ e \notin live /\ refCount' = [refCount EXCEPT ![e] = 2]
      /\ live' = live \cup {e} /\ stored' = stored \cup {e}
      /\ handles' = [handles EXCEPT ![t] = <<e>>] /\ UNCHANGED <<releasing, loaded, unlocking>>
  BY DEF CreateSession, Goes, Actors
<1>2. /\ SessionsType /\ handles \in Scopes /\ refCount \in [Data -> Int]
      /\ loaded \in [Actors -> Int] /\ \A d \in Data : Counted(d)
  BY DEF AllCounted, SessionsType
<1>3. Created(handles', handles, t, e) /\ releasing \in Leavings
  BY <1>1, <1>2 DEF Scopes, Created, SessionsType
<1>4. ASSUME NEW d \in Data, d # e PROVE Counted(d)'
  <2>1. HeldBy(handles', releasing, d) \subseteq HeldBy(handles, releasing, d)
    BY <1>1, <1>2, <1>3, <1>4, HeldAtCreation
  <2>2. Held(d)' \subseteq Held(d)
    BY <1>1, <2>1, HeldNow
  <2>3. refCount'[d] = refCount[d] /\ refCount[d] \in Int
    BY <1>1, <1>2, <1>4
  <2> QED BY <1>1, <1>2, <1>4, <2>2, <2>3, Bystander
<1>5. Counted(e)'
  <2>1. Held(e) = {}
    BY <1>1, <1>2 DEF Counted
  <2>2. HeldBy(handles', releasing, e) = {Top(handles', t)}
    BY <1>1, <1>2, <1>3, <2>1, HeldAtCreation, HeldNow
  <2>3. Held(e)' = {Top(handles', t)}
    BY <1>1, <2>2, HeldNow
  <2>4. IsFiniteSet(Held(e)') /\ Cardinality(Held(e)') = 1
    BY <2>3, FS_Singleton
  <2>5. \A b \in Actors : releasing'[b] # e
    <3> SUFFICES ASSUME NEW b \in Actors, releasing[b] = e PROVE FALSE
      BY <1>1
    <3>1. <<b, 0>> \in HeldBy(handles, releasing, e)
      BY HeldIs
    <3> QED BY <2>1, <3>1, HeldNow
  <2>6. refCount'[e] = 2 /\ e \in live' /\ e \in stored'
    BY <1>1, <1>2
  <2>7. HandleCount(e)' = 2
    BY <2>4, <2>6 DEF HandleCount
  <2>8. \A b \in Actors : ~Dooms(b, e)'
    BY <1>1, <1>2 DEF Counted, Dooms
  <2> QED BY <2>4, <2>5, <2>6, <2>7, <2>8 DEF Counted
<1> QED BY <1>4, <1>5

\* The types after a step of an actor.
LEMMA SessionsTyped ==
    ASSUME SessionsType, NEW a \in Actors, NEW place \in SessionPlaces,
           NEW scope \in Seq(Data), NEW leaving \in Data \cup {NoSession},
           at' = [at EXCEPT ![a] = place], handles' = [handles EXCEPT ![a] = scope],
           releasing' = [releasing EXCEPT ![a] = leaving],
           stored' \subseteq Data, scan' \subseteq Data, unlocking' \in Leavings,
           refCount' \in [Data -> Int], loaded' \in [Actors -> Int]
    PROVE  SessionsType'
<1>1. at' \in [Actors -> SessionPlaces]
  BY DEF SessionsType
<1>2. handles' \in Scopes
  BY DEF SessionsType, Scopes
<1>3. releasing' \in Leavings
  BY DEF SessionsType, Leavings
<1> QED BY <1>1, <1>2, <1>3 DEF SessionsType

\* A thread's step leaves the timer event and the other threads' scopes.
LEMMA PlacesKept ==
    ASSUME SessionsType, PlacesOK, NEW t \in Threads, NEW place, NEW scope,
           at' = [at EXCEPT ![t] = place], handles' = [handles EXCEPT ![t] = scope],
           place \notin {"scanning", "checking", "dropping"},
           place \in {"touch", "using", "assign", "assigned", "removing"} => scope # <<>>,
           place = "erasing" => storeMutex' = t,
           \A a \in Actors \ {t} : storeMutex = a => storeMutex' = a,
           storeMutex = Main => stored \subseteq stored', scan' = scan
    PROVE  PlacesOK'
<1>1. Main \in Actors /\ Main # t /\ t \in Actors /\ \A u \in Threads : u \in Actors
  BY DEF Actors
<1>2. /\ at'[t] = place /\ handles'[t] = scope
      /\ \A a \in Actors : a # t => at'[a] = at[a] /\ handles'[a] = handles[a]
  BY <1>1 DEF SessionsType, Scopes
<1>3. ASSUME NEW u \in Threads
      PROVE  /\ at'[u] \in {"touch", "using", "assign", "assigned", "removing"} =>
                    handles'[u] # <<>>
             /\ at'[u] = "erasing" => storeMutex' = u
             /\ at'[u] \notin {"scanning", "checking", "dropping"}
  <2>1. CASE u = t
    BY <1>2, <2>1
  <2>2. CASE u # t
    BY <1>1, <1>2, <2>2 DEF PlacesOK
  <2> QED BY <2>1, <2>2
<1>4. /\ at'[Main] = at[Main] /\ handles'[Main] = handles[Main]
      /\ storeMutex = Main => storeMutex' = Main /\ stored \subseteq stored'
  BY <1>1, <1>2
<1>5. /\ at'[Main] \in {"idle", "scanning", "checking", "dropping"}
      /\ at'[Main] # "idle" => storeMutex' = Main /\ scan' \subseteq stored'
  BY <1>4 DEF PlacesOK
<1>6. at'[Main] = "checking" => /\ handles'[Main] # <<>>
                                /\ Last(handles'[Main]) \in stored'
                                /\ Last(handles'[Main]) \notin scan'
  BY <1>4 DEF PlacesOK
<1> QED BY <1>3, <1>5, <1>6 DEF PlacesOK

\* A thread's step keeps all of that.
LEMMA ThreadKeepsSessions ==
    ASSUME SessionsOK, NEW t \in Threads, NEW place \in SessionPlaces,
           NEW scope \in Seq(Data), NEW leaving \in Data \cup {NoSession},
           at' = [at EXCEPT ![t] = place], handles' = [handles EXCEPT ![t] = scope],
           releasing' = [releasing EXCEPT ![t] = leaving], unlocking' \in Leavings,
           refCount' \in [Data -> Int], loaded' \in [Actors -> Int],
           place \notin {"scanning", "checking", "dropping"},
           place \in {"touch", "using", "assign", "assigned", "removing"} => scope # <<>>,
           place = "erasing" => storeMutex' = t,
           \A a \in Actors \ {t} : storeMutex = a => storeMutex' = a,
           stored' \subseteq Data, storeMutex = Main => stored \subseteq stored', scan' = scan,
           \A d \in Data : Counted(d)'
    PROVE  SessionsOK'
<1>1. t \in Actors /\ SessionsType /\ PlacesOK
  BY DEF Actors, SessionsOK
<1>2. scan' \subseteq Data
  BY <1>1 DEF SessionsType
<1>3. SessionsType'
  BY <1>1, <1>2, SessionsTyped
<1>4. PlacesOK'
  BY <1>1, PlacesKept
<1> QED BY <1>3, <1>4 DEF SessionsOK

\* What is known of an actor before its step.
LEMMA ActorBefore ==
    ASSUME SessionsOK, NEW a \in Actors
    PROVE  /\ AllCounted /\ at[a] \in SessionPlaces
           /\ handles[a] \in Seq(Data) /\ releasing[a] \in Data \cup {NoSession}
           /\ stored \subseteq Data /\ scan \subseteq Data
           /\ refCount \in [Data -> Int] /\ loaded \in [Actors -> Int]
           /\ at = [at EXCEPT ![a] = at[a]] /\ handles = [handles EXCEPT ![a] = handles[a]]
           /\ releasing = [releasing EXCEPT ![a] = releasing[a]] /\ unlocking \in Leavings
BY DEF SessionsOK, AllCounted, SessionsType, Scopes, Leavings

\* What the steps of a handle do to the types.
LEMMA CopyTyped ==
    ASSUME SessionsOK, NEW a \in Actors, NEW e \in Data, Copy(a, e)
    PROVE  /\ Append(handles[a], e) \in Seq(Data) /\ Append(handles[a], e) # <<>>
           /\ Last(Append(handles[a], e)) = e
           /\ handles' = [handles EXCEPT ![a] = Append(handles[a], e)]
           /\ refCount' \in [Data -> Int]
<1>1. handles[a] \in Seq(Data) /\ refCount \in [Data -> Int] /\ handles \in Scopes
  BY ActorBefore DEF SessionsOK, SessionsType
<1>2. /\ Append(handles[a], e) \in Seq(Data) /\ Len(Append(handles[a], e)) = Len(handles[a]) + 1
      /\ Len(handles[a]) \in Nat /\ Append(handles[a], e)[Len(handles[a]) + 1] = e
  BY <1>1, AppendProperties
<1>3. Append(handles[a], e) # <<>> /\ Last(Append(handles[a], e)) = e
  BY <1>2 DEF Last
<1> QED BY <1>1, <1>2, <1>3 DEF Copy

LEMMA BeginTyped ==
    ASSUME SessionsOK, NEW a \in Actors, NEW e \in Data, BeginRelease(a, e), handles[a] # <<>>
    PROVE  /\ Front(handles[a]) \in Seq(Data) /\ Tail(handles[a]) \in Seq(Data)
           /\ Head(handles[a]) \in Data
           /\ loaded' \in [Actors -> Int] /\ releasing' = [releasing EXCEPT ![a] = e]
           /\ unlocking' \in Leavings
<1>1. handles[a] \in Seq(Data) /\ refCount \in [Data -> Int] /\ loaded \in [Actors -> Int]
      /\ unlocking \in Leavings
  BY ActorBefore
<1>2. Front(handles[a]) \in Seq(Data)
  <2>1. Len(handles[a]) \in Nat /\ Len(handles[a]) # 0
    BY <1>1
  <2>2. \A i \in 1 .. Len(handles[a]) - 1 : handles[a][i] \in Data
    BY <1>1, <2>1, ElementOfSeq
  <2> QED BY <2>1, <2>2, SubSeqProperties DEF Front
<1>3. Tail(handles[a]) \in Seq(Data) /\ Head(handles[a]) \in Data
  BY <1>1, HeadTailProperties
<1> QED BY <1>1, <1>2, <1>3 DEF BeginRelease

LEMMA EndTyped ==
    ASSUME SessionsOK, NEW a \in Actors, EndRelease(a)
    PROVE  /\ refCount' \in [Data -> Int] /\ loaded' \in [Actors -> Int]
           /\ releasing' = [releasing EXCEPT ![a] = releasing[a]] /\ unlocking' \in Leavings
BY ActorBefore DEF EndRelease, Leavings

\* The store of the lowered count, of a thread or of the timer event.
LEMMA StoreStep ==
    ASSUME SessionsOK, NEW a \in Actors, StoreCount(a)
    PROVE  SessionsOK'
<1> USE SessionsAssumption
<1>1. /\ SessionsType /\ PlacesOK /\ AllCounted /\ releasing \in Leavings /\ unlocking \in Leavings
      /\ releasing[a] \in Data
  BY DEF SessionsOK, AllCounted, SessionsType, StoreCount, Leavings
<1>2. \A d \in Data : Counted(d)'
  BY <1>1, StoreCounts
<1>3. UNCHANGED <<at, storeMutex, stored, handles, loaded, scan>>
  BY DEF StoreCount, threadVars
<1>4. SessionsType'
  <2>1. releasing' \in Leavings /\ unlocking' \in Leavings
    BY <1>1 DEF StoreCount, Leavings
  <2>2. refCount' \in [Data -> Int]
    <3>1. loaded[a] - 1 \in Int /\ refCount \in [Data -> Int]
      BY <1>1 DEF SessionsType
    <3> QED BY <3>1 DEF StoreCount
  <2> QED BY <1>1, <1>3, <2>1, <2>2 DEF SessionsType
<1>5. PlacesOK'
  BY <1>1, <1>3 DEF PlacesOK
<1> QED BY <1>2, <1>4, <1>5 DEF SessionsOK

LEMMA ThreadSessionStep ==
    ASSUME SessionsOK, NEW t \in Threads,
           \/ \E d \in Data : GetSessionId(t, d) \/ CreateSession(t, d) \/ GetSessionById(t, d)
           \/ FoundSession(t) \/ SetLastAccess(t) \/ NullSession(t) \/ EndOfScope(t)
           \/ AssignNew(t) \/ AssignOld(t) \/ EndAssign(t)
           \/ RemoveSession(t) \/ Erase(t) \/ EraseNothing(t)
           \/ BeginDestructor(t) \/ StoreCount(t) \/ EndDestructor(t)
    PROVE  SessionsOK'
<1> USE SessionsAssumption
<1>1. /\ t \in Actors /\ Main \in Actors /\ t # Main /\ PlacesOK /\ AllCounted
      /\ \A a \in Actors : a # Nobody
  BY DEF Actors, SessionsOK, AllCounted
<1>2. /\ at[t] \in SessionPlaces
      /\ handles[t] \in Seq(Data) /\ releasing[t] \in Data \cup {NoSession}
      /\ stored \subseteq Data /\ scan \subseteq Data
      /\ refCount \in [Data -> Int] /\ loaded \in [Actors -> Int]
      /\ at = [at EXCEPT ![t] = at[t]] /\ handles = [handles EXCEPT ![t] = handles[t]]
      /\ releasing = [releasing EXCEPT ![t] = releasing[t]] /\ unlocking \in Leavings
  BY <1>1, ActorBefore
<1>3. /\ at[t] \in {"touch", "using", "assign", "assigned", "removing"} => handles[t] # <<>>
      /\ at[t] = "erasing" => storeMutex = t
      /\ at[t] \notin {"scanning", "checking", "dropping"}
  BY <1>1 DEF PlacesOK
<1>4. handles[t] # <<>> => Last(handles[t]) \in Data /\ Last(handles[t]) \in live
  BY <1>1, LastIsLive
<1>5. \A d \in stored : d \in Data /\ d \in live
  BY <1>1, <1>2 DEF AllCounted, Counted
<1>6. ASSUME \/ \E d \in Data : GetSessionId(t, d)
             \/ SetLastAccess(t) \/ NullSession(t) \/ EndOfScope(t) \/ EraseNothing(t)
      PROVE  SessionsOK'
  <2>1. /\ UNCHANGED <<storeMutex, stored, live, refCount, handles, releasing, loaded, unlocking,
                       scan>>
        /\ \E place \in {"lookup", "using", "idle", "leaving"} :
                at' = [at EXCEPT ![t] = place] /\ (place = "using" => at[t] = "touch")
    BY <1>6 DEF GetSessionId, SetLastAccess, NullSession, EndOfScope, EraseNothing, Enters, Goes,
                sessionVars
  <2>2. PICK place \in {"lookup", "using", "idle", "leaving"} :
                at' = [at EXCEPT ![t] = place] /\ (place = "using" => at[t] = "touch")
    BY <2>1
  <2>3. place \in SessionPlaces
    BY DEF SessionPlaces
  <2>4. \A d \in Data : Counted(d)'
    BY <1>1, <2>1, NothingCounted
  <2>5. handles' = [handles EXCEPT ![t] = handles[t]]
        /\ releasing' = [releasing EXCEPT ![t] = releasing[t]]
    BY <1>2, <2>1
  <2>6. /\ place \in {"touch", "using", "assign", "assigned", "removing"} => handles[t] # <<>>
        /\ place \notin {"erasing", "scanning", "checking", "dropping"}
    BY <1>3, <2>2
  <2>7. /\ refCount' \in [Data -> Int] /\ loaded' \in [Actors -> Int] /\ stored' \subseteq Data
        /\ unlocking' \in Leavings
    BY <1>2, <2>1
  <2>8. storeMutex' = storeMutex /\ stored' = stored /\ scan' = scan
    BY <2>1
  <2> QED
    BY <1>2, <2>2, <2>3, <2>4, <2>5, <2>6, <2>7, <2>8, ThreadKeepsSessions
<1>7. ASSUME NEW d \in Data, CreateSession(t, d)
      PROVE  SessionsOK'
  <2>1. /\ at' = [at EXCEPT ![t] = "using"] /\ handles' = [handles EXCEPT ![t] = <<d>>]
        /\ stored' = stored \cup {d} /\ refCount' = [refCount EXCEPT ![d] = 2]
        /\ UNCHANGED <<storeMutex, releasing, loaded, unlocking, scan>>
    BY <1>7 DEF CreateSession, Goes
  <2>2. "using" \in SessionPlaces /\ <<d>> \in Seq(Data) /\ <<d>> # <<>>
    BY DEF SessionPlaces
  <2>3. \A c \in Data : Counted(c)'
    BY <1>1, <1>7, CreationCounts
  <2>4. refCount' \in [Data -> Int] /\ loaded' \in [Actors -> Int] /\ stored' \subseteq Data
        /\ stored \subseteq stored' /\ unlocking' \in Leavings
    BY <1>2, <2>1
  <2>5. releasing' = [releasing EXCEPT ![t] = releasing[t]]
    BY <1>2, <2>1
  <2> QED BY <1>2, <2>1, <2>2, <2>3, <2>4, <2>5, ThreadKeepsSessions
<1>8. ASSUME \/ \E d \in Data : GetSessionById(t, d)
             \/ FoundSession(t) \/ AssignNew(t) \/ RemoveSession(t)
      PROVE  SessionsOK'
  <2>1. /\ UNCHANGED <<storeMutex, stored, live, releasing, loaded, unlocking, scan>>
        /\ \E e \in Data, place \in {"touch", "assign", "assigned", "removing"} :
                e \in live /\ Copy(t, e) /\ at' = [at EXCEPT ![t] = place]
    <3>1. ASSUME NEW d \in Data, GetSessionById(t, d)
          PROVE  /\ UNCHANGED <<storeMutex, stored, live, releasing, loaded, unlocking, scan>>
                 /\ d \in live /\ Copy(t, d) /\ at' = [at EXCEPT ![t] = "assign"]
      BY <1>5, <3>1 DEF GetSessionById, Goes
    <3>2. ASSUME FoundSession(t)
          PROVE  /\ UNCHANGED <<storeMutex, stored, live, releasing, loaded, unlocking, scan>>
                 /\ wanted[t] \in Data /\ wanted[t] \in live /\ Copy(t, wanted[t])
                 /\ at' = [at EXCEPT ![t] = "touch"]
      BY <1>5, <3>2 DEF FoundSession, Goes
    <3>3. ASSUME AssignNew(t) \/ RemoveSession(t)
          PROVE  /\ UNCHANGED <<storeMutex, stored, live, releasing, loaded, unlocking, scan>>
                 /\ Last(handles[t]) \in Data /\ Last(handles[t]) \in live
                 /\ Copy(t, Last(handles[t]))
                 /\ at' = [at EXCEPT ![t] = "assigned"] \/ at' = [at EXCEPT ![t] = "removing"]
      BY <1>3, <1>4, <3>3 DEF AssignNew, RemoveSession, Goes
    <3> QED BY <1>8, <3>1, <3>2, <3>3
  <2>2. PICK e \in Data, place \in {"touch", "assign", "assigned", "removing"} :
                e \in live /\ Copy(t, e) /\ at' = [at EXCEPT ![t] = place]
    BY <2>1
  <2>3. place \in SessionPlaces /\ place # "erasing"
        /\ place \notin {"scanning", "checking", "dropping"}
    BY DEF SessionPlaces
  <2>4. \A d \in Data : Counted(d)'
    BY <1>1, <2>1, <2>2, CopyCounts
  <2>5. /\ Append(handles[t], e) \in Seq(Data) /\ Append(handles[t], e) # <<>>
        /\ handles' = [handles EXCEPT ![t] = Append(handles[t], e)]
        /\ refCount' \in [Data -> Int]
    BY <1>1, <2>2, CopyTyped
  <2>6. releasing' = [releasing EXCEPT ![t] = releasing[t]] /\ unlocking' \in Leavings
    BY <1>2, <2>1
  <2> QED BY <1>2, <2>1, <2>2, <2>3, <2>4, <2>5, <2>6, ThreadKeepsSessions
<1>9. ASSUME Erase(t)
      PROVE  SessionsOK'
  <2> DEFINE e == Last(handles[t])
  <2>1. /\ at[t] = "removing" /\ at' = [at EXCEPT ![t] = "erasing"]
        /\ e \in stored /\ storeMutex = Nobody /\ storeMutex' = t /\ stored' = stored \ {e}
        /\ handles' = [handles EXCEPT ![t] = Append(handles[t], e)]
        /\ UNCHANGED <<live, refCount, releasing, loaded, unlocking, scan>>
    BY <1>9 DEF Erase, Goes
  <2>2. PICK d \in Data : d = e
    BY <1>3, <1>4, <2>1
  <2> HIDE DEF e
  <2>3. \A c \in Data : Counted(c)'
    <3>1. d \in stored /\ stored' = stored \ {d} /\ handles' = [handles EXCEPT ![t] = Append(@, d)]
      BY <2>1, <2>2
    <3> QED BY <1>1, <2>1, <3>1, TakeOutCounts
  <2>4. Append(handles[t], e) \in Seq(Data) /\ "erasing" \in SessionPlaces
    BY <1>2, <2>2 DEF SessionPlaces
  <2>5. releasing' = [releasing EXCEPT ![t] = releasing[t]]
    BY <1>2, <2>1
  <2>6. /\ \A a \in Actors \ {t} : storeMutex = a => storeMutex' = a
        /\ storeMutex = Main => stored \subseteq stored'
    BY <1>1, <2>1
  <2>7. /\ stored' \subseteq Data /\ refCount' \in [Data -> Int] /\ loaded' \in [Actors -> Int]
        /\ unlocking' \in Leavings
    BY <1>2, <2>1
  <2>8. storeMutex' = t /\ scan' = scan
    BY <2>1
  <2> QED
    BY <1>2, <2>1, <2>3, <2>4, <2>5, <2>6, <2>7, <2>8, ThreadKeepsSessions
<1>10. ASSUME BeginDestructor(t)
       PROVE  SessionsOK'
  <2>1. /\ at[t] \in {"leaving", "erasing"} /\ handles[t] # <<>>
        /\ BeginRelease(t, Last(handles[t]))
        /\ handles' = [handles EXCEPT ![t] = Front(handles[t])]
        /\ UNCHANGED <<at, storeMutex, stored, live, refCount, scan>>
    BY <1>3, <1>10 DEF BeginDestructor, Leaving, threadVars
  <2>2. PICK e \in Data : e = Last(handles[t])
    BY <1>4, <2>1
  <2>3. /\ Front(handles[t]) \in Seq(Data) /\ loaded' \in [Actors -> Int]
        /\ releasing' = [releasing EXCEPT ![t] = e] /\ unlocking' \in Leavings
    BY <1>1, <2>1, <2>2, BeginTyped
  <2>4. \A c \in Data : Counted(c)'
    BY <1>1, <2>1, DestructorCounts
  <2>5. at' = [at EXCEPT ![t] = at[t]] /\ (at[t] = "erasing" => storeMutex' = t)
    BY <1>2, <1>3, <2>1
  <2> QED BY <1>2, <2>1, <2>3, <2>4, <2>5, ThreadKeepsSessions
<1>11. ASSUME EndDestructor(t)
       PROVE  SessionsOK'
  <2>1. /\ at[t] \in {"leaving", "erasing"} /\ EndRelease(t)
        /\ storeMutex' = IF at[t] = "erasing" THEN Nobody ELSE storeMutex
        /\ UNCHANGED <<stored, handles, scan>>
    BY <1>3, <1>11 DEF EndDestructor, Leaving
  <2>2. PICK place \in {"leaving", "idle"} : at' = [at EXCEPT ![t] = place]
    <3>1. at' = [at EXCEPT ![t] = IF at[t] = "erasing" THEN "leaving"
                                  ELSE IF handles[t] # <<>> THEN at[t]
                                  ELSE IF at[t] = "dropping" THEN "scanning" ELSE "idle"]
      BY <1>11 DEF EndDestructor
    <3> QED BY <2>1, <3>1
  <2>4. /\ refCount' \in [Data -> Int] /\ loaded' \in [Actors -> Int]
        /\ releasing' = [releasing EXCEPT ![t] = releasing[t]] /\ unlocking' \in Leavings
    BY <1>1, <2>1, EndTyped
  <2>5. \A c \in Data : Counted(c)'
    BY <1>1, <2>1, UnlockCounts
  <2>6. handles' = [handles EXCEPT ![t] = handles[t]] /\ place \in SessionPlaces
    BY <1>2, <2>1 DEF SessionPlaces
  <2>7. \A a \in Actors \ {t} : storeMutex = a => storeMutex' = a
    BY <1>3, <2>1
  <2> QED BY <1>2, <2>1, <2>2, <2>4, <2>5, <2>6, <2>7, ThreadKeepsSessions
<1>12. ASSUME AssignOld(t)
       PROVE  SessionsOK'
  <2>1. /\ at[t] = "assigned" /\ at' = [at EXCEPT ![t] = "parting"]
        /\ BeginRelease(t, Head(handles[t]))
        /\ handles' = [handles EXCEPT ![t] = Tail(handles[t])]
        /\ UNCHANGED <<storeMutex, stored, live, refCount, scan>>
    BY <1>12 DEF AssignOld, Goes
  <2>2. handles[t] # <<>>
    BY <1>3, <2>1
  <2>3. Head(handles[t]) \in Data
    BY <1>2, <2>2, HeadTailProperties
  <2>4. /\ Tail(handles[t]) \in Seq(Data) /\ loaded' \in [Actors -> Int]
        /\ releasing' = [releasing EXCEPT ![t] = Head(handles[t])] /\ unlocking' \in Leavings
    BY <1>1, <2>1, <2>2, <2>3, BeginTyped
  <2>5. \A c \in Data : Counted(c)'
    BY <1>1, <2>1, <2>2, AssignmentCounts
  <2>6. "parting" \in SessionPlaces
    BY DEF SessionPlaces
  <2> QED BY <1>2, <2>1, <2>3, <2>4, <2>5, <2>6, ThreadKeepsSessions
<1>13. ASSUME EndAssign(t)
       PROVE  SessionsOK'
  <2>1. /\ at' = [at EXCEPT ![t] = "leaving"] /\ EndRelease(t)
        /\ UNCHANGED <<storeMutex, stored, handles, scan>>
    BY <1>13 DEF EndAssign, Goes
  <2>2. /\ refCount' \in [Data -> Int] /\ loaded' \in [Actors -> Int]
        /\ releasing' = [releasing EXCEPT ![t] = releasing[t]] /\ unlocking' \in Leavings
    BY <1>1, <2>1, EndTyped
  <2>3. \A c \in Data : Counted(c)'
    BY <1>1, <2>1, UnlockCounts
  <2>4. handles' = [handles EXCEPT ![t] = handles[t]] /\ "leaving" \in SessionPlaces
    BY <1>2, <2>1 DEF SessionPlaces
  <2> QED BY <1>2, <2>1, <2>2, <2>3, <2>4, ThreadKeepsSessions
<1>14. ASSUME StoreCount(t)
       PROVE  SessionsOK'
  BY <1>1, <1>14, StoreStep
<1> QED BY <1>6, <1>7, <1>8, <1>9, <1>10, <1>11, <1>12, <1>13, <1>14

\* A step of the main thread keeps the threads' scopes, and the mutex for them.
LEMMA MainKeepsSessions ==
    ASSUME SessionsOK, NEW place \in {"idle", "scanning", "checking", "dropping"},
           NEW scope \in Seq(Data), NEW leaving \in Data \cup {NoSession},
           at' = [at EXCEPT ![Main] = place], handles' = [handles EXCEPT ![Main] = scope],
           releasing' = [releasing EXCEPT ![Main] = leaving], unlocking' \in Leavings,
           refCount' \in [Data -> Int], loaded' \in [Actors -> Int],
           stored' \subseteq Data, scan' \subseteq Data,
           \A t \in Threads : storeMutex = t => storeMutex' = t,
           place # "idle" => storeMutex' = Main /\ scan' \subseteq stored',
           place = "checking" => /\ scope # <<>>
                                 /\ Last(scope) \in stored' /\ Last(scope) \notin scan',
           \A d \in Data : Counted(d)'
    PROVE  SessionsOK'
<1>1. Main \in Actors /\ SessionsType /\ PlacesOK /\ place \in SessionPlaces
  BY DEF Actors, SessionsOK, SessionPlaces
<1>2. SessionsType'
  BY <1>1, SessionsTyped
<1>3. /\ at'[Main] = place /\ handles'[Main] = scope
      /\ \A t \in Threads : at'[t] = at[t] /\ handles'[t] = handles[t]
  BY <1>1 DEF SessionsType, Scopes, Actors
<1>4. ASSUME NEW t \in Threads
      PROVE  /\ at'[t] \in {"touch", "using", "assign", "assigned", "removing"} =>
                    handles'[t] # <<>>
             /\ at'[t] = "erasing" => storeMutex' = t
             /\ at'[t] \notin {"scanning", "checking", "dropping"}
  BY <1>1, <1>3 DEF PlacesOK
<1>5. PlacesOK'
  BY <1>3, <1>4 DEF PlacesOK
<1> QED BY <1>2, <1>5 DEF SessionsOK

LEMMA MainSessionStep ==
    ASSUME SessionsOK,
           \/ BeginDestructor(Main) \/ StoreCount(Main) \/ EndDestructor(Main)
           \/ SessionTimerEvent \/ (\E d \in Data : ScanSession(d)) \/ ExpireSession
           \/ TimerEventEnds
    PROVE  SessionsOK'
<1> USE SessionsAssumption
<1>1. Main \in Actors /\ PlacesOK /\ AllCounted /\ \A a \in Actors : a # Nobody
  BY DEF Actors, SessionsOK, AllCounted
<1>2. /\ handles[Main] \in Seq(Data) /\ releasing[Main] \in Data \cup {NoSession}
      /\ stored \subseteq Data /\ scan \subseteq Data
      /\ refCount \in [Data -> Int] /\ loaded \in [Actors -> Int]
      /\ at = [at EXCEPT ![Main] = at[Main]]
      /\ handles = [handles EXCEPT ![Main] = handles[Main]]
      /\ releasing = [releasing EXCEPT ![Main] = releasing[Main]] /\ unlocking \in Leavings
  BY <1>1, ActorBefore
<1>3. /\ at[Main] \in {"idle", "scanning", "checking", "dropping"}
      /\ at[Main] # "idle" => storeMutex = Main /\ scan \subseteq stored
      /\ at[Main] = "checking" => /\ handles[Main] # <<>>
                                  /\ Last(handles[Main]) \in stored
                                  /\ Last(handles[Main]) \notin scan
  BY <1>1 DEF PlacesOK
<1>4. handles[Main] # <<>> => Last(handles[Main]) \in Data /\ Last(handles[Main]) \in live
  BY <1>1, LastIsLive
<1>5. \A t \in Threads : t # Main /\ t # Nobody
  BY DEF Actors
<1>6. ASSUME SessionTimerEvent
      PROVE  SessionsOK'
  <2>1. /\ at' = [at EXCEPT ![Main] = "scanning"] /\ storeMutex = Nobody
        /\ storeMutex' = Main /\ scan' = stored
        /\ UNCHANGED <<stored, live, refCount, handles, releasing, loaded, unlocking>>
    BY <1>6 DEF SessionTimerEvent, Enters
  <2>2. \A c \in Data : Counted(c)'
    BY <1>1, <2>1, NothingCounted
  <2>3. /\ handles' = [handles EXCEPT ![Main] = handles[Main]]
        /\ releasing' = [releasing EXCEPT ![Main] = releasing[Main]]
        /\ refCount' \in [Data -> Int] /\ loaded' \in [Actors -> Int]
        /\ stored' \subseteq Data /\ scan' \subseteq Data /\ unlocking' \in Leavings
        /\ storeMutex' = Main /\ scan' \subseteq stored'
    BY <1>2, <2>1
  <2>4. \A t \in Threads : storeMutex = t => storeMutex' = t
    BY <1>5, <2>1
  <2> QED BY <1>2, <2>1, <2>2, <2>3, <2>4, MainKeepsSessions
<1>7. ASSUME NEW d \in Data, ScanSession(d)
      PROVE  SessionsOK'
  <2>1. /\ at[Main] = "scanning" /\ at' = [at EXCEPT ![Main] = "checking"]
        /\ d \in scan /\ scan' = scan \ {d} /\ Copy(Main, d)
        /\ UNCHANGED <<storeMutex, stored, live, releasing, loaded, unlocking>>
    BY <1>7 DEF ScanSession, Goes
  <2>2. d \in stored /\ d \in live /\ storeMutex = Main /\ scan \subseteq stored
    BY <1>1, <1>3, <2>1 DEF AllCounted, Counted
  <2>3. \A c \in Data : Counted(c)'
    BY <1>1, <2>1, <2>2, CopyCounts
  <2>4. refCount' \in [Data -> Int]
    BY <1>1, <2>1, CopyTyped
  <2>5. PICK scope \in Seq(Data) : /\ handles' = [handles EXCEPT ![Main] = scope]
                                   /\ scope # <<>> /\ Last(scope) = d
    BY <1>1, <2>1, CopyTyped
  <2>6. /\ releasing' = [releasing EXCEPT ![Main] = releasing[Main]]
        /\ loaded' \in [Actors -> Int] /\ stored' \subseteq Data /\ scan' \subseteq Data
        /\ unlocking' \in Leavings
    BY <1>2, <2>1
  <2>7. /\ storeMutex' = Main /\ scan' \subseteq stored'
        /\ Last(scope) \in stored' /\ Last(scope) \notin scan'
        /\ \A t \in Threads : storeMutex = t => storeMutex' = t
    BY <2>1, <2>2, <2>5
  <2>8. at' = [at EXCEPT ![Main] = "checking"] /\ releasing[Main] \in Data \cup {NoSession}
    BY <1>2, <2>1
  <2> QED BY <2>3, <2>4, <2>6, <2>7, <2>8, <2>5, MainKeepsSessions
<1>8. ASSUME ExpireSession
      PROVE  SessionsOK'
  <2>1. /\ at[Main] = "checking" /\ at' = [at EXCEPT ![Main] = "dropping"]
        /\ \/ stored' = stored /\ handles' = handles
           \/ /\ stored' = stored \ {Last(handles[Main])}
              /\ handles' = [handles EXCEPT ![Main] = Append(handles[Main], Last(handles[Main]))]
        /\ UNCHANGED <<storeMutex, live, refCount, releasing, loaded, unlocking, scan>>
    BY <1>8 DEF ExpireSession, Goes
  <2>2. PICK d \in Data : d = Last(handles[Main])
    BY <1>3, <1>4, <2>1
  <2>3. d \in stored /\ d \notin scan /\ storeMutex = Main /\ scan \subseteq stored
    BY <1>3, <2>1, <2>2
  <2>4. \A c \in Data : Counted(c)'
    <3>1. CASE stored' = stored /\ handles' = handles
      BY <1>1, <2>1, <3>1, NothingCounted
    <3>2. CASE /\ stored' = stored \ {d}
               /\ handles' = [handles EXCEPT ![Main] = Append(@, d)]
      BY <1>1, <2>1, <2>3, <3>2, TakeOutCounts
    <3> QED BY <2>1, <2>2, <3>1, <3>2
  <2>5. PICK scope \in Seq(Data) : handles' = [handles EXCEPT ![Main] = scope]
    <3>1. handles[Main] \in Seq(Data) /\ Append(handles[Main], d) \in Seq(Data)
      BY <1>2
    <3> QED BY <1>2, <2>1, <2>2, <3>1
  <2>6. /\ releasing' = [releasing EXCEPT ![Main] = releasing[Main]]
        /\ refCount' \in [Data -> Int] /\ loaded' \in [Actors -> Int]
        /\ stored' \subseteq Data /\ scan' \subseteq Data /\ unlocking' \in Leavings
    BY <1>2, <2>1
  <2>7. /\ storeMutex' = Main /\ scan' \subseteq stored'
        /\ \A t \in Threads : storeMutex = t => storeMutex' = t
    BY <2>1, <2>2, <2>3
  <2> QED BY <1>2, <2>1, <2>4, <2>5, <2>6, <2>7, MainKeepsSessions
<1>9. ASSUME TimerEventEnds
      PROVE  SessionsOK'
  <2>1. /\ at[Main] = "scanning" /\ at' = [at EXCEPT ![Main] = "idle"] /\ storeMutex' = Nobody
        /\ UNCHANGED <<stored, live, refCount, handles, releasing, loaded, unlocking, scan>>
    BY <1>9 DEF TimerEventEnds, Goes
  <2>2. \A c \in Data : Counted(c)'
    BY <1>1, <2>1, NothingCounted
  <2>3. /\ handles' = [handles EXCEPT ![Main] = handles[Main]]
        /\ releasing' = [releasing EXCEPT ![Main] = releasing[Main]]
        /\ refCount' \in [Data -> Int] /\ loaded' \in [Actors -> Int]
        /\ stored' \subseteq Data /\ scan' \subseteq Data /\ unlocking' \in Leavings
    BY <1>2, <2>1
  <2>4. \A t \in Threads : storeMutex = t => storeMutex' = t
    BY <1>3, <1>5, <2>1
  <2> QED BY <1>2, <2>1, <2>2, <2>3, <2>4, MainKeepsSessions
<1>10. ASSUME BeginDestructor(Main)
       PROVE  SessionsOK'
  <2>1. /\ at[Main] = "dropping" /\ handles[Main] # <<>>
        /\ BeginRelease(Main, Last(handles[Main]))
        /\ handles' = [handles EXCEPT ![Main] = Front(handles[Main])]
        /\ UNCHANGED <<at, storeMutex, stored, live, refCount, scan>>
    BY <1>3, <1>10 DEF BeginDestructor, Leaving, threadVars
  <2>2. PICK e \in Data : e = Last(handles[Main])
    BY <1>4, <2>1
  <2>3. /\ Front(handles[Main]) \in Seq(Data) /\ loaded' \in [Actors -> Int]
        /\ releasing' = [releasing EXCEPT ![Main] = e] /\ unlocking' \in Leavings
    BY <1>1, <2>1, <2>2, BeginTyped
  <2>4. \A c \in Data : Counted(c)'
    BY <1>1, <2>1, DestructorCounts
  <2>5. /\ at' = [at EXCEPT ![Main] = "dropping"] /\ storeMutex' = Main /\ scan' \subseteq stored'
        /\ refCount' \in [Data -> Int] /\ stored' \subseteq Data /\ scan' \subseteq Data
        /\ \A t \in Threads : storeMutex = t => storeMutex' = t
    BY <1>2, <1>3, <2>1
  <2> QED BY <2>1, <2>3, <2>4, <2>5, MainKeepsSessions
<1>11. ASSUME EndDestructor(Main)
       PROVE  SessionsOK'
  <2>1. /\ at[Main] = "dropping" /\ EndRelease(Main)
        /\ storeMutex' = storeMutex /\ UNCHANGED <<stored, handles, scan>>
    BY <1>3, <1>11 DEF EndDestructor, Leaving
  <2>2. PICK place \in {"scanning", "dropping"} : at' = [at EXCEPT ![Main] = place]
    <3>1. at' = [at EXCEPT ![Main] = IF at[Main] = "erasing" THEN "leaving"
                                     ELSE IF handles[Main] # <<>> THEN at[Main]
                                     ELSE IF at[Main] = "dropping" THEN "scanning" ELSE "idle"]
      BY <1>11 DEF EndDestructor
    <3> QED BY <2>1, <3>1
  <2>4. /\ refCount' \in [Data -> Int] /\ loaded' \in [Actors -> Int]
        /\ releasing' = [releasing EXCEPT ![Main] = releasing[Main]] /\ unlocking' \in Leavings
    BY <1>1, <2>1, EndTyped
  <2>5. \A c \in Data : Counted(c)'
    BY <1>1, <2>1, UnlockCounts
  <2>6. /\ handles' = [handles EXCEPT ![Main] = handles[Main]]
        /\ storeMutex' = Main /\ scan' \subseteq stored'
        /\ stored' \subseteq Data /\ scan' \subseteq Data
        /\ \A t \in Threads : storeMutex = t => storeMutex' = t
    BY <1>2, <1>3, <2>1
  <2> QED BY <1>2, <2>1, <2>2, <2>4, <2>5, <2>6, MainKeepsSessions
<1>12. ASSUME StoreCount(Main)
       PROVE  SessionsOK'
  BY <1>1, <1>12, StoreStep
<1> QED BY <1>6, <1>7, <1>8, <1>9, <1>10, <1>11, <1>12

\* A process that has no sessions has no handle to one.
SessionsInv ==
    /\ part = "sessions" => SessionsOK
    /\ part # "sessions" => NoSessions

LEMMA NoSessionsOK ==
    ASSUME at = [a \in Actors |-> "idle"], NoSessions
    PROVE  SessionsOK
<1>1. Main \in Actors /\ \A t \in Threads : t \in Actors
  BY DEF Actors
<1>2. SessionsType
  <2>1. at \in [Actors -> SessionPlaces]
    BY DEF SessionPlaces
  <2>2. handles \in Scopes
    <3>1. <<>> \in Seq(Data)
      OBVIOUS
    <3> QED BY <3>1 DEF NoSessions, Scopes
  <2> QED BY <2>1, <2>2 DEF NoSessions, SessionsType, Leavings
<1>3. PlacesOK
  BY <1>1 DEF PlacesOK
<1>4. ASSUME NEW d \in Data PROVE Counted(d)
  <2>1. \A a \in Actors, i \in Nat : <<a, i>> \notin Held(d)
    <3> TAKE a \in Actors, i \in Nat
    <3>1. Len(handles[a]) = 0 /\ releasing[a] # d
      BY SessionsAssumption DEF NoSessions
    <3> QED BY <3>1, HeldIs, HeldNow
  <2>2. Held(d) = {}
    <3> SUFFICES ASSUME NEW h \in Held(d) PROVE FALSE
      OBVIOUS
    <3>1. \E a \in Actors, i \in Nat : h = <<a, i>>
      BY HeldIs, HeldNow
    <3> QED BY <2>1, <3>1
  <2>3. IsFiniteSet(Held(d)) /\ Cardinality(Held(d)) = 0
    BY <2>2, FS_EmptySet
  <2>4. /\ stored = {} /\ refCount[d] = 0
        /\ \A a \in Actors : releasing[a] # d /\ ~Dooms(a, d)
    BY SessionsAssumption DEF NoSessions, Dooms
  <2> QED BY <2>2, <2>3, <2>4 DEF Counted, HandleCount
<1> QED BY <1>2, <1>3, <1>4 DEF SessionsOK

LEMMA SessionsBegin == Init => SessionsInv
BY NoSessionsOK DEF Init, SessionsInv

LEMMA SessionsInvariance ==
    ASSUME SessionsInv, [Next]_vars
    PROVE  SessionsInv'
<1>1. CASE UNCHANGED <<part, at, sessionVars>>
  <2>1. UNCHANGED <<stored, live, refCount, handles, releasing, loaded, unlocking, scan,
                    storeMutex, at>>
    BY <1>1 DEF sessionVars
  <2>2. SessionsOK => \A d \in Data : Counted(d)'
    BY <2>1, NothingCounted DEF SessionsOK, AllCounted
  <2>3. SessionsOK => SessionsOK'
    BY <2>1, <2>2 DEF SessionsOK, SessionsType, PlacesOK
  <2>4. NoSessions => NoSessions'
    BY <1>1 DEF NoSessions, sessionVars
  <2> QED BY <1>1, <2>3, <2>4 DEF SessionsInv
<1>2. CASE Restart
  <2>1. (at = [a \in Actors |-> "idle"] /\ NoSessions)' /\ part' = part
    BY <1>2 DEF Restart, SessionsGone, NoSessions
  <2>2. SessionsOK'
    BY <2>1, NoSessionsOK, PTL
  <2> QED BY <2>1, <2>2 DEF SessionsInv
<1>3. CASE part = "sessions" /\ Sessions /\ part' = part
  <2>1. SessionsOK
    BY <1>3 DEF SessionsInv
  <2>2. SessionsOK'
    <3>1. CASE \E t \in Threads :
                \/ \E d \in Data : GetSessionId(t, d) \/ CreateSession(t, d)
                                   \/ GetSessionById(t, d)
                \/ FoundSession(t) \/ SetLastAccess(t) \/ NullSession(t) \/ EndOfScope(t)
                \/ AssignNew(t) \/ AssignOld(t) \/ EndAssign(t)
                \/ RemoveSession(t) \/ Erase(t) \/ EraseNothing(t)
                \/ BeginDestructor(t) \/ StoreCount(t) \/ EndDestructor(t)
      BY <2>1, <3>1, ThreadSessionStep
    <3>2. CASE \/ BeginDestructor(Main) \/ StoreCount(Main) \/ EndDestructor(Main)
               \/ SessionTimerEvent \/ (\E d \in Data : ScanSession(d)) \/ ExpireSession
               \/ TimerEventEnds
      BY <2>1, <3>2, MainSessionStep
    <3> QED BY <1>3, <3>1, <3>2 DEF Sessions, Actors
  <2> QED BY <1>3, <2>2 DEF SessionsInv
<1>4. CASE part \in {"caches", "log"} /\ UNCHANGED <<part, sessionVars>>
  BY <1>4 DEF SessionsInv, NoSessions, sessionVars
<1> QED BY <1>1, <1>2, <1>3, <1>4 DEF Next, Tick, vars, threadVars

\* SessionsAlive, for any number of threads and sessions, and any expiration
\* time: no handle outlives its session's data.
THEOREM SessionsAliveAlways == Spec => []SessionsAlive
<1>1. SessionsInv /\ [Next]_vars => SessionsInv'
  BY SessionsInvariance
<1>2. SessionsInv => SessionsAlive
  <2>1. CASE part = "sessions"
    BY <2>1, CountedAreAlive DEF SessionsInv
  <2>2. CASE part # "sessions" /\ SessionsInv
    BY <2>2 DEF SessionsInv, NoSessions, SessionsAlive
  <2> QED BY <2>1, <2>2
<1> QED BY <1>1, <1>2, SessionsBegin, PTL DEF Spec

-----------------------------------------------------------------------------
(* A QCache holds what was put into it, whatever it drops.                  *)

\* A set of naturals that is not empty has a least element.
LEMMA MinOfNaturals ==
    ASSUME NEW S \in SUBSET Nat, S # {}
    PROVE  Min(S) \in S
<1> DEFINE Less == OpToRel(<, Nat)
<1>1. \A x, y \in Nat : y < x => <<y, x>> \in Less
  BY DEF OpToRel
<1>2. IsWellFoundedOn(Less, Nat)
  BY NatLessThanWellFounded
<1> HIDE DEF Less
<1>3. PICK x \in S : \A y \in S : ~(<<y, x>> \in Less)
  BY <1>2, WFMin
<1>4. ASSUME NEW y \in S PROVE x <= y
  <2>1. x \in Nat /\ y \in Nat
    OBVIOUS
  <2>2. ~(<<y, x>> \in Less)
    BY <1>3
  <2>3. ~(y < x)
    BY <1>1, <2>1, <2>2
  <2> QED BY <2>1, <2>3
<1> QED BY <1>4 DEF Min

LEMMA OtherKeeps ==
    ASSUME NEW S, NEW cache \in Seq(S), NEW f
    PROVE  Other(cache, f) \in Seq(S)
<1>1. CASE ~Holds(cache, f)
  BY <1>1 DEF Other
<1>2. CASE Holds(cache, f)
  <2> DEFINE i == Place(cache, f)
  <2>1. i \in DOMAIN cache /\ DOMAIN cache = 1 .. Len(cache) /\ Len(cache) \in Nat
    BY <1>2 DEF Holds, Place
  <2>2. i \in Int /\ i - 1 \in Int /\ i + 1 \in Int /\ 1 \in Int /\ Len(cache) \in Int
    BY <2>1
  <2>3. \A j \in 1 .. i - 1 : cache[j] \in S
    BY <2>1, ElementOfSeq
  <2>4. \A j \in i + 1 .. Len(cache) : cache[j] \in S
    BY <2>1, ElementOfSeq
  <2> HIDE DEF i
  <2>5. SubSeq(cache, 1, i - 1) \in Seq(S)
    BY <2>2, <2>3, SubSeqProperties
  <2>6. SubSeq(cache, i + 1, Len(cache)) \in Seq(S)
    BY <2>2, <2>4, SubSeqProperties
  <2>7. RemoveAt(cache, i) \in Seq(S)
    BY <2>5, <2>6, ConcatProperties DEF RemoveAt
  <2> QED BY <1>2, <2>7 DEF Other, i
<1> QED BY <1>1, <1>2

LEMMA EntryIsHeld ==
    ASSUME NEW S, NEW cache \in Seq(S), NEW f, Holds(cache, f)
    PROVE  EntryOf(cache, f) \in S /\ EntryOf(cache, f).file = f
<1>1. Place(cache, f) \in DOMAIN cache /\ cache[Place(cache, f)].file = f
  BY DEF Holds, Place
<1>2. Place(cache, f) \in 1 .. Len(cache)
  BY <1>1
<1>3. cache[Place(cache, f)] \in S
  BY <1>2, ElementOfSeq
<1> QED BY <1>1, <1>3 DEF EntryOf

LEMMA UsedKeeps ==
    ASSUME NEW S, NEW cache \in Seq(S), NEW f
    PROVE  Used(cache, f) \in Seq(S)
<1>1. CASE Holds(cache, f)
  <2>1. Other(cache, f) \in Seq(S) /\ EntryOf(cache, f) \in S
    BY <1>1, OtherKeeps, EntryIsHeld
  <2>2. Append(Other(cache, f), EntryOf(cache, f)) \in Seq(S)
    BY <2>1, AppendProperties
  <2> QED BY <1>1, <2>2 DEF Used
<1>2. CASE ~Holds(cache, f)
  BY <1>2 DEF Used
<1> QED BY <1>1, <1>2

LEMMA TrimmedKeeps ==
    ASSUME NEW S, NEW cache \in Seq(S), NEW room
    PROVE  Trimmed(cache, room) \in Seq(S)
<1> DEFINE from(i) == SubSeq(cache, i, Len(cache))
           starts == {i \in 1 .. Len(cache) : TotalCost(from(i)) <= room}
                     \cup {Len(cache) + 1}
           first == Min(starts)
<1>1. Len(cache) \in Nat
  OBVIOUS
<1>2. starts \in SUBSET (1 .. Len(cache) + 1) /\ starts # {}
  BY <1>1
<1>3. first \in starts
  <2> HIDE DEF starts
  <2>1. starts \in SUBSET Nat
    BY <1>2
  <2> QED BY <1>2, <2>1, MinOfNaturals
<1>4. first \in 1 .. Len(cache) + 1
  BY <1>2, <1>3
<1> HIDE DEF first, starts
<1>5. first \in Int /\ Len(cache) \in Int /\ \A j \in first .. Len(cache) : cache[j] \in S
  BY <1>1, <1>4, ElementOfSeq
<1>6. SubSeq(cache, first, Len(cache)) \in Seq(S)
  BY <1>5, SubSeqProperties
<1> QED BY <1>6 DEF Trimmed, first, starts

LEMMA InsertedKeeps ==
    ASSUME NEW S, NEW cache \in Seq(S), NEW e \in S
    PROVE  Inserted(cache, e) \in Seq(S)
<1> DEFINE others == Other(cache, e.file)
           kept == Trimmed(others, CacheSize - Size(e))
<1>1. others \in Seq(S)
  BY OtherKeeps
<1> HIDE DEF others
<1>2. kept \in Seq(S)
  BY <1>1, TrimmedKeeps
<1> HIDE DEF kept
<1>3. Append(kept, e) \in Seq(S)
  BY <1>2, AppendProperties
<1> QED BY <1>1, <1>3 DEF Inserted, others, kept

-----------------------------------------------------------------------------
(* The pages.                                                              *)

CachePlaces == {"idle", "page", "opening", "storing", "pageServed", "template", "found"}
SomeAddress == CHOOSE a \in Addresses : TRUE
PageEntries ==
    [file : Files, content : Nat, created : Nat, address : Addresses \cup {SomeAddress}]

\* A content that is not the file's any more was, when the time was since.
Recent(file, content, since) == content # version[file] => changed[file] >= since

\* A cached page is as old as it says.
CacheEntries ==
    {e \in PageEntries : e.created <= clock /\ Recent(e.file, e.content, e.created)}

\* What a thread reads is as old as its request; what it serves, cacheTime more.
PageOK(place, file, time, content) ==
    /\ time <= clock
    /\ place \in {"page", "opening", "storing", "pageServed"} => file \in Files
    /\ place = "storing" => Recent(file, content, time)
    /\ place = "pageServed" /\ CacheTime > 0 /\ content # version[file] =>
        changed[file] + CacheTime > time

CachesType ==
    /\ at \in [Actors -> CachePlaces] /\ clock \in Nat
    /\ version \in [Files -> Nat] /\ changed \in [Files -> Nat]
    /\ path \in [Threads -> Files \cup {SomeFile}]
    /\ now \in [Threads -> Nat] /\ document \in [Threads -> Nat]

CachesOK ==
    /\ CachesType
    /\ pageCache \in Seq(CacheEntries)
    /\ \A t \in Threads : PageOK(at[t], path[t], now[t], document[t])

\* A thread's step leaves the other threads' requests, the files and the clock.
LEMMA ThreadStep ==
    ASSUME CachesOK, NEW t \in Threads,
           NEW place \in CachePlaces, NEW file \in Files \cup {SomeFile},
           NEW time \in Nat, NEW content \in Nat,
           UNCHANGED <<clock, version, changed>>,
           pageCache' \in Seq(CacheEntries),
           at' = [at EXCEPT ![t] = place], path' = [path EXCEPT ![t] = file],
           now' = [now EXCEPT ![t] = time], document' = [document EXCEPT ![t] = content],
           PageOK(place, file, time, content)
    PROVE  CachesOK'
<1>1. t \in Actors /\ CachesType /\ \A u \in Threads : u \in Actors
  BY DEF Actors, CachesOK
<1>2. at' \in [Actors -> CachePlaces]
  BY <1>1 DEF CachesType
<1>3. path' \in [Threads -> Files \cup {SomeFile}]
  BY <1>1 DEF CachesType
<1>4. now' \in [Threads -> Nat] /\ document' \in [Threads -> Nat]
  BY <1>1 DEF CachesType
<1>5. CachesType'
  BY <1>1, <1>2, <1>3, <1>4 DEF CachesType
<1>6. pageCache' \in Seq(CacheEntries)'
  BY DEF CacheEntries, Recent
<1>7. ASSUME NEW u \in Threads
      PROVE  PageOK(at[u], path[u], now[u], document[u])'
  <2>1. CASE u = t
    <3>1. at'[u] = place /\ path'[u] = file /\ now'[u] = time /\ document'[u] = content
      BY <1>1, <2>1 DEF CachesType
    <3> QED BY <3>1 DEF PageOK, Recent
  <2>2. CASE u # t
    <3>1. at'[u] = at[u] /\ path'[u] = path[u] /\ now'[u] = now[u]
          /\ document'[u] = document[u]
      BY <1>1, <2>2 DEF CachesType
    <3> QED BY <3>1 DEF PageOK, Recent, CachesOK
  <2> QED BY <2>1, <2>2
<1> QED BY <1>5, <1>6, <1>7 DEF CachesOK

\* The same, of a step within a request.
LEMMA RequestStep ==
    ASSUME CachesOK, NEW t \in Threads, NEW place \in CachePlaces, NEW content \in Nat,
           UNCHANGED <<clock, version, changed, path, now>>,
           pageCache' \in Seq(CacheEntries),
           at' = [at EXCEPT ![t] = place],
           document' = [document EXCEPT ![t] = content],
           PageOK(place, path[t], now[t], content)
    PROVE  CachesOK'
<1>1. path[t] \in Files \cup {SomeFile} /\ now[t] \in Nat
  BY DEF CachesOK, CachesType
<1>2. path' = [path EXCEPT ![t] = path[t]]
  BY DEF CachesOK, CachesType
<1>3. now' = [now EXCEPT ![t] = now[t]]
  BY DEF CachesOK, CachesType
<1> QED BY <1>1, <1>2, <1>3, ThreadStep

LEMMA EntriesInTime ==
    ASSUME NEW e \in CacheEntries
    PROVE  /\ e.file \in Files /\ e.content \in Nat /\ e.created \in Nat
           /\ e.created <= clock /\ Recent(e.file, e.content, e.created)
BY DEF CacheEntries, PageEntries

\* Time and changes of files make no entry younger than it says.
LEMMA FilesAndTime ==
    ASSUME CachesOK, clock' \in Nat, clock' >= clock,
           UNCHANGED <<at, pageCache, path, now, document>>,
           \/ UNCHANGED <<version, changed>>
           \/ \E f \in Files : /\ version' = [version EXCEPT ![f] = @ + 1]
                               /\ changed' = [changed EXCEPT ![f] = clock]
    PROVE  CachesOK'
<1> USE CacheAssumption
<1>1. CachesType /\ version' \in [Files -> Nat] /\ changed' \in [Files -> Nat]
  <2>1. CachesType
    BY DEF CachesOK
  <2>2. version \in [Files -> Nat] /\ changed \in [Files -> Nat] /\ clock \in Nat
    BY <2>1 DEF CachesType
  <2>3. CASE UNCHANGED <<version, changed>>
    BY <2>1, <2>2, <2>3
  <2>4. ASSUME NEW f \in Files, version' = [version EXCEPT ![f] = @ + 1],
               changed' = [changed EXCEPT ![f] = clock]
        PROVE  version' \in [Files -> Nat] /\ changed' \in [Files -> Nat]
    BY <2>2, <2>4
  <2> QED BY <2>1, <2>3, <2>4
<1>2. CachesType'
  BY <1>1 DEF CachesType
<1>3. \A g \in Files : \/ version'[g] = version[g] /\ changed'[g] = changed[g]
                       \/ changed'[g] = clock
  BY <1>1 DEF CachesType
<1>4. \A e \in CacheEntries : e \in CacheEntries'
  <2> TAKE e \in CacheEntries
  <2>1. e \in PageEntries
    BY DEF CacheEntries
  <2>2. e.created <= clock' /\ Recent(e.file, e.content, e.created)'
    <3>1. clock \in Nat /\ e.created <= clock /\ e.created \in Nat /\ e.file \in Files
      BY <1>1, EntriesInTime DEF CachesType
    <3> QED BY <1>3, <3>1, EntriesInTime DEF Recent
  <2> QED BY <2>1, <2>2 DEF CacheEntries
<1>5. pageCache' \in Seq(CacheEntries)'
  <2>1. CacheEntries \subseteq CacheEntries'
    BY <1>4
  <2>2. pageCache' \in Seq(CacheEntries)
    BY DEF CachesOK
  <2> QED BY <2>1, <2>2, SeqMonotonic
<1>6. ASSUME NEW u \in Threads
      PROVE  PageOK(at[u], path[u], now[u], document[u])'
  <2>1. PageOK(at[u], path[u], now[u], document[u]) /\ now[u] \in Nat /\ clock \in Nat
    BY <1>1 DEF CachesOK, CachesType
  <2>2. at[u] = "storing" => Recent(path[u], document[u], now[u])'
    BY <1>3, <2>1 DEF PageOK, Recent
  <2>3. at[u] = "pageServed" /\ CacheTime > 0 /\ document[u] # version'[path[u]] =>
            changed'[path[u]] + CacheTime > now[u]
    BY <1>3, <2>1 DEF PageOK
  <2> QED BY <2>1, <2>2, <2>3 DEF PageOK
<1> QED BY <1>2, <1>5, <1>6 DEF CachesOK

LEMMA PageStep ==
    ASSUME CachesOK, NEW t \in Threads,
           \/ \E f \in Pages : ServePage(t, f)
           \/ PageHit(t) \/ PageMiss(t) \/ ReadPage(t) \/ ForbiddenPage(t) \/ StorePage(t)
           \/ PageServed(t)
    PROVE  CachesOK'
<1> USE CacheAssumption
<1>1. /\ clock \in Nat /\ path[t] \in Files \cup {SomeFile} /\ now[t] \in Nat
      /\ document[t] \in Nat /\ version \in [Files -> Nat] /\ changed \in [Files -> Nat]
      /\ PageOK(at[t], path[t], now[t], document[t]) /\ pageCache \in Seq(CacheEntries)
  BY DEF CachesOK, CachesType
<1>2. /\ path = [path EXCEPT ![t] = path[t]] /\ now = [now EXCEPT ![t] = now[t]]
      /\ document = [document EXCEPT ![t] = document[t]]
  BY DEF CachesOK, CachesType
<1>3. ASSUME NEW f \in Pages, ServePage(t, f)
      PROVE  CachesOK'
  <2>1. f \in Files /\ "page" \in CachePlaces
    BY DEF Files, CachePlaces
  <2>2. PageOK("page", f, clock, document[t])
    BY <1>1, <2>1 DEF PageOK
  <2>3. /\ at' = [at EXCEPT ![t] = "page"]
        /\ UNCHANGED <<clock, version, changed, pageCache, document>>
        /\ path' = [path EXCEPT ![t] = f] /\ now' = [now EXCEPT ![t] = clock]
    BY <1>3 DEF ServePage, Enters
  <2> QED BY <1>1, <1>2, <2>1, <2>2, <2>3, ThreadStep
<1>4. ASSUME PageHit(t)
      PROVE  CachesOK'
  <2> DEFINE e == EntryOf(pageCache, path[t])
  <2>1. /\ at[t] = "page" /\ at' = [at EXCEPT ![t] = "pageServed"] /\ Holds(pageCache, path[t])
        /\ Fresh(e, now[t]) /\ pageCache' = Used(pageCache, path[t])
        /\ document' = [document EXCEPT ![t] = e.content]
        /\ UNCHANGED <<clock, version, changed, path, now>>
    BY <1>4 DEF PageHit, Goes, CachedPage
  <2>2. e \in CacheEntries /\ e.file = path[t]
    BY <1>1, <2>1, EntryIsHeld
  <2> HIDE DEF e
  <2>3. e.content \in Nat /\ e.created \in Nat /\ Recent(path[t], e.content, e.created)
        /\ path[t] \in Files
    BY <2>2, EntriesInTime
  <2>4. PageOK("pageServed", path[t], now[t], e.content)
    <3>1. e.content # version[path[t]] => changed[path[t]] >= e.created
      BY <2>3 DEF Recent
    <3>2. CacheTime = 0 \/ e.created + CacheTime > now[t]
      BY <2>1 DEF Fresh
    <3>3. changed[path[t]] \in Nat /\ now[t] <= clock
      BY <1>1, <2>3 DEF PageOK
    <3> QED BY <1>1, <2>3, <3>1, <3>2, <3>3 DEF PageOK
  <2>5. pageCache' \in Seq(CacheEntries) /\ "pageServed" \in CachePlaces
    BY <1>1, <2>1, UsedKeeps DEF CachePlaces
  <2> QED BY <1>1, <1>2, <2>1, <2>3, <2>4, <2>5, RequestStep
<1>5. ASSUME PageMiss(t)
      PROVE  CachesOK'
  <2>1. /\ at[t] = "page" /\ at' = [at EXCEPT ![t] = "opening"]
        /\ pageCache' = Used(pageCache, path[t])
        /\ UNCHANGED <<clock, version, changed, path, now, document>>
    BY <1>5 DEF PageMiss, Goes
  <2>2. pageCache' \in Seq(CacheEntries) /\ "opening" \in CachePlaces
    BY <1>1, <2>1, UsedKeeps DEF CachePlaces
  <2>3. PageOK("opening", path[t], now[t], document[t])
    BY <1>1, <2>1 DEF PageOK
  <2>4. document' = [document EXCEPT ![t] = document[t]]
    BY <1>2, <2>1
  <2> QED BY <1>1, <2>1, <2>2, <2>3, <2>4, RequestStep
<1>6. ASSUME ReadPage(t)
      PROVE  CachesOK'
  <2>1. PICK place \in {"pageServed", "storing"} : at' = [at EXCEPT ![t] = place]
    BY <1>6 DEF ReadPage, Goes
  <2>2. /\ at[t] = "opening" /\ document' = [document EXCEPT ![t] = version[path[t]]]
        /\ UNCHANGED <<clock, version, changed, pageCache, path, now>>
    BY <1>6 DEF ReadPage, Goes
  <2>3. path[t] \in Files /\ version[path[t]] \in Nat /\ place \in CachePlaces
    BY <1>1, <2>2 DEF PageOK, CachePlaces
  <2>4. PageOK(place, path[t], now[t], version[path[t]])
    BY <1>1, <2>3 DEF PageOK, Recent
  <2> QED BY <1>1, <2>1, <2>2, <2>3, <2>4, RequestStep
<1>7. ASSUME ForbiddenPage(t)
      PROVE  CachesOK'
  <2>1. /\ at' = [at EXCEPT ![t] = "idle"]
        /\ UNCHANGED <<clock, version, changed, pageCache, path, now, document>>
    BY <1>7 DEF ForbiddenPage, Goes, fileVars
  <2>2. "idle" \in CachePlaces /\ PageOK("idle", path[t], now[t], document[t])
    BY <1>1 DEF PageOK, CachePlaces
  <2>3. document' = [document EXCEPT ![t] = document[t]]
    BY <1>2, <2>1
  <2> QED BY <1>1, <2>1, <2>2, <2>3, RequestStep
<1>8. ASSUME StorePage(t)
      PROVE  CachesOK'
  <2> DEFINE e == [file |-> path[t], content |-> document[t], created |-> now[t],
                   address |-> SomeAddress]
  <2>1. /\ at[t] = "storing" /\ at' = [at EXCEPT ![t] = "pageServed"]
        /\ pageCache' = Inserted(pageCache, e)
        /\ UNCHANGED <<clock, version, changed, path, now, document>>
    BY <1>8 DEF StorePage, Goes, SomeAddress
  <2>2. path[t] \in Files /\ now[t] <= clock /\ Recent(path[t], document[t], now[t])
    BY <1>1, <2>1 DEF PageOK
  <2>3. e \in CacheEntries
    BY <1>1, <2>2 DEF CacheEntries, PageEntries
  <2> HIDE DEF e
  <2>4. pageCache' \in Seq(CacheEntries) /\ "pageServed" \in CachePlaces
    BY <1>1, <2>1, <2>3, InsertedKeeps DEF CachePlaces
  <2>5. PageOK("pageServed", path[t], now[t], document[t])
    <3>1. changed[path[t]] \in Nat
      BY <1>1, <2>2
    <3> QED BY <1>1, <2>2, <3>1 DEF PageOK, Recent
  <2>6. document' = [document EXCEPT ![t] = document[t]]
    BY <1>2, <2>1
  <2> QED BY <1>1, <2>1, <2>4, <2>5, <2>6, RequestStep
<1>9. ASSUME PageServed(t)
      PROVE  CachesOK'
  <2>1. /\ at' = [at EXCEPT ![t] = "idle"] /\ path' = [path EXCEPT ![t] = SomeFile]
        /\ now' = [now EXCEPT ![t] = 0] /\ document' = [document EXCEPT ![t] = 0]
        /\ UNCHANGED <<clock, version, changed, pageCache>>
    BY <1>9 DEF PageServed, Goes
  <2>2. "idle" \in CachePlaces /\ PageOK("idle", SomeFile, 0, 0) /\ 0 \in Nat
        /\ SomeFile \in Files \cup {SomeFile}
    BY <1>1 DEF PageOK, CachePlaces
  <2> QED BY <1>1, <2>1, <2>2, ThreadStep
<1> QED BY <1>3, <1>4, <1>5, <1>6, <1>7, <1>8, <1>9

\* Templates have a cache of their own; a thread that deals with one only reads
\* the clock.
LEMMA TemplateStep ==
    ASSUME CachesOK, NEW t \in Threads,
           \/ GetTemplate(t) \/ TemplateHit(t)
           \/ \E address \in Addresses : TemplateMiss(t, address)
           \/ NextTemplate(t) \/ TemplateDone(t)
    PROVE  CachesOK'
<1>1. /\ clock \in Nat /\ path[t] \in Files \cup {SomeFile} /\ now[t] \in Nat
      /\ document[t] \in Nat /\ now[t] <= clock /\ pageCache \in Seq(CacheEntries)
  BY DEF CachesOK, CachesType, PageOK
<1>2. /\ path = [path EXCEPT ![t] = path[t]] /\ now = [now EXCEPT ![t] = now[t]]
      /\ document = [document EXCEPT ![t] = document[t]]
  BY DEF CachesOK, CachesType
<1>3. /\ UNCHANGED <<clock, version, changed, pageCache, path, document>>
      /\ \E place \in {"template", "found", "idle"} : at' = [at EXCEPT ![t] = place]
      /\ \E time \in {clock, 0, now[t]} : now' = [now EXCEPT ![t] = time]
  BY <1>2 DEF GetTemplate, TemplateHit, TemplateMiss, NextTemplate, TemplateDone, ReadDocument,
              Enters, Goes
<1>4. PICK place \in {"template", "found", "idle"}, time \in {clock, 0, now[t]} :
        at' = [at EXCEPT ![t] = place] /\ now' = [now EXCEPT ![t] = time]
  BY <1>3
<1>5. place \in CachePlaces /\ time \in Nat /\ PageOK(place, path[t], time, document[t])
  BY <1>1, <1>4 DEF CachePlaces, PageOK
<1> QED BY <1>1, <1>2, <1>3, <1>4, <1>5, ThreadStep

-----------------------------------------------------------------------------
(* The templates.                                                          *)

HeldTemplates == {templateCache[i] : i \in DOMAIN templateCache}

\* A cached template is as old as it says, or there is none.
TemplateEntries ==
    {e \in Entries : e.created <= clock /\ (e.content = 0 \/ Recent(e.file, e.content, e.created))}

\* Where a thread that found a template looks, no entry of it is too old.
TemplateOK(held, place, number, address, time) ==
    /\ place \in {"template", "found"} => number \in 1 .. Len(Templates)
    /\ place = "found" /\ CacheTime > 0 => \A e \in held :
        e.address = address /\ e.file = Templates[number] =>
            e.content = 0 \/ NotTooOld(e.file, e.content, time)

\* An entry of what is in the file now, or of nothing.
Actual(e) == e.content = 0 \/ e.content = version[e.file]

TemplatesOK ==
    /\ entry \in [Threads -> Addresses \cup {NoEntry}] /\ try \in [Threads -> Nat]
    /\ templateCache \in Seq(TemplateEntries)
    /\ \A e, f \in HeldTemplates : e.address = f.address => e = f
    /\ \A t \in Threads : TemplateOK(HeldTemplates, at[t], try[t], entry[t], now[t])

LEMMA EntriesOf ==
    ASSUME NEW S, NEW cache \in Seq(S)
    PROVE  LET held == {cache[i] : i \in DOMAIN cache}
           IN  held \subseteq S /\ cache \in Seq(held)
<1> DEFINE held == {cache[i] : i \in DOMAIN cache}
<1>1. cache \in [1 .. Len(cache) -> S] /\ Len(cache) \in Nat
  BY LenProperties
<1>2. cache \in [1 .. Len(cache) -> held]
  BY <1>1
<1>3. cache \in Seq(held)
  BY <1>1, <1>2, SeqDef
<1> QED BY <1>1, <1>3

LEMMA TemplateName ==
    ASSUME NEW i \in 1 .. Len(Templates)
    PROVE  Templates[i] \in Files
<1>1. Templates[i] \in Range(Templates)
  BY TemplatesAssumption, ElementOfSeq
<1> QED BY <1>1 DEF Files

\* A step that stores at most a new entry, and leaves the files, concerns the
\* template its thread is about.
LEMMA TemplatesKept ==
    ASSUME CachesType, TemplatesOK, NEW t \in Threads,
           NEW place \in CachePlaces, NEW number \in Nat,
           NEW address \in Addresses \cup {NoEntry}, NEW time \in Nat,
           UNCHANGED <<clock, version, changed>>,
           NEW Stored \in SUBSET TemplateEntries,
           \A e \in Stored : New(e.address) /\ Actual(e) /\ Stored = {e},
           templateCache' \in Seq(HeldTemplates \cup Stored),
           at' = [at EXCEPT ![t] = place], try' = [try EXCEPT ![t] = number],
           entry' = [entry EXCEPT ![t] = address], now' = [now EXCEPT ![t] = time],
           TemplateOK(HeldTemplates \cup Stored, place, number, address, time)
    PROVE  TemplatesOK'
<1>1. t \in Actors /\ \A u \in Threads : u \in Actors
  BY DEF Actors
<1>2. /\ entry' \in [Threads -> Addresses \cup {NoEntry}] /\ try' \in [Threads -> Nat]
  BY DEF TemplatesOK
<1>3. HeldTemplates' \subseteq HeldTemplates \cup Stored
  <2> DEFINE S == HeldTemplates \cup Stored
             cache == templateCache'
  <2>1. cache \in Seq(S)
    OBVIOUS
  <2>2. HeldTemplates' = {cache[i] : i \in DOMAIN cache}
    BY DEF HeldTemplates
  <2> HIDE DEF S, cache
  <2>3. {cache[i] : i \in DOMAIN cache} \subseteq S
    BY <2>1, EntriesOf
  <2> QED BY <2>2, <2>3 DEF S
<1>4. HeldTemplates \subseteq TemplateEntries
  BY EntriesOf DEF TemplatesOK, HeldTemplates
<1>5. templateCache' \in Seq(TemplateEntries)'
  <2>1. TemplateEntries' = TemplateEntries
    BY DEF TemplateEntries, Recent
  <2>2. HeldTemplates \cup Stored \subseteq TemplateEntries
    BY <1>4
  <2> QED BY <2>1, <2>2, SeqMonotonic
<1>6. \A e \in HeldTemplates, f \in Stored : e.address # f.address
  BY DEF New, HeldTemplates
<1>7. \A e, f \in HeldTemplates' : e.address = f.address => e = f
  <2> TAKE e, f \in HeldTemplates'
  <2>1. CASE e \in HeldTemplates /\ f \in HeldTemplates
    BY <2>1 DEF TemplatesOK
  <2>2. CASE e \in Stored /\ f \in Stored
    BY <2>2
  <2> QED BY <1>3, <1>6, <2>1, <2>2
<1>8. ASSUME NEW u \in Threads
      PROVE  TemplateOK(HeldTemplates, at[u], try[u], entry[u], now[u])'
  <2>1. CASE u = t
    <3>1. at'[u] = place /\ try'[u] = number /\ entry'[u] = address /\ now'[u] = time
      BY <1>1, <2>1 DEF CachesType, TemplatesOK
    <3> QED BY <1>3, <3>1 DEF TemplateOK, NotTooOld
  <2>2. CASE u # t
    <3>1. at'[u] = at[u] /\ try'[u] = try[u] /\ entry'[u] = entry[u] /\ now'[u] = now[u]
      BY <1>1, <2>2 DEF CachesType, TemplatesOK
    <3>2. \A e \in Stored : e.content = 0 \/ NotTooOld(e.file, e.content, now[u])
      BY DEF Actual, NotTooOld
    <3>3. TemplateOK(HeldTemplates, at[u], try[u], entry[u], now[u])
      BY DEF TemplatesOK
    <3> QED BY <1>3, <3>1, <3>2, <3>3 DEF TemplateOK, NotTooOld
  <2> QED BY <2>1, <2>2
<1> QED BY <1>2, <1>5, <1>7, <1>8 DEF TemplatesOK

\* A page is none of the templates' business.
LEMMA PagesKeepTemplates ==
    ASSUME CachesOK, TemplatesOK, NEW t \in Threads,
           \/ \E f \in Pages : ServePage(t, f)
           \/ PageHit(t) \/ PageMiss(t) \/ ReadPage(t) \/ ForbiddenPage(t) \/ StorePage(t)
           \/ PageServed(t)
    PROVE  TemplatesOK'
<1>1. /\ clock \in Nat /\ now[t] \in Nat /\ CachesType
      /\ try[t] \in Nat /\ entry[t] \in Addresses \cup {NoEntry}
  BY DEF CachesOK, CachesType, TemplatesOK
<1>2. now = [now EXCEPT ![t] = now[t]] /\ try = [try EXCEPT ![t] = try[t]]
      /\ entry = [entry EXCEPT ![t] = entry[t]]
  BY DEF CachesOK, CachesType, TemplatesOK
<1>3. /\ UNCHANGED <<clock, version, changed, templateCache, try, entry>>
      /\ \E place \in {"page", "pageServed", "opening", "storing", "idle"} :
            at' = [at EXCEPT ![t] = place]
      /\ \E time \in {clock, 0, now[t]} : now' = [now EXCEPT ![t] = time]
  BY <1>2 DEF ServePage, PageHit, PageMiss, ReadPage, ForbiddenPage, StorePage, PageServed,
              Enters, Goes, fileVars
<1>4. PICK place \in {"page", "pageServed", "opening", "storing", "idle"},
           time \in {clock, 0, now[t]} :
        at' = [at EXCEPT ![t] = place] /\ now' = [now EXCEPT ![t] = time]
  BY <1>3
<1>5. place \in CachePlaces /\ time \in Nat
  BY <1>1, <1>4 DEF CachePlaces
<1>6. TemplateOK(HeldTemplates \cup {}, place, try[t], entry[t], time)
  BY DEF TemplateOK
<1>7. templateCache' \in Seq(HeldTemplates \cup {})
  BY <1>3, EntriesOf DEF TemplatesOK, HeldTemplates
<1>8. try' = [try EXCEPT ![t] = try[t]] /\ entry' = [entry EXCEPT ![t] = entry[t]]
  BY <1>2, <1>3
<1>9. {} \in SUBSET TemplateEntries /\ \A e \in {} : New(e.address) /\ Actual(e) /\ {} = {e}
  OBVIOUS
<1>10. now' = [now EXCEPT ![t] = time] /\ at' = [at EXCEPT ![t] = place]
  BY <1>4
<1>11. UNCHANGED <<clock, version, changed>>
  BY <1>3
<1> QED BY <1>1, <1>5, <1>6, <1>7, <1>8, <1>9, <1>10, <1>11, TemplatesKept

\* A step of getTemplate: a hit, a miss, or the document and perhaps the next name.
LEMMA TemplateTaken ==
    ASSUME CachesOK, TemplatesOK, NEW t \in Threads,
           \/ GetTemplate(t) \/ TemplateHit(t)
           \/ \E address \in Addresses : TemplateMiss(t, address)
           \/ NextTemplate(t) \/ TemplateDone(t)
    PROVE  TemplatesOK'
<1> USE CacheAssumption
<1>1. /\ clock \in Nat /\ now[t] \in Nat /\ now[t] <= clock /\ CachesType
      /\ version \in [Files -> Nat] /\ changed \in [Files -> Nat]
      /\ try[t] \in Nat /\ entry[t] \in Addresses \cup {NoEntry}
      /\ templateCache \in Seq(TemplateEntries)
      /\ TemplateOK(HeldTemplates, at[t], try[t], entry[t], now[t])
  BY DEF CachesOK, CachesType, TemplatesOK, PageOK
<1>2. now = [now EXCEPT ![t] = now[t]] /\ try = [try EXCEPT ![t] = try[t]]
      /\ entry = [entry EXCEPT ![t] = entry[t]]
  BY DEF CachesOK, CachesType, TemplatesOK
<1>3. templateCache \in Seq(HeldTemplates) /\ HeldTemplates \subseteq TemplateEntries
  BY <1>1, EntriesOf DEF HeldTemplates
<1>4. {} \in SUBSET TemplateEntries /\ \A e \in {} : New(e.address) /\ Actual(e) /\ {} = {e}
  OBVIOUS
<1>5. Len(Templates) \in Nat /\ Len(Templates) > 0
  BY TemplatesAssumption, EmptySeq, LenProperties
<1>6. ASSUME GetTemplate(t)
      PROVE  TemplatesOK'
  <2>1. /\ at' = [at EXCEPT ![t] = "template"] /\ try' = [try EXCEPT ![t] = 1]
        /\ now' = [now EXCEPT ![t] = clock] /\ entry' = [entry EXCEPT ![t] = entry[t]]
        /\ UNCHANGED <<clock, version, changed, templateCache>>
    BY <1>2, <1>6 DEF GetTemplate, Enters
  <2>2. "template" \in CachePlaces /\ 1 \in Nat /\ templateCache' \in Seq(HeldTemplates \cup {})
    BY <1>3, <2>1 DEF CachePlaces
  <2>3. TemplateOK(HeldTemplates \cup {}, "template", 1, entry[t], clock)
    BY <1>5 DEF TemplateOK
  <2> QED BY <1>1, <1>4, <2>1, <2>2, <2>3, TemplatesKept
<1>7. ASSUME TemplateHit(t)
      PROVE  TemplatesOK'
  <2> DEFINE e == EntryOf(templateCache, Name(t))
  <2>1. /\ at[t] = "template" /\ at' = [at EXCEPT ![t] = "found"]
        /\ Holds(templateCache, Name(t)) /\ Fresh(e, now[t])
        /\ templateCache' = Used(templateCache, Name(t))
        /\ entry' = [entry EXCEPT ![t] = e.address]
        /\ UNCHANGED <<clock, version, changed, now, try>>
    BY <1>7 DEF TemplateHit, Goes, CachedTemplate
  <2>2. try[t] \in 1 .. Len(Templates) /\ Name(t) = Templates[try[t]]
    BY <1>1, <2>1 DEF TemplateOK, Name
  <2>3. e \in HeldTemplates /\ e.file = Name(t)
    BY <1>3, <2>1, EntryIsHeld
  <2>4. templateCache' \in Seq(HeldTemplates)
    BY <1>3, <2>1, UsedKeeps
  <2> HIDE DEF e
  <2>6. /\ e.file \in Files /\ e.created \in Nat /\ e.address \in Addresses
        /\ e.content = 0 \/ Recent(e.file, e.content, e.created)
    BY <1>3, <2>3 DEF TemplateEntries, Entries
  <2>7. CacheTime > 0 => e.content = 0 \/ NotTooOld(e.file, e.content, now[t])
    <3>1. changed[e.file] \in Nat
      BY <1>1, <2>6
    <3> QED BY <1>1, <2>1, <2>6, <3>1 DEF Fresh, Recent, NotTooOld
  <2>8. \A f \in HeldTemplates : f.address = e.address => f = e
    BY <2>3 DEF TemplatesOK
  <2>9. TemplateOK(HeldTemplates \cup {}, "found", try[t], e.address, now[t])
    BY <2>2, <2>3, <2>7, <2>8 DEF TemplateOK
  <2>10. "found" \in CachePlaces /\ now' = [now EXCEPT ![t] = now[t]]
         /\ try' = [try EXCEPT ![t] = try[t]]
    BY <1>2, <2>1 DEF CachePlaces
  <2>11. templateCache' \in Seq(HeldTemplates \cup {})
    BY <2>4
  <2>12. PICK address \in Addresses : address = e.address
    BY <2>6
  <2>13. TemplateOK(HeldTemplates \cup {}, "found", try[t], address, now[t])
    BY <2>9, <2>12
  <2>14. at' = [at EXCEPT ![t] = "found"] /\ entry' = [entry EXCEPT ![t] = address]
         /\ UNCHANGED <<clock, version, changed>>
    BY <2>1, <2>12
  <2> QED BY <1>1, <1>4, <2>10, <2>11, <2>13, <2>14, TemplatesKept
<1>8. ASSUME NEW address \in Addresses, TemplateMiss(t, address)
      PROVE  TemplatesOK'
  <2>1. PICK content \in {version[Name(t)], 0} :
            templateCache' = Inserted(templateCache,
                [file |-> Name(t), content |-> content, created |-> now[t], address |-> address])
    BY <1>8 DEF TemplateMiss
  <2> DEFINE e == [file |-> Name(t), content |-> content, created |-> now[t],
                   address |-> address]
  <2>2. /\ at[t] = "template" /\ at' = [at EXCEPT ![t] = "found"] /\ New(address)
        /\ entry' = [entry EXCEPT ![t] = address]
        /\ UNCHANGED <<clock, version, changed, now, try>>
    BY <1>8 DEF TemplateMiss, Goes
  <2>3. try[t] \in 1 .. Len(Templates) /\ Name(t) = Templates[try[t]]
    BY <1>1, <2>2 DEF TemplateOK, Name
  <2>4. Name(t) \in Files /\ version[Name(t)] \in Nat /\ changed[Name(t)] \in Nat
    BY <1>1, <2>3, TemplateName
  <2>5. content \in Nat /\ (content = 0 \/ content = version[Name(t)])
    BY <2>1, <2>4
  <2>6. e \in TemplateEntries
    BY <1>1, <2>4, <2>5 DEF TemplateEntries, Entries, Recent
  <2>7. e.file = Name(t) /\ e.address = address /\ e.content = content
    OBVIOUS
  <2>8. templateCache' = Inserted(templateCache, e)
    BY <2>1
  <2> HIDE DEF e
  <2>9. templateCache' \in Seq(HeldTemplates \cup {e})
    <3>1. templateCache \in Seq(HeldTemplates \cup {e})
      BY <1>3, SeqMonotonic
    <3> QED BY <2>8, <3>1, InsertedKeeps
  <2>11. \A f \in HeldTemplates : f.address # address
    BY <2>2 DEF New, HeldTemplates
  <2>12. TemplateOK(HeldTemplates \cup {e}, "found", try[t], address, now[t])
    BY <2>3, <2>5, <2>7, <2>11 DEF TemplateOK, NotTooOld
  <2>13. "found" \in CachePlaces /\ now' = [now EXCEPT ![t] = now[t]]
         /\ try' = [try EXCEPT ![t] = try[t]]
    BY <1>2, <2>2 DEF CachePlaces
  <2>14. {e} \in SUBSET TemplateEntries /\ \A f \in {e} : New(f.address) /\ Actual(f) /\ {e} = {f}
    BY <2>2, <2>5, <2>6, <2>7 DEF Actual
  <2> QED BY <1>1, <2>2, <2>9, <2>12, <2>13, <2>14, TemplatesKept
<1>9. ASSUME NextTemplate(t)
      PROVE  TemplatesOK'
  <2>1. /\ at[t] = "found" /\ at' = [at EXCEPT ![t] = "template"] /\ try[t] < Len(Templates)
        /\ try' = [try EXCEPT ![t] = try[t] + 1] /\ now' = [now EXCEPT ![t] = clock]
        /\ entry' = [entry EXCEPT ![t] = NoEntry]
        /\ UNCHANGED <<clock, version, changed, templateCache>>
    BY <1>9 DEF NextTemplate, ReadDocument, Goes
  <2>2. "template" \in CachePlaces /\ try[t] + 1 \in Nat
        /\ templateCache' \in Seq(HeldTemplates \cup {})
    BY <1>1, <1>3, <2>1 DEF CachePlaces
  <2>3. TemplateOK(HeldTemplates \cup {}, "template", try[t] + 1, NoEntry, clock)
    BY <1>1, <1>5, <2>1 DEF TemplateOK
  <2> QED BY <1>1, <1>4, <2>1, <2>2, <2>3, TemplatesKept
<1>10. ASSUME TemplateDone(t)
       PROVE  TemplatesOK'
  <2>1. /\ at' = [at EXCEPT ![t] = "idle"] /\ try' = [try EXCEPT ![t] = 0]
        /\ now' = [now EXCEPT ![t] = 0] /\ entry' = [entry EXCEPT ![t] = NoEntry]
        /\ UNCHANGED <<clock, version, changed, templateCache>>
    BY <1>10 DEF TemplateDone, ReadDocument, Goes
  <2>2. "idle" \in CachePlaces /\ 0 \in Nat /\ templateCache' \in Seq(HeldTemplates \cup {})
    BY <1>3, <2>1 DEF CachePlaces
  <2>3. TemplateOK(HeldTemplates \cup {}, "idle", 0, NoEntry, 0)
    BY DEF TemplateOK
  <2> QED BY <1>1, <1>4, <2>1, <2>2, <2>3, TemplatesKept
<1> QED BY <1>6, <1>7, <1>8, <1>9, <1>10

\* Time and changes of files make no entry younger than it says, nor what a
\* thread found older than it may be.
LEMMA FilesAndTimeOfTemplates ==
    ASSUME CachesOK, TemplatesOK, clock' \in Nat, clock' >= clock,
           UNCHANGED <<at, templateCache, now, entry, try>>,
           \/ UNCHANGED <<version, changed>>
           \/ \E f \in Files : /\ version' = [version EXCEPT ![f] = @ + 1]
                               /\ changed' = [changed EXCEPT ![f] = clock]
    PROVE  TemplatesOK'
<1> USE CacheAssumption
<1>1. /\ clock \in Nat /\ version \in [Files -> Nat] /\ changed \in [Files -> Nat]
      /\ \A u \in Threads : now[u] \in Nat /\ now[u] <= clock
  BY DEF CachesOK, CachesType, PageOK
<1>2. \A g \in Files : \/ version'[g] = version[g] /\ changed'[g] = changed[g]
                       \/ changed'[g] = clock
  BY <1>1
<1>3. \A e \in TemplateEntries :
        /\ e.file \in Files /\ e.content \in Nat /\ e.created \in Nat /\ e.created <= clock
        /\ e.content = 0 \/ Recent(e.file, e.content, e.created)
  BY DEF TemplateEntries, Entries
<1>4. TemplateEntries \subseteq TemplateEntries'
  <2> SUFFICES ASSUME NEW e \in TemplateEntries PROVE e \in TemplateEntries'
    OBVIOUS
  <2>1. e.created <= clock' /\ (e.content = 0 \/ Recent(e.file, e.content, e.created)')
    BY <1>1, <1>2, <1>3 DEF Recent
  <2> QED BY <2>1 DEF TemplateEntries
<1>5. templateCache' \in Seq(TemplateEntries)'
  <2>1. templateCache' \in Seq(TemplateEntries)
    BY DEF TemplatesOK
  <2> QED BY <1>4, <2>1, SeqMonotonic
<1>6. HeldTemplates' = HeldTemplates /\ HeldTemplates \subseteq TemplateEntries
  BY EntriesOf DEF HeldTemplates, TemplatesOK
<1>7. ASSUME NEW u \in Threads
      PROVE  TemplateOK(HeldTemplates, at[u], try[u], entry[u], now[u])'
  <2>1. TemplateOK(HeldTemplates, at[u], try[u], entry[u], now[u])
    BY DEF TemplatesOK
  <2>2. ASSUME NEW e \in HeldTemplates, CacheTime > 0, NotTooOld(e.file, e.content, now[u])
        PROVE  NotTooOld(e.file, e.content, now[u])'
    <3>1. e.file \in Files /\ now'[u] = now[u] /\ now[u] \in Nat /\ now[u] <= clock
      BY <1>1, <1>3, <1>6
    <3> QED BY <1>1, <1>2, <2>2, <3>1 DEF NotTooOld
  <2> QED BY <1>6, <2>1, <2>2 DEF TemplateOK
<1> QED BY <1>5, <1>6, <1>7 DEF TemplatesOK

LEMMA NoTemplatesOK ==
    ASSUME at = [a \in Actors |-> "idle"], NoCaches
    PROVE  TemplatesOK
<1>1. \A t \in Threads : at[t] = "idle"
  BY DEF Actors
<1>2. /\ entry \in [Threads -> Addresses \cup {NoEntry}] /\ try \in [Threads -> Nat]
  BY DEF NoCaches
<1>3. templateCache = <<>> /\ HeldTemplates = {}
  BY DEF NoCaches, HeldTemplates
<1>4. templateCache \in Seq(TemplateEntries)
  BY <1>3
<1>5. \A t \in Threads : TemplateOK(HeldTemplates, at[t], try[t], entry[t], now[t])
  BY <1>1 DEF TemplateOK
<1> QED BY <1>2, <1>3, <1>4, <1>5 DEF TemplatesOK

-----------------------------------------------------------------------------

PagesInv ==
    /\ part = "caches" => CachesOK /\ TemplatesOK
    /\ part \notin {"sessions", "caches", "log"} => at = [a \in Actors |-> "idle"]

\* A process that has just begun serves and caches nothing.
LEMMA NoCachesOK ==
    ASSUME at = [a \in Actors |-> "idle"], NoCaches, clock \in Nat,
           version \in [Files -> Nat], changed \in [Files -> Nat]
    PROVE  CachesOK
<1>1. at \in [Actors -> CachePlaces] /\ \A t \in Threads : t \in Actors /\ at[t] = "idle"
  BY DEF CachePlaces, Actors
<1>2. /\ path \in [Threads -> Files \cup {SomeFile}]
      /\ now \in [Threads -> Nat] /\ document \in [Threads -> Nat]
      /\ \A t \in Threads : now[t] = 0
  BY DEF NoCaches
<1>3. pageCache \in Seq(CacheEntries)
  BY DEF NoCaches
<1>4. \A t \in Threads : PageOK(at[t], path[t], now[t], document[t])
  BY <1>1, <1>2 DEF PageOK
<1> QED BY <1>1, <1>2, <1>3, <1>4 DEF CachesOK, CachesType

LEMMA PagesBegin == Init => PagesInv
<1> SUFFICES ASSUME Init PROVE PagesInv
  OBVIOUS
<1>1. /\ at = [a \in Actors |-> "idle"] /\ NoCaches /\ clock \in Nat
      /\ version \in [Files -> Nat] /\ changed \in [Files -> Nat]
  BY DEF Init, FilesInit
<1> QED BY <1>1, NoCachesOK, NoTemplatesOK DEF PagesInv

LEMMA PagesInvariance == PagesInv /\ [Next]_vars => PagesInv'
<1> SUFFICES ASSUME PagesInv, [Next]_vars PROVE PagesInv'
  OBVIOUS
<1>1. CASE part = "caches" /\ Caches /\ part' = part
  <2>1. CachesOK /\ TemplatesOK
    BY <1>1 DEF PagesInv
  <2>2. CachesOK' /\ TemplatesOK'
    <3>1. CASE \E t \in Threads :
                \/ \E f \in Pages : ServePage(t, f)
                \/ PageHit(t) \/ PageMiss(t) \/ ReadPage(t) \/ ForbiddenPage(t)
                \/ StorePage(t) \/ PageServed(t)
      BY <2>1, <3>1, PageStep, PagesKeepTemplates
    <3>2. CASE \E t \in Threads :
                \/ GetTemplate(t) \/ TemplateHit(t)
                \/ \E address \in Addresses : TemplateMiss(t, address)
                \/ NextTemplate(t) \/ TemplateDone(t)
      BY <2>1, <3>2, TemplateStep, TemplateTaken
    <3>3. ASSUME NEW f \in Files, EditFile(f)
          PROVE  CachesOK' /\ TemplatesOK'
      <4>1. /\ version' = [version EXCEPT ![f] = @ + 1] /\ changed' = [changed EXCEPT ![f] = clock]
            /\ UNCHANGED <<at, clock, pageCache, templateCache, path, now, document, entry, try>>
        BY <3>3 DEF EditFile
      <4>2. clock' \in Nat /\ clock' >= clock
        BY <2>1, <4>1 DEF CachesOK, CachesType
      <4> QED BY <2>1, <4>1, <4>2, FilesAndTime, FilesAndTimeOfTemplates
    <3> QED BY <1>1, <3>1, <3>2, <3>3 DEF Caches
  <2> QED BY <1>1, <2>2 DEF PagesInv
<1>2. CASE Restart
  <2>1. /\ (at = [a \in Actors |-> "idle"] /\ NoCaches)'
        /\ UNCHANGED <<part, clock, version, changed>>
    BY <1>2 DEF Restart, CachesGone, NoCaches
  <2>2. CASE part = "caches"
    <3>1. (/\ at = [a \in Actors |-> "idle"] /\ NoCaches /\ clock \in Nat
           /\ version \in [Files -> Nat] /\ changed \in [Files -> Nat])'
      BY <2>1, <2>2 DEF PagesInv, CachesOK, CachesType
    <3>2. CachesOK' /\ TemplatesOK'
      BY <3>1, NoCachesOK, NoTemplatesOK, PTL
    <3> QED BY <2>1, <2>2, <3>2 DEF PagesInv
  <2>3. CASE part # "caches"
    BY <2>1, <2>3 DEF PagesInv
  <2> QED BY <2>2, <2>3
<1>3. CASE UNCHANGED <<part, at, fileVars>> /\ (clock' = clock \/ clock' = clock + 1)
  <2>1. CASE part = "caches"
    <3>1. CachesOK /\ TemplatesOK /\ clock \in Nat
      BY <2>1 DEF PagesInv, CachesOK, CachesType
    <3>2. CachesOK' /\ TemplatesOK'
      BY <1>3, <3>1, FilesAndTime, FilesAndTimeOfTemplates DEF fileVars
    <3> QED BY <1>3, <2>1, <3>2 DEF PagesInv
  <2>2. CASE part # "caches"
    BY <1>3, <2>2 DEF PagesInv
  <2> QED BY <2>1, <2>2
<1>4. CASE part \in {"sessions", "log"} /\ part' = part
  BY <1>4 DEF PagesInv
<1> QED BY <1>1, <1>2, <1>3, <1>4 DEF Next, Tick, vars, threadVars

\* ServedIsRecent, for any files, number of threads, cache size and cache time:
\* no page that is served, and no entry of its template that lies where a thread
\* found one, is older than the cache may make it, wherever new entries are
\* allocated.  That the entry which lies there is of its template is not so.
THEOREM ServedIsRecentAlways == Spec => []ServedIsRecent
<1>1. LogInv /\ SessionsInv /\ PagesInv => ServedIsRecent
  <2> SUFFICES ASSUME LogInv, SessionsInv, PagesInv, NEW t \in Threads
               PROVE  /\ at[t] = "pageServed" /\ CacheTime > 0 =>
                            NotTooOld(path[t], document[t], now[t])
                      /\ at[t] = "found" /\ CacheTime > 0 => \A i \in DOMAIN templateCache :
                            LET e == templateCache[i] IN
                            e.address = entry[t] /\ e.file = Name(t) =>
                                e.content = 0 \/ NotTooOld(e.file, e.content, now[t])
    BY DEF ServedIsRecent
  <2>1. t \in Actors
    BY DEF Actors
  <2>2. CASE part = "caches"
    <3>1. /\ PageOK(at[t], path[t], now[t], document[t])
          /\ TemplateOK(HeldTemplates, at[t], try[t], entry[t], now[t])
      BY <2>2 DEF PagesInv, CachesOK, TemplatesOK
    <3>2. \A i \in DOMAIN templateCache : templateCache[i] \in HeldTemplates
      BY DEF HeldTemplates
    <3> QED BY <3>1, <3>2 DEF PageOK, TemplateOK, Name, NotTooOld
  <2>3. CASE part = "sessions"
    BY <2>1, <2>3 DEF SessionsInv, SessionsOK, SessionsType, SessionPlaces
  <2>4. CASE part = "log"
    BY <2>1, <2>4 DEF LogInv, LogPlaces
  <2>5. CASE part \notin {"sessions", "caches", "log"}
    BY <2>1, <2>5 DEF PagesInv
  <2> QED BY <2>2, <2>3, <2>4, <2>5
<1>2. Init => LogInv /\ SessionsInv /\ PagesInv
  BY LogBegins, SessionsBegin, PagesBegin
<1>3. LogInv /\ SessionsInv /\ PagesInv /\ [Next]_vars => LogInv' /\ SessionsInv' /\ PagesInv'
  BY LogInvariance, SessionsInvariance, PagesInvariance
<1> QED BY <1>1, <1>2, <1>3, PTL DEF Spec

-----------------------------------------------------------------------------
(* The types, and data deleted once.                                       *)

LibraryInv == LogInv /\ SessionsInv /\ PagesInv

LEMMA LibraryInvariance == Spec => []LibraryInv
<1>1. Init => LibraryInv
  BY LogBegins, SessionsBegin, PagesBegin DEF LibraryInv
<1>2. LibraryInv /\ [Next]_vars => LibraryInv'
  BY LogInvariance, SessionsInvariance, PagesInvariance DEF LibraryInv
<1> QED BY <1>1, <1>2, PTL DEF Spec

Holders == Actors \cup {Nobody}

ThreadsTyped ==
    /\ part \in Parts /\ work \in Nat /\ clock \in Nat
    /\ at \in [Actors -> SessionPlaces \cup CachePlaces \cup LogPlaces]

SessionsTypes ==
    /\ storeMutex \in Holders
    /\ stored \subseteq Data /\ live \subseteq Data /\ deleted \subseteq Data
    /\ scan \subseteq Data
    /\ refCount \in [Data -> Int] /\ lastAccess \in [Data -> Nat]
    /\ wanted \in [Actors -> Data \cup {NoSession}]
    /\ handles \in Scopes /\ loaded \in [Actors -> Int]
    /\ releasing \in Leavings /\ unlocking \in Leavings

FilesTypes ==
    /\ version \in [Files -> Nat] /\ changed \in [Files -> Nat]
    /\ pageCache \in Seq(PageEntries) /\ templateCache \in Seq(Entries)
    /\ path \in [Threads -> Files \cup {SomeFile}]
    /\ now \in [Threads -> Nat] /\ document \in [Threads -> Nat]
    /\ entry \in [Threads -> Addresses \cup {NoEntry}] /\ try \in [Threads -> Nat]

LogTypes ==
    /\ handler \in Holders /\ logging \in Holders /\ logMutex \in Holders
    /\ buffer \in [Actors -> 0 .. BufferSize]
    /\ fileOpen \in BOOLEAN /\ rotating \in Nat
    /\ current \in 0 .. MaxLogs /\ backups \in [Numbers -> 0 .. MaxLogs]

TypeOK == ThreadsTyped /\ SessionsTypes /\ FilesTypes /\ LogTypes

\* Each part's invariant places the threads that use it.
LEMMA PlacesTyped ==
    ASSUME LibraryInv
    PROVE  at \in [Actors -> SessionPlaces \cup CachePlaces \cup LogPlaces]
<1>1. CASE part = "sessions"
  BY <1>1 DEF LibraryInv, SessionsInv, SessionsOK, SessionsType
<1>2. CASE part = "caches"
  BY <1>2 DEF LibraryInv, PagesInv, CachesOK, CachesType
<1>3. CASE part = "log"
  BY <1>3 DEF LibraryInv, LogInv
<1>4. CASE part \notin {"sessions", "caches", "log"}
  BY <1>4 DEF LibraryInv, PagesInv, CachePlaces
<1> QED BY <1>1, <1>2, <1>3, <1>4

\* The files of the log are generations.
LEMMA FilesTyped ==
    ASSUME FilesInv
    PROVE  current \in 0 .. MaxLogs /\ backups \in [Numbers -> 0 .. MaxLogs]
<1> USE LogAssumption
<1>1. PICK top \in Nat, gap \in Nat, last \in Nat : LogFiles(top, gap, last)
  BY DEF FilesInv
<1>2. current \in 0 .. MaxLogs
  BY <1>1 DEF LogFiles
<1>3. ASSUME NEW i \in Numbers
      PROVE  backups[i] \in 0 .. MaxLogs
  <2>1. i \in Nat /\ i >= 1 /\ top <= MaxLogs
    BY <1>1 DEF Numbers, LogFiles
  <2>2. backups[i] = IF i < gap THEN top + 1 - i
                     ELSE IF gap < i /\ i <= last THEN top + 2 - i
                     ELSE 0
    BY <1>1 DEF LogFiles, Rotated
  <2>3. last <= top + 1 /\ gap <= last + 1 /\ gap >= 1 /\ (gap > last => last <= top)
    BY <1>1 DEF LogFiles, Rotated
  <2> QED BY <2>1, <2>2, <2>3
<1>4. DOMAIN backups = Numbers /\ backups = [i \in Numbers |-> backups[i]]
  BY <1>1 DEF LogFiles, Rotated
<1> QED BY <1>2, <1>3, <1>4

LEMMA ReleaseTyped ==
    ASSUME SessionsTypes, NEW a \in Actors, EndRelease(a)
    PROVE  live' \subseteq Data /\ deleted' \subseteq Data
<1>1. unlocking[a] \in Data
  BY DEF SessionsTypes, Leavings, EndRelease
<1> QED BY <1>1 DEF SessionsTypes, EndRelease

\* A step of the sessions leaves what their invariant does not speak of in its
\* types.
LEMMA SessionsKeepTypes ==
    ASSUME ThreadsTyped, SessionsTypes, Sessions
    PROVE  /\ storeMutex' \in Holders /\ live' \subseteq Data /\ deleted' \subseteq Data
           /\ lastAccess' \in [Data -> Nat] /\ wanted' \in [Actors -> Data \cup {NoSession}]
           /\ work' \in Nat /\ clock' = clock
<1> DEFINE Typed ==
      /\ storeMutex' \in Holders /\ live' \subseteq Data /\ deleted' \subseteq Data
      /\ lastAccess' \in [Data -> Nat] /\ wanted' \in [Actors -> Data \cup {NoSession}]
      /\ work' \in Nat /\ clock' = clock
<1>1. /\ clock \in Nat /\ work \in Nat /\ (work > 0 => work - 1 \in Nat)
      /\ Main \in Actors /\ \A t \in Threads : t \in Actors
  BY DEF ThreadsTyped, Actors
<1>2. ASSUME NEW t \in Threads, NEW d \in Data,
             \/ GetSessionId(t, d) \/ CreateSession(t, d) \/ GetSessionById(t, d)
      PROVE  Typed
  <2>1. t \in Actors
    BY <1>1
  <2>2. CASE GetSessionId(t, d)
    BY <1>1, <2>1, <2>2 DEF GetSessionId, Enters, Work, SessionsTypes
  <2>3. CASE CreateSession(t, d)
    BY <1>1, <2>1, <2>3 DEF CreateSession, Goes, SessionsTypes
  <2>4. CASE GetSessionById(t, d)
    BY <1>1, <2>1, <2>4 DEF GetSessionById, Goes, SessionsTypes
  <2> QED BY <1>2, <2>2, <2>3, <2>4
<1>3. ASSUME NEW t \in Threads,
             \/ FoundSession(t) \/ SetLastAccess(t) \/ NullSession(t) \/ EndOfScope(t)
             \/ AssignNew(t) \/ AssignOld(t) \/ RemoveSession(t) \/ Erase(t) \/ EraseNothing(t)
      PROVE  Typed
  <2>1. t \in Actors
    BY <1>1
  <2>2. CASE FoundSession(t) \/ SetLastAccess(t) \/ NullSession(t) \/ EndOfScope(t)
    BY <1>1, <2>1, <2>2 DEF FoundSession, SetLastAccess, NullSession, EndOfScope, Goes,
                            SessionsTypes, sessionVars
  <2>3. CASE AssignNew(t) \/ AssignOld(t) \/ RemoveSession(t) \/ Erase(t) \/ EraseNothing(t)
    BY <1>1, <2>1, <2>3 DEF AssignNew, AssignOld, RemoveSession, Erase, EraseNothing, Goes,
                            SessionsTypes, sessionVars, Holders
  <2> QED BY <1>3, <2>2, <2>3
<1>4. ASSUME NEW t \in Threads, EndAssign(t)
      PROVE  Typed
  <2>1. live' \subseteq Data /\ deleted' \subseteq Data
    BY <1>1, <1>4, ReleaseTyped DEF EndAssign
  <2> QED BY <1>1, <1>4, <2>1 DEF EndAssign, Goes, SessionsTypes
<1>5. ASSUME NEW a \in Actors, BeginDestructor(a) \/ StoreCount(a)
      PROVE  Typed
  BY <1>1, <1>5 DEF BeginDestructor, StoreCount, SessionsTypes, threadVars
<1>6. ASSUME NEW a \in Actors, EndDestructor(a)
      PROVE  Typed
  <2>1. live' \subseteq Data /\ deleted' \subseteq Data
    BY <1>6, ReleaseTyped DEF EndDestructor
  <2> QED BY <1>1, <1>6, <2>1 DEF EndDestructor, SessionsTypes, Holders
<1>7. ASSUME \/ SessionTimerEvent \/ (\E d \in Data : ScanSession(d)) \/ ExpireSession
             \/ TimerEventEnds
      PROVE  Typed
  BY <1>1, <1>7 DEF SessionTimerEvent, ScanSession, ExpireSession, TimerEventEnds, Enters, Goes,
                    Work, SessionsTypes, Holders
<1> QED BY <1>2, <1>3, <1>4, <1>5, <1>6, <1>7 DEF Sessions

\* The caches change the types of nothing their invariant does not speak of.
LEMMA CachesKeepTypes ==
    ASSUME ThreadsTyped, Caches
    PROVE  work' \in Nat /\ clock' = clock
<1>1. work \in Nat /\ (work > 0 => work - 1 \in Nat)
  BY DEF ThreadsTyped
<1>2. ASSUME NEW t \in Threads,
             \/ \E f \in Pages : ServePage(t, f)
             \/ PageHit(t) \/ PageMiss(t) \/ ReadPage(t) \/ ForbiddenPage(t) \/ StorePage(t)
             \/ PageServed(t)
      PROVE  work' \in Nat /\ clock' = clock
  BY <1>1, <1>2 DEF ServePage, PageHit, PageMiss, ReadPage, ForbiddenPage, StorePage, PageServed,
                    Enters, Goes, Work
<1>3. ASSUME NEW t \in Threads,
             GetTemplate(t) \/ TemplateHit(t) \/ NextTemplate(t) \/ TemplateDone(t)
      PROVE  work' \in Nat /\ clock' = clock
  BY <1>1, <1>3 DEF GetTemplate, TemplateHit, NextTemplate, TemplateDone, Enters, Goes, Work
<1>4. ASSUME NEW t \in Threads, NEW address \in Addresses, TemplateMiss(t, address)
      PROVE  work' \in Nat /\ clock' = clock
  BY <1>1, <1>4 DEF TemplateMiss, Goes
<1>5. ASSUME NEW f \in Files, EditFile(f)
      PROVE  work' \in Nat /\ clock' = clock
  BY <1>1, <1>5 DEF EditFile, Work
<1> QED BY <1>2, <1>3, <1>4, <1>5 DEF Caches

LEMMA LogsKeepTypes ==
    ASSUME ThreadsTyped, LogTypes, LibraryInv, part = "log", Logs
    PROVE  /\ handler' \in Holders /\ logging' \in Holders /\ logMutex' \in Holders
           /\ buffer' \in [Actors -> 0 .. BufferSize]
           /\ fileOpen' \in BOOLEAN /\ rotating' \in Nat
           /\ work' \in Nat /\ clock' = clock
<1> USE LogAssumption
<1> DEFINE Typed ==
      /\ handler' \in Holders /\ logging' \in Holders /\ logMutex' \in Holders
      /\ buffer' \in [Actors -> 0 .. BufferSize]
      /\ fileOpen' \in BOOLEAN /\ rotating' \in Nat
      /\ work' \in Nat /\ clock' = clock
<1>1. /\ work \in Nat /\ (work > 0 => work - 1 \in Nat)
      /\ Main \in Holders /\ Nobody \in Holders /\ \A a \in Actors : a \in Holders
  BY DEF ThreadsTyped, Holders, Actors
<1>2. ASSUME NEW a \in Actors, LogMessage(a) \/ LockLog(a)
      PROVE  Typed
  BY <1>1, <1>2 DEF LogMessage, LockLog, Enters, Goes, Work, LogTypes
<1>3. ASSUME NEW a \in Actors, Log(a) \/ ClearBuffer(a)
      PROVE  Typed
  <2>1. buffer[a] \in 0 .. BufferSize
    BY DEF LogTypes
  <2>2. buffer' \in [Actors -> 0 .. BufferSize]
    BY <1>3, <2>1 DEF Log, ClearBuffer, LogTypes
  <2> QED BY <1>1, <1>3, <2>2 DEF Log, ClearBuffer, Goes, Work, LogTypes
<1>4. ASSUME FlushTimer
      PROVE  Typed
  <2>1. PICK top \in Nat, gap \in Nat, last \in Nat : Rotated(top, gap, last)
    BY DEF LibraryInv, LogInv, FilesInv, LogFiles
  <2>2. Count \in Nat
    BY <2>1, CountIsBeforeGap DEF Rotated
  <2> QED BY <1>1, <1>4, <2>2 DEF FlushTimer, CloseFile, Enters, Work, LogTypes
<1>5. ASSUME RefreshSettings \/ Open \/ OpenFails
      PROVE  Typed
  BY <1>1, <1>5 DEF RefreshSettings, Open, OpenFails, CloseFile, Enters, Goes, Work, LogTypes
<1>6. ASSUME RemoveBackup \/ RenameBackup
      PROVE  Typed
  <2>1. rotating' \in Nat
    BY <1>6 DEF RemoveBackup, RenameBackup, TooMany, LogTypes
  <2> QED BY <1>1, <1>6, <2>1 DEF RemoveBackup, RenameBackup, threadVars, LogTypes
<1>7. ASSUME Removed \/ RenameLog
      PROVE  Typed
  BY <1>1, <1>7 DEF Removed, RenameLog, Goes, logVars, LogTypes
<1> QED BY <1>2, <1>3, <1>4, <1>5, <1>6, <1>7 DEF Logs

LEMMA TypesBegin == Init => TypeOK
<1> SUFFICES ASSUME Init PROVE TypeOK
  OBVIOUS
<1> USE MaxWorkAssumption
<1>1. LibraryInv
  BY LogBegins, SessionsBegin, PagesBegin DEF LibraryInv
<1>2. ThreadsTyped
  BY <1>1, PlacesTyped DEF Init, ThreadsTyped
<1>3. SessionsTypes
  <2>1. handles \in Scopes
    <3>1. <<>> \in Seq(Data)
      OBVIOUS
    <3> QED BY <3>1 DEF Init, NoSessions, Scopes
  <2> QED BY <2>1 DEF Init, NoSessions, SessionsTypes, Holders, Leavings
<1>4. FilesTypes
  <2>1. /\ version \in [Files -> Nat] /\ changed \in [Files -> Nat] /\ NoCaches
    BY DEF Init, FilesInit
  <2> QED BY <2>1 DEF NoCaches, FilesTypes
<1>5. LogTypes
  <2>1. NoLogger
    BY DEF Init, LogInit
  <2>2. buffer \in [Actors -> 0 .. BufferSize]
    BY <2>1, LogAssumption DEF NoLogger
  <2>3. current \in 0 .. MaxLogs /\ backups \in [Numbers -> 0 .. MaxLogs]
    BY <1>1, FilesTyped DEF LibraryInv, LogInv
  <2> QED BY <2>1, <2>2, <2>3 DEF NoLogger, LogTypes, Holders
<1> QED BY <1>2, <1>3, <1>4, <1>5 DEF TypeOK

LEMMA TypesStay ==
    ASSUME TypeOK, LibraryInv, [Next]_vars
    PROVE  TypeOK'
<1>1. LibraryInv'
  BY LogInvariance, SessionsInvariance, PagesInvariance DEF LibraryInv
<1>2. ThreadsTyped /\ SessionsTypes /\ FilesTypes /\ LogTypes
  BY DEF TypeOK
<1>3. at' \in [Actors -> SessionPlaces \cup CachePlaces \cup LogPlaces]
  <2>1. (at \in [Actors -> SessionPlaces \cup CachePlaces \cup LogPlaces])'
    BY <1>1, PlacesTyped, PTL
  <2> QED BY <2>1 DEF SessionPlaces, CachePlaces, LogPlaces
<1>4. current' \in 0 .. MaxLogs /\ backups' \in [Numbers -> 0 .. MaxLogs]
  <2>1. (FilesInv)'
    BY <1>1 DEF LibraryInv, LogInv
  <2>2. (current \in 0 .. MaxLogs /\ backups \in [Numbers -> 0 .. MaxLogs])'
    BY <2>1, FilesTyped, PTL
  <2> QED BY <2>2 DEF Numbers
<1>5. CASE part = "sessions" /\ Sessions /\ UNCHANGED <<part, fileVars, logVars>>
  <2>1. /\ storeMutex' \in Holders /\ live' \subseteq Data /\ deleted' \subseteq Data
        /\ lastAccess' \in [Data -> Nat] /\ wanted' \in [Actors -> Data \cup {NoSession}]
        /\ work' \in Nat /\ clock' = clock
    BY <1>2, <1>5, SessionsKeepTypes
  <2>2. SessionsType'
    BY <1>1, <1>5 DEF LibraryInv, SessionsInv, SessionsOK
  <2>3. ThreadsTyped'
    BY <1>2, <1>3, <1>5, <2>1 DEF ThreadsTyped
  <2>4. SessionsTypes'
    BY <2>1, <2>2 DEF SessionsType, SessionsTypes
  <2>5. FilesTypes'
    BY <1>2, <1>5 DEF FilesTypes, fileVars
  <2>6. LogTypes'
    BY <1>2, <1>5 DEF LogTypes, logVars, filesVars
  <2> QED BY <2>3, <2>4, <2>5, <2>6 DEF TypeOK
<1>6. CASE part = "caches" /\ Caches /\ UNCHANGED <<part, sessionVars, logVars>>
  <2>1. work' \in Nat /\ clock' = clock
    BY <1>2, <1>6, CachesKeepTypes
  <2>2. CachesOK' /\ TemplatesOK'
    BY <1>1, <1>6 DEF LibraryInv, PagesInv
  <2>3. ThreadsTyped'
    BY <1>2, <1>3, <1>6, <2>1 DEF ThreadsTyped
  <2>4. SessionsTypes'
    BY <1>2, <1>6 DEF SessionsTypes, sessionVars
  <2>5. pageCache' \in Seq(PageEntries)
    <3>1. pageCache' \in Seq(CacheEntries') /\ CacheEntries' \subseteq PageEntries
      BY <2>2 DEF CachesOK, CacheEntries, PageEntries
    <3> QED BY <3>1, SeqMonotonic
  <2>6. templateCache' \in Seq(Entries)
    <3>1. templateCache' \in Seq(TemplateEntries') /\ TemplateEntries' \subseteq Entries
      BY <2>2 DEF TemplatesOK, TemplateEntries, Entries
    <3> QED BY <3>1, SeqMonotonic
  <2>7. FilesTypes'
    BY <2>2, <2>5, <2>6 DEF CachesOK, CachesType, TemplatesOK, FilesTypes, PageEntries, Entries
  <2>8. LogTypes'
    BY <1>2, <1>6 DEF LogTypes, logVars, filesVars
  <2> QED BY <2>3, <2>4, <2>7, <2>8 DEF TypeOK
<1>7. CASE part = "log" /\ Logs /\ UNCHANGED <<part, sessionVars, fileVars>>
  <2>1. /\ handler' \in Holders /\ logging' \in Holders /\ logMutex' \in Holders
        /\ buffer' \in [Actors -> 0 .. BufferSize]
        /\ fileOpen' \in BOOLEAN /\ rotating' \in Nat
        /\ work' \in Nat /\ clock' = clock
    BY <1>2, <1>7, LogsKeepTypes
  <2>2. ThreadsTyped'
    BY <1>2, <1>3, <1>7, <2>1 DEF ThreadsTyped
  <2>3. SessionsTypes' /\ FilesTypes'
    BY <1>2, <1>7 DEF SessionsTypes, sessionVars, FilesTypes, fileVars
  <2>4. LogTypes'
    BY <1>4, <2>1 DEF LogTypes
  <2> QED BY <2>2, <2>3, <2>4 DEF TypeOK
<1>8. CASE Tick \/ UNCHANGED vars
  <2>1. /\ UNCHANGED <<part, at, work, sessionVars, fileVars, logVars>>
        /\ clock' = clock \/ clock' = clock + 1
    BY <1>8 DEF Tick, vars, threadVars
  <2>2. ThreadsTyped'
    BY <1>2, <2>1 DEF ThreadsTyped
  <2>3. SessionsTypes' /\ FilesTypes'
    BY <1>2, <2>1 DEF SessionsTypes, sessionVars, FilesTypes, fileVars
  <2>4. LogTypes'
    BY <1>2, <2>1 DEF LogTypes, logVars, filesVars
  <2> QED BY <2>2, <2>3, <2>4 DEF TypeOK
<1>9. CASE Restart
  <2>1. ThreadsTyped'
    BY <1>2, <1>3, <1>9 DEF Restart, ThreadsTyped, Work
  <2>2. SessionsTypes'
    <3>1. <<>> \in Seq(Data)
      OBVIOUS
    <3> QED BY <1>9, <3>1 DEF Restart, SessionsGone, SessionsTypes, Holders, Leavings, Scopes
  <2>3. FilesTypes'
    BY <1>2, <1>9 DEF Restart, CachesGone, FilesTypes
  <2>4. LogTypes'
    <3>1. buffer' \in [Actors -> 0 .. BufferSize]
      BY <1>9, LogAssumption DEF Restart, LoggerGone
    <3> QED BY <1>4, <1>9, <3>1 DEF Restart, LoggerGone, LogTypes, Holders
  <2> QED BY <2>1, <2>2, <2>3, <2>4 DEF TypeOK
<1> QED BY <1>5, <1>6, <1>7, <1>8, <1>9 DEF Next

\* Every variable of the library keeps its type: no buffer has more messages
\* than bufferSize, and no file of the log is of a generation that never was.
THEOREM TypeCorrect == Spec => []TypeOK
<1>1. TypeOK /\ LibraryInv /\ [Next]_vars => TypeOK'
  BY TypesStay
<1> QED BY <1>1, TypesBegin, LibraryInvariance, PTL DEF Spec

\* Whoever lowers a count does so on data that is still there, and whoever is
\* about to delete it is not the second to do so.
DeletedOnce ==
    /\ live \cap deleted = {}
    /\ \A a \in Actors :
        /\ releasing[a] # NoSession => releasing[a] \notin deleted
        /\ unlocking[a] # NoSession /\ Deletes(a) => unlocking[a] \notin deleted

LEMMA ReleaseKeepsApart ==
    ASSUME live \cap deleted = {}, NEW a \in Actors, EndRelease(a)
    PROVE  live' \cap deleted' = {}
BY DEF EndRelease

\* Data that a thread is about to delete is counted by nobody, and there.
LEMMA DoomedIsLive ==
    ASSUME SessionsOK, NEW a \in Actors, unlocking[a] # NoSession, Deletes(a)
    PROVE  unlocking[a] \in live
<1>1. unlocking[a] \in Data /\ Counted(unlocking[a])
  BY DEF SessionsOK, SessionsType, Leavings
<1>2. Dooms(a, unlocking[a])
  BY DEF Dooms, Deletes
<1> QED BY <1>1, <1>2 DEF Counted

LEMMA SessionsKeepApart ==
    ASSUME live \cap deleted = {}, Sessions
    PROVE  live' \cap deleted' = {}
<1>1. \A t \in Threads : t \in Actors
  BY DEF Actors
<1>2. ASSUME NEW t \in Threads, NEW d \in Data,
             GetSessionId(t, d) \/ GetSessionById(t, d)
      PROVE  live' = live /\ deleted' = deleted
  BY <1>2 DEF GetSessionId, GetSessionById
<1>3. ASSUME NEW t \in Threads, NEW d \in Data, CreateSession(t, d)
      PROVE  live' \cap deleted' = {}
  BY <1>3 DEF CreateSession
<1>4. ASSUME NEW t \in Threads,
             \/ FoundSession(t) \/ SetLastAccess(t) \/ NullSession(t) \/ EndOfScope(t)
             \/ AssignNew(t) \/ AssignOld(t) \/ RemoveSession(t) \/ Erase(t) \/ EraseNothing(t)
      PROVE  live' = live /\ deleted' = deleted
  BY <1>4 DEF FoundSession, SetLastAccess, NullSession, EndOfScope, AssignNew, AssignOld,
              RemoveSession, Erase, EraseNothing, sessionVars
<1>5. ASSUME NEW t \in Threads, EndAssign(t)
      PROVE  live' \cap deleted' = {}
  BY <1>1, <1>5, ReleaseKeepsApart DEF EndAssign
<1>6. ASSUME NEW a \in Actors, BeginDestructor(a) \/ StoreCount(a)
      PROVE  live' = live /\ deleted' = deleted
  BY <1>6 DEF BeginDestructor, StoreCount
<1>7. ASSUME NEW a \in Actors, EndDestructor(a)
      PROVE  live' \cap deleted' = {}
  BY <1>7, ReleaseKeepsApart DEF EndDestructor
<1>8. ASSUME \/ SessionTimerEvent \/ (\E d \in Data : ScanSession(d)) \/ ExpireSession
             \/ TimerEventEnds
      PROVE  live' = live /\ deleted' = deleted
  BY <1>8 DEF SessionTimerEvent, ScanSession, ExpireSession, TimerEventEnds
<1> QED BY <1>2, <1>3, <1>4, <1>5, <1>6, <1>7, <1>8 DEF Sessions

\* No session's data is deleted twice, and no thread lowers the count of data
\* that is deleted, although threads lower it at once and lose each other's
\* decrements.  The data's lock is not spoken of: a thread may unlock it when
\* another has deleted it.
THEOREM DeletedOnceAlways == Spec => []DeletedOnce
<1>1. Init => live \cap deleted = {}
  BY DEF Init, NoSessions
<1>2. live \cap deleted = {} /\ [Next]_vars => (live \cap deleted = {})'
  <2> SUFFICES ASSUME live \cap deleted = {}, [Next]_vars
               PROVE  live' \cap deleted' = {}
    OBVIOUS
  <2>1. CASE Sessions
    BY <2>1, SessionsKeepApart
  <2>2. CASE UNCHANGED sessionVars
    BY <2>2 DEF sessionVars
  <2>3. CASE Restart
    BY <2>3 DEF Restart, SessionsGone
  <2> QED BY <2>1, <2>2, <2>3 DEF Next, Tick, vars
<1>3. live \cap deleted = {} /\ SessionsAlive /\ LibraryInv => DeletedOnce
  <2> SUFFICES ASSUME live \cap deleted = {}, SessionsAlive, LibraryInv
               PROVE  DeletedOnce
    OBVIOUS
  <2>1. ASSUME NEW a \in Actors, unlocking[a] # NoSession, Deletes(a)
        PROVE  unlocking[a] \in live
    <3>1. SessionsOK
      BY <2>1 DEF LibraryInv, SessionsInv, NoSessions
    <3> QED BY <2>1, <3>1, DoomedIsLive
  <2> QED BY <2>1 DEF SessionsAlive, DeletedOnce
<1> QED BY <1>1, <1>2, <1>3, SessionsAliveAlways, LibraryInvariance, PTL DEF Spec

=============================================================================
