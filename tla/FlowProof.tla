----------------------------- MODULE FlowProof -----------------------------
(***************************************************************************)
(* Proofs about the parts of the server that work something off: the         *)
(* serving of script files, the table of flying objects, the way of a packet *)
(* to its socket and the cutting of packets out of what a socket delivers.   *)
(***************************************************************************)
EXTENDS Flow, RankingProof, SequenceTheorems

(***************************************************************************)
(* The serving of script files.                                            *)
(***************************************************************************)

Limit(group) == IF group = "stage" THEN Stages ELSE Characters

(* No script before the count of its group differs: the count may begin at  *)
(* a script in the middle, but then it is the first that differs.          *)
CountedAreCurrent == \A s \in stale : s[2] >= counted[s[1]]

(* While a script is served, it is not counted, and those of its group that *)
(* differ come after the count.                                            *)
JobIsNext ==
    login \in {"files", "data"} =>
        /\ counted[job[1]] < Limit(job[1])
        /\ \A s \in stale \ {job} : s[1] = job[1] => s[2] > counted[job[1]]

(* Before the first script is named, none is counted.                       *)
NoneCounted == login \in {"new", "listing"} => counted = NoCount

(* A request for data is within a file there is.                            *)
WithinFile == login = "data" => fileno < Files /\ at <= Sizes[fileno]

FilesInv ==
    /\ TypeOKFiles /\ CountedAreCurrent /\ JobIsNext /\ NoneCounted /\ WithinFile
    /\ TransferIsSound

LEMMA ScriptIs ==
    ASSUME NEW s \in Installed
    PROVE  /\ s = <<s[1], s[2]>> /\ s[1] \in {"stage", "chara"}
           /\ s[2] \in 0 .. Limit(s[1]) - 1
BY DEF Installed, StageScripts, CharaScripts, Limit

LEMMA ScriptsAre == \A g \in {"stage", "chara"}, n \in Int :
                      <<g, n>> \in Installed <=> n \in 0 .. Limit(g) - 1
BY ScriptsAssumption DEF Installed, StageScripts, CharaScripts, Limit

(* A script is named: the next in the count, or the first that differs.     *)
LEMMA NamedIsNext ==
    ASSUME TypeOKFiles', CountedAreCurrent', NEW s, Named(s),
           counted'[s[1]] < Limit(s[1]),
           \A r \in stale' \ {s} : r[1] = s[1] => r[2] > counted'[s[1]],
           waiting' \in BOOLEAN
    PROVE  FilesInv'
BY DEF Named, FilesInv, JobIsNext, NoneCounted, WithinFile, TransferIsSound, EndMeansCurrent,
   SendingIsNotTimed

LEMMA ListRefusedStep == ASSUME FilesInv, ListRefused PROVE FilesInv'
<1> USE DEF FilesInv
<1>1. login = "listing" /\ counted = NoCount
  BY DEF ListRefused, TransferIsSound, EndMeansCurrent, NoneCounted
<1>2. PICK s : /\ s \in stale /\ Named(s)
               /\ \A r \in stale : r[1] = s[1] => s[2] <= r[2]
  <2>1. PICK s \in IF stale \cap CharaScripts # {} THEN FirstStale(CharaScripts)
                   ELSE FirstStale(StageScripts) : Named(s)
    BY DEF ListRefused
  <2>2. s \in stale
    BY <2>1 DEF FirstStale
  <2>3. ASSUME NEW r \in stale, r[1] = s[1] PROVE s[2] <= r[2]
    <3>1. r \in Installed /\ s \in Installed
      BY <2>2 DEF TypeOKFiles
    <3>2. r \in CharaScripts <=> s \in CharaScripts
      BY <2>3, <3>1 DEF Installed, StageScripts, CharaScripts
    <3>3. r \in StageScripts <=> s \in StageScripts
      BY <2>3, <3>1 DEF Installed, StageScripts, CharaScripts
    <3> QED
      BY <2>1, <2>3, <3>2, <3>3 DEF FirstStale
  <2> QED
    BY <2>1, <2>2, <2>3
<1>3. /\ stale' = stale /\ counted' = counted /\ waiting' = waiting /\ frames' = frames
  BY DEF ListRefused
<1>4. s \in Installed /\ s[1] \in {"stage", "chara"} /\ s[2] \in 0 .. Limit(s[1]) - 1
  BY <1>2, ScriptIs DEF TypeOKFiles
<1>5. TypeOKFiles' /\ CountedAreCurrent'
  BY <1>2, <1>3, <1>4, ScriptsAssumption, SizesAssumption
  DEF TypeOKFiles, CountedAreCurrent, Named
<1>6. counted'[s[1]] = 0 /\ 0 < Limit(s[1])
  BY <1>1, <1>3, <1>4, ScriptsAssumption DEF NoCount, Limit
<1>7. ASSUME NEW r \in stale' \ {s}, r[1] = s[1] PROVE r[2] > counted'[s[1]]
  <2>1. r = <<s[1], r[2]>> /\ r[2] \in Nat /\ s = <<s[1], s[2]>> /\ s[2] \in Nat
    BY <1>2, <1>3, <1>7, ScriptIs, ScriptsAssumption DEF TypeOKFiles, Limit
  <2>2. s[2] <= r[2] /\ r[2] # s[2]
    BY <1>2, <1>3, <1>7, <2>1
  <2> QED
    BY <1>6, <2>1, <2>2
<1> QED
  BY <1>2, <1>3, <1>5, <1>6, <1>7, NamedIsNext DEF TypeOKFiles

LEMMA ScriptSentStep == ASSUME FilesInv, ScriptSent PROVE FilesInv'
<1> USE DEF FilesInv
<1>1. /\ login = "files" /\ stale' = stale \ {job} /\ counted' = Counted(job)
      /\ waiting' = FALSE /\ frames' = frames
  BY DEF ScriptSent, WaitsNoMore
<1>2. /\ job \in Installed /\ job[1] \in {"stage", "chara"}
      /\ counted[job[1]] < Limit(job[1])
  BY <1>1, ScriptIs DEF TypeOKFiles, JobIsNext
<1>3. /\ counted' \in [stage : 0 .. Stages, chara : 0 .. Characters]
      /\ counted'[job[1]] = counted[job[1]] + 1
      /\ \A g \in {"stage", "chara"} \ {job[1]} : counted'[g] = counted[g]
      /\ counted[job[1]] \in Nat
  BY <1>1, <1>2, ScriptsAssumption DEF Counted, TypeOKFiles, Limit
<1>4. CountedAreCurrent'
  <2> SUFFICES ASSUME NEW s \in stale, s # job PROVE s[2] >= counted'[s[1]]
    BY <1>1 DEF CountedAreCurrent
  <2>1. s[1] \in {"stage", "chara"} /\ s[2] \in Nat
    BY ScriptIs, ScriptsAssumption DEF TypeOKFiles, Limit
  <2>2. CASE s[1] = job[1]
    BY <1>1, <1>3, <2>1, <2>2 DEF JobIsNext
  <2>3. CASE s[1] # job[1]
    BY <1>3, <2>1, <2>3 DEF CountedAreCurrent
  <2> QED
    BY <2>2, <2>3
<1>5. CASE NextHash(counted') = {}
  <2>1. login' = "again" /\ UNCHANGED <<job, fileno, at>>
    BY <1>5 DEF ScriptSent
  <2>2. counted'.stage >= Stages /\ counted'.chara >= Characters
    <3>1. ~(counted'.stage < Stages)
      BY <1>5 DEF NextHash
    <3>2. ~(counted'.chara < Characters)
      BY <1>5, <3>1 DEF NextHash
    <3>3. counted'.stage \in Nat /\ counted'.chara \in Nat
      BY <1>3
    <3> QED
      BY <3>1, <3>2, <3>3, ScriptsAssumption
  <2>3. stale' = {}
    <3> SUFFICES ASSUME NEW s \in stale' PROVE FALSE
      OBVIOUS
    <3>1. s \in Installed /\ s[2] >= counted'[s[1]]
      BY <1>1, <1>4 DEF TypeOKFiles, CountedAreCurrent
    <3>2. s[1] \in {"stage", "chara"} /\ s[2] \in 0 .. Limit(s[1]) - 1
      BY <3>1, ScriptIs
    <3> QED
      BY <2>2, <3>1, <3>2, <1>3, ScriptsAssumption DEF Limit
  <2>4. TypeOKFiles'
    BY <1>1, <1>3, <2>1 DEF TypeOKFiles
  <2> QED
    BY <1>1, <1>4, <2>1, <2>3, <2>4
    DEF JobIsNext, NoneCounted, WithinFile, TransferIsSound, EndMeansCurrent, SendingIsNotTimed
<1>6. CASE NextHash(counted') # {}
  <2>1. PICK s \in NextHash(counted') : Named(s)
    BY <1>6 DEF ScriptSent
  <2>2. s[1] \in {"stage", "chara"} /\ s[2] = counted'[s[1]] /\ counted'[s[1]] < Limit(s[1])
        /\ s = <<s[1], s[2]>> /\ s[2] \in Nat
    BY <2>1, <1>3, ScriptsAssumption DEF NextHash, Limit
  <2>3. s \in Installed
    BY <2>2, ScriptsAre, ScriptsAssumption DEF Limit
  <2>4. TypeOKFiles'
    <3>1. job' = s /\ fileno' = 0 /\ at' = 0 /\ login' = "files"
      BY <2>1 DEF Named
    <3> QED
      <4>1. stale' \subseteq Installed /\ job' \in Installed
        BY <1>1, <3>1, <2>3 DEF TypeOKFiles
      <4>2. fileno' \in 0 .. Files /\ at' \in Nat
        BY <3>1, SizesAssumption
      <4>3. counted' \in [stage : 0 .. Stages, chara : 0 .. Characters]
        BY <1>3
      <4>4. waiting' \in BOOLEAN /\ frames' \in 0 .. LoginTimeout - 1
        BY <1>1 DEF TypeOKFiles
      <4>5. login' \in {"new", "listing", "files", "data", "again", "in", "out"}
        BY <3>1
      <4> QED
        BY <4>1, <4>2, <4>3, <4>4, <4>5 DEF TypeOKFiles
  <2>5. ASSUME NEW r \in stale' \ {s}, r[1] = s[1] PROVE r[2] > counted'[s[1]]
    <3>1. r \in Installed /\ r[2] >= counted'[s[1]]
      BY <1>1, <1>4, <2>5 DEF TypeOKFiles, CountedAreCurrent
    <3>2. r = <<s[1], r[2]>> /\ r[2] \in Nat
      BY <2>5, <3>1, ScriptIs, ScriptsAssumption DEF Limit
    <3>3. r[2] # s[2]
      BY <2>2, <2>5, <3>2
    <3> QED
      BY <2>2, <3>1, <3>2, <3>3
  <2> QED
    BY <1>1, <1>4, <2>1, <2>2, <2>4, <2>5, NamedIsNext
<1> QED
  BY <1>5, <1>6

(* The types, apart from what is in the counts.                            *)
Counts == [stage : 0 .. Stages, chara : 0 .. Characters]
Logins == {"new", "listing", "files", "data", "again", "in", "out"}

Typed ==
    /\ stale \subseteq Installed /\ job \in Installed
    /\ fileno \in 0 .. Files /\ at \in Nat /\ counted \in Counts
    /\ waiting \in BOOLEAN /\ frames \in 0 .. LoginTimeout - 1
    /\ login \in Logins

LEMMA TypesAre == TypeOKFiles <=> Typed
BY DEF TypeOKFiles, Typed, Counts, Logins

LEMMA TypesWillBe == TypeOKFiles' <=> Typed'
BY DEF TypeOKFiles, Typed, Counts, Logins

(* The count starts again with a new list.                                 *)
LEMMA CountStarts ==
    /\ NoCount \in Counts /\ \A s \in Installed : s[2] >= NoCount[s[1]]
    /\ <<"stage", 0>> \in Installed
<1>1. NoCount \in Counts
  BY ScriptsAssumption DEF NoCount, Counts
<1>2. \A s \in Installed : s[2] >= NoCount[s[1]]
  BY ScriptIs, ScriptsAssumption DEF NoCount, Limit
<1>3. <<"stage", 0>> \in Installed
  BY ScriptsAre, ScriptsAssumption DEF Limit
<1> QED
  BY <1>1, <1>2, <1>3

(* What is left of the invariant outside the states in which files are sent. *)
LEMMA NoFileKeeps ==
    ASSUME TypeOKFiles', CountedAreCurrent', login' \notin {"files", "data"},
           login' \in {"new", "listing"} => counted' = NoCount,
           login' = "again" => stale' = {}
    PROVE  FilesInv'
BY DEF FilesInv, JobIsNext, NoneCounted, WithinFile, TransferIsSound, EndMeansCurrent,
   SendingIsNotTimed

(* A file is asked for or sent: of the counts nothing changes.             *)
LEMMA FileServedKeeps ==
    ASSUME FilesInv, login \in {"files", "data"}, login' \in {"files", "data"},
           UNCHANGED <<stale, job, counted, frames>>,
           fileno' \in 0 .. Files, at' \in Nat, waiting' \in BOOLEAN,
           login' = "data" => fileno' < Files /\ at' <= Sizes[fileno'] /\ ~waiting'
    PROVE  FilesInv'
<1>1. TypeOKFiles'
  BY TypesAre, TypesWillBe DEF Typed, FilesInv, Logins
<1>2. CountedAreCurrent' /\ JobIsNext'
  BY DEF FilesInv, CountedAreCurrent, JobIsNext
<1> QED
  BY <1>1, <1>2 DEF FilesInv, NoneCounted, WithinFile, TransferIsSound, EndMeansCurrent,
     SendingIsNotTimed

LEMMA FilesStep == FilesInv /\ [NextFiles]_fileVars => FilesInv'
<1> SUFFICES ASSUME FilesInv, [NextFiles]_fileVars PROVE FilesInv'
  OBVIOUS
<1>a. /\ stale \subseteq Installed /\ job \in Installed
      /\ fileno \in 0 .. Files /\ at \in Nat /\ counted \in Counts
      /\ waiting \in BOOLEAN /\ frames \in 0 .. LoginTimeout - 1
      /\ login \in Logins
  BY TypesAre DEF Typed, FilesInv
<1>b. CountedAreCurrent /\ Files \in Nat /\ 0 \in 0 .. Files /\ 0 \in 0 .. LoginTimeout - 1
  BY SizesAssumption, ChunkAssumption DEF FilesInv
<1>1. CASE AskList
  <2>1. TypeOKFiles'
    BY <1>1, <1>a, <1>b, CountStarts, TypesWillBe DEF Typed, AskList, Logins
  <2>2. CountedAreCurrent'
    BY <1>1, <1>a, CountStarts DEF AskList, CountedAreCurrent
  <2> QED
    BY <1>1, <2>1, <2>2, NoFileKeeps DEF AskList
<1>2. CASE ListAccepted
  <2>1. TypeOKFiles'
    BY <1>2, <1>a, <1>b, CountStarts, TypesWillBe DEF Typed, ListAccepted, Logins
  <2>2. CountedAreCurrent'
    BY <1>2 DEF ListAccepted, CountedAreCurrent
  <2> QED
    BY <1>2, <2>1, <2>2, NoFileKeeps DEF ListAccepted
<1>3. CASE ListRefused
  BY <1>3, ListRefusedStep
<1>4. CASE FileHash
  <2>1. /\ login = "files" /\ fileno \in 0 .. Files - 1 /\ waiting' = FALSE
        /\ UNCHANGED <<stale, job, counted, frames>>
    BY <1>4, <1>a, <1>b DEF FileHash, WaitsNoMore
  <2>2. CASE login' = "data" /\ at' = 0 /\ fileno' = fileno
    <3>1. 0 <= Sizes[fileno]
      BY <2>1, SizesAssumption
    <3>2. fileno' \in 0 .. Files /\ at' \in Nat /\ waiting' \in BOOLEAN
      BY <1>a, <2>1, <2>2
    <3>3. fileno' < Files /\ at' <= Sizes[fileno'] /\ ~waiting'
      BY <2>1, <2>2, <3>1, <1>b
    <3> QED
      BY <2>1, <2>2, <3>2, <3>3, FileServedKeeps
  <2>3. CASE fileno' = fileno + 1 /\ login' = login /\ at' = at
    <3>1. fileno' \in 0 .. Files
      BY <2>1, <2>3, <1>b
    <3> QED
      BY <2>1, <2>3, <3>1, FileServedKeeps, <1>a
  <2> QED
    BY <1>4, <2>2, <2>3 DEF FileHash
<1>5. CASE FileData
  <2>1. /\ login = "data" /\ fileno \in 0 .. Files - 1 /\ Sizes[fileno] \in Nat
        /\ at <= Sizes[fileno] /\ ~waiting
    BY <1>5, <1>a, SizesAssumption
    DEF FileData, FilesInv, WithinFile, TransferIsSound, SendingIsNotTimed
  <2>2. at' \in Nat /\ at' <= Sizes[fileno]
    BY <1>5, <1>a, <2>1, ChunkAssumption DEF FileData, ReadAt
  <2>3. UNCHANGED <<stale, job, counted, waiting, frames>>
    BY <1>5 DEF FileData
  <2>4. CASE login' = "files" /\ fileno' = fileno + 1
    <3>1. fileno' \in 0 .. Files
      BY <2>1, <2>4, <1>b
    <3> QED
      BY <1>a, <2>1, <2>2, <2>3, <2>4, <3>1, FileServedKeeps
  <2>5. CASE login' = login /\ fileno' = fileno
    <3>1. fileno' \in 0 .. Files /\ at' \in Nat /\ waiting' \in BOOLEAN
      BY <1>a, <2>2, <2>3, <2>5
    <3>2. fileno' < Files /\ at' <= Sizes[fileno'] /\ ~waiting'
      BY <2>1, <2>2, <2>3, <2>5, <1>b
    <3> QED
      BY <2>1, <2>3, <2>5, <3>1, <3>2, FileServedKeeps
  <2> QED
    BY <1>5, <2>4, <2>5 DEF FileData
<1>6. CASE ScriptSent
  BY <1>6, ScriptSentStep
<1>7. CASE FileRefused
  <2>1. TypeOKFiles' /\ CountedAreCurrent'
    BY <1>7, <1>a, <1>b, TypesWillBe DEF Typed, FileRefused, WaitsNoMore, Logins, CountedAreCurrent
  <2> QED
    BY <1>7, <2>1, NoFileKeeps DEF FileRefused
<1>8. CASE WaitFrame
  <2>1. (frames + 1) % LoginTimeout \in 0 .. LoginTimeout - 1
    BY <1>a, ChunkAssumption
  <2>2. TypeOKFiles'
    BY <1>8, <1>a, <2>1, TypesWillBe DEF Typed, WaitFrame
  <2> QED
    BY <1>8, <2>2 DEF WaitFrame, FilesInv, CountedAreCurrent, JobIsNext, NoneCounted,
       WithinFile, TransferIsSound, EndMeansCurrent, SendingIsNotTimed
<1>9. CASE HangUp
  <2>1. TypeOKFiles'
    BY <1>9, <1>b, CountStarts, TypesWillBe DEF Typed, HangUp, Logins
  <2>2. CountedAreCurrent'
    BY <1>9, CountStarts DEF HangUp, CountedAreCurrent
  <2> QED
    BY <1>9, <2>1, <2>2, NoFileKeeps DEF HangUp
<1>10. CASE UNCHANGED fileVars
  BY <1>10 DEF fileVars, FilesInv, TypeOKFiles, CountedAreCurrent, JobIsNext, NoneCounted,
     WithinFile, TransferIsSound, EndMeansCurrent, SendingIsNotTimed
<1> QED
  BY <1>1, <1>2, <1>3, <1>4, <1>5, <1>6, <1>7, <1>8, <1>9, <1>10 DEF NextFiles, Serve

LEMMA FilesStart == InitFiles => FilesInv
<1> SUFFICES ASSUME InitFiles PROVE FilesInv
  OBVIOUS
<1>1. 0 \in 0 .. Files /\ 0 \in 0 .. LoginTimeout - 1
  BY SizesAssumption, ChunkAssumption
<1>2. TypeOKFiles
  BY <1>1, CountStarts, TypesAre DEF Typed, InitFiles, Logins
<1>3. CountedAreCurrent
  BY CountStarts DEF InitFiles, CountedAreCurrent
<1> QED
  BY <1>2, <1>3 DEF InitFiles, FilesInv, JobIsNext, NoneCounted, WithinFile, TransferIsSound,
     EndMeansCurrent, SendingIsNotTimed

(* A client is told that all is sent only when none of its scripts differs, *)
(* although CheckNextHash walks by counts and starts in the middle; and the *)
(* login timeout does not run while a file is on its way.                  *)
THEOREM TransfersAreSound == SpecFiles => [](TypeOKFiles /\ TransferIsSound)
<1>1. FilesInv => TypeOKFiles /\ TransferIsSound
  BY DEF FilesInv
<1> QED
  BY <1>1, FilesStart, FilesStep, PTL DEF SpecFiles

(* PacketSendFileData ends a file only at its last byte, whatever its size. *)
THEOREM FilesAreWhole == SpecFiles => FileIsWhole
<1>1. ASSUME FilesInv, [NextFiles]_fileVars, login = "data", login' = "files"
      PROVE  at' = Sizes[fileno]
  <2>1. FileData
    BY <1>1 DEF NextFiles, Serve, AskList, ListAccepted, ListRefused, FileHash, ScriptSent,
       FileRefused, WaitFrame, HangUp, fileVars
  <2>2. Sizes[fileno] \in Nat /\ at \in Nat
    BY <1>1, SizesAssumption DEF FilesInv, TypeOKFiles, WithinFile
  <2> QED
    BY <1>1, <2>1, <2>2, ChunkAssumption DEF FileData, IsEof, ReadAt
<1>2. FilesInv /\ [NextFiles]_fileVars
        => [login = "data" /\ login' = "files" => at' = Sizes[fileno]]_fileVars
  BY <1>1
<1> QED
  BY <1>2, FilesStart, FilesStep, PTL DEF SpecFiles, FileIsWhole

(***************************************************************************)
(* The table of flying objects.                                            *)
(***************************************************************************)

Objects == [removed : BOOLEAN, fresh : BOOLEAN, state : States, type : Types, item : BOOLEAN]
Tales   == [made : {TRUE}, gone : {0, 1}, state : States, type : Types]

(* What the clients were told of object n agrees with the table: a number   *)
(* was told of exactly if it was given, the object is gone for them exactly *)
(* if it is flagged or erased, and a live object's state and type are known *)
(* or about to be told.                                                    *)
Agrees(n) ==
    /\ n \in Keys => n < counter /\ objs[n] \in Objects
    /\ IF n < counter THEN told[n] \in Tales ELSE told[n] = Unknown
    /\ n < counter => told[n].gone = IF n \in Keys /\ ~Removed(n) THEN 0 ELSE 1
    /\ n \in Keys /\ ~Removed(n) =>
         /\ told[n].state = objs[n].state
         /\ told[n].type = objs[n].type \/ objs[n].fresh

(* What the table, the clients and the walk are like.  Inside the walk that *)
(* erases the list is old, and dirty then; and nothing but a visit keeps an *)
(* object in hand.                                                         *)
TableAgrees ==
    /\ counter \in 0 .. MaxMade /\ Keys \subseteq Numbers /\ DOMAIN told = Numbers
    /\ \A n \in Numbers : Agrees(n)

ListIsOld ==
    /\ dirty \in BOOLEAN /\ (dirty => walk = "turn_end") /\ (dirty \/ list = Keys)
    /\ list \subseteq Numbers

HandIsEmpty ==
    /\ walk \in Walks \cup {"shooting", "none"} /\ todo \subseteq Numbers /\ calls \in BOOLEAN
    /\ walk \in {"shooting", "none"} => cur = NoObject
    /\ VisitedStays

BulletInv == TableAgrees /\ ListIsOld /\ HandIsEmpty

LEMMA NumbersAre == Numbers \subseteq Nat /\ NoObject \notin Numbers
<1>1. MaxMade - 1 \in Int
  BY BulletsAssumption
<1>2. ASSUME NEW n \in Numbers PROVE n \in Nat
  BY <1>1 DEF Numbers
<1> QED
  BY <1>2, BulletsAssumption

LEMMA ObjectsDoAgree == BulletInv => ObjectsAgree
<1> SUFFICES ASSUME BulletInv PROVE ObjectsAgree
  OBVIOUS
<1>1. VisitedStays /\ ListExact
  BY DEF BulletInv, HandIsEmpty, ListIsOld, ListExact
<1>2. ASSUME NEW n \in Numbers
      PROVE  /\ told[n].made <=> n < counter
             /\ n < counter => told[n].gone = IF n \in Keys /\ ~Removed(n) THEN 0 ELSE 1
             /\ n \in Keys /\ ~Removed(n) => told[n].state = objs[n].state
  <2>1. Agrees(n)
    BY DEF BulletInv, TableAgrees
  <2>2. CASE n < counter
    <3>1. told[n].made = TRUE
      BY <2>1, <2>2 DEF Agrees, Tales
    <3> QED
      BY <2>1, <2>2, <3>1 DEF Agrees
  <2>3. CASE ~(n < counter)
    <3>1. told[n].made = FALSE
      BY <2>1, <2>3 DEF Agrees, Unknown
    <3> QED
      BY <2>1, <2>3, <3>1 DEF Agrees
  <2> QED
    BY <2>2, <2>3
<1>3. TypeIsKnown
  BY DEF BulletInv, TableAgrees, Agrees, TypeIsKnown
<1> QED
  BY <1>1, <1>2, <1>3 DEF ObjectsAgree, ClientsAgree

LEMMA BulletsStart == InitBullets => BulletInv
<1> SUFFICES ASSUME InitBullets PROVE BulletInv
  OBVIOUS
<1>1. Keys = {}
  BY DEF InitBullets, Keys
<1>a. counter = 0 /\ counter \in 0 .. MaxMade /\ told = [n \in Numbers |-> Unknown]
  BY BulletsAssumption DEF InitBullets
<1>b. ASSUME NEW n \in Numbers PROVE Agrees(n)
  <2>1. ~(n < counter) /\ n \notin Keys /\ told[n] = Unknown
    BY <1>1, <1>a, NumbersAre
  <2> QED
    BY <2>1 DEF Agrees
<1>2. TableAgrees
  BY <1>1, <1>a, <1>b DEF TableAgrees
<1> QED
  BY <1>1, <1>2 DEF InitBullets, BulletInv, ListIsOld, HandIsEmpty, VisitedStays

-----------------------------------------------------------------------------
(* The table changes at one object, or at none. *)

LEMMA NoneChanges ==
    ASSUME TableAgrees, UNCHANGED <<objs, counter, told>>
    PROVE  TableAgrees' /\ Keys' = Keys
BY DEF TableAgrees, Agrees, Keys, Removed

LEMMA OneChanges ==
    ASSUME TableAgrees, counter' = counter, NEW n \in Keys, Keys' = Keys,
           DOMAIN told' = Numbers,
           \A m \in Keys \ {n} : objs'[m] = objs[m],
           \A m \in Numbers \ {n} : told'[m] = told[m],
           Agrees(n)'
    PROVE  TableAgrees'
BY DEF TableAgrees, Agrees, Removed

(* What a live object is like for the clients.                             *)
LEMMA LiveIs ==
    ASSUME TableAgrees, NEW n \in Keys
    PROVE  /\ n \in Numbers /\ n < counter /\ objs[n] \in Objects /\ told[n] \in Tales
           /\ Removed(n) \in BOOLEAN
           /\ ~Removed(n) => /\ told[n].gone = 0 /\ told[n].state = objs[n].state
                             /\ told[n].type = objs[n].type \/ objs[n].fresh
BY DEF TableAgrees, Agrees, Removed, Objects

(* An object that is flagged while the clients are told it is gone.        *)
LEMMA FlaggedAgrees ==
    ASSUME TableAgrees, NEW n \in Keys, counter' = counter, n \in Keys',
           objs'[n] \in Objects, objs'[n].removed = TRUE,
           told'[n] \in Tales, told'[n].gone = 1
    PROVE  Agrees(n)'
BY LiveIs DEF Agrees, Removed

(* One field of an object or of a tale changes.                            *)
Flagged(o, p)     == p = [o EXCEPT !.removed = TRUE]
Sent(o, p)        == p = [o EXCEPT !.fresh = FALSE]
InState(o, p, s)  == p = [o EXCEPT !.state = s]
TakenAway(t, u)   == u = [t EXCEPT !.gone = 1]
TypeIs(t, u, x)   == u = [t EXCEPT !.type = x]

LEMMA FlaggedObject ==
    ASSUME NEW o \in Objects, NEW p, Flagged(o, p)
    PROVE  p \in Objects /\ p.removed = TRUE /\ p.type \in Types
BY DEF Objects, Flagged

LEMMA SentObject ==
    ASSUME NEW o \in Objects, NEW p, Sent(o, p)
    PROVE  p \in Objects /\ p.removed = o.removed /\ p.state = o.state /\ p.type = o.type
BY DEF Objects, Sent

LEMMA ObjectInState ==
    ASSUME NEW o \in Objects, NEW p, NEW s \in States, InState(o, p, s)
    PROVE  /\ p \in Objects /\ p.removed = o.removed /\ p.state = s /\ p.type = o.type
           /\ p.fresh = o.fresh
BY DEF Objects, InState

LEMMA TaleTakenAway ==
    ASSUME NEW t \in Tales, NEW u, TakenAway(t, u)
    PROVE  u \in Tales /\ u.gone = 1
BY DEF Tales, TakenAway

LEMMA TaleOfType ==
    ASSUME NEW t \in Tales, NEW u, NEW x \in Types, TypeIs(t, u, x)
    PROVE  u \in Tales /\ u.gone = t.gone /\ u.state = t.state /\ u.type = x
BY DEF Tales, TypeIs

LEMMA TaleInState ==
    ASSUME NEW t \in Tales, NEW u, NEW s \in States, InState(t, u, s)
    PROVE  u \in Tales /\ u.gone = t.gone /\ u.state = s /\ u.type = t.type
BY DEF Tales, InState

LEMMA FieldsOf ==
    ASSUME NEW o \in Objects
    PROVE  /\ o.type \in Types /\ o.state \in States /\ o.removed \in BOOLEAN
           /\ o.fresh \in BOOLEAN
BY DEF Objects

LEMMA ObjectRemoved ==
    ASSUME TableAgrees, NEW n \in Keys, counter' = counter, RemoveObject(n)
    PROVE  TableAgrees' /\ Keys' = Keys /\ list' = list
<1>1. /\ objs' = [objs EXCEPT ![n].removed = TRUE] /\ told' = [told EXCEPT ![n].gone = @ + 1]
      /\ ~Removed(n) /\ list' = list
  BY DEF RemoveObject, Gone
<1>2. n \in Numbers /\ objs[n] \in Objects /\ told[n] \in Tales /\ told[n].gone = 0
  BY <1>1, LiveIs
<1>3. /\ Keys' = Keys /\ DOMAIN told' = Numbers
      /\ \A m \in Keys \ {n} : objs'[m] = objs[m]
      /\ \A m \in Numbers \ {n} : told'[m] = told[m]
      /\ Flagged(objs[n], objs'[n]) /\ TakenAway(told[n], told'[n])
  BY <1>1, <1>2 DEF Keys, TableAgrees, Flagged, TakenAway
<1>4. objs'[n] \in Objects /\ objs'[n].removed = TRUE
  BY <1>2, <1>3, FlaggedObject
<1>5. told'[n] \in Tales /\ told'[n].gone = 1
  BY <1>2, <1>3, TaleTakenAway
<1>6. Agrees(n)'
  BY <1>3, <1>4, <1>5, FlaggedAgrees
<1> QED
  BY <1>1, <1>3, <1>6, OneChanges

LEMMA ObjectErased ==
    ASSUME TableAgrees, NEW n \in Keys, Removed(n), UNCHANGED <<counter, told>>,
           objs' = Erased(objs, n)
    PROVE  TableAgrees' /\ Keys' = Keys \ {n}
<1>1. Keys' = Keys \ {n} /\ \A m \in Keys' : objs'[m] = objs[m]
  BY DEF Erased, Keys
<1> QED
  BY <1>1 DEF TableAgrees, Agrees, Removed

LEMMA ObjectAdded ==
    ASSUME TableAgrees, NEW type \in Types, NEW item \in BOOLEAN, Added(type, item)
    PROVE  TableAgrees' /\ Keys \subseteq Keys' /\ list' = Keys'
<1> DEFINE new  == [removed |-> FALSE, fresh |-> FALSE, state |-> "ACTIVE", type |-> type,
                    item |-> item]
           tale == [made |-> TRUE, gone |-> 0, state |-> "ACTIVE", type |-> type]
<1>1. /\ counter \in Numbers /\ counter' = counter + 1 /\ counter' \in 0 .. MaxMade
      /\ list' = Keys \cup {counter}
      /\ told' = [told EXCEPT ![counter] = tale]
      /\ objs' = [n \in Keys \cup {counter} |-> IF n = counter THEN new ELSE objs[n]]
  <2>1. counter \in Nat /\ counter < MaxMade /\ counter' = counter + 1 /\ MaxMade \in Nat
    BY BulletsAssumption DEF Added, TableAgrees
  <2>2. counter \in Numbers /\ counter' \in 0 .. MaxMade
    BY <2>1 DEF Numbers
  <2> QED
    BY <2>1, <2>2 DEF Added
<1>2. new \in Objects /\ new.removed = FALSE
  BY DEF Objects, States
<1>3. tale \in Tales /\ tale.gone = 0 /\ tale.state = new.state /\ tale.type = new.type
  BY DEF Tales, States
<1> HIDE DEF new, tale
<1>4. /\ Keys' = Keys \cup {counter} /\ DOMAIN told' = Numbers
      /\ objs'[counter] = new /\ told'[counter] = tale
      /\ \A m \in Keys \ {counter} : objs'[m] = objs[m]
      /\ \A m \in Numbers \ {counter} : told'[m] = told[m]
  BY <1>1 DEF Keys, TableAgrees
<1>5. ASSUME NEW m \in Numbers PROVE Agrees(m)'
  <2>1. m \in Nat /\ counter \in Nat
    BY <1>1, NumbersAre
  <2>2. CASE m = counter
    BY <1>1, <1>2, <1>3, <1>4, <2>1, <2>2 DEF Agrees, Removed
  <2>3. CASE m # counter
    <3>1. m < counter' <=> m < counter
      BY <1>1, <2>1, <2>3
    <3>2. Agrees(m)
      BY DEF TableAgrees
    <3>3. told'[m] = told[m] /\ (m \in Keys' <=> m \in Keys) /\ (m \in Keys => objs'[m] = objs[m])
      BY <1>4, <2>3
    <3> QED
      BY <3>1, <3>2, <3>3 DEF Agrees, Removed
  <2> QED
    BY <2>2, <2>3
<1> QED
  BY <1>1, <1>4, <1>5 DEF TableAgrees

(* FrameObjects tells a new type of the object it has moved; an item bullet *)
(* that has hit is flagged before.                                         *)
LEMMA ObjectMoved ==
    ASSUME TableAgrees, NEW n \in Keys, ~Removed(n), counter' = counter,
           objs' = [objs EXCEPT ![n].fresh = FALSE],
           told' = IF objs[n].fresh THEN [told EXCEPT ![n].type = objs[n].type] ELSE told
    PROVE  TableAgrees' /\ Keys' = Keys
<1>1. /\ n \in Numbers /\ n < counter /\ objs[n] \in Objects /\ told[n] \in Tales
      /\ told[n].gone = 0 /\ told[n].state = objs[n].state
      /\ told[n].type = objs[n].type \/ objs[n].fresh
  BY LiveIs
<1>2. /\ Keys' = Keys /\ DOMAIN told' = Numbers
      /\ \A m \in Keys \ {n} : objs'[m] = objs[m]
      /\ \A m \in Numbers \ {n} : told'[m] = told[m]
      /\ Sent(objs[n], objs'[n])
      /\ IF objs[n].fresh THEN TypeIs(told[n], told'[n], objs[n].type) ELSE told'[n] = told[n]
  BY <1>1 DEF Keys, TableAgrees, Sent, TypeIs
<1>3. objs[n].type \in Types /\ objs[n].state \in States
  BY <1>1, FieldsOf
<1>4. /\ objs'[n] \in Objects /\ objs'[n].removed = objs[n].removed
      /\ objs'[n].state = objs[n].state /\ objs'[n].type = objs[n].type
  BY <1>1, <1>2, SentObject
<1>5. /\ told'[n] \in Tales /\ told'[n].gone = 0 /\ told'[n].state = told[n].state
      /\ told'[n].type = objs[n].type
  BY <1>1, <1>2, <1>3, TaleOfType
<1>6. Agrees(n)'
  BY <1>1, <1>2, <1>4, <1>5 DEF Agrees, Removed
<1> QED
  BY <1>2, <1>6, OneChanges

LEMMA ObjectHit ==
    ASSUME TableAgrees, NEW n \in Keys, ~Removed(n), counter' = counter, cur = n,
           TypeTold([objs EXCEPT ![n].removed = TRUE], Gone(n))
    PROVE  TableAgrees' /\ Keys' = Keys
<1> DEFINE o == [objs EXCEPT ![n].removed = TRUE]
           t == Gone(n)
<1>1. /\ n \in Numbers /\ objs[n] \in Objects /\ told[n] \in Tales /\ told[n].gone = 0
  BY LiveIs
<1>2. /\ DOMAIN o = Keys /\ DOMAIN t = Numbers
      /\ \A m \in Keys \ {n} : o[m] = objs[m]
      /\ \A m \in Numbers \ {n} : t[m] = told[m]
      /\ Flagged(objs[n], o[n]) /\ TakenAway(told[n], t[n])
  BY <1>1 DEF Keys, TableAgrees, Gone, Flagged, TakenAway
<1>3. o[n] \in Objects /\ o[n].removed = TRUE /\ o[n].type \in Types
  BY <1>1, <1>2, FlaggedObject
<1>4. t[n] \in Tales /\ t[n].gone = 1
  BY <1>1, <1>2, TaleTakenAway
<1>5. /\ objs' = [o EXCEPT ![n].fresh = FALSE]
      /\ told' = IF o[n].fresh THEN [t EXCEPT ![n].type = o[n].type] ELSE t
  BY DEF TypeTold
<1> HIDE DEF o, t
<1>6. /\ Keys' = Keys /\ DOMAIN told' = Numbers
      /\ \A m \in Keys \ {n} : objs'[m] = objs[m]
      /\ \A m \in Numbers \ {n} : told'[m] = told[m]
      /\ Sent(o[n], objs'[n])
      /\ IF o[n].fresh THEN TypeIs(t[n], told'[n], o[n].type) ELSE told'[n] = t[n]
  BY <1>1, <1>2, <1>5 DEF Keys, Sent, TypeIs
<1>7. objs'[n] \in Objects /\ objs'[n].removed = TRUE
  BY <1>3, <1>6, SentObject
<1>8. told'[n] \in Tales /\ told'[n].gone = 1
  BY <1>3, <1>4, <1>6, TaleOfType
<1>9. Agrees(n)'
  BY <1>6, <1>7, <1>8, FlaggedAgrees
<1> QED
  BY <1>6, <1>9, OneChanges

LEMMA ObjectDropped ==
    ASSUME TableAgrees, NEW n \in Keys, ~Removed(n), counter' = counter,
           objs' = [objs EXCEPT ![n].removed = TRUE, ![n].fresh = FALSE], told' = Gone(n)
    PROVE  TableAgrees' /\ Keys' = Keys
<1> DEFINE o == [objs EXCEPT ![n].removed = TRUE]
<1>1. /\ n \in Numbers /\ objs[n] \in Objects /\ told[n] \in Tales /\ told[n].gone = 0
  BY LiveIs
<1>2. DOMAIN o = Keys /\ Flagged(objs[n], o[n]) /\ \A m \in Keys \ {n} : o[m] = objs[m]
  BY DEF Keys, Flagged
<1>3. objs' = [o EXCEPT ![n].fresh = FALSE]
  OBVIOUS
<1> HIDE DEF o
<1>a. /\ Keys' = Keys /\ Sent(o[n], objs'[n])
      /\ \A m \in Keys \ {n} : objs'[m] = objs[m]
  <2>1. n \in DOMAIN o
    BY <1>2
  <2>2. DOMAIN objs' = DOMAIN o /\ objs'[n] = [o[n] EXCEPT !.fresh = FALSE]
    BY <1>3, <2>1
  <2>3. \A m \in Keys \ {n} : objs'[m] = o[m]
    BY <1>2, <1>3
  <2> QED
    BY <1>2, <2>2, <2>3 DEF Keys, Sent
<1>b. /\ DOMAIN told' = Numbers /\ TakenAway(told[n], told'[n])
      /\ \A m \in Numbers \ {n} : told'[m] = told[m]
  BY <1>1 DEF TableAgrees, Gone, TakenAway
<1>4. /\ Keys' = Keys /\ DOMAIN told' = Numbers
      /\ \A m \in Keys \ {n} : objs'[m] = objs[m]
      /\ \A m \in Numbers \ {n} : told'[m] = told[m]
      /\ Sent(o[n], objs'[n]) /\ TakenAway(told[n], told'[n])
  BY <1>a, <1>b
<1>5. o[n] \in Objects /\ o[n].removed = TRUE
  BY <1>1, <1>2, FlaggedObject
<1>6. objs'[n] \in Objects /\ objs'[n].removed = TRUE
  BY <1>4, <1>5, SentObject
<1>7. told'[n] \in Tales /\ told'[n].gone = 1
  BY <1>1, <1>4, TaleTakenAway
<1>8. Agrees(n)'
  BY <1>4, <1>6, <1>7, FlaggedAgrees
<1> QED
  BY <1>4, <1>8, OneChanges

LEMMA ObjectRests ==
    ASSUME TableAgrees, NEW n \in Keys, NEW s \in States, ~Removed(n), counter' = counter,
           objs' = [objs EXCEPT ![n].state = s], told' = [told EXCEPT ![n].state = s]
    PROVE  TableAgrees' /\ Keys' = Keys
<1>1. /\ n \in Numbers /\ n < counter /\ objs[n] \in Objects /\ told[n] \in Tales
      /\ told[n].gone = 0
      /\ told[n].type = objs[n].type \/ objs[n].fresh
  BY LiveIs
<1>2. /\ Keys' = Keys /\ DOMAIN told' = Numbers
      /\ \A m \in Keys \ {n} : objs'[m] = objs[m]
      /\ \A m \in Numbers \ {n} : told'[m] = told[m]
      /\ InState(objs[n], objs'[n], s) /\ InState(told[n], told'[n], s)
  BY <1>1 DEF Keys, TableAgrees, InState
<1>3. /\ objs'[n] \in Objects /\ objs'[n].removed = objs[n].removed /\ objs'[n].state = s
      /\ objs'[n].type = objs[n].type /\ objs'[n].fresh = objs[n].fresh
  BY <1>1, <1>2, ObjectInState
<1>4. /\ told'[n] \in Tales /\ told'[n].gone = 0 /\ told'[n].state = s
      /\ told'[n].type = told[n].type
  <2>1. told[n] \in Tales /\ InState(told[n], told'[n], s)
    BY <1>1, <1>2
  <2>2. /\ told'[n] \in Tales /\ told'[n].gone = told[n].gone /\ told'[n].state = s
        /\ told'[n].type = told[n].type
    BY <2>1, TaleInState
  <2> QED
    BY <1>1, <2>2
<1>5. Agrees(n)'
  BY <1>1, <1>2, <1>3, <1>4 DEF Agrees, Removed
<1> QED
  BY <1>2, <1>5, OneChanges

(* A new type is marked, unless the object is flagged.                     *)
Retyped(o, p, t) == p = [[o EXCEPT !.type = t] EXCEPT !.fresh = o.fresh \/ ~o.removed]

LEMMA RetypedObject ==
    ASSUME NEW o \in Objects, NEW p, NEW t \in Types, Retyped(o, p, t)
    PROVE  /\ p \in Objects /\ p.removed = o.removed /\ p.state = o.state
           /\ ~o.removed => p.fresh
BY DEF Objects, Retyped

LEMMA ObjectRetyped ==
    ASSUME TableAgrees, NEW n \in Keys, NEW t \in Types, UNCHANGED <<counter, told>>,
           objs' = TypeSet(n, t)
    PROVE  TableAgrees' /\ Keys' = Keys
<1>1. n \in Numbers /\ objs[n] \in Objects /\ Agrees(n)
  BY LiveIs DEF TableAgrees
<1>2. /\ Keys' = Keys /\ Retyped(objs[n], objs'[n], t)
      /\ \A m \in Keys \ {n} : objs'[m] = objs[m]
  <2> DEFINE o == [objs EXCEPT ![n].type = t]
             f == objs[n].fresh \/ ~objs[n].removed
  <2>1. /\ DOMAIN o = Keys /\ o[n] = [objs[n] EXCEPT !.type = t]
        /\ \A m \in Keys \ {n} : o[m] = objs[m]
    BY DEF Keys
  <2>2. o[n].fresh = objs[n].fresh
    BY <1>1, <2>1 DEF Objects
  <2>3. objs' = [o EXCEPT ![n].fresh = @ \/ ~Removed(n)]
    BY DEF TypeSet
  <2> HIDE DEF o
  <2>4. objs' = [o EXCEPT ![n].fresh = f]
    BY <2>2, <2>3 DEF Removed
  <2> HIDE DEF f
  <2>5. /\ Keys' = Keys /\ objs'[n] = [o[n] EXCEPT !.fresh = f]
        /\ \A m \in Keys \ {n} : objs'[m] = objs[m]
    BY <2>1, <2>4 DEF Keys
  <2> QED
    BY <2>1, <2>5 DEF Retyped, f
<1>3. /\ objs'[n] \in Objects /\ objs'[n].removed = objs[n].removed
      /\ objs'[n].state = objs[n].state /\ (~objs[n].removed => objs'[n].fresh)
  BY <1>1, <1>2, RetypedObject
<1>4. Agrees(n)'
  BY <1>1, <1>2, <1>3 DEF Agrees, Removed
<1> QED
  BY <1>2, <1>4, OneChanges DEF TableAgrees

-----------------------------------------------------------------------------
(* The next object of a walk. *)

LEMMA FirstIsIn ==
    ASSUME NEW S \in SUBSET Numbers, S # {}
    PROVE  First(S) \in S /\ \A m \in S : First(S) <= m
<1>1. \E n \in S : \A m \in S : n <= m
  BY NumbersAre, LeastNumber
<1> QED
  BY <1>1 DEF First

-----------------------------------------------------------------------------
(* The steps. *)

(* A step of a script, or a shot, changes the table and leaves the walk.    *)
LEMMA WalkGoesOn ==
    ASSUME BulletInv, TableAgrees', Keys \subseteq Keys',
           (list' = Keys' \/ (dirty /\ list' = list)),
           UNCHANGED <<walk, todo, cur, calls, dirty>>
    PROVE  BulletInv'
<1>1. ListIsOld'
  <2>1. Numbers' = Numbers
    BY DEF Numbers
  <2> QED
    BY <2>1 DEF BulletInv, ListIsOld, TableAgrees
<1> QED
  BY <1>1 DEF BulletInv, HandIsEmpty, VisitedStays

LEMMA ScriptsStep == ASSUME BulletInv, Scripts PROVE BulletInv'
<1> USE DEF BulletInv
<1>1. ASSUME NEW t \in Types, AddObject(t) PROVE BulletInv'
  BY <1>1, ObjectAdded, WalkGoesOn DEF AddObject
<1>2. ASSUME NEW n \in Numbers, ScriptRemoves(n) PROVE BulletInv'
  BY <1>2, ObjectRemoved, WalkGoesOn DEF ScriptRemoves, ListIsOld
<1>3. ASSUME NEW n \in Numbers, NEW s \in States, UpdateObjectState(n, s) PROVE BulletInv'
  BY <1>3, ObjectRests, WalkGoesOn DEF UpdateObjectState, ListIsOld
<1>4. ASSUME NEW n \in Numbers, NEW t \in Types, UpdateObjType(n, t) PROVE BulletInv'
  BY <1>4, ObjectRetyped, WalkGoesOn DEF UpdateObjType, ListIsOld
<1> QED
  BY <1>1, <1>2, <1>3, <1>4 DEF Scripts

LEMMA ShotsStep == ASSUME BulletInv, Shots PROVE BulletInv'
<1> USE DEF BulletInv
<1>1. CASE ShootingBegins \/ ShootingEnds
  <2>1. TableAgrees' /\ Keys' = Keys
    BY <1>1, NoneChanges DEF ShootingBegins, ShootingEnds
  <2> QED
    BY <1>1, <2>1
    DEF ShootingBegins, ShootingEnds, ListIsOld, HandIsEmpty, VisitedStays, Walks
<1>2. ASSUME NEW t \in Types, ShootItem(t) PROVE BulletInv'
  BY <1>2, ObjectAdded, WalkGoesOn DEF ShootItem
<1> QED
  BY <1>1, <1>2 DEF Shots

(* A step of a walk with nothing in hand afterwards.                        *)
LEMMA HandEmptied ==
    ASSUME BulletInv, TableAgrees', cur' = NoObject, walk' = walk, calls' = calls,
           todo' \subseteq todo, ListIsOld'
    PROVE  BulletInv'
BY DEF BulletInv, HandIsEmpty, VisitedStays

LEMMA FrameStep ==
    ASSUME BulletInv, FrameFindsRemoved \/ FrameDrops \/ FrameMoves \/ FrameHits
    PROVE  BulletInv'
<1> USE DEF BulletInv
<1>1. /\ cur \in Keys /\ counter' = counter /\ cur' = NoObject
      /\ UNCHANGED <<walk, calls, todo, dirty, list>> /\ walk = "frame"
  BY DEF FrameFindsRemoved, FrameDrops, FrameMoves, FrameHits, HandIsEmpty, VisitedStays
<1>2. TableAgrees' /\ Keys' = Keys
  <2>1. CASE FrameFindsRemoved
    BY <2>1, NoneChanges DEF FrameFindsRemoved
  <2>2. CASE FrameDrops
    BY <1>1, <2>2, ObjectDropped DEF FrameDrops
  <2>3. CASE FrameMoves
    BY <1>1, <2>3, ObjectMoved DEF FrameMoves, TypeTold
  <2>4. CASE FrameHits
    BY <1>1, <2>4, ObjectHit DEF FrameHits
  <2> QED
    BY <2>1, <2>2, <2>3, <2>4
<1>3. ListIsOld'
  BY <1>1, <1>2 DEF ListIsOld
<1> QED
  BY <1>1, <1>2, <1>3, HandEmptied

(* The walk takes a visited object in hand.                                *)
LEMMA VisitStep ==
    ASSUME BulletInv, NEW n \in Keys, Visit(n), walk \notin {"shooting", "none"},
           UNCHANGED <<objs, list, counter, walk, calls, dirty, told>>
    PROVE  BulletInv'
<1>1. TableAgrees' /\ Keys' = Keys
  BY NoneChanges DEF BulletInv
<1> QED
  BY <1>1 DEF BulletInv, Visit, ListIsOld, HandIsEmpty, VisitedStays

LEMMA VisitsStep == ASSUME BulletInv, FrameVisits \/ NotifyVisits PROVE BulletInv'
<1>0. Keys \subseteq Numbers
  BY DEF BulletInv, TableAgrees
<1>1. CASE FrameVisits
  <2> DEFINE S == {n \in todo \cap Keys : ~Removed(n)}
  <2>1. First(S) \in Keys
    BY <1>0, <1>1, FirstIsIn DEF FrameVisits
  <2> QED
    BY <1>1, <2>1, VisitStep DEF FrameVisits
<1>2. CASE NotifyVisits
  <2> DEFINE S == {n \in todo : Bullet(n)}
  <2>1. First(S) \in Keys
    BY <1>0, <1>2, FirstIsIn DEF NotifyVisits, Bullet
  <2> QED
    BY <1>2, <2>1, VisitStep DEF NotifyVisits
<1> QED
  BY <1>1, <1>2

LEMMA TurnEndStep ==
    ASSUME BulletInv, TurnEndVisits \/ TurnEndReturns \/ NotifyReturns
    PROVE  BulletInv'
<1>0. Keys \subseteq Numbers
  BY DEF BulletInv, TableAgrees
<1>1. CASE TurnEndVisits
  <2> DEFINE n == First(TurnEndTodo)
  <2>1. n \in Keys
    BY <1>0, <1>1, FirstIsIn DEF TurnEndVisits, TurnEndTodo, Bullet
  <2>2. UNCHANGED <<list, counter, walk, calls, told>> /\ walk = "turn_end" /\ cur = NoObject
    BY <1>1 DEF TurnEndVisits
  <2>3. CASE Removed(n)
    <3>1. /\ objs' = Erased(objs, n) /\ dirty' = TRUE /\ cur' = cur
          /\ todo' = {m \in todo : m > n}
      BY <1>1, <2>3 DEF TurnEndVisits
    <3> HIDE DEF n
    <3>2. TableAgrees'
      BY <2>1, <2>2, <2>3, <3>1, ObjectErased DEF BulletInv
    <3>3. todo' \subseteq todo
      BY <3>1
    <3> QED
      BY <2>2, <3>1, <3>2, <3>3, HandEmptied DEF BulletInv, ListIsOld
  <2>4. CASE ~Removed(n)
    <3>1. Visit(n) /\ UNCHANGED <<objs, dirty>>
      BY <1>1, <2>4 DEF TurnEndVisits
    <3> QED
      BY <2>1, <2>2, <3>1, VisitStep
  <2> QED
    BY <2>3, <2>4
<1>2. CASE TurnEndReturns
  <2>1. /\ cur \in Keys /\ walk = "turn_end" /\ cur' = NoObject
        /\ UNCHANGED <<list, counter, walk, todo, calls, told>>
    BY <1>2 DEF TurnEndReturns, BulletInv, HandIsEmpty, VisitedStays
  <2>2. CASE Removed(cur)
    <3>1. objs' = Erased(objs, cur) /\ dirty' = TRUE
      BY <1>2, <2>2 DEF TurnEndReturns
    <3>2. TableAgrees'
      BY <2>1, <2>2, <3>1, ObjectErased DEF BulletInv
    <3> QED
      BY <2>1, <3>1, <3>2, HandEmptied DEF BulletInv, ListIsOld
  <2>3. CASE ~Removed(cur)
    <3>1. UNCHANGED <<objs, dirty>>
      BY <1>2, <2>3 DEF TurnEndReturns
    <3>2. TableAgrees' /\ Keys' = Keys
      BY <2>1, <3>1, NoneChanges DEF BulletInv
    <3> QED
      BY <2>1, <3>1, <3>2, HandEmptied DEF ListIsOld, BulletInv
  <2> QED
    BY <2>2, <2>3
<1>3. CASE NotifyReturns
  <2>1. TableAgrees' /\ Keys' = Keys
    BY <1>3, NoneChanges DEF NotifyReturns, BulletInv
  <2> QED
    BY <1>3, <2>1, HandEmptied DEF NotifyReturns, ListIsOld, BulletInv
<1> QED
  BY <1>1, <1>2, <1>3

LEMMA BeginsStep == ASSUME BulletInv, Begins PROVE BulletInv'
<1>1. /\ walk = "none" /\ walk' \in Walks /\ calls' \in BOOLEAN /\ dirty' = FALSE
      /\ todo' \in {list, Numbers} /\ UNCHANGED <<objs, list, counter, cur, told>>
  BY DEF Begins, FrameBegins, TurnStartBegins, WindChanges, TurnEndBegins, WalkBegins, Walks
<1>2. TableAgrees' /\ Keys' = Keys
  BY <1>1, NoneChanges DEF BulletInv
<1>3. list = Keys /\ list \subseteq Numbers
  BY <1>1 DEF BulletInv, ListIsOld, TableAgrees
<1> QED
  BY <1>1, <1>2, <1>3 DEF BulletInv, ListIsOld, HandIsEmpty, VisitedStays

LEMMA EndsStep == ASSUME BulletInv, WalkEnds \/ Clear PROVE BulletInv'
<1>1. CASE WalkEnds
  <2>1. TableAgrees' /\ Keys' = Keys
    BY <1>1, NoneChanges DEF WalkEnds, BulletInv
  <2>2. list' = Keys
    BY <1>1 DEF WalkEnds, ListAfter, BulletInv, ListIsOld
  <2> QED
    BY <1>1, <2>1, <2>2 DEF WalkEnds, BulletInv, TableAgrees, ListIsOld, HandIsEmpty, VisitedStays
<1>2. CASE Clear
  <2>1. Keys' = {} /\ list' = {} /\ counter' = 0 /\ told' = [n \in Numbers |-> Unknown]
    BY <1>2 DEF Clear, Keys
  <2>2. DOMAIN told' = Numbers /\ 0 \in 0 .. MaxMade
    BY <2>1, BulletsAssumption
  <2>3. ASSUME NEW n \in Numbers PROVE Agrees(n)'
    <3>1. ~(n < counter') /\ n \notin Keys' /\ told'[n] = Unknown
      BY <2>1, NumbersAre
    <3> QED
      BY <3>1 DEF Agrees, Unknown
  <2>4. TableAgrees'
    BY <2>1, <2>2, <2>3 DEF TableAgrees
  <2> QED
    BY <1>2, <2>1, <2>4 DEF Clear, BulletInv, ListIsOld, HandIsEmpty, VisitedStays
<1> QED
  BY <1>1, <1>2

LEMMA BulletsStep == BulletInv /\ [NextBullets]_bulletVars => BulletInv'
<1> SUFFICES ASSUME BulletInv, [NextBullets]_bulletVars PROVE BulletInv'
  OBVIOUS
<1>1. CASE Scripts
  BY <1>1, ScriptsStep
<1>2. CASE Shots
  BY <1>2, ShotsStep
<1>3. CASE Steps
  BY <1>3, FrameStep, VisitsStep, TurnEndStep, EndsStep DEF Steps
<1>4. CASE Begins
  BY <1>4, BeginsStep
<1>5. CASE Clear
  BY <1>5, EndsStep
<1>6. CASE UNCHANGED bulletVars
  BY <1>6, NoneChanges DEF bulletVars, BulletInv, ListIsOld, HandIsEmpty, VisitedStays
<1> QED
  BY <1>1, <1>2, <1>3, <1>4, <1>5, <1>6 DEF NextBullets

(* Whatever scripts add, remove and change while a walk is in the middle of *)
(* m_mapObjects, the object being visited stays in it, m_vecObjectNo lists   *)
(* what is there, and the clients were told of it.                         *)
THEOREM TheTableAgrees == SpecBullets => [](TypeOKBullets /\ ObjectsAgree)
<1>1. BulletInv => TypeOKBullets
  BY DEF BulletInv, TableAgrees, ListIsOld, HandIsEmpty, VisitedStays, Agrees, Objects, TypeOKBullets
<1> QED
  BY <1>1, BulletsStart, BulletsStep, ObjectsDoAgree, PTL DEF SpecBullets

(***************************************************************************)
(* The way of a packet to its socket.                                      *)
(***************************************************************************)

HasCounted == {"reset", "lock", "send"}

(* The event and the sender: the count is of packets that are still there;  *)
(* an event that is up after it was lowered, or when the sender counts       *)
(* again, is up for packets beyond that count.                               *)
SendInv ==
    /\ TypeOKSend
    /\ Len(OnTheWay) <= MaxQueued
    /\ CountIsThere
    /\ sender \in HasCounted => queLen > 0
    /\ sender \in {"lock", "send"} /\ grown => queLen < Len(packetQueue)
    /\ sender = "count" /\ grown => packetQueue # <<>>
    /\ NoLostWakeup

-----------------------------------------------------------------------------
(* Two queues, one behind the other. *)

(* What is taken from the front of the first is taken from the front of both. *)
LEMMA FrontOfBoth ==
    ASSUME NEW S, NEW q \in Seq(S), NEW h \in Seq(S), NEW n \in 1 .. Len(q)
    PROVE  SubSeq(q, n + 1, Len(q)) \o h = SubSeq(q \o h, n + 1, Len(q \o h))
<1> DEFINE tail == SubSeq(q, n + 1, Len(q))
           both == SubSeq(q \o h, n + 1, Len(q \o h))
<1>1. /\ q \o h \in Seq(S) /\ Len(q \o h) = Len(q) + Len(h)
      /\ \A i \in 1 .. Len(q) + Len(h) :
            (q \o h)[i] = IF i <= Len(q) THEN q[i] ELSE h[i - Len(q)]
  BY ConcatProperties
<1>2. Len(q) \in Nat /\ Len(h) \in Nat
  BY LenProperties
<1>3. /\ \A i \in n + 1 .. Len(q) : q[i] \in S
      /\ \A i \in n + 1 .. Len(q \o h) : (q \o h)[i] \in S
  BY <1>1, <1>2, ElementOfSeq
<1>4. /\ tail \in Seq(S) /\ Len(tail) = Len(q) - n
      /\ \A i \in 1 .. Len(q) - n : tail[i] = q[i + n]
  <2>1. /\ tail \in Seq(S)
        /\ Len(tail) = IF n + 1 <= Len(q) THEN Len(q) - (n + 1) + 1 ELSE 0
        /\ \A i \in 1 .. Len(q) - (n + 1) + 1 : tail[i] = q[n + 1 + i - 1]
    BY <1>2, <1>3, SubSeqProperties
  <2> QED
    BY <1>2, <2>1
<1>5. /\ both \in Seq(S) /\ Len(both) = Len(q) + Len(h) - n
      /\ \A i \in 1 .. Len(q) + Len(h) - n : both[i] = (q \o h)[i + n]
  <2>1. /\ both \in Seq(S)
        /\ Len(both) = IF n + 1 <= Len(q \o h) THEN Len(q \o h) - (n + 1) + 1 ELSE 0
        /\ \A i \in 1 .. Len(q \o h) - (n + 1) + 1 : both[i] = (q \o h)[n + 1 + i - 1]
    BY <1>1, <1>2, <1>3, SubSeqProperties
  <2> QED
    BY <1>1, <1>2, <2>1
<1>6. /\ tail \o h \in Seq(S) /\ Len(tail \o h) = Len(q) - n + Len(h)
      /\ \A i \in 1 .. Len(q) - n + Len(h) :
            (tail \o h)[i] = IF i <= Len(q) - n THEN tail[i] ELSE h[i - (Len(q) - n)]
  <2> HIDE DEF tail
  <2>1. /\ tail \o h \in Seq(S) /\ Len(tail \o h) = Len(tail) + Len(h)
        /\ \A i \in 1 .. Len(tail) + Len(h) :
              (tail \o h)[i] = IF i <= Len(tail) THEN tail[i] ELSE h[i - Len(tail)]
    BY <1>4, ConcatProperties
  <2> QED
    BY <1>4, <2>1
<1>7. \A i \in 1 .. Len(q) - n + Len(h) : (tail \o h)[i] = both[i]
  <2> HIDE DEF tail, both
  <2> TAKE i \in 1 .. Len(q) - n + Len(h)
  <2>1. i + n \in 1 .. Len(q) + Len(h) /\ i \in 1 .. Len(q) + Len(h) - n
    BY <1>2
  <2>2. both[i] = IF i + n <= Len(q) THEN q[i + n] ELSE h[i + n - Len(q)]
    BY <1>1, <1>5, <2>1
  <2>3. CASE i <= Len(q) - n
    BY <1>2, <1>4, <1>6, <2>2, <2>3
  <2>4. CASE ~(i <= Len(q) - n)
    <3>1. (tail \o h)[i] = h[i - (Len(q) - n)]
      BY <1>6, <2>4
    <3>2. i - (Len(q) - n) = i + n - Len(q) /\ ~(i + n <= Len(q))
      BY <1>2, <2>4
    <3> QED
      BY <2>2, <3>1, <3>2
  <2> QED
    BY <2>3, <2>4
<1> QED
  <2> HIDE DEF tail, both
  <2>1. Len(tail \o h) = Len(both)
    BY <1>2, <1>5, <1>6
  <2>2. tail \o h = both
    BY <1>5, <1>6, <1>7, <2>1, SeqEqual
  <2> QED
    BY <2>2 DEF tail, both

(* What is put at the end of the second is put at the end of both. *)
LEMMA EndOfBoth ==
    ASSUME NEW S, NEW q \in Seq(S), NEW h \in Seq(S), NEW p \in S
    PROVE  q \o Append(h, p) = Append(q \o h, p)
<1>1. Append(h, p) = h \o <<p>> /\ <<p>> \in Seq(S)
  OBVIOUS
<1>2. Append(q \o h, p) = (q \o h) \o <<p>>
  <2> DEFINE both == q \o h
  <2>1. both \in Seq(S)
    BY ConcatProperties
  <2> HIDE DEF both
  <2>2. Append(both, p) = both \o <<p>>
    BY <2>1
  <2> QED
    BY <2>2 DEF both
<1> QED
  BY <1>1, <1>2, ConcatAssociative

-----------------------------------------------------------------------------
(* The invariant. *)

LEMMA InitSendInv == InitSend => SendInv
<1> SUFFICES ASSUME InitSend PROVE SendInv
  OBVIOUS
<1>1. <<>> \in Seq(Labels) /\ Len(OnTheWay) = 0
  <2>1. <<>> \in Seq(Labels)
    BY EmptySeq
  <2>2. OnTheWay = <<>>
    BY <2>1, ConcatEmptySeq DEF InitSend, OnTheWay
  <2> QED
    BY <2>1, <2>2, EmptySeq
<1>2. /\ sender = "count" /\ ~grown /\ grown \in BOOLEAN
      /\ sender \notin {"reset", "lock", "send", "asleep"}
  BY DEF InitSend
<1>3. queLen \in 0 .. MaxQueued /\ Len(OnTheWay) <= MaxQueued
  BY <1>1, QueuedAssumption DEF InitSend
<1>4. TypeOKSend
  BY <1>1, <1>2, <1>3 DEF InitSend, TypeOKSend
<1> QED
  BY <1>2, <1>3, <1>4 DEF SendInv, CountIsThere, NoLostWakeup, HasCounted

(* The lengths the arithmetic of the invariant is about. *)
LEMMA Lengths ==
    ASSUME TypeOKSend
    PROVE  /\ Len(packetQueue) \in Nat /\ Len(handlerQueue) \in Nat
           /\ Len(OnTheWay) = Len(packetQueue) + Len(handlerQueue)
           /\ packetQueue = <<>> <=> Len(packetQueue) = 0
  BY LenProperties, ConcatProperties, EmptySeq DEF TypeOKSend, OnTheWay

LEMMA AddPacketKeepsInv ==
    ASSUME SendInv, NEW p \in Labels, AddPacket(p)
    PROVE  SendInv'
<1>1. TypeOKSend'
  BY DEF SendInv, TypeOKSend, AddPacket
<1>2. Len(handlerQueue') = Len(handlerQueue) + 1
  BY DEF SendInv, TypeOKSend, AddPacket
<1>3. Len(OnTheWay') <= MaxQueued
  <2>1. Len(OnTheWay') = Len(packetQueue') + Len(handlerQueue')
    BY <1>1, ConcatProperties DEF TypeOKSend, OnTheWay
  <2> QED
    BY <1>2, <2>1, Lengths, QueuedAssumption DEF SendInv, AddPacket
<1> QED
  BY <1>1, <1>3 DEF SendInv, AddPacket, CountIsThere, NoLostWakeup, HasCounted

LEMMA PacketEnqueueKeepsInv ==
    ASSUME SendInv, PacketEnqueue
    PROVE  SendInv'
<1>1. TypeOKSend'
  BY ConcatProperties, EmptySeq DEF SendInv, TypeOKSend, PacketEnqueue, Moved
<1>2. /\ Len(packetQueue') = Len(packetQueue) + Len(handlerQueue)
      /\ Len(handlerQueue) > 0
  BY ConcatProperties, EmptySeq DEF SendInv, TypeOKSend, PacketEnqueue, Moved
<1>3. Len(OnTheWay') <= MaxQueued
  <2>1. OnTheWay' = OnTheWay
    BY <1>1, ConcatEmptySeq DEF OnTheWay, TypeOKSend, PacketEnqueue, Moved
  <2> QED
    BY <2>1 DEF SendInv
<1>4. packetQueue' # <<>>
  BY <1>2, Lengths DEF SendInv
<1> QED
  BY <1>1, <1>2, <1>3, <1>4, Lengths
     DEF SendInv, TypeOKSend, PacketEnqueue, CountIsThere, NoLostWakeup, HasCounted

LEMMA SenderKeepsInv ==
    ASSUME SendInv, Sender
    PROVE  SendInv'
<1>1. CASE Count
  <2>1. TypeOKSend' /\ Len(OnTheWay') <= MaxQueued
    BY <1>1, Lengths, QueuedAssumption
       DEF SendInv, TypeOKSend, Count, AfterCount, OnTheWay
  <2> QED
    BY <1>1, <2>1, Lengths
       DEF SendInv, Count, AfterCount, CountIsThere, NoLostWakeup, HasCounted
<1>2. CASE WakeUp
  <2>1. TypeOKSend' /\ Len(OnTheWay') <= MaxQueued
    BY <1>2, Lengths, QueuedAssumption DEF SendInv, TypeOKSend, WakeUp, OnTheWay
  <2> QED
    BY <1>2, <2>1, Lengths DEF SendInv, WakeUp, CountIsThere, NoLostWakeup, HasCounted
<1>3. CASE ResetGrowEvent
  BY <1>3 DEF SendInv, TypeOKSend, ResetGrowEvent, OnTheWay, CountIsThere,
              NoLostWakeup, HasCounted
<1>4. CASE EnterPacket
  BY <1>4 DEF SendInv, TypeOKSend, EnterPacket, OnTheWay, CountIsThere,
              NoLostWakeup, HasCounted
<1>5. CASE SendCounted
  <2>1. queLen \in 1 .. Len(packetQueue)
    BY <1>5, Lengths DEF SendInv, SendCounted, TypeOKSend, CountIsThere, HasCounted
  <2>2. /\ packetQueue' \in Seq(Labels)
        /\ Len(packetQueue') = Len(packetQueue) - queLen
    <3>1. \A i \in queLen + 1 .. Len(packetQueue) : packetQueue[i] \in Labels
      BY <2>1, Lengths, ElementOfSeq DEF SendInv, TypeOKSend
    <3>2. /\ packetQueue' \in Seq(Labels)
          /\ Len(packetQueue') = IF queLen + 1 <= Len(packetQueue)
                                 THEN Len(packetQueue) - (queLen + 1) + 1 ELSE 0
      BY <1>5, <2>1, <3>1, Lengths, SubSeqProperties
         DEF SendInv, SendCounted, Batch
    <3> QED
      BY <2>1, <3>2, Lengths DEF SendInv
  <2>3. TypeOKSend'
    BY <1>5, <2>2 DEF SendInv, TypeOKSend, SendCounted
  <2>4. Len(OnTheWay') <= MaxQueued
    <3>1. Len(OnTheWay') = Len(packetQueue') + Len(handlerQueue)
      BY <1>5, <2>2, ConcatProperties DEF OnTheWay, SendInv, TypeOKSend, SendCounted
    <3> QED
      BY <2>1, <2>2, <3>1, Lengths, QueuedAssumption DEF SendInv
  <2>5. grown' => packetQueue' # <<>>
    <3>1. grown' => Len(packetQueue') > 0
      <4>1. grown' => queLen < Len(packetQueue)
        BY <1>5 DEF SendInv, SendCounted
      <4> QED
        BY <2>1, <2>2, <4>1, Lengths DEF SendInv
    <3> QED
      BY <2>2, <3>1, EmptySeq
  <2> QED
    BY <1>5, <2>3, <2>4, <2>5 DEF SendInv, SendCounted, CountIsThere, NoLostWakeup, HasCounted
<1> QED
  BY <1>1, <1>2, <1>3, <1>4, <1>5 DEF Sender

LEMMA StepKeepsSendInv == SendInv /\ [NextSend]_sendVars => SendInv'
<1> SUFFICES ASSUME SendInv, [NextSend]_sendVars PROVE SendInv'
  OBVIOUS
<1>1. CASE \E p \in Labels : AddPacket(p)
  BY <1>1, AddPacketKeepsInv
<1>2. CASE PacketEnqueue
  BY <1>2, PacketEnqueueKeepsInv
<1>3. CASE Sender
  BY <1>3, SenderKeepsInv
<1>4. CASE UNCHANGED sendVars
  BY <1>4 DEF sendVars, SendInv, TypeOKSend, OnTheWay, CountIsThere, NoLostWakeup, HasCounted
<1> QED
  BY <1>1, <1>2, <1>3, <1>4 DEF NextSend

LEMMA SendInvHolds == SpecSend => []SendInv
  BY InitSendInv, StepKeepsSendInv, PTL DEF SpecSend

(* A sleeping sender thread always has its event up when packets wait, and   *)
(* only then, although it counts and lowers the event without the lock.      *)
THEOREM SenderIsWoken == SpecSend => [](TypeOKSend /\ NoLostWakeup)
<1>1. SendInv => TypeOKSend /\ NoLostWakeup
  BY DEF SendInv
<1> QED
  BY <1>1, SendInvHolds, PTL

-----------------------------------------------------------------------------
(* The refinement. *)

LEMMA StepIsMailStep ==
    ASSUME SendInv, [NextSend]_sendVars
    PROVE  [Box!NextMail]_OnTheWay
<1> USE DEF OnTheWay
<1>1. CASE \E p \in Labels : AddPacket(p)
  <2>1. PICK p \in Labels : AddPacket(p)
    BY <1>1
  <2>2. OnTheWay' = Append(OnTheWay, p)
    BY <2>1, EndOfBoth DEF AddPacket, SendInv, TypeOKSend
  <2> QED
    BY <2>2 DEF Box!NextMail, Box!Post
<1>2. CASE PacketEnqueue
  <2>1. Moved \in Seq(Labels)
    BY ConcatProperties DEF SendInv, TypeOKSend, Moved
  <2> QED
    BY <1>2, <2>1, ConcatEmptySeq DEF PacketEnqueue, Moved
<1>3. CASE SendCounted
  <2>1. queLen \in 1 .. Len(packetQueue)
    BY <1>3, Lengths DEF SendInv, SendCounted, TypeOKSend, CountIsThere, HasCounted
  <2>2. OnTheWay' = SubSeq(OnTheWay, queLen + 1, Len(OnTheWay))
    BY <1>3, <2>1, FrontOfBoth DEF SendCounted, Batch, SendInv, TypeOKSend
  <2>3. queLen \in 1 .. Len(OnTheWay)
    BY <2>1, Lengths DEF SendInv
  <2> QED
    BY <2>2, <2>3 DEF Box!NextMail, Box!Deliver
<1>4. CASE Count \/ WakeUp \/ ResetGrowEvent \/ EnterPacket \/ UNCHANGED sendVars
  BY <1>4 DEF Count, WakeUp, ResetGrowEvent, EnterPacket, sendVars
<1> QED
  BY <1>1, <1>2, <1>3, <1>4 DEF NextSend, Sender

(* To its users the way of a packet is a mailbox: packets leave in the order *)
(* they were made, none overtakes another, none is sent twice or dropped.    *)
THEOREM SendPathIsMailbox == SpecSend => IsMailbox
<1>1. InitSend => Box!InitMail
  BY DEF InitSend, Box!InitMail, OnTheWay
<1>2. SendInv /\ [NextSend]_sendVars => [Box!NextMail]_OnTheWay
  BY StepIsMailStep
<1> QED
  BY <1>1, <1>2, SendInvHolds, PTL DEF SpecSend, IsMailbox, Box!MailSpec

(***************************************************************************)
(* The cutting of packets out of a stream.                                  *)
(***************************************************************************)

\* The cells of the packets that are sent.
Cells == {x \in [conn : Conns, packet : Nat, cell : Nat] : x.packet \in 1 .. Len(Stream[x.conn])}
Cell(c, n, i) == [conn |-> c, packet |-> n, cell |-> i]

LEMMA PacketIs ==
    ASSUME NEW c \in Conns, NEW n \in 1 .. Len(Stream[c])
    PROVE  /\ Stream[c][n] \in Nat \ {0} /\ Packet(c, n) \in Seq(Cells)
           /\ Len(Packet(c, n)) = Stream[c][n]
           /\ \A i \in 1 .. Stream[c][n] : Packet(c, n)[i] = Cell(c, n, i) /\ Cell(c, n, i) \in Cells
<1> DEFINE size0 == Stream[c][n]
<1>1. Stream[c] \in Seq(Nat \ {0}) /\ size0 \in Nat \ {0} /\ n \in Nat
  BY StreamAssumption
<1>2. \A i \in 1 .. size0 : Cell(c, n, i) \in Cells
  BY <1>1 DEF Cell, Cells
<1>3. Packet(c, n) = [i \in 1 .. size0 |-> Cell(c, n, i)]
  BY DEF Packet, Cell
<1> HIDE DEF size0
<1>4. Packet(c, n) \in Seq(Cells) /\ Len(Packet(c, n)) = size0
  BY <1>1, <1>2, <1>3
<1> QED
  BY <1>1, <1>2, <1>3, <1>4 DEF size0

(* What a connection sends is a fold over its packets.                      *)
WireStep(c, g, s) == IF s = {} THEN <<>> ELSE g[s \ {Max(s)}] \o Packets(c)[Max(s)]
WireBy(c, g) == g = [s \in SUBSET DOMAIN Packets(c) |-> WireStep(c, g, s)]

LEMMA WireIsChosen ==
    ASSUME NEW c
    PROVE  Wire(c) = (CHOOSE g : WireBy(c, g))[DOMAIN Packets(c)]
BY DEF Wire, FoldLeft, MapThenFoldSet, WireBy, WireStep

LEMMA WireExists ==
    ASSUME NEW c \in Conns
    PROVE  \E g : WireBy(c, g)
<1> DEFINE n == Len(Stream[c])
           F == [p \in Seq(Cells) \X (1 .. n) |-> p[1] \o Packets(c)[p[2]]]
<1>1. n \in Nat /\ DOMAIN Packets(c) = 1 .. n
  BY StreamAssumption DEF Packets
<1>2. \A k \in 1 .. n : Packets(c)[k] \in Seq(Cells)
  BY PacketIs DEF Packets
<1> HIDE DEF n
<1>3. F \in [Seq(Cells) \X (1 .. n) -> Seq(Cells)]
  <2>1. ASSUME NEW p \in Seq(Cells) \X (1 .. n) PROVE p[1] \o Packets(c)[p[2]] \in Seq(Cells)
    <3>1. p[1] \in Seq(Cells) /\ Packets(c)[p[2]] \in Seq(Cells)
      BY <1>2
    <3> QED
      BY <3>1, ConcatProperties
  <2> QED
    BY <2>1
<1>4. PICK g \in [SUBSET (1 .. n) -> Seq(Cells)] : \A s \in SUBSET (1 .. n) :
              g[s] = IF s = {} THEN <<>> ELSE F[<<g[s \ {Max(s)}], Max(s)>>]
  <2>1. <<>> \in Seq(Cells)
    OBVIOUS
  <2> HIDE DEF F
  <2>2. \E g \in [SUBSET (1 .. n) -> Seq(Cells)] : FoldsAll(g, n, <<>>, F)
    BY <1>1, <1>3, <2>1, FoldIsWhole
  <2> QED
    BY <2>2 DEF FoldsAll
<1>5. ASSUME NEW s \in SUBSET (1 .. n) PROVE g[s] = WireStep(c, g, s)
  <2>1. CASE s # {}
    <3>1. Max(s) \in s
      BY <1>1, <2>1, LastIs
    <3>2. <<g[s \ {Max(s)}], Max(s)>> \in Seq(Cells) \X (1 .. n)
      BY <3>1
    <3>3. F[<<g[s \ {Max(s)}], Max(s)>>] = g[s \ {Max(s)}] \o Packets(c)[Max(s)]
      BY <3>2
    <3> HIDE DEF F
    <3> QED
      BY <1>4, <2>1, <3>3 DEF WireStep
  <2> HIDE DEF F
  <2> QED
    BY <1>4, <2>1 DEF WireStep
<1>6. g = [s \in SUBSET DOMAIN Packets(c) |-> WireStep(c, g, s)]
  BY <1>1, <1>5
<1> QED
  BY <1>6 DEF WireBy

(* The first k packets, one after the other, and where the k-th of them ends. *)
WireTo(c, k) == (CHOOSE g : WireBy(c, g))[1 .. k]
End(c, k) == Len(WireTo(c, k))

LEMMA WireToIs ==
    ASSUME NEW c \in Conns
    PROVE  /\ Wire(c) = WireTo(c, Len(Stream[c])) /\ WireTo(c, 0) = <<>>
           /\ \A k \in 1 .. Len(Stream[c]) : WireTo(c, k) = WireTo(c, k - 1) \o Packet(c, k)
<1> DEFINE g == CHOOSE g0 : WireBy(c, g0)
           n == Len(Stream[c])
<1>1. WireBy(c, g)
  BY WireExists
<1> HIDE DEF g
<1>2. n \in Nat /\ DOMAIN Packets(c) = 1 .. n /\ \A k \in 1 .. n : Packets(c)[k] = Packet(c, k)
  BY StreamAssumption DEF Packets
<1> HIDE DEF n
<1>3. \A s \in SUBSET (1 .. n) : g[s] = WireStep(c, g, s)
  BY <1>1, <1>2 DEF WireBy
<1>4. Wire(c) = g[1 .. n]
  BY <1>2, WireIsChosen DEF g
<1>5. g[1 .. 0] = <<>>
  <2>1. 1 .. 0 = {} /\ {} \in SUBSET (1 .. n)
    OBVIOUS
  <2> QED
    BY <1>3, <2>1 DEF WireStep
<1>6. ASSUME NEW k \in 1 .. n PROVE g[1 .. k] = g[1 .. k - 1] \o Packet(c, k)
  <2>1. /\ 1 .. k \in SUBSET (1 .. n) /\ 1 .. k # {}
        /\ Max(1 .. k) = k /\ (1 .. k) \ {k} = 1 .. k - 1
    BY <1>2, SegmentIs
  <2>2. g[1 .. k] = WireStep(c, g, 1 .. k)
    BY <1>3, <2>1
  <2>3. WireStep(c, g, 1 .. k) = g[1 .. k - 1] \o Packets(c)[k]
    BY <2>1 DEF WireStep
  <2> QED
    BY <1>2, <2>2, <2>3
<1>7. \A k : WireTo(c, k) = g[1 .. k]
  BY DEF WireTo, g
<1>8. Wire(c) = WireTo(c, n) /\ WireTo(c, 0) = <<>>
  BY <1>4, <1>5, <1>7
<1>9. \A k \in 1 .. n : WireTo(c, k) = WireTo(c, k - 1) \o Packet(c, k)
  BY <1>6, <1>7
<1> QED
  BY <1>8, <1>9 DEF n

(* Of the first m packets, each is where the one before it ends.            *)
Laid(c, m) ==
    /\ WireTo(c, m) \in Seq(Cells)
    /\ \A k \in 1 .. m :
          /\ End(c, k - 1) \in Nat /\ End(c, k) = End(c, k - 1) + Stream[c][k]
          /\ End(c, k) <= End(c, m)
          /\ \A i \in 1 .. Stream[c][k] : WireTo(c, m)[End(c, k - 1) + i] = Cell(c, k, i)

LEMMA OneMoreIsLaid ==
    ASSUME NEW c \in Conns, NEW m \in 1 .. Len(Stream[c]), Laid(c, m - 1)
    PROVE  Laid(c, m)
<1> DEFINE j == m - 1
           w == WireTo(c, j)
           p == Packet(c, m)
           v == WireTo(c, m)
<1>1. v = w \o p /\ w \in Seq(Cells) /\ p \in Seq(Cells) /\ m \in Nat /\ j \in Nat
  BY StreamAssumption, WireToIs, PacketIs DEF Laid
<1>2. Len(p) = Stream[c][m] /\ Stream[c][m] \in Nat \ {0} /\ Len(w) \in Nat
      /\ \A i \in 1 .. Stream[c][m] : p[i] = Cell(c, m, i)
  <2>1. Len(p) = Stream[c][m] /\ Stream[c][m] \in Nat \ {0}
        /\ \A i \in 1 .. Stream[c][m] : p[i] = Cell(c, m, i)
    BY PacketIs
  <2> HIDE DEF w, p
  <2>2. Len(w) \in Nat
    BY <1>1, LenProperties
  <2> QED
    BY <2>1, <2>2
<1>a. Len(w) = End(c, j) /\ Len(v) = End(c, m)
  BY DEF End
<1>b. \A k \in 1 .. j :
          /\ End(c, k - 1) \in Nat /\ End(c, k) = End(c, k - 1) + Stream[c][k]
          /\ End(c, k) <= End(c, j)
          /\ \A i \in 1 .. Stream[c][k] : w[End(c, k - 1) + i] = Cell(c, k, i)
  BY DEF Laid
<1> HIDE DEF w, p, v
<1>3. /\ v \in Seq(Cells) /\ Len(v) = Len(w) + Len(p)
      /\ \A i \in 1 .. Len(w) + Len(p) : v[i] = IF i <= Len(w) THEN w[i] ELSE p[i - Len(w)]
  BY <1>1, ConcatProperties
<1>4. ASSUME NEW k \in 1 .. m
      PROVE  /\ End(c, k - 1) \in Nat /\ End(c, k) = End(c, k - 1) + Stream[c][k]
             /\ End(c, k) <= End(c, m)
             /\ \A i \in 1 .. Stream[c][k] : v[End(c, k - 1) + i] = Cell(c, k, i)
  <2>1. CASE k = m
    <3>1. End(c, k - 1) = Len(w) /\ End(c, k) = Len(v) /\ Len(p) = Stream[c][k]
      BY <1>a, <1>2, <2>1
    <3>2. ASSUME NEW i \in 1 .. Stream[c][k] PROVE v[Len(w) + i] = Cell(c, k, i)
      <4>1. /\ Len(w) + i \in 1 .. Len(w) + Len(p) /\ ~(Len(w) + i <= Len(w))
            /\ (Len(w) + i) - Len(w) = i
        BY <1>2, <3>1
      <4>2. v[Len(w) + i] = p[i]
        BY <1>3, <4>1
      <4> QED
        BY <1>2, <2>1, <4>2
    <3>3. Len(v) = Len(w) + Stream[c][k] /\ Len(w) \in Nat /\ Len(v) <= Len(v)
      BY <1>2, <1>3, <3>1
    <3> QED
      BY <2>1, <3>1, <3>2, <3>3
  <2>2. CASE k # m
    <3>1. k \in 1 .. j
      BY <1>1, <2>2
    <3>2. /\ End(c, k - 1) \in Nat /\ End(c, k) = End(c, k - 1) + Stream[c][k]
          /\ End(c, k) <= Len(w)
          /\ \A i \in 1 .. Stream[c][k] : w[End(c, k - 1) + i] = Cell(c, k, i)
      BY <1>a, <1>b, <3>1
    <3>s. Stream[c][k] \in Nat
      BY PacketIs, <3>1
    <3>3. ASSUME NEW i \in 1 .. Stream[c][k] PROVE v[End(c, k - 1) + i] = Cell(c, k, i)
      <4> DEFINE e == End(c, k - 1) + i
      <4>1. e \in 1 .. Len(w) + Len(p) /\ e <= Len(w)
        <5> DEFINE b == End(c, k - 1)
                   h == Stream[c][k]
                   lw == Len(w)
                   lp == Len(p)
        <5>1. b \in Nat /\ h \in Nat /\ b + h <= lw /\ lw \in Nat /\ lp \in Nat /\ i \in 1 .. h
          BY <1>2, <3>2, <3>s
        <5> HIDE DEF b, h, lw, lp
        <5>2. b + i \in 1 .. lw + lp /\ b + i <= lw
          BY <5>1
        <5> QED
          BY <5>2 DEF b, lw, lp
      <4> HIDE DEF e
      <4>2. v[e] = w[e]
        BY <1>3, <4>1
      <4> QED
        BY <3>2, <4>2 DEF e
    <3>4. End(c, k) <= End(c, m)
      BY <1>a, <1>2, <1>3, <3>2, <3>s
    <3> QED
      BY <3>2, <3>3, <3>4
  <2> QED
    BY <2>1, <2>2
<1> QED
  BY <1>3, <1>4 DEF Laid, v

LEMMA AllAreLaid ==
    ASSUME NEW c \in Conns
    PROVE  \A m \in 0 .. Len(Stream[c]) : Laid(c, m)
<1> DEFINE n == Len(Stream[c])
           Bad == {m \in 0 .. n : ~Laid(c, m)}
<1>1. n \in Nat
  BY StreamAssumption
<1>2. Bad = {}
  <2> SUFFICES ASSUME Bad # {} PROVE FALSE
    OBVIOUS
  <2>1. Bad \in SUBSET Nat
    OBVIOUS
  <2>2. PICK m \in Bad : \A q \in Bad : m <= q
    BY <2>1, LeastNumber
  <2>3. Laid(c, 0)
    <3>1. WireTo(c, 0) = <<>>
      BY WireToIs
    <3>2. <<>> \in Seq(Cells) /\ 1 .. 0 = {}
      OBVIOUS
    <3> QED
      BY <3>1, <3>2 DEF Laid
  <2>4. m # 0 /\ m \in 0 .. n
    BY <2>2, <2>3
  <2> DEFINE j == m - 1
  <2>5. m \in 1 .. n /\ j \in 0 .. n /\ ~(m <= j)
    BY <1>1, <2>4
  <2> HIDE DEF j, n
  <2>6. Laid(c, j)
    BY <2>2, <2>5
  <2>7. Laid(c, m)
    BY <2>5, <2>6, OneMoreIsLaid DEF j, n
  <2> QED
    BY <2>2, <2>7
<1> QED
  BY <1>2

(* Where the packets lie in what a connection sends.                        *)
LEMMA WireIs ==
    ASSUME NEW c \in Conns
    PROVE  /\ Wire(c) \in Seq(Cells) /\ Len(Wire(c)) = End(c, Len(Stream[c])) /\ End(c, 0) = 0
           /\ \A k \in 0 .. Len(Stream[c]) : End(c, k) \in Nat /\ End(c, k) <= Len(Wire(c))
           /\ \A k \in 0 .. Len(Stream[c]) - 1 :
                 /\ End(c, k + 1) = End(c, k) + Stream[c][k + 1]
                 /\ \A i \in 1 .. Stream[c][k + 1] : Wire(c)[End(c, k) + i] = Cell(c, k + 1, i)
<1> DEFINE n == Len(Stream[c])
<1>1. n \in Nat
  BY StreamAssumption
<1>2. Laid(c, n) /\ Wire(c) = WireTo(c, n) /\ WireTo(c, 0) = <<>>
  BY <1>1, AllAreLaid, WireToIs
<1>3. Len(Wire(c)) = End(c, n) /\ Wire(c) \in Seq(Cells) /\ End(c, 0) = 0
  BY <1>2 DEF Laid, End
<1>4. ASSUME NEW k \in 0 .. n PROVE End(c, k) \in Nat /\ End(c, k) <= Len(Wire(c))
  <2>1. Len(Wire(c)) \in Nat
    BY <1>3
  <2>2. CASE k = 0
    BY <1>3, <2>1, <2>2
  <2>3. CASE k # 0
    <3>1. k \in 1 .. n
      BY <1>1, <2>3
    <3>2. End(c, k - 1) \in Nat /\ End(c, k) = End(c, k - 1) + Stream[c][k] /\ End(c, k) <= End(c, n)
      BY <1>2, <3>1 DEF Laid
    <3> QED
      BY <1>3, <3>1, <3>2, PacketIs
  <2> QED
    BY <2>2, <2>3
<1>5. ASSUME NEW k \in 0 .. n - 1
      PROVE  /\ End(c, k + 1) = End(c, k) + Stream[c][k + 1]
             /\ \A i \in 1 .. Stream[c][k + 1] : Wire(c)[End(c, k) + i] = Cell(c, k + 1, i)
  <2> DEFINE j == k + 1
  <2>1. j \in 1 .. n /\ j - 1 = k
    BY <1>1
  <2> HIDE DEF j
  <2>2. /\ End(c, j) = End(c, j - 1) + Stream[c][j]
        /\ \A i \in 1 .. Stream[c][j] : WireTo(c, n)[End(c, j - 1) + i] = Cell(c, j, i)
    BY <1>2, <2>1 DEF Laid
  <2> QED
    BY <1>2, <2>1, <2>2 DEF j
<1> QED
  BY <1>3, <1>4, <1>5

(* After n packets: the cells in stock are those that follow them, and after *)
(* those come the cells of the read that are not cut yet.                   *)
Waits(c, n) ==
    /\ read[c] = End(c, n) + stock
    /\ stock > 0 => stock < size
    /\ \A i \in 1 .. stock : slot[i] = Wire(c)[End(c, n) + i]

Cuts(c, n) ==
    /\ read[c] = End(c, n) + base + stock
    /\ stock = 0 => base = 0
    /\ base > 0 => base + stock <= size
    /\ \A i \in 1 .. base : slot[i] = Wire(c)[End(c, n) + i]
    /\ stock > 0 =>
          /\ base < size /\ div + stock = Len(msg) + 1
          /\ \A i \in 1 .. stock : msg[div - 1 + i] = Wire(c)[End(c, n) + base + i]

Framed(c, n) ==
    /\ n \in 0 .. Len(Stream[c])
    /\ read \in [Conns -> Nat] /\ read[c] <= Len(Wire(c)) /\ from = c
    /\ handed = [d \in Conns |-> [k \in 1 .. n |-> Packet(d, k)]]
    /\ stock \in Nat /\ base \in Nat /\ size \in Nat /\ div \in Nat \ {0} /\ msg \in Seq(Cells)
    /\ cutter \in {"idle", "cutting"}
    /\ stock > 0 => n < Len(Stream[c]) /\ size = Stream[c][n + 1]
    /\ cutter = "idle" => Waits(c, n)
    /\ cutter = "cutting" => Cuts(c, n)

(* A stretch of what is sent.                                               *)
LEMMA StretchIs ==
    ASSUME NEW c \in Conns, NEW r \in Nat, NEW k \in Nat, r + k <= Len(Wire(c))
    PROVE  /\ SubSeq(Wire(c), r + 1, r + k) \in Seq(Cells)
           /\ Len(SubSeq(Wire(c), r + 1, r + k)) = k
           /\ \A i \in 1 .. k : SubSeq(Wire(c), r + 1, r + k)[i] = Wire(c)[r + i]
<1> DEFINE w == Wire(c)
           f == r + 1
           l == r + k
<1>1. w \in Seq(Cells)
  BY WireIs
<1> HIDE DEF w
<1>2. /\ f \in Int /\ l \in Int /\ l - f + 1 = k
      /\ (IF f <= l THEN l - f + 1 ELSE 0) = k
      /\ \A i \in f .. l : w[i] \in Cells
      /\ \A i \in 1 .. k : f + i - 1 = r + i
  BY <1>1 DEF w
<1> HIDE DEF f, l
<1>3. /\ SubSeq(w, f, l) \in Seq(Cells)
      /\ Len(SubSeq(w, f, l)) = IF f <= l THEN l - f + 1 ELSE 0
      /\ \A i \in 1 .. l - f + 1 : SubSeq(w, f, l)[i] = w[f + i - 1]
  BY <1>2, SubSeqProperties
<1> QED
  BY <1>2, <1>3 DEF w, f, l

(* The cell after n whole packets, if there is one, is the next one's first. *)
LEMMA NextBegins ==
    ASSUME NEW c \in Conns, NEW n \in 0 .. Len(Stream[c]), End(c, n) < Len(Wire(c))
    PROVE  /\ n < Len(Stream[c]) /\ Stream[c][n + 1] \in Nat \ {0}
           /\ End(c, n + 1) = End(c, n) + Stream[c][n + 1]
           /\ Wire(c)[End(c, n) + 1] = Cell(c, n + 1, 1)
<1> DEFINE l == Len(Stream[c])
<1>1. l \in Nat /\ n \in 0 .. l
  BY StreamAssumption
<1>2. n # l
  BY WireIs
<1> HIDE DEF l
<1>3. n \in 0 .. l - 1 /\ n + 1 \in 1 .. l /\ n < l
  BY <1>1, <1>2
<1>4. Stream[c][n + 1] \in Nat \ {0}
  BY <1>3, PacketIs DEF l
<1>5. 1 \in 1 .. Stream[c][n + 1]
  BY <1>4
<1> QED
  BY <1>3, <1>4, <1>5, WireIs DEF l

LEMMA FirstIsSize ==
    ASSUME NEW cells, NEW i \in 1 .. Len(cells), NEW c, NEW n, cells[i] = Cell(c, n, 1)
    PROVE  IsSize(cells, i) /\ SizeIn(cells, i) = Stream[c][n]
BY DEF IsSize, SizeIn, Cell

LEMMA ReceiveFrames ==
    ASSUME NEW c \in Conns, Conns = {c}, ~Spans, NEW n, Framed(c, n),
           NEW k \in 1 .. Len(Wire(c)), Receive(c, k)
    PROVE  Framed(c, n)'
<1> DEFINE w == Wire(c)
           e == End(c, n)
           r == read[c]
<1>1. /\ r = e + stock /\ r \in Nat /\ e \in Nat /\ stock \in Nat /\ size \in Nat
      /\ k \in Nat \ {0} /\ r + k <= Len(w) /\ w \in Seq(Cells) /\ n \in 0 .. Len(Stream[c])
      /\ stock > 0 => stock < size /\ n < Len(Stream[c]) /\ size = Stream[c][n + 1]
      /\ \A i \in 1 .. stock : slot[i] = w[e + i]
      /\ stock = 0 \/ stock + k <= size
  <2>1. cutter = "idle" /\ r + k <= Len(w) /\ (stock = 0 \/ stock + k <= size)
    BY DEF Receive, MayDeliver
  <2>2. w \in Seq(Cells) /\ (n \in 0 .. Len(Stream[c]) => e \in Nat)
    BY WireIs
  <2>3. k \in Nat \ {0}
    BY <2>2
  <2> HIDE DEF w, e
  <2> QED
    BY <2>1, <2>2, <2>3 DEF Framed, Waits, w, e
<1>2. msg' \in Seq(Cells) /\ Len(msg') = k /\ \A i \in 1 .. k : msg'[i] = w[r + i]
  <2>1. msg' = SubSeq(w, r + 1, r + k)
    BY DEF Receive, Stretch
  <2>2. r \in Nat /\ k \in Nat /\ r + k <= Len(Wire(c))
    BY <1>1
  <2> HIDE DEF r
  <2> QED
    BY <2>1, <2>2, StretchIs
<1>3. CASE stock = 0
  <2>1. /\ n < Len(Stream[c]) /\ Stream[c][n + 1] \in Nat \ {0} /\ w[e + 1] = Cell(c, n + 1, 1)
    BY <1>1, <1>3, NextBegins
  <2>2. msg'[1] = Cell(c, n + 1, 1) /\ 1 \in 1 .. Len(msg')
    <3> HIDE DEF w, e, r
    <3> QED
      BY <1>1, <1>2, <1>3, <2>1
  <2>3. IsSize(msg', 1) /\ SizeIn(msg', 1) = Stream[c][n + 1]
    BY <2>2, FirstIsSize
  <2>4. size' = Stream[c][n + 1] /\ cutter' = "cutting" /\ base' = 0 /\ stock' = k /\ div' = 1
    BY <1>1, <1>3, <2>3 DEF Receive
  <2>5. read' = [read EXCEPT ![c] = r + k] /\ handed' = handed /\ from' = c
    BY DEF Receive
  <2>6. read' \in [Conns -> Nat] /\ read'[c] = r + k
    BY <1>1, <2>5 DEF Framed
  <2> HIDE DEF w, e, r
  <2>7. Cuts(c, n)'
    <3>1. read'[c] = e + base' + stock' /\ stock' # 0 /\ base' = 0
      BY <1>1, <1>3, <2>4, <2>6
    <3>2. base' < size' /\ div' + stock' = Len(msg') + 1
      BY <1>1, <1>2, <2>1, <2>4
    <3>3. \A i \in 1 .. stock' : msg'[div' - 1 + i] = w[e + base' + i]
      <4>1. \A i \in 1 .. k : div' - 1 + i = i /\ e + base' + i = r + i
        BY <1>1, <1>3, <2>4
      <4> QED
        BY <1>2, <2>4, <4>1
    <3> QED
      BY <3>1, <3>2, <3>3 DEF Cuts, w, e
  <2> QED
    BY <1>1, <1>2, <1>3, <2>1, <2>4, <2>5, <2>6, <2>7 DEF Framed, w
<1>4. CASE stock > 0
  <2>4. size' = size /\ cutter' = "cutting" /\ base' = stock /\ stock' = k /\ div' = 1 /\ slot' = slot
    BY <1>1, <1>4 DEF Receive
  <2>5. read' = [read EXCEPT ![c] = r + k] /\ handed' = handed /\ from' = c
    BY DEF Receive
  <2>6. read' \in [Conns -> Nat] /\ read'[c] = r + k
    BY <1>1, <2>5 DEF Framed
  <2> HIDE DEF w, e, r
  <2>7. Cuts(c, n)'
    <3>1. read'[c] = e + base' + stock' /\ stock' # 0 /\ base' + stock' <= size'
      BY <1>1, <1>4, <2>4, <2>6
    <3>2. base' < size' /\ div' + stock' = Len(msg') + 1
      BY <1>1, <1>2, <1>4, <2>4
    <3>3. \A i \in 1 .. base' : slot'[i] = w[e + i]
      BY <1>1, <2>4
    <3>4. \A i \in 1 .. stock' : msg'[div' - 1 + i] = w[e + base' + i]
      <4>1. \A i \in 1 .. k : div' - 1 + i = i /\ e + base' + i = r + i
        BY <1>1, <2>4
      <4> QED
        BY <1>2, <2>4, <4>1
    <3> QED
      BY <3>1, <3>2, <3>3, <3>4 DEF Cuts, w, e
  <2> QED
    BY <1>1, <1>2, <1>4, <2>4, <2>5, <2>6, <2>7 DEF Framed, w
<1> QED
  BY <1>1, <1>3, <1>4

(* What is in stock and what follows it of the read stand side by side.      *)
LEMMA PiecedIs ==
    ASSUME NEW c \in Conns, NEW e \in Nat, NEW m \in Nat, base \in Nat, div \in Nat \ {0},
           e + base + m <= Len(Wire(c)),
           \A i \in 1 .. base : slot[i] = Wire(c)[e + i],
           \A i \in 1 .. m : msg[div - 1 + i] = Wire(c)[e + base + i]
    PROVE  /\ Pieced(m) \in Seq(Cells) /\ Len(Pieced(m)) = base + m
           /\ \A i \in 1 .. base + m : Pieced(m)[i] = Wire(c)[e + i]
<1> DEFINE w == Wire(c)
           l == div + m - 1
           s == SubSeq(slot, 1, base)
           t == SubSeq(msg, div, l)
<1>1. w \in Seq(Cells)
  BY WireIs
<1> HIDE DEF w
<1>2. \A i \in 1 .. Len(w) : w[i] \in Cells
  BY <1>1
<1>3. /\ 1 \in Int /\ base \in Int /\ div \in Int /\ l \in Int
      /\ \A i \in 1 .. base : slot[i] = w[e + i] /\ slot[i] \in Cells
      /\ base - 1 + 1 = base /\ \A i \in 1 .. base : 1 + i - 1 = i
      /\ (IF 1 <= base THEN base - 1 + 1 ELSE 0) = base
  BY <1>2 DEF w
<1>4. s \in Seq(Cells) /\ Len(s) = base /\ \A i \in 1 .. base : s[i] = w[e + i]
  <2>1. /\ s \in Seq(Cells)
        /\ Len(s) = IF 1 <= base THEN base - 1 + 1 ELSE 0
        /\ \A i \in 1 .. base - 1 + 1 : s[i] = slot[1 + i - 1]
    BY <1>3, SubSeqProperties
  <2> HIDE DEF s
  <2> QED
    BY <1>3, <2>1
<1>5. t \in Seq(Cells) /\ Len(t) = m /\ \A i \in 1 .. m : t[i] = w[e + base + i]
  <2>1. \A i \in div .. l : i - div + 1 \in 1 .. m /\ div - 1 + (i - div + 1) = i
    OBVIOUS
  <2>2. \A i \in 1 .. m : msg[div - 1 + i] = w[e + base + i] /\ e + base + i \in 1 .. Len(w)
    BY DEF w
  <2>3. ASSUME NEW i \in div .. l PROVE msg[i] \in Cells
    <3> DEFINE j == i - div + 1
    <3>1. j \in 1 .. m /\ div - 1 + j = i
      BY <2>1
    <3> HIDE DEF j
    <3>2. msg[div - 1 + j] \in Cells
      BY <1>2, <2>2, <3>1
    <3> QED
      BY <3>1, <3>2
  <2>4. /\ (IF div <= l THEN l - div + 1 ELSE 0) = m /\ l - div + 1 = m
        /\ \A i \in 1 .. m : div + i - 1 = div - 1 + i
    OBVIOUS
  <2> HIDE DEF l
  <2>5. /\ t \in Seq(Cells)
        /\ Len(t) = IF div <= l THEN l - div + 1 ELSE 0
        /\ \A i \in 1 .. l - div + 1 : t[i] = msg[div + i - 1]
    BY <1>3, <2>3, SubSeqProperties
  <2> HIDE DEF t
  <2> QED
    BY <2>2, <2>4, <2>5
<1>6. Pieced(m) = s \o t
  BY DEF Pieced
<1> HIDE DEF s, t
<1>7. /\ s \o t \in Seq(Cells) /\ Len(s \o t) = Len(s) + Len(t)
      /\ \A i \in 1 .. Len(s) + Len(t) : (s \o t)[i] = IF i <= Len(s) THEN s[i] ELSE t[i - Len(s)]
  BY <1>4, <1>5, ConcatProperties
<1>8. ASSUME NEW i \in 1 .. base + m PROVE (s \o t)[i] = w[e + i]
  <2>1. CASE i <= base
    BY <1>4, <1>5, <1>7, <2>1
  <2>2. CASE ~(i <= base)
    <3>1. i - base \in 1 .. m /\ e + base + (i - base) = e + i
      BY <2>2
    <3>2. (s \o t)[i] = t[i - base]
      BY <1>4, <1>5, <1>7, <2>2
    <3> QED
      BY <1>5, <3>1, <3>2
  <2> QED
    BY <2>1, <2>2
<1> QED
  BY <1>4, <1>5, <1>6, <1>7, <1>8 DEF w

LEMMA StockFrames ==
    ASSUME NEW c \in Conns, Conns = {c}, NEW n, Framed(c, n), Stock
    PROVE  Framed(c, n)'
<1> DEFINE w == Wire(c)
           e == End(c, n)
<1>1. n \in 0 .. Len(Stream[c]) /\ e \in Nat
  BY WireIs DEF Framed
<1>2. /\ read[c] = e + base + stock /\ stock \in Nat /\ base \in Nat /\ div \in Nat \ {0}
      /\ stock > 0 /\ size - base > stock /\ e + base + stock <= Len(w)
      /\ \A i \in 1 .. base : slot[i] = w[e + i]
      /\ \A i \in 1 .. stock : msg[div - 1 + i] = w[e + base + i]
  BY DEF Framed, Cuts, Stock
<1>3. \A i \in 1 .. base + stock : Pieced(stock)[i] = w[e + i]
  <2> HIDE DEF e
  <2> QED
    BY <1>1, <1>2, PiecedIs
<1>4. slot' = Pieced(stock) /\ stock' = stock + base /\ cutter' = "idle"
  BY DEF Stock
<1>5. UNCHANGED <<read, from, msg, div, base, size, handed>>
  BY DEF Stock
<1>6. stock' = base + stock /\ stock' \in Nat /\ stock' > 0 /\ read[c] = e + stock' /\ stock' < size
  <2>1. size \in Nat
    BY DEF Framed
  <2> QED
    BY <1>1, <1>2, <1>4, <2>1
<1>7. Waits(c, n)'
  BY <1>3, <1>4, <1>5, <1>6 DEF Waits
<1> QED
  BY <1>2, <1>4, <1>5, <1>6, <1>7 DEF Framed

LEMMA CutFrames ==
    ASSUME NEW c \in Conns, Conns = {c}, NEW n, Framed(c, n), Cut
    PROVE  Framed(c, n + 1)'
<1> DEFINE w == Wire(c)
           e == End(c, n)
           e1 == End(c, n + 1)
           m == size - base
           packet == Pieced(m)
           l == Len(Stream[c])
           lm == Len(msg)
           s1 == stock'
           d1 == div'
           lw == Len(w)
<1>1. /\ n \in 0 .. Len(Stream[c]) /\ e \in Nat /\ w \in Seq(Cells)
      /\ l \in Nat /\ n \in 0 .. l
  BY WireIs, StreamAssumption DEF Framed
<1>2. /\ read[c] = e + base + stock /\ stock \in Nat /\ base \in Nat /\ div \in Nat \ {0}
      /\ stock > 0 /\ m <= stock /\ read[c] <= Len(w) /\ base < size /\ size \in Nat
      /\ size = Stream[c][n + 1] /\ n < l /\ (base > 0 => base + stock <= size)
      /\ \A i \in 1 .. base : slot[i] = w[e + i]
      /\ \A i \in 1 .. stock : msg[div - 1 + i] = w[e + base + i]
      /\ div + stock = Len(msg) + 1 /\ msg \in Seq(Cells)
  BY DEF Framed, Cuts, Cut
<1>l. lw \in Nat /\ lm \in Nat
  <2> HIDE DEF w
  <2> QED
    BY <1>1, <1>2, LenProperties
<1>n. /\ read[c] = e + base + stock /\ read[c] <= lw /\ stock \in Nat /\ base \in Nat
      /\ div \in Nat \ {0} /\ stock > 0 /\ size - base <= stock /\ base < size /\ size \in Nat
      /\ (base > 0 => base + stock <= size) /\ div + stock = lm + 1 /\ e \in Nat
      /\ lw \in Nat /\ lm \in Nat
  BY <1>1, <1>2, <1>l
<1> HIDE DEF w, e, e1, l, lm, lw
<1>3. n + 1 \in 1 .. l /\ n \in 0 .. l - 1
  BY <1>1, <1>2
<1>4. /\ Packet(c, n + 1) \in Seq(Cells) /\ Len(Packet(c, n + 1)) = size /\ size \in Nat \ {0}
      /\ \A i \in 1 .. size : Packet(c, n + 1)[i] = Cell(c, n + 1, i)
      /\ e1 = e + size /\ \A i \in 1 .. size : w[e + i] = Cell(c, n + 1, i)
  BY <1>2, <1>3, PacketIs, WireIs DEF w, e, e1, l
<1>5. packet = Packet(c, n + 1)
  <2>1. m \in Nat /\ base + m = size /\ e + base + m <= Len(w)
    BY <1>n DEF lw
  <2>2. ASSUME NEW i \in 1 .. m PROVE msg[div - 1 + i] = w[e + base + i]
    <3>1. i \in 1 .. stock
      BY <1>n, <2>1
    <3> QED
      BY <1>2, <3>1
  <2> HIDE DEF m
  <2>a. /\ e \in Nat /\ base \in Nat /\ div \in Nat \ {0} /\ \A i \in 1 .. base : slot[i] = w[e + i]
    BY <1>n, <1>2
  <2>b. /\ packet \in Seq(Cells) /\ Len(packet) = base + m
        /\ \A i \in 1 .. base + m : packet[i] = w[e + i]
    BY <2>1, <2>2, <2>a, PiecedIs DEF w
  <2>3. packet \in Seq(Cells) /\ Len(packet) = size /\ \A i \in 1 .. size : packet[i] = w[e + i]
    BY <2>1, <2>b
  <2> HIDE DEF packet
  <2> QED
    BY <1>4, <2>3, SeqEqual
<1>6. IsMark(Last(packet))
  <2>1. Last(packet) = Cell(c, n + 1, size)
    BY <1>4, <1>5 DEF Last
  <2> QED
    BY <1>2, <2>1 DEF IsMark, Cell
<1>7. /\ handed' = [handed EXCEPT ![from] = Append(@, packet)]
      /\ stock' = IF base + stock # size THEN stock - size ELSE 0
      /\ div' = div + size /\ base' = 0
      /\ size' = IF IsSize(msg, div') THEN SizeIn(msg, div') ELSE size
      /\ cutter' = IF stock' > 0 /\ ~IsSize(msg, div') THEN "astray" ELSE "cutting"
      /\ UNCHANGED <<read, from, msg, slot>>
  BY <1>6 DEF Cut
<1>8. /\ s1 \in Nat /\ base' = 0 /\ read[c] = e1 + s1 /\ d1 \in Nat \ {0}
      /\ d1 + s1 >= lm + 1
      /\ s1 > 0 => base = 0 /\ d1 + s1 = lm + 1 /\ d1 - 1 = div - 1 + size
                       /\ stock = size + s1
  <2>1. e1 = e + size /\ size \in Nat \ {0}
    BY <1>4
  <2>2. /\ stock' = IF base + stock # size THEN stock - size ELSE 0
        /\ div' = div + size /\ base' = 0
    BY <1>7
  <2> QED
    BY <1>n, <2>1, <2>2
<1> HIDE DEF s1, d1
<1>s. /\ stock' = s1 /\ div' = d1 /\ base' = 0 /\ UNCHANGED <<read, from, msg, slot>>
      /\ size' = IF IsSize(msg, d1) THEN SizeIn(msg, d1) ELSE size
      /\ cutter' = IF s1 > 0 /\ ~IsSize(msg, d1) THEN "astray" ELSE "cutting"
  BY <1>7 DEF s1, d1
<1>9. handed' = [d \in Conns |-> [k \in 1 .. n + 1 |-> Packet(d, k)]]
  <2>1. handed = [d \in Conns |-> [k \in 1 .. n |-> Packet(d, k)]] /\ from = c
    BY DEF Framed
  <2>2. Append([k \in 1 .. n |-> Packet(c, k)], Packet(c, n + 1)) = [k \in 1 .. n + 1 |-> Packet(c, k)]
    <3>1. n \in Nat
      BY <1>1
    <3> QED
      BY <3>1
  <2> QED
    BY <1>5, <1>7, <2>1, <2>2
<1>i. /\ n + 1 \in 0 .. Len(Stream[c]) /\ read' \in [Conns -> Nat] /\ read'[c] <= Len(Wire(c))
      /\ from' = c /\ base' \in Nat /\ size \in Nat /\ div' \in Nat \ {0} /\ msg' \in Seq(Cells)
      /\ stock' \in Nat
  <2>1. read \in [Conns -> Nat] /\ from = c /\ msg \in Seq(Cells)
    BY DEF Framed
  <2>2. n + 1 \in 0 .. l
    BY <1>1, <1>3
  <2> QED
    BY <1>n, <1>s, <1>8, <2>1, <2>2 DEF l, w, lw
<1>10. CASE s1 = 0
  <2>1. ~IsSize(msg, d1)
    <3>1. ~(d1 <= Len(msg))
      BY <1>n, <1>8, <1>10 DEF lm
    <3> QED
      BY <1>2, <1>8, <3>1 DEF IsSize
  <2>2. size' = size /\ cutter' = "cutting"
    BY <1>s, <1>10, <2>1
  <2>3. Cuts(c, n + 1)'
    <3>1. /\ base' = 0 /\ size' \in Nat \ {0} /\ 1 .. 0 = {} /\ read' = read /\ stock' = 0
          /\ read[c] = e1 + 0 + 0 /\ ~(0 > 0)
      BY <1>s, <1>n, <1>4, <1>8, <1>10, <2>2
    <3> QED
      BY <3>1 DEF Cuts, e1
  <2> QED
    BY <1>i, <1>s, <1>9, <1>10, <2>2, <2>3 DEF Framed
<1>11. CASE s1 > 0
  <2>m. s1 \in Nat \ {0} /\ e1 = e + size /\ e1 \in Nat
    BY <1>n, <1>4, <1>8, <1>11
  <2>n. /\ s1 \in Nat \ {0} /\ e1 = e + size /\ e1 \in Nat /\ e \in Nat /\ base = 0
        /\ size \in Nat \ {0} /\ stock = size + s1 /\ stock \in Nat /\ lm \in Nat
        /\ d1 \in Nat \ {0} /\ div \in Nat \ {0} /\ d1 - 1 = div - 1 + size
        /\ d1 + s1 = lm + 1
    BY <1>n, <1>4, <1>8, <1>11, <2>m
  <2>1. e1 < Len(w)
    BY <1>n, <1>8, <2>n DEF lw
  <2>2. /\ n + 1 < l /\ Stream[c][(n + 1) + 1] \in Nat \ {0} /\ w[e1 + 1] = Cell(c, (n + 1) + 1, 1)
    <3>1. n + 1 \in 0 .. l
      BY <1>1, <1>3
    <3> QED
      BY <2>1, <3>1, NextBegins DEF w, e1, l
  <2>3. \A i \in 1 .. s1 : msg[d1 - 1 + i] = w[e1 + i]
    <3>1. ASSUME NEW i \in 1 .. s1 PROVE msg[d1 - 1 + i] = w[e1 + i]
      <4>1. size + i \in 1 .. stock
        BY <2>n
      <4>2. d1 - 1 + i = div - 1 + (size + i)
        BY <2>n
      <4>3. e + base + (size + i) = e1 + i
        BY <2>n
      <4> QED
        BY <1>2, <4>1, <4>2, <4>3
    <3> QED
      BY <3>1
  <2>4. d1 \in 1 .. Len(msg) /\ msg[d1] = Cell(c, (n + 1) + 1, 1)
    <3>1. d1 \in 1 .. lm
      BY <2>n
    <3>2. 1 \in 1 .. s1 /\ d1 - 1 + 1 = d1
      BY <2>n
    <3> QED
      BY <2>2, <2>3, <3>1, <3>2 DEF lm
  <2>5. IsSize(msg, d1) /\ SizeIn(msg, d1) = Stream[c][(n + 1) + 1]
    BY <2>4, FirstIsSize
  <2>6. size' = Stream[c][(n + 1) + 1] /\ cutter' = "cutting"
    BY <1>s, <1>7, <2>5
  <2>7. Cuts(c, n + 1)'
    <3>1. /\ base' = 0 /\ size' \in Nat \ {0} /\ 1 .. 0 = {} /\ read' = read /\ msg' = msg
          /\ read[c] = e1 + 0 + s1
      BY <1>s, <1>7, <1>8, <2>2, <2>6, <2>n
    <3>2. 0 < size' /\ d1 + s1 = Len(msg') + 1
      BY <2>n, <3>1 DEF lm
    <3>3. \A i \in 1 .. s1 : msg[d1 - 1 + i] = w[e1 + 0 + i]
      BY <2>n, <2>3
    <3> QED
      BY <1>s, <2>n, <3>1, <3>2, <3>3 DEF Cuts, w, e1
  <2> QED
    BY <1>i, <1>s, <1>9, <2>n, <2>2, <2>6, <2>7 DEF Framed, l
<1> QED
  BY <1>8, <1>10, <1>11

LEMMA ReadIsCutFrames ==
    ASSUME NEW c \in Conns, Conns = {c}, NEW n, Framed(c, n), ReadIsCut
    PROVE  Framed(c, n)'
<1>1. stock = 0 /\ base = 0 /\ read[c] = End(c, n) + base + stock /\ End(c, n) \in Nat
  BY WireIs DEF ReadIsCut, Framed, Cuts
<1>2. cutter' = "idle" /\ UNCHANGED <<read, from, msg, div, base, stock, slot, size, handed>>
  BY DEF ReadIsCut
<1>3. Waits(c, n)'
  <2>1. read[c] = End(c, n) + stock /\ 1 .. 0 = {} /\ ~(0 > 0)
    BY <1>1
  <2> QED
    BY <1>1, <1>2, <2>1 DEF Waits
<1> QED
  BY <1>2, <1>3 DEF Framed

(* At the beginning of a stream.                                           *)
LEMMA NothingIs ==
    ASSUME NEW c \in Conns
    PROVE  /\ End(c, 0) = 0 /\ Len(Wire(c)) \in Nat /\ 0 \in 0 .. Len(Stream[c])
           /\ 1 .. 0 = {} /\ ~(0 > 0) /\ 0 + 0 = 0
           /\ [d \in Conns |-> <<>>] = [d \in Conns |-> [k \in 1 .. 0 |-> Packet(d, k)]]
<1>1. End(c, 0) = 0 /\ Len(Wire(c)) \in Nat /\ 0 \in 0 .. Len(Stream[c])
  BY WireIs, StreamAssumption
<1>2. ASSUME NEW d \in Conns PROVE [k \in 1 .. 0 |-> Packet(d, k)] = <<>>
  OBVIOUS
<1>3. 1 .. 0 = {} /\ ~(0 > 0) /\ 0 + 0 = 0
  OBVIOUS
<1> QED
  BY <1>1, <1>2, <1>3

LEMMA SendAgainFrames ==
    ASSUME NEW c \in Conns, Conns = {c}, NEW n, Framed(c, n), SendAgain
    PROVE  Framed(c, 0)'
<1>1. /\ read' = [d \in Conns |-> 0] /\ handed' = [d \in Conns |-> <<>>]
      /\ from' = c /\ stock' = 0 /\ base' \in Nat /\ size' \in Nat /\ div' \in Nat \ {0}
      /\ msg' \in Seq(Cells) /\ cutter' = "idle"
  BY DEF SendAgain, Framed
<1>2. Waits(c, 0)'
  BY <1>1, NothingIs DEF Waits
<1> QED
  BY <1>1, <1>2, NothingIs DEF Framed

FramingInv(c) == \E n : Framed(c, n)

LEMMA FramingStarts ==
    ASSUME NEW c, Conns = {c}
    PROVE  InitFraming => FramingInv(c)
<1> SUFFICES ASSUME InitFraming PROVE Framed(c, 0)
  BY DEF FramingInv
<1>1. from = c /\ <<>> \in Seq(Cells)
  BY DEF InitFraming
<1> QED
  <2>1. Waits(c, 0)
    BY NothingIs DEF Waits, InitFraming
  <2> QED
    BY <1>1, <2>1, NothingIs DEF Framed, InitFraming

LEMMA FramingStep ==
    ASSUME NEW c, Conns = {c}, ~Spans
    PROVE  FramingInv(c) /\ [NextFraming]_frameVars => FramingInv(c)'
<1> SUFFICES ASSUME FramingInv(c), [NextFraming]_frameVars PROVE FramingInv(c)'
  OBVIOUS
<1>1. PICK n : Framed(c, n)
  BY DEF FramingInv
<1>2. c \in Conns
  OBVIOUS
<1>3. ASSUME NEW d \in Conns, NEW k \in 1 .. Len(Wire(d)), Receive(d, k) PROVE FramingInv(c)'
  <2>1. d = c
    OBVIOUS
  <2> QED
    BY <1>1, <1>2, <1>3, <2>1, ReceiveFrames DEF FramingInv
<1>4. CASE Stock
  BY <1>1, <1>2, <1>4, StockFrames DEF FramingInv
<1>5. CASE Cut
  BY <1>1, <1>2, <1>5, CutFrames DEF FramingInv
<1>6. CASE ReadIsCut
  BY <1>1, <1>2, <1>6, ReadIsCutFrames DEF FramingInv
<1>7. CASE SendAgain
  BY <1>1, <1>2, <1>7, SendAgainFrames DEF FramingInv
<1>8. CASE UNCHANGED frameVars
  <2>1. Framed(c, n)'
    BY <1>1, <1>8 DEF frameVars, Framed, Waits, Cuts
  <2> QED
    BY <2>1 DEF FramingInv
<1> QED
  BY <1>3, <1>4, <1>5, <1>6, <1>7, <1>8 DEF NextFraming

LEMMA FramedIsRight ==
    ASSUME NEW c, Conns = {c}, FramingInv(c)
    PROVE  TypeOKFraming /\ StreamIsCutRight
<1>1. PICK n : Framed(c, n)
  BY DEF FramingInv
<1> DEFINE l == Len(Stream[c])
<1>2. c \in Conns /\ l \in Nat /\ n \in 0 .. l
  BY <1>1, StreamAssumption DEF Framed
<1>3. /\ handed[c] = [k \in 1 .. n |-> Packet(c, k)] /\ Packets(c) = [k \in 1 .. l |-> Packet(c, k)]
      /\ DOMAIN handed = Conns
  BY <1>1, <1>2 DEF Framed, Packets
<1> HIDE DEF l
<1>4. Len(handed[c]) = n /\ Len(Packets(c)) = l
  BY <1>2, <1>3
<1>5. IsPrefix(handed[c], Packets(c))
  <2>1. \A k \in 1 .. l : Packet(c, k) \in Seq(Cells)
    BY <1>2, PacketIs DEF l
  <2>2. handed[c] \in Seq(Seq(Cells)) /\ Packets(c) \in Seq(Seq(Cells))
    <3>1. \A k \in 1 .. n : k \in 1 .. l
      BY <1>2
    <3> QED
      BY <1>2, <1>3, <2>1, <3>1
  <2>3. ASSUME NEW s \in Seq(Seq(Cells)), n <= Len(s), \A k \in 1 .. n : s[k] = Packet(c, k)
        PROVE  SubSeq(s, 1, n) = [k \in 1 .. n |-> Packet(c, k)]
    <3>1. 1 \in Int /\ n \in Int /\ n - 1 + 1 = n /\ (IF 1 <= n THEN n - 1 + 1 ELSE 0) = n
          /\ \A k \in 1 .. n : s[k] \in Seq(Cells) /\ 1 + k - 1 = k
      BY <1>2, <2>3
    <3>2. /\ SubSeq(s, 1, n) \in Seq(Seq(Cells))
          /\ Len(SubSeq(s, 1, n)) = IF 1 <= n THEN n - 1 + 1 ELSE 0
          /\ \A k \in 1 .. n - 1 + 1 : SubSeq(s, 1, n)[k] = s[1 + k - 1]
      BY <3>1, SubSeqProperties
    <3> DEFINE r == SubSeq(s, 1, n)
    <3>3. r \in Seq(Seq(Cells)) /\ Len(r) = n /\ \A k \in 1 .. n : r[k] = Packet(c, k)
      BY <2>3, <3>1, <3>2
    <3> HIDE DEF r
    <3>4. r = [k \in 1 .. Len(r) |-> r[k]]
      BY <3>3, LenProperties
    <3>5. r = [k \in 1 .. n |-> Packet(c, k)]
      BY <3>3, <3>4
    <3> QED
      BY <3>5 DEF r
  <2>4. /\ n <= Len(handed[c]) /\ \A k \in 1 .. n : handed[c][k] = Packet(c, k)
        /\ n <= Len(Packets(c)) /\ \A k \in 1 .. n : Packets(c)[k] = Packet(c, k)
    BY <1>2, <1>3, <1>4
  <2> QED
    BY <1>4, <2>2, <2>3, <2>4 DEF IsPrefix
<1>6. cutter = "idle" /\ read[c] = Len(Wire(c)) => handed[c] = Packets(c)
  <2> SUFFICES ASSUME cutter = "idle", read[c] = Len(Wire(c)) PROVE n = l
    BY <1>3
  <2> SUFFICES ASSUME n # l PROVE FALSE
    OBVIOUS
  <2>1. n \in 0 .. l - 1 /\ n + 1 \in 0 .. l /\ n + 1 \in 1 .. l
    BY <1>2
  <2>2. /\ End(c, n + 1) = End(c, n) + Stream[c][n + 1] /\ End(c, n + 1) <= Len(Wire(c))
        /\ End(c, n) \in Nat /\ Stream[c][n + 1] \in Nat \ {0}
    BY <1>2, <2>1, WireIs, PacketIs DEF l
  <2>3. /\ Len(Wire(c)) = End(c, n) + stock /\ stock \in Nat /\ size \in Nat
        /\ stock > 0 => stock < size /\ size = Stream[c][n + 1]
    BY <1>1 DEF Framed, Waits
  <2> QED
    BY <2>2, <2>3
<1>7. cutter # "astray"
  BY <1>1 DEF Framed
<1>8. TypeOKFraming
  <2>1. Len(Wire(c)) \in Nat
    BY <1>2, WireIs
  <2> QED
    BY <1>1, <1>3, <2>1 DEF TypeOKFraming, Framed
<1> QED
  BY <1>5, <1>6, <1>7, <1>8 DEF StreamIsCutRight, HandedAsSent, NothingKeptBack, AllRead

(* However reads cut the stream of a connection, PacketProc gets the packets *)
(* that were sent, whole and in order, as long as there is one connection    *)
(* and no read goes on past the end of a packet that was in stock.          *)
THEOREM OneStreamIsCutRight ==
    ASSUME NEW c, Conns = {c}, ~Spans
    PROVE  SpecFraming => [](TypeOKFraming /\ StreamIsCutRight)
<1>1. InitFraming => FramingInv(c)
  BY FramingStarts
<1>2. FramingInv(c) /\ [NextFraming]_frameVars => FramingInv(c)'
  BY FramingStep
<1>3. FramingInv(c) => TypeOKFraming /\ StreamIsCutRight
  BY FramedIsRight
<1> QED
  BY <1>1, <1>2, <1>3, PTL DEF SpecFraming

-----------------------------------------------------------------------------
(* Types, for any number of connections and any reads.  A cell of the last    *)
(* read is a cell that was sent, so that the size read out of it is one.      *)
FramingTypes ==
    /\ read \in [Conns -> Nat] /\ \A c \in Conns : read[c] <= Len(Wire(c))
    /\ from \in Conns /\ cutter \in {"idle", "cutting", "astray"}
    /\ msg \in Seq(Cells)
    /\ base \in Nat /\ stock \in Int /\ div \in Nat /\ size \in Nat
    /\ DOMAIN handed = Conns

LEMMA SizeIsNumber ==
    ASSUME NEW cells \in Seq(Cells), NEW i, IsSize(cells, i)
    PROVE  SizeIn(cells, i) \in Nat
<1>1. i \in 1 .. Len(cells) /\ cells[i] \in Cells
  BY DEF IsSize
<1> DEFINE x == cells[i]
<1>2. x.conn \in Conns /\ x.packet \in 1 .. Len(Stream[x.conn])
  BY <1>1 DEF Cells
<1>3. Stream[x.conn][x.packet] \in Nat \ {0}
  BY <1>2, PacketIs
<1> QED
  BY <1>3 DEF SizeIn

LEMMA WireLength ==
    \A c \in Conns : Len(Wire(c)) \in Nat
<1> SUFFICES ASSUME NEW c \in Conns PROVE Len(Wire(c)) \in Nat
  OBVIOUS
<1>1. Wire(c) \in Seq(Cells)
  BY WireIs
<1> QED
  BY <1>1, LenProperties

LEMMA FramingTypesInit == InitFraming => FramingTypes
<1>1. <<>> \in Seq(Cells)
  OBVIOUS
<1> QED
  BY <1>1, WireLength DEF InitFraming, FramingTypes

LEMMA FramingTypesStep == FramingTypes /\ [NextFraming]_frameVars => FramingTypes'
<1> SUFFICES ASSUME FramingTypes, [NextFraming]_frameVars PROVE FramingTypes'
  OBVIOUS
<1>1. ASSUME NEW c \in Conns, NEW k \in 1 .. Len(Wire(c)), Receive(c, k) PROVE FramingTypes'
  <2>1. read[c] \in Nat /\ k \in Nat /\ read[c] + k <= Len(Wire(c))
    BY <1>1, WireLength DEF FramingTypes, Receive
  <2>2. msg' \in Seq(Cells)
    BY <1>1, <2>1, StretchIs DEF Receive, Stretch
  <2>3. read' \in [Conns -> Nat] /\ \A d \in Conns : read'[d] <= Len(Wire(d))
    BY <1>1, <2>1 DEF Receive, FramingTypes
  <2>4. size' \in Nat
    BY <1>1, <2>2, SizeIsNumber DEF Receive, FramingTypes
  <2>5. base' \in Nat /\ stock' \in Int /\ div' \in Nat
    BY <1>1, <2>1 DEF Receive, FramingTypes
  <2> QED
    BY <1>1, <2>2, <2>3, <2>4, <2>5 DEF Receive, FramingTypes
<1>2. CASE Stock
  BY <1>2 DEF Stock, FramingTypes
<1>3. CASE Cut
  <2>1. size' \in Nat
    BY <1>3, SizeIsNumber DEF Cut, FramingTypes
  <2>2. DOMAIN handed' = Conns
    BY <1>3 DEF Cut, FramingTypes
  <2>3. div' \in Nat /\ base' \in Nat /\ stock' \in Int
    BY <1>3 DEF Cut, FramingTypes
  <2>4. cutter' \in {"idle", "cutting", "astray"}
    BY <1>3 DEF Cut
  <2> QED
    BY <1>3, <2>1, <2>2, <2>3, <2>4 DEF Cut, FramingTypes
<1>4. CASE ReadIsCut
  BY <1>4 DEF ReadIsCut, FramingTypes
<1>5. CASE SendAgain
  BY <1>5, WireLength DEF SendAgain, FramingTypes
<1>6. CASE UNCHANGED frameVars
  BY <1>6 DEF frameVars, FramingTypes
<1> QED
  BY <1>1, <1>2, <1>3, <1>4, <1>5, <1>6 DEF NextFraming

LEMMA FramingTypesAre == FramingTypes => TypeOKFraming
BY WireLength DEF FramingTypes, TypeOKFraming

(* The indices with which CPacketReceiver cuts the streams of any number of   *)
(* connections keep their types, also when it reads a size where none is.     *)
THEOREM FramingHasItsTypes == SpecFraming => []TypeOKFraming
BY FramingTypesInit, FramingTypesStep, FramingTypesAre, PTL DEF SpecFraming

(***************************************************************************)
(* The composition: a step of the whole is a step or a stutter of each part. *)
(***************************************************************************)

LEMMA FlowIsComposed ==
    /\ InitFlow => InitBullets /\ InitRanking /\ InitFiles /\ InitSend /\ InitFraming
    /\ [NextFlow]_flowVars =>
         /\ [NextBullets]_bulletVars /\ [NextRanking]_rankVars /\ [NextFiles]_fileVars
         /\ [NextSend]_sendVars /\ [NextFraming]_frameVars
<1>1. InitFlow => InitBullets /\ InitRanking /\ InitFiles /\ InitSend /\ InitFraming
  BY DEF InitFlow
<1>2. ASSUME NextFlow
      PROVE  /\ [NextBullets]_bulletVars /\ [NextRanking]_rankVars /\ [NextFiles]_fileVars
             /\ [NextSend]_sendVars /\ [NextFraming]_frameVars
  BY <1>2 DEF NextFlow, Aside
<1>3. ASSUME UNCHANGED flowVars
      PROVE  /\ UNCHANGED bulletVars /\ UNCHANGED rankVars /\ UNCHANGED fileVars
             /\ UNCHANGED sendVars /\ UNCHANGED frameVars
  BY <1>3 DEF flowVars
<1> QED
  BY <1>1, <1>2, <1>3

(* Run side by side the five parts keep their types and their promises.      *)
THEOREM FlowIsSound ==
    SpecFlow => [](TypeOKFlow /\ ObjectsAgree /\ RanksAreRight /\ TransferIsSound /\ NoLostWakeup)
<1>1. SpecFlow => [](TypeOKBullets /\ ObjectsAgree)
  BY FlowIsComposed, TheTableAgrees, PTL DEF SpecFlow, SpecBullets
<1>2. SpecFlow => [](TypeOKFiles /\ TransferIsSound)
  BY FlowIsComposed, TransfersAreSound, PTL DEF SpecFlow, SpecFiles
<1>3. SpecFlow => [](TypeOKSend /\ NoLostWakeup)
  BY FlowIsComposed, SenderIsWoken, PTL DEF SpecFlow, SpecSend
<1>4. SpecFlow => []TypeOKFraming
  BY FlowIsComposed, FramingHasItsTypes, PTL DEF SpecFlow, SpecFraming
<1>5. SpecFlow => []RankInv /\ []RankTypeInv
  BY FlowIsComposed, RankInvInit, RankInvStep, RankTypeInvInit, RankTypeInvStep, PTL DEF SpecFlow
<1>6. RankInv /\ RankTypeInv => TypeOKRanking /\ RanksAreRight
  BY RankInvMeans DEF RankTypeInv, RankTypes, GameLeft, TypeOKRanking
<1>7. TypeOKBullets /\ TypeOKRanking /\ TypeOKFiles /\ TypeOKSend /\ TypeOKFraming => TypeOKFlow
  BY DEF TypeOKFlow
<1> QED
  BY <1>1, <1>2, <1>3, <1>4, <1>5, <1>6, <1>7, PTL

=============================================================================
