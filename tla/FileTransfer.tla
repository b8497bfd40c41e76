---------------------------- MODULE FileTransfer ----------------------------
(***************************************************************************)
(* How a client whose scripts differ from the server's gets them, and in.   *)
(*                                                                         *)
(* CPacketProcAuth compares the client's list of hashes with its own, names *)
(* the first script that differs, then serves its files one request at a    *)
(* time; when a script is through it counts it (extdata1 for stages,         *)
(* extdata2 for characters) and names the next one by that count, until      *)
(* all are counted.  The count says nothing of which script it was: that     *)
(* the walk still passes over all that differ is what is checked.            *)
(*                                                                         *)
(* The client is not part of the repository: it asks for the files of the   *)
(* script named last, in order, fetches those that differ, and sends its     *)
(* list again at the end.                                                    *)
(***************************************************************************)
EXTENDS Integers

CONSTANTS
    Stages, Characters,  \* how many scripts of each group are installed
    Files, Sizes,        \* how many files a script has, and the size of each
    Chunk,               \* MAX_SEND_BUFFER_SIZE
    LoginTimeout         \* LOGIN_TIMEOUT, in frames

ASSUME ScriptsAssumption == Stages \in Nat \ {0} /\ Characters \in Nat \ {0}
ASSUME SizesAssumption == Files \in Nat /\ Sizes \in [0 .. Files - 1 -> Nat]
ASSUME ChunkAssumption == Chunk \in Nat \ {0} /\ LoginTimeout \in Nat \ {0}

\* A script is its group and its position in the server's map.
StageScripts == {"stage"} \X (0 .. Stages - 1)
CharaScripts == {"chara"} \X (0 .. Characters - 1)
Installed      == StageScripts \cup CharaScripts

VARIABLES
    stale,    \* the client's scripts that differ from the server's
    job,      \* the script the client is fetching
    fileno,   \* the file of it
    at,       \* nDatIndex of the next request for data
    counted,  \* [stage |-> extdata1, chara |-> extdata2]
    waiting,  \* game_ready: the server waits for the list of hashes
    frames,   \* frame_count
    login     \* "new", "listing", "files", "data", "again", "in" or "out"

fileVars == <<stale, job, fileno, at, counted, waiting, frames, login>>

NoCount == [stage |-> 0, chara |-> 0]

InitFiles ==
    /\ stale \in SUBSET Installed
    /\ job = <<"stage", 0>> /\ fileno = 0 /\ at = 0
    /\ counted = NoCount
    /\ waiting = FALSE /\ frames = 0
    /\ login = "new"

-----------------------------------------------------------------------------
(* The list of hashes. *)

\* PK_USER_AUTH with a good name and password: the list is asked for.
AskList ==
    /\ login = "new"
    /\ login' = "listing" /\ waiting' = TRUE /\ frames' = 0
    /\ counted' = NoCount
    /\ UNCHANGED <<stale, job, fileno, at>>

\* Mutant: the walk over the map ends at the last.
LastStale(group) ==
    {s \in group : s \in stale /\ \A r \in group : r \in stale => s[2] >= r[2]}
\* The script of a group that differs and before which none does.
FirstStale(group) ==
    {s \in group : s \in stale /\ \A r \in group : r \in stale => s[2] <= r[2]}

\* The client starts on a script.
Named(s) == job' = s /\ fileno' = 0 /\ at' = 0 /\ login' = "files"

\* PK_RET_HASH, PK_CHK_FILE_HASH: all equal, and the user is in ...
ListAccepted ==
    /\ login \in {"listing", "again"} /\ stale = {}
    /\ login' = "in" /\ waiting' = FALSE /\ frames' = 0
    /\ counted' = NoCount
    /\ UNCHANGED <<stale, job, fileno, at>>

\* ... or the first that differs is named, the characters before the stages.
ListRefused ==
    /\ login \in {"listing", "again"} /\ stale # {}
    /\ \E s \in IF stale \cap CharaScripts # {} THEN FirstStale(CharaScripts)
                ELSE FirstStale(StageScripts) : Named(s)
    /\ UNCHANGED <<stale, counted, waiting, frames>>

-----------------------------------------------------------------------------
(* The files. *)

\* Mutant: the server goes on waiting for the list.
WaitsStill == waiting
\* PacketReqFileHash: game_ready = 0
WaitsNoMore == FALSE

\* PK_REQ_FILE_HASH for a file there is: the client keeps an equal one.
FileHash ==
    /\ login = "files" /\ fileno < Files
    /\ waiting' = WaitsNoMore
    /\ \/ login' = "data" /\ at' = 0 /\ job \in stale /\ UNCHANGED fileno
       \/ fileno' = fileno + 1 /\ UNCHANGED <<login, at>>
    /\ UNCHANGED <<stale, job, counted, frames>>

\* The server does not serve files, or cannot read this one: the client goes.
FileRefused ==
    /\ login = "files"
    /\ waiting' = WaitsNoMore /\ login' = "out"
    /\ UNCHANGED <<stale, job, fileno, at, counted, frames>>

\* What a read of Chunk bytes at nDatIndex returns.
ReadAt == IF Sizes[fileno] - at < Chunk THEN Sizes[fileno] - at ELSE Chunk
\* Mutant: a full chunk is taken for the last.
IsEofAtFull == ReadAt <= Chunk
\* bEof: fewer bytes than asked for.
IsEof == ReadAt < Chunk

\* PK_REQ_FILE_DATA: PacketSendFileData.
FileData ==
    /\ login = "data"
    /\ at' = at + ReadAt
    /\ IF IsEof THEN login' = "files" /\ fileno' = fileno + 1
       ELSE UNCHANGED <<login, fileno>>
    /\ UNCHANGED <<stale, job, counted, waiting, frames>>

\* Mutant: every script is counted as a stage.
CountedStage(s) == [counted EXCEPT !.stage = @ + 1]
\* Mutant: a script is not counted.
CountedNot(s) == counted
\* extdata1++ or extdata2++
Counted(s) == [counted EXCEPT ![s[1]] = @ + 1]

\* CheckNextHash: the script at the count, the stages before the characters;
\* none when both groups are counted.
NextHash(n) ==
    IF n.stage < Stages THEN {<<"stage", n.stage>>}
    ELSE IF n.chara < Characters THEN {<<"chara", n.chara>>}
    ELSE {}

\* PK_REQ_FILE_HASH beyond the last file: the script is through.
ScriptSent ==
    /\ login = "files" /\ fileno >= Files
    /\ waiting' = WaitsNoMore
    /\ stale' = stale \ {job}
    /\ counted' = Counted(job)
    /\ IF NextHash(counted') = {} THEN login' = "again" /\ UNCHANGED <<job, fileno, at>>
       ELSE \E s \in NextHash(counted') : Named(s)
    /\ UNCHANGED frames

-----------------------------------------------------------------------------
\* CSyncRoom::Frame counts the frames the server waits for the list.
WaitFrame ==
    /\ login \notin {"in", "out"} /\ waiting
    /\ frames' = (frames + 1) % LoginTimeout
    /\ UNCHANGED <<stale, job, fileno, at, counted, waiting, login>>

\* The user leaves, or another connects in his place.
HangUp ==
    /\ login' = "new" /\ login # "new"
    /\ stale' \in SUBSET Installed
    /\ job' = <<"stage", 0>> /\ fileno' = 0 /\ at' = 0
    /\ counted' = NoCount /\ waiting' = FALSE /\ frames' = 0

\* The client goes on while the server answers, and the receiver serves it.
Serve == AskList \/ ListAccepted \/ ListRefused \/ FileHash \/ FileData \/ ScriptSent
NextFiles == Serve \/ FileRefused \/ WaitFrame \/ HangUp

SpecFiles == InitFiles /\ [][NextFiles]_fileVars
FairFiles == WF_fileVars(Serve)

-----------------------------------------------------------------------------
(* Properties. *)

TypeOKFiles ==
    /\ stale \subseteq Installed /\ job \in Installed
    /\ fileno \in 0 .. Files /\ at \in Nat
    /\ counted \in [stage : 0 .. Stages, chara : 0 .. Characters]
    /\ waiting \in BOOLEAN /\ frames \in 0 .. LoginTimeout - 1
    /\ login \in {"new", "listing", "files", "data", "again", "in", "out"}

\* When the server says that all is sent, nothing the client has differs: the
\* walk by counts, which starts at the first script that differs and goes on
\* at the number of scripts sent, has left none out.
EndMeansCurrent == login = "again" => stale = {}

\* A client that fetches a file is not counted down to a login timeout.
SendingIsNotTimed == login = "data" => ~waiting

\* A transfer neither ends early nor is hung up on while it is under way.
TransferIsSound == EndMeansCurrent /\ SendingIsNotTimed

\* A file is through when all of it was sent, also when its size is a multiple
\* of the chunk.
FileIsWhole ==
    [][login = "data" /\ login' = "files" => at' = Sizes[fileno]]_fileVars

\* Every download ends, with the user in or gone.
DownloadEnds ==
    login \in {"listing", "files", "data", "again"} ~> login \in {"in", "out", "new"}
=============================================================================
