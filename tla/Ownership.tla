------------------------------ MODULE Ownership ------------------------------
(***************************************************************************)
(* Who may use a database file (SqliteStore::open, lock_database, close in *)
(* src/src/store.rs and src/src/store/schema.rs): engines of one or of     *)
(* several processes open files under names that may be links to the same  *)
(* file, race for its lock, look at what the file holds, create the tables *)
(* in an empty one, and let go of it by closing, by being dropped, or by   *)
(* dying with their process.                                               *)
(*                                                                         *)
(* A step is one call to the file system or to SQLite.  The lock is taken  *)
(* by a blocking thread and SQLite works in a thread of its own: both go   *)
(* on when the host drops the future that waits for them, or the engine.   *)
(* An engine here is one attempt to open; it may be made again.            *)
(***************************************************************************)
EXTENDS Integers

CONSTANTS
    Engines,
    Process,       \* the process of each engine
    Files,         \* identities: inodes
    Names,         \* paths
    FileAt,        \* the file a path leads to, links followed
    Found,         \* what the files may hold at first
    Tables,        \* our tables
    ApplicationId, SchemaVersion,
    Inodes,        \* those a new lock file may get
    MaxWrites      \* bound: calls of one engine that wait for its worker

VARIABLES
    content,   \* by file: Absent, or its header and objects
    lockFile,  \* by lock path: the inode there, 0 before the first lock
    engine     \* by engine: where it is, and what it has

vars == <<content, lockFile, engine>>

None   == "none"
Absent == [application |-> -1, version |-> -1, objects |-> {}]
Blank  == [application |-> 0, version |-> 0, objects |-> {}]
Ours   == [application |-> ApplicationId, version |-> SchemaVersion, objects |-> Tables]

ASSUME OwnershipAssumption ==
    /\ FileAt \in [Names -> Files]
    /\ None \notin Names
    /\ ApplicationId \in Nat \ {0} /\ SchemaVersion \in Nat \ {0}
    /\ Inodes \subseteq Nat \ {0}
    /\ \A c \in Found : c \in [application : Int, version : Int, objects : {c.objects}]
    /\ \A c \in Found : c.application = ApplicationId /\ c.version = SchemaVersion
                           => Tables \subseteq c.objects
    /\ MaxWrites \in Nat

\* Places of an engine.  "thread": the blocking thread of lock_database;
\* "worker": the SQLite thread.
ThreadPlaces == {"createFile", "openLock", "tryLock"}
WorkerPlaces == {"check", "initialize", "open"}

Idle == [place |-> "idle", name |-> None, handle |-> <<None, 0>>, holds |-> FALSE,
         detached |-> FALSE, writes |-> 0]

Init ==
    /\ content \in [Files -> Found]
    /\ lockFile = [p \in Files \cup Names |-> 0]
    /\ engine = [e \in Engines |-> Idle]

-----------------------------------------------------------------------------
File(e)   == FileAt[engine[e].name]
At(e, place) == engine[e].place = place

\* Defects for the mutation runs: each has the shape of the definition it
\* stands in for.
FreshByMarkers(c)    == c.application = 0 /\ c.version = 0
UnlockAndUnlink(e) ==
    /\ At(e, "disconnected")
    /\ engine' = [engine EXCEPT ![e] = Idle]
    /\ lockFile' = [lockFile EXCEPT ![engine[e].handle[1]] = 0]
    /\ UNCHANGED content

\* The lock of a file is named by its identity, not by the path that led to it.
LockPath(name) == FileAt[name]

\* schema::open: a file without markers and objects may become ours.
Fresh(c) == c.application = 0 /\ c.version = 0 /\ c.objects = {}
Accepted(c) == c.application = ApplicationId /\ c.version = SchemaVersion

Taken(handle) == \E d \in Engines : engine[d].holds /\ engine[d].handle = handle

\* An open that fails gives back all it had; the future's owner is told.
LetGo(e) == engine' = [engine EXCEPT ![e] = Idle]
Go(e, place) == engine' = [engine EXCEPT ![e].place = place]

-----------------------------------------------------------------------------
\* lock_database.  A missing file is created, never truncated.
Open(e, name) ==
    /\ At(e, "idle")
    /\ engine' = [engine EXCEPT ![e] = [Idle EXCEPT !.place = "createFile", !.name = name]]
    /\ UNCHANGED <<content, lockFile>>

CreateFile(e) ==
    /\ At(e, "createFile")
    /\ \/ /\ content' = [content EXCEPT ![File(e)] = IF @ = Absent THEN Blank ELSE @]
          /\ Go(e, "openLock")
       \/ LetGo(e) /\ UNCHANGED content
    /\ UNCHANGED lockFile

\* Lock files stay where they are: every engine of a file opens the same one.
Reaches(path, inode) ==
    IF lockFile[path] # 0 THEN inode = lockFile[path]
                          ELSE \A d \in Engines : engine[d].handle # <<path, inode>>

OpenLock(e) ==
    /\ At(e, "openLock")
    /\ \/ \E inode \in Inodes :
             LET path == LockPath(engine[e].name)
             IN  /\ Reaches(path, inode)
                 /\ lockFile' = [lockFile EXCEPT ![path] = inode]
                 /\ engine' = [engine EXCEPT ![e].place  = "tryLock",
                                             ![e].handle = <<path, inode>>]
       \/ LetGo(e) /\ UNCHANGED lockFile
    /\ UNCHANGED content

\* database_busy, unless the lock is free.
TryLock(e) ==
    /\ At(e, "tryLock")
    /\ IF Taken(engine[e].handle)
       THEN LetGo(e)
       ELSE engine' = [engine EXCEPT ![e].place = "connect", ![e].holds = TRUE]
    /\ UNCHANGED <<content, lockFile>>

\* Nobody waits for the lock any more: the thread's result is dropped.
DiscardLock(e) ==
    /\ At(e, "connect") /\ engine[e].detached
    /\ LetGo(e)
    /\ UNCHANGED <<content, lockFile>>

Connect(e) ==
    /\ At(e, "connect") /\ ~engine[e].detached
    /\ Go(e, "check") \/ LetGo(e)
    /\ UNCHANGED <<content, lockFile>>

\* The end of schema::open in the worker.
Opened(e) == IF engine[e].detached THEN LetGo(e) ELSE Go(e, "open")

\* The markers and objects are read before the transaction begins.
CheckSchema(e) ==
    /\ At(e, "check")
    /\ LET c == content[File(e)]
       IN  \/ LetGo(e)
           \/ Fresh(c) /\ Go(e, "initialize")
           \/ ~Fresh(c) /\ Accepted(c) /\ Opened(e)
    /\ UNCHANGED <<content, lockFile>>

\* Tables and markers are written in one transaction; tables that are there
\* already make it fail.
Initialize(e) ==
    /\ At(e, "initialize")
    /\ \/ /\ content[File(e)].objects \cap Tables = {}
          /\ content' = [content EXCEPT ![File(e)] =
                            [Ours EXCEPT !.objects = @ \cup content[File(e)].objects]]
          /\ Opened(e)
       \/ LetGo(e) /\ UNCHANGED content
    /\ UNCHANGED lockFile

-----------------------------------------------------------------------------
\* A call to the worker, and the worker's execution of it.
Write(e) ==
    /\ At(e, "open") /\ ~engine[e].detached
    /\ engine[e].writes < MaxWrites
    /\ engine' = [engine EXCEPT ![e].writes = @ + 1]
    /\ UNCHANGED <<content, lockFile>>

Perform(e) ==
    /\ At(e, "open") /\ engine[e].writes > 0
    /\ IF engine[e].detached /\ engine[e].writes = 1
       THEN LetGo(e)
       ELSE engine' = [engine EXCEPT ![e].writes = @ - 1]
    /\ UNCHANGED <<content, lockFile>>

\* close(): the connection ends after the calls that are queued, then the
\* lock is given up.
Close(e) ==
    /\ At(e, "open") /\ ~engine[e].detached /\ engine[e].writes = 0
    /\ Go(e, "disconnected")
    /\ UNCHANGED <<content, lockFile>>

Unlock(e) ==
    /\ At(e, "disconnected")
    /\ LetGo(e)
    /\ UNCHANGED <<content, lockFile>>

\* The host drops the future of open(), or an engine it has not closed: the
\* lock is gone at once, threads finish what they were asked.
Detach(e) ==
    /\ ~engine[e].detached
    /\ \/ engine[e].place \in ThreadPlaces
             /\ engine' = [engine EXCEPT ![e].detached = TRUE]
       \/ engine[e].place \in WorkerPlaces /\ (At(e, "open") => engine[e].writes > 0)
             /\ engine' = [engine EXCEPT ![e].detached = TRUE, ![e].holds = FALSE]
       \/ /\ At(e, "connect") \/ At(e, "disconnected") \/ (At(e, "open") /\ engine[e].writes = 0)
          /\ LetGo(e)
    /\ UNCHANGED <<content, lockFile>>

\* A process dies with all its engines and threads.
Crash(p) ==
    /\ engine' = [e \in Engines |-> IF Process[e] = p THEN Idle ELSE engine[e]]
    /\ engine' # engine
    /\ UNCHANGED <<content, lockFile>>

Step(e) ==
    \/ \E name \in Names : Open(e, name)
    \/ CreateFile(e) \/ OpenLock(e) \/ TryLock(e) \/ DiscardLock(e)
    \/ Connect(e) \/ CheckSchema(e) \/ Initialize(e)
    \/ Write(e) \/ Perform(e) \/ Close(e) \/ Unlock(e) \/ Detach(e)

Next == (\E e \in Engines : Step(e)) \/ (\E e \in Engines : Crash(Process[e]))

Spec == Init /\ [][Next]_vars

-----------------------------------------------------------------------------
Places == {"idle", "connect", "disconnected"} \cup ThreadPlaces \cup WorkerPlaces

Contents == Found \cup {Blank, Ours}

EngineState == [place : Places, name : Names \cup {None},
                handle : (Files \cup Names \cup {None}) \X Nat,
                holds : BOOLEAN, detached : BOOLEAN, writes : 0..MaxWrites]

TypeOK ==
    /\ content \in [Files -> Contents]
    /\ lockFile \in [Files \cup Names -> Nat]
    /\ engine \in [Engines -> EngineState]
    /\ \A e \in Engines : ~At(e, "idle") => engine[e].name \in Names

\* An engine that its host may use, or will be handed.
Uses(e) == /\ ~engine[e].detached
           /\ engine[e].place \in {"connect", "disconnected"} \cup WorkerPlaces

\* However engines are opened, under whatever names and in whatever process,
\* while others close, are dropped or die: no two are given the same file,
\* and one that is given a file has it with its whole schema.
SoleOwner ==
    \A e \in Engines : Uses(e) =>
        /\ \A d \in Engines : Uses(d) /\ File(d) = File(e) => d = e
        /\ At(e, "open") => Accepted(content[File(e)]) /\ Tables \subseteq content[File(e)].objects

\* usage.md: opening a file that is not ours, or of another schema, leaves it
\* as it is, and our tables are made once.  Threads that outlive the future
\* they were started for included, the only changes an open ever makes are
\* that a missing file becomes an empty one and an empty one becomes ours.
FilesKept ==
    [][\A f \in Files : content'[f] # content[f] =>
          \/ content[f] = Absent /\ content'[f] = Blank
          \/ content[f] = Blank  /\ content'[f] = Ours]_vars
=============================================================================
