-------------------------- MODULE OwnershipProofs --------------------------
(***************************************************************************)
(* Ownership for every set of engines, processes, files and names, and for *)
(* whatever the files hold at first.                                       *)
(*                                                                         *)
(* The argument: the lock of a file is named by the file alone and its     *)
(* inode never changes, so that engines of one file have the same handle;  *)
(* whoever uses the file holds the lock of its handle, and no two hold the *)
(* same.  What a thread or the worker does without the lock is harmless    *)
(* because files only go from missing to empty and from empty to ours.     *)
(***************************************************************************)
EXTENDS Ownership, TLAPS

HolderPlaces == {"connect", "disconnected"} \cup WorkerPlaces
LockedPlaces == {"tryLock"} \cup HolderPlaces

\* What an engine's lock is, when it has one.
LockKnown(e) ==
    /\ engine[e].holds => engine[e].place \in HolderPlaces
    /\ Uses(e) => engine[e].holds
    /\ engine[e].place \in LockedPlaces =>
          /\ engine[e].handle = <<LockPath(engine[e].name), lockFile[LockPath(engine[e].name)]>>
          /\ lockFile[LockPath(engine[e].name)] # 0

\* What an engine knows of its file.
FileKnown(e) ==
    /\ engine[e].place \in {"openLock"} \cup LockedPlaces => content[File(e)] # Absent
    /\ At(e, "initialize") => content[File(e)] \in {Blank, Ours}
    /\ At(e, "open") => Accepted(content[File(e)]) /\ Tables \subseteq content[File(e)].objects

OneHolder ==
    \A d, e \in Engines :
        engine[d].holds /\ engine[e].holds /\ engine[d].handle = engine[e].handle => d = e

IInv ==
    /\ TypeOK
    /\ \A e \in Engines : LockKnown(e) /\ FileKnown(e)
    /\ OneHolder

\* The only ways a file and a lock file may change.
FileGrows(f) ==
    \/ content'[f] = content[f]
    \/ content[f] = Absent /\ content'[f] = Blank
    \/ content[f] = Blank  /\ content'[f] = Ours

Grows ==
    /\ content' \in [Files -> Contents]
    /\ \A f \in Files : FileGrows(f)
    /\ lockFile' \in [Files \cup Names -> Nat]
    /\ \A p \in Files \cup Names : lockFile[p] # 0 => lockFile'[p] = lockFile[p]

-----------------------------------------------------------------------------
\* No engine has begun: it has no lock and knows nothing of a file.
LEMMA InitInvariant == OwnershipAssumption /\ Init => IInv
<1> SUFFICES ASSUME OwnershipAssumption, Init
             PROVE  IInv
  OBVIOUS
<1>1. \A e \in Engines : engine[e] = Idle
  BY DEF Init
<1>2. Idle \in EngineState
  BY DEF Idle, EngineState, Places, OwnershipAssumption
<1>3. TypeOK
  BY <1>1, <1>2 DEF Init, TypeOK, Contents, At, Idle
<1>4. \A e \in Engines : LockKnown(e) /\ FileKnown(e)
  <2> SUFFICES ASSUME NEW e \in Engines
               PROVE  LockKnown(e) /\ FileKnown(e)
    OBVIOUS
  <2>1. engine[e].place = "idle" /\ ~engine[e].holds
    BY <1>1 DEF Idle
  <2> QED
    BY <2>1 DEF LockKnown, FileKnown, Uses, At, HolderPlaces, LockedPlaces, WorkerPlaces
<1>5. OneHolder
  BY <1>1 DEF OneHolder, Idle
<1> QED
  BY <1>3, <1>4, <1>5 DEF IInv

\* The three things a file can be on its way are different.
LEMMA Headers ==
    ASSUME OwnershipAssumption
    PROVE  /\ Absent # Blank /\ Ours # Absent /\ Ours # Blank
           /\ ~Accepted(Absent) /\ ~Accepted(Blank) /\ Accepted(Ours)
           /\ Tables \subseteq Ours.objects
  BY DEF OwnershipAssumption, Absent, Blank, Ours, Accepted

\* An empty file is Blank, and a file that is accepted has our tables.
LEMMA Contented ==
    ASSUME OwnershipAssumption, NEW c \in Contents
    PROVE  /\ Fresh(c) => c = Blank
           /\ Accepted(c) => Tables \subseteq c.objects
<1>1. CASE c \in Found
  <2>1. c \in [application : Int, version : Int, objects : {c.objects}]
    BY <1>1 DEF OwnershipAssumption
  <2>2. Fresh(c) => c = Blank
    BY <2>1 DEF Fresh, Blank
  <2> QED
    BY <1>1, <2>2 DEF OwnershipAssumption, Accepted
<1>2. CASE c \in {Blank, Ours}
  BY <1>2, Headers DEF Fresh, Ours, OwnershipAssumption
<1> QED
  BY <1>1, <1>2 DEF Contents

-----------------------------------------------------------------------------
\* What is known of an engine that a step leaves alone stays known.
LEMMA OthersKnown ==
    ASSUME OwnershipAssumption, IInv, Grows, NEW d \in Engines, engine'[d] = engine[d]
    PROVE  LockKnown(d)' /\ FileKnown(d)'
<1>1. engine[d].place # "idle" => /\ engine[d].name \in Names
                                  /\ FileAt[engine[d].name] \in Files
  BY DEF IInv, TypeOK, At, OwnershipAssumption
<1>2. LockKnown(d)'
  BY <1>1 DEF IInv, LockKnown, Grows, Uses, LockPath, HolderPlaces, LockedPlaces, WorkerPlaces
<1>3. FileKnown(d)'
  <2>1. CASE engine[d].place = "idle"
    BY <2>1 DEF FileKnown, At, HolderPlaces, LockedPlaces, WorkerPlaces
  <2>2. CASE engine[d].place # "idle"
    <3>1. FileGrows(File(d)) /\ File(d)' = File(d)
      BY <1>1, <2>2 DEF Grows, File
    <3>2. FileKnown(d)
      BY DEF IInv
    <3> HIDE DEF Absent, Blank, Ours, Accepted
    <3>3. content[File(d)] # Absent => content'[File(d)] # Absent
      BY <3>1, Headers DEF FileGrows
    <3>4. content[File(d)] \in {Blank, Ours} => content'[File(d)] \in {Blank, Ours}
      BY <3>1, Headers DEF FileGrows
    <3>5. Accepted(content[File(d)]) => content'[File(d)] = content[File(d)]
      BY <3>1, Headers DEF FileGrows
    <3> QED
      BY <3>1, <3>2, <3>3, <3>4, <3>5 DEF FileKnown, At
  <2> QED
    BY <2>1, <2>2
<1> QED
  BY <1>2, <1>3

\* A step of one engine keeps the invariant if what it claims for itself is
\* right and it takes no lock that is held.
LEMMA StepOfOne ==
    ASSUME OwnershipAssumption, IInv, Grows,
           NEW e \in Engines, NEW new \in EngineState,
           engine' = [engine EXCEPT ![e] = new],
           new.place # "idle" => new.name \in Names,
           LockKnown(e)', FileKnown(e)',
           new.holds => \A d \in Engines \ {e} :
                           engine[d].holds => engine[d].handle # new.handle
    PROVE  IInv'
<1>1. engine \in [Engines -> EngineState]
  BY DEF IInv, TypeOK
<1>2. engine' \in [Engines -> EngineState] /\ engine'[e] = new
        /\ \A d \in Engines \ {e} : engine'[d] = engine[d]
  BY <1>1
<1>3. TypeOK'
  BY <1>2 DEF IInv, TypeOK, Grows, At
<1>4. \A d \in Engines : LockKnown(d)' /\ FileKnown(d)'
  BY <1>2, OthersKnown
<1>5. OneHolder'
  BY <1>2 DEF IInv, OneHolder
<1> QED
  BY <1>3, <1>4, <1>5 DEF IInv

\* Nothing but the engines changes.
LEMMA Still ==
    ASSUME IInv, UNCHANGED <<content, lockFile>>
    PROVE  Grows
  BY DEF IInv, TypeOK, Grows, FileGrows

\* An engine may let go at any time.
LEMMA LetGoInvariant ==
    ASSUME OwnershipAssumption, IInv, Grows, NEW e \in Engines, LetGo(e)
    PROVE  IInv'
<1>1. Idle \in EngineState
  BY DEF Idle, EngineState, Places, OwnershipAssumption
<1>2. engine'[e] = Idle
  BY DEF LetGo, IInv, TypeOK
<1>3. LockKnown(e)' /\ FileKnown(e)'
  BY <1>2 DEF Idle, LockKnown, FileKnown, Uses, At, HolderPlaces, LockedPlaces, WorkerPlaces
<1> QED
  BY <1>1, <1>3, StepOfOne DEF LetGo, Idle

-----------------------------------------------------------------------------
\* Every step of an engine only makes files, and only gives names their lock
\* files: content and lock files grow.
LEMMA StepGrows ==
    ASSUME OwnershipAssumption, IInv, NEW e \in Engines, Step(e)
    PROVE  Grows
<1>1. CASE UNCHANGED <<content, lockFile>>
  BY <1>1, Still
<1>2. At(e, "idle") \/ File(e) \in Files
  BY DEF IInv, TypeOK, At, File, OwnershipAssumption
<1>3. CASE CreateFile(e)
  <2>1. CASE content' = [content EXCEPT ![File(e)] = IF @ = Absent THEN Blank ELSE @]
    <3>1. Blank \in Contents
      BY DEF Contents
    <3> HIDE DEF Absent, Blank, Ours, Contents
    <3> QED
      BY <1>3, <2>1, <3>1 DEF CreateFile, IInv, TypeOK, Grows, FileGrows
  <2> QED
    BY <1>1, <1>3, <2>1 DEF CreateFile
<1>4. CASE OpenLock(e)
  <2>1. CASE UNCHANGED lockFile
    BY <1>1, <1>4, <2>1 DEF OpenLock
  <2>2. CASE lockFile' # lockFile
    <3>1. LockPath(engine[e].name) \in Files \cup Names
      BY <1>2, <1>4 DEF OpenLock, At, LockPath, File
    <3>2. PICK inode \in Inodes :
             /\ Reaches(LockPath(engine[e].name), inode)
             /\ lockFile' = [lockFile EXCEPT ![LockPath(engine[e].name)] = inode]
      BY <1>4, <2>2 DEF OpenLock
    <3> QED
      BY <1>4, <3>1, <3>2 DEF OpenLock, Reaches, IInv, TypeOK, Grows, FileGrows,
                              OwnershipAssumption
  <2> QED
    BY <2>1, <2>2
<1>5. CASE Initialize(e)
  <2>1. CASE UNCHANGED content
    BY <1>1, <1>5, <2>1 DEF Initialize
  <2>2. CASE content' # content
    <3>1. content[File(e)] \in {Blank, Ours} /\ File(e) \in Files
      BY <1>2, <1>5 DEF Initialize, IInv, FileKnown, At
    <3>2. [Ours EXCEPT !.objects = @ \cup content[File(e)].objects] = Ours
      <4>1. Ours.objects \cup content[File(e)].objects = Tables
        BY <3>1 DEF Blank, Ours
      <4>2. [Ours EXCEPT !.objects = Tables] = Ours
        BY DEF Ours
      <4> QED
        BY <4>1, <4>2
    <3>3. /\ content[File(e)].objects \cap Tables = {}
          /\ content' = [content EXCEPT ![File(e)] = Ours]
          /\ UNCHANGED lockFile
      BY <1>5, <2>2, <3>2 DEF Initialize
    <3>4. Ours \in Contents
      BY DEF Contents
    <3> HIDE DEF Ours, Blank, Contents
    <3> QED
      BY <3>1, <3>3, <3>4 DEF IInv, TypeOK, Grows, FileGrows
  <2> QED
    BY <2>1, <2>2
<1> QED
  BY <1>1, <1>3, <1>4, <1>5 DEF Step, Open, TryLock, DiscardLock, Connect, CheckSchema,
       Write, Perform, Close, Unlock, Detach

\* A step within one engine's use of its file: it takes no lock.
LEMMA MoveInvariant ==
    ASSUME OwnershipAssumption, IInv, Grows,
           NEW e \in Engines, NEW new \in EngineState,
           engine' = [engine EXCEPT ![e] = new],
           engine[e].place # "idle",
           new.name = engine[e].name, new.handle = engine[e].handle,
           new.holds => engine[e].holds /\ new.place \in HolderPlaces,
           ~new.detached /\ new.place \in HolderPlaces => new.holds,
           new.place \in LockedPlaces => engine[e].place \in LockedPlaces,
           FileKnown(e)'
    PROVE  IInv'
<1>1. engine'[e] = new
  BY DEF IInv, TypeOK
<1>2. /\ engine[e].name \in Names
      /\ LockPath(engine[e].name) \in Files \cup Names
  BY DEF IInv, TypeOK, At, LockPath, OwnershipAssumption
<1>3. LockKnown(e)'
  <2>1. engine'[e].place \in LockedPlaces =>
          /\ engine[e].handle = <<LockPath(engine[e].name), lockFile[LockPath(engine[e].name)]>>
          /\ lockFile[LockPath(engine[e].name)] # 0
    BY <1>1 DEF IInv, LockKnown
  <2>2. lockFile[LockPath(engine[e].name)] # 0
          => lockFile'[LockPath(engine[e].name)] = lockFile[LockPath(engine[e].name)]
    BY <1>2 DEF Grows
  <2> QED
    BY <1>1, <2>1, <2>2 DEF LockKnown, Uses, LockPath, HolderPlaces
<1>4. new.holds => \A d \in Engines \ {e} :
                      engine[d].holds => engine[d].handle # new.handle
  BY DEF IInv, OneHolder
<1> QED
  BY <1>2, <1>3, <1>4, StepOfOne

-----------------------------------------------------------------------------
\* Opening, up to the lock.
LEMMA OpenInvariant ==
    ASSUME OwnershipAssumption, IInv, NEW e \in Engines, NEW name \in Names, Open(e, name)
    PROVE  IInv'
<1> DEFINE new == [Idle EXCEPT !.place = "createFile", !.name = name]
<1>1. new \in EngineState
  <2>1. Idle \in EngineState
    BY DEF Idle, EngineState, Places, OwnershipAssumption
  <2>2. "createFile" \in Places
    BY DEF Places, ThreadPlaces
  <2> QED
    BY <2>1, <2>2 DEF EngineState
<1>2. engine' = [engine EXCEPT ![e] = new]
  BY DEF Open
<1>3. new.place = "createFile" /\ new.name = name /\ ~new.holds
  BY DEF Idle
<1>4. Grows
  BY Still DEF Open
<1> HIDE DEF new
<1>5. engine'[e] = new
  BY <1>2 DEF IInv, TypeOK
<1>6. LockKnown(e)' /\ FileKnown(e)'
  BY <1>3, <1>5 DEF LockKnown, FileKnown, Uses, At, HolderPlaces, LockedPlaces, WorkerPlaces
<1> QED
  BY <1>1, <1>2, <1>3, <1>4, <1>6, StepOfOne

\* The file an engine has created, or found, is there.
LEMMA CreateFileInvariant ==
    ASSUME OwnershipAssumption, IInv, NEW e \in Engines, CreateFile(e)
    PROVE  IInv'
<1>1. Grows
  BY StepGrows DEF Step
<1>2. CASE Go(e, "openLock") /\ content' = [content EXCEPT ![File(e)] = IF @ = Absent THEN Blank ELSE @]
  <2> DEFINE new == [engine[e] EXCEPT !.place = "openLock"]
  <2>1. new \in EngineState
    BY DEF IInv, TypeOK, EngineState, Places, ThreadPlaces
  <2>2. engine' = [engine EXCEPT ![e] = new]
    BY <1>2 DEF Go, IInv, TypeOK
  <2>3. /\ engine[e].place = "createFile" /\ new.place = "openLock"
        /\ new.name = engine[e].name /\ new.handle = engine[e].handle
        /\ new.holds = engine[e].holds
    BY DEF CreateFile, At, IInv, TypeOK, EngineState
  <2> HIDE DEF new
  <2>4. engine'[e] = new
    BY <2>2 DEF IInv, TypeOK
  <2>5. ~new.holds
    BY <2>3 DEF IInv, LockKnown, HolderPlaces, WorkerPlaces
  <2>6. FileKnown(e)'
    <3>1. File(e)' = File(e) /\ File(e) \in Files
      BY <2>3, <2>4 DEF File, IInv, TypeOK, At, OwnershipAssumption
    <3>2. content'[File(e)] # Absent
      BY <1>2, <3>1, Headers DEF IInv, TypeOK
    <3> QED
      BY <2>3, <2>4, <3>1, <3>2 DEF FileKnown, At
  <2> QED
    BY <1>1, <2>1, <2>2, <2>3, <2>5, <2>6, MoveInvariant DEF HolderPlaces, LockedPlaces, WorkerPlaces
<1>3. CASE LetGo(e)
  BY <1>1, <1>3, LetGoInvariant
<1> QED
  BY <1>2, <1>3 DEF CreateFile

\* The handle of a lock is that of its file, old or new.
LEMMA OpenLockInvariant ==
    ASSUME OwnershipAssumption, IInv, NEW e \in Engines, OpenLock(e)
    PROVE  IInv'
<1>1. Grows
  BY StepGrows DEF Step
<1>2. CASE ~LetGo(e)
  <2> DEFINE path == LockPath(engine[e].name)
  <2>1. PICK inode \in Inodes :
           /\ lockFile' = [lockFile EXCEPT ![path] = inode]
           /\ engine' = [engine EXCEPT ![e].place  = "tryLock",
                                       ![e].handle = <<path, inode>>]
    BY <1>2 DEF OpenLock
  <2> DEFINE new == [engine[e] EXCEPT !.place = "tryLock", !.handle = <<path, inode>>]
  <2>2. engine[e].place = "openLock" /\ path \in Files
    BY DEF OpenLock, At, LockPath, IInv, TypeOK, OwnershipAssumption
  <2>3. new \in EngineState
    <3>1. "tryLock" \in Places
      BY DEF Places, ThreadPlaces
    <3>2. <<path, inode>> \in (Files \cup Names \cup {None}) \X Nat
      BY <2>2 DEF OwnershipAssumption
    <3>3. engine[e] \in EngineState
      BY DEF IInv, TypeOK
    <3> QED
      BY <3>1, <3>2, <3>3 DEF EngineState
  <2>4. engine' = [engine EXCEPT ![e] = new]
    BY <2>1 DEF IInv, TypeOK
  <2>5. /\ new.place = "tryLock" /\ new.name = engine[e].name
        /\ new.handle = <<path, inode>> /\ new.holds = engine[e].holds
    BY DEF IInv, TypeOK, EngineState
  <2> HIDE DEF new
  <2>6. engine'[e] = new
    BY <2>4 DEF IInv, TypeOK
  <2>7. ~new.holds
    BY <2>2, <2>5 DEF IInv, LockKnown, HolderPlaces, WorkerPlaces
  <2>8. lockFile'[path] = inode /\ inode # 0
    BY <2>1, <2>2 DEF IInv, TypeOK, OwnershipAssumption
  <2>9. LockKnown(e)'
    BY <2>5, <2>6, <2>7, <2>8 DEF LockKnown, Uses, LockPath, HolderPlaces, WorkerPlaces
  <2>10. FileKnown(e)'
    BY <2>2, <2>5, <2>6 DEF OpenLock, IInv, FileKnown, At, File
  <2>11. new.name \in Names
    BY <2>2, <2>5 DEF IInv, TypeOK, At
  <2> QED
    BY <1>1, <2>3, <2>4, <2>7, <2>9, <2>10, <2>11, StepOfOne
<1>3. CASE LetGo(e)
  BY <1>1, <1>3, LetGoInvariant
<1> QED
  BY <1>2, <1>3

\* A lock is granted only while nobody holds its handle.
LEMMA TryLockInvariant ==
    ASSUME OwnershipAssumption, IInv, NEW e \in Engines, TryLock(e)
    PROVE  IInv'
<1>1. Grows
  BY Still DEF TryLock
<1>2. CASE LetGo(e)
  BY <1>1, <1>2, LetGoInvariant
<1>3. CASE ~LetGo(e)
  <2> DEFINE new == [engine[e] EXCEPT !.place = "connect", !.holds = TRUE]
  <2>1. /\ engine[e].place = "tryLock" /\ ~Taken(engine[e].handle)
        /\ engine' = [engine EXCEPT ![e].place = "connect", ![e].holds = TRUE]
    BY <1>3 DEF TryLock, At
  <2>2. new \in EngineState
    <3>1. "connect" \in Places
      BY DEF Places
    <3>2. engine[e] \in EngineState
      BY DEF IInv, TypeOK
    <3> QED
      BY <3>1, <3>2 DEF EngineState
  <2>3. engine' = [engine EXCEPT ![e] = new]
    BY <2>1 DEF IInv, TypeOK
  <2>4. /\ new.place = "connect" /\ new.name = engine[e].name
        /\ new.handle = engine[e].handle /\ new.holds
    BY DEF IInv, TypeOK, EngineState
  <2> HIDE DEF new
  <2>5. engine'[e] = new
    BY <2>3 DEF IInv, TypeOK
  <2>6. LockKnown(e)'
    BY <2>1, <2>4, <2>5 DEF TryLock, IInv, LockKnown, Uses, LockPath, HolderPlaces, LockedPlaces
  <2>7. FileKnown(e)'
    BY <2>1, <2>4, <2>5 DEF TryLock, IInv, FileKnown, At, File, LockedPlaces
  <2>8. new.name \in Names
    BY <2>1, <2>4 DEF IInv, TypeOK, At
  <2>9. \A d \in Engines \ {e} : engine[d].holds => engine[d].handle # new.handle
    BY <2>1, <2>4 DEF Taken
  <2> QED
    BY <1>1, <2>2, <2>3, <2>6, <2>7, <2>8, <2>9, StepOfOne
<1> QED
  BY <1>2, <1>3

-----------------------------------------------------------------------------
\* From one use of the file to the next.
LEMMA GoInvariant ==
    ASSUME OwnershipAssumption, IInv, Grows,
           NEW e \in Engines, NEW place \in HolderPlaces,
           engine[e].place \in HolderPlaces, Go(e, place),
           place = "initialize" => content'[File(e)] \in {Blank, Ours},
           place = "open" => /\ Accepted(content'[File(e)])
                             /\ Tables \subseteq content'[File(e)].objects
    PROVE  IInv'
<1> DEFINE new == [engine[e] EXCEPT !.place = place]
<1>1. engine[e] \in EngineState /\ place \in Places
  BY DEF IInv, TypeOK, HolderPlaces, Places
<1>2. new \in EngineState
  BY <1>1 DEF EngineState
<1>3. engine' = [engine EXCEPT ![e] = new]
  BY DEF Go, IInv, TypeOK
<1>4. /\ new.place = place /\ new.name = engine[e].name /\ new.handle = engine[e].handle
      /\ new.holds = engine[e].holds /\ new.detached = engine[e].detached
  BY <1>1 DEF EngineState
<1> HIDE DEF new
<1>5. engine'[e] = new
  BY <1>3 DEF IInv, TypeOK
<1>6. engine[e].place # "idle"
  BY DEF HolderPlaces, WorkerPlaces
<1>7. ~new.detached => new.holds
  BY <1>4 DEF IInv, LockKnown, Uses, HolderPlaces
<1>8. FileKnown(e)'
  <2>1. File(e)' = File(e) /\ File(e) \in Files
    BY <1>4, <1>5, <1>6 DEF File, IInv, TypeOK, At, OwnershipAssumption
  <2>2. content[File(e)] # Absent
    BY DEF IInv, FileKnown, LockedPlaces
  <2>3. content'[File(e)] # Absent
    <3> HIDE DEF Absent, Blank, Ours
    <3> QED
      BY <2>1, <2>2, Headers DEF Grows, FileGrows
  <2> QED
    BY <1>4, <1>5, <2>1, <2>3 DEF FileKnown, At
<1> QED
  BY <1>2, <1>3, <1>4, <1>6, <1>7, <1>8, MoveInvariant DEF LockedPlaces

\* The lock outlives the connection attempt, whichever way it goes.
LEMMA ConnectInvariant ==
    ASSUME OwnershipAssumption, IInv, NEW e \in Engines, Connect(e)
    PROVE  IInv'
<1>1. Grows
  BY Still DEF Connect
<1>2. CASE LetGo(e)
  BY <1>1, <1>2, LetGoInvariant
<1>3. CASE Go(e, "check")
  BY <1>1, <1>3, GoInvariant DEF Connect, At, HolderPlaces, WorkerPlaces
<1> QED
  BY <1>2, <1>3 DEF Connect

\* The worker hands over a file that is ours.
LEMMA OpenedInvariant ==
    ASSUME OwnershipAssumption, IInv, Grows, NEW e \in Engines,
           engine[e].place \in WorkerPlaces, Opened(e),
           Accepted(content'[File(e)]), Tables \subseteq content'[File(e)].objects
    PROVE  IInv'
<1>1. CASE LetGo(e)
  BY <1>1, LetGoInvariant
<1>2. CASE Go(e, "open")
  BY <1>2, GoInvariant DEF HolderPlaces, WorkerPlaces
<1> QED
  BY <1>1, <1>2 DEF Opened

\* Looking at a file tells whether it is empty, ours or neither.
LEMMA CheckSchemaInvariant ==
    ASSUME OwnershipAssumption, IInv, NEW e \in Engines, CheckSchema(e)
    PROVE  IInv'
<1>1. Grows
  BY Still DEF CheckSchema
<1>2. engine[e].place \in WorkerPlaces /\ content[File(e)] \in Contents
  BY DEF CheckSchema, At, WorkerPlaces, IInv, TypeOK, File, OwnershipAssumption
<1>3. CASE LetGo(e)
  BY <1>1, <1>3, LetGoInvariant
<1>4. CASE Fresh(content[File(e)]) /\ Go(e, "initialize")
  <2>1. content'[File(e)] = Blank
    BY <1>2, <1>4, Contented DEF CheckSchema
  <2> QED
    BY <1>1, <1>2, <1>4, <2>1, GoInvariant DEF HolderPlaces, WorkerPlaces
<1>5. CASE Accepted(content[File(e)]) /\ Opened(e)
  <2>1. Tables \subseteq content[File(e)].objects
    BY <1>2, <1>5, Contented
  <2> QED
    BY <1>1, <1>2, <1>5, <2>1, OpenedInvariant DEF CheckSchema
<1> QED
  BY <1>3, <1>4, <1>5 DEF CheckSchema

\* The tables are made in an empty file, which is then ours.
LEMMA InitializeInvariant ==
    ASSUME OwnershipAssumption, IInv, NEW e \in Engines, Initialize(e)
    PROVE  IInv'
<1>1. Grows
  BY StepGrows DEF Step
<1>2. CASE LetGo(e)
  BY <1>1, <1>2, LetGoInvariant
<1>3. CASE ~LetGo(e)
  <2>1. /\ engine[e].place \in WorkerPlaces
        /\ content[File(e)] \in {Blank, Ours} /\ File(e) \in Files
    BY DEF Initialize, At, WorkerPlaces, IInv, TypeOK, FileKnown, File, OwnershipAssumption
  <2>2. content'[File(e)] = [Ours EXCEPT !.objects = @ \cup content[File(e)].objects]
    BY <1>3, <2>1 DEF Initialize, IInv, TypeOK
  <2>3. /\ content'[File(e)].application = ApplicationId
        /\ content'[File(e)].version = SchemaVersion
        /\ content'[File(e)].objects = Tables \cup content[File(e)].objects
    BY <2>2 DEF Ours
  <2>4. Opened(e)
    BY <1>3 DEF Initialize
  <2> QED
    BY <1>1, <2>1, <2>3, <2>4, OpenedInvariant DEF Accepted
<1> QED
  BY <1>2, <1>3

-----------------------------------------------------------------------------
\* Calls that wait, and futures that nobody waits for, leave an engine where
\* it is; without its lock it no longer counts as a user.
LEMMA StayInvariant ==
    ASSUME OwnershipAssumption, IInv, UNCHANGED <<content, lockFile>>,
           NEW e \in Engines, NEW new \in EngineState,
           engine' = [engine EXCEPT ![e] = new],
           engine[e].place # "idle",
           new.place = engine[e].place, new.name = engine[e].name,
           new.handle = engine[e].handle,
           new.holds => engine[e].holds,
           ~new.detached => new.holds = engine[e].holds /\ ~engine[e].detached
    PROVE  IInv'
<1>1. engine'[e] = new
  BY DEF IInv, TypeOK
<1>2. new.holds => new.place \in HolderPlaces
  BY DEF IInv, LockKnown
<1>3. ~new.detached /\ new.place \in HolderPlaces => new.holds
  BY DEF IInv, LockKnown, Uses, HolderPlaces
<1>4. FileKnown(e)'
  BY <1>1 DEF IInv, FileKnown, At, File
<1> QED
  BY <1>2, <1>3, <1>4, MoveInvariant, Still

\* Calls, their execution and close() keep what is known of the file.
LEMMA WorkInvariant ==
    ASSUME OwnershipAssumption, IInv, NEW e \in Engines, Write(e) \/ Perform(e)
    PROVE  IInv'
<1>1. CASE LetGo(e)
  BY <1>1, LetGoInvariant, Still DEF Write, Perform
<1>2. CASE ~LetGo(e)
  <2>1. /\ engine[e] \in EngineState /\ engine[e].place = "open"
        /\ UNCHANGED <<content, lockFile>>
    BY DEF Write, Perform, At, IInv, TypeOK
  <2>2. PICK n \in 0..MaxWrites : engine' = [engine EXCEPT ![e].writes = n]
    <3>1. engine[e].writes \in 0..MaxWrites /\ MaxWrites \in Nat
      BY <2>1 DEF EngineState, OwnershipAssumption
    <3>2. CASE Write(e)
      <4>1. engine[e].writes + 1 \in 0..MaxWrites
        BY <3>1, <3>2 DEF Write
      <4> QED
        BY <3>2, <4>1 DEF Write
    <3>3. CASE Perform(e)
      <4>1. engine[e].writes - 1 \in 0..MaxWrites
        BY <3>1, <3>3 DEF Perform
      <4> QED
        BY <1>2, <3>3, <4>1 DEF Perform
    <3> QED
      BY <3>2, <3>3
  <2> DEFINE new == [engine[e] EXCEPT !.writes = n]
  <2>3. new \in EngineState
    BY <2>1 DEF EngineState
  <2>4. engine' = [engine EXCEPT ![e] = new]
    BY <2>2 DEF IInv, TypeOK
  <2>5. /\ new.place = engine[e].place /\ new.name = engine[e].name
        /\ new.handle = engine[e].handle /\ new.holds = engine[e].holds
        /\ new.detached = engine[e].detached
    BY <2>1 DEF EngineState
  <2> HIDE DEF new
  <2> QED
    BY <2>1, <2>3, <2>4, <2>5, StayInvariant
<1> QED
  BY <1>1, <1>2

\* A dropped future or engine gives its lock up at once.
LEMMA DetachInvariant ==
    ASSUME OwnershipAssumption, IInv, NEW e \in Engines, Detach(e)
    PROVE  IInv'
<1>1. engine[e] \in EngineState /\ UNCHANGED <<content, lockFile>>
  BY DEF Detach, IInv, TypeOK
<1>2. CASE LetGo(e)
  BY <1>1, <1>2, LetGoInvariant, Still
<1>3. CASE engine[e].place \in ThreadPlaces /\ engine' = [engine EXCEPT ![e].detached = TRUE]
  <2> DEFINE new == [engine[e] EXCEPT !.detached = TRUE]
  <2>1. new \in EngineState
    BY <1>1 DEF EngineState
  <2>2. engine' = [engine EXCEPT ![e] = new]
    BY <1>3 DEF IInv, TypeOK
  <2>3. /\ new.place = engine[e].place /\ new.name = engine[e].name
        /\ new.handle = engine[e].handle /\ new.holds = engine[e].holds /\ new.detached
    BY <1>1 DEF EngineState
  <2> HIDE DEF new
  <2> QED
    BY <1>1, <1>3, <2>1, <2>2, <2>3, StayInvariant DEF ThreadPlaces
<1>4. CASE /\ engine[e].place \in WorkerPlaces
           /\ engine' = [engine EXCEPT ![e].detached = TRUE, ![e].holds = FALSE]
  <2> DEFINE new == [engine[e] EXCEPT !.detached = TRUE, !.holds = FALSE]
  <2>1. new \in EngineState
    BY <1>1 DEF EngineState
  <2>2. engine' = [engine EXCEPT ![e] = new]
    BY <1>4 DEF IInv, TypeOK
  <2>3. /\ new.place = engine[e].place /\ new.name = engine[e].name
        /\ new.handle = engine[e].handle /\ ~new.holds /\ new.detached
    BY <1>1 DEF EngineState
  <2> HIDE DEF new
  <2> QED
    BY <1>1, <1>4, <2>1, <2>2, <2>3, StayInvariant DEF WorkerPlaces
<1> QED
  BY <1>2, <1>3, <1>4 DEF Detach

\* A process that dies gives up the locks of all its engines together.
LEMMA CrashInvariant ==
    ASSUME OwnershipAssumption, IInv, NEW p, Crash(p)
    PROVE  IInv'
<1>1. Grows
  BY Still DEF Crash
<1>2. Idle \in EngineState
  BY DEF Idle, EngineState, Places, OwnershipAssumption
<1>3. \A d \in Engines : engine'[d] = Idle \/ engine'[d] = engine[d]
  BY DEF Crash
<1>4. TypeOK'
  <2>1. engine' \in [Engines -> EngineState]
    BY <1>2 DEF Crash, IInv, TypeOK
  <2>2. Idle.place = "idle"
    BY DEF Idle
  <2> QED
    BY <1>1, <1>3, <2>1, <2>2 DEF IInv, TypeOK, Grows, At
<1>5. \A d \in Engines : LockKnown(d)' /\ FileKnown(d)'
  <2> SUFFICES ASSUME NEW d \in Engines
               PROVE  LockKnown(d)' /\ FileKnown(d)'
    OBVIOUS
  <2>1. CASE engine'[d] = Idle
    <3>1. engine'[d].place = "idle" /\ ~engine'[d].holds
      BY <2>1 DEF Idle
    <3> QED
      BY <3>1 DEF LockKnown, FileKnown, Uses, At, HolderPlaces, LockedPlaces, WorkerPlaces
  <2>2. CASE engine'[d] = engine[d]
    BY <1>1, <2>2, OthersKnown
  <2> QED
    BY <1>3, <2>1, <2>2
<1>6. OneHolder'
  BY <1>3 DEF IInv, OneHolder, Idle
<1> QED
  BY <1>4, <1>5, <1>6 DEF IInv

-----------------------------------------------------------------------------
\* Every step of every engine preserves the invariant.
LEMMA StepInvariant ==
    ASSUME OwnershipAssumption, IInv, [Next]_vars
    PROVE  IInv' /\ Grows
<1>1. CASE UNCHANGED vars
  <2>1. Grows
    BY <1>1, Still DEF vars
  <2>2. \A d \in Engines : LockKnown(d)' /\ FileKnown(d)'
    BY <1>1, <2>1, OthersKnown DEF vars
  <2>3. TypeOK' /\ OneHolder'
    BY <1>1 DEF IInv, TypeOK, OneHolder, At, vars
  <2> QED
    BY <2>1, <2>2, <2>3 DEF IInv
<1>2. CASE \E e \in Engines : Crash(Process[e])
  BY <1>2, CrashInvariant, Still DEF Crash
<1>3. ASSUME NEW e \in Engines, Step(e)
      PROVE  IInv' /\ Grows
  <2>1. Grows
    BY <1>3, StepGrows
  <2>2. CASE \E name \in Names : Open(e, name)
    BY <2>1, <2>2, OpenInvariant
  <2>3. CASE CreateFile(e)
    BY <2>1, <2>3, CreateFileInvariant
  <2>4. CASE OpenLock(e)
    BY <2>1, <2>4, OpenLockInvariant
  <2>5. CASE TryLock(e)
    BY <2>1, <2>5, TryLockInvariant
  <2>6. CASE DiscardLock(e) \/ Unlock(e)
    BY <2>1, <2>6, LetGoInvariant DEF DiscardLock, Unlock
  <2>7. CASE Connect(e)
    BY <2>1, <2>7, ConnectInvariant
  <2>8. CASE CheckSchema(e)
    BY <2>1, <2>8, CheckSchemaInvariant
  <2>9. CASE Initialize(e)
    BY <2>1, <2>9, InitializeInvariant
  <2>10. CASE Write(e) \/ Perform(e)
    BY <2>1, <2>10, WorkInvariant
  <2>11. CASE Close(e)
    BY <2>1, <2>11, GoInvariant DEF Close, At, HolderPlaces, WorkerPlaces
  <2>12. CASE Detach(e)
    BY <2>1, <2>12, DetachInvariant
  <2> QED
    BY <1>3, <2>2, <2>3, <2>4, <2>5, <2>6, <2>7, <2>8, <2>9, <2>10, <2>11, <2>12 DEF Step
<1> QED
  BY <1>1, <1>2, <1>3 DEF Next

\* The invariant holds in every state engines can reach.
THEOREM Inductive == Spec => []IInv
<1>1. Init => IInv
  BY InitInvariant, OwnershipAssumption
<1>2. IInv /\ [Next]_vars => IInv'
  BY StepInvariant, OwnershipAssumption
<1> QED
  BY <1>1, <1>2, PTL DEF Spec

\* The state of every engine, file and lock keeps its type.
THEOREM TypeCorrect == Spec => []TypeOK
<1>1. IInv => TypeOK
  BY DEF IInv
<1> QED
  BY <1>1, Inductive, PTL

\* Whatever links lead to a file and however its engines come and go, one of
\* them at most has it, and it has it with its whole schema.
THEOREM OneOwner == Spec => []SoleOwner
<1>1. IInv => SoleOwner
  <2> SUFFICES ASSUME IInv, NEW e \in Engines, Uses(e)
               PROVE  /\ \A d \in Engines : Uses(d) /\ File(d) = File(e) => d = e
                      /\ At(e, "open") => /\ Accepted(content[File(e)])
                                          /\ Tables \subseteq content[File(e)].objects
    BY DEF SoleOwner
  <2>1. ASSUME NEW d \in Engines, Uses(d), File(d) = File(e)
        PROVE  d = e
    <3>1. engine[d].holds /\ engine[e].holds
      BY <2>1 DEF IInv, LockKnown
    <3>2. engine[d].handle = engine[e].handle
      BY <2>1 DEF IInv, LockKnown, Uses, File, LockPath, LockedPlaces, HolderPlaces
    <3> QED
      BY <3>1, <3>2 DEF IInv, OneHolder
  <2>2. FileKnown(e)
    BY DEF IInv
  <2> QED
    BY <2>1, <2>2 DEF FileKnown
<1> QED
  BY <1>1, Inductive, PTL

\* No open ever changes a file that is not empty or missing.
THEOREM NothingLost == Spec => FilesKept
<1>1. IInv /\ [Next]_vars
        => [\A f \in Files : content'[f] # content[f] =>
              \/ content[f] = Absent /\ content'[f] = Blank
              \/ content[f] = Blank  /\ content'[f] = Ours]_vars
  <2> SUFFICES ASSUME IInv, [Next]_vars, NEW f \in Files, content'[f] # content[f]
               PROVE  \/ content[f] = Absent /\ content'[f] = Blank
                      \/ content[f] = Blank  /\ content'[f] = Ours
    OBVIOUS
  <2> QED
    BY StepInvariant, OwnershipAssumption DEF Grows, FileGrows
<1> QED
  BY <1>1, Inductive, PTL DEF Spec, FilesKept
=============================================================================
