----------------------------- MODULE Dashboard ------------------------------
(***************************************************************************)
(* The dashboard server: one handler thread per kept-alive connection, all *)
(* sharing STATE (a busy flag and the open session) and the fields of the  *)
(* session, and the denyfs mount processes they start and stop.            *)
(*                                                                         *)
(* A step of a handler ends where another thread can see a difference: at  *)
(* SESSION_LOCK, at an assignment to the session, at a call that touches   *)
(* the mount, a file or a process.  A request that is refused outright     *)
(* changes nothing and is no step.                                         *)
(***************************************************************************)
EXTENDS Integers, Sequences, FiniteSets

CONSTANTS
  Threads,          \* handler threads, one per connection
  Main,             \* the thread in serve_forever
  Names,            \* names of vaults in the library
  CoverFiles,       \* names in expected_outer, or expected of a standard vault
  HiddenFiles,      \* names in expected_hidden
  Apart,            \* pairs of requests no two pages have under way together
  SwitchTimeouts,   \* whether the hidden volume may take 15 s to mount
  SlowFlush,        \* whether a process may take 10 s to end once unmounted
  NoSession,        \* STATE["session"] is None
  MaxSessions,      \* bound: sessions ever opened
  MaxMounts         \* bound: mount processes of one session

ASSUME DashboardAssumption ==
  /\ Main \notin Threads
  /\ CoverFiles # {} /\ HiddenFiles # {}
  /\ SwitchTimeouts \in BOOLEAN /\ SlowFlush \in BOOLEAN
  /\ MaxSessions \in Nat \ {0} /\ MaxMounts \in Nat \ {0}
  /\ NoSession \notin 1 .. MaxSessions

VARIABLES
  busy, current,    \* STATE["busy"], and the index of STATE["session"]
  session,          \* the MountSession objects
  mounts,           \* the mount processes started for each session
  stack,            \* those mounted on its mount_dir, the topmost last
  dirs,             \* sessions whose mount_dir exists
  vault,            \* the library
  store,            \* files in the volumes and in the mount directories
  thread,           \* the handler threads and the main thread
  locked, finished  \* sessions the user was told are locked, and complete

vars == <<busy, current, session, mounts, stack, dirs, vault, store, thread,
          locked, finished>>

state   == <<busy, current>>
system  == <<mounts, stack, dirs>>
told    == <<locked, finished>>
others  == <<state, session, system, vault, store, told>>  \* than the threads

SessionIds == 1 .. MaxSessions
Volumes    == {"outer", "hidden"}
FileNames  == CoverFiles \union HiddenFiles

(***************************************************************************)
(* A file is in a volume of a vault or, when nothing is mounted there, in  *)
(* the mount directory itself.  source says which list of files the page   *)
(* took it from.                                                           *)
(***************************************************************************)
Places == (Volumes \X Names) \union ({"host"} \X SessionIds)
File   == [name : FileNames, source : Volumes, whole : BOOLEAN]

MountSession ==
  [name : Names, mode : {"encrypt", "decrypt"}, deniable : BOOLEAN,
   phase : {"single", "outer", "hidden"},
   expected_files : {"cover", "hidden"},    \* which dictionary it names
   uploaded_files : {"own", "hidden"},      \* which set it names
   own : SUBSET FileNames, uploaded_outer : SUBSET FileNames,
   uploaded_hidden : SUBSET FileNames,
   process : Nat, hidden_password : BOOLEAN]

MountProcess == [volume : Volumes, terminated : BOOLEAN,
                 st : {"starting", "mounted", "closing", "dead"}]

Handler ==
  [op : {"none", "encrypt", "switch", "upload", "finish", "decrypt",
         "download", "lock", "import", "shutdown"},
   pc : {"off", "ready", "create", "fill", "hidden", "unlock", "spawn",
         "await", "terminated", "publish", "list", "unmount", "reap", "wait",
         "stopped", "remounting", "process", "phase", "expected", "uploaded",
         "open", "transfer", "discard", "book", "count", "reserve", "fetch",
         "copy", "receive", "link", "release", "serving", "closing", "exited"},
   s : 0 .. MaxSessions, name : Names \union {""}, volume : Volumes,
   deniable : BOOLEAN, file : FileNames \union {""}, m : Nat, ok : BOOLEAN]

\* Every variable has its type.
DashboardTypeOK ==
  /\ busy \in BOOLEAN
  /\ current \in SessionIds \union {NoSession}
  /\ session \in Seq(MountSession) /\ Len(session) <= MaxSessions
  /\ mounts \in [SessionIds -> Seq(MountProcess)]
  /\ stack \in [SessionIds -> Seq(Nat)]
  /\ dirs \subseteq SessionIds
  /\ vault \in [Names -> {"none", "making", "standard", "deniable"}]
  /\ store \in [Places -> SUBSET File]
  /\ thread \in [Threads \union {Main} -> Handler]
  /\ locked \subseteq SessionIds /\ finished \subseteq SessionIds

Idle(pc) == [op |-> "none", pc |-> pc, s |-> 0, name |-> "",
             volume |-> "outer", deniable |-> FALSE, file |-> "", m |-> 0,
             ok |-> FALSE]

Init ==
  /\ busy = FALSE /\ current = NoSession
  /\ session = <<>>
  /\ mounts = [s \in SessionIds |-> <<>>]
  /\ stack = [s \in SessionIds |-> <<>>]
  /\ dirs = {}
  /\ vault = [n \in Names |-> "none"]
  /\ store = [p \in Places |-> {}]
  /\ thread = [t \in Threads \union {Main} |->
                 Idle(IF t = Main THEN "serving" ELSE "off")]
  /\ locked = {} /\ finished = {}

At(t, pc)   == thread[t].pc = pc
Doing(t, op, pc) == thread[t].op = op /\ thread[t].pc = pc
Becomes(t, h) == thread' = [thread EXCEPT ![t] = h]
Goto(t, pc) == thread' = [thread EXCEPT ![t].pc = pc]
Replies(t)  == Becomes(t, Idle("ready"))
\* On to the finally clause, to report success or failure.
Leaves(t, ok) == Becomes(t, [thread[t] EXCEPT !.pc = "release", !.ok = ok])

-----------------------------------------------------------------------------
(***************************************************************************)
(* Connections.  The server speaks HTTP/1.1 and sets no timeout, so a      *)
(* thread stays until the browser closes its connection.                   *)
(***************************************************************************)
Connect(t) ==
  /\ At(t, "off") /\ At(Main, "serving")
  /\ Becomes(t, Idle("ready"))
  /\ UNCHANGED others

Disconnect(t) ==
  /\ At(t, "ready")
  /\ Becomes(t, Idle("off"))
  /\ UNCHANGED others

\* A request op arrives on connection t.
Request(t, op) ==
  /\ At(t, "ready")
  /\ \A u \in Threads : {op, thread[u].op} \notin Apart
Handling(op, pc) == [Idle(pc) EXCEPT !.op = op]

-----------------------------------------------------------------------------
(***************************************************************************)
(* The reservation.                                                        *)
(***************************************************************************)
\* Mutant: an open session does not count.
ReservableIfIdle == ~busy
\* _reserve_operation succeeds.
MayReserve == ~busy /\ current = NoSession

\* Mutant: the flag stays set when the handler failed.
ReleasedOnSuccess(t) == busy' = ~thread[t].ok
\* _release_operation
Released(t) == busy' = FALSE

Release(t) ==
  /\ At(t, "release")
  /\ Released(t)
  /\ Replies(t)
  /\ UNCHANGED <<current, session, system, vault, store, told>>

\* _reserve_close
ReserveClose(t) ==
  /\ At(t, "reserve")
  /\ \/ /\ busy \/ current # thread[t].s
        /\ Replies(t) /\ UNCHANGED busy
     \/ /\ ~busy /\ current = thread[t].s
        /\ busy' = TRUE /\ Goto(t, "unmount")
  /\ UNCHANGED <<current, session, system, vault, store, told>>

-----------------------------------------------------------------------------
(***************************************************************************)
(* The mount directory of a session.                                       *)
(***************************************************************************)
IsMount(s) == stack[s] # <<>>
Top(s)     == IF IsMount(s) THEN stack[s][Len(stack[s])] ELSE 0
\* A process is mounted at most once.
Without(q, m) ==
  IF \E i \in DOMAIN q : q[i] = m
  THEN LET k == CHOOSE i \in DOMAIN q : q[i] = m
       IN  [i \in 1 .. Len(q) - 1 |-> IF i < k THEN q[i] ELSE q[i + 1]]
  ELSE q

\* Where a path below the mount directory leads.
Where(s) ==
  IF IsMount(s) THEN <<mounts[s][Top(s)].volume, session[s].name>>
                ELSE <<"host", s>>
Reachable(s) == IsMount(s) \/ s \in dirs
FileAt(s, f) == {x \in store[Where(s)] : x.name = f}

\* A file is open on the topmost mount, so that it cannot be unmounted.
InUse(s) == \E u \in Threads : /\ thread[u].s = s /\ thread[u].m = Top(s)
                               /\ thread[u].pc \in {"transfer", "copy"}

Status(s, m, st) == mounts' = [mounts EXCEPT ![s][m].st = st]

\* mount_dir.rmdir(), which fails quietly on a mount point or a directory
\* that is not empty.
Rmdir(s) ==
  dirs' = IF IsMount(s) \/ store[<<"host", s>>] # {} THEN dirs ELSE dirs \ {s}

Spawn(s, v) ==
  /\ mounts' = [mounts EXCEPT ![s] =
       Append(@, [volume |-> v, terminated |-> FALSE, st |-> "starting"])]
  /\ dirs' = dirs \union {s}

(***************************************************************************)
(* denyfs mount: it opens the volume and mounts it, or ends; once          *)
(* unmounted or terminated it flushes and ends.                            *)
(***************************************************************************)
MountAppears(s, m) ==
  /\ mounts[s][m].st = "starting" /\ ~mounts[s][m].terminated /\ s \in dirs
  /\ Status(s, m, "mounted")
  /\ stack' = [stack EXCEPT ![s] = Append(@, m)]
  /\ UNCHANGED <<state, session, dirs, vault, store, thread, told>>

MountFails(s, m) ==
  /\ mounts[s][m].st = "starting"
  /\ Status(s, m, "dead")
  /\ UNCHANGED <<state, session, stack, dirs, vault, store, thread, told>>

MountTerminated(s, m) ==
  /\ mounts[s][m].st = "mounted" /\ mounts[s][m].terminated
  /\ Status(s, m, "closing")
  /\ stack' = [stack EXCEPT ![s] = Without(@, m)]
  /\ UNCHANGED <<state, session, dirs, vault, store, thread, told>>

MountEnds(s, m) ==
  /\ mounts[s][m].st = "closing"
  /\ Status(s, m, "dead")
  /\ UNCHANGED <<state, session, stack, dirs, vault, store, thread, told>>

-----------------------------------------------------------------------------
(***************************************************************************)
(* _encrypt and _decrypt up to their mount.                                *)
(***************************************************************************)
\* Bound: a session is left for the request.
SessionLeft == Len(session) < MaxSessions

Encrypt(t, n, deniable) ==
  /\ Request(t, "encrypt") /\ MayReserve /\ SessionLeft
  /\ busy' = TRUE
  /\ Becomes(t, [Handling("encrypt", "create") EXCEPT
                   !.name = n, !.deniable = deniable])
  /\ UNCHANGED <<current, session, system, vault, store, told>>

Library(t, v) == vault' = [vault EXCEPT ![thread[t].name] = v]

\* denyfs create makes the file exclusively, and fills it.
Create(t) ==
  /\ At(t, "create")
  /\ \/ vault[thread[t].name] # "none" /\ Leaves(t, FALSE) /\ UNCHANGED vault
     \/ /\ vault[thread[t].name] = "none"
        /\ Library(t, "making") /\ Goto(t, "fill")
  /\ UNCHANGED <<state, session, system, store, told>>

Fill(t) ==
  /\ At(t, "fill")
  /\ \/ Library(t, "none") /\ Leaves(t, FALSE)
     \/ /\ Library(t, "standard")
        /\ Goto(t, IF thread[t].deniable THEN "hidden" ELSE "spawn")
  /\ UNCHANGED <<state, session, system, store, told>>

\* denyfs create-hidden; when it fails the new vault is unlinked.
CreateHidden(t) ==
  /\ At(t, "hidden")
  /\ \/ Library(t, "deniable") /\ Goto(t, "spawn")
     \/ Library(t, "none") /\ Leaves(t, FALSE)
  /\ UNCHANGED <<state, session, system, store, told>>

Decrypt(t, n, v) ==
  /\ Request(t, "decrypt") /\ vault[n] # "none" /\ MayReserve /\ SessionLeft
  /\ busy' = TRUE
  /\ Becomes(t, [Handling("decrypt", "unlock") EXCEPT !.name = n, !.volume = v])
  /\ UNCHANGED <<current, session, system, vault, store, told>>

\* denyfs open says which volume the passphrase opens, if any.
Unlock(t) ==
  /\ At(t, "unlock")
  /\ \/ Leaves(t, FALSE)
     \/ /\ \/ vault[thread[t].name] = "deniable"
           \/ vault[thread[t].name] = "standard" /\ thread[t].volume = "outer"
        /\ Goto(t, "spawn")
  /\ UNCHANGED others

-----------------------------------------------------------------------------
(***************************************************************************)
(* start_mount: a new directory, a process, and 15 s for the mount to      *)
(* appear.  The session object is STATE's only when the handler puts it    *)
(* there.                                                                  *)
(***************************************************************************)
\* Mutant: the phase is given the type of the vault.
PhaseFromType(h) == IF h.deniable THEN "deniable" ELSE "standard"
FirstPhase(h) == IF h.deniable THEN "outer" ELSE "single"

NewSession(h) ==
  [name |-> h.name, mode |-> h.op, deniable |-> h.deniable,
   phase |-> FirstPhase(h),
   expected_files |-> "cover", uploaded_files |-> "own",
   own |-> {}, uploaded_outer |-> {}, uploaded_hidden |-> {},
   process |-> 1, hidden_password |-> h.deniable]

StartMount(t) ==
  /\ At(t, "spawn")
  /\ session' = Append(session, NewSession(thread[t]))
  /\ Spawn(Len(session) + 1, thread[t].volume)
  /\ Becomes(t, [thread[t] EXCEPT !.pc = "await", !.s = Len(session) + 1, !.m = 1])
  /\ UNCHANGED <<state, stack, vault, store, told>>

Dead(t) == mounts[thread[t].s][thread[t].m].st = "dead"
Terminate(t) ==
  mounts' = [mounts EXCEPT ![thread[t].s][thread[t].m].terminated = TRUE]

AwaitMount(t) ==
  /\ At(t, "await")
  /\ \/ /\ Dead(t)
        /\ Rmdir(thread[t].s) /\ Leaves(t, FALSE) /\ UNCHANGED mounts
     \/ /\ ~Dead(t) /\ IsMount(thread[t].s)
        /\ Goto(t, "publish") /\ UNCHANGED <<mounts, dirs>>
     \/ /\ ~Dead(t)                         \* the deadline has passed
        /\ Terminate(t) /\ Goto(t, "terminated") /\ UNCHANGED dirs
  /\ UNCHANGED <<state, session, stack, vault, store, told>>

\* Three seconds for it to end, or it is killed.
EndProcess(t) ==
  /\ \/ Dead(t) /\ UNCHANGED mounts
     \/ ~Dead(t) /\ Status(thread[t].s, thread[t].m, "dead")
  /\ Rmdir(thread[t].s)

MountTimedOut(t) ==
  /\ At(t, "terminated")
  /\ EndProcess(t)
  /\ Leaves(t, FALSE)
  /\ UNCHANGED <<state, session, stack, vault, store, told>>

Publish(t) ==
  /\ At(t, "publish")
  /\ current' = thread[t].s
  /\ IF thread[t].op = "decrypt" THEN Goto(t, "list") ELSE Leaves(t, TRUE)
  /\ UNCHANGED <<busy, session, system, vault, store, told>>

\* list_mounted_files; when it fails the vault is closed again.
ListFiles(t) ==
  /\ At(t, "list")
  /\ Leaves(t, TRUE) \/ Goto(t, "unmount")
  /\ UNCHANGED others

-----------------------------------------------------------------------------
(***************************************************************************)
(* stop_mount, as called by lock, finish, the phase switch, a failed list  *)
(* and the shutdown.                                                       *)
(***************************************************************************)
\* It returned False.
StopFails(t) ==
  CASE thread[t].op = "switch"   -> Replies(t)
    [] thread[t].op = "shutdown" -> Goto(t, "exited")
    [] OTHER                     -> Leaves(t, FALSE)

Unmount(t) ==
  /\ At(t, "unmount")
  /\ LET s == thread[t].s
     IN  \/ /\ ~IsMount(s)
            /\ Goto(t, "reap") /\ UNCHANGED <<mounts, stack>>
         \/ /\ IsMount(s) /\ ~InUse(s)
            /\ Status(s, Top(s), "closing")
            /\ stack' = [stack EXCEPT ![s] = Without(@, Top(s))]
            /\ Goto(t, "reap")
         \/ /\ IsMount(s)                   \* fusermount refuses
            /\ StopFails(t) /\ UNCHANGED <<mounts, stack>>
  /\ UNCHANGED <<state, session, dirs, vault, store, told>>

Reap(t) ==
  /\ At(t, "reap")
  /\ Becomes(t, [thread[t] EXCEPT !.pc = "wait",
                                  !.m = session[thread[t].s].process])
  /\ UNCHANGED others

\* Mutant: the process is not waited for.
EndedOrNot(t) == TRUE
\* process.wait returned in time.
Ended(t) == Dead(t)

WaitProcess(t) ==
  /\ At(t, "wait")
  /\ \/ Ended(t) /\ Rmdir(thread[t].s) /\ Goto(t, "stopped")
     \/ ~Ended(t) /\ SlowFlush /\ StopFails(t) /\ UNCHANGED dirs
  /\ UNCHANGED <<state, session, mounts, stack, vault, store, told>>

\* The session is closed and the reply says so.
Locked(t) ==
  /\ Doing(t, "lock", "stopped") \/ Doing(t, "finish", "stopped")
  /\ current' = NoSession
  /\ locked' = locked \union {thread[t].s}
  /\ Leaves(t, TRUE)
  /\ \/ /\ thread[t].op = "lock"
        /\ UNCHANGED <<session, finished>>
     \/ /\ thread[t].op = "finish"
        /\ session' = [session EXCEPT ![thread[t].s].hidden_password = FALSE]
        /\ finished' = finished \union {thread[t].s}
  /\ UNCHANGED <<busy, system, vault, store>>

ListFailed(t) ==
  /\ Doing(t, "decrypt", "stopped")
  /\ current' = IF current = thread[t].s THEN NoSession ELSE current
  /\ Leaves(t, FALSE)
  /\ UNCHANGED <<busy, session, system, vault, store, told>>

-----------------------------------------------------------------------------
(***************************************************************************)
(* _lock_session and _finish_encrypt up to _reserve_close.                 *)
(***************************************************************************)
Open(mode) == current # NoSession /\ session[current].mode = mode

Expected(s) == IF session[s].expected_files = "hidden" THEN HiddenFiles
                                                       ELSE CoverFiles
Uploaded(s) == IF session[s].uploaded_files = "hidden"
               THEN session[s].uploaded_hidden ELSE session[s].own

Lock(t) ==
  /\ Request(t, "lock") /\ current # NoSession
  /\ Becomes(t, [Handling("lock", "reserve") EXCEPT !.s = current])
  /\ UNCHANGED others

\* Mutant: a file that is still missing does not matter.
AnythingUploaded(s) == Expected(s) \intersect Uploaded(s) # {}
NothingMissing(s) == Expected(s) \subseteq Uploaded(s)

Finish(t) ==
  /\ Request(t, "finish") /\ Open("encrypt")
  /\ session[current].phase # "outer" /\ NothingMissing(current)
  /\ Becomes(t, [Handling("finish", "reserve") EXCEPT !.s = current])
  /\ UNCHANGED others

-----------------------------------------------------------------------------
(***************************************************************************)
(* _switch_encrypt_phase: no reservation; the outer volume is unmounted    *)
(* and the hidden one mounted in its place.                                *)
(***************************************************************************)
\* Bound: a process is left for the request.
MountLeft(s) ==
  Len(mounts[s]) + Cardinality({u \in Threads :
    thread[u].op = "switch" /\ thread[u].pc \in {"unmount", "reap", "wait", "stopped"}})
      < MaxMounts

Switch(t) ==
  /\ Request(t, "switch") /\ Open("encrypt")
  /\ session[current].deniable /\ session[current].phase = "outer"
  /\ CoverFiles \subseteq session[current].uploaded_outer
  /\ MountLeft(current)
  /\ Becomes(t, [Handling("switch", "unmount") EXCEPT !.s = current])
  /\ UNCHANGED others

Remount(t) ==
  /\ Doing(t, "switch", "stopped")
  /\ LET s == thread[t].s
     IN  \/ /\ session[s].hidden_password
            /\ Spawn(s, "hidden")
            /\ Becomes(t, [thread[t] EXCEPT !.pc = "remounting",
                                            !.m = Len(mounts[s]) + 1])
         \/ /\ ~session[s].hidden_password
            /\ dirs' = dirs \union {s} /\ Replies(t) /\ UNCHANGED mounts
  /\ UNCHANGED <<state, session, stack, vault, store, told>>

\* Mutant: that the process is running is enough.
ProcessRuns(t) == ~Dead(t)
\* The hidden volume, or what else there is, is mounted.
RemountSeen(t) == ~Dead(t) /\ IsMount(thread[t].s)

\* When the time is up the process is told to end, and the reply is sent.
AwaitRemount(t) ==
  /\ At(t, "remounting")
  /\ \/ Dead(t) /\ Replies(t) /\ UNCHANGED mounts
     \/ RemountSeen(t) /\ Goto(t, "process") /\ UNCHANGED mounts
     \/ ~Dead(t) /\ SwitchTimeouts /\ Terminate(t) /\ Replies(t)
  /\ UNCHANGED <<state, session, stack, dirs, vault, store, told>>

Set(t, new, pc) ==
  /\ session' = [session EXCEPT ![thread[t].s] = new]
  /\ IF pc = "ready" THEN Replies(t) ELSE Goto(t, pc)

\* Four assignments to the shared object, one after the other.
Assign(t) ==
  /\ LET old == session[thread[t].s]
     IN  \/ At(t, "process") /\ Set(t, [old EXCEPT !.process = thread[t].m], "phase")
         \/ At(t, "phase") /\ Set(t, [old EXCEPT !.phase = "hidden"], "expected")
         \/ At(t, "expected") /\ Set(t, [old EXCEPT !.expected_files = "hidden"], "uploaded")
         \/ At(t, "uploaded") /\ Set(t, [old EXCEPT !.uploaded_files = "hidden"], "ready")
  /\ UNCHANGED <<state, system, vault, store, told>>

-----------------------------------------------------------------------------
(***************************************************************************)
(* _upload_encrypted_file.  A page uploads files of the list the session   *)
(* expects, as long as it expects them.                                    *)
(***************************************************************************)
Upload(t, f) ==
  /\ Request(t, "upload") /\ Open("encrypt")
  /\ f \in Expected(current) /\ f \notin Uploaded(current)
  /\ Becomes(t, [Handling("upload", "open") EXCEPT !.s = current, !.file = f,
       !.volume = IF session[current].expected_files = "hidden"
                  THEN "hidden" ELSE "outer"])
  /\ UNCHANGED others

Contents(place, fs) == store' = [store EXCEPT ![place] = fs]

\* Mode "xb": the file must be new.
MayOpenNew(s, f) == Reachable(s) /\ FileAt(s, f) = {}

OpenDestination(t) ==
  /\ At(t, "open")
  /\ LET s == thread[t].s
         f == thread[t].file
         new == [name |-> f, source |-> thread[t].volume, whole |-> FALSE]
     IN  \/ /\ MayOpenNew(s, f)
            /\ Contents(Where(s), (store[Where(s)] \ FileAt(s, f)) \union {new})
            /\ Becomes(t, [thread[t] EXCEPT !.pc = "transfer", !.m = Top(s)])
         \/ ~MayOpenNew(s, f) /\ Replies(t) /\ UNCHANGED store
  /\ UNCHANGED <<state, session, system, vault, told>>

\* The file that t has open.
OpenPlace(t) ==
  IF thread[t].m = 0 THEN <<"host", thread[t].s>>
  ELSE <<mounts[thread[t].s][thread[t].m].volume, session[thread[t].s].name>>

\* The body arrives in full, or the browser stops or a write fails.
Transfer(t) ==
  /\ At(t, "transfer")
  /\ \/ /\ thread[t].m # 0 => mounts[thread[t].s][thread[t].m].st = "mounted"
        /\ Contents(OpenPlace(t),
             {[x EXCEPT !.whole = @ \/ x.name = thread[t].file] :
                x \in store[OpenPlace(t)]})
        /\ Goto(t, "book")
     \/ Goto(t, "discard") /\ UNCHANGED store
  /\ UNCHANGED <<state, session, system, vault, told>>

\* destination.unlink(), by its path.
Unlinked(t) ==
  LET s == thread[t].s
  IN  IF Reachable(s)
      THEN Contents(Where(s), store[Where(s)] \ FileAt(s, thread[t].file))
      ELSE UNCHANGED store

Discard(t) ==
  /\ At(t, "discard")
  /\ Unlinked(t)
  /\ Replies(t)
  /\ UNCHANGED <<state, session, system, vault, told>>

Book(t) ==
  /\ At(t, "book")
  /\ LET s == thread[t].s
         f == {thread[t].file}
     IN  session' = IF ~session[s].deniable THEN session
                    ELSE IF session[s].phase = "outer"
                    THEN [session EXCEPT ![s].uploaded_outer = @ \union f]
                    ELSE [session EXCEPT ![s].uploaded_hidden = @ \union f]
  /\ Goto(t, "count")
  /\ UNCHANGED <<state, system, vault, store, told>>

Count(t) ==
  /\ At(t, "count")
  /\ LET s == thread[t].s
         f == {thread[t].file}
     IN  session' = IF session[s].uploaded_files = "hidden"
                    THEN [session EXCEPT ![s].uploaded_hidden = @ \union f]
                    ELSE [session EXCEPT ![s].own = @ \union f]
  /\ Replies(t)
  /\ UNCHANGED <<state, system, vault, store, told>>

-----------------------------------------------------------------------------
(***************************************************************************)
(* Download of a file, import of a container.                              *)
(***************************************************************************)
Download(t, f) ==
  /\ Request(t, "download") /\ Open("decrypt")
  /\ Reachable(current) /\ FileAt(current, f) # {}
  /\ Becomes(t, [Handling("download", "fetch") EXCEPT !.s = current, !.file = f])
  /\ UNCHANGED others

OpenSource(t) ==
  /\ At(t, "fetch")
  /\ LET s == thread[t].s
     IN  IF Reachable(s) /\ FileAt(s, thread[t].file) # {}
         THEN Becomes(t, [thread[t] EXCEPT !.pc = "copy", !.m = Top(s)])
         ELSE Replies(t)
  /\ UNCHANGED others

Copied(t) ==
  /\ At(t, "copy")
  /\ Replies(t)
  /\ UNCHANGED others

Import(t, n, deniable) ==
  /\ Request(t, "import") /\ vault[n] = "none"
  /\ Becomes(t, [Handling("import", "receive") EXCEPT
                   !.name = n, !.deniable = deniable])
  /\ UNCHANGED others

\* The upload goes to a hidden name, which is removed when it fails.
Receive(t) ==
  /\ At(t, "receive")
  /\ Goto(t, "link") \/ Replies(t)
  /\ UNCHANGED others

\* Mutant: os.rename, which replaces the target.
Replaceable(n) == TRUE
\* os.link succeeds.
Linkable(n) == vault[n] = "none"

Link(t) ==
  /\ At(t, "link")
  /\ \/ /\ Linkable(thread[t].name)
        /\ Library(t, IF thread[t].deniable THEN "deniable" ELSE "standard")
     \/ ~Linkable(thread[t].name) /\ UNCHANGED vault
  /\ Replies(t)
  /\ UNCHANGED <<state, session, system, store, told>>

-----------------------------------------------------------------------------
(***************************************************************************)
(* Ctrl+C: no more connections; server_close joins the handler threads;    *)
(* then the open session is unmounted.                                     *)
(***************************************************************************)
Interrupt ==
  /\ At(Main, "serving") /\ Goto(Main, "closing")
  /\ UNCHANGED others

\* Mutant: the threads are daemons.
NotJoined == TRUE
Joined == \A t \in Threads : At(t, "off")

CloseServer ==
  /\ At(Main, "closing") /\ Joined
  /\ IF current = NoSession
     THEN Becomes(Main, [thread[Main] EXCEPT !.pc = "exited", !.ok = TRUE])
     ELSE Becomes(Main, [Handling("shutdown", "unmount") EXCEPT !.s = current])
  /\ UNCHANGED others

Exit ==
  /\ Doing(Main, "shutdown", "stopped")
  /\ Becomes(Main, [thread[Main] EXCEPT !.pc = "exited", !.ok = TRUE])
  /\ UNCHANGED others

-----------------------------------------------------------------------------
Browser(t) ==
  \/ Connect(t) \/ Disconnect(t)
  \/ \E n \in Names : \/ \E d \in BOOLEAN : Encrypt(t, n, d) \/ Import(t, n, d)
                      \/ \E v \in Volumes : Decrypt(t, n, v)
  \/ Switch(t) \/ Finish(t) \/ Lock(t)
  \/ \E f \in FileNames : Upload(t, f) \/ Download(t, f)
  \/ Transfer(t) \/ Copied(t) \/ Receive(t)

\* Steps that wait for nothing but a process with a deadline.
Handle(t) ==
  \/ Release(t) \/ ReserveClose(t)
  \/ Create(t) \/ Fill(t) \/ CreateHidden(t) \/ Unlock(t)
  \/ StartMount(t) \/ AwaitMount(t) \/ MountTimedOut(t) \/ Publish(t)
  \/ ListFiles(t) \/ ListFailed(t) \/ Locked(t)
  \/ Remount(t) \/ AwaitRemount(t) \/ Assign(t)
  \/ OpenDestination(t) \/ Discard(t) \/ Book(t) \/ Count(t)
  \/ OpenSource(t) \/ Link(t)

StopMount(t) == Unmount(t) \/ Reap(t) \/ WaitProcess(t)

Process(s) ==
  \E m \in DOMAIN mounts[s] :
    MountAppears(s, m) \/ MountFails(s, m) \/ MountTerminated(s, m) \/ MountEnds(s, m)

Next ==
  \/ \E t \in Threads : Browser(t) \/ Handle(t) \/ StopMount(t)
  \/ Interrupt \/ CloseServer \/ Exit \/ StopMount(Main)
  \/ \E s \in SessionIds : Process(s)
  \/ At(Main, "exited") /\ UNCHANGED vars

Fairness ==
  /\ \A t \in Threads : WF_vars(Handle(t) \/ StopMount(t))
  /\ WF_vars(CloseServer \/ Exit \/ StopMount(Main))
  /\ \A s \in SessionIds : WF_vars(Process(s))

Spec     == Init /\ [][Next]_vars
FairSpec == Spec /\ Fairness

-----------------------------------------------------------------------------
(***************************************************************************)
(* Properties.                                                             *)
(***************************************************************************)
\* A process that has a volume open, or is on the way to it.
Works(p) == p.st # "dead" /\ ~(p.st = "starting" /\ p.terminated)
Alive(s) == \E m \in DOMAIN mounts[s] : Works(mounts[s][m])

\* "Vault locked." and "Files encrypted and the vault is locked." are true:
\* nothing is mounted for that session any more, and every process that had
\* one of its volumes open has written everything and ended.
LockedIsUnmounted == \A s \in locked : stack[s] = <<>> /\ ~Alive(s)

\* A vault is never open in two denyfs processes at a time, which would write
\* their copies of bitmap and inode table over each other.
OneProcessPerVault ==
  \A r, s \in DOMAIN session : session[r].name = session[s].name =>
    \A l \in DOMAIN mounts[r] : \A m \in DOMAIN mounts[s] :
      Works(mounts[r][l]) /\ Works(mounts[s][m]) => r = s /\ l = m

\* When _finish_encrypt reports success, every selected file is in the volume
\* it was selected for, in full.
FinishedComplete ==
  \A s \in finished :
    LET Holds(v, fs) == \A f \in fs :
          [name |-> f, source |-> v, whole |-> TRUE] \in store[<<v, session[s].name>>]
    IN  /\ Holds("outer", CoverFiles)
        /\ session[s].deniable => Holds("hidden", HiddenFiles)

\* Files are stored in the mounted volume and nowhere else: none is ever
\* written to the mount directory while nothing is mounted there.
OnlyThroughMount == \A s \in SessionIds : store[<<"host", s>>] = {}

\* A container in the library is never replaced, removed or changed by
\* another request than the one that is creating it.
VaultsKept ==
  [][\A n \in Names : vault[n] # "none" /\ vault'[n] # vault[n] =>
       \E t \in Threads : /\ thread[t].op = "encrypt" /\ thread[t].name = n
                          /\ thread[t].pc \in {"fill", "hidden"}
                          /\ thread'[t] # thread[t]]_vars

\* After a clean shutdown no process has a vault open.
ShutdownClean ==
  At(Main, "exited") /\ thread[Main].ok => \A s \in SessionIds : ~Alive(s)

\* A reservation is always given back, whatever uploads and downloads do.
ReservationEnds == busy ~> ~busy
=============================================================================
