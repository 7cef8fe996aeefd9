-------------------------- MODULE DashboardProofs ---------------------------
(***************************************************************************)
(* Theorems about Dashboard for any number of connections, sessions, vaults *)
(* and files.  Types and the library need nothing of the page; that a      *)
(* vault is never open twice, and is closed when the user is told so,      *)
(* needs that no page switches the phase twice at a time or locks the      *)
(* vault meanwhile.                                                        *)
(***************************************************************************)
EXTENDS Dashboard, TLAPS

-----------------------------------------------------------------------------
(***************************************************************************)
(* The first half of the invariant: what holds whatever the pages do.      *)
(* Its parts are predicates of a handler h and of what they read.          *)
(***************************************************************************)
Opens(h)  == h.op \in {"encrypt", "decrypt"}
Closes(h) == h.op \in {"lock", "finish"}

\* The handler has the reservation.
Reserves(h) == Opens(h) \/ (Closes(h) /\ h.pc # "reserve")

\* Which requests are where.
Shape(h) ==
  /\ h.pc \in {"off", "ready", "serving", "closing"} => h.op = "none"
  /\ h.pc = "exited" => h.op \in {"none", "shutdown"}
  /\ h.pc \in {"create", "fill", "hidden"} => h.op = "encrypt"
  /\ h.pc \in {"unlock", "list"} => h.op = "decrypt"
  /\ h.pc \in {"spawn", "await", "terminated", "publish"} => Opens(h)
  /\ h.pc \in {"unmount", "reap", "wait", "stopped"} =>
       h.op \in {"switch", "lock", "finish", "decrypt", "shutdown"}
  /\ h.pc \in {"remounting", "process", "phase", "expected", "uploaded"} =>
       h.op = "switch"
  /\ h.pc \in {"open", "transfer", "discard", "book", "count"} => h.op = "upload"
  /\ h.pc = "reserve" => Closes(h)
  /\ h.pc \in {"fetch", "copy"} => h.op = "download"
  /\ h.pc \in {"receive", "link"} => h.op = "import"
  /\ h.pc = "release" => Opens(h) \/ Closes(h)

\* Before there is a session for the request.
Preparing(h) == h.pc \in {"create", "fill", "hidden", "unlock", "spawn"}

\* The session of a handler is one of the n there are, and one is left for a
\* request that will open one.
Arguments(h, n) ==
  /\ Opens(h) \/ h.op = "import" => h.name \in Names
  /\ h.op \in {"upload", "download"} => h.file \in FileNames
  /\ Preparing(h) => n < MaxSessions
  /\ h.pc \in {"await", "terminated", "publish", "list", "unmount", "reap",
               "wait", "stopped", "remounting", "process", "phase",
               "expected", "uploaded", "open", "transfer", "discard", "book",
               "count", "reserve", "fetch", "copy"} => h.s \in 1 .. n

MainShape(h) ==
  /\ h.op \in {"none", "shutdown"}
  /\ h.pc \in {"serving", "closing", "unmount", "reap", "wait", "stopped", "exited"}

Handlers == /\ \A t \in Threads \union {Main} :
                 Shape(thread[t]) /\ Arguments(thread[t], Len(session))
            /\ \A t \in Threads : thread[t].op # "shutdown"
            /\ MainShape(thread[Main])

\* At most one handler has the reservation.
Reservation ==
  /\ \A t \in Threads : Reserves(thread[t]) => busy
  /\ \A t, u \in Threads : Reserves(thread[t]) /\ Reserves(thread[u]) => t = u

CurrentOK == current # NoSession => current \in 1 .. Len(session)

Inv1 == DashboardTypeOK /\ Handlers /\ Reservation /\ CurrentOK

-----------------------------------------------------------------------------
(***************************************************************************)
(* The second half: what holds when the phase is switched alone.           *)
(***************************************************************************)
\* No page sends another switch, lock or finish during a switch.
SwitchAlone == \A op \in {"switch", "lock", "finish"} : {"switch", op} \in Apart

\* ... and the hidden volume is mounted in time.
Calm == SwitchAlone /\ ~SwitchTimeouts

\* A session for which a process was started and that is not open yet.
Starting(h) == h.pc \in {"await", "terminated", "publish"}
\* The session is being closed, or its volume unmounted for the switch.
Stopping(h) == h.pc \in {"unmount", "reap", "wait", "stopped"}
\* Handlers that open or close a vault: only one can.
Active(h) == Preparing(h) \/ Starting(h) \/ Stopping(h) \/ h.pc = "list" \/ h.op = "switch"

Alone == \A t, u \in Threads :
  thread[t].op = "switch" /\ (thread[u].op = "switch" \/ Closes(thread[u])) => t = u

\* While a vault is opened, no other is open.
OpeningOK(h, ses, mnt, st, lk, cur) ==
  /\ Preparing(h) \/ Starting(h) => cur = NoSession
  /\ Starting(h) => /\ ses[h.s].mode = h.op
                    /\ Len(mnt[h.s]) = 1 /\ h.m = 1 /\ h.s \notin lk
                    /\ st[h.s] # <<>> => mnt[h.s][1].st = "mounted"

\* A volume is unmounted for the open session, and all its processes have
\* ended when that is done.
ClosingOK(h, ses, mnt, cur) ==
  /\ Stopping(h) \/ h.pc = "list" \/ h.op = "switch" => h.s = cur
  /\ h.op = "switch" => ses[h.s].mode = "encrypt"
  /\ Stopping(h) /\ h.op = "decrypt" => ses[h.s].mode = "decrypt"
  /\ h.pc = "list" => ses[h.s].mode = "decrypt"
  /\ h.pc = "wait" => h.m = ses[h.s].process
  /\ h.pc = "stopped" => ~\E m \in DOMAIN mnt[h.s] : Works(mnt[h.s][m])
  /\ h.pc \in {"remounting", "process"} => h.m = Len(mnt[h.s])

\* The process that the open session will have when the switch is done.
Remounts(h, s, m) == h.pc \in {"remounting", "process"} /\ h.s = s /\ h.m = m

\* Only the last process of a session works, and only while the session is
\* open or on the way to it.
Worker(s, m) ==
  /\ m = Len(mounts[s])
  /\ current = s \/ \E t \in Threads : Starting(thread[t]) /\ thread[t].s = s
  /\ session[s].process = m \/ \E t \in Threads : Remounts(thread[t], s, m)

\* ... and only it is mounted.
Stacked(p, st, cur, s) ==
  /\ \A m \in DOMAIN p : p[m].st = "mounted" => st = <<m>>
  /\ st # <<>> => /\ st = <<Len(p)>> /\ p # <<>>
                  /\ p[Len(p)].st = "mounted" \/ (p[Len(p)].st = "dead" /\ cur # s)

ProcessesOK ==
  \A s \in SessionIds :
    /\ s > Len(session) => mounts[s] = <<>> /\ stack[s] = <<>>
    /\ \A m \in DOMAIN mounts[s] : Works(mounts[s][m]) => Worker(s, m)
    /\ Stacked(mounts[s], stack[s], current, s)

LockedOK == \A s \in locked : s \in 1 .. Len(session) /\ s # current
                              /\ stack[s] = <<>> /\ ~Alive(s)

\* The main thread is past its handlers.
Past(h) == h.pc \notin {"serving", "closing"}

ShutdownOK ==
  /\ Past(thread[Main]) => \A t \in Threads : At(t, "off")
  /\ thread[Main].pc # "exited" => ~thread[Main].ok
  /\ ShutdownClean

HandlersOK == \A t \in Threads \union {Main} :
  /\ OpeningOK(thread[t], session, mounts, stack, locked, current)
  /\ ClosingOK(thread[t], session, mounts, current)

Inv2 == Alone /\ HandlersOK /\ ProcessesOK /\ LockedOK /\ ShutdownOK

-----------------------------------------------------------------------------
(***************************************************************************)
(* Handlers as they move on.                                               *)
(***************************************************************************)
Everyone == Threads \union {Main}

Positions ==
  {"off", "ready", "create", "fill", "hidden", "unlock", "spawn",
   "await", "terminated", "publish", "list", "unmount", "reap", "wait",
   "stopped", "remounting", "process", "phase", "expected", "uploaded",
   "open", "transfer", "discard", "book", "count", "reserve", "fetch",
   "copy", "receive", "link", "release", "serving", "closing", "exited"}

\* The fields of a handler.
LEMMA HandlerFields ==
  ASSUME NEW x \in Handler
  PROVE  /\ x.op \in {"none", "encrypt", "switch", "upload", "finish", "decrypt",
                      "download", "lock", "import", "shutdown"}
         /\ x.pc \in Positions /\ x.s \in 0 .. MaxSessions
         /\ x.name \in Names \union {""} /\ x.volume \in Volumes
         /\ x.deniable \in BOOLEAN /\ x.file \in FileNames \union {""}
         /\ x.m \in Nat /\ x.ok \in BOOLEAN
  BY DEF Handler, Positions

\* Handler t becomes y and no other handler moves.
Moves(t, y) == /\ thread' \in [Everyone -> Handler] /\ thread'[t] = y
               /\ \A u \in Everyone \ {t} : thread'[u] = thread[u]

\* A handler becomes another value.
LEMMA BecomesMoves ==
  ASSUME thread \in [Everyone -> Handler], NEW t \in Everyone, NEW y \in Handler,
         Becomes(t, y)
  PROVE  Moves(t, y)
  BY DEF Becomes, Moves

\* A handler goes to pc.
LEMMA GotoMoves ==
  ASSUME thread \in [Everyone -> Handler], NEW t \in Everyone,
         NEW pc \in Positions, Goto(t, pc)
  PROVE  \E y \in Handler :
           /\ Moves(t, y)
           /\ y.pc = pc /\ y.op = thread[t].op /\ y.s = thread[t].s
           /\ y.name = thread[t].name /\ y.file = thread[t].file
           /\ y.volume = thread[t].volume /\ y.deniable = thread[t].deniable
           /\ y.m = thread[t].m /\ y.ok = thread[t].ok
<1> DEFINE x == thread[t]
           y == [x EXCEPT !.pc = pc]
<1>1. x \in Handler
  OBVIOUS
<1>2. y \in Handler
  BY <1>1 DEF Handler, Positions
<1>3. /\ y.pc = pc /\ y.op = x.op /\ y.s = x.s /\ y.name = x.name
      /\ y.file = x.file /\ y.volume = x.volume /\ y.deniable = x.deniable
      /\ y.m = x.m /\ y.ok = x.ok
  BY <1>1 DEF Handler
<1>4. Becomes(t, y)
  BY DEF Goto, Becomes
<1>5. Moves(t, y)
  BY <1>2, <1>4, BecomesMoves
<1> QED BY <1>2, <1>3, <1>5

\* Handler t goes to pc and remembers process m.
Advances(t, pc, m) == Becomes(t, [thread[t] EXCEPT !.pc = pc, !.m = m])

\* ... and remembers a process.
LEMMA AdvancesMoves ==
  ASSUME thread \in [Everyone -> Handler], NEW t \in Everyone,
         NEW pc \in Positions, NEW m \in Nat, Advances(t, pc, m)
  PROVE  \E y \in Handler :
           /\ Moves(t, y)
           /\ y.pc = pc /\ y.op = thread[t].op /\ y.s = thread[t].s
           /\ y.name = thread[t].name /\ y.file = thread[t].file
           /\ y.m = m /\ y.ok = thread[t].ok
<1> DEFINE x == thread[t]
           y == [x EXCEPT !.pc = pc, !.m = m]
<1>1. x \in Handler
  OBVIOUS
<1>2. y \in Handler
  BY <1>1 DEF Handler, Positions
<1>3. /\ y.pc = pc /\ y.op = x.op /\ y.s = x.s /\ y.name = x.name
      /\ y.file = x.file /\ y.m = m /\ y.ok = x.ok
  BY <1>1 DEF Handler
<1>4. Moves(t, y)
  BY <1>2, BecomesMoves DEF Advances
<1> QED BY <1>2, <1>3, <1>4

\* A handler goes to the finally clause.
LEMMA LeavesMoves ==
  ASSUME thread \in [Everyone -> Handler], NEW t \in Everyone,
         NEW ok \in BOOLEAN, Leaves(t, ok)
  PROVE  \E y \in Handler :
           /\ Moves(t, y)
           /\ y.pc = "release" /\ y.op = thread[t].op /\ y.s = thread[t].s
           /\ y.name = thread[t].name /\ y.file = thread[t].file
<1> DEFINE x == thread[t]
           y == [x EXCEPT !.pc = "release", !.ok = ok]
<1>1. x \in Handler
  OBVIOUS
<1>2. y \in Handler
  BY <1>1 DEF Handler
<1>3. y.pc = "release" /\ y.op = x.op /\ y.s = x.s /\ y.name = x.name
      /\ y.file = x.file
  BY <1>1 DEF Handler
<1>4. Moves(t, y)
  BY <1>2, BecomesMoves DEF Leaves
<1> QED BY <1>2, <1>3, <1>4

\* A handler of a connection that waits for a request.
LEMMA IdleHandler ==
  ASSUME NEW pc \in Positions
  PROVE  /\ Idle(pc) \in Handler /\ Idle(pc).op = "none" /\ Idle(pc).pc = pc
         /\ Idle(pc).m = 0 /\ Idle(pc).s = 0
<1>1. 0 \in 0 .. MaxSessions
  BY DashboardAssumption
<1> QED BY <1>1 DEF Idle, Handler, Volumes, Positions

\* A handler at the start of a request.
LEMMA FreshHandler ==
  ASSUME NEW op \in {"none", "encrypt", "switch", "upload", "finish", "decrypt",
                     "download", "lock", "import", "shutdown"},
         NEW pc \in Positions
  PROVE  /\ Handling(op, pc) \in Handler
         /\ Handling(op, pc).op = op /\ Handling(op, pc).pc = pc
<1> DEFINE i == Idle(pc)
<1>1. i \in Handler /\ i.pc = pc
  BY IdleHandler
<1> HIDE DEF i
<1>2. [i EXCEPT !.op = op] \in Handler
      /\ [i EXCEPT !.op = op].op = op /\ [i EXCEPT !.op = op].pc = pc
  BY <1>1 DEF Handler
<1> QED BY <1>2 DEF Handling, i

\* A handler sends its reply.
LEMMA RepliesMoves ==
  ASSUME thread \in [Everyone -> Handler], NEW t \in Everyone, Replies(t)
  PROVE  \E y \in Handler :
           Moves(t, y) /\ y.pc = "ready" /\ y.op = "none" /\ y.s = 0 /\ y.m = 0
<1>1. Idle("ready") \in Handler /\ Idle("ready").op = "none"
      /\ Idle("ready").pc = "ready" /\ Idle("ready").m = 0 /\ Idle("ready").s = 0
  BY IdleHandler DEF Positions
<1>2. Moves(t, Idle("ready"))
  BY <1>1, BecomesMoves DEF Replies
<1> QED BY <1>1, <1>2

-----------------------------------------------------------------------------
(***************************************************************************)
(* What a step does to its handler and to the reservation.                 *)
(***************************************************************************)

\* What the invariant says of each variable and handler, unfolded once.
LEMMA Unfolded1 ==
  ASSUME Inv1
  PROVE  /\ busy \in BOOLEAN /\ current \in SessionIds \union {NoSession}
         /\ session \in Seq(MountSession) /\ Len(session) \in 0 .. MaxSessions
         /\ mounts \in [SessionIds -> Seq(MountProcess)]
         /\ stack \in [SessionIds -> Seq(Nat)] /\ dirs \subseteq SessionIds
         /\ vault \in [Names -> {"none", "making", "standard", "deniable"}]
         /\ store \in [Places -> SUBSET File]
         /\ thread \in [Everyone -> Handler]
         /\ locked \subseteq SessionIds /\ finished \subseteq SessionIds
         /\ MaxSessions \in Nat \ {0} /\ Main \notin Threads /\ Main \in Everyone
         /\ Threads \subseteq Everyone
         /\ current # NoSession => current \in 1 .. Len(session)
         /\ \A t \in Everyone : /\ Shape(thread[t])
                                /\ Arguments(thread[t], Len(session))
                                /\ thread[t] \in Handler
         /\ \A t \in Threads : thread[t].op # "shutdown"
         /\ MainShape(thread[Main])
  BY DashboardAssumption
     DEF Inv1, DashboardTypeOK, Handlers, CurrentOK, Everyone

\* y is a handler in order; n sessions have been opened.
Fine(t, y, n) ==
  /\ Shape(y) /\ Arguments(y, n)
  /\ IF t = Main THEN MainShape(y) ELSE y.op # "shutdown"

\* The reservation stays, is made when there is none, or given back.
KeepsOrder(t, y) ==
  \/ busy' = busy /\ (Reserves(y) => Reserves(thread[t]))
  \/ ~busy /\ busy' = TRUE
  \/ t \in Threads /\ Reserves(thread[t]) /\ ~Reserves(y)

Orderly(t) == \E y \in Handler : Moves(t, y) /\ Fine(t, y, Len(session)) /\ KeepsOrder(t, y)

\* When one handler moves and is in order, all are.
LEMMA HandlersStep ==
  ASSUME Inv1, NEW t \in Everyone, NEW y \in Handler, Moves(t, y),
         Fine(t, y, Len(session)), KeepsOrder(t, y), Len(session') = Len(session)
  PROVE  Handlers' /\ Reservation'
<1>0. Reservation
  BY DEF Inv1
<1>1. \A u \in Everyone : thread'[u] = IF u = t THEN y ELSE thread[u]
  BY DEF Moves
<1>2. Handlers'
  BY <1>1, Unfolded1 DEF Handlers, Fine, Everyone
<1>3. CASE t = Main
  <2>1. ~Reserves(y)
    BY <1>3 DEF Fine, MainShape, Reserves, Opens, Closes
  <2>2. \A u \in Threads : thread'[u] = thread[u]
    BY <1>1, <1>3, Unfolded1
  <2> QED BY <1>0, <1>2, <1>3, <2>1, <2>2, Unfolded1 DEF Reservation, KeepsOrder
<1>4. CASE t # Main
  <2>1. t \in Threads
    BY <1>4 DEF Everyone
  <2>2. \A u \in Threads : Reserves(thread'[u]) =>
          busy' /\ (u = t \/ Reserves(thread[u]))
    <3>1. ASSUME NEW u \in Threads, Reserves(thread'[u])
          PROVE  busy' /\ (u = t \/ Reserves(thread[u]))
      <4>1. u \in Everyone
        BY DEF Everyone
      <4>2. CASE u = t
        BY <1>0, <1>1, <2>1, <3>1, <4>2 DEF Reservation, KeepsOrder
      <4>3. CASE u # t
        BY <1>0, <1>1, <2>1, <3>1, <4>1, <4>3 DEF Reservation, KeepsOrder
      <4> QED BY <4>2, <4>3
    <3> QED BY <3>1
  <2>3. ASSUME NEW u \in Threads, NEW v \in Threads,
               Reserves(thread'[u]), Reserves(thread'[v])
        PROVE  u = v
    <3>1. u \in Everyone /\ v \in Everyone
      BY DEF Everyone
    <3> QED BY <1>0, <1>1, <2>1, <2>2, <2>3, <3>1 DEF Reservation, KeepsOrder
  <2> QED BY <1>2, <2>2, <2>3 DEF Reservation
<1> QED BY <1>2, <1>3, <1>4

\* A handler that goes on, leaves or replies.
LEMMA GoesOn ==
  ASSUME Inv1, NEW t \in Everyone, busy' = busy
  PROVE  /\ \A pc \in Positions :
              (/\ Goto(t, pc)
               /\ \A y \in Handler :
                    y.pc = pc /\ y.op = thread[t].op /\ y.s = thread[t].s
                    /\ y.name = thread[t].name /\ y.file = thread[t].file =>
                      Fine(t, y, Len(session)) /\ (Reserves(y) => Reserves(thread[t])))
              => Orderly(t)
         /\ \A ok \in BOOLEAN :
              t \in Threads /\ Leaves(t, ok) /\ Reserves(thread[t]) =>
                Orderly(t)
         /\ t \in Threads /\ Replies(t) =>
              Orderly(t)
<1>1. thread \in [Everyone -> Handler]
  BY Unfolded1
<1>2. ASSUME NEW pc \in Positions, Goto(t, pc),
             \A y \in Handler :
               y.pc = pc /\ y.op = thread[t].op /\ y.s = thread[t].s
               /\ y.name = thread[t].name /\ y.file = thread[t].file =>
                 Fine(t, y, Len(session)) /\ (Reserves(y) => Reserves(thread[t]))
      PROVE  Orderly(t)
  <2>1. PICK y \in Handler : /\ Moves(t, y)
           /\ y.pc = pc /\ y.op = thread[t].op /\ y.s = thread[t].s
           /\ y.name = thread[t].name /\ y.file = thread[t].file
    BY <1>1, <1>2, GotoMoves
  <2> QED BY <1>2, <2>1 DEF KeepsOrder, Orderly
<1>3. ASSUME NEW ok \in BOOLEAN, t \in Threads, Leaves(t, ok), Reserves(thread[t])
      PROVE  Orderly(t)
  <2>1. PICK y \in Handler : /\ Moves(t, y) /\ y.pc = "release"
           /\ y.op = thread[t].op /\ y.s = thread[t].s
           /\ y.name = thread[t].name /\ y.file = thread[t].file
    BY <1>1, <1>3, LeavesMoves
  <2>2. Fine(t, y, Len(session))
    BY <1>3, <2>1, Unfolded1 DEF Fine, Shape, Arguments, Preparing, Reserves,
       Opens, Closes
  <2> QED BY <1>3, <2>1, <2>2 DEF KeepsOrder, Orderly
<1>4. ASSUME t \in Threads, Replies(t)
      PROVE  Orderly(t)
  <2>1. PICK y \in Handler : Moves(t, y) /\ y.pc = "ready" /\ y.op = "none"
    BY <1>1, <1>4, RepliesMoves
  <2>2. Fine(t, y, Len(session)) /\ ~Reserves(y)
    BY <1>4, <2>1, Unfolded1 DEF Fine, Shape, Arguments, Preparing, Reserves,
       Opens, Closes
  <2> QED BY <2>1, <2>2 DEF KeepsOrder, Orderly
<1> QED BY <1>2, <1>3, <1>4

\* Requests as they arrive, and connections.
LEMMA BrowserOrderly ==
  ASSUME Inv1, NEW t \in Threads,
         \/ Connect(t) \/ Disconnect(t) \/ Switch(t) \/ Finish(t) \/ Lock(t)
         \/ \E n \in Names : \/ \E d \in BOOLEAN : Encrypt(t, n, d) \/ Import(t, n, d)
                             \/ \E v \in Volumes : Decrypt(t, n, v)
         \/ \E f \in FileNames : Upload(t, f) \/ Download(t, f)
  PROVE  Orderly(t)
<1>1. thread \in [Everyone -> Handler] /\ t \in Everyone /\ t # Main
      /\ thread[t] \in Handler
  BY Unfolded1
<1>2. current # NoSession => current \in 1 .. Len(session) /\ current \in 0 .. MaxSessions
  BY Unfolded1
<1> DEFINE n == Len(session)
<1>3. ASSUME NEW y \in Handler, Moves(t, y), Fine(t, y, n),
             (busy' = busy /\ ~Reserves(y)) \/ (~busy /\ busy' = TRUE)
      PROVE  Orderly(t)
  BY <1>3 DEF Orderly, KeepsOrder
<1>4. CASE Connect(t) \/ Disconnect(t)
  <2>1. PICK pc \in {"ready", "off"} : Becomes(t, Idle(pc)) /\ busy' = busy
    BY <1>4 DEF Connect, Disconnect, others, state
  <2> DEFINE y == Idle(pc)
  <2>2. y \in Handler /\ y.op = "none" /\ y.pc = pc
    BY IdleHandler DEF Positions
  <2> HIDE DEF y
  <2>3. Fine(t, y, n) /\ ~Reserves(y)
    BY <1>1, <2>1, <2>2 DEF Fine, Shape, Arguments, Reserves, Opens, Closes, Preparing
  <2>4. Moves(t, y)
    BY <1>1, <2>1, <2>2, BecomesMoves DEF y
  <2> QED BY <1>3, <2>1, <2>2, <2>3, <2>4
<1>5. ASSUME NEW op \in {"lock", "finish"},
             Becomes(t, [Handling(op, "reserve") EXCEPT !.s = current]),
             busy' = busy, current # NoSession
      PROVE  Orderly(t)
  <2>1. Becomes(t, [Handling(op, "reserve") EXCEPT !.s = current])
    BY <1>5
  <2>2. busy' = busy /\ current # NoSession
    BY <1>5
  <2> DEFINE z == Handling(op, "reserve")
             y == [z EXCEPT !.s = current]
  <2>3. z \in Handler /\ z.op = op /\ z.pc = "reserve"
    <3>1. "reserve" \in Positions /\ op \in {"none", "encrypt", "switch", "upload",
            "finish", "decrypt", "download", "lock", "import", "shutdown"}
      BY DEF Positions
    <3> QED BY <3>1, FreshHandler
  <2> HIDE DEF z
  <2>4. y \in Handler /\ y.op = op /\ y.pc = "reserve"
        /\ y.s = current
    BY <1>2, <2>2, <2>3 DEF Handler
  <2> HIDE DEF y
  <2>5. Moves(t, y)
    BY <1>1, <2>1, <2>4, BecomesMoves DEF y, z
  <2>6. Fine(t, y, n) /\ ~Reserves(y)
    BY <1>1, <1>2, <2>2, <2>4 DEF Fine, Shape, Arguments, Reserves, Opens, Closes,
       Preparing
  <2> QED BY <1>3, <2>2, <2>4, <2>5, <2>6
<1>6. CASE Switch(t)
  <2>1. Becomes(t, [Handling("switch", "unmount") EXCEPT !.s = current])
    BY <1>6 DEF Switch
  <2>2. busy' = busy /\ current # NoSession
    BY <1>6 DEF Switch, Open, others, state
  <2> DEFINE z == Handling("switch", "unmount")
             y == [z EXCEPT !.s = current]
  <2>3. z \in Handler /\ z.op = "switch" /\ z.pc = "unmount"
    BY FreshHandler DEF Positions
  <2> HIDE DEF z
  <2>4. y \in Handler /\ y.op = "switch" /\ y.pc = "unmount"
        /\ y.s = current
    BY <1>2, <2>2, <2>3 DEF Handler
  <2> HIDE DEF y
  <2>5. Moves(t, y)
    BY <1>1, <2>1, <2>4, BecomesMoves DEF y, z
  <2>6. Fine(t, y, n) /\ ~Reserves(y)
    BY <1>1, <1>2, <2>2, <2>4 DEF Fine, Shape, Arguments, Reserves, Opens, Closes,
       Preparing
  <2> QED BY <1>3, <2>2, <2>4, <2>5, <2>6
<1>7. ASSUME NEW m \in Names, NEW d \in BOOLEAN, Encrypt(t, m, d)
      PROVE  Orderly(t)
  <2>1. Becomes(t, [Handling("encrypt", "create") EXCEPT !.name = m, !.deniable = d])
    BY <1>7 DEF Encrypt
  <2>2. ~busy /\ busy' = TRUE /\ n < MaxSessions
    BY <1>7 DEF Encrypt, MayReserve, SessionLeft
  <2> DEFINE z == Handling("encrypt", "create")
             y == [z EXCEPT !.name = m, !.deniable = d]
  <2>3. z \in Handler /\ z.op = "encrypt" /\ z.pc = "create"
    BY FreshHandler DEF Positions
  <2> HIDE DEF z
  <2>4. y \in Handler /\ y.op = "encrypt" /\ y.pc = "create"
        /\ y.name = m
    BY <1>7, <2>2, <2>3 DEF Handler
  <2> HIDE DEF y
  <2>5. Moves(t, y)
    BY <1>1, <2>1, <2>4, BecomesMoves DEF y, z
  <2>6. Fine(t, y, n)
    BY <1>1, <1>2, <2>2, <2>4 DEF Fine, Shape, Arguments, Reserves, Opens, Closes,
       Preparing
  <2> QED BY <1>3, <2>2, <2>4, <2>5, <2>6
<1>8. ASSUME NEW m \in Names, NEW v \in Volumes, Decrypt(t, m, v)
      PROVE  Orderly(t)
  <2>1. Becomes(t, [Handling("decrypt", "unlock") EXCEPT !.name = m, !.volume = v])
    BY <1>8 DEF Decrypt
  <2>2. ~busy /\ busy' = TRUE /\ n < MaxSessions
    BY <1>8 DEF Decrypt, MayReserve, SessionLeft
  <2> DEFINE z == Handling("decrypt", "unlock")
             y == [z EXCEPT !.name = m, !.volume = v]
  <2>3. z \in Handler /\ z.op = "decrypt" /\ z.pc = "unlock"
    BY FreshHandler DEF Positions
  <2> HIDE DEF z
  <2>4. y \in Handler /\ y.op = "decrypt" /\ y.pc = "unlock"
        /\ y.name = m
    BY <1>8, <2>2, <2>3 DEF Handler
  <2> HIDE DEF y
  <2>5. Moves(t, y)
    BY <1>1, <2>1, <2>4, BecomesMoves DEF y, z
  <2>6. Fine(t, y, n)
    BY <1>1, <1>2, <2>2, <2>4 DEF Fine, Shape, Arguments, Reserves, Opens, Closes,
       Preparing
  <2> QED BY <1>3, <2>2, <2>4, <2>5, <2>6
<1>9. ASSUME NEW m \in Names, NEW d \in BOOLEAN, Import(t, m, d)
      PROVE  Orderly(t)
  <2>1. Becomes(t, [Handling("import", "receive") EXCEPT !.name = m, !.deniable = d])
    BY <1>9 DEF Import
  <2>2. busy' = busy
    BY <1>9 DEF Import, others, state
  <2> DEFINE z == Handling("import", "receive")
             y == [z EXCEPT !.name = m, !.deniable = d]
  <2>3. z \in Handler /\ z.op = "import" /\ z.pc = "receive"
    BY FreshHandler DEF Positions
  <2> HIDE DEF z
  <2>4. y \in Handler /\ y.op = "import" /\ y.pc = "receive"
        /\ y.name = m
    BY <1>9, <2>2, <2>3 DEF Handler
  <2> HIDE DEF y
  <2>5. Moves(t, y)
    BY <1>1, <2>1, <2>4, BecomesMoves DEF y, z
  <2>6. Fine(t, y, n) /\ ~Reserves(y)
    BY <1>1, <1>2, <2>2, <2>4 DEF Fine, Shape, Arguments, Reserves, Opens, Closes,
       Preparing
  <2> QED BY <1>3, <2>2, <2>4, <2>5, <2>6
<1>10. ASSUME NEW f \in FileNames, Upload(t, f)
       PROVE  Orderly(t)
  <2>1. PICK v \in Volumes :
          Becomes(t, [Handling("upload", "open") EXCEPT !.s = current, !.file = f, !.volume = v])
    BY <1>10 DEF Upload, Volumes
  <2>2. busy' = busy /\ current # NoSession
    BY <1>10 DEF Upload, Open, others, state
  <2> DEFINE z == Handling("upload", "open")
             y == [z EXCEPT !.s = current, !.file = f, !.volume = v]
  <2>3. z \in Handler /\ z.op = "upload" /\ z.pc = "open"
    BY FreshHandler DEF Positions
  <2> HIDE DEF z
  <2>4. y \in Handler /\ y.op = "upload" /\ y.pc = "open"
        /\ y.s = current /\ y.file = f
    BY <1>2, <1>10, <2>2, <2>3 DEF Handler
  <2> HIDE DEF y
  <2>5. Moves(t, y)
    BY <1>1, <2>1, <2>4, BecomesMoves DEF y, z
  <2>6. Fine(t, y, n) /\ ~Reserves(y)
    BY <1>1, <1>2, <2>2, <2>4 DEF Fine, Shape, Arguments, Reserves, Opens, Closes,
       Preparing
  <2> QED BY <1>3, <2>2, <2>4, <2>5, <2>6
<1>11. ASSUME NEW f \in FileNames, Download(t, f)
       PROVE  Orderly(t)
  <2>1. Becomes(t, [Handling("download", "fetch") EXCEPT !.s = current, !.file = f])
    BY <1>11 DEF Download
  <2>2. busy' = busy /\ current # NoSession
    BY <1>11 DEF Download, Open, others, state
  <2> DEFINE z == Handling("download", "fetch")
             y == [z EXCEPT !.s = current, !.file = f]
  <2>3. z \in Handler /\ z.op = "download" /\ z.pc = "fetch"
    BY FreshHandler DEF Positions
  <2> HIDE DEF z
  <2>4. y \in Handler /\ y.op = "download" /\ y.pc = "fetch"
        /\ y.s = current /\ y.file = f
    BY <1>2, <1>11, <2>2, <2>3 DEF Handler
  <2> HIDE DEF y
  <2>5. Moves(t, y)
    BY <1>1, <2>1, <2>4, BecomesMoves DEF y, z
  <2>6. Fine(t, y, n) /\ ~Reserves(y)
    BY <1>1, <1>2, <2>2, <2>4 DEF Fine, Shape, Arguments, Reserves, Opens, Closes,
       Preparing
  <2> QED BY <1>3, <2>2, <2>4, <2>5, <2>6
<1>12. CASE Lock(t) \/ Finish(t)
  <2>1. PICK op \in {"lock", "finish"} :
          /\ Becomes(t, [Handling(op, "reserve") EXCEPT !.s = current])
          /\ busy' = busy /\ current # NoSession
    BY <1>12 DEF Lock, Finish, Open, others, state
  <2> QED BY <1>5, <2>1
<1> QED BY <1>4, <1>6, <1>7, <1>8, <1>9, <1>10, <1>11, <1>12

\* A handler moves on by a fixed table of positions.
Follows(op, a, b) ==
  \/ op = "encrypt" /\ <<a, b>> \in {<<"create", "fill">>, <<"fill", "hidden">>,
       <<"fill", "spawn">>, <<"hidden", "spawn">>}
  \/ op = "decrypt" /\ <<a, b>> \in {<<"unlock", "spawn">>, <<"publish", "list">>,
       <<"list", "unmount">>}
  \/ op \in {"encrypt", "decrypt"} /\ <<a, b>> \in {<<"await", "publish">>,
       <<"await", "terminated">>}
  \/ <<a, b>> \in {<<"unmount", "reap">>, <<"reap", "wait">>, <<"wait", "stopped">>}
  \/ op \in {"lock", "finish"} /\ <<a, b>> = <<"reserve", "unmount">>
  \/ op = "switch" /\ <<a, b>> \in {<<"stopped", "remounting">>,
       <<"remounting", "process">>, <<"process", "phase">>, <<"phase", "expected">>, <<"expected", "uploaded">>}
  \/ op = "upload" /\ <<a, b>> \in {<<"open", "transfer">>,
       <<"transfer", "book">>, <<"transfer", "discard">>, <<"book", "count">>}
  \/ op = "download" /\ <<a, b>> = <<"fetch", "copy">>
  \/ op = "import" /\ <<a, b>> = <<"receive", "link">>

\* It then is in order, and has the reservation only if it had it or makes it.
LEMMA FollowsOrderly ==
  ASSUME Inv1, NEW t \in Threads, NEW pc \in Positions,
         \/ Goto(t, pc)
         \/ \E m \in Nat : Advances(t, pc, m),
         Follows(thread[t].op, thread[t].pc, pc),
         IF thread[t].pc = "reserve" THEN ~busy /\ busy' = TRUE ELSE busy' = busy
  PROVE  Orderly(t)
<1> DEFINE x == thread[t]
<1>1. thread \in [Everyone -> Handler] /\ t \in Everyone /\ t # Main
      /\ Shape(x) /\ Arguments(x, Len(session)) /\ x.op # "shutdown"
  BY Unfolded1
<1>2. PICK y \in Handler : /\ Moves(t, y) /\ y.pc = pc /\ y.op = x.op
           /\ y.s = x.s /\ y.name = x.name /\ y.file = x.file
  <2>1. CASE Goto(t, pc)
    BY <1>1, <2>1, GotoMoves
  <2>2. ASSUME NEW m \in Nat, Advances(t, pc, m)
        PROVE  \E y \in Handler : /\ Moves(t, y) /\ y.pc = pc /\ y.op = x.op
           /\ y.s = x.s /\ y.name = x.name /\ y.file = x.file
    BY <1>1, <2>2, AdvancesMoves
  <2> QED BY <2>1, <2>2
<1> HIDE DEF x
<1>3. Shape(y)
  BY <1>1, <1>2 DEF Shape, Follows, Opens, Closes, x
<1>4. Arguments(y, Len(session))
  BY <1>1, <1>2 DEF Arguments, Follows, Preparing, Opens, x
<1>5. x.pc # "reserve" => (Reserves(y) => Reserves(x))
  BY <1>1, <1>2 DEF Reserves, Opens, Closes, x
<1>6. KeepsOrder(t, y)
  BY <1>5 DEF KeepsOrder, x
<1> QED BY <1>1, <1>2, <1>3, <1>4, <1>6 DEF Fine, Orderly

\* Every step of a handler that keeps the sessions.
LEMMA HandleOrderly ==
  ASSUME Inv1, NEW t \in Threads,
         Transfer(t) \/ Copied(t) \/ Receive(t) \/ StopMount(t)
         \/ (Handle(t) /\ ~StartMount(t))
  PROVE  Orderly(t)
<1> DEFINE x == thread[t]
<1>1. /\ Shape(x) /\ x \in Handler /\ t \in Everyone /\ x.op # "shutdown"
      /\ thread \in [Everyone -> Handler] /\ t # Main
      /\ mounts \in [SessionIds -> Seq(MountProcess)]
      /\ stack \in [SessionIds -> Seq(Nat)] /\ session \in Seq(MountSession)
      /\ Arguments(x, Len(session)) /\ Len(session) \in 0 .. MaxSessions
      /\ MaxSessions \in Nat
  BY Unfolded1
<1>2. ASSUME NEW pc \in Positions,
             \/ Goto(t, pc)
             \/ \E m \in Nat : Advances(t, pc, m),
             Follows(x.op, x.pc, pc), x.pc # "reserve", busy' = busy
      PROVE  Orderly(t)
  BY <1>2, FollowsOrderly
<1>3. ASSUME NEW ok \in BOOLEAN, Leaves(t, ok), busy' = busy,
             Opens(x) \/ (Closes(x) /\ x.pc # "reserve")
      PROVE  Orderly(t)
  BY <1>1, <1>3, GoesOn DEF Reserves
<1>4. ASSUME Replies(t), busy' = busy
      PROVE  Orderly(t)
  BY <1>1, <1>4, GoesOn
<1>5. \A s \in 1 .. MaxSessions : Top(s) \in Nat
  <2>1. ASSUME NEW s \in 1 .. MaxSessions, stack[s] # <<>>
        PROVE  stack[s][Len(stack[s])] \in Nat
    BY <1>1, <2>1 DEF SessionIds
  <2> QED BY <2>1 DEF Top, IsMount
<1>6. CASE Release(t)
  <2>1. PICK y \in Handler : Moves(t, y) /\ y.pc = "ready" /\ y.op = "none"
    BY <1>1, <1>6, RepliesMoves DEF Release
  <2>2. Fine(t, y, Len(session)) /\ ~Reserves(y) /\ Reserves(x)
    BY <1>1, <1>6, <2>1 DEF Release, At, Fine, Shape, Arguments, Reserves, Preparing,
       Opens, Closes
  <2> QED BY <2>1, <2>2 DEF Orderly, KeepsOrder
<1>7. CASE ReserveClose(t)
  <2>1. CASE Replies(t) /\ busy' = busy
    BY <1>4, <2>1
  <2>2. CASE ~busy /\ busy' = TRUE /\ Goto(t, "unmount")
    <3>1. Follows(x.op, x.pc, "unmount") /\ x.pc = "reserve"
      BY <1>1, <1>7 DEF ReserveClose, At, Shape, Follows, Closes
    <3> QED BY <2>2, <3>1, FollowsOrderly DEF Positions
  <2> QED BY <1>7, <2>1, <2>2 DEF ReserveClose
<1>8. CASE Create(t)
  BY <1>1, <1>2, <1>3, <1>8 DEF Create, At, state, Shape, Opens, Follows, Positions
<1>9. CASE Fill(t)
  BY <1>1, <1>2, <1>3, <1>9 DEF Fill, At, state, Shape, Opens, Follows, Positions
<1>10. CASE CreateHidden(t)
  BY <1>1, <1>2, <1>3, <1>10 DEF CreateHidden, At, state, Shape, Opens, Follows,
     Positions
<1>11. CASE Unlock(t)
  BY <1>1, <1>2, <1>3, <1>11 DEF Unlock, At, others, state, Shape, Opens, Follows,
     Positions
<1>12. CASE AwaitMount(t)
  BY <1>1, <1>2, <1>3, <1>12 DEF AwaitMount, At, state, Shape, Opens, Follows,
     Positions
<1>13. CASE MountTimedOut(t)
  BY <1>1, <1>3, <1>13 DEF MountTimedOut, At, state, Shape
<1>14. CASE Publish(t)
  BY <1>1, <1>2, <1>3, <1>14 DEF Publish, At, Shape, Opens, Follows, Positions
<1>15. CASE ListFiles(t)
  BY <1>1, <1>2, <1>3, <1>15 DEF ListFiles, At, others, state, Shape, Opens, Follows,
     Positions
<1>16. CASE ListFailed(t)
  BY <1>1, <1>3, <1>16 DEF ListFailed, Doing, Opens
<1>17. CASE Locked(t)
  BY <1>1, <1>3, <1>17 DEF Locked, Doing, Closes
<1>18. CASE Remount(t)
  <2>1. x.s \in SessionIds
    BY <1>1, <1>18 DEF Remount, Doing, Arguments, SessionIds
  <2>2. Len(mounts[x.s]) + 1 \in Nat
    BY <1>1, <2>1
  <2>3. x.op = "switch" /\ x.pc = "stopped" /\ busy' = busy
    BY <1>18 DEF Remount, Doing, state
  <2>4. CASE Advances(t, "remounting", Len(mounts[x.s]) + 1)
    BY <1>2, <2>2, <2>3, <2>4 DEF Follows, Positions
  <2> QED BY <1>4, <1>18, <2>3, <2>4 DEF Remount, Advances
<1>19. CASE AwaitRemount(t)
  BY <1>1, <1>2, <1>4, <1>19 DEF AwaitRemount, At, state, Shape, Follows, Positions
<1>20. CASE Assign(t)
  BY <1>1, <1>2, <1>4, <1>20 DEF Assign, Set, At, state, Shape, Follows, Positions
<1>21. CASE OpenDestination(t)
  <2>1. Top(x.s) \in Nat /\ x.pc = "open" /\ x.op = "upload" /\ busy' = busy
    BY <1>1, <1>5, <1>21 DEF OpenDestination, At, Arguments, Shape, state
  <2>2. Advances(t, "transfer", Top(x.s)) \/ Replies(t)
    BY <1>21 DEF OpenDestination, Advances
  <2> QED BY <1>2, <1>4, <2>1, <2>2 DEF Follows, Positions
<1>22. CASE Discard(t) \/ Copied(t) \/ Link(t)
  BY <1>4, <1>22 DEF Discard, Copied, Link, others, state
<1>23. CASE Book(t) \/ Count(t) \/ Transfer(t)
  BY <1>1, <1>2, <1>4, <1>23 DEF Book, Count, Transfer, At, state, Shape, Follows,
     Positions
<1>24. CASE OpenSource(t)
  <2>1. Top(x.s) \in Nat /\ x.pc = "fetch" /\ x.op = "download" /\ busy' = busy
    BY <1>1, <1>5, <1>24 DEF OpenSource, At, Arguments, Shape, others, state
  <2>2. Advances(t, "copy", Top(x.s)) \/ Replies(t)
    BY <1>24 DEF OpenSource, Advances
  <2> QED BY <1>2, <1>4, <2>1, <2>2 DEF Follows, Positions
<1>25. CASE Receive(t)
  BY <1>1, <1>2, <1>4, <1>25 DEF Receive, At, others, state, Shape, Follows, Positions
<1>26. x.pc \in {"unmount", "wait"} /\ StopFails(t) /\ busy' = busy => Orderly(t)
  BY <1>1, <1>3, <1>4 DEF StopFails, Shape, Opens, Closes
<1>27. CASE Unmount(t)
  <2>1. x.pc = "unmount" /\ busy' = busy
    BY <1>27 DEF Unmount, At, state
  <2>2. Goto(t, "reap") \/ StopFails(t)
    BY <1>27 DEF Unmount
  <2> QED BY <1>2, <1>26, <2>1, <2>2 DEF Follows, Positions
<1>28. CASE Reap(t)
  <2>1. x.pc = "reap" /\ busy' = busy
        /\ Advances(t, "wait", session[x.s].process)
    BY <1>28 DEF Reap, Advances, At, others, state
  <2>2. session[x.s].process \in Nat
    <3>1. x.s \in 1 .. Len(session)
      BY <1>1, <2>1 DEF Arguments
    <3>2. session[x.s] \in MountSession
      BY <1>1, <3>1
    <3> QED BY <3>2 DEF MountSession
  <2> QED BY <1>2, <2>1, <2>2 DEF Follows, Positions
<1>29. CASE WaitProcess(t)
  <2>1. x.pc = "wait" /\ busy' = busy
    BY <1>29 DEF WaitProcess, At, state
  <2>2. Goto(t, "stopped") \/ StopFails(t)
    BY <1>29 DEF WaitProcess
  <2> QED BY <1>2, <1>26, <2>1, <2>2 DEF Follows, Positions
<1> QED BY <1>6, <1>7, <1>8, <1>9, <1>10, <1>11, <1>12, <1>13, <1>14, <1>15, <1>16,
           <1>17, <1>18, <1>19, <1>20, <1>21, <1>22, <1>23, <1>24, <1>25, <1>27,
           <1>28, <1>29 DEF Handle, StopMount

\* The steps of the main thread.
LEMMA MainOrderly ==
  ASSUME Inv1, Interrupt \/ CloseServer \/ Exit \/ StopMount(Main)
  PROVE  Orderly(Main)
<1> DEFINE x == thread[Main]
           n == Len(session)
<1>1. /\ Shape(x) /\ x \in Handler /\ Main \in Everyone /\ Main \notin Threads
      /\ thread \in [Everyone -> Handler] /\ MainShape(x)
      /\ session \in Seq(MountSession) /\ Arguments(x, n) /\ n \in 0 .. MaxSessions
      /\ current # NoSession => current \in 1 .. n
  BY Unfolded1
<1>2. \A y \in Handler : MainShape(y) => ~Reserves(y)
  BY DEF MainShape, Reserves, Opens, Closes
<1>3. ASSUME NEW y \in Handler, Moves(Main, y), Shape(y), Arguments(y, n), MainShape(y),
             busy' = busy
      PROVE  Orderly(Main)
  BY <1>2, <1>3 DEF Orderly, Fine, KeepsOrder
<1>0. CloseServer =>
        \/ current = NoSession /\ Becomes(Main, [x EXCEPT !.pc = "exited", !.ok = TRUE])
        \/ /\ current # NoSession
           /\ Becomes(Main, [Handling("shutdown", "unmount") EXCEPT !.s = current])
  BY DEF CloseServer
<1>4. ASSUME NEW pc \in Positions, Goto(Main, pc), busy' = busy,
             <<x.pc, pc>> \in {<<"serving", "closing">>, <<"unmount", "reap">>,
                               <<"wait", "stopped">>, <<"unmount", "exited">>,
                               <<"wait", "exited">>},
             pc = "exited" => x.op = "shutdown"
      PROVE  Orderly(Main)
  <2>1. PICK y \in Handler : /\ Moves(Main, y) /\ y.pc = pc /\ y.op = x.op
             /\ y.s = x.s /\ y.name = x.name /\ y.file = x.file
    BY <1>1, GotoMoves, <1>4
  <2> HIDE DEF x
  <2>2. Shape(y) /\ MainShape(y)
    BY <1>1, <1>4, <2>1 DEF Shape, MainShape, Opens, Closes
  <2>3. Arguments(y, n)
    BY <1>1, <1>4, <2>1, <2>2 DEF Arguments, MainShape, Preparing, Opens
  <2> QED BY <1>3, <1>4, <2>1, <2>2, <2>3
<1>5. ASSUME Becomes(Main, [x EXCEPT !.pc = "exited", !.ok = TRUE]), busy' = busy
      PROVE  Orderly(Main)
  <2> DEFINE y == [x EXCEPT !.pc = "exited", !.ok = TRUE]
  <2>1. y \in Handler
    BY <1>1 DEF Handler
  <2>2. y.pc = "exited" /\ y.op = x.op
    BY <1>1 DEF Handler
  <2>3. Moves(Main, y)
    BY <1>1, <1>5, <2>1, BecomesMoves
  <2> HIDE DEF y, x
  <2>4. Shape(y) /\ MainShape(y)
    BY <1>1, <2>2 DEF Shape, MainShape, Opens, Closes
  <2>5. Arguments(y, n)
    BY <1>1, <2>2, <2>4 DEF Arguments, MainShape, Preparing, Opens
  <2> QED BY <1>3, <1>5, <2>1, <2>3, <2>4, <2>5
<1>6. CASE Interrupt
  BY <1>4, <1>6 DEF Interrupt, At, others, state, Positions
<1>7. CASE CloseServer
  <2>1. busy' = busy
    BY <1>7 DEF CloseServer, others, state
  <2>2. CASE current = NoSession
    BY <1>0, <1>5, <1>7, <2>1, <2>2
  <2>3. CASE current # NoSession
    <3>0. Becomes(Main, [Handling("shutdown", "unmount") EXCEPT !.s = current])
      BY <1>0, <1>7, <2>3
    <3> DEFINE z == Handling("shutdown", "unmount")
               y == [z EXCEPT !.s = current]
    <3>1. z \in Handler /\ z.op = "shutdown" /\ z.pc = "unmount"
      BY FreshHandler DEF Positions
    <3> HIDE DEF z
    <3>3. current \in 0 .. MaxSessions /\ current \in 1 .. n
      BY <1>1, <2>3, DashboardAssumption
    <3>4. y \in Handler /\ y.op = "shutdown" /\ y.pc = "unmount" /\ y.s = current
      BY <3>1, <3>3 DEF Handler
    <3> HIDE DEF y
    <3>5. Moves(Main, y)
      BY <1>1, <3>0, <3>4, BecomesMoves DEF y, z
    <3>6. Shape(y) /\ MainShape(y)
      BY <3>4 DEF Shape, MainShape, Opens, Closes
    <3>7. Arguments(y, n)
      BY <3>3, <3>4 DEF Arguments, Preparing, Opens
    <3> QED BY <1>3, <2>1, <3>4, <3>5, <3>6, <3>7
  <2> QED BY <2>2, <2>3
<1>8. CASE Exit
  BY <1>5, <1>8 DEF Exit, others, state
<1>9. x.pc \in {"unmount", "wait"} /\ StopFails(Main) /\ busy' = busy => Orderly(Main)
  <2>1. SUFFICES ASSUME x.pc \in {"unmount", "wait"}, StopFails(Main), busy' = busy
                 PROVE  Orderly(Main)
    OBVIOUS
  <2>2. x.op = "shutdown"
    BY <1>1, <2>1 DEF Shape, MainShape
  <2>3. Goto(Main, "exited")
    BY <2>1, <2>2 DEF StopFails
  <2> QED BY <1>4, <2>1, <2>2, <2>3 DEF Positions
<1>10. CASE Unmount(Main)
  <2>1. x.pc = "unmount" /\ busy' = busy
    BY <1>10 DEF Unmount, At, state
  <2>2. Goto(Main, "reap") \/ StopFails(Main)
    BY <1>10 DEF Unmount
  <2> QED BY <1>4, <1>9, <2>1, <2>2 DEF Positions
<1>11. CASE Reap(Main)
  <2>1. x.pc = "reap" /\ busy' = busy
        /\ Advances(Main, "wait", session[x.s].process)
    BY <1>11 DEF Reap, Advances, At, others, state
  <2>2. session[x.s].process \in Nat
    <3>1. x.s \in 1 .. Len(session)
      BY <1>1, <2>1 DEF Arguments
    <3>2. session[x.s] \in MountSession
      BY <1>1, <3>1
    <3> QED BY <3>2 DEF MountSession
  <2>3. PICK y \in Handler : /\ Moves(Main, y) /\ y.pc = "wait" /\ y.op = x.op
             /\ y.s = x.s /\ y.name = x.name /\ y.file = x.file
    BY <1>1, <2>1, <2>2, AdvancesMoves DEF Positions
  <2> HIDE DEF x
  <2>4. Shape(y) /\ MainShape(y)
    BY <1>1, <2>1, <2>3 DEF Shape, MainShape, Opens, Closes
  <2>5. Arguments(y, n)
    BY <1>1, <2>1, <2>3, <2>4 DEF Arguments, MainShape, Preparing, Opens
  <2> QED BY <1>3, <2>1, <2>3, <2>4, <2>5
<1>12. CASE WaitProcess(Main)
  <2>1. x.pc = "wait" /\ busy' = busy
    BY <1>12 DEF WaitProcess, At, state
  <2>2. Goto(Main, "stopped") \/ StopFails(Main)
    BY <1>12 DEF WaitProcess
  <2> QED BY <1>4, <1>9, <2>1, <2>2 DEF Positions
<1> QED BY <1>6, <1>7, <1>8, <1>10, <1>11, <1>12 DEF StopMount

\* A mount process is started for a new session.
LEMMA StartMountSession ==
  ASSUME Inv1, NEW t \in Threads, StartMount(t)
  PROVE  /\ session' \in Seq(MountSession) /\ Len(session') = Len(session) + 1
         /\ Len(session) < MaxSessions
         /\ session'[Len(session) + 1] = NewSession(thread[t])
         /\ NewSession(thread[t]) \in MountSession
         /\ NewSession(thread[t]).process = 1
         /\ NewSession(thread[t]).mode = thread[t].op
         /\ NewSession(thread[t]).name = thread[t].name
         /\ \A s \in 1 .. Len(session) : session'[s] = session[s]
         /\ \E y \in Handler :
              /\ Moves(t, y) /\ y.pc = "await" /\ y.op = thread[t].op
              /\ y.s = Len(session) + 1 /\ y.m = 1 /\ y.name = thread[t].name
<1> DEFINE x == thread[t]
           n == Len(session)
           r == NewSession(x)
           y == [x EXCEPT !.pc = "await", !.s = n + 1, !.m = 1]
<1>1. /\ Shape(x) /\ Arguments(x, n) /\ x \in Handler /\ t \in Everyone
      /\ n \in 0 .. MaxSessions /\ MaxSessions \in Nat /\ session \in Seq(MountSession)
      /\ thread \in [Everyone -> Handler]
  BY Unfolded1
<1>2. x.pc = "spawn" /\ session' = Append(session, r) /\ Becomes(t, y)
  BY DEF StartMount, At
<1>3. x.op \in {"encrypt", "decrypt"} /\ x.name \in Names /\ n < MaxSessions
  BY <1>1, <1>2 DEF Shape, Arguments, Opens, Preparing
<1>4. x.deniable \in BOOLEAN
  BY <1>1 DEF Handler
<1>5. r \in MountSession
  BY <1>3, <1>4 DEF NewSession, FirstPhase, MountSession
<1>6. r.process = 1 /\ r.mode = x.op /\ r.name = x.name
  BY DEF NewSession
<1>7. y \in Handler
  <2>1. n + 1 \in 0 .. MaxSessions
    BY <1>1, <1>3
  <2> QED BY <1>1, <2>1 DEF Handler
<1>8. y.pc = "await" /\ y.op = x.op /\ y.s = n + 1 /\ y.m = 1 /\ y.name = x.name
  BY <1>1 DEF Handler
<1>9. Moves(t, y)
  BY <1>1, <1>2, <1>7, BecomesMoves
<1> HIDE DEF r, y
<1>10. /\ session' \in Seq(MountSession) /\ Len(session') = n + 1
       /\ session'[n + 1] = r
       /\ \A s \in 1 .. n : session'[s] = session[s]
  BY <1>1, <1>2, <1>5
<1>11. \E z \in Handler :
              /\ Moves(t, z) /\ z.pc = "await" /\ z.op = x.op
              /\ z.s = n + 1 /\ z.m = 1 /\ z.name = x.name
  BY <1>7, <1>8, <1>9
<1> QED BY <1>3, <1>5, <1>6, <1>10, <1>11 DEF r

\* start_mount leaves the handlers in order, with one more session.
LEMMA StartMountHandlers ==
  ASSUME Inv1, NEW t \in Threads, StartMount(t)
  PROVE  Handlers' /\ Reservation'
<1> DEFINE x == thread[t]
           n == Len(session)
<1>1. /\ t \in Everyone /\ t # Main /\ Main \notin Threads /\ n \in 0 .. MaxSessions
      /\ Threads \subseteq Everyone
      /\ \A u \in Everyone : Shape(thread[u]) /\ Arguments(thread[u], n)
      /\ \A u \in Threads : thread[u].op # "shutdown"
      /\ MainShape(thread[Main]) /\ Shape(x)
  BY Unfolded1
<1>2. Len(session') = n + 1
  BY StartMountSession
<1>3. PICK y \in Handler :
              /\ Moves(t, y) /\ y.pc = "await" /\ y.op = thread[t].op
              /\ y.s = n + 1 /\ y.m = 1 /\ y.name = thread[t].name
  BY StartMountSession
<1>4. x.pc = "spawn" /\ busy' = busy
  BY DEF StartMount, At, state
<1>5. Reservation
  BY DEF Inv1
<1>6. Opens(x) /\ x.name \in Names
  BY <1>1, <1>4 DEF Shape, Arguments
<1>7. \A u \in Everyone : thread'[u] = IF u = t THEN y ELSE thread[u]
  BY <1>3 DEF Moves
<1>8. Shape(y) /\ Arguments(y, n + 1)
  BY <1>1, <1>3, <1>6 DEF Shape, Arguments, Preparing, Opens, Closes
<1>9. ASSUME NEW u \in Everyone, u # t
      PROVE  Arguments(thread[u], n + 1)
  <2>1. ~Preparing(thread[u])
    <3>1. CASE u = Main
      BY <1>1, <3>1 DEF MainShape, Preparing
    <3>2. CASE u \in Threads
      BY <1>1, <1>5, <1>6, <1>9, <3>2 DEF Shape, Preparing, Reserves, Opens, Reservation
    <3> QED BY <3>1, <3>2 DEF Everyone
  <2>2. 1 .. n \subseteq 1 .. n + 1
    BY <1>1
  <2>3. Arguments(thread[u], n)
    BY <1>1
  <2> QED BY <2>1, <2>2, <2>3 DEF Arguments
<1>10. Handlers'
  <2>1. \A u \in Everyone : Shape(thread'[u]) /\ Arguments(thread'[u], n + 1)
    BY <1>1, <1>7, <1>8, <1>9
  <2>2. \A u \in Threads : thread'[u].op # "shutdown"
    BY <1>1, <1>3, <1>7
  <2>3. MainShape(thread'[Main])
    BY <1>1, <1>7 DEF Everyone
  <2> QED BY <1>2, <2>1, <2>2, <2>3 DEF Handlers, Everyone
<1>11. \A u \in Threads : Reserves(thread'[u]) <=> Reserves(thread[u])
  <2>1. Reserves(x) /\ Reserves(y)
    BY <1>3, <1>6 DEF Reserves, Opens
  <2> QED BY <1>1, <1>7, <2>1
<1>12. Reservation'
  BY <1>4, <1>5, <1>11 DEF Reservation
<1> QED BY <1>10, <1>12

-----------------------------------------------------------------------------
(***************************************************************************)
(* What the model's operators do to sessions, processes and mounts.        *)
(***************************************************************************)
\* One session changes.
LEMMA SessionChanges ==
  ASSUME session \in Seq(MountSession), NEW s \in 1 .. Len(session),
         NEW r \in MountSession, session' = [session EXCEPT ![s] = r]
  PROVE  /\ session' \in Seq(MountSession) /\ Len(session') = Len(session)
         /\ \A k \in 1 .. Len(session) : session'[k] = IF k = s THEN r ELSE session[k]
  OBVIOUS

\* Process m of session s becomes p.
ProcessBecomes(s, m, p) == mounts' = [mounts EXCEPT ![s] = [mounts[s] EXCEPT ![m] = p]]

\* One process of session s changes to p; nothing does if there is no process m.
LEMMA ProcessChanges ==
  ASSUME mounts \in [SessionIds -> Seq(MountProcess)], NEW s \in SessionIds, NEW m, NEW p,
         m \in DOMAIN mounts[s] => p \in MountProcess,
         ProcessBecomes(s, m, p)
  PROVE  /\ mounts' \in [SessionIds -> Seq(MountProcess)]
         /\ \A r \in SessionIds : r # s => mounts'[r] = mounts[r]
         /\ Len(mounts'[s]) = Len(mounts[s])
         /\ \A k \in 1 .. Len(mounts[s]) :
              mounts'[s][k] = IF k = m THEN p ELSE mounts[s][k]
<1> DEFINE q == mounts[s]
           z == [q EXCEPT ![m] = p]
<1>1. q \in Seq(MountProcess)
  OBVIOUS
<1>2. DOMAIN q = 1 .. Len(q)
  BY <1>1
<1>3. \A k \in 1 .. Len(q) : z[k] = (IF k = m THEN p ELSE q[k]) /\ z[k] \in MountProcess
  BY <1>1, <1>2
<1>4. DOMAIN z = 1 .. Len(q) /\ Len(q) \in Nat
  BY <1>1, <1>2
<1>5. z \in [1 .. Len(q) -> MountProcess]
  <2>1. z = [k \in DOMAIN q |-> IF k = m THEN p ELSE q[k]]
    OBVIOUS
  <2>2. z = [k \in 1 .. Len(q) |-> IF k = m THEN p ELSE q[k]]
    BY <1>2, <2>1
  <2>3. \A k \in 1 .. Len(q) : (IF k = m THEN p ELSE q[k]) \in MountProcess
    BY <1>1, <1>2
  <2> HIDE DEF z, q
  <2> QED BY <2>2, <2>3
<1>6. z \in Seq(MountProcess) /\ Len(z) = Len(q)
  <2> HIDE DEF z, q
  <2> QED BY <1>4, <1>5
<1> HIDE DEF z
<1>7. mounts' = [mounts EXCEPT ![s] = z]
  BY DEF z, ProcessBecomes
<1> QED BY <1>3, <1>6, <1>7

\* What becomes of process m, and that the others of all sessions stay.
OneProcess(s, m) ==
  /\ mounts' \in [SessionIds -> Seq(MountProcess)]
  /\ \A r \in SessionIds : r # s => mounts'[r] = mounts[r]
  /\ Len(mounts'[s]) = Len(mounts[s])
  /\ \A k \in 1 .. Len(mounts[s]) : k # m => mounts'[s][k] = mounts[s][k]

\* A nested EXCEPT, level by level.
LEMMA StatusExcept ==
  ASSUME NEW f, NEW s, NEW m, NEW st
  PROVE  [f EXCEPT ![s][m].st = st]
         = [f EXCEPT ![s] = [f[s] EXCEPT ![m] = [f[s][m] EXCEPT !.st = st]]]
  OBVIOUS

\* ... and for the flag of a process that was told to end.
LEMMA TerminatedExcept ==
  ASSUME NEW f, NEW s, NEW m, NEW b
  PROVE  [f EXCEPT ![s][m].terminated = b]
         = [f EXCEPT ![s] = [f[s] EXCEPT ![m] = [f[s][m] EXCEPT !.terminated = b]]]
  OBVIOUS

\* A process gets another status.
LEMMA StatusChanges ==
  ASSUME mounts \in [SessionIds -> Seq(MountProcess)], NEW s \in SessionIds, NEW m,
         NEW st \in {"starting", "mounted", "closing", "dead"}, Status(s, m, st)
  PROVE  /\ OneProcess(s, m)
         /\ m \in 1 .. Len(mounts[s]) =>
              /\ mounts'[s][m].st = st /\ mounts'[s][m].volume = mounts[s][m].volume
              /\ mounts'[s][m].terminated = mounts[s][m].terminated
<1> DEFINE p == [mounts[s][m] EXCEPT !.st = st]
<1>1. m \in DOMAIN mounts[s] => mounts[s][m] \in MountProcess
  OBVIOUS
<1>2. m \in DOMAIN mounts[s] =>
        /\ p \in MountProcess /\ p.st = st /\ p.volume = mounts[s][m].volume
        /\ p.terminated = mounts[s][m].terminated
  BY <1>1 DEF MountProcess
<1>3. ProcessBecomes(s, m, p)
  <2>1. mounts' = [mounts EXCEPT ![s][m].st = st]
    BY DEF Status
  <2>2. [mounts EXCEPT ![s][m].st = st] = [mounts EXCEPT ![s] = [mounts[s] EXCEPT ![m] = p]]
    BY StatusExcept
  <2> QED BY <2>1, <2>2 DEF ProcessBecomes
<1> HIDE DEF p
<1>4. DOMAIN mounts[s] = 1 .. Len(mounts[s])
  OBVIOUS
<1>5. /\ mounts' \in [SessionIds -> Seq(MountProcess)]
      /\ \A r \in SessionIds : r # s => mounts'[r] = mounts[r]
      /\ Len(mounts'[s]) = Len(mounts[s])
      /\ \A k \in 1 .. Len(mounts[s]) :
           mounts'[s][k] = IF k = m THEN p ELSE mounts[s][k]
  BY <1>2, <1>3, ProcessChanges
<1> QED BY <1>2, <1>4, <1>5 DEF OneProcess

\* A process is told to end.
LEMMA TerminateChanges ==
  ASSUME mounts \in [SessionIds -> Seq(MountProcess)], NEW t,
         thread[t].s \in SessionIds, Terminate(t)
  PROVE  /\ OneProcess(thread[t].s, thread[t].m)
         /\ thread[t].m \in 1 .. Len(mounts[thread[t].s]) =>
              /\ mounts'[thread[t].s][thread[t].m].st
                   = mounts[thread[t].s][thread[t].m].st
              /\ mounts'[thread[t].s][thread[t].m].volume
                   = mounts[thread[t].s][thread[t].m].volume
              /\ mounts'[thread[t].s][thread[t].m].terminated = TRUE
<1> DEFINE s == thread[t].s
           m == thread[t].m
           p == [mounts[s][m] EXCEPT !.terminated = TRUE]
<1>1. m \in DOMAIN mounts[s] => mounts[s][m] \in MountProcess
  OBVIOUS
<1>2. m \in DOMAIN mounts[s] =>
        /\ p \in MountProcess /\ p.st = mounts[s][m].st
        /\ p.volume = mounts[s][m].volume /\ p.terminated = TRUE
  BY <1>1 DEF MountProcess
<1>3. ProcessBecomes(s, m, p)
  <2>1. mounts' = [mounts EXCEPT ![s][m].terminated = TRUE]
    BY DEF Terminate
  <2>2. [mounts EXCEPT ![s][m].terminated = TRUE]
        = [mounts EXCEPT ![s] = [mounts[s] EXCEPT ![m] = p]]
    BY TerminatedExcept
  <2> QED BY <2>1, <2>2 DEF ProcessBecomes
<1> HIDE DEF p
<1>4. DOMAIN mounts[s] = 1 .. Len(mounts[s])
  OBVIOUS
<1>5. /\ mounts' \in [SessionIds -> Seq(MountProcess)]
      /\ \A r \in SessionIds : r # s => mounts'[r] = mounts[r]
      /\ Len(mounts'[s]) = Len(mounts[s])
      /\ \A k \in 1 .. Len(mounts[s]) :
           mounts'[s][k] = IF k = m THEN p ELSE mounts[s][k]
  BY <1>2, <1>3, ProcessChanges
<1> QED BY <1>2, <1>4, <1>5 DEF OneProcess

\* A process is started.
LEMMA SpawnChanges ==
  ASSUME mounts \in [SessionIds -> Seq(MountProcess)], dirs \subseteq SessionIds,
         NEW s \in SessionIds, NEW v \in Volumes, Spawn(s, v)
  PROVE  /\ mounts' \in [SessionIds -> Seq(MountProcess)] /\ dirs' \subseteq SessionIds
         /\ \A r \in SessionIds : r # s => mounts'[r] = mounts[r]
         /\ Len(mounts'[s]) = Len(mounts[s]) + 1
         /\ \A k \in 1 .. Len(mounts[s]) : mounts'[s][k] = mounts[s][k]
         /\ mounts'[s][Len(mounts[s]) + 1].st = "starting"
         /\ mounts'[s][Len(mounts[s]) + 1].terminated = FALSE
<1> DEFINE p == [volume |-> v, terminated |-> FALSE, st |-> "starting"]
           q == mounts[s]
<1>1. p \in MountProcess /\ p.st = "starting" /\ p.terminated = FALSE
  BY DEF MountProcess
<1>2. mounts' = [mounts EXCEPT ![s] = Append(q, p)] /\ dirs' = dirs \union {s}
  BY DEF Spawn
<1> HIDE DEF p
<1>3. q \in Seq(MountProcess)
  OBVIOUS
<1>4. /\ Append(q, p) \in Seq(MountProcess) /\ Len(Append(q, p)) = Len(q) + 1
      /\ Append(q, p)[Len(q) + 1] = p
      /\ \A k \in 1 .. Len(q) : Append(q, p)[k] = q[k]
  BY <1>1, <1>3
<1> DEFINE z == Append(q, p)
<1> HIDE DEF z
<1>5. mounts' = [mounts EXCEPT ![s] = z]
  BY <1>2 DEF z
<1>6. /\ z \in Seq(MountProcess) /\ Len(z) = Len(q) + 1 /\ z[Len(q) + 1] = p
      /\ \A k \in 1 .. Len(q) : z[k] = q[k]
  BY <1>4 DEF z
<1> QED BY <1>1, <1>2, <1>5, <1>6

\* Taking a mount off a stack leaves a stack; a stack of one is empty then.
LEMMA WithoutStack ==
  ASSUME NEW q \in Seq(Nat), NEW m
  PROVE  /\ Without(q, m) \in Seq(Nat)
         /\ q = <<m>> => Without(q, m) = <<>>
         /\ (\A i \in 1 .. Len(q) : q[i] # m) => Without(q, m) = q
<1>0. Len(q) \in Nat /\ DOMAIN q = 1 .. Len(q)
  OBVIOUS
<1>1. CASE ~\E i \in DOMAIN q : q[i] = m
  <2>1. Without(q, m) = q
    BY <1>1 DEF Without
  <2> QED BY <1>0, <1>1, <2>1
<1>2. CASE \E i \in DOMAIN q : q[i] = m
  <2> DEFINE k == CHOOSE i \in DOMAIN q : q[i] = m
             z == [i \in 1 .. Len(q) - 1 |-> IF i < k THEN q[i] ELSE q[i + 1]]
  <2>1. k \in 1 .. Len(q)
    BY <1>0, <1>2
  <2>2. Without(q, m) = z
    BY <1>2 DEF Without
  <2>3. Len(q) - 1 \in Nat
    BY <1>0, <2>1
  <2> HIDE DEF k
  <2>4. \A i \in 1 .. Len(q) - 1 : (IF i < k THEN q[i] ELSE q[i + 1]) \in Nat
    BY <1>0, <2>1
  <2>5. z \in [1 .. Len(q) - 1 -> Nat]
    BY <2>4
  <2>6. z \in Seq(Nat) /\ Len(z) = Len(q) - 1
    BY <2>3, <2>5
  <2>7. q = <<m>> => z = <<>>
    <3> HIDE DEF z
    <3> QED BY <2>6
  <2> QED BY <1>0, <1>2, <2>2, <2>6, <2>7
<1> QED BY <1>1, <1>2

-----------------------------------------------------------------------------
(***************************************************************************)
(* The variables other than the threads.                                   *)
(***************************************************************************)
Rest ==
  /\ busy \in BOOLEAN /\ current \in SessionIds \union {NoSession} /\ CurrentOK
  /\ session \in Seq(MountSession) /\ Len(session) <= MaxSessions
  /\ mounts \in [SessionIds -> Seq(MountProcess)]
  /\ stack \in [SessionIds -> Seq(Nat)] /\ dirs \subseteq SessionIds
  /\ vault \in [Names -> {"none", "making", "standard", "deniable"}]
  /\ store \in [Places -> SUBSET File]
  /\ locked \subseteq SessionIds /\ finished \subseteq SessionIds

\* Steps that change at most the reservation.
LEMMA QuietRest ==
  ASSUME Inv1, busy' \in BOOLEAN,
         UNCHANGED <<current, session, system, vault, store, told>>
  PROVE  Rest' /\ Len(session') = Len(session)
<1>1. Rest
  BY DEF Inv1, DashboardTypeOK, Rest
<1> QED BY <1>1 DEF Rest, CurrentOK, system, told

\* Requests as they arrive, and the steps that wait for the browser.
LEMMA BrowserRest ==
  ASSUME Inv1, NEW t \in Threads, Browser(t), ~Transfer(t)
  PROVE  Rest' /\ Len(session') = Len(session)
<1>1. busy \in BOOLEAN
  BY Unfolded1
<1>2. ASSUME UNCHANGED others
      PROVE  Rest' /\ Len(session') = Len(session)
  BY <1>1, <1>2, QuietRest DEF others, state
<1>3. ASSUME NEW n \in Names, NEW d \in BOOLEAN, Encrypt(t, n, d)
      PROVE  Rest' /\ Len(session') = Len(session)
  BY <1>3, QuietRest DEF Encrypt
<1>4. ASSUME NEW n \in Names, NEW v \in Volumes, Decrypt(t, n, v)
      PROVE  Rest' /\ Len(session') = Len(session)
  BY <1>4, QuietRest DEF Decrypt
<1>5. CASE Connect(t) \/ Disconnect(t) \/ Switch(t) \/ Finish(t) \/ Lock(t)
           \/ Copied(t) \/ Receive(t)
  BY <1>2, <1>5 DEF Connect, Disconnect, Switch, Finish, Lock, Copied, Receive
<1>6. ASSUME NEW n \in Names, NEW d \in BOOLEAN, Import(t, n, d)
      PROVE  Rest' /\ Len(session') = Len(session)
  BY <1>2, <1>6 DEF Import
<1>7. ASSUME NEW f \in FileNames, Upload(t, f) \/ Download(t, f)
      PROVE  Rest' /\ Len(session') = Len(session)
  BY <1>2, <1>7 DEF Upload, Download
<1> QED BY <1>3, <1>4, <1>5, <1>6, <1>7 DEF Browser

\* Steps on the library.
LEMMA LibraryRest ==
  ASSUME Inv1, NEW t \in Threads, Create(t) \/ Fill(t) \/ CreateHidden(t) \/ Link(t)
  PROVE  Rest' /\ Len(session') = Len(session)
<1>1. Rest
  BY DEF Inv1, DashboardTypeOK, Rest
<1>2. \A v \in {"none", "making", "standard", "deniable"} :
        Library(t, v) => vault' \in [Names -> {"none", "making", "standard", "deniable"}]
  BY <1>1 DEF Rest, Library
<1>3. vault' \in [Names -> {"none", "making", "standard", "deniable"}]
  <2>1. CASE Create(t)
    BY <1>1, <1>2, <2>1 DEF Rest, Create
  <2>2. CASE Fill(t)
    BY <1>1, <1>2, <2>2 DEF Rest, Fill
  <2>3. CASE CreateHidden(t)
    BY <1>1, <1>2, <2>3 DEF Rest, CreateHidden
  <2>4. CASE Link(t)
    BY <1>1, <1>2, <2>4 DEF Rest, Link
  <2> QED BY <2>1, <2>2, <2>3, <2>4
<1>4. UNCHANGED <<state, session, system, store, told>>
  BY DEF Create, Fill, CreateHidden, Link
<1> QED BY <1>1, <1>3, <1>4 DEF Rest, CurrentOK, state, system, told

\* Steps on mounts and processes.
LEMMA MountRest ==
  ASSUME Inv1, NEW t \in Everyone,
         AwaitMount(t) \/ MountTimedOut(t) \/ Remount(t) \/ AwaitRemount(t)
         \/ Unmount(t) \/ WaitProcess(t)
  PROVE  Rest' /\ Len(session') = Len(session)
<1> DEFINE s == thread[t].s
           MountsTyped == mounts' \in [SessionIds -> Seq(MountProcess)]
           StackTyped == stack' \in [SessionIds -> Seq(Nat)]
<1>1. Rest
  BY DEF Inv1, DashboardTypeOK, Rest
<1>2. s \in SessionIds
  <2>1. Arguments(thread[t], Len(session)) /\ Len(session) \in 0 .. MaxSessions
        /\ MaxSessions \in Nat
    BY Unfolded1
  <2>2. thread[t].pc \in {"await", "terminated", "stopped", "remounting", "unmount", "wait"}
    BY DEF AwaitMount, MountTimedOut, Remount, AwaitRemount, Unmount, WaitProcess, At, Doing
  <2> QED BY <2>1, <2>2 DEF Arguments, SessionIds
<1>3. mounts \in [SessionIds -> Seq(MountProcess)] /\ dirs \subseteq SessionIds
      /\ stack \in [SessionIds -> Seq(Nat)]
  BY <1>1 DEF Rest
<1>4. Terminate(t) => MountsTyped
  BY <1>2, <1>3, TerminateChanges DEF OneProcess
<1>5. \A m : \A st \in {"closing", "dead"} : Status(s, m, st) => MountsTyped
  BY <1>2, <1>3, StatusChanges DEF OneProcess
<1>6. Rmdir(s) => dirs' \subseteq SessionIds
  BY <1>3 DEF Rmdir
<1> DEFINE Frame == UNCHANGED <<state, session, vault, store, told>>
<1>7. MountsTyped /\ StackTyped /\ dirs' \subseteq SessionIds /\ Frame
        => Rest' /\ Len(session') = Len(session)
  BY <1>1 DEF Rest, CurrentOK, state, told
<1>8. CASE AwaitMount(t)
  BY <1>3, <1>4, <1>6, <1>7, <1>8 DEF AwaitMount
<1>9. CASE MountTimedOut(t)
  BY <1>3, <1>5, <1>6, <1>7, <1>9 DEF MountTimedOut, EndProcess
<1>10. CASE Remount(t)
  <2>1. Spawn(s, "hidden") => MountsTyped /\ dirs' \subseteq SessionIds
    BY <1>2, <1>3, SpawnChanges DEF Volumes
  <2>2. \/ Spawn(s, "hidden")
        \/ dirs' = dirs \union {s} /\ mounts' = mounts
    BY <1>10 DEF Remount
  <2>3. stack' = stack /\ Frame
    BY <1>10 DEF Remount
  <2> QED BY <1>2, <1>3, <1>7, <2>1, <2>2, <2>3
<1>11. CASE AwaitRemount(t)
  BY <1>3, <1>4, <1>7, <1>11 DEF AwaitRemount
<1>12. CASE Unmount(t)
  <2>1. stack' = [stack EXCEPT ![s] = Without(@, Top(s))] => StackTyped
    <3>1. Without(stack[s], Top(s)) \in Seq(Nat)
      BY <1>2, <1>3, WithoutStack
    <3> QED BY <1>3, <3>1
  <2>2. \/ UNCHANGED <<mounts, stack>>
        \/ Status(s, Top(s), "closing") /\ stack' = [stack EXCEPT ![s] = Without(@, Top(s))]
    BY <1>12 DEF Unmount
  <2>3. dirs' = dirs /\ Frame
    BY <1>12 DEF Unmount
  <2> QED BY <1>3, <1>5, <1>7, <2>1, <2>2, <2>3
<1>13. CASE WaitProcess(t)
  BY <1>3, <1>6, <1>7, <1>13 DEF WaitProcess
<1> QED BY <1>8, <1>9, <1>10, <1>11, <1>12, <1>13

\* Steps on sessions.
LEMMA SessionRest ==
  ASSUME Inv1, NEW t \in Threads,
         Publish(t) \/ ListFailed(t) \/ Locked(t) \/ Assign(t) \/ Book(t) \/ Count(t)
  PROVE  Rest' /\ Len(session') = Len(session)
<1> DEFINE x == thread[t]
           s == x.s
           old == session[s]
<1>1. Rest
  BY DEF Inv1, DashboardTypeOK, Rest
<1>2. s \in 1 .. Len(session) /\ s \in SessionIds
  <2>1. Arguments(x, Len(session)) /\ Len(session) \in 0 .. MaxSessions
        /\ MaxSessions \in Nat
    BY Unfolded1
  <2>2. x.pc \in {"publish", "stopped", "process", "phase", "expected", "uploaded",
                  "book", "count"}
    BY DEF Publish, ListFailed, Locked, Assign, Set, Book, Count, At, Doing
  <2> QED BY <2>1, <2>2 DEF Arguments, SessionIds
<1>3. old \in MountSession /\ session \in Seq(MountSession) /\ x \in Handler
  BY <1>1, <1>2, Unfolded1 DEF Rest
<1> DEFINE SessionTyped == session' \in Seq(MountSession) /\ Len(session') = Len(session)
<1>4. ASSUME NEW r \in MountSession, session' = [session EXCEPT ![s] = r]
      PROVE  SessionTyped
  BY <1>2, <1>3, <1>4, SessionChanges
<1>5. ASSUME SessionTyped, current' \in {current, s, NoSession},
             locked' \subseteq SessionIds, finished' \subseteq SessionIds,
             UNCHANGED <<busy, system, vault, store>>
      PROVE  Rest' /\ Len(session') = Len(session)
  BY <1>1, <1>2, <1>5 DEF Rest, CurrentOK, system
<1>6. CASE Publish(t)
  BY <1>1, <1>3, <1>5, <1>6 DEF Publish, Rest, told
<1>7. CASE ListFailed(t)
  BY <1>1, <1>3, <1>5, <1>7 DEF ListFailed, Rest, told
<1>8. CASE Locked(t)
  <2>1. locked' \subseteq SessionIds /\ finished' \subseteq SessionIds
    BY <1>1, <1>2, <1>8 DEF Locked, Rest
  <2>2. SessionTyped
    <3>1. session' = [session EXCEPT ![s].hidden_password = FALSE] => SessionTyped
      <4>1. [old EXCEPT !.hidden_password = FALSE] \in MountSession
        BY <1>3 DEF MountSession
      <4> QED BY <1>4, <4>1
    <3> QED BY <1>3, <1>8, <3>1 DEF Locked
  <2> QED BY <1>5, <1>8, <2>1, <2>2 DEF Locked
<1>9. ASSUME UNCHANGED <<state, system, vault, store, told>>, SessionTyped
      PROVE  Rest' /\ Len(session') = Len(session)
  BY <1>1, <1>5, <1>9 DEF Rest, state, told
<1>10. CASE Assign(t)
  <2>1. /\ [old EXCEPT !.process = x.m] \in MountSession
        /\ [old EXCEPT !.phase = "hidden"] \in MountSession
        /\ [old EXCEPT !.expected_files = "hidden"] \in MountSession
        /\ [old EXCEPT !.uploaded_files = "hidden"] \in MountSession
    <3>1. x.m \in Nat
      BY <1>3, HandlerFields
    <3> QED BY <1>3, <3>1 DEF MountSession
  <2>2. \A r \in MountSession : session' = [session EXCEPT ![s] = r] => SessionTyped
    BY <1>4
  <2>3. SessionTyped
    BY <1>10, <2>1, <2>2 DEF Assign, Set
  <2> QED BY <1>9, <1>10, <2>3 DEF Assign
<1>11. ASSUME NEW f \in SUBSET FileNames
       PROVE  /\ [old EXCEPT !.own = @ \union f] \in MountSession
              /\ [old EXCEPT !.uploaded_outer = @ \union f] \in MountSession
              /\ [old EXCEPT !.uploaded_hidden = @ \union f] \in MountSession
  BY <1>3 DEF MountSession
<1>12. ASSUME NEW f \in SUBSET FileNames
       PROVE  /\ session' = [session EXCEPT ![s].own = @ \union f] => SessionTyped
              /\ session' = [session EXCEPT ![s].uploaded_outer = @ \union f]
                   => SessionTyped
              /\ session' = [session EXCEPT ![s].uploaded_hidden = @ \union f]
                   => SessionTyped
  BY <1>4, <1>11
<1>13. x.pc \in {"book", "count"} => {x.file} \in SUBSET FileNames
  BY Unfolded1 DEF Arguments, Shape
<1>14. CASE Book(t)
  <2>1. SessionTyped
    BY <1>3, <1>12, <1>13, <1>14 DEF Book, At
  <2> QED BY <1>9, <1>14, <2>1 DEF Book
<1>15. CASE Count(t)
  <2>1. SessionTyped
    BY <1>3, <1>12, <1>13, <1>15 DEF Count, At
  <2> QED BY <1>9, <1>15, <2>1 DEF Count
<1> QED BY <1>6, <1>7, <1>8, <1>10, <1>14, <1>15

\* Steps on files.
LEMMA StoreRest ==
  ASSUME Inv1, NEW t \in Threads, Transfer(t) \/ OpenDestination(t) \/ Discard(t)
  PROVE  Rest' /\ Len(session') = Len(session)
<1> DEFINE x == thread[t]
           s == x.s
<1>1. Rest
  BY DEF Inv1, DashboardTypeOK, Rest
<1>2. x \in Handler /\ x.op = "upload" /\ x.file \in FileNames
  BY Unfolded1 DEF Transfer, OpenDestination, Discard, At, Shape, Arguments
<1>3. store \in [Places -> SUBSET File]
  BY <1>1 DEF Rest
<1>4. ASSUME NEW p, NEW fs, p \in Places => fs \subseteq File, Contents(p, fs)
      PROVE  store' \in [Places -> SUBSET File]
  BY <1>3, <1>4 DEF Contents
<1>5. CASE Transfer(t)
  <2>1. CASE UNCHANGED store
    BY <1>1, <1>5, <2>1 DEF Transfer, Rest, CurrentOK, state, system, told
  <2>2. CASE ~UNCHANGED store
    <3> DEFINE p == OpenPlace(t)
               fs == {[y EXCEPT !.whole = @ \/ y.name = x.file] : y \in store[p]}
    <3>1. Contents(p, fs)
      BY <1>5, <2>2 DEF Transfer
    <3>2. ASSUME p \in Places
          PROVE  fs \subseteq File
      <4>1. store[p] \subseteq File
        BY <1>3, <3>2
      <4>2. \A y \in File : [y EXCEPT !.whole = @ \/ y.name = x.file] \in File
        BY DEF File
      <4> QED BY <4>1, <4>2
    <3> HIDE DEF p, fs
    <3>3. store' \in [Places -> SUBSET File]
      BY <1>4, <3>1, <3>2
    <3> QED BY <1>1, <1>5, <3>3 DEF Transfer, Rest, CurrentOK, state, system, told
  <2> QED BY <2>1, <2>2
<1>6. CASE OpenDestination(t)
  <2>1. CASE UNCHANGED store
    BY <1>1, <1>6, <2>1 DEF OpenDestination, Rest, CurrentOK, state, system, told
  <2>2. CASE ~UNCHANGED store
    <3> DEFINE p == Where(s)
               new == [name |-> x.file, source |-> x.volume, whole |-> FALSE]
               fs == (store[p] \ FileAt(s, x.file)) \union {new}
    <3>1. Contents(p, fs)
      BY <1>6, <2>2 DEF OpenDestination
    <3>2. new \in File
      <4>1. x.volume \in Volumes
        BY <1>2, HandlerFields
      <4> QED BY <1>2, <4>1 DEF File
    <3>3. p \in Places => fs \subseteq File
      BY <1>3, <3>2
    <3> HIDE DEF p, fs
    <3>4. store' \in [Places -> SUBSET File]
      BY <1>4, <3>1, <3>3
    <3> QED BY <1>1, <1>6, <3>4 DEF OpenDestination, Rest, CurrentOK, state, system, told
  <2> QED BY <2>1, <2>2
<1>7. CASE Discard(t)
  <2>1. CASE UNCHANGED store
    BY <1>1, <1>7, <2>1 DEF Discard, Rest, CurrentOK, state, system, told
  <2>2. CASE ~UNCHANGED store
    <3> DEFINE p == Where(s)
               fs == store[p] \ FileAt(s, x.file)
    <3>1. Contents(p, fs)
      BY <1>7, <2>2 DEF Discard, Unlinked
    <3>2. p \in Places => fs \subseteq File
      BY <1>3
    <3> HIDE DEF p, fs
    <3>3. store' \in [Places -> SUBSET File]
      BY <1>4, <3>1, <3>2
    <3> QED BY <1>1, <1>7, <3>3 DEF Discard, Rest, CurrentOK, state, system, told
  <2> QED BY <2>1, <2>2
<1> QED BY <1>5, <1>6, <1>7

\* The other steps of a handler, and those of the main thread.
LEMMA OtherRest ==
  ASSUME Inv1, NEW t \in Everyone,
         Release(t) \/ ReserveClose(t) \/ Unlock(t) \/ ListFiles(t) \/ OpenSource(t)
         \/ Reap(t) \/ Interrupt \/ CloseServer \/ Exit
  PROVE  Rest' /\ Len(session') = Len(session)
<1>1. busy \in BOOLEAN
  BY Unfolded1
<1>2. CASE UNCHANGED others
  BY <1>1, <1>2, QuietRest DEF others, state
<1>3. CASE Release(t)
  BY <1>3, QuietRest DEF Release, Released
<1>4. CASE ReserveClose(t)
  BY <1>1, <1>4, QuietRest DEF ReserveClose
<1>5. CASE Unlock(t) \/ ListFiles(t) \/ OpenSource(t) \/ Reap(t) \/ Interrupt
           \/ CloseServer \/ Exit
  BY <1>2, <1>5 DEF Unlock, ListFiles, OpenSource, Reap, Interrupt, CloseServer, Exit
<1> QED BY <1>3, <1>4, <1>5

\* A new session.
LEMMA StartMountRest ==
  ASSUME Inv1, NEW t \in Threads, StartMount(t)
  PROVE  Rest'
<1> DEFINE n == Len(session)
<1>1. Rest
  BY DEF Inv1, DashboardTypeOK, Rest
<1>2. session' \in Seq(MountSession) /\ Len(session') = n + 1 /\ n < MaxSessions
  BY StartMountSession
<1>3. n + 1 \in SessionIds /\ n \in Nat
  BY <1>2, Unfolded1 DEF SessionIds
<1>4. thread[t].volume \in Volumes
  BY Unfolded1, HandlerFields
<1>5. Spawn(n + 1, thread[t].volume) /\ UNCHANGED <<state, stack, vault, store, told>>
  BY DEF StartMount
<1>6. mounts' \in [SessionIds -> Seq(MountProcess)] /\ dirs' \subseteq SessionIds
  BY <1>1, <1>3, <1>4, <1>5, SpawnChanges DEF Rest
<1>7. CurrentOK'
  BY <1>1, <1>2, <1>3, <1>5 DEF Rest, CurrentOK, state
<1> QED BY <1>1, <1>2, <1>3, <1>5, <1>6, <1>7, DashboardAssumption DEF Rest, state, told

\* The steps of mount processes.
LEMMA ProcessRest ==
  ASSUME Inv1, NEW s \in SessionIds, Process(s)
  PROVE  Rest' /\ UNCHANGED <<state, session, thread>>
<1>1. Rest
  BY DEF Inv1, DashboardTypeOK, Rest
<1>2. PICK m \in DOMAIN mounts[s] :
        MountAppears(s, m) \/ MountFails(s, m) \/ MountTerminated(s, m) \/ MountEnds(s, m)
  BY DEF Process
<1>3. mounts[s] \in Seq(MountProcess) /\ stack \in [SessionIds -> Seq(Nat)]
      /\ stack[s] \in Seq(Nat)
  BY <1>1 DEF Rest
<1>4. m \in Nat
  BY <1>2, <1>3
<1>5. mounts' \in [SessionIds -> Seq(MountProcess)]
  <2>1. \A st \in {"mounted", "closing", "dead"} : Status(s, m, st) =>
          mounts' \in [SessionIds -> Seq(MountProcess)]
    BY <1>1, StatusChanges DEF OneProcess, Rest
  <2> QED BY <1>2, <2>1 DEF MountAppears, MountFails, MountTerminated, MountEnds
<1>6. stack' \in [SessionIds -> Seq(Nat)]
  <2>1. Append(stack[s], m) \in Seq(Nat) /\ Without(stack[s], m) \in Seq(Nat)
    BY <1>3, <1>4, WithoutStack
  <2>2. stack' \in {stack, [stack EXCEPT ![s] = Append(stack[s], m)],
                    [stack EXCEPT ![s] = Without(stack[s], m)]}
    BY <1>2 DEF MountAppears, MountFails, MountTerminated, MountEnds
  <2> QED BY <1>3, <2>1, <2>2
<1>7. UNCHANGED <<state, session, dirs, vault, store, thread, told>>
  BY <1>2 DEF MountAppears, MountFails, MountTerminated, MountEnds
<1> QED BY <1>1, <1>5, <1>6, <1>7 DEF Rest, CurrentOK, state, told

-----------------------------------------------------------------------------
(***************************************************************************)
(* The first half of the invariant holds, and what follows from it.        *)
(***************************************************************************)
LEMMA InitInv1 ==
  ASSUME Init
  PROVE  Inv1
<1>1. \A t \in Everyone : \E pc \in {"off", "serving"} :
        thread[t] = Idle(pc) /\ pc = IF t = Main THEN "serving" ELSE "off"
  BY DEF Init, Everyone
<1>2. ASSUME NEW t \in Everyone
      PROVE  /\ thread[t] \in Handler /\ thread[t].op = "none"
             /\ thread[t].pc = IF t = Main THEN "serving" ELSE "off"
  BY <1>1, IdleHandler DEF Positions
<1>3. thread \in [Everyone -> Handler]
  <2>1. thread = [t \in Everyone |-> Idle(IF t = Main THEN "serving" ELSE "off")]
    BY DEF Init, Everyone
  <2>2. \A t \in Everyone : Idle(IF t = Main THEN "serving" ELSE "off") \in Handler
    BY IdleHandler DEF Positions
  <2> QED BY <2>1, <2>2
<1>4. DashboardTypeOK
  <2>1. session \in Seq(MountSession) /\ Len(session) <= MaxSessions
    BY DashboardAssumption DEF Init
  <2>2. mounts \in [SessionIds -> Seq(MountProcess)] /\ stack \in [SessionIds -> Seq(Nat)]
    BY DEF Init
  <2> QED BY <1>3, <2>1, <2>2 DEF Init, DashboardTypeOK, Everyone
<1>5. Handlers
  <2>1. \A t \in Everyone : Shape(thread[t])
    BY <1>2 DEF Shape
  <2>2. \A t \in Everyone : Arguments(thread[t], Len(session))
    BY <1>2 DEF Arguments, Opens, Preparing
  <2>3. MainShape(thread[Main])
    BY <1>2 DEF MainShape, Everyone
  <2>4. \A t \in Threads : thread[t].op # "shutdown"
    BY <1>2 DEF Everyone
  <2> QED BY <2>1, <2>2, <2>3, <2>4 DEF Handlers, Everyone
<1>6. \A t \in Threads : ~Reserves(thread[t])
  BY <1>2 DEF Everyone, Reserves, Opens, Closes
<1> QED BY <1>4, <1>5, <1>6 DEF Inv1, Reservation, CurrentOK, Init

\* A step that leaves its handler in order and the rest typed.
LEMMA OrderlyKeeps ==
  ASSUME Inv1, NEW t \in Everyone, Orderly(t), Rest', Len(session') = Len(session)
  PROVE  Inv1'
<1>1. PICK y \in Handler :
        Moves(t, y) /\ Fine(t, y, Len(session)) /\ KeepsOrder(t, y)
  BY DEF Orderly
<1>2. Handlers' /\ Reservation'
  BY <1>1, HandlersStep
<1>3. thread' \in [Threads \union {Main} -> Handler]
  BY <1>1 DEF Moves, Everyone
<1> QED BY <1>2, <1>3 DEF Rest, Inv1, DashboardTypeOK, CurrentOK

\* Every step keeps the first half of the invariant.
LEMMA NextInv1 ==
  ASSUME Inv1, [Next]_vars
  PROVE  Inv1'
<1>1. ASSUME NEW t \in Threads, Browser(t)
      PROVE  Inv1'
  <2>1. t \in Everyone
    BY DEF Everyone
  <2>2. Orderly(t)
    BY <1>1, BrowserOrderly, HandleOrderly DEF Browser
  <2>3. Rest' /\ Len(session') = Len(session)
    BY <1>1, BrowserRest, StoreRest
  <2> QED BY <2>1, <2>2, <2>3, OrderlyKeeps
<1>2. ASSUME NEW t \in Threads, StopMount(t) \/ (Handle(t) /\ ~StartMount(t))
      PROVE  Inv1'
  <2>1. t \in Everyone
    BY DEF Everyone
  <2>2. Orderly(t)
    BY <1>2, HandleOrderly
  <2>3. Rest' /\ Len(session') = Len(session)
    <3>1. CASE Unmount(t) \/ WaitProcess(t) \/ AwaitMount(t) \/ MountTimedOut(t)
               \/ Remount(t) \/ AwaitRemount(t)
      BY <2>1, <3>1, MountRest
    <3>2. CASE Publish(t) \/ ListFailed(t) \/ Locked(t) \/ Assign(t) \/ Book(t) \/ Count(t)
      BY <3>2, SessionRest
    <3>3. CASE Create(t) \/ Fill(t) \/ CreateHidden(t) \/ Link(t)
      BY <3>3, LibraryRest
    <3>4. CASE OpenDestination(t) \/ Discard(t)
      BY <3>4, StoreRest
    <3>5. CASE Release(t) \/ ReserveClose(t) \/ Unlock(t) \/ ListFiles(t)
               \/ OpenSource(t) \/ Reap(t)
      BY <2>1, <3>5, OtherRest
    <3> QED BY <1>2, <3>1, <3>2, <3>3, <3>4, <3>5 DEF StopMount, Handle
  <2> QED BY <2>1, <2>2, <2>3, OrderlyKeeps
<1>3. ASSUME NEW t \in Threads, StartMount(t)
      PROVE  Inv1'
  <2>1. Handlers' /\ Reservation'
    BY <1>3, StartMountHandlers
  <2>2. Rest'
    BY <1>3, StartMountRest
  <2>3. thread' \in [Threads \union {Main} -> Handler]
    BY <1>3, StartMountSession DEF Moves, Everyone
  <2> QED BY <2>1, <2>2, <2>3 DEF Rest, Inv1, DashboardTypeOK, CurrentOK
<1>4. CASE Interrupt \/ CloseServer \/ Exit \/ StopMount(Main)
  <2>1. Main \in Everyone
    BY DEF Everyone
  <2>2. Rest' /\ Len(session') = Len(session)
    <3>1. CASE Unmount(Main) \/ WaitProcess(Main)
      BY <2>1, <3>1, MountRest
    <3>2. CASE Reap(Main) \/ Interrupt \/ CloseServer \/ Exit
      BY <2>1, <3>2, OtherRest
    <3> QED BY <1>4, <3>1, <3>2 DEF StopMount
  <2> QED BY <1>4, <2>1, <2>2, MainOrderly, OrderlyKeeps
<1>5. ASSUME NEW s \in SessionIds, Process(s)
      PROVE  Inv1'
  <2>1. Rest' /\ UNCHANGED <<state, session, thread>>
    BY <1>5, ProcessRest
  <2> QED BY <2>1 DEF Rest, Inv1, DashboardTypeOK, CurrentOK, Handlers, Reservation, state
<1>6. CASE UNCHANGED vars
  BY <1>6 DEF vars, Inv1, DashboardTypeOK, Handlers, Reservation, CurrentOK
<1> QED BY <1>1, <1>2, <1>3, <1>4, <1>5, <1>6 DEF Next

\* ... so that it always holds.
LEMMA SpecInv1 == Spec => []Inv1
<1> QED BY InitInv1, NextInv1, PTL DEF Spec

\* Every variable keeps its type.
THEOREM DashboardTypeCorrect == Spec => []DashboardTypeOK
<1>1. Inv1 => DashboardTypeOK
  BY DEF Inv1
<1> QED BY <1>1, SpecInv1, PTL

\* A step changes the library only where the thread taking it makes a vault of
\* its own, or there was none of that name.
LEMMA VaultsStep ==
  ASSUME Inv1, [Next]_vars, NEW n \in Names, vault[n] # "none", vault'[n] # vault[n]
  PROVE  \E t \in Threads : /\ thread[t].op = "encrypt" /\ thread[t].name = n
                            /\ thread[t].pc \in {"fill", "hidden"}
                            /\ thread'[t] # thread[t]
<1>1. PICK t \in Threads : Create(t) \/ Fill(t) \/ CreateHidden(t) \/ Link(t)
  <2>1. vault' # vault
    OBVIOUS
  <2>2. ASSUME NEW t \in Everyone,
               Browser(t) \/ StopMount(t) \/ Interrupt \/ CloseServer \/ Exit
        PROVE  FALSE
    BY <2>1, <2>2 DEF Browser, StopMount, Connect, Disconnect, Encrypt, Decrypt, Import,
       Switch, Finish, Lock, Upload, Download, Transfer, Copied, Receive, Unmount, Reap,
       WaitProcess, Interrupt, CloseServer, Exit, others
  <2>3. ASSUME NEW s \in SessionIds, Process(s)
        PROVE  FALSE
    BY <2>1, <2>3 DEF Process, MountAppears, MountFails, MountTerminated, MountEnds
  <2>4. ASSUME NEW t \in Threads, Handle(t)
        PROVE  Create(t) \/ Fill(t) \/ CreateHidden(t) \/ Link(t)
    BY <2>1, <2>4 DEF Handle, Release, ReserveClose, Unlock, StartMount, AwaitMount,
       MountTimedOut, Publish, ListFiles, ListFailed, Locked, Remount, AwaitRemount,
       Assign, OpenDestination, Discard, Book, Count, OpenSource, others
  <2>5. ~UNCHANGED vars
    BY <2>1 DEF vars
  <2> QED BY <2>2, <2>3, <2>4, <2>5 DEF Next, Everyone
<1> DEFINE x == thread[t]
<1>2. /\ Shape(x) /\ x \in Handler /\ t \in Everyone
      /\ vault \in [Names -> {"none", "making", "standard", "deniable"}]
      /\ thread \in [Everyone -> Handler]
  BY Unfolded1
<1>3. \A v : Library(t, v) => x.name = n
  BY <1>2 DEF Library
<1>4. CASE Create(t) \/ Link(t)
  BY <1>3, <1>4 DEF Create, Link, Linkable
<1>5. CASE Fill(t) \/ CreateHidden(t)
  <2>1. x.name = n /\ x.pc \in {"fill", "hidden"} /\ x.op = "encrypt"
    BY <1>2, <1>3, <1>5 DEF Fill, CreateHidden, At, Shape
  <2>2. \/ \E pc \in {"hidden", "spawn"} : pc # x.pc /\ Goto(t, pc)
        \/ Leaves(t, FALSE)
    BY <1>5 DEF Fill, CreateHidden, At
  <2>3. thread'[t].pc # x.pc
    <3>1. CASE \E pc \in {"hidden", "spawn"} : pc # x.pc /\ Goto(t, pc)
      BY <1>2, <3>1, GotoMoves DEF Moves, Positions
    <3>2. CASE Leaves(t, FALSE)
      BY <1>2, <2>1, <3>2, LeavesMoves DEF Moves
    <3> QED BY <2>2, <3>1, <3>2
  <2> QED BY <2>1, <2>3
<1> QED BY <1>1, <1>4, <1>5

\* A container in the library is never replaced, removed or changed by
\* another request than the one that is creating it.
THEOREM VaultsAreKept == Spec => VaultsKept
<1> DEFINE Kept == \A n \in Names : vault[n] # "none" /\ vault'[n] # vault[n] =>
                     \E t \in Threads : /\ thread[t].op = "encrypt" /\ thread[t].name = n
                                        /\ thread[t].pc \in {"fill", "hidden"}
                                        /\ thread'[t] # thread[t]
<1>1. Inv1 /\ [Next]_vars => [Kept]_vars
  BY VaultsStep
<1> QED BY <1>1, SpecInv1, PTL DEF Spec, VaultsKept

-----------------------------------------------------------------------------
(***************************************************************************)
(* The second half.  At most one handler is active, and a step of it is    *)
(* judged by what it leaves in its session; a step of another changes      *)
(* nothing that the invariant reads.                                       *)
(***************************************************************************)
LEMMA ActiveKind ==
  ASSUME NEW h \in Handler, Shape(h), Active(h)
  PROVE  /\ Reserves(h) \/ h.op \in {"switch", "shutdown"}
         /\ MainShape(h) => Stopping(h) /\ h.op = "shutdown"
         /\ h.pc # "off"
         /\ ~Preparing(h) =>
              h.pc \in {"await", "terminated", "publish", "list", "unmount", "reap",
                        "wait", "stopped", "remounting", "process", "phase",
                        "expected", "uploaded"}
<1>1. h.pc \in Positions
  BY HandlerFields
<1>2. Reserves(h) \/ h.op \in {"switch", "shutdown"}
  BY DEF Active, Shape, Reserves, Preparing, Starting, Stopping, Opens, Closes
<1>3. MainShape(h) => Stopping(h) /\ h.op = "shutdown"
  BY DEF Active, Shape, MainShape, Preparing, Starting, Stopping
<1>4. h.pc # "off"
  BY DEF Active, Shape, Preparing, Starting, Stopping
<1>5. h.op = "switch" => h.pc \in {"unmount", "reap", "wait", "stopped", "remounting",
                                   "process", "phase", "expected", "uploaded"}
  BY <1>1 DEF Shape, Positions, Opens, Closes
<1>6. ~Preparing(h) =>
              h.pc \in {"await", "terminated", "publish", "list", "unmount", "reap",
                        "wait", "stopped", "remounting", "process", "phase",
                        "expected", "uploaded"}
  BY <1>5 DEF Active, Starting, Stopping
<1> QED BY <1>2, <1>3, <1>4, <1>6

\* The session of an active handler.
LEMMA ActiveSession ==
  ASSUME Inv1, NEW t \in Everyone, Active(thread[t]), ~Preparing(thread[t])
  PROVE  thread[t].s \in 1 .. Len(session) /\ thread[t].s \in SessionIds
<1>1. Shape(thread[t]) /\ Arguments(thread[t], Len(session)) /\ thread[t] \in Handler
      /\ Len(session) \in 0 .. MaxSessions /\ MaxSessions \in Nat
  BY Unfolded1
<1>2. thread[t].s \in 1 .. Len(session)
  BY <1>1, ActiveKind DEF Arguments
<1> QED BY <1>1, <1>2 DEF SessionIds

\* At most one handler is active.
LEMMA OneActive ==
  ASSUME Inv1, Inv2, NEW t \in Everyone, NEW u \in Everyone,
         Active(thread[t]), Active(thread[u])
  PROVE  t = u
<1>1. \A v \in Everyone : Shape(thread[v]) /\ thread[v] \in Handler
  BY Unfolded1
<1>2. Main \notin Threads /\ MainShape(thread[Main]) /\ NoSession \notin SessionIds
      /\ \A v \in Threads : thread[v].op # "shutdown"
  BY Unfolded1, DashboardAssumption DEF SessionIds
<1>3. Alone /\ HandlersOK /\ ShutdownOK /\ Reservation
  BY DEF Inv1, Inv2
<1>4. ASSUME Active(thread[Main]), NEW v \in Threads, Active(thread[v])
      PROVE  FALSE
  <2>1. Stopping(thread[Main])
    BY <1>1, <1>2, <1>4, ActiveKind DEF Everyone
  <2>2. At(v, "off")
    BY <1>3, <2>1 DEF Stopping, ShutdownOK, Past
  <2> QED BY <1>1, <1>4, <2>2, ActiveKind DEF At, Everyone
<1>5. ASSUME NEW v \in Threads, NEW w \in Threads, thread[v].op = "switch",
             Reserves(thread[w]), Active(thread[w])
      PROVE  v = w
  <2>1. CASE Closes(thread[w])
    BY <1>3, <1>5, <2>1 DEF Alone
  <2>2. CASE Opens(thread[w])
    <3>1. v \in Everyone /\ w \in Everyone
      BY DEF Everyone
    <3>2. Shape(thread[v]) /\ Shape(thread[w]) /\ thread[v].op = "switch"
      BY <1>1, <1>5, <3>1
    <3>3. v \in Everyone /\ w \in Everyone /\ Active(thread[v]) /\ ~Preparing(thread[v])
      BY <3>1, <3>2 DEF Active, Shape, Preparing, Opens
    <3>4. thread[v].s = current /\ current \in SessionIds
          /\ session[current].mode = "encrypt"
      BY <1>3, <1>5, <3>3, ActiveSession DEF HandlersOK, ClosingOK, Everyone
    <3>5. ~Preparing(thread[w]) /\ ~Starting(thread[w])
      BY <1>2, <1>3, <3>4 DEF HandlersOK, OpeningOK
    <3>6. Stopping(thread[w]) \/ thread[w].pc = "list"
      BY <2>2, <3>5, <1>5 DEF Active, Opens
    <3>7. thread[w].op = "decrypt"
      BY <1>1, <2>2, <3>3, <3>6 DEF Shape, Stopping, Opens
    <3> QED BY <1>3, <3>4, <3>6, <3>7 DEF HandlersOK, ClosingOK
  <2> QED BY <1>5, <2>1, <2>2 DEF Reserves
<1>6. ASSUME t \in Threads, u \in Threads
      PROVE  t = u
  <2>1. /\ Reserves(thread[t]) \/ thread[t].op = "switch"
        /\ Reserves(thread[u]) \/ thread[u].op = "switch"
    BY <1>1, <1>2, <1>6, ActiveKind
  <2>2. CASE Reserves(thread[t]) /\ Reserves(thread[u])
    BY <1>3, <1>6, <2>2 DEF Reservation
  <2>3. CASE thread[t].op = "switch" /\ thread[u].op = "switch"
    BY <1>3, <1>6, <2>3 DEF Alone
  <2> QED BY <1>5, <1>6, <2>1, <2>2, <2>3
<1> QED BY <1>4, <1>6 DEF Everyone

\* What the invariant reads stays as it is.
Same ==
  /\ UNCHANGED <<current, mounts, stack, locked>>
  /\ Len(session') = Len(session)
  /\ \A s \in 1 .. Len(session) : /\ session'[s].mode = session[s].mode
                                  /\ session'[s].process = session[s].process

\* A request that is made in turn.
InTurnWith(t, y) ==
  /\ y.op = "switch" => \/ thread[t].op = "switch"
                        \/ \A u \in Threads : thread[u].op \notin {"switch", "lock", "finish"}
  /\ Closes(y) => \/ Closes(thread[t])
                  \/ \A u \in Threads : thread[u].op # "switch"

\* Requests in turn keep a switch alone.
LEMMA AloneKept ==
  ASSUME Inv1, Inv2, NEW t \in Everyone, NEW y \in Handler, Moves(t, y),
         t \in Threads => InTurnWith(t, y)
  PROVE  Alone'
<1>1. Alone
  BY DEF Inv2
<1>2. \A u \in Threads : thread'[u] = IF u = t THEN y ELSE thread[u]
  BY DEF Moves, Everyone
<1> QED BY <1>1, <1>2 DEF Alone, InTurnWith, Closes

\* A handler that was in order is so after a step that changes nothing it reads.
LEMMA SameHandler ==
  ASSUME Inv1, Same, NEW h \in Handler, Shape(h), Arguments(h, Len(session)),
         OpeningOK(h, session, mounts, stack, locked, current),
         ClosingOK(h, session, mounts, current)
  PROVE  /\ OpeningOK(h, session', mounts', stack', locked', current')
         /\ ClosingOK(h, session', mounts', current')
<1>1. Active(h) /\ ~Preparing(h) =>
        /\ h.s \in 1 .. Len(session) /\ session'[h.s].mode = session[h.s].mode
        /\ session'[h.s].process = session[h.s].process
  BY ActiveKind DEF Arguments, Same
<1>2. current' = current /\ mounts' = mounts /\ stack' = stack /\ locked' = locked
  BY DEF Same
<1>3. OpeningOK(h, session', mounts', stack', locked', current')
  <2>1. Starting(h) => Active(h) /\ ~Preparing(h)
    BY DEF Starting, Active, Preparing
  <2>2. Preparing(h) \/ Starting(h) => current' = NoSession
    BY <1>2 DEF OpeningOK
  <2>3. ASSUME Starting(h)
        PROVE  /\ session'[h.s].mode = h.op
               /\ Len(mounts'[h.s]) = 1 /\ h.m = 1 /\ h.s \notin locked'
               /\ stack'[h.s] # <<>> => mounts'[h.s][1].st = "mounted"
    <3>1. /\ session[h.s].mode = h.op
          /\ Len(mounts[h.s]) = 1 /\ h.m = 1 /\ h.s \notin locked
          /\ stack[h.s] # <<>> => mounts[h.s][1].st = "mounted"
      BY <2>3 DEF OpeningOK
    <3>2. session'[h.s].mode = session[h.s].mode
      BY <1>1, <2>1, <2>3
    <3> QED BY <1>2, <3>1, <3>2
  <2> QED BY <2>2, <2>3 DEF OpeningOK
<1>4. ClosingOK(h, session', mounts', current')
  <2>1. Stopping(h) \/ h.pc = "list" \/ h.op = "switch" => Active(h) /\ ~Preparing(h)
    BY DEF Stopping, Active, Preparing, Shape, Opens
  <2>2. h.pc = "wait" => Stopping(h)
    BY DEF Stopping
  <2> QED BY <1>1, <1>2, <2>1, <2>2 DEF ClosingOK
<1> QED BY <1>3, <1>4

\* A step that changes none of it keeps the invariant.
LEMMA SameKeeps ==
  ASSUME Inv1, Inv2, NEW t \in Everyone, NEW y \in Handler, Moves(t, y), Same,
         t \in Threads => InTurnWith(t, y), ShutdownOK',
         OpeningOK(y, session', mounts', stack', locked', current'),
         ClosingOK(y, session', mounts', current'),
         Starting(thread[t]) => Starting(y) /\ y.s = thread[t].s,
         thread[t].pc \in {"remounting", "process"} =>
           y.pc \in {"remounting", "process"} /\ y.s = thread[t].s /\ y.m = thread[t].m
  PROVE  Inv2'
<1>1. HandlersOK /\ ProcessesOK /\ LockedOK
  BY DEF Inv2
<1>2. \A u \in Everyone : thread'[u] = IF u = t THEN y ELSE thread[u]
  BY DEF Moves
<1>3. Alone'
  BY AloneKept
<1>4. HandlersOK'
  <2>1. ASSUME NEW u \in Everyone, u # t
        PROVE  /\ OpeningOK(thread[u], session', mounts', stack', locked', current')
               /\ ClosingOK(thread[u], session', mounts', current')
    <3>1. thread[u] \in Handler /\ Shape(thread[u]) /\ Arguments(thread[u], Len(session))
      BY Unfolded1
    <3>2. /\ OpeningOK(thread[u], session, mounts, stack, locked, current)
          /\ ClosingOK(thread[u], session, mounts, current)
      BY <1>1 DEF HandlersOK, Everyone
    <3> QED BY <3>1, <3>2, SameHandler
  <2>2. \A u \in Everyone :
               /\ OpeningOK(thread'[u], session', mounts', stack', locked', current')
               /\ ClosingOK(thread'[u], session', mounts', current')
    BY <1>2, <2>1
  <2> QED BY <2>2 DEF HandlersOK, Everyone
<1>5. ProcessesOK'
  <2>1. \A s : (\E u \in Threads : Starting(thread[u]) /\ thread[u].s = s)
            => \E u \in Threads : Starting(thread'[u]) /\ thread'[u].s = s
    BY <1>2 DEF Everyone
  <2>2. \A s, m : (\E u \in Threads : Remounts(thread[u], s, m))
            => \E u \in Threads : Remounts(thread'[u], s, m)
    BY <1>2 DEF Everyone, Remounts
  <2>3. ASSUME NEW s \in SessionIds, NEW m \in DOMAIN mounts[s], Works(mounts[s][m])
        PROVE  Worker(s, m)'
    <3>1. Worker(s, m)
      BY <1>1, <2>3 DEF ProcessesOK
    <3>2. s \in 1 .. Len(session)
      <4>1. ~(s > Len(session))
        BY <1>1, <2>3 DEF ProcessesOK
      <4> QED BY <4>1, Unfolded1 DEF SessionIds
    <3> QED BY <2>1, <2>2, <3>1, <3>2 DEF Worker, Same
  <2>4. mounts' = mounts /\ stack' = stack /\ current' = current
        /\ Len(session') = Len(session)
    BY DEF Same
  <2> QED BY <1>1, <2>3, <2>4 DEF ProcessesOK
<1>6. LockedOK'
  BY <1>1 DEF LockedOK, Same, Alive
<1> QED BY <1>3, <1>4, <1>5, <1>6 DEF Inv2

\* Nothing is asked of a handler that is not active.
LEMMA Inactive ==
  ASSUME NEW h, Shape(h), ~Active(h), NEW ses, NEW mnt, NEW st, NEW lk, NEW cur
  PROVE  /\ OpeningOK(h, ses, mnt, st, lk, cur) /\ ClosingOK(h, ses, mnt, cur)
         /\ ~Starting(h) /\ \A s, m : ~Remounts(h, s, m)
<1>1. /\ ~Preparing(h) /\ ~Starting(h) /\ ~Stopping(h) /\ h.pc # "list"
      /\ h.op # "switch" /\ h.pc \notin {"wait", "stopped", "remounting", "process"}
  BY DEF Active, Shape, Stopping
<1> QED BY <1>1 DEF OpeningOK, ClosingOK, Remounts

\* Process m of session s works for a handler h.
WorksFor(h, ses, mnt, cur, s, m) ==
  /\ m = Len(mnt[s])
  /\ cur = s \/ (Starting(h) /\ h.s = s)
  /\ ses[s].process = m \/ Remounts(h, s, m)

\* What an active handler knows.
LEMMA ActiveKnows ==
  ASSUME Inv1, Inv2, NEW t \in Everyone, Active(thread[t])
  PROVE  /\ \A s \in SessionIds : \A m \in DOMAIN mounts[s] : Works(mounts[s][m]) =>
              WorksFor(thread[t], session, mounts, current, s, m)
         /\ \A s \in SessionIds : /\ s > Len(session) => mounts[s] = <<>> /\ stack[s] = <<>>
                                  /\ Stacked(mounts[s], stack[s], current, s)
         /\ OpeningOK(thread[t], session, mounts, stack, locked, current)
         /\ ClosingOK(thread[t], session, mounts, current)
         /\ LockedOK
         /\ Shape(thread[t]) /\ Arguments(thread[t], Len(session)) /\ thread[t] \in Handler
<1>1. ProcessesOK /\ HandlersOK /\ LockedOK
  BY DEF Inv2
<1>2. \A u \in Threads : Starting(thread[u]) => u = t
  BY OneActive DEF Active, Everyone
<1>3. \A u \in Threads : \A s, m : Remounts(thread[u], s, m) => u = t
  BY OneActive, Unfolded1 DEF Active, Everyone, Shape, Remounts
<1>4. ASSUME NEW s \in SessionIds, NEW m \in DOMAIN mounts[s], Works(mounts[s][m])
      PROVE  WorksFor(thread[t], session, mounts, current, s, m)
  <2>1. Worker(s, m)
    BY <1>1, <1>4 DEF ProcessesOK
  <2> QED BY <1>2, <1>3, <2>1 DEF Worker, WorksFor
<1>5. Shape(thread[t]) /\ Arguments(thread[t], Len(session)) /\ thread[t] \in Handler
  BY Unfolded1
<1> QED BY <1>1, <1>4, <1>5 DEF ProcessesOK, HandlersOK, Everyone

\* A step of an active handler keeps the invariant if it leaves its session
\* in order.
LEMMA ActiveKeeps ==
  ASSUME Inv1, Inv2, Inv1', NEW t \in Everyone, Active(thread[t]),
         NEW y \in Handler, Moves(t, y), t \in Threads => InTurnWith(t, y),
         ShutdownOK', LockedOK',
         OpeningOK(y, session', mounts', stack', locked', current'),
         ClosingOK(y, session', mounts', current'),
         \A s \in SessionIds :
           /\ s > Len(session') => mounts'[s] = <<>> /\ stack'[s] = <<>>
           /\ \A m \in DOMAIN mounts'[s] : Works(mounts'[s][m]) =>
                WorksFor(y, session', mounts', current', s, m)
           /\ Stacked(mounts'[s], stack'[s], current', s)
  PROVE  Inv2'
<1>1. \A u \in Everyone : thread'[u] = IF u = t THEN y ELSE thread[u]
  BY DEF Moves
<1>2. Alone'
  BY AloneKept
<1>3. HandlersOK'
  <2>1. ASSUME NEW u \in Everyone, u # t
        PROVE  /\ OpeningOK(thread[u], session', mounts', stack', locked', current')
               /\ ClosingOK(thread[u], session', mounts', current')
    <3>1. ~Active(thread[u])
      BY <2>1, OneActive
    <3>2. Shape(thread[u])
      BY Unfolded1
    <3> QED BY <3>1, <3>2, Inactive
  <2>2. \A u \in Everyone :
               /\ OpeningOK(thread'[u], session', mounts', stack', locked', current')
               /\ ClosingOK(thread'[u], session', mounts', current')
    BY <1>1, <2>1
  <2> QED BY <2>2 DEF HandlersOK, Everyone
<1>4. ProcessesOK'
  <2>1. t = Main => ~Starting(y) /\ \A s, m : ~Remounts(y, s, m)
    <3>1. MainShape(thread'[Main])
      BY DEF Inv1, Handlers
    <3>2. t = Main => MainShape(y)
      BY <1>1, <3>1
    <3> QED BY <3>2 DEF MainShape, Starting, Remounts
  <2>2. ASSUME NEW s \in SessionIds, NEW m \in DOMAIN mounts'[s], Works(mounts'[s][m])
        PROVE  Worker(s, m)'
    <3>1. WorksFor(y, session', mounts', current', s, m)
      BY <2>2
    <3>2. t \in Threads \/ t = Main
      BY DEF Everyone
    <3>3. t \in Threads => thread'[t] = y
      BY <1>1
    <3> QED BY <2>1, <3>1, <3>2, <3>3 DEF Worker, WorksFor
  <2> QED BY <2>2 DEF ProcessesOK
<1> QED BY <1>2, <1>3, <1>4 DEF Inv2

\* The main thread is past its handlers only when they are all off.
LEMMA ShutdownKept ==
  ASSUME Inv1, Inv2, NEW t \in Threads, NEW y \in Handler, Moves(t, y),
         thread[t].pc # "off" \/ At(Main, "serving")
  PROVE  ShutdownOK'
<1>1. thread'[Main] = thread[Main]
  BY Unfolded1 DEF Moves, Everyone
<1>2. ~Past(thread[Main])
  BY DEF Inv2, ShutdownOK, Past, At
<1>3. ~thread[Main].ok /\ thread[Main].pc # "exited"
  BY <1>2 DEF Inv2, ShutdownOK, Past
<1> QED BY <1>1, <1>2, <1>3 DEF ShutdownOK, ShutdownClean, At

-----------------------------------------------------------------------------
(***************************************************************************)
(* Steps of handlers that are not active.                                  *)
(***************************************************************************)
LEMMA BecomesIs ==
  ASSUME thread \in [Everyone -> Handler], NEW t \in Everyone, NEW h, Becomes(t, h)
  PROVE  thread'[t] = h
  BY DEF Becomes

\* A handler that is in order after its step.
LEMMA OrderlyMoves ==
  ASSUME NEW t \in Everyone, Orderly(t)
  PROVE  /\ thread'[t] \in Handler /\ Moves(t, thread'[t]) /\ Shape(thread'[t])
         /\ Arguments(thread'[t], Len(session))
  BY DEF Orderly, Moves, Fine

\* A step of an inactive handler that stays so.
LEMMA QuietKeeps ==
  ASSUME Inv1, Inv2, NEW t \in Threads, Orderly(t), Same,
         ~Active(thread[t]), ~Active(thread'[t]), InTurnWith(t, thread'[t]),
         thread[t].pc # "off" \/ At(Main, "serving")
  PROVE  Inv2'
<1> DEFINE y == thread'[t]
<1>1. t \in Everyone
  BY DEF Everyone
<1>2. y \in Handler /\ Moves(t, y) /\ Shape(y)
  BY <1>1, OrderlyMoves
<1>3. ShutdownOK'
  BY <1>2, ShutdownKept
<1>4. Shape(thread[t]) /\ ~Starting(thread[t])
      /\ thread[t].pc \notin {"remounting", "process"}
  BY <1>1, Unfolded1 DEF Active, Shape
<1> HIDE DEF y
<1>5. /\ OpeningOK(y, session', mounts', stack', locked', current')
      /\ ClosingOK(y, session', mounts', current')
  BY <1>2, Inactive DEF y
<1> QED BY <1>1, <1>2, <1>3, <1>4, <1>5, SameKeeps DEF y

\* With Calm, a switch excludes another one and every lock.
LEMMA CalmRequests ==
  ASSUME Calm, NEW t \in Threads
  PROVE  /\ Request(t, "switch") => \A u \in Threads :
              thread[u].op \notin {"switch", "lock", "finish"}
         /\ Request(t, "lock") \/ Request(t, "finish") => \A u \in Threads :
              thread[u].op # "switch"
<1>1. {"switch"} = {"switch", "switch"} /\ {"lock", "switch"} = {"switch", "lock"}
      /\ {"finish", "switch"} = {"switch", "finish"}
  OBVIOUS
<1>2. /\ {"switch", "switch"} \in Apart /\ {"switch", "lock"} \in Apart
      /\ {"switch", "finish"} \in Apart
  BY DEF Calm, SwitchAlone
<1> QED BY <1>1, <1>2 DEF Request

\* Requests as they arrive, and the steps that wait for the browser.
LEMMA BrowserKeeps ==
  ASSUME Calm, Inv1, Inv2, NEW t \in Threads, Browser(t)
  PROVE  Inv2'
<1> DEFINE x == thread[t]
           y == thread'[t]
<1>1. /\ t \in Everyone /\ thread \in [Everyone -> Handler] /\ Shape(x)
      /\ x \in Handler
  BY Unfolded1
<1>2. Orderly(t)
  BY BrowserOrderly, HandleOrderly DEF Browser
<1>3. y \in Handler /\ Moves(t, y) /\ Shape(y) /\ Arguments(y, Len(session))
  BY <1>1, <1>2, OrderlyMoves
<1>4. Same
  BY DEF Browser, Connect, Disconnect, Encrypt, Decrypt, Import, Switch, Finish, Lock,
     Upload, Download, Transfer, Copied, Receive, others, state, system, told, Same
<1>5. /\ x.pc \in {"off", "ready", "transfer", "copy", "receive"}
      /\ x.pc # "off" \/ At(Main, "serving")
  BY DEF Browser, Connect, Disconnect, Encrypt, Decrypt, Import, Switch, Finish, Lock,
     Upload, Download, Transfer, Copied, Receive, Request, At
<1>6. ~Active(x) /\ x.op \notin {"switch", "lock", "finish"}
  BY <1>1, <1>5 DEF Active, Shape, Preparing, Starting, Stopping
<1>7. ASSUME y.op \in {"none", "import", "upload", "download"}
      PROVE  Inv2'
  <2>1. ~Active(y) /\ InTurnWith(t, y)
    BY <1>3, <1>7 DEF Active, Shape, Preparing, Starting, Stopping, InTurnWith,
       Opens, Closes
  <2> QED BY <1>2, <1>4, <1>5, <1>6, <2>1, QuietKeeps
<1>8. CASE Connect(t) \/ Disconnect(t) \/ Receive(t) \/ Copied(t) \/ Transfer(t)
  <2>1. \/ \E pc \in Positions : Becomes(t, Idle(pc))
        \/ Replies(t)
        \/ /\ x.op \in {"upload", "download", "import"}
           /\ \E pc \in Positions : Goto(t, pc)
    BY <1>1, <1>8 DEF Connect, Disconnect, Receive, Copied, Transfer, At, Shape, Positions
  <2>2. ASSUME NEW pc \in Positions, Becomes(t, Idle(pc))
        PROVE  y.op = "none"
    BY <1>1, <2>2, BecomesIs, IdleHandler
  <2>3. Replies(t) => y.op = "none"
    BY <1>1, RepliesMoves DEF Moves
  <2>4. ASSUME NEW pc \in Positions, Goto(t, pc)
        PROVE  y.op = x.op
    BY <1>1, <2>4, GotoMoves DEF Moves
  <2> QED BY <1>7, <2>1, <2>2, <2>3, <2>4
<1>9. ASSUME NEW n \in Names, NEW d \in BOOLEAN, Import(t, n, d)
      PROVE  Inv2'
  <2>1. Becomes(t, [Handling("import", "receive") EXCEPT !.name = n, !.deniable = d])
    BY <1>9 DEF Import
  <2>2. y.op = "import"
    BY <1>1, <2>1 DEF Becomes, Handling, Idle
  <2> QED BY <1>7, <2>2
<1>10. ASSUME NEW f \in FileNames, Upload(t, f) \/ Download(t, f)
       PROVE  Inv2'
  <2>1. \/ Becomes(t, [Handling("download", "fetch") EXCEPT !.s = current, !.file = f])
        \/ \E v \in Volumes : Becomes(t,
             [Handling("upload", "open") EXCEPT !.s = current, !.file = f, !.volume = v])
    BY <1>10 DEF Upload, Download, Volumes
  <2>2. y.op \in {"upload", "download"}
    BY <1>1, <2>1 DEF Becomes, Handling, Idle
  <2> QED BY <1>7, <2>2
<1>11. CASE Lock(t) \/ Finish(t)
  <2>1. PICK op \in {"lock", "finish"} :
          Request(t, op) /\ Becomes(t, [Handling(op, "reserve") EXCEPT !.s = current])
    BY <1>11 DEF Lock, Finish
  <2>2. y.op = op /\ y.pc = "reserve"
    BY <1>1, <2>1 DEF Becomes, Handling, Idle
  <2>3. ~Active(y)
    BY <2>2 DEF Active, Preparing, Starting, Stopping
  <2>4. InTurnWith(t, y)
    BY <2>1, <2>2, CalmRequests DEF InTurnWith
  <2> QED BY <1>2, <1>4, <1>5, <1>6, <2>3, <2>4, QuietKeeps
<1>12. x.pc \notin {"remounting", "process"} /\ ~Starting(x) /\ ShutdownOK'
  BY <1>3, <1>5, ShutdownKept DEF Starting
<1>13. CASE Switch(t)
  <2>1. /\ Request(t, "switch") /\ current # NoSession
        /\ session[current].mode = "encrypt"
        /\ Becomes(t, [Handling("switch", "unmount") EXCEPT !.s = current])
    BY <1>13 DEF Switch, Open
  <2>2. y.op = "switch" /\ y.pc = "unmount" /\ y.s = current
    BY <1>1, <2>1 DEF Becomes, Handling, Idle
  <2>3. InTurnWith(t, y)
    BY <2>1, <2>2, CalmRequests DEF InTurnWith, Closes
  <2>4. /\ OpeningOK(y, session, mounts, stack, locked, current)
        /\ ClosingOK(y, session, mounts, current)
    BY <2>1, <2>2 DEF OpeningOK, ClosingOK, Preparing, Starting, Stopping
  <2>5. /\ OpeningOK(y, session', mounts', stack', locked', current')
        /\ ClosingOK(y, session', mounts', current')
    BY <1>3, <1>4, <2>4, SameHandler
  <2> QED BY <1>1, <1>3, <1>4, <1>12, <2>3, <2>5, SameKeeps
<1>14. ASSUME NEW n \in Names, (\E d \in BOOLEAN : Encrypt(t, n, d))
                               \/ \E v \in Volumes : Decrypt(t, n, v)
       PROVE  Inv2'
  <2>1. /\ current = NoSession
        /\ \/ \E d \in BOOLEAN : Becomes(t,
                [Handling("encrypt", "create") EXCEPT !.name = n, !.deniable = d])
           \/ \E v \in Volumes : Becomes(t,
                [Handling("decrypt", "unlock") EXCEPT !.name = n, !.volume = v])
    BY <1>14 DEF Encrypt, Decrypt, MayReserve
  <2>2. y.op \in {"encrypt", "decrypt"} /\ y.pc \in {"create", "unlock"}
    BY <1>1, <2>1 DEF Becomes, Handling, Idle
  <2>3. InTurnWith(t, y)
    BY <2>2 DEF InTurnWith, Closes
  <2>4. /\ OpeningOK(y, session, mounts, stack, locked, current)
        /\ ClosingOK(y, session, mounts, current)
    BY <2>1, <2>2 DEF OpeningOK, ClosingOK, Preparing, Starting, Stopping
  <2>5. /\ OpeningOK(y, session', mounts', stack', locked', current')
        /\ ClosingOK(y, session', mounts', current')
    BY <1>3, <1>4, <2>4, SameHandler
  <2> QED BY <1>1, <1>3, <1>4, <1>12, <2>3, <2>5, SameKeeps
<1> QED BY <1>8, <1>9, <1>10, <1>11, <1>13, <1>14 DEF Browser

\* Steps of uploads and downloads, and of requests that give the reservation back.
LEMMA QuietHandleKeeps ==
  ASSUME Inv1, Inv2, NEW t \in Threads,
         Release(t) \/ OpenDestination(t) \/ Discard(t) \/ Book(t) \/ Count(t)
         \/ OpenSource(t) \/ Link(t)
  PROVE  Inv2'
<1> DEFINE x == thread[t]
           y == thread'[t]
<1>1. /\ t \in Everyone /\ thread \in [Everyone -> Handler] /\ Shape(x)
      /\ Arguments(x, Len(session)) /\ x \in Handler /\ session \in Seq(MountSession)
  BY Unfolded1
<1>2. Orderly(t)
  BY HandleOrderly DEF Handle, StartMount, Release, OpenDestination, Discard, Book,
     Count, OpenSource, Link, At
<1>3. y \in Handler /\ Moves(t, y) /\ Shape(y)
  BY <1>1, <1>2, OrderlyMoves
<1>4. x.pc \in {"release", "open", "discard", "book", "count", "fetch", "link"}
  BY DEF Release, OpenDestination, Discard, Book, Count, OpenSource, Link, At
<1>5. ~Active(x)
  BY <1>1, <1>4 DEF Active, Shape, Preparing, Starting, Stopping, Opens, Closes
<1>6. y.op \in {"none", "upload", "download"}
  <2>1. Replies(t) => y.op = "none"
    BY <1>1, RepliesMoves DEF Moves
  <2>2. \A pc \in Positions : Goto(t, pc) => y.op = x.op
    BY <1>1, GotoMoves DEF Moves
  <2>3. \A pc, m : Advances(t, pc, m) => y.op = x.op
    BY <1>1 DEF Advances, Becomes, Handler
  <2>4. Release(t) \/ Discard(t) \/ Link(t) \/ Count(t) => Replies(t)
    BY DEF Release, Discard, Link, Count
  <2>5. Book(t) => Goto(t, "count") /\ x.op = "upload"
    BY <1>1 DEF Book, At, Shape
  <2>6. OpenDestination(t) =>
          x.op = "upload" /\ (Replies(t) \/ Advances(t, "transfer", Top(x.s)))
    BY <1>1 DEF OpenDestination, At, Shape, Advances
  <2>7. OpenSource(t) =>
          x.op = "download" /\ (Replies(t) \/ Advances(t, "copy", Top(x.s)))
    BY <1>1 DEF OpenSource, At, Shape, Advances
  <2> QED BY <2>1, <2>2, <2>3, <2>4, <2>5, <2>6, <2>7 DEF Positions
<1>7. ~Active(y) /\ InTurnWith(t, y)
  BY <1>3, <1>6 DEF Active, Shape, Preparing, Starting, Stopping, InTurnWith, Opens, Closes
<1>8. Same
  <2>1. UNCHANGED <<current, mounts, stack, locked>>
    BY DEF Release, OpenDestination, Discard, Book, Count, OpenSource, Link, others,
       state, system, told
  <2>2. ASSUME NEW r, NEW s \in 1 .. Len(session), session' = [session EXCEPT ![s] = r],
               r.mode = session[s].mode, r.process = session[s].process
        PROVE  Same
    BY <1>1, <2>1, <2>2 DEF Same
  <2>3. ASSUME NEW f, NEW s \in 1 .. Len(session),
               \/ session' = [session EXCEPT ![s].own = @ \union f]
               \/ session' = [session EXCEPT ![s].uploaded_outer = @ \union f]
               \/ session' = [session EXCEPT ![s].uploaded_hidden = @ \union f]
        PROVE  Same
    <3> DEFINE o == session[s]
    <3>1. o \in MountSession
      BY <1>1
    <3>2. /\ [o EXCEPT !.own = @ \union f].mode = o.mode
          /\ [o EXCEPT !.own = @ \union f].process = o.process
          /\ [o EXCEPT !.uploaded_outer = @ \union f].mode = o.mode
          /\ [o EXCEPT !.uploaded_outer = @ \union f].process = o.process
          /\ [o EXCEPT !.uploaded_hidden = @ \union f].mode = o.mode
          /\ [o EXCEPT !.uploaded_hidden = @ \union f].process = o.process
      BY <3>1 DEF MountSession
    <3>3. CASE session' = [session EXCEPT ![s].own = @ \union f]
      BY <2>2, <3>2, <3>3
    <3>4. CASE session' = [session EXCEPT ![s].uploaded_outer = @ \union f]
      BY <2>2, <3>2, <3>4
    <3>5. CASE session' = [session EXCEPT ![s].uploaded_hidden = @ \union f]
      BY <2>2, <3>2, <3>5
    <3> QED BY <2>3, <3>3, <3>4, <3>5
  <2>4. session' = session => Same
    BY <2>1 DEF Same
  <2>5. x.pc \in {"book", "count"} => x.s \in 1 .. Len(session)
    BY <1>1 DEF Arguments
  <2>6. ~Book(t) /\ ~Count(t) => session' = session
    BY DEF Release, OpenDestination, Discard, OpenSource, Link, others
  <2>7. CASE Book(t) \/ Count(t)
    BY <2>7, <2>3, <2>4, <2>5 DEF Book, Count, At
  <2> QED BY <2>6, <2>7, <2>4
<1> QED BY <1>2, <1>4, <1>5, <1>7, <1>8, QuietKeeps

\* A step of t that changes nothing the invariant reads.
LEMMA ThreadSame ==
  ASSUME Inv1, Inv2, NEW t \in Everyone, Orderly(t), Same,
         t \in Threads => thread[t].pc # "off", t = Main => ShutdownOK',
         thread'[t].op \in {"none", thread[t].op},
         OpeningOK(thread'[t], session, mounts, stack, locked, current),
         ClosingOK(thread'[t], session, mounts, current),
         Starting(thread[t]) => Starting(thread'[t]) /\ thread'[t].s = thread[t].s,
         thread[t].pc \in {"remounting", "process"} =>
           thread'[t].pc \in {"remounting", "process"} /\ thread'[t].s = thread[t].s
           /\ thread'[t].m = thread[t].m
  PROVE  Inv2'
<1> DEFINE y == thread'[t]
<1>1. y \in Handler /\ Moves(t, y) /\ Shape(y) /\ Arguments(y, Len(session))
  BY OrderlyMoves
<1>2. ShutdownOK'
  BY <1>1, ShutdownKept DEF Everyone
<1>3. t \in Threads => InTurnWith(t, y)
  BY DEF InTurnWith, Closes
<1> HIDE DEF y
<1>4. /\ OpeningOK(y, session, mounts, stack, locked, current)
      /\ ClosingOK(y, session, mounts, current)
  BY DEF y
<1>5. /\ OpeningOK(y, session', mounts', stack', locked', current')
      /\ ClosingOK(y, session', mounts', current')
  BY <1>1, <1>4, SameHandler
<1>6. /\ Starting(thread[t]) => Starting(y) /\ y.s = thread[t].s
      /\ thread[t].pc \in {"remounting", "process"} =>
           y.pc \in {"remounting", "process"} /\ y.s = thread[t].s /\ y.m = thread[t].m
  BY DEF y
<1> QED BY <1>1, <1>2, <1>3, <1>5, <1>6, SameKeeps

\* A step of the active handler, to y.
LEMMA ActiveStep ==
  ASSUME Inv1, Inv2, Inv1', NEW t \in Everyone, Active(thread[t]),
         NEW y \in Handler, Moves(t, y), y.op \in {"none", thread[t].op},
         t = Main => ShutdownOK', LockedOK',
         OpeningOK(y, session', mounts', stack', locked', current'),
         ClosingOK(y, session', mounts', current'),
         \A s \in SessionIds :
           /\ s > Len(session') => mounts'[s] = <<>> /\ stack'[s] = <<>>
           /\ \A m \in DOMAIN mounts'[s] : Works(mounts'[s][m]) =>
                WorksFor(y, session', mounts', current', s, m)
           /\ Stacked(mounts'[s], stack'[s], current', s)
  PROVE  Inv2'
<1>1. Shape(thread[t]) /\ thread[t] \in Handler
  BY Unfolded1
<1>2. ShutdownOK'
  BY <1>1, ActiveKind, ShutdownKept DEF Everyone
<1>3. t \in Threads => InTurnWith(t, y)
  BY DEF InTurnWith, Closes
<1> QED BY <1>2, <1>3, ActiveKeeps

\* _encrypt and _decrypt up to their mount.
LEMMA PrepareKeeps ==
  ASSUME Inv1, Inv2, NEW t \in Threads,
         Create(t) \/ Fill(t) \/ CreateHidden(t) \/ Unlock(t)
  PROVE  Inv2'
<1> DEFINE x == thread[t]
           y == thread'[t]
<1>1. /\ t \in Everyone /\ thread \in [Everyone -> Handler] /\ Shape(x) /\ x \in Handler
  BY Unfolded1
<1>2. Orderly(t)
  BY HandleOrderly DEF Handle, StartMount, Create, Fill, CreateHidden, Unlock, At
<1>3. x.pc \in {"create", "fill", "hidden", "unlock"}
  BY DEF Create, Fill, CreateHidden, Unlock, At
<1>4. OpeningOK(x, session, mounts, stack, locked, current)
  BY <1>1, <1>3, ActiveKnows DEF Active, Preparing
<1>5. current = NoSession
  BY <1>3, <1>4 DEF OpeningOK, Preparing
<1>6. Same
  BY DEF Create, Fill, CreateHidden, Unlock, others, state, system, told, Same
<1>7. y.op = x.op /\ y.pc \in {"fill", "hidden", "spawn", "release"}
  <2>1. Leaves(t, FALSE) \/ \E pc \in {"fill", "hidden", "spawn"} : Goto(t, pc)
    BY DEF Create, Fill, CreateHidden, Unlock
  <2>2. ASSUME Leaves(t, FALSE)
        PROVE  y.op = x.op /\ y.pc = "release"
    BY <1>1, <2>2, LeavesMoves DEF Moves
  <2>3. ASSUME NEW pc \in {"fill", "hidden", "spawn"}, Goto(t, pc)
        PROVE  y.op = x.op /\ y.pc = pc
    BY <1>1, <2>3, GotoMoves DEF Moves, Positions
  <2> QED BY <2>1, <2>2, <2>3
<1>8. y.op \in {"encrypt", "decrypt"} /\ x.pc # "off" /\ ~Starting(x)
  BY <1>1, <1>3, <1>7 DEF Shape, Starting
<1>9. /\ OpeningOK(y, session, mounts, stack, locked, current)
      /\ ClosingOK(y, session, mounts, current)
  BY <1>5, <1>7, <1>8 DEF OpeningOK, ClosingOK, Preparing, Starting, Stopping
<1> QED BY <1>1, <1>2, <1>3, <1>6, <1>7, <1>8, <1>9, Unfolded1, ThreadSame

\* _reserve_close
LEMMA ReserveCloseKeeps ==
  ASSUME Inv1, Inv2, NEW t \in Threads, ReserveClose(t)
  PROVE  Inv2'
<1> DEFINE x == thread[t]
           y == thread'[t]
<1>1. /\ t \in Everyone /\ thread \in [Everyone -> Handler] /\ Shape(x) /\ x \in Handler
  BY Unfolded1
<1>2. Orderly(t)
  BY HandleOrderly DEF Handle, StartMount, ReserveClose, At
<1>3. x.pc = "reserve" /\ ~Starting(x) /\ x.op \in {"lock", "finish"}
  BY <1>1 DEF ReserveClose, At, Starting, Shape, Closes
<1>4. Same
  BY DEF ReserveClose, system, told, Same
<1>5. \/ y.op = "none" /\ y.pc = "ready"
      \/ y.op = x.op /\ y.pc = "unmount" /\ y.s = current
  <2>1. Replies(t) \/ (x.s = current /\ Goto(t, "unmount"))
    BY DEF ReserveClose
  <2>2. ASSUME Replies(t)
        PROVE  y.op = "none" /\ y.pc = "ready"
    BY <1>1, <2>2, RepliesMoves DEF Moves
  <2>3. ASSUME Goto(t, "unmount")
        PROVE  y.op = x.op /\ y.pc = "unmount" /\ y.s = x.s
    BY <1>1, <2>3, GotoMoves DEF Moves, Positions
  <2> QED BY <2>1, <2>2, <2>3
<1>6. /\ OpeningOK(y, session, mounts, stack, locked, current)
      /\ ClosingOK(y, session, mounts, current)
  BY <1>3, <1>5 DEF OpeningOK, ClosingOK, Preparing, Starting, Stopping
<1> QED BY <1>1, <1>2, <1>3, <1>4, <1>5, <1>6, Unfolded1, ThreadSame

-----------------------------------------------------------------------------
(***************************************************************************)
(* A vault is opened.                                                      *)
(***************************************************************************)
LEMMA StartMountKeeps ==
  ASSUME Inv1, Inv2, Inv1', NEW t \in Threads, StartMount(t)
  PROVE  Inv2'
<1> DEFINE x == thread[t]
           n == Len(session)
<1>1. /\ t \in Everyone /\ t # Main /\ x \in Handler /\ n \in Nat
      /\ mounts \in [SessionIds -> Seq(MountProcess)] /\ dirs \subseteq SessionIds
  BY Unfolded1
<1>2. PICK y \in Handler : /\ Moves(t, y) /\ y.pc = "await" /\ y.op = x.op
                           /\ y.s = n + 1 /\ y.m = 1
  BY StartMountSession
<1>3. /\ Len(session') = n + 1 /\ n + 1 \in SessionIds
      /\ session'[n + 1].process = 1 /\ session'[n + 1].mode = x.op
  BY <1>1, StartMountSession, DashboardAssumption DEF SessionIds
<1>4. x.pc = "spawn" /\ UNCHANGED <<state, stack, vault, store, told>>
      /\ Spawn(n + 1, x.volume)
  BY DEF StartMount, At
<1>5. Active(x) /\ Preparing(x) /\ ~Starting(x)
  BY <1>4 DEF Active, Preparing, Starting
<1>6. /\ \A s \in SessionIds : \A m \in DOMAIN mounts[s] : Works(mounts[s][m]) =>
              WorksFor(x, session, mounts, current, s, m)
      /\ \A s \in SessionIds : /\ s > n => mounts[s] = <<>> /\ stack[s] = <<>>
                               /\ Stacked(mounts[s], stack[s], current, s)
      /\ OpeningOK(x, session, mounts, stack, locked, current)
      /\ LockedOK
  BY <1>1, <1>5, ActiveKnows
<1>7. current = NoSession /\ NoSession \notin SessionIds
  BY <1>5, <1>6, DashboardAssumption DEF OpeningOK, SessionIds
<1>8. mounts[n + 1] = <<>> /\ stack[n + 1] = <<>>
  BY <1>1, <1>3, <1>6
<1>9. /\ mounts' \in [SessionIds -> Seq(MountProcess)]
      /\ \A r \in SessionIds : r # n + 1 => mounts'[r] = mounts[r]
      /\ Len(mounts'[n + 1]) = Len(mounts[n + 1]) + 1
      /\ mounts'[n + 1][Len(mounts[n + 1]) + 1].st = "starting"
  BY <1>1, <1>3, <1>4, HandlerFields, SpawnChanges
<1>10. Len(mounts'[n + 1]) = 1 /\ mounts'[n + 1][1].st = "starting"
       /\ DOMAIN mounts'[n + 1] = 1 .. 1 /\ mounts'[n + 1] # <<>>
  <2>1. Len(mounts[n + 1]) = 0
    BY <1>8
  <2>2. mounts'[n + 1] \in Seq(MountProcess)
    BY <1>3, <1>9
  <2> QED BY <1>9, <2>1, <2>2
<1>11. \A s \in SessionIds : \A m \in DOMAIN mounts[s] : ~Works(mounts[s][m])
  BY <1>5, <1>6, <1>7 DEF WorksFor
<1>12. current' = current /\ stack' = stack /\ locked' = locked
  BY <1>4 DEF state, told
<1>13. LockedOK'
  <2>1. ASSUME NEW s \in locked
        PROVE  /\ s \in 1 .. n + 1 /\ s # current /\ stack[s] = <<>>
               /\ ~\E m \in DOMAIN mounts'[s] : Works(mounts'[s][m])
    <3>1. s \in 1 .. n /\ s # current /\ stack[s] = <<>>
      BY <1>6, <2>1 DEF LockedOK
    <3>2. s # n + 1 /\ s \in SessionIds /\ s \in 1 .. n + 1
      <4>1. locked \subseteq SessionIds
        BY Unfolded1
      <4> QED BY <1>1, <2>1, <3>1, <4>1
    <3>3. mounts'[s] = mounts[s]
      BY <1>9, <3>2
    <3> QED BY <1>11, <3>1, <3>2, <3>3
  <2> QED BY <1>3, <1>12, <2>1 DEF LockedOK, Alive
<1>14. OpeningOK(y, session', mounts', stack', locked', current')
  <2>1. n + 1 \notin locked
    BY <1>1, <1>6 DEF LockedOK
  <2> QED BY <1>2, <1>3, <1>7, <1>8, <1>10, <1>12, <2>1 DEF OpeningOK, Preparing, Starting
<1>15. ClosingOK(y, session', mounts', current')
  <2>1. x.op # "switch"
    BY <1>4, Unfolded1, <1>1 DEF Shape, Opens
  <2> QED BY <1>2, <2>1 DEF ClosingOK, Stopping
<1>16. ASSUME NEW s \in SessionIds
       PROVE  /\ s > Len(session') => mounts'[s] = <<>> /\ stack'[s] = <<>>
              /\ \A m \in DOMAIN mounts'[s] : Works(mounts'[s][m]) =>
                   WorksFor(y, session', mounts', current', s, m)
              /\ Stacked(mounts'[s], stack'[s], current', s)
  <2>1. CASE s = n + 1
    <3>1. ~(s > Len(session'))
      BY <1>1, <1>3, <2>1
    <3>2. \A m \in DOMAIN mounts'[s] : WorksFor(y, session', mounts', current', s, m)
      <4>1. ASSUME NEW m \in DOMAIN mounts'[s]
            PROVE  m = Len(mounts'[s]) /\ Starting(y) /\ y.s = s /\ session'[s].process = m
        <5>1. m = 1
          BY <1>10, <2>1, <4>1
        <5>2. Len(mounts'[s]) = 1 /\ session'[s].process = 1
          BY <1>3, <1>10, <2>1
        <5> QED BY <1>2, <2>1, <5>1, <5>2 DEF Starting
      <4> QED BY <4>1 DEF WorksFor
    <3>3. Stacked(mounts'[s], stack'[s], current', s)
      BY <1>8, <1>10, <1>12, <2>1 DEF Stacked
    <3> QED BY <3>1, <3>2, <3>3
  <2>2. CASE s # n + 1
    <3>1. mounts'[s] = mounts[s] /\ stack'[s] = stack[s]
      BY <1>9, <1>12, <2>2
    <3>2. s > Len(session') => s > n
      BY <1>1, <1>3 DEF SessionIds
    <3> QED BY <1>6, <1>11, <1>12, <3>1, <3>2
  <2> QED BY <2>1, <2>2
<1>17. y.op \in {"none", x.op}
  BY <1>2
<1> QED BY <1>1, <1>2, <1>5, <1>13, <1>14, <1>15, <1>16, <1>17, ActiveStep

\* What a handler is after its step.
LEMMA StepFields ==
  ASSUME Inv1, NEW t \in Everyone
  PROVE  /\ \A pc \in Positions : Goto(t, pc) =>
              /\ thread'[t].pc = pc /\ thread'[t].op = thread[t].op
              /\ thread'[t].s = thread[t].s /\ thread'[t].m = thread[t].m
              /\ thread'[t].ok = thread[t].ok
         /\ \A pc \in Positions : \A m \in Nat : Advances(t, pc, m) =>
              /\ thread'[t].pc = pc /\ thread'[t].op = thread[t].op
              /\ thread'[t].s = thread[t].s /\ thread'[t].m = m
              /\ thread'[t].ok = thread[t].ok
         /\ \A ok \in BOOLEAN : Leaves(t, ok) =>
              /\ thread'[t].pc = "release" /\ thread'[t].op = thread[t].op
         /\ Replies(t) => thread'[t].pc = "ready" /\ thread'[t].op = "none"
<1>1. thread \in [Everyone -> Handler]
  BY Unfolded1
<1> QED BY <1>1, GotoMoves, AdvancesMoves, LeavesMoves, RepliesMoves DEF Moves

\* Nothing is asked of a handler that has left or replied.
Gone(h) == h.pc \in {"release", "ready", "exited"} /\ h.op # "switch"

\* ... so that it is in order whatever the rest is.
LEMMA Left ==
  ASSUME NEW h, Gone(h),
         NEW ses, NEW mnt, NEW st, NEW lk, NEW cur
  PROVE  /\ OpeningOK(h, ses, mnt, st, lk, cur) /\ ClosingOK(h, ses, mnt, cur)
         /\ ~Starting(h) /\ \A s, m : ~Remounts(h, s, m)
  BY DEF Gone, OpeningOK, ClosingOK, Preparing, Starting, Stopping, Remounts

\* What a handler that awaits its mount knows: no other process works.
LEMMA StartingKnows ==
  ASSUME Inv1, Inv2, NEW t \in Everyone, Starting(thread[t])
  PROVE  LET x == thread[t]
         IN  /\ Active(x) /\ x.s \in 1 .. Len(session) /\ x.s \in SessionIds
             /\ x.op \in {"encrypt", "decrypt"} /\ t \in Threads
             /\ current = NoSession /\ NoSession \notin SessionIds
             /\ Len(mounts[x.s]) = 1 /\ DOMAIN mounts[x.s] = {1}
             /\ x.m = 1 /\ x.s \notin locked /\ session[x.s].mode = x.op
             /\ stack[x.s] # <<>> => mounts[x.s][1].st = "mounted"
             /\ Works(mounts[x.s][1]) => session[x.s].process = 1
             /\ \A r \in SessionIds : r # x.s =>
                  \A m \in DOMAIN mounts[r] : ~Works(mounts[r][m])
<1> DEFINE x == thread[t]
<1>1. Active(x) /\ ~Preparing(x)
  BY DEF Active, Starting, Preparing
<1>2. x.s \in 1 .. Len(session) /\ x.s \in SessionIds
  BY <1>1, ActiveSession
<1>3. /\ \A s \in SessionIds : \A m \in DOMAIN mounts[s] : Works(mounts[s][m]) =>
              WorksFor(x, session, mounts, current, s, m)
      /\ OpeningOK(x, session, mounts, stack, locked, current)
      /\ Shape(x)
  BY <1>1, ActiveKnows
<1>4. NoSession \notin SessionIds
  BY DashboardAssumption DEF SessionIds
<1>5. /\ current = NoSession /\ Len(mounts[x.s]) = 1 /\ x.m = 1 /\ x.s \notin locked
      /\ stack[x.s] # <<>> => mounts[x.s][1].st = "mounted"
      /\ session[x.s].mode = x.op
  BY <1>3 DEF OpeningOK
<1>6. DOMAIN mounts[x.s] = {1}
  <2>1. mounts[x.s] \in Seq(MountProcess)
    BY <1>2, Unfolded1
  <2> QED BY <1>5, <2>1
<1>7. x.op \in {"encrypt", "decrypt"}
  BY <1>3 DEF Shape, Starting, Opens
<1>8. t \in Threads
  BY Unfolded1 DEF Everyone, MainShape, Starting
<1>9. ASSUME NEW r \in SessionIds, r # x.s, NEW m \in DOMAIN mounts[r]
      PROVE  ~Works(mounts[r][m])
  BY <1>3, <1>4, <1>5, <1>9 DEF WorksFor
<1>10. Works(mounts[x.s][1]) => session[x.s].process = 1
  <2>1. Works(mounts[x.s][1]) => WorksFor(x, session, mounts, current, x.s, 1)
    BY <1>2, <1>3, <1>6
  <2>2. ~Remounts(x, x.s, 1)
    BY DEF Starting, Remounts
  <2> QED BY <2>1, <2>2 DEF WorksFor
<1> QED BY <1>1, <1>2, <1>4, <1>5, <1>6, <1>7, <1>8, <1>9, <1>10

\* The mounts of the sessions, as they are before and after a step.
LEMMA MountsAre ==
  ASSUME Inv1, Inv2
  PROVE  /\ \A s \in SessionIds : /\ s > Len(session) => mounts[s] = <<>> /\ stack[s] = <<>>
                                  /\ Stacked(mounts[s], stack[s], current, s)
         /\ LockedOK
  BY DEF Inv2, ProcessesOK

\* The mount appears, its process ends, or the deadline passes.
LEMMA AwaitMountKeeps ==
  ASSUME Inv1, Inv2, Inv1', NEW t \in Threads, AwaitMount(t)
  PROVE  Inv2'
<1> DEFINE x == thread[t]
           y == thread'[t]
           s == x.s
<1>1. x.pc = "await" /\ Starting(x) /\ t \in Everyone /\ t # Main
  BY Unfolded1 DEF AwaitMount, At, Starting
<1>2. /\ Active(x) /\ s \in 1 .. Len(session) /\ s \in SessionIds
      /\ x.op \in {"encrypt", "decrypt"}
      /\ current = NoSession /\ NoSession \notin SessionIds
      /\ Len(mounts[s]) = 1 /\ DOMAIN mounts[s] = {1}
      /\ x.m = 1 /\ s \notin locked /\ session[s].mode = x.op
      /\ stack[s] # <<>> => mounts[s][1].st = "mounted"
      /\ Works(mounts[s][1]) => session[s].process = 1
      /\ \A r \in SessionIds : r # s => \A m \in DOMAIN mounts[r] : ~Works(mounts[r][m])
  BY <1>1, StartingKnows
<1>3. Orderly(t)
  BY <1>1, HandleOrderly DEF Handle, StartMount, At
<1>4. y \in Handler /\ Moves(t, y)
  BY <1>1, <1>3, OrderlyMoves
<1>5. /\ \A r \in SessionIds : /\ r > Len(session) => mounts[r] = <<>> /\ stack[r] = <<>>
                               /\ Stacked(mounts[r], stack[r], current, r)
      /\ LockedOK
  BY MountsAre
<1>6. UNCHANGED <<state, session, stack, vault, store, told>>
  BY DEF AwaitMount
<1>7. CASE Dead(t) /\ Leaves(t, FALSE) /\ UNCHANGED mounts
  <2>1. y.pc = "release" /\ y.op = x.op
    BY <1>1, <1>7, StepFields
  <2>2. mounts[s][1].st = "dead"
    BY <1>2, <1>7 DEF Dead
  <2>3. \A r \in SessionIds : \A m \in DOMAIN mounts[r] : ~Works(mounts[r][m])
    BY <1>2, <2>2 DEF Works
  <2>4. mounts' = mounts /\ stack' = stack /\ current' = current /\ session' = session
        /\ locked' = locked
    BY <1>6, <1>7 DEF state, told
  <2>5. LockedOK'
    BY <1>5, <2>4 DEF LockedOK, Alive
  <2>6. Gone(y)
    BY <1>2, <2>1 DEF Gone
  <2> HIDE DEF y
  <2>7. /\ OpeningOK(y, session', mounts', stack', locked', current')
         /\ ClosingOK(y, session', mounts', current')
    BY <2>6, Left
  <2>8. \A r \in SessionIds :
           /\ r > Len(session') => mounts'[r] = <<>> /\ stack'[r] = <<>>
           /\ \A m \in DOMAIN mounts'[r] : Works(mounts'[r][m]) =>
                WorksFor(y, session', mounts', current', r, m)
           /\ Stacked(mounts'[r], stack'[r], current', r)
    BY <1>5, <2>3, <2>4
  <2> QED BY <1>1, <1>2, <1>4, <2>1, <2>5, <2>7, <2>8, ActiveStep
<1>8. CASE IsMount(s) /\ Goto(t, "publish") /\ UNCHANGED mounts
  <2>1. y.pc = "publish" /\ y.op = x.op /\ y.s = s /\ y.m = x.m
    BY <1>1, <1>8, StepFields DEF Positions
  <2>2. OpeningOK(x, session, mounts, stack, locked, current)
    BY <1>1, <1>2, ActiveKnows
  <2>3. OpeningOK(y, session, mounts, stack, locked, current)
    BY <1>1, <2>1, <2>2 DEF OpeningOK, Starting, Preparing
  <2>4. ClosingOK(y, session, mounts, current)
    BY <1>2, <2>1 DEF ClosingOK, Stopping
  <2>5. Same
    BY <1>6, <1>8 DEF Same, state, told
  <2> QED BY <1>1, <1>3, <2>1, <2>3, <2>4, <2>5, ThreadSame DEF Starting
<1>9. CASE Terminate(t) /\ Goto(t, "terminated")
  <2>1. y.pc = "terminated" /\ y.op = x.op /\ y.s = s /\ y.m = x.m
    BY <1>1, <1>9, StepFields DEF Positions
  <2>2. mounts \in [SessionIds -> Seq(MountProcess)]
    BY Unfolded1
  <2>3. /\ mounts' \in [SessionIds -> Seq(MountProcess)]
        /\ \A r \in SessionIds : r # s => mounts'[r] = mounts[r]
        /\ Len(mounts'[s]) = 1 /\ DOMAIN mounts'[s] = {1}
        /\ mounts'[s][1].st = mounts[s][1].st
        /\ mounts'[s][1].terminated = TRUE
    <3>1. OneProcess(s, x.m) /\ mounts'[s][1].st = mounts[s][1].st
          /\ mounts'[s][1].terminated = TRUE
      <4>1. x.m \in 1 .. Len(mounts[s])
        BY <1>2
      <4>2. /\ OneProcess(s, x.m) /\ mounts'[s][x.m].st = mounts[s][x.m].st
            /\ mounts'[s][x.m].terminated = TRUE
        BY <1>2, <1>9, <2>2, <4>1, TerminateChanges
      <4> QED BY <1>2, <4>2
    <3>2. mounts'[s] \in Seq(MountProcess) /\ Len(mounts'[s]) = 1
      BY <1>2, <3>1 DEF OneProcess
    <3>3. DOMAIN mounts'[s] = {1}
      BY <3>2
    <3> QED BY <1>2, <3>1, <3>2, <3>3 DEF OneProcess
  <2>4. Works(mounts'[s][1]) => Works(mounts[s][1])
    BY <2>3 DEF Works
  <2>5. stack' = stack /\ current' = current /\ session' = session /\ locked' = locked
    BY <1>6 DEF state, told
  <2>6. LockedOK'
    <3>1. \A r \in locked : mounts'[r] = mounts[r]
      BY <1>2, <2>3, Unfolded1
    <3> QED BY <1>5, <2>5, <3>1 DEF LockedOK, Alive
  <2> HIDE DEF y
  <2>7. OpeningOK(y, session', mounts', stack', locked', current')
    BY <1>2, <2>1, <2>3, <2>5 DEF OpeningOK, Preparing, Starting
  <2>8. ClosingOK(y, session', mounts', current')
    BY <1>2, <2>1 DEF ClosingOK, Stopping
  <2>9. ASSUME NEW r \in SessionIds
        PROVE  /\ r > Len(session') => mounts'[r] = <<>> /\ stack'[r] = <<>>
               /\ \A m \in DOMAIN mounts'[r] : Works(mounts'[r][m]) =>
                    WorksFor(y, session', mounts', current', r, m)
               /\ Stacked(mounts'[r], stack'[r], current', r)
    <3>1. CASE r = s
      <4>1. ~(r > Len(session'))
        BY <1>2, <2>5, <3>1
      <4>2. ASSUME NEW m \in DOMAIN mounts'[s], Works(mounts'[s][m])
            PROVE  WorksFor(y, session', mounts', current', s, m)
        <5>1. m = 1
          BY <2>3
        <5> QED BY <1>2, <2>1, <2>3, <2>4, <2>5, <4>2, <5>1 DEF WorksFor, Starting
      <4>3. Stacked(mounts[s], stack[s], current, s)
        BY <1>2, <1>5
      <4>4. mounts[s] # <<>> /\ mounts'[s] # <<>>
        BY <1>2, <2>3
      <4>5. Stacked(mounts'[s], stack'[s], current', s)
        BY <1>2, <2>3, <2>5, <4>3, <4>4 DEF Stacked
      <4> QED BY <3>1, <4>1, <4>2, <4>5
    <3>2. CASE r # s
      BY <1>2, <1>5, <2>3, <2>5, <3>2
    <3> QED BY <3>1, <3>2
  <2> QED BY <1>1, <1>2, <1>4, <2>1, <2>6, <2>7, <2>8, <2>9, ActiveStep
<1> QED BY <1>7, <1>8, <1>9 DEF AwaitMount

\* A process that was not mounted in time ends or is killed.
LEMMA MountTimedOutKeeps ==
  ASSUME Inv1, Inv2, Inv1', NEW t \in Threads, MountTimedOut(t)
  PROVE  Inv2'
<1> DEFINE x == thread[t]
           y == thread'[t]
           s == x.s
<1>1. x.pc = "terminated" /\ Starting(x) /\ t \in Everyone /\ t # Main
  BY Unfolded1 DEF MountTimedOut, At, Starting
<1>2. /\ Active(x) /\ s \in 1 .. Len(session) /\ s \in SessionIds
      /\ x.op \in {"encrypt", "decrypt"}
      /\ current = NoSession /\ NoSession \notin SessionIds
      /\ Len(mounts[s]) = 1 /\ DOMAIN mounts[s] = {1}
      /\ x.m = 1 /\ s \notin locked
      /\ stack[s] # <<>> => mounts[s][1].st = "mounted"
      /\ \A r \in SessionIds : r # s => \A m \in DOMAIN mounts[r] : ~Works(mounts[r][m])
  BY <1>1, StartingKnows
<1>3. Orderly(t)
  BY <1>1, HandleOrderly DEF Handle, StartMount, At
<1>4. y \in Handler /\ Moves(t, y)
  BY <1>1, <1>3, OrderlyMoves
<1>5. /\ \A r \in SessionIds : /\ r > Len(session) => mounts[r] = <<>> /\ stack[r] = <<>>
                               /\ Stacked(mounts[r], stack[r], current, r)
      /\ LockedOK
  BY MountsAre
<1>6. stack' = stack /\ current' = current /\ session' = session /\ locked' = locked
  BY DEF MountTimedOut, state, told
<1>7. y.pc = "release" /\ y.op = x.op
  BY <1>1, StepFields DEF MountTimedOut
<1>8. Gone(y)
  BY <1>2, <1>7 DEF Gone
<1>9. mounts \in [SessionIds -> Seq(MountProcess)]
  BY Unfolded1
<1>10. /\ mounts' \in [SessionIds -> Seq(MountProcess)]
       /\ \A r \in SessionIds : r # s => mounts'[r] = mounts[r]
       /\ Len(mounts'[s]) = 1 /\ mounts'[s][1].st = "dead"
  <2>1. CASE Dead(t) /\ UNCHANGED mounts
    BY <1>2, <1>9, <2>1 DEF Dead
  <2>2. CASE Status(s, x.m, "dead")
    <3>1. x.m \in 1 .. Len(mounts[s])
      BY <1>2
    <3>2. OneProcess(s, x.m) /\ mounts'[s][x.m].st = "dead"
      BY <1>2, <1>9, <2>2, <3>1, StatusChanges
    <3> QED BY <1>2, <3>2 DEF OneProcess
  <2> QED BY <2>1, <2>2 DEF MountTimedOut, EndProcess
<1>11. DOMAIN mounts'[s] = {1} /\ mounts'[s] # <<>>
  <2>1. mounts'[s] \in Seq(MountProcess)
    BY <1>2, <1>10
  <2> QED BY <1>10, <2>1
<1>12. \A r \in SessionIds : \A m \in DOMAIN mounts'[r] : ~Works(mounts'[r][m])
  BY <1>2, <1>10, <1>11 DEF Works
<1>13. LockedOK'
  <2>1. \A r \in locked : mounts'[r] = mounts[r]
    BY <1>2, <1>10, Unfolded1
  <2> QED BY <1>5, <1>6, <2>1 DEF LockedOK, Alive
<1>14. ASSUME NEW r \in SessionIds
       PROVE  /\ r > Len(session') => mounts'[r] = <<>> /\ stack'[r] = <<>>
              /\ Stacked(mounts'[r], stack'[r], current', r)
  <2>1. CASE r = s
    <3>1. ~(r > Len(session'))
      BY <1>2, <1>6, <2>1
    <3>2. Stacked(mounts[s], stack[s], current, s)
      BY <1>2, <1>5
    <3>3. Stacked(mounts'[s], stack'[s], current', s)
      BY <1>2, <1>6, <1>10, <1>11, <3>2 DEF Stacked
    <3> QED BY <2>1, <3>1, <3>3
  <2>2. CASE r # s
    BY <1>5, <1>6, <1>10, <2>2
  <2> QED BY <2>1, <2>2
<1> HIDE DEF y
<1>15. /\ OpeningOK(y, session', mounts', stack', locked', current')
       /\ ClosingOK(y, session', mounts', current')
  BY <1>8, Left
<1> QED BY <1>1, <1>2, <1>4, <1>7, <1>12, <1>13, <1>14, <1>15, ActiveStep

\* The session becomes the open one.
LEMMA PublishKeeps ==
  ASSUME Inv1, Inv2, Inv1', NEW t \in Threads, Publish(t)
  PROVE  Inv2'
<1> DEFINE x == thread[t]
           y == thread'[t]
           s == x.s
<1>1. x.pc = "publish" /\ Starting(x) /\ t \in Everyone /\ t # Main
  BY Unfolded1 DEF Publish, At, Starting
<1>2. /\ Active(x) /\ s \in 1 .. Len(session) /\ s \in SessionIds
      /\ x.op \in {"encrypt", "decrypt"} /\ session[s].mode = x.op
      /\ Len(mounts[s]) = 1 /\ DOMAIN mounts[s] = {1}
      /\ x.m = 1 /\ s \notin locked
      /\ stack[s] # <<>> => mounts[s][1].st = "mounted"
      /\ Works(mounts[s][1]) => session[s].process = 1
      /\ \A r \in SessionIds : r # s => \A m \in DOMAIN mounts[r] : ~Works(mounts[r][m])
      /\ current = NoSession /\ NoSession \notin SessionIds
  BY <1>1, StartingKnows
<1>3. Orderly(t)
  BY <1>1, HandleOrderly DEF Handle, StartMount, At
<1>4. y \in Handler /\ Moves(t, y)
  BY <1>1, <1>3, OrderlyMoves
<1>5. /\ \A r \in SessionIds : /\ r > Len(session) => mounts[r] = <<>> /\ stack[r] = <<>>
                               /\ Stacked(mounts[r], stack[r], current, r)
      /\ LockedOK
  BY MountsAre
<1>6. /\ mounts' = mounts /\ stack' = stack /\ session' = session /\ locked' = locked
      /\ current' = s
  BY DEF Publish, system, told
<1>7. y.op = x.op /\ \/ y.pc = "list" /\ x.op = "decrypt" /\ y.s = s
                     \/ y.pc = "release"
  <2>1. (Goto(t, "list") /\ x.op = "decrypt") \/ Leaves(t, TRUE)
    BY DEF Publish
  <2> QED BY <1>1, <2>1, StepFields DEF Positions
<1> HIDE DEF y
<1>8. OpeningOK(y, session', mounts', stack', locked', current')
  BY <1>7 DEF OpeningOK, Preparing, Starting
<1>9. ClosingOK(y, session', mounts', current')
  BY <1>2, <1>6, <1>7 DEF ClosingOK, Stopping
<1>10. LockedOK'
  BY <1>2, <1>5, <1>6 DEF LockedOK, Alive
<1>11. ASSUME NEW r \in SessionIds
       PROVE  /\ r > Len(session') => mounts'[r] = <<>> /\ stack'[r] = <<>>
              /\ \A m \in DOMAIN mounts'[r] : Works(mounts'[r][m]) =>
                   WorksFor(y, session', mounts', current', r, m)
              /\ Stacked(mounts'[r], stack'[r], current', r)
  <2>1. CASE r = s
    <3>1. ~(r > Len(session'))
      BY <1>2, <1>6, <2>1
    <3>2. Stacked(mounts[s], stack[s], current, s)
      BY <1>2, <1>5
    <3>3. Stacked(mounts[s], stack[s], s, s)
      BY <1>2, <3>2 DEF Stacked
    <3>4. ASSUME NEW m \in DOMAIN mounts[s], Works(mounts[s][m])
          PROVE  WorksFor(y, session', mounts', current', s, m)
      BY <1>2, <1>6, <3>4 DEF WorksFor
    <3> QED BY <1>6, <2>1, <3>1, <3>3, <3>4
  <2>2. CASE r # s
    <3>1. Stacked(mounts[r], stack[r], current, r)
      BY <1>5
    <3>2. Stacked(mounts[r], stack[r], s, r)
      BY <1>2, <2>2, <3>1 DEF Stacked
    <3> QED BY <1>2, <1>5, <1>6, <2>2, <3>2
  <2> QED BY <2>1, <2>2
<1>12. y.op \in {"none", x.op}
  BY <1>7
<1> QED BY <1>1, <1>2, <1>4, <1>8, <1>9, <1>10, <1>11, <1>12, ActiveStep DEF y

-----------------------------------------------------------------------------
(***************************************************************************)
(* A vault is closed, or its volume changed.                               *)
(***************************************************************************)
\* A handler at work on the open session.
Holds(h) == Stopping(h) \/ h.pc = "list" \/ h.op = "switch"

\* What it knows: only the last process of the open session works.
LEMMA HoldingKnows ==
  ASSUME Inv1, Inv2, NEW t \in Everyone, Holds(thread[t])
  PROVE  LET x == thread[t]
         IN  /\ Active(x) /\ ~Preparing(x) /\ ~Starting(x) /\ x.s = current
             /\ x.s \in 1 .. Len(session) /\ x.s \in SessionIds
             /\ ClosingOK(x, session, mounts, current) /\ x.s \notin locked
             /\ NoSession \notin SessionIds
             /\ \A m \in DOMAIN mounts[x.s] : Works(mounts[x.s][m]) =>
                  /\ m = Len(mounts[x.s])
                  /\ session[x.s].process = m \/ Remounts(x, x.s, m)
             /\ \A r \in SessionIds : r # x.s =>
                  \A m \in DOMAIN mounts[r] : ~Works(mounts[r][m])
<1> DEFINE x == thread[t]
<1>1. Shape(x)
  BY Unfolded1
<1>2. Active(x) /\ ~Preparing(x) /\ ~Starting(x)
  BY <1>1 DEF Holds, Active, Shape, Stopping, Preparing, Starting, Opens
<1>3. x.s \in 1 .. Len(session) /\ x.s \in SessionIds
  BY <1>2, ActiveSession
<1>4. /\ \A s \in SessionIds : \A m \in DOMAIN mounts[s] : Works(mounts[s][m]) =>
              WorksFor(x, session, mounts, current, s, m)
      /\ ClosingOK(x, session, mounts, current) /\ LockedOK
  BY <1>2, ActiveKnows
<1>5. x.s = current
  BY <1>4 DEF ClosingOK, Holds
<1>6. x.s \notin locked
  BY <1>4, <1>5 DEF LockedOK
<1>7. NoSession \notin SessionIds
  BY DashboardAssumption DEF SessionIds
<1>8. \A m \in DOMAIN mounts[x.s] : Works(mounts[x.s][m]) =>
                  /\ m = Len(mounts[x.s])
                  /\ session[x.s].process = m \/ Remounts(x, x.s, m)
  BY <1>3, <1>4 DEF WorksFor
<1>9. \A r \in SessionIds : r # x.s => \A m \in DOMAIN mounts[r] : ~Works(mounts[r][m])
  BY <1>2, <1>4, <1>5 DEF WorksFor
<1> QED BY <1>2, <1>3, <1>4, <1>5, <1>6, <1>7, <1>8, <1>9

\* Once the volume is unmounted and the process has ended, nothing is left.
LEMMA StoppedKnows ==
  ASSUME Inv1, Inv2, NEW t \in Everyone, thread[t].pc = "stopped"
  PROVE  /\ \A r \in SessionIds : \A m \in DOMAIN mounts[r] : ~Works(mounts[r][m])
         /\ stack[thread[t].s] = <<>>
<1> DEFINE s == thread[t].s
<1>1. Holds(thread[t])
  BY DEF Holds, Stopping
<1>2. /\ s = current /\ s \in SessionIds
      /\ ClosingOK(thread[t], session, mounts, current)
      /\ \A r \in SessionIds : r # s => \A m \in DOMAIN mounts[r] : ~Works(mounts[r][m])
  BY <1>1, HoldingKnows
<1>3. \A m \in DOMAIN mounts[s] : ~Works(mounts[s][m])
  BY <1>2 DEF ClosingOK
<1>4. stack[s] = <<>>
  <2>1. SUFFICES ASSUME stack[s] # <<>>
                 PROVE  FALSE
    OBVIOUS
  <2>2. mounts[s] # <<>> /\ mounts[s][Len(mounts[s])].st = "mounted"
    BY <1>2, <2>1, MountsAre DEF Stacked
  <2>3. mounts[s] \in Seq(MountProcess)
    BY <1>2, Unfolded1
  <2>4. Len(mounts[s]) \in DOMAIN mounts[s]
    BY <2>2, <2>3
  <2> QED BY <1>3, <2>2, <2>4 DEF Works
<1> QED BY <1>2, <1>3, <1>4

\* list_mounted_files
LEMMA ListFilesKeeps ==
  ASSUME Inv1, Inv2, NEW t \in Threads, ListFiles(t)
  PROVE  Inv2'
<1> DEFINE x == thread[t]
           y == thread'[t]
<1>1. x.pc = "list" /\ t \in Everyone /\ t # Main /\ Holds(x) /\ x.op = "decrypt"
  BY Unfolded1 DEF ListFiles, At, Holds, Shape
<1>2. x.s = current /\ ClosingOK(x, session, mounts, current) /\ ~Starting(x)
  BY <1>1, HoldingKnows
<1>3. Orderly(t)
  BY <1>1, HandleOrderly DEF Handle, StartMount, At
<1>4. y.op = "decrypt" /\ (y.pc = "release" \/ (y.pc = "unmount" /\ y.s = current))
  <2>1. Leaves(t, TRUE) \/ Goto(t, "unmount")
    BY DEF ListFiles
  <2> QED BY <1>1, <1>2, <2>1, StepFields DEF Positions
<1>5. Same
  BY DEF ListFiles, others, state, system, told, Same
<1>6. /\ OpeningOK(y, session, mounts, stack, locked, current)
      /\ ClosingOK(y, session, mounts, current)
  BY <1>1, <1>2, <1>4 DEF OpeningOK, ClosingOK, Preparing, Starting, Stopping
<1> QED BY <1>1, <1>2, <1>3, <1>4, <1>5, <1>6, ThreadSame

\* The reply that the vault is closed, after lock, finish or a failed list.
LEMMA ClosedKeeps ==
  ASSUME Inv1, Inv2, Inv1', NEW t \in Threads, Locked(t) \/ ListFailed(t)
  PROVE  Inv2'
<1> DEFINE x == thread[t]
           y == thread'[t]
           s == x.s
<1>1. x.pc = "stopped" /\ t \in Everyone /\ t # Main /\ Holds(x)
      /\ x.op \in {"lock", "finish", "decrypt"}
  BY Unfolded1 DEF Locked, ListFailed, Doing, Holds, Stopping
<1>2. s = current /\ Active(x) /\ s \in 1 .. Len(session) /\ NoSession \notin SessionIds
      /\ s \in SessionIds
  BY <1>1, HoldingKnows
<1>3. /\ \A r \in SessionIds : \A m \in DOMAIN mounts[r] : ~Works(mounts[r][m])
      /\ stack[s] = <<>>
  BY <1>1, StoppedKnows
<1>4. Orderly(t)
  BY <1>1, HandleOrderly DEF Handle, StartMount, At
<1>5. y \in Handler /\ Moves(t, y)
  BY <1>1, <1>4, OrderlyMoves
<1>6. /\ \A r \in SessionIds : /\ r > Len(session) => mounts[r] = <<>> /\ stack[r] = <<>>
                               /\ Stacked(mounts[r], stack[r], current, r)
      /\ LockedOK
  BY MountsAre
<1>7. y.pc = "release" /\ y.op = x.op
  <2>1. Leaves(t, TRUE) \/ Leaves(t, FALSE)
    BY DEF Locked, ListFailed
  <2> QED BY <1>1, <2>1, StepFields
<1>8. Gone(y)
  BY <1>1, <1>7 DEF Gone
<1>9. mounts' = mounts /\ stack' = stack /\ current' = NoSession
      /\ locked' \subseteq locked \union {s} /\ Len(session') = Len(session)
  <2>1. Len(session') = Len(session)
    BY SessionRest
  <2> QED BY <1>2, <2>1 DEF Locked, ListFailed, system, told
<1>10. LockedOK'
  <2>1. locked \subseteq SessionIds
    BY Unfolded1
  <2>2. ASSUME NEW r \in locked'
        PROVE  r \in 1 .. Len(session') /\ r # current' /\ stack[r] = <<>> /\ r \in SessionIds
    BY <1>2, <1>3, <1>6, <1>9, <2>1, <2>2 DEF LockedOK
  <2> QED BY <1>3, <1>9, <2>2 DEF LockedOK, Alive
<1>11. ASSUME NEW r \in SessionIds
       PROVE  /\ r > Len(session') => mounts'[r] = <<>> /\ stack'[r] = <<>>
              /\ Stacked(mounts'[r], stack'[r], current', r)
  <2>1. Stacked(mounts[r], stack[r], current, r)
    BY <1>6
  <2>2. Stacked(mounts[r], stack[r], NoSession, r)
    BY <1>2, <2>1 DEF Stacked
  <2> QED BY <1>6, <1>9, <2>2
<1> HIDE DEF y
<1>12. /\ OpeningOK(y, session', mounts', stack', locked', current')
       /\ ClosingOK(y, session', mounts', current')
  BY <1>8, Left
<1>13. \A r \in SessionIds : \A m \in DOMAIN mounts'[r] : ~Works(mounts'[r][m])
  BY <1>3, <1>9
<1> QED BY <1>1, <1>2, <1>5, <1>7, <1>10, <1>11, <1>12, <1>13, ActiveStep

\* A step of the active handler that ends its request and changes at most dirs.
LEMMA RepliesKeeps ==
  ASSUME Inv1, Inv2, Inv1', NEW t \in Threads, Holds(thread[t]), Orderly(t), Replies(t),
         UNCHANGED <<current, session, mounts, stack, locked>>,
         \A m \in DOMAIN mounts[thread[t].s] :
           ~(Works(mounts[thread[t].s][m]) /\ Remounts(thread[t], thread[t].s, m))
  PROVE  Inv2'
<1> DEFINE x == thread[t]
           y == thread'[t]
           s == x.s
<1>1. t \in Everyone /\ t # Main
  BY Unfolded1
<1>2. /\ s = current /\ Active(x) /\ s \in SessionIds
      /\ \A m \in DOMAIN mounts[s] : Works(mounts[s][m]) =>
           m = Len(mounts[s]) /\ (session[s].process = m \/ Remounts(x, s, m))
      /\ \A r \in SessionIds : r # s => \A m \in DOMAIN mounts[r] : ~Works(mounts[r][m])
  BY <1>1, HoldingKnows
<1>3. y \in Handler /\ Moves(t, y)
  BY <1>1, OrderlyMoves
<1>4. y.pc = "ready" /\ y.op = "none"
  BY <1>1, StepFields
<1>5. /\ \A r \in SessionIds : /\ r > Len(session) => mounts[r] = <<>> /\ stack[r] = <<>>
                               /\ Stacked(mounts[r], stack[r], current, r)
      /\ LockedOK
  BY MountsAre
<1>6. Gone(y)
  BY <1>4 DEF Gone
<1>7. LockedOK'
  BY <1>5 DEF LockedOK, Alive
<1> HIDE DEF y
<1>8. /\ OpeningOK(y, session', mounts', stack', locked', current')
      /\ ClosingOK(y, session', mounts', current')
  BY <1>6, Left
<1>9. ASSUME NEW r \in SessionIds, NEW m \in DOMAIN mounts[r], Works(mounts[r][m])
      PROVE  WorksFor(y, session, mounts, current, r, m)
  BY <1>2, <1>9 DEF WorksFor
<1>10. \A r \in SessionIds :
           /\ r > Len(session') => mounts'[r] = <<>> /\ stack'[r] = <<>>
           /\ \A m \in DOMAIN mounts'[r] : Works(mounts'[r][m]) =>
                WorksFor(y, session', mounts', current', r, m)
           /\ Stacked(mounts'[r], stack'[r], current', r)
  <2>1. mounts' = mounts /\ stack' = stack /\ session' = session /\ current' = current
    OBVIOUS
  <2> QED BY <1>5, <1>9, <2>1
<1> QED BY <1>1, <1>2, <1>3, <1>4, <1>7, <1>8, <1>10, ActiveStep

\* The process for the hidden volume is started, unless its password is gone.
LEMMA RemountKeeps ==
  ASSUME Inv1, Inv2, Inv1', NEW t \in Threads, Remount(t)
  PROVE  Inv2'
<1> DEFINE x == thread[t]
           y == thread'[t]
           s == x.s
           k == Len(mounts[s]) + 1
<1>1. x.pc = "stopped" /\ t \in Everyone /\ t # Main /\ Holds(x) /\ x.op = "switch"
      /\ mounts \in [SessionIds -> Seq(MountProcess)] /\ dirs \subseteq SessionIds
  BY Unfolded1 DEF Remount, Doing, Holds
<1>2. /\ s = current /\ Active(x) /\ s \in 1 .. Len(session) /\ s \in SessionIds
      /\ ClosingOK(x, session, mounts, current) /\ s \notin locked
  BY <1>1, HoldingKnows
<1>3. /\ \A r \in SessionIds : \A m \in DOMAIN mounts[r] : ~Works(mounts[r][m])
      /\ stack[s] = <<>>
  BY <1>1, StoppedKnows
<1>4. Orderly(t)
  BY <1>1, HandleOrderly DEF Handle, StartMount, At
<1>5. y \in Handler /\ Moves(t, y)
  BY <1>1, <1>4, OrderlyMoves
<1>6. /\ \A r \in SessionIds : /\ r > Len(session) => mounts[r] = <<>> /\ stack[r] = <<>>
                               /\ Stacked(mounts[r], stack[r], current, r)
      /\ LockedOK
  BY MountsAre
<1>7. current' = current /\ session' = session /\ stack' = stack /\ locked' = locked
  BY DEF Remount, state, told
<1>8. CASE Replies(t) /\ UNCHANGED mounts
  <2>1. \A m \in DOMAIN mounts[s] : ~(Works(mounts[s][m]) /\ Remounts(x, s, m))
    BY <1>2, <1>3
  <2> QED BY <1>1, <1>4, <1>7, <1>8, <2>1, RepliesKeeps
<1>9. CASE Spawn(s, "hidden") /\ Advances(t, "remounting", k)
  <2>1. k \in Nat /\ Len(mounts[s]) \in Nat
    BY <1>1, <1>2
  <2>2. y.pc = "remounting" /\ y.op = "switch" /\ y.s = s /\ y.m = k
    BY <1>1, <1>9, <2>1, StepFields DEF Positions
  <2>3. /\ mounts' \in [SessionIds -> Seq(MountProcess)]
        /\ \A r \in SessionIds : r # s => mounts'[r] = mounts[r]
        /\ Len(mounts'[s]) = k
        /\ \A i \in 1 .. Len(mounts[s]) : mounts'[s][i] = mounts[s][i]
        /\ mounts'[s][k].st = "starting"
    BY <1>1, <1>2, <1>9, SpawnChanges DEF Volumes
  <2>4. DOMAIN mounts[s] = 1 .. Len(mounts[s]) /\ DOMAIN mounts'[s] = 1 .. k
    <3>1. mounts'[s] \in Seq(MountProcess) /\ mounts[s] \in Seq(MountProcess)
      BY <1>1, <1>2, <2>3
    <3> QED BY <2>3, <3>1
  <2> HIDE DEF k
  <2>5. ASSUME NEW m \in DOMAIN mounts'[s], m # k
        PROVE  m \in DOMAIN mounts[s] /\ mounts'[s][m] = mounts[s][m]
    BY <2>1, <2>3, <2>4, <2>5 DEF k
  <2> HIDE DEF y
  <2>6. OpeningOK(y, session', mounts', stack', locked', current')
    BY <2>2 DEF OpeningOK, Preparing, Starting
  <2>7. ClosingOK(y, session', mounts', current')
    <3>1. session[s].mode = "encrypt"
      BY <1>1, <1>2 DEF ClosingOK
    <3> QED BY <1>2, <1>7, <2>2, <2>3, <3>1 DEF ClosingOK, Stopping
  <2>8. LockedOK'
    <3>1. \A r \in locked : mounts'[r] = mounts[r]
      BY <1>2, <2>3, Unfolded1
    <3> QED BY <1>6, <1>7, <3>1 DEF LockedOK, Alive
  <2>9. ASSUME NEW r \in SessionIds
        PROVE  /\ r > Len(session') => mounts'[r] = <<>> /\ stack'[r] = <<>>
               /\ \A m \in DOMAIN mounts'[r] : Works(mounts'[r][m]) =>
                    WorksFor(y, session', mounts', current', r, m)
               /\ Stacked(mounts'[r], stack'[r], current', r)
    <3>1. CASE r = s
      <4>1. ~(r > Len(session'))
        BY <1>2, <1>7, <3>1
      <4>2. ASSUME NEW m \in DOMAIN mounts'[s], Works(mounts'[s][m])
            PROVE  WorksFor(y, session', mounts', current', s, m)
        <5>1. m = k
          BY <1>2, <1>3, <2>5, <4>2
        <5> QED BY <1>2, <1>7, <2>2, <2>3, <5>1 DEF WorksFor, Remounts
      <4>3. \A m \in DOMAIN mounts'[s] : mounts'[s][m].st # "mounted"
        <5>1. ASSUME NEW m \in DOMAIN mounts'[s], mounts'[s][m].st = "mounted"
              PROVE  FALSE
          <6>1. m # k
            BY <2>3, <5>1
          <6> QED BY <1>2, <1>3, <2>5, <5>1, <6>1 DEF Works
        <5> QED BY <5>1
      <4>4. Stacked(mounts'[s], stack'[s], current', s)
        BY <1>3, <1>7, <4>3 DEF Stacked
      <4> QED BY <3>1, <4>1, <4>2, <4>4
    <3>2. CASE r # s
      BY <1>2, <1>3, <1>6, <1>7, <2>3, <3>2
    <3> QED BY <3>1, <3>2
  <2>10. y.op \in {"none", x.op}
    BY <1>1, <2>2
  <2> QED BY <1>1, <1>2, <1>5, <2>6, <2>7, <2>8, <2>9, <2>10, ActiveStep DEF y
<1> QED BY <1>8, <1>9 DEF Remount, Advances

\* The hidden volume is mounted or its process has ended.
LEMMA AwaitRemountKeeps ==
  ASSUME Calm, Inv1, Inv2, Inv1', NEW t \in Threads, AwaitRemount(t)
  PROVE  Inv2'
<1> DEFINE x == thread[t]
           y == thread'[t]
           s == x.s
<1>1. x.pc = "remounting" /\ t \in Everyone /\ t # Main /\ Holds(x) /\ x.op = "switch"
  BY Unfolded1 DEF AwaitRemount, At, Holds, Shape
<1>2. /\ s = current /\ ClosingOK(x, session, mounts, current) /\ ~Starting(x)
  BY <1>1, HoldingKnows
<1>3. Orderly(t)
  BY <1>1, HandleOrderly DEF Handle, StartMount, At
<1>4. CASE Dead(t) /\ Replies(t) /\ UNCHANGED mounts
  <2>1. UNCHANGED <<current, session, mounts, stack, locked>>
    BY <1>4 DEF AwaitRemount, state, told
  <2>2. \A m \in DOMAIN mounts[s] : ~(Works(mounts[s][m]) /\ Remounts(x, s, m))
    BY <1>4 DEF Dead, Works, Remounts
  <2> QED BY <1>1, <1>3, <1>4, <2>1, <2>2, RepliesKeeps
<1>5. CASE Goto(t, "process") /\ UNCHANGED mounts
  <2>1. y.pc = "process" /\ y.op = "switch" /\ y.s = s /\ y.m = x.m
    BY <1>1, <1>5, StepFields DEF Positions
  <2>2. Same
    BY <1>5 DEF AwaitRemount, state, told, Same
  <2>3. /\ OpeningOK(y, session, mounts, stack, locked, current)
        /\ ClosingOK(y, session, mounts, current)
    BY <1>1, <1>2, <2>1 DEF OpeningOK, ClosingOK, Preparing, Starting, Stopping
  <2> QED BY <1>1, <1>2, <1>3, <2>1, <2>2, <2>3, ThreadSame
<1> QED BY <1>4, <1>5 DEF AwaitRemount, Calm

\* Assignments to the session at the end of a switch.
LEMMA AssignKeeps ==
  ASSUME Inv1, Inv2, Inv1', NEW t \in Threads, Assign(t)
  PROVE  Inv2'
<1> DEFINE x == thread[t]
           y == thread'[t]
           s == x.s
           old == session[s]
<1>1. /\ x.pc \in {"process", "phase", "expected", "uploaded"}
      /\ t \in Everyone /\ t # Main /\ Holds(x) /\ x.op = "switch"
      /\ session \in Seq(MountSession)
  BY Unfolded1 DEF Assign, At, Holds, Shape
<1>2. /\ s = current /\ ClosingOK(x, session, mounts, current) /\ ~Starting(x)
      /\ Active(x) /\ s \in 1 .. Len(session) /\ s \in SessionIds
      /\ \A m \in DOMAIN mounts[s] : Works(mounts[s][m]) =>
           m = Len(mounts[s]) /\ (session[s].process = m \/ Remounts(x, s, m))
      /\ \A r \in SessionIds : r # s => \A m \in DOMAIN mounts[r] : ~Works(mounts[r][m])
  BY <1>1, HoldingKnows
<1>3. Orderly(t)
  BY <1>1, HandleOrderly DEF Handle, StartMount, At
<1>4. y \in Handler /\ Moves(t, y)
  BY <1>1, <1>3, OrderlyMoves
<1>5. old \in MountSession /\ old.mode = "encrypt"
  BY <1>1, <1>2 DEF ClosingOK
<1>6. UNCHANGED <<current, mounts, stack, locked>>
  BY DEF Assign, state, system, told
<1>7. y.op \in {"none", "switch"} /\ (y.op = "switch" => y.s = s)
      /\ y.pc \in {"phase", "expected", "uploaded", "ready"}
  <2>1. Replies(t) \/ \E pc \in {"phase", "expected", "uploaded"} : Goto(t, pc)
    BY DEF Assign, Set
  <2> QED BY <1>1, <2>1, StepFields DEF Positions
<1>8. ASSUME NEW r \in MountSession, session' = [session EXCEPT ![s] = r]
      PROVE  /\ Len(session') = Len(session) /\ session'[s] = r
             /\ \A k \in 1 .. Len(session) : k # s => session'[k] = session[k]
  BY <1>1, <1>2, <1>8
<1>9. CASE x.pc # "process"
  <2>1. PICK r \in MountSession : /\ session' = [session EXCEPT ![s] = r]
                                  /\ r.mode = old.mode /\ r.process = old.process
    <3>1. /\ [old EXCEPT !.phase = "hidden"] \in MountSession
          /\ [old EXCEPT !.phase = "hidden"].mode = old.mode
          /\ [old EXCEPT !.phase = "hidden"].process = old.process
          /\ [old EXCEPT !.expected_files = "hidden"] \in MountSession
          /\ [old EXCEPT !.expected_files = "hidden"].mode = old.mode
          /\ [old EXCEPT !.expected_files = "hidden"].process = old.process
          /\ [old EXCEPT !.uploaded_files = "hidden"] \in MountSession
          /\ [old EXCEPT !.uploaded_files = "hidden"].mode = old.mode
          /\ [old EXCEPT !.uploaded_files = "hidden"].process = old.process
      BY <1>5 DEF MountSession
    <3>2. \/ session' = [session EXCEPT ![s] = [old EXCEPT !.phase = "hidden"]]
          \/ session' = [session EXCEPT ![s] = [old EXCEPT !.expected_files = "hidden"]]
          \/ session' = [session EXCEPT ![s] = [old EXCEPT !.uploaded_files = "hidden"]]
      BY <1>9 DEF Assign, Set, At
    <3> QED BY <3>1, <3>2
  <2>2. Same
    BY <1>2, <1>6, <1>8, <2>1 DEF Same
  <2>3. /\ OpeningOK(y, session, mounts, stack, locked, current)
        /\ ClosingOK(y, session, mounts, current)
    BY <1>2, <1>5, <1>7 DEF OpeningOK, ClosingOK, Preparing, Starting, Stopping
  <2> QED BY <1>1, <1>2, <1>3, <1>7, <1>9, <2>2, <2>3, ThreadSame
<1>10. CASE x.pc = "process"
  <2>1. PICK z \in MountSession : /\ session' = [session EXCEPT ![s] = z]
                                  /\ z.mode = "encrypt" /\ z.process = x.m
    <3>1. x.m \in Nat
      BY <1>1, Unfolded1, HandlerFields
    <3>2. /\ [old EXCEPT !.process = x.m] \in MountSession
          /\ [old EXCEPT !.process = x.m].mode = old.mode
          /\ [old EXCEPT !.process = x.m].process = x.m
      BY <1>5, <3>1 DEF MountSession
    <3>3. session' = [session EXCEPT ![s] = [old EXCEPT !.process = x.m]]
      BY <1>10 DEF Assign, Set, At
    <3> QED BY <1>5, <3>2, <3>3
  <2>2. /\ Len(session') = Len(session) /\ session'[s].process = x.m
        /\ session'[s].mode = "encrypt"
    BY <1>8, <2>1
  <2>3. x.m = Len(mounts[s])
    BY <1>2, <1>10 DEF ClosingOK
  <2>4. /\ \A r \in SessionIds : /\ r > Len(session) => mounts[r] = <<>> /\ stack[r] = <<>>
                                 /\ Stacked(mounts[r], stack[r], current, r)
        /\ LockedOK
    BY MountsAre
  <2>5. LockedOK'
    BY <1>6, <2>2, <2>4 DEF LockedOK, Alive
  <2>6. mounts' = mounts /\ stack' = stack /\ current' = current /\ locked' = locked
    BY <1>6
  <2>7. y.op \in {"none", x.op}
    BY <1>1, <1>7
  <2> HIDE DEF y
  <2>8. OpeningOK(y, session', mounts', stack', locked', current')
    BY <1>7 DEF OpeningOK, Preparing, Starting
  <2>9. ClosingOK(y, session', mounts', current')
    BY <1>2, <1>7, <2>2, <2>6 DEF ClosingOK, Stopping
  <2>10. ASSUME NEW r \in SessionIds
         PROVE  /\ r > Len(session') => mounts'[r] = <<>> /\ stack'[r] = <<>>
                /\ \A m \in DOMAIN mounts'[r] : Works(mounts'[r][m]) =>
                     WorksFor(y, session', mounts', current', r, m)
                /\ Stacked(mounts'[r], stack'[r], current', r)
    <3>1. ASSUME NEW m \in DOMAIN mounts[r], Works(mounts[r][m])
          PROVE  WorksFor(y, session', mounts', current', r, m)
      BY <1>2, <2>2, <2>3, <2>6, <3>1 DEF WorksFor
    <3> QED BY <2>2, <2>4, <2>6, <3>1
  <2> QED BY <1>1, <1>2, <1>4, <2>5, <2>7, <2>8, <2>9, <2>10, ActiveStep DEF y
<1> QED BY <1>9, <1>10

-----------------------------------------------------------------------------
(***************************************************************************)
(* stop_mount, for a handler or the main thread.                           *)
(***************************************************************************)
LEMMA StopOrderly ==
  ASSUME Inv1, NEW t \in Everyone, StopMount(t)
  PROVE  Orderly(t)
BY MainOrderly, HandleOrderly DEF Everyone

\* The main thread does not claim a clean shutdown before it is one.
LEMMA MainShutdown ==
  ASSUME Inv1, Inv2, NEW y \in Handler, Moves(Main, y), Past(thread[Main]), ~y.ok
  PROVE  ShutdownOK'
<1>1. thread'[Main] = y /\ \A u \in Threads : thread'[u] = thread[u]
  BY Unfolded1 DEF Moves, Everyone
<1>2. \A u \in Threads : At(u, "off")
  BY DEF Inv2, ShutdownOK
<1> QED BY <1>1, <1>2 DEF ShutdownOK, ShutdownClean, At

\* What holds when a stop begins, and while it goes on.
LEMMA StopKnows ==
  ASSUME Inv1, Inv2, NEW t \in Everyone, Stopping(thread[t])
  PROVE  LET x == thread[t]
         IN  /\ Holds(x) /\ x.op \in {"switch", "lock", "finish", "decrypt", "shutdown"}
             /\ x.pc \notin {"off", "remounting", "process"}
             /\ t = Main => Past(x) /\ ~x.ok
<1> DEFINE x == thread[t]
<1>1. Shape(x)
  BY Unfolded1
<1>2. Holds(x) /\ x.pc \notin {"off", "remounting", "process", "exited"}
  BY DEF Holds, Stopping
<1>3. Past(x)
  BY DEF Past, Stopping
<1>4. t = Main => ~x.ok
  BY <1>2 DEF Inv2, ShutdownOK
<1> QED BY <1>1, <1>2, <1>3, <1>4 DEF Shape, Stopping

\* A stop that goes on to pc without a change to what the invariant reads.
LEMMA StopGoesOn ==
  ASSUME Inv1, Inv2, NEW t \in Everyone, Stopping(thread[t]), Orderly(t), Same,
         NEW y, y = thread'[t], y.pc \in {"reap", "wait", "stopped"},
         y.op = thread[t].op, y.s = thread[t].s, y.ok = thread[t].ok,
         y.pc = "wait" => y.m = session[y.s].process,
         y.pc = "stopped" => ~\E m \in DOMAIN mounts[y.s] : Works(mounts[y.s][m])
  PROVE  Inv2'
<1> DEFINE x == thread[t]
<1>1. /\ Holds(x) /\ x.pc \notin {"off", "remounting", "process"}
      /\ t = Main => Past(x) /\ ~x.ok
  BY StopKnows
<1>2. /\ x.s = current /\ ClosingOK(x, session, mounts, current) /\ ~Starting(x)
  BY <1>1, HoldingKnows
<1>3. y \in Handler /\ Moves(t, y)
  BY OrderlyMoves
<1>4. t = Main => ShutdownOK'
  BY <1>1, <1>3, MainShutdown
<1>5. OpeningOK(y, session, mounts, stack, locked, current)
  BY DEF OpeningOK, Preparing, Starting
<1>6. ClosingOK(y, session, mounts, current)
  BY <1>2 DEF ClosingOK, Stopping
<1> QED BY <1>1, <1>2, <1>4, <1>5, <1>6, ThreadSame

\* stop_mount returns False.
LEMMA StopFailsKeeps ==
  ASSUME Inv1, Inv2, NEW t \in Everyone, Stopping(thread[t]), Orderly(t), Same, StopFails(t)
  PROVE  Inv2'
<1> DEFINE x == thread[t]
           y == thread'[t]
<1>1. /\ Holds(x) /\ x.op \in {"switch", "lock", "finish", "decrypt", "shutdown"}
      /\ x.pc \notin {"off", "remounting", "process"}
      /\ t = Main => Past(x) /\ ~x.ok
  BY StopKnows
<1>2. ~Starting(x)
  BY <1>1, HoldingKnows
<1>3. y \in Handler /\ Moves(t, y)
  BY OrderlyMoves
<1>4. t = Main <=> x.op = "shutdown"
  BY <1>1, Unfolded1 DEF Everyone, MainShape, Holds, Stopping
<1>5. \/ x.op = "switch" /\ Replies(t)
      \/ x.op = "shutdown" /\ Goto(t, "exited")
      \/ x.op \notin {"switch", "shutdown"} /\ Leaves(t, FALSE)
  BY DEF StopFails
<1>6. /\ y.pc \in {"release", "ready", "exited"} /\ y.op \in {"none", x.op}
      /\ y.op # "switch" /\ (t = Main => ~y.ok)
  BY <1>1, <1>4, <1>5, StepFields DEF Positions
<1>7. t = Main => ShutdownOK'
  BY <1>1, <1>3, <1>6, MainShutdown
<1>8. Gone(y)
  BY <1>6 DEF Gone
<1> HIDE DEF y
<1>9. /\ OpeningOK(y, session, mounts, stack, locked, current)
      /\ ClosingOK(y, session, mounts, current)
  BY <1>8, Left
<1> QED BY <1>1, <1>2, <1>6, <1>7, <1>9, ThreadSame DEF y

\* The process of the session is looked up to be waited for.
LEMMA ReapKeeps ==
  ASSUME Inv1, Inv2, NEW t \in Everyone, Reap(t)
  PROVE  Inv2'
<1> DEFINE x == thread[t]
           y == thread'[t]
           p == session[x.s].process
<1>1. x.pc = "reap" /\ Stopping(x)
  BY DEF Reap, At, Stopping
<1>2. Orderly(t)
  BY StopOrderly DEF StopMount
<1>3. p \in Nat
  <2>1. x.s \in 1 .. Len(session)
    BY <1>1, StopKnows, HoldingKnows
  <2>2. session[x.s] \in MountSession
    BY <2>1, Unfolded1
  <2> QED BY <2>2 DEF MountSession
<1>4. Advances(t, "wait", p)
  BY DEF Reap, Advances
<1>5. y.pc = "wait" /\ y.op = x.op /\ y.s = x.s /\ y.m = p /\ y.ok = x.ok
  BY <1>3, <1>4, StepFields DEF Positions
<1>6. Same
  BY DEF Reap, others, state, system, told, Same
<1> QED BY <1>1, <1>2, <1>5, <1>6, StopGoesOn

\* When the process of the session has ended, none of the session works.
LEMMA WaitProcessKeeps ==
  ASSUME Inv1, Inv2, NEW t \in Everyone, WaitProcess(t)
  PROVE  Inv2'
<1> DEFINE x == thread[t]
           y == thread'[t]
           s == x.s
<1>1. x.pc = "wait" /\ Stopping(x)
  BY DEF WaitProcess, At, Stopping
<1>2. Orderly(t)
  BY StopOrderly DEF StopMount
<1>3. Same
  BY DEF WaitProcess, state, told, Same
<1>4. /\ ClosingOK(x, session, mounts, current)
      /\ \A m \in DOMAIN mounts[s] : Works(mounts[s][m]) =>
           session[s].process = m \/ Remounts(x, s, m)
  BY <1>1, StopKnows, HoldingKnows
<1>5. CASE Ended(t) /\ Goto(t, "stopped")
  <2>1. y.pc = "stopped" /\ y.op = x.op /\ y.s = s /\ y.ok = x.ok
    BY <1>5, StepFields DEF Positions
  <2>2. x.m = session[s].process
    BY <1>1, <1>4 DEF ClosingOK
  <2>3. \A m \in DOMAIN mounts[s] : Works(mounts[s][m]) => m = x.m
    BY <1>1, <1>4, <2>2 DEF Remounts
  <2>4. ~\E m \in DOMAIN mounts[s] : Works(mounts[s][m])
    BY <1>5, <2>3 DEF Ended, Dead, Works
  <2> QED BY <1>1, <1>2, <1>3, <2>1, <2>4, StopGoesOn
<1>6. CASE StopFails(t)
  BY <1>1, <1>2, <1>3, <1>6, StopFailsKeeps
<1> QED BY <1>5, <1>6 DEF WaitProcess

\* The topmost volume is unmounted, or fusermount refuses.
LEMMA UnmountKeeps ==
  ASSUME Inv1, Inv2, Inv1', NEW t \in Everyone, Unmount(t)
  PROVE  Inv2'
<1> DEFINE x == thread[t]
           y == thread'[t]
           s == x.s
           k == Len(mounts[s])
<1>1. /\ x.pc = "unmount" /\ Stopping(x)
      /\ mounts \in [SessionIds -> Seq(MountProcess)]
      /\ stack \in [SessionIds -> Seq(Nat)] /\ locked \subseteq SessionIds
  BY Unfolded1 DEF Unmount, At, Stopping
<1>2. Orderly(t)
  BY StopOrderly DEF StopMount
<1>3. y \in Handler /\ Moves(t, y)
  BY <1>2, OrderlyMoves
<1>4. /\ s = current /\ Active(x) /\ s \in 1 .. Len(session) /\ s \in SessionIds
      /\ ClosingOK(x, session, mounts, current) /\ s \notin locked
      /\ \A m \in DOMAIN mounts[s] : Works(mounts[s][m]) =>
           m = k /\ (session[s].process = m \/ Remounts(x, s, m))
      /\ \A r \in SessionIds : r # s => \A m \in DOMAIN mounts[r] : ~Works(mounts[r][m])
  BY <1>1, StopKnows, HoldingKnows
<1>5. /\ \A r \in SessionIds : /\ r > Len(session) => mounts[r] = <<>> /\ stack[r] = <<>>
                               /\ Stacked(mounts[r], stack[r], current, r)
      /\ LockedOK
  BY MountsAre
<1>6. current' = current /\ session' = session /\ locked' = locked
  BY DEF Unmount, state, told
<1>7. CASE Goto(t, "reap") /\ UNCHANGED <<mounts, stack>>
  <2>1. y.pc = "reap" /\ y.op = x.op /\ y.s = s /\ y.ok = x.ok
    BY <1>7, StepFields DEF Positions
  <2>2. Same
    BY <1>6, <1>7 DEF Same
  <2> QED BY <1>1, <1>2, <2>1, <2>2, StopGoesOn
<1>8. CASE StopFails(t) /\ UNCHANGED <<mounts, stack>>
  <2>1. Same
    BY <1>6, <1>8 DEF Same
  <2> QED BY <1>1, <1>2, <1>8, <2>1, StopFailsKeeps
<1>9. CASE /\ IsMount(s) /\ Goto(t, "reap") /\ Status(s, Top(s), "closing")
           /\ stack' = [stack EXCEPT ![s] = Without(@, Top(s))]
  <2>1. y.pc = "reap" /\ y.op = x.op /\ y.s = s /\ y.ok = x.ok
    BY <1>9, StepFields DEF Positions
  <2>2. /\ stack[s] = <<k>> /\ mounts[s] # <<>> /\ mounts[s][k].st = "mounted"
        /\ \A m \in DOMAIN mounts[s] : mounts[s][m].st = "mounted" => stack[s] = <<m>>
    BY <1>4, <1>5, <1>9 DEF IsMount, Stacked
  <2>3. k \in Nat /\ k \in 1 .. Len(mounts[s]) /\ DOMAIN mounts[s] = 1 .. k
    BY <1>1, <1>4, <2>2
  <2>4. Top(s) = k
    BY <2>2, <2>3 DEF Top, IsMount
  <2>5. OneProcess(s, k) /\ mounts'[s][k].st = "closing"
    BY <1>1, <1>4, <1>9, <2>3, <2>4, StatusChanges
  <2>6. /\ mounts' \in [SessionIds -> Seq(MountProcess)]
        /\ \A r \in SessionIds : r # s => mounts'[r] = mounts[r]
        /\ Len(mounts'[s]) = k
        /\ \A m \in 1 .. k : m # k => mounts'[s][m] = mounts[s][m]
    BY <2>5 DEF OneProcess
  <2>7. DOMAIN mounts'[s] = 1 .. k
    <3>1. mounts'[s] \in Seq(MountProcess)
      BY <1>4, <2>6
    <3> QED BY <2>6, <3>1
  <2>8. stack'[s] = <<>> /\ \A r \in SessionIds : r # s => stack'[r] = stack[r]
    <3>1. stack[s] \in Seq(Nat)
      BY <1>1, <1>4
    <3>2. Without(stack[s], k) = <<>>
      BY <2>2, <3>1, WithoutStack
    <3> QED BY <1>1, <1>4, <1>9, <2>4, <3>2
  <2>9. session[s].process = k
    <3>1. Works(mounts[s][k])
      BY <2>2 DEF Works
    <3> QED BY <1>1, <1>4, <2>3, <3>1 DEF Remounts
  <2>10. LockedOK'
    <3>1. \A r \in locked : r # s /\ r \in SessionIds
      BY <1>1, <1>4
    <3> QED BY <1>5, <1>6, <2>6, <2>8, <3>1 DEF LockedOK, Alive
  <2>11. t = Main => ShutdownOK'
    BY <1>1, <1>3, <2>1, StopKnows, MainShutdown
  <2>12. y.op \in {"none", x.op}
    BY <2>1
  <2>13. OpeningOK(y, session, mounts', stack', locked, current)
    BY <2>1 DEF OpeningOK, Preparing, Starting
  <2>14. ClosingOK(y, session, mounts', current)
    BY <1>1, <1>4, <2>1 DEF ClosingOK, Stopping
  <2> HIDE DEF y
  <2>15. /\ OpeningOK(y, session', mounts', stack', locked', current')
         /\ ClosingOK(y, session', mounts', current')
    BY <1>6, <2>13, <2>14
  <2>16. ASSUME NEW r \in SessionIds
         PROVE  /\ r > Len(session') => mounts'[r] = <<>> /\ stack'[r] = <<>>
                /\ \A m \in DOMAIN mounts'[r] : Works(mounts'[r][m]) =>
                     WorksFor(y, session', mounts', current', r, m)
                /\ Stacked(mounts'[r], stack'[r], current', r)
    <3>1. CASE r = s
      <4>1. ~(r > Len(session'))
        BY <1>4, <1>6, <3>1, Unfolded1
      <4>2. ASSUME NEW m \in DOMAIN mounts'[s], Works(mounts'[s][m])
            PROVE  WorksFor(y, session', mounts', current', s, m)
        <5>1. m = k
          BY <1>4, <2>3, <2>6, <2>7, <4>2
        <5> QED BY <1>4, <1>6, <2>6, <2>9, <5>1 DEF WorksFor
      <4>3. \A m \in DOMAIN mounts'[s] : mounts'[s][m].st # "mounted"
        <5>1. ASSUME NEW m \in DOMAIN mounts'[s], mounts'[s][m].st = "mounted"
              PROVE  FALSE
          <6>1. m # k
            BY <2>5, <5>1
          <6>2. stack[s] = <<m>>
            BY <2>2, <2>3, <2>6, <2>7, <5>1, <6>1
          <6> QED BY <2>2, <6>1, <6>2
        <5> QED BY <5>1
      <4>4. Stacked(mounts'[s], stack'[s], current', s)
        BY <2>8, <4>3 DEF Stacked
      <4> QED BY <3>1, <4>1, <4>2, <4>4
    <3>2. CASE r # s
      BY <1>4, <1>5, <1>6, <2>6, <2>8, <3>2
    <3> QED BY <3>1, <3>2
  <2> QED BY <1>3, <1>4, <2>10, <2>11, <2>12, <2>15, <2>16, ActiveStep
<1> QED BY <1>7, <1>8, <1>9 DEF Unmount

-----------------------------------------------------------------------------
(***************************************************************************)
(* The main thread on Ctrl+C.                                              *)
(***************************************************************************)
\* It exits, with no handler and no process at work.
LEMMA CleanExit ==
  ASSUME Inv1, Inv2, thread[Main].pc \in {"closing", "stopped"}, Orderly(Main), Same,
         Becomes(Main, [thread[Main] EXCEPT !.pc = "exited", !.ok = TRUE]),
         \A t \in Threads : At(t, "off"),
         \A s \in SessionIds : \A m \in DOMAIN mounts[s] : ~Works(mounts[s][m])
  PROVE  Inv2'
<1> DEFINE x == thread[Main]
           y == thread'[Main]
<1>1. /\ Main \in Everyone /\ Main \notin Threads /\ x \in Handler /\ MainShape(x)
      /\ thread \in [Everyone -> Handler]
  BY Unfolded1
<1>2. y \in Handler /\ Moves(Main, y)
  BY <1>1, OrderlyMoves
<1>3. y = [x EXCEPT !.pc = "exited", !.ok = TRUE]
  BY <1>1 DEF Becomes
<1>4. y.pc = "exited" /\ y.op = x.op
  BY <1>1, <1>3 DEF Handler
<1>5. ShutdownOK'
  <2>1. \A t \in Threads : thread'[t] = thread[t]
    BY <1>1, <1>2 DEF Moves, Everyone
  <2>2. mounts' = mounts
    BY DEF Same
  <2> QED BY <1>4, <2>1, <2>2 DEF ShutdownOK, ShutdownClean, Alive, At
<1>6. Gone(y)
  BY <1>1, <1>4 DEF Gone, MainShape
<1>7. ~Starting(x) /\ x.pc \notin {"remounting", "process"}
  BY DEF Starting
<1>8. y.op \in {"none", x.op}
  BY <1>4
<1> HIDE DEF y
<1>9. /\ OpeningOK(y, session, mounts, stack, locked, current)
      /\ ClosingOK(y, session, mounts, current)
  BY <1>6, Left
<1> QED BY <1>1, <1>5, <1>7, <1>8, <1>9, ThreadSame DEF y

\* Interrupt, join and exit.
LEMMA MainKeeps ==
  ASSUME Inv1, Inv2, Interrupt \/ CloseServer \/ Exit
  PROVE  Inv2'
<1> DEFINE x == thread[Main]
           y == thread'[Main]
<1>1. /\ Main \in Everyone /\ Main \notin Threads /\ x \in Handler /\ MainShape(x)
      /\ thread \in [Everyone -> Handler] /\ NoSession \notin SessionIds
  BY Unfolded1, DashboardAssumption DEF SessionIds
<1>2. Orderly(Main)
  BY MainOrderly
<1>3. y \in Handler /\ Moves(Main, y)
  BY <1>1, <1>2, OrderlyMoves
<1>4. Same
  BY DEF Interrupt, CloseServer, Exit, others, state, system, told, Same
<1>5. ProcessesOK /\ ShutdownOK
  BY DEF Inv2
<1>6. CASE Interrupt
  <2>1. x.pc = "serving" /\ Goto(Main, "closing")
    BY <1>6 DEF Interrupt, At
  <2>2. y.pc = "closing" /\ y.op = x.op /\ y.ok = x.ok
    BY <1>1, <2>1, StepFields DEF Positions
  <2>3. ~y.ok
    BY <1>5, <2>1, <2>2 DEF ShutdownOK
  <2>4. ShutdownOK'
    BY <2>2, <2>3 DEF ShutdownOK, ShutdownClean, Past, At
  <2>5. /\ OpeningOK(y, session, mounts, stack, locked, current)
        /\ ClosingOK(y, session, mounts, current)
    BY <1>1, <2>2 DEF OpeningOK, ClosingOK, Preparing, Starting, Stopping, MainShape
  <2>6. ~Starting(x) /\ x.pc \notin {"remounting", "process"}
    BY <2>1 DEF Starting
  <2> QED BY <1>1, <1>2, <1>4, <2>2, <2>4, <2>5, <2>6, ThreadSame
<1>7. CASE CloseServer
  <2>1. x.pc = "closing" /\ \A t \in Threads : At(t, "off")
    BY <1>7 DEF CloseServer, At, Joined
  <2>2. CASE current = NoSession
    <3>1. Becomes(Main, [x EXCEPT !.pc = "exited", !.ok = TRUE])
      BY <1>7, <2>2 DEF CloseServer
    <3>2. ASSUME NEW s \in SessionIds, NEW m \in DOMAIN mounts[s]
          PROVE  ~Works(mounts[s][m])
      BY <1>1, <1>5, <2>1, <2>2 DEF ProcessesOK, Worker, Starting, At
    <3> QED BY <1>2, <1>4, <2>1, <3>1, <3>2, CleanExit
  <2>3. CASE current # NoSession
    <3>1. Becomes(Main, [Handling("shutdown", "unmount") EXCEPT !.s = current])
      BY <1>7, <2>3 DEF CloseServer
    <3>2. y.op = "shutdown" /\ y.pc = "unmount" /\ y.s = current /\ ~y.ok
      BY <1>1, <3>1 DEF Becomes, Handling, Idle
    <3>3. ShutdownOK'
      <4>1. \A t \in Threads : thread'[t] = thread[t]
        BY <1>1, <1>3 DEF Moves, Everyone
      <4> QED BY <2>1, <3>2, <4>1 DEF ShutdownOK, ShutdownClean, At
    <3>4. Shape(y) /\ Arguments(y, Len(session))
      BY <1>1, <1>2, OrderlyMoves
    <3>5. ~Starting(x) /\ x.pc \notin {"remounting", "process"}
      BY <2>1 DEF Starting
    <3>6. /\ OpeningOK(y, session, mounts, stack, locked, current)
          /\ ClosingOK(y, session, mounts, current)
      BY <3>2 DEF OpeningOK, ClosingOK, Preparing, Starting, Stopping
    <3> HIDE DEF y
    <3>7. /\ OpeningOK(y, session', mounts', stack', locked', current')
          /\ ClosingOK(y, session', mounts', current')
      BY <1>3, <1>4, <3>4, <3>6, SameHandler
    <3> QED BY <1>1, <1>3, <1>4, <3>3, <3>5, <3>7, SameKeeps
  <2> QED BY <2>2, <2>3
<1>8. CASE Exit
  <2>1. x.pc = "stopped" /\ Becomes(Main, [x EXCEPT !.pc = "exited", !.ok = TRUE])
    BY <1>8 DEF Exit, Doing
  <2>2. \A t \in Threads : At(t, "off")
    BY <1>5, <2>1 DEF ShutdownOK, Past
  <2>3. \A s \in SessionIds : \A m \in DOMAIN mounts[s] : ~Works(mounts[s][m])
    BY <1>1, <2>1, StoppedKnows
  <2> QED BY <1>2, <1>4, <2>1, <2>2, <2>3, CleanExit
<1> QED BY <1>6, <1>7, <1>8

-----------------------------------------------------------------------------
(***************************************************************************)
(* The denyfs processes.                                                   *)
(***************************************************************************)
\* A step of process m of session s that leaves its stack in order.
LEMMA ProcessMoves ==
  ASSUME Inv1, Inv2, NEW s \in SessionIds, NEW m \in 1 .. Len(mounts[s]), OneProcess(s, m),
         UNCHANGED <<current, session, thread, locked>>,
         \A r \in SessionIds : r # s => stack'[r] = stack[r],
         Works(mounts'[s][m]) => Works(mounts[s][m]),
         Stacked(mounts'[s], stack'[s], current, s),
         s \in locked => stack'[s] = <<>>,
         Len(mounts[s]) = 1 /\ stack'[s] # <<>> => mounts'[s][1].st = "mounted"
  PROVE  Inv2'
<1>1. Alone /\ HandlersOK /\ ProcessesOK /\ LockedOK /\ ShutdownOK
  BY DEF Inv2
<1>2. /\ mounts \in [SessionIds -> Seq(MountProcess)] /\ locked \subseteq SessionIds
      /\ mounts' \in [SessionIds -> Seq(MountProcess)]
  BY Unfolded1 DEF OneProcess
<1>3. ASSUME NEW r \in SessionIds
      PROVE  /\ Len(mounts'[r]) = Len(mounts[r]) /\ DOMAIN mounts'[r] = DOMAIN mounts[r]
             /\ \A k \in DOMAIN mounts[r] : Works(mounts'[r][k]) => Works(mounts[r][k])
  <2>1. mounts[r] \in Seq(MountProcess) /\ mounts'[r] \in Seq(MountProcess)
    BY <1>2
  <2>2. Len(mounts'[r]) = Len(mounts[r])
    BY DEF OneProcess
  <2>3. DOMAIN mounts[r] = 1 .. Len(mounts[r]) /\ DOMAIN mounts'[r] = 1 .. Len(mounts[r])
    BY <2>1, <2>2
  <2>4. \A k \in 1 .. Len(mounts[r]) : r # s \/ k # m => mounts'[r][k] = mounts[r][k]
    BY DEF OneProcess
  <2> QED BY <2>2, <2>3, <2>4
<1>4. Alone'
  BY <1>1 DEF Alone, Closes
<1>5. HandlersOK'
  <2>1. ASSUME NEW t \in Everyone
        PROVE  /\ OpeningOK(thread[t], session, mounts', stack', locked, current)
               /\ ClosingOK(thread[t], session, mounts', current)
    <3> DEFINE h == thread[t]
    <3>1. /\ OpeningOK(h, session, mounts, stack, locked, current)
          /\ ClosingOK(h, session, mounts, current) /\ Shape(h)
      BY <1>1, Unfolded1 DEF HandlersOK, Everyone
    <3>2. Active(h) /\ ~Preparing(h) => h.s \in SessionIds
      BY ActiveSession
    <3> HIDE DEF h
    <3>3. Starting(h) \/ Stopping(h) \/ h.op = "switch" => Active(h) /\ ~Preparing(h)
      BY <3>1 DEF Starting, Stopping, Active, Preparing, Shape, Opens
    <3>4. OpeningOK(h, session, mounts', stack', locked, current)
      <4>1. ASSUME Starting(h), stack'[h.s] # <<>>
            PROVE  mounts'[h.s][1].st = "mounted"
        <5>1. CASE h.s = s
          BY <3>1, <4>1, <5>1 DEF OpeningOK
        <5>2. CASE h.s # s
          <6>1. h.s \in SessionIds
            BY <3>2, <3>3, <4>1
          <6>2. mounts'[h.s] = mounts[h.s] /\ stack'[h.s] = stack[h.s]
            BY <5>2, <6>1 DEF OneProcess
          <6> QED BY <3>1, <4>1, <6>2 DEF OpeningOK
        <5> QED BY <5>1, <5>2
      <4>2. Starting(h) => Len(mounts'[h.s]) = 1
        BY <1>3, <3>1, <3>2, <3>3 DEF OpeningOK
      <4> QED BY <3>1, <4>1, <4>2 DEF OpeningOK
    <3>5. ClosingOK(h, session, mounts', current)
      <4>1. h.pc = "stopped" => Stopping(h)
        BY DEF Stopping
      <4>2. h.pc \in {"remounting", "process"} => h.op = "switch"
        BY <3>1 DEF Shape
      <4>3. h.pc = "stopped" => ~\E k \in DOMAIN mounts'[h.s] : Works(mounts'[h.s][k])
        BY <1>3, <3>1, <3>2, <3>3, <4>1 DEF ClosingOK
      <4>4. h.pc \in {"remounting", "process"} => h.m = Len(mounts'[h.s])
        BY <1>3, <3>1, <3>2, <3>3, <4>2 DEF ClosingOK
      <4> QED BY <3>1, <4>3, <4>4 DEF ClosingOK
    <3> QED BY <3>4, <3>5 DEF h
  <2> QED BY <2>1 DEF HandlersOK, Everyone
<1>6. ProcessesOK'
  <2>1. ASSUME NEW r \in SessionIds
        PROVE  /\ r > Len(session) => mounts'[r] = <<>> /\ stack'[r] = <<>>
               /\ Stacked(mounts'[r], stack'[r], current, r)
    <3>1. CASE r = s
      <4>1. ~(s > Len(session))
        <5>1. mounts[s] # <<>>
          OBVIOUS
        <5> QED BY <1>1, <5>1 DEF ProcessesOK
      <4> QED BY <3>1, <4>1
    <3>2. CASE r # s
      BY <1>1, <3>2 DEF ProcessesOK, OneProcess
    <3> QED BY <3>1, <3>2
  <2>2. ASSUME NEW r \in SessionIds, NEW k \in DOMAIN mounts'[r], Works(mounts'[r][k])
        PROVE  Worker(r, k)'
    <3>1. Worker(r, k)
      BY <1>1, <1>3, <2>2 DEF ProcessesOK
    <3> QED BY <1>3, <3>1 DEF Worker, Remounts, Starting
  <2> QED BY <2>1, <2>2 DEF ProcessesOK
<1>7. \A r \in SessionIds : ~Alive(r) => ~Alive(r)'
  BY <1>3 DEF Alive
<1>8. LockedOK'
  BY <1>1, <1>2, <1>7 DEF LockedOK
<1>9. ShutdownOK'
  BY <1>1, <1>7 DEF ShutdownOK, ShutdownClean, At, Past
<1> QED BY <1>4, <1>5, <1>6, <1>8, <1>9 DEF Inv2

\* A process mounts its volume, fails, is terminated or ends.
LEMMA ProcessKeeps ==
  ASSUME Inv1, Inv2, NEW s \in SessionIds, Process(s)
  PROVE  Inv2'
<1> DEFINE n == Len(mounts[s])
<1>1. PICK m \in DOMAIN mounts[s] :
        MountAppears(s, m) \/ MountFails(s, m) \/ MountTerminated(s, m) \/ MountEnds(s, m)
  BY DEF Process
<1>2. /\ mounts \in [SessionIds -> Seq(MountProcess)]
      /\ stack \in [SessionIds -> Seq(Nat)] /\ stack[s] \in Seq(Nat)
      /\ mounts[s] \in Seq(MountProcess)
  BY Unfolded1
<1>3. m \in 1 .. n /\ n \in Nat /\ mounts[s] # <<>>
  BY <1>2
<1>4. UNCHANGED <<current, session, thread, locked>>
  BY <1>1 DEF MountAppears, MountFails, MountTerminated, MountEnds, state, told
<1>5. ProcessesOK /\ LockedOK /\ Stacked(mounts[s], stack[s], current, s)
  BY DEF Inv2, ProcessesOK
<1>6. \A st \in {"mounted", "closing", "dead"} : Status(s, m, st) =>
        OneProcess(s, m) /\ mounts'[s][m].st = st
        /\ mounts'[s][m].terminated = mounts[s][m].terminated
  BY <1>2, <1>3, StatusChanges
<1>7. ASSUME OneProcess(s, m)
      PROVE  /\ Len(mounts'[s]) = n /\ DOMAIN mounts'[s] = 1 .. n /\ DOMAIN mounts[s] = 1 .. n
             /\ \A k \in 1 .. n : k # m => mounts'[s][k] = mounts[s][k]
             /\ mounts'[s] # <<>>
  <2>1. mounts'[s] \in Seq(MountProcess) /\ Len(mounts'[s]) = n
    BY <1>7 DEF OneProcess
  <2> QED BY <1>2, <1>3, <1>7, <2>1 DEF OneProcess
<1>8. CASE MountAppears(s, m)
  <2>1. /\ mounts[s][m].st = "starting" /\ ~mounts[s][m].terminated
        /\ OneProcess(s, m) /\ mounts'[s][m].st = "mounted"
        /\ stack' = [stack EXCEPT ![s] = Append(stack[s], m)]
    BY <1>6, <1>8 DEF MountAppears
  <2>2. Works(mounts[s][m])
    BY <2>1 DEF Works
  <2>3. m = n
    BY <1>5, <2>2 DEF ProcessesOK, Worker
  <2>4. stack[s] = <<>>
    BY <1>5, <2>1, <2>3 DEF Stacked
  <2>5. stack'[s] = <<m>> /\ \A r \in SessionIds : r # s => stack'[r] = stack[r]
    <3>1. Append(stack[s], m) = <<m>>
      BY <2>4
    <3> QED BY <1>2, <2>1, <3>1
  <2>6. Stacked(mounts'[s], stack'[s], current, s)
    <3>1. \A k \in DOMAIN mounts'[s] : mounts'[s][k].st = "mounted" => k = m
      BY <1>5, <1>7, <2>1, <2>4 DEF Stacked
    <3> QED BY <1>7, <2>1, <2>3, <2>5, <3>1 DEF Stacked
  <2>7. s \notin locked
    BY <1>5, <2>2 DEF LockedOK, Alive
  <2>8. n = 1 => mounts'[s][1].st = "mounted"
    BY <2>1, <2>3
  <2> QED BY <1>3, <1>4, <2>1, <2>2, <2>5, <2>6, <2>7, <2>8, ProcessMoves
<1>9. CASE MountFails(s, m) \/ MountEnds(s, m)
  <2>1. /\ mounts[s][m].st \in {"starting", "closing"}
        /\ OneProcess(s, m) /\ mounts'[s][m].st = "dead" /\ stack' = stack
    BY <1>6, <1>9 DEF MountFails, MountEnds
  <2>2. ~Works(mounts'[s][m])
    BY <2>1 DEF Works
  <2>3. stack[s] # <<>> => n # m
    BY <1>5, <2>1 DEF Stacked
  <2>4. stack'[s] # <<>> => mounts'[s][n] = mounts[s][n]
    BY <1>3, <1>7, <2>1, <2>3
  <2>5. \A k \in DOMAIN mounts'[s] : mounts'[s][k].st = "mounted" => stack'[s] = <<k>>
    BY <1>5, <1>7, <2>1 DEF Stacked
  <2>6. Stacked(mounts'[s], stack'[s], current, s)
    BY <1>5, <1>7, <2>1, <2>4, <2>5 DEF Stacked
  <2>7. s \in locked => stack'[s] = <<>>
    BY <1>5, <2>1 DEF LockedOK
  <2>8. n = 1 => stack'[s] = <<>>
    BY <1>3, <2>1, <2>3
  <2> QED BY <1>3, <1>4, <2>1, <2>2, <2>6, <2>7, <2>8, ProcessMoves
<1>10. CASE MountTerminated(s, m)
  <2>1. /\ mounts[s][m].st = "mounted"
        /\ OneProcess(s, m) /\ mounts'[s][m].st = "closing"
        /\ stack' = [stack EXCEPT ![s] = Without(stack[s], m)]
    BY <1>6, <1>10 DEF MountTerminated
  <2>2. stack[s] = <<m>>
    BY <1>5, <2>1 DEF Stacked
  <2>3. stack'[s] = <<>> /\ \A r \in SessionIds : r # s => stack'[r] = stack[r]
    <3>1. Without(stack[s], m) = <<>>
      BY <1>2, <2>2, WithoutStack
    <3> QED BY <1>2, <2>1, <3>1
  <2>4. \A k \in DOMAIN mounts'[s] : mounts'[s][k].st # "mounted"
    <3>1. ASSUME NEW k \in 1 .. n, k # m, mounts[s][k].st = "mounted"
          PROVE  FALSE
      <4>1. stack[s] = <<k>>
        BY <1>5, <1>7, <2>1, <3>1 DEF Stacked
      <4> QED BY <2>2, <3>1, <4>1
    <3> QED BY <1>7, <2>1, <3>1
  <2>5. Stacked(mounts'[s], stack'[s], current, s)
    BY <2>3, <2>4 DEF Stacked
  <2>6. Works(mounts[s][m])
    BY <2>1 DEF Works
  <2> QED BY <1>3, <1>4, <2>1, <2>3, <2>5, <2>6, ProcessMoves
<1> QED BY <1>1, <1>8, <1>9, <1>10

-----------------------------------------------------------------------------
(***************************************************************************)
(* The second half of the invariant holds, and what follows from it.       *)
(***************************************************************************)
LEMMA InitInv2 ==
  ASSUME Init
  PROVE  Inv2
<1>1. Inv1
  BY InitInv1
<1>2. /\ \A t \in Threads : thread[t] = Idle("off")
      /\ thread[Main] = Idle("serving")
  BY DashboardAssumption DEF Init
<1>3. /\ \A t \in Threads : thread[t].op = "none" /\ thread[t].pc = "off"
      /\ thread[Main].op = "none" /\ thread[Main].pc = "serving" /\ ~thread[Main].ok
  <2>1. \A pc : Idle(pc).op = "none" /\ Idle(pc).pc = pc /\ ~Idle(pc).ok
    BY DEF Idle
  <2> QED BY <1>2, <2>1
<1>4. Alone
  BY <1>3 DEF Alone
<1>5. HandlersOK
  <2>1. \A t \in Everyone : Shape(thread[t]) /\ ~Active(thread[t])
    BY <1>1, <1>3, Unfolded1 DEF Active, Preparing, Starting, Stopping, Everyone
  <2> QED BY <2>1, Inactive DEF HandlersOK, Everyone
<1>6. /\ \A s \in SessionIds : mounts[s] = <<>> /\ stack[s] = <<>>
      /\ locked = {}
  BY DEF Init
<1>7. ProcessesOK
  BY <1>6 DEF ProcessesOK, Stacked
<1>8. LockedOK
  BY <1>6 DEF LockedOK
<1>9. ShutdownOK
  BY <1>3 DEF ShutdownOK, ShutdownClean, Past, At
<1> QED BY <1>4, <1>5, <1>7, <1>8, <1>9 DEF Inv2

\* Every step keeps the second half of the invariant.
LEMMA NextInv2 ==
  ASSUME Calm, Inv1, Inv2, [Next]_vars
  PROVE  Inv2'
<1>1. Inv1'
  BY NextInv1
<1>2. ASSUME NEW t \in Threads, Browser(t)
      PROVE  Inv2'
  BY <1>2, BrowserKeeps
<1>3. ASSUME NEW t \in Everyone, StopMount(t)
      PROVE  Inv2'
  BY <1>1, <1>3, UnmountKeeps, ReapKeeps, WaitProcessKeeps DEF StopMount
<1>4. ASSUME NEW t \in Threads, Handle(t)
      PROVE  Inv2'
  <2>1. CASE Release(t) \/ OpenDestination(t) \/ Discard(t) \/ Book(t) \/ Count(t)
             \/ OpenSource(t) \/ Link(t)
    BY <2>1, QuietHandleKeeps
  <2>2. CASE Create(t) \/ Fill(t) \/ CreateHidden(t) \/ Unlock(t)
    BY <2>2, PrepareKeeps
  <2>3. CASE ReserveClose(t)
    BY <2>3, ReserveCloseKeeps
  <2>4. CASE StartMount(t)
    BY <1>1, <2>4, StartMountKeeps
  <2>5. CASE AwaitMount(t) \/ MountTimedOut(t) \/ Publish(t)
    BY <1>1, <2>5, AwaitMountKeeps, MountTimedOutKeeps, PublishKeeps
  <2>6. CASE ListFiles(t) \/ ListFailed(t) \/ Locked(t)
    BY <1>1, <2>6, ListFilesKeeps, ClosedKeeps
  <2>7. CASE Remount(t) \/ AwaitRemount(t) \/ Assign(t)
    BY <1>1, <2>7, RemountKeeps, AwaitRemountKeeps, AssignKeeps
  <2> QED BY <1>4, <2>1, <2>2, <2>3, <2>4, <2>5, <2>6, <2>7 DEF Handle
<1>5. ASSUME NEW s \in SessionIds, Process(s)
      PROVE  Inv2'
  BY <1>5, ProcessKeeps
<1>6. CASE UNCHANGED vars
  BY <1>6 DEF vars, Inv2, Alone, Closes, HandlersOK, ProcessesOK, Worker, Starting,
     Remounts, LockedOK, Alive, ShutdownOK, ShutdownClean, At
<1>7. Threads \subseteq Everyone /\ Main \in Everyone
  BY DEF Everyone
<1> QED BY <1>2, <1>3, <1>4, <1>5, <1>6, <1>7, MainKeeps DEF Next

\* ... so that both halves always hold.
LEMMA SpecInv2 ==
  ASSUME Calm
  PROVE  Spec => [](Inv1 /\ Inv2)
<1>1. Init => Inv1 /\ Inv2
  BY InitInv1, InitInv2
<1>2. Inv1 /\ Inv2 /\ [Next]_vars => (Inv1 /\ Inv2)'
  BY NextInv1, NextInv2
<1> QED BY <1>1, <1>2, PTL DEF Spec

\* A process works for the open session, or for the one about to be opened.
LEMMA OneProcessHolds ==
  ASSUME Inv1, Inv2
  PROVE  OneProcessPerVault
<1>1. ASSUME NEW r \in SessionIds, NEW s \in SessionIds,
             NEW l \in DOMAIN mounts[r], NEW m \in DOMAIN mounts[s],
             Works(mounts[r][l]), Works(mounts[s][m])
      PROVE  r = s /\ l = m
  <2>1. Worker(r, l) /\ Worker(s, m)
    BY <1>1 DEF Inv2, ProcessesOK
  <2>2. \A t \in Threads : Starting(thread[t]) => Active(thread[t]) /\ current = NoSession
    BY DEF Inv2, HandlersOK, OpeningOK, Active
  <2>3. \A t, u \in Threads : Starting(thread[t]) /\ Starting(thread[u]) => t = u
    BY <2>2, OneActive DEF Everyone
  <2>4. NoSession \notin SessionIds
    BY DashboardAssumption DEF SessionIds
  <2>5. r = s
    BY <2>1, <2>2, <2>3, <2>4 DEF Worker
  <2> QED BY <2>1, <2>5 DEF Worker
<1>2. DOMAIN session \subseteq SessionIds
  BY Unfolded1 DEF SessionIds
<1> QED BY <1>1, <1>2 DEF OneProcessPerVault

\* A vault is never open in two denyfs processes at a time, which would write
\* their bitmaps and inode tables over each other, as long as no page switches
\* the phase twice at a time and the hidden volume is mounted in time.
THEOREM VaultOpenOnce ==
  ASSUME Calm
  PROVE  Spec => []OneProcessPerVault
<1>1. Inv1 /\ Inv2 => OneProcessPerVault
  BY OneProcessHolds
<1> QED BY <1>1, SpecInv2, PTL

\* When the user is told that the vault is locked, by _lock_session or
\* _finish_encrypt, stop_mount has unmounted it and its process has ended.
THEOREM LockedMeansUnmounted ==
  ASSUME Calm
  PROVE  Spec => []LockedIsUnmounted
<1>1. Inv2 => LockedIsUnmounted
  BY DEF Inv2, LockedOK, LockedIsUnmounted
<1> QED BY <1>1, SpecInv2, PTL

\* When the server reports a clean shutdown, no process has a vault open: the
\* handlers have been joined and the session is unmounted.
THEOREM ShutdownIsClean ==
  ASSUME Calm
  PROVE  Spec => []ShutdownClean
<1>1. Inv2 => ShutdownClean
  BY DEF Inv2, ShutdownOK
<1> QED BY <1>1, SpecInv2, PTL

=============================================================================
