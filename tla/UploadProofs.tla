---------------------------- MODULE UploadProofs ----------------------------
(***************************************************************************)
(* Where uploaded files go, for any number of connections, sessions,       *)
(* vaults and files: what pages wait for in turn keeps every file in the   *)
(* mounted volume, and a finished vault complete, also when the hidden     *)
(* volume is not mounted in time.                                          *)
(***************************************************************************)
EXTENDS DashboardProofs

\* Nothing is sent while the phase is switched, nothing is closed during an
\* upload, and a process ends in time once it is unmounted.
InTurns == /\ SwitchAlone /\ {"switch", "upload"} \in Apart
           /\ {"upload", "lock"} \in Apart /\ {"upload", "finish"} \in Apart
           /\ ~SlowFlush

-----------------------------------------------------------------------------
(***************************************************************************)
(* The invariant.  Only the last process of a session is ever mounted or   *)
(* on the way to it, so that a session is described by its record r, the   *)
(* last of its n processes l, and what is mounted, q.                      *)
(***************************************************************************)
Last(s) == mounts[s][Len(mounts[s])]
CanMount(l) == l.st = "starting" /\ ~l.terminated
MountedOn(l, n, q) == l.st = "mounted" /\ ~l.terminated /\ q = <<n>>

\* Requests keep to their turns.
TurnsKept == \A t, u \in Threads :
  /\ thread[t].op = "switch" /\ thread[u].op \in {"switch", "lock", "finish", "upload"}
       => t = u
  /\ thread[t].op = "upload" => ~Closes(thread[u])

JoinedFirst == Past(thread[Main]) => \A t \in Threads : At(t, "off")

\* The lists of a session follow its phase.
ListsOK(r) ==
  /\ r.deniable <=> r.phase # "single"
  /\ r.expected_files = "hidden" => r.phase = "hidden"
  /\ r.uploaded_files = "hidden" => r.expected_files = "hidden"
  /\ r.phase = "hidden" => CoverFiles \subseteq r.uploaded_outer

SessionOK(r, p, q) ==
  /\ p # <<>> /\ r.process \in 1 .. Len(p)
  /\ ListsOK(r)
  /\ r.mode = "encrypt" => \A m \in 1 .. Len(p) :
       p[m].volume = IF m = 1 THEN "outer" ELSE "hidden"
  /\ \A m \in 1 .. Len(p) - 1 : p[m].st # "mounted" /\ ~CanMount(p[m])
  /\ q \in {<<>>, <<Len(p)>>}
  /\ p[Len(p)].st = "mounted" => q = <<Len(p)>>
  /\ CanMount(p[Len(p)]) => q = <<>>

SessionsOK == \A s \in SessionIds :
  IF s \in 1 .. Len(session) THEN SessionOK(session[s], mounts[s], stack[s])
                             ELSE mounts[s] = <<>> /\ stack[s] = <<>>

\* The lists are those of the phase, and so is the process.
Settled(r) ==
  /\ r.phase = "hidden" <=> r.uploaded_files = "hidden"
  /\ r.phase = "hidden" <=> r.process # 1

\* The user has nothing more to upload but has not switched the phase.
Spent(r) == r.phase = "outer" /\ CoverFiles \subseteq r.own

\* An open session that no request works on.
Quiet(r, l, n, q) ==
  /\ Settled(r) /\ ~CanMount(l)
  /\ (r.process = n /\ MountedOn(l, n, q)) \/ Spent(r)

\* A session that is not open yet.
StartOK(h, r, l, n, q) ==
  /\ r.mode = h.op /\ r.phase # "hidden" /\ r.process = 1 /\ n = 1 /\ h.m = 1
  /\ h.pc = "await" => ~l.terminated /\ (l.st = "mounted" \/ q = <<>>)
  /\ h.pc = "publish" => MountedOn(l, n, q)

\* The phase is switched.
SwitchOK(h, r, l, n, q) ==
  /\ r.mode = "encrypt" /\ r.deniable
  /\ CoverFiles \subseteq r.own /\ CoverFiles \subseteq r.uploaded_outer
  /\ r.uploaded_files = "own"
  /\ h.pc # "uploaded" => r.expected_files = "cover"
  /\ h.pc \notin {"expected", "uploaded"} => r.phase = "outer"
  /\ h.pc \in {"expected", "uploaded"} => r.phase = "hidden"
  /\ h.pc = "uploaded" => r.expected_files = "hidden"
  /\ Stopping(h) => ~CanMount(l)
  /\ h.pc \in {"reap", "wait", "stopped"} => q = <<>>
  /\ h.pc \in {"remounting", "process"} => h.m = n /\ n > 1 /\ ~l.terminated
  /\ h.pc = "remounting" => l.st = "mounted" \/ q = <<>>
  /\ h.pc = "process" => MountedOn(l, n, q)
  /\ h.pc \in {"phase", "expected", "uploaded"} =>
       r.process = n /\ n > 1 /\ MountedOn(l, n, q)
  /\ h.pc \notin {"phase", "expected", "uploaded"} => r.process = 1

\* A file is uploaded to the volume the page took it for.
UploadOK(h, r, l, n, q) ==
  /\ r.mode = "encrypt"
  /\ r.process = n /\ MountedOn(l, n, q)
  /\ h.volume = IF r.phase = "hidden" THEN "hidden" ELSE "outer"

\* What a handler relies on.
HandlerOK(h, r, l, n, q, cur) ==
  /\ Preparing(h) \/ Starting(h) => cur = NoSession
  /\ Preparing(h) /\ h.op = "encrypt" => h.volume = "outer"
  /\ Starting(h) => StartOK(h, r, l, n, q)
  /\ h.pc = "list" \/ Stopping(h) => h.s = cur
  /\ h.op = "decrypt" /\ (h.pc = "list" \/ Stopping(h)) => r.mode = "decrypt"
  /\ h.op \in {"switch", "upload"} => h.s = cur
  /\ h.op = "switch" => SwitchOK(h, r, l, n, q)
  /\ h.op = "upload" => UploadOK(h, r, l, n, q)

\* ... where h has its session.
Reliable(h) ==
  HandlerOK(h, session[h.s], Last(h.s), Len(mounts[h.s]), stack[h.s], current)

AtWork == \A t \in Threads : Reliable(thread[t])

\* A handler that has taken an open session over.
Holder(h) == h.op = "switch" \/ (Closes(h) /\ h.pc \in {"reap", "wait", "stopped"})
Undisturbed == /\ current # NoSession /\ ~Past(thread[Main])
               /\ \A t \in Threads : ~Holder(thread[t])

OpenOK == Undisturbed /\ session[current].mode = "encrypt" =>
            Quiet(session[current], Last(current), Len(mounts[current]), stack[current])

\* A file of the first list of the outer volume is on the second one, too, but
\* for one that is being counted.
Counting(h, s, f) == h.pc = "count" /\ h.s = s /\ h.file = f
Booked == \A s \in 1 .. Len(session) : \A f \in session[s].uploaded_outer :
  \/ f \in session[s].own
  \/ session[s].uploaded_files = "own" /\ \E t \in Threads : Counting(thread[t], s, f)

Inv3 == TurnsKept /\ JoinedFirst /\ SessionsOK /\ AtWork /\ OpenOK /\ Booked

-----------------------------------------------------------------------------
(***************************************************************************)
(* What the invariant gives.                                               *)
(***************************************************************************)
\* A handler is somewhere in the code.
LEMMA HandlerPosition ==
  ASSUME NEW x \in Handler
  PROVE  x.pc \in Positions
BY HandlerFields

\* A session that has been opened.
LEMMA OpenedSession ==
  ASSUME Inv1, SessionsOK, NEW s \in 1 .. Len(session)
  PROVE  /\ s \in SessionIds /\ s # NoSession
         /\ session[s] \in MountSession /\ SessionOK(session[s], mounts[s], stack[s])
         /\ mounts[s] \in Seq(MountProcess) /\ stack[s] \in Seq(Nat)
         /\ Len(mounts[s]) \in Nat \ {0} /\ Last(s) \in MountProcess
         /\ DOMAIN mounts[s] = 1 .. Len(mounts[s])
<1>1. s \in SessionIds
  BY Unfolded1 DEF SessionIds
<1>2. session[s] \in MountSession /\ mounts[s] \in Seq(MountProcess) /\ stack[s] \in Seq(Nat)
  BY <1>1, Unfolded1
<1>3. SessionOK(session[s], mounts[s], stack[s])
  BY <1>1 DEF SessionsOK
<1>4. mounts[s] # <<>>
  BY <1>3 DEF SessionOK
<1> QED BY <1>1, <1>2, <1>3, <1>4, DashboardAssumption DEF Last, SessionIds

\* The session of a handler that has one.
LEMMA HasSession ==
  ASSUME Inv1, NEW t \in Everyone,
         \/ Starting(thread[t]) \/ thread[t].pc = "list" \/ Stopping(thread[t])
         \/ thread[t].op \in {"switch", "upload"}
  PROVE  thread[t].s \in 1 .. Len(session)
<1>1. Shape(thread[t]) /\ Arguments(thread[t], Len(session)) /\ thread[t] \in Handler
  BY Unfolded1
<1>2. thread[t].pc \in Positions
  BY <1>1, HandlerPosition
<1> QED BY <1>1, <1>2 DEF Shape, Arguments, Starting, Stopping, Opens, Closes, Positions

\* Nothing is asked of a handler that neither opens, closes nor uploads.
LEMMA Unconcerned ==
  ASSUME NEW h, ~Active(h), h.op # "upload",
         NEW r, NEW l, NEW n, NEW q, NEW cur
  PROVE  HandlerOK(h, r, l, n, q, cur)
BY DEF Active, HandlerOK

\* At most one handler opens or closes vaults, and no file is uploaded then.
LEMMA OneInControl ==
  ASSUME InTurns, Inv1, Inv3, NEW t \in Everyone, Active(thread[t])
  PROVE  \A u \in Threads : u # t => ~Active(thread[u]) /\ thread[u].op # "upload"
<1> DEFINE x == thread[t]
<1>1. SUFFICES ASSUME NEW u \in Threads, u # t, Active(thread[u]) \/ thread[u].op = "upload"
               PROVE  FALSE
  OBVIOUS
<1> DEFINE z == thread[u]
<1>2. /\ Shape(x) /\ Shape(z) /\ x \in Handler /\ z \in Handler /\ u \in Everyone
      /\ x.pc \in Positions /\ z.pc \in Positions
  <2>1. u \in Everyone
    BY DEF Everyone
  <2>2. /\ Shape(x) /\ Shape(z) /\ x \in Handler /\ z \in Handler
    BY <2>1, Unfolded1
  <2> QED BY <2>1, <2>2, HandlerPosition
<1>3. z.pc # "off"
  BY <1>1, <1>2 DEF Shape, Active, Preparing, Starting, Stopping
<1>4. t \in Threads
  <2>1. CASE t = Main
    <3>1. Stopping(x)
      BY <1>2, <2>1, ActiveKind, Unfolded1
    <3>2. Past(thread[Main])
      BY <2>1, <3>1 DEF Past, Stopping
    <3> QED BY <1>3, <3>2 DEF Inv3, JoinedFirst, At
  <2> QED BY <2>1 DEF Everyone
<1>5. x.op # "shutdown" /\ z.op # "shutdown"
  BY <1>4, Unfolded1
<1>6. Reserves(x) \/ x.op = "switch"
  BY <1>2, <1>5, ActiveKind
<1>7. Reliable(x) /\ Reliable(z) /\ TurnsKept
  BY <1>4 DEF Inv3, AtWork
<1>8. Preparing(x) \/ Starting(x) => current = NoSession
  BY <1>7 DEF Reliable, HandlerOK
<1>9. z.op \in {"switch", "upload"} => z.s = current /\ current # NoSession
                                       /\ session[current].mode = "encrypt"
  <2>1. ASSUME z.op \in {"switch", "upload"}
        PROVE  /\ z.s = current /\ z.s \in 1 .. Len(session)
               /\ session[z.s].mode = "encrypt"
    BY <1>2, <1>7, <2>1, HasSession DEF Reliable, HandlerOK, SwitchOK, UploadOK
  <2> QED BY <2>1, OpenedSession DEF Inv3
<1>10. x.op = "switch" => x.s = current /\ current # NoSession
                          /\ session[current].mode = "encrypt"
  <2>1. ASSUME x.op = "switch"
        PROVE  /\ x.s = current /\ x.s \in 1 .. Len(session)
               /\ session[x.s].mode = "encrypt"
    BY <1>2, <1>7, <2>1, HasSession DEF Reliable, HandlerOK, SwitchOK
  <2> QED BY <2>1, OpenedSession DEF Inv3
<1>11. /\ x.op = "decrypt" /\ ~Preparing(x) /\ ~Starting(x) =>
            x.s = current /\ session[current].mode = "decrypt"
       /\ z.op = "decrypt" /\ Active(z) /\ ~Preparing(z) /\ ~Starting(z) =>
            z.s = current /\ session[current].mode = "decrypt"
       /\ Preparing(z) \/ Starting(z) => current = NoSession
  BY <1>7 DEF Reliable, HandlerOK, Active
<1>12. /\ Preparing(x) \/ Starting(x) => Opens(x)
       /\ Preparing(z) \/ Starting(z) => Opens(z)
  BY <1>2 DEF Shape, Preparing, Starting, Opens
<1>13. x.op = "encrypt" => Preparing(x) \/ Starting(x)
  BY <1>2 DEF Shape, Active, Preparing, Starting, Stopping
<1>14. z.op = "encrypt" /\ Active(z) => Preparing(z) \/ Starting(z)
  BY <1>2 DEF Shape, Active, Preparing, Starting, Stopping
<1>15. CASE z.op = "upload"
  BY <1>4, <1>6, <1>7, <1>8, <1>9, <1>11, <1>13, <1>15 DEF Reserves, Opens, Closes, TurnsKept
<1>16. CASE Active(z)
  <2>1. Reserves(z) \/ z.op = "switch"
    BY <1>2, <1>5, <1>16, ActiveKind
  <2>2. CASE Reserves(z) /\ Reserves(x)
    BY <1>1, <1>4, <2>2 DEF Inv1, Reservation
  <2>3. CASE z.op = "switch"
    BY <1>1, <1>4, <1>6, <1>7, <1>8, <1>9, <1>11, <1>13, <2>3 DEF Reserves, Opens,
       Closes, TurnsKept
  <2>4. CASE x.op = "switch"
    BY <1>1, <1>4, <1>7, <1>10, <1>11, <1>14, <1>16, <2>1, <2>4 DEF Reserves, Opens,
       Closes, TurnsKept
  <2> QED BY <1>6, <2>1, <2>2, <2>3, <2>4
<1> QED BY <1>1, <1>15, <1>16

-----------------------------------------------------------------------------
(***************************************************************************)
(* When the invariant is kept.                                             *)
(***************************************************************************)
\* A handler may have become y while the others are where they are.
TakesTurn(t, y) == \A u \in Threads \ {t} :
  /\ y.op = "switch" => thread[u].op \notin {"switch", "lock", "finish", "upload"}
  /\ Closes(y) => thread[u].op \notin {"switch", "upload"}
  /\ y.op = "upload" => ~Closes(thread[u]) /\ thread[u].op # "switch"

\* A step keeps the turns if the request it takes up does.
LEMMA TurnsStep ==
  ASSUME Inv1, TurnsKept, NEW t \in Everyone, Moves(t, thread'[t]),
         t \in Threads => thread'[t].op \in {"none", thread[t].op} \/ TakesTurn(t, thread'[t])
  PROVE  TurnsKept'
<1> DEFINE y == thread'[t]
<1>1. \A u \in Threads : u # t => thread'[u] = thread[u]
  BY DEF Moves, Everyone
<1>2. t \in Threads => TakesTurn(t, y)
  <2>1. ASSUME t \in Threads, y.op \in {"none", thread[t].op}
        PROVE  TakesTurn(t, y)
    BY <2>1 DEF TakesTurn, TurnsKept, Closes
  <2> QED BY <2>1
<1> HIDE DEF y
<1>3. ASSUME NEW u \in Threads, NEW w \in Threads,
             thread'[u].op = "switch",
             thread'[w].op \in {"switch", "lock", "finish", "upload"}
      PROVE  u = w
  <2>1. CASE u = t
    BY <1>1, <1>2, <1>3, <2>1 DEF TakesTurn, y
  <2>2. CASE w = t
    BY <1>1, <1>2, <1>3, <2>2 DEF TakesTurn, Closes, y
  <2>3. CASE u # t /\ w # t
    BY <1>1, <1>3, <2>3 DEF TurnsKept
  <2> QED BY <2>1, <2>2, <2>3
<1>4. ASSUME NEW u \in Threads, NEW w \in Threads,
             thread'[u].op = "upload", Closes(thread'[w])
      PROVE  FALSE
  <2>1. u # w
    BY <1>4 DEF Closes
  <2>2. CASE u = t
    BY <1>1, <1>2, <1>4, <2>1, <2>2 DEF TakesTurn, y
  <2>3. CASE w = t
    BY <1>1, <1>2, <1>4, <2>1, <2>3 DEF TakesTurn, y
  <2>4. CASE u # t /\ w # t
    BY <1>1, <1>4, <2>4 DEF TurnsKept
  <2> QED BY <2>2, <2>3, <2>4
<1> QED BY <1>3, <1>4 DEF TurnsKept, Closes

\* The two lists still agree when only handlers that count nothing move.
LEMMA BookedKept ==
  ASSUME Booked, NEW t \in Everyone, Moves(t, thread'[t]), thread[t].pc # "count",
         \A s \in 1 .. Len(session') :
           \/ session'[s].uploaded_outer \subseteq session'[s].own
           \/ /\ s \in 1 .. Len(session) /\ session'[s].own = session[s].own
              /\ session'[s].uploaded_files = session[s].uploaded_files
              /\ session'[s].uploaded_outer = session[s].uploaded_outer
  PROVE  Booked'
<1>1. ASSUME NEW s \in 1 .. Len(session'), NEW f \in session'[s].uploaded_outer,
             f \notin session'[s].own
      PROVE  session'[s].uploaded_files = "own" /\ \E u \in Threads : Counting(thread'[u], s, f)
  <2>1. /\ s \in 1 .. Len(session) /\ f \in session[s].uploaded_outer
        /\ f \notin session[s].own
        /\ session'[s].uploaded_files = session[s].uploaded_files
    BY <1>1
  <2>2. session[s].uploaded_files = "own" /\ \E u \in Threads : Counting(thread[u], s, f)
    BY <2>1 DEF Booked
  <2>3. PICK u \in Threads : Counting(thread[u], s, f)
    BY <2>2
  <2>4. thread'[u] = thread[u]
    BY <2>3 DEF Counting, Moves, Everyone
  <2> QED BY <2>1, <2>2, <2>3, <2>4
<1> QED BY <1>1 DEF Booked

\* A step of the handler that opens or closes a vault.
LEMMA ControlStep ==
  ASSUME InTurns, Inv1, Inv3, NEW t \in Everyone, Active(thread[t]), Moves(t, thread'[t]),
         thread'[t].op \in {"none", thread[t].op},
         t = Main => Past(thread'[Main]),
         SessionsOK', Booked',
         t \in Threads => Reliable(thread[t])',
         t \in Threads /\ ~Holder(thread'[t]) /\ current' # NoSession
           /\ session'[current'].mode = "encrypt" =>
             Quiet(session[current], Last(current), Len(mounts[current]), stack[current])'
  PROVE  Inv3'
<1> DEFINE x == thread[t]
           y == thread'[t]
<1>1. Shape(x) /\ x \in Handler /\ TurnsKept /\ JoinedFirst
  BY Unfolded1 DEF Inv3
<1>2. \A u \in Everyone : u # t => thread'[u] = thread[u]
  BY DEF Moves
<1>3. TurnsKept'
  BY <1>1, TurnsStep
<1>4. x.pc # "off"
  BY <1>1, ActiveKind
<1>5. JoinedFirst'
  <2>1. CASE t \in Threads
    <3>1. ~Past(thread[Main])
      BY <1>1, <1>4, <2>1 DEF JoinedFirst, At
    <3>2. t # Main /\ Main \in Everyone
      BY <2>1, Unfolded1
    <3> QED BY <1>2, <3>1, <3>2 DEF JoinedFirst
  <2>2. CASE t = Main
    <3>1. Stopping(x)
      BY <1>1, <2>2, ActiveKind, Unfolded1
    <3>2. \A u \in Threads : thread'[u] = thread[u]
      BY <1>2, <2>2, Unfolded1
    <3> QED BY <1>1, <2>2, <3>1, <3>2 DEF JoinedFirst, At, Past, Stopping
  <2> QED BY <2>1, <2>2 DEF Everyone
<1>6. AtWork'
  <2>1. ASSUME NEW u \in Threads, u # t
        PROVE  Reliable(thread[u])'
    <3>1. ~Active(thread[u]) /\ thread[u].op # "upload" /\ thread'[u] = thread[u]
      BY <1>2, <2>1, OneInControl DEF Everyone
    <3> QED BY <3>1, Unconcerned DEF Reliable
  <2> QED BY <2>1 DEF AtWork
<1>7. OpenOK'
  <2>1. CASE t \in Threads
    BY <2>1 DEF OpenOK, Undisturbed
  <2>2. CASE t = Main
    BY <2>2 DEF OpenOK, Undisturbed
  <2> QED BY <2>1, <2>2 DEF Everyone
<1> QED BY <1>3, <1>5, <1>6, <1>7 DEF Inv3

\* A step of another handler that changes no session and no mount.
LEMMA OtherStep ==
  ASSUME Inv1, Inv3, NEW t \in Everyone, ~Active(thread[t]), thread[t].pc # "count",
         Moves(t, thread'[t]), UNCHANGED <<session, mounts, stack, current>>,
         t \in Threads => thread'[t].op \in {"none", thread[t].op} \/ TakesTurn(t, thread'[t]),
         t \in Threads /\ thread[t].pc = "off" => At(Main, "serving"),
         t = Main => /\ ~Past(thread[Main])
                     /\ Past(thread'[Main]) => \A u \in Threads : At(u, "off"),
         t \in Threads => Reliable(thread[t])'
  PROVE  Inv3'
<1> DEFINE x == thread[t]
           y == thread'[t]
<1>1. /\ TurnsKept /\ JoinedFirst /\ SessionsOK /\ AtWork /\ OpenOK /\ Booked
      /\ Main \notin Threads /\ Main \in Everyone
  BY Unfolded1 DEF Inv3
<1>2. \A u \in Everyone : u # t => thread'[u] = thread[u]
  BY DEF Moves
<1>3. TurnsKept'
  BY <1>1, TurnsStep
<1>4. JoinedFirst'
  <2>1. CASE t \in Threads
    <3>1. ~Past(thread[Main])
      BY <1>1, <2>1 DEF JoinedFirst, At, Past
    <3> QED BY <1>1, <1>2, <2>1, <3>1 DEF JoinedFirst
  <2>2. CASE t = Main
    <3>1. \A u \in Threads : thread'[u] = thread[u]
      BY <1>1, <1>2, <2>2 DEF Everyone
    <3> QED BY <2>2, <3>1 DEF JoinedFirst, At
  <2> QED BY <2>1, <2>2 DEF Everyone
<1>5. SessionsOK'
  BY <1>1 DEF SessionsOK
<1>6. AtWork'
  <2>1. ASSUME NEW u \in Threads, u # t
        PROVE  Reliable(thread[u])'
    <3>1. Reliable(thread[u]) /\ thread'[u] = thread[u]
      BY <1>1, <1>2, <2>1 DEF AtWork, Everyone
    <3> QED BY <3>1 DEF Reliable, Last
  <2> QED BY <2>1 DEF AtWork
<1>7. OpenOK'
  <2>1. ~Holder(x)
    BY DEF Active, Holder, Stopping
  <2>2. Undisturbed' => Undisturbed
    <3>1. ASSUME Undisturbed'
          PROVE  Undisturbed
      <4>1. \A u \in Threads : ~Holder(thread[u])
        BY <1>2, <2>1, <3>1 DEF Undisturbed, Everyone
      <4>2. ~Past(thread[Main])
        BY <1>1, <1>2, <3>1 DEF Undisturbed
      <4> QED BY <3>1, <4>1, <4>2 DEF Undisturbed
    <3> QED BY <3>1
  <2> QED BY <1>1, <2>2 DEF OpenOK, Last
<1>8. Booked'
  <2>1. \A s \in 1 .. Len(session') : /\ s \in 1 .. Len(session)
          /\ session'[s].own = session[s].own
          /\ session'[s].uploaded_files = session[s].uploaded_files
          /\ session'[s].uploaded_outer = session[s].uploaded_outer
    OBVIOUS
  <2> QED BY <1>1, <2>1, BookedKept
<1> QED BY <1>3, <1>4, <1>5, <1>6, <1>7, <1>8 DEF Inv3

-----------------------------------------------------------------------------
(***************************************************************************)
(* Requests.                                                               *)
(***************************************************************************)
\* A page waits for its turn.
LEMMA TurnRequests ==
  ASSUME InTurns, NEW t \in Threads
  PROVE  /\ Request(t, "switch") => \A u \in Threads :
              thread[u].op \notin {"switch", "lock", "finish", "upload"}
         /\ Request(t, "lock") \/ Request(t, "finish") => \A u \in Threads :
              thread[u].op \notin {"switch", "upload"}
         /\ Request(t, "upload") => \A u \in Threads :
              thread[u].op \notin {"switch", "lock", "finish"}
<1>1. /\ {"switch"} = {"switch", "switch"} /\ {"lock", "switch"} = {"switch", "lock"}
      /\ {"finish", "switch"} = {"switch", "finish"}
      /\ {"upload", "switch"} = {"switch", "upload"}
      /\ {"lock", "upload"} = {"upload", "lock"}
      /\ {"finish", "upload"} = {"upload", "finish"}
  OBVIOUS
<1>2. /\ {"switch", "switch"} \in Apart /\ {"switch", "lock"} \in Apart
      /\ {"switch", "finish"} \in Apart /\ {"switch", "upload"} \in Apart
      /\ {"upload", "lock"} \in Apart /\ {"upload", "finish"} \in Apart
  BY DEF InTurns, SwitchAlone
<1> QED BY <1>1, <1>2 DEF Request

\* When no handler has taken it over, the open session is quiet.
LEMMA OpenIsQuiet ==
  ASSUME Inv1, Inv3, NEW t \in Threads, At(t, "ready"), Open("encrypt"),
         \A u \in Threads : thread[u].op \notin {"switch", "lock", "finish"}
  PROVE  /\ current \in 1 .. Len(session)
         /\ Quiet(session[current], Last(current), Len(mounts[current]), stack[current])
<1>1. current # NoSession /\ session[current].mode = "encrypt"
  BY DEF Open
<1>2. ~Past(thread[Main])
  BY DEF Inv3, JoinedFirst, At
<1>3. \A u \in Threads : ~Holder(thread[u])
  BY DEF Holder, Closes
<1> QED BY <1>1, <1>2, <1>3, Unfolded1 DEF Inv3, OpenOK, Undisturbed

\* The phase may be switched: the outer volume is complete.
LEMMA SwitchRequested ==
  ASSUME InTurns, Inv1, Inv3, NEW t \in Threads, Switch(t),
         NEW y, y.op = "switch", y.pc = "unmount", y.s = current
  PROVE  HandlerOK(y, session[current], Last(current), Len(mounts[current]),
                   stack[current], current)
<1> DEFINE r == session[current]
<1>1. /\ Request(t, "switch") /\ Open("encrypt") /\ r.deniable /\ r.phase = "outer"
      /\ r.mode = "encrypt" /\ CoverFiles \subseteq r.uploaded_outer
  BY DEF Switch, Open
<1>2. At(t, "ready") /\ \A u \in Threads :
        thread[u].op \notin {"switch", "lock", "finish", "upload"}
  BY <1>1, TurnRequests DEF Request
<1>3. /\ current \in 1 .. Len(session)
      /\ Quiet(r, Last(current), Len(mounts[current]), stack[current])
  BY <1>1, <1>2, OpenIsQuiet
<1>4. ListsOK(r) /\ r \in MountSession
  BY <1>3, OpenedSession DEF Inv3, SessionOK
<1>5. r.uploaded_files = "own" /\ r.expected_files = "cover"
  BY <1>1, <1>3, <1>4 DEF Quiet, Settled, ListsOK, MountSession
<1>6. r.process = 1 /\ ~CanMount(Last(current))
  BY <1>1, <1>3 DEF Quiet, Settled
<1>7. \A u \in Threads : ~At(u, "count")
  BY <1>2, Unfolded1 DEF At, Shape, Everyone
<1>8. CoverFiles \subseteq r.own
  BY <1>1, <1>3, <1>7 DEF Inv3, Booked, Counting, At
<1> HIDE DEF r
<1>9. SwitchOK(y, r, Last(current), Len(mounts[current]), stack[current])
  BY <1>1, <1>5, <1>6, <1>8 DEF SwitchOK, Stopping
<1> QED BY <1>9 DEF HandlerOK, Preparing, Starting, Stopping, Closes, r

\* A file may be uploaded: the volume it is for is mounted.
LEMMA UploadRequested ==
  ASSUME InTurns, Inv1, Inv3, NEW t \in Threads, NEW f \in FileNames, Upload(t, f),
         NEW y, y.op = "upload", y.pc = "open", y.s = current,
         y.volume = IF session[current].expected_files = "hidden"
                    THEN "hidden" ELSE "outer"
  PROVE  HandlerOK(y, session[current], Last(current), Len(mounts[current]),
                   stack[current], current)
<1> DEFINE r == session[current]
<1>1. /\ Request(t, "upload") /\ Open("encrypt") /\ r.mode = "encrypt"
      /\ f \in Expected(current) /\ f \notin Uploaded(current)
  BY DEF Upload, Open
<1>2. At(t, "ready") /\ \A u \in Threads :
        thread[u].op \notin {"switch", "lock", "finish"}
  BY <1>1, TurnRequests DEF Request
<1>3. /\ current \in 1 .. Len(session)
      /\ Quiet(r, Last(current), Len(mounts[current]), stack[current])
  BY <1>1, <1>2, OpenIsQuiet
<1>4. ListsOK(r) /\ r \in MountSession
  BY <1>3, OpenedSession DEF Inv3, SessionOK
<1>5. r.phase = "hidden" <=> r.expected_files = "hidden"
  BY <1>3, <1>4 DEF Quiet, Settled, ListsOK
<1>6. ~Spent(r)
  <2>1. ASSUME Spent(r)
        PROVE  FALSE
    <3>1. r.phase = "outer" /\ CoverFiles \subseteq r.own
      BY <2>1 DEF Spent
    <3>2. r.expected_files # "hidden" /\ r.uploaded_files # "hidden"
      BY <1>3, <1>5, <3>1 DEF Quiet, Settled
    <3> QED BY <1>1, <3>1, <3>2 DEF Expected, Uploaded
  <2> QED BY <2>1
<1> HIDE DEF r
<1>7. UploadOK(y, r, Last(current), Len(mounts[current]), stack[current])
  BY <1>1, <1>3, <1>5, <1>6 DEF UploadOK, Quiet, r
<1> QED BY <1>7 DEF HandlerOK, Preparing, Starting, Stopping, Closes, r

\* Requests as they arrive, and the steps that wait for the browser.
LEMMA BrowserKeeps3 ==
  ASSUME InTurns, Inv1, Inv3, NEW t \in Threads, Browser(t)
  PROVE  Inv3'
<1> DEFINE x == thread[t]
           y == thread'[t]
<1>1. /\ t \in Everyone /\ thread \in [Everyone -> Handler] /\ Shape(x)
      /\ x \in Handler /\ t # Main
  BY Unfolded1
<1>2. Orderly(t)
  BY BrowserOrderly, HandleOrderly DEF Browser
<1>3. y \in Handler /\ Moves(t, y) /\ Shape(y) /\ Arguments(y, Len(session))
  BY <1>1, <1>2, OrderlyMoves
<1>4. UNCHANGED <<session, mounts, stack, current>>
  BY DEF Browser, Connect, Disconnect, Encrypt, Decrypt, Import, Switch, Finish, Lock,
     Upload, Download, Transfer, Copied, Receive, others, state, system, told
<1>5. /\ x.pc \in {"off", "ready", "transfer", "copy", "receive"}
      /\ x.pc # "off" \/ At(Main, "serving")
  BY DEF Browser, Connect, Disconnect, Encrypt, Decrypt, Import, Switch, Finish, Lock,
     Upload, Download, Transfer, Copied, Receive, Request, At
<1>6. ~Active(x) /\ x.pc # "count"
  BY <1>1, <1>5 DEF Active, Shape, Preparing, Starting, Stopping
<1>7. ASSUME y.op \in {"none", x.op} \/ TakesTurn(t, y), Reliable(thread[t])'
      PROVE  Inv3'
  BY <1>1, <1>3, <1>4, <1>5, <1>6, <1>7, OtherStep
<1>8. ASSUME HandlerOK(y, session[y.s], Last(y.s), Len(mounts[y.s]), stack[y.s], current)
      PROVE  Reliable(thread[t])'
  BY <1>4, <1>8 DEF Reliable, Last
<1>9. ASSUME y.op \in {"none", "import", "download"}
      PROVE  Inv3'
  <2>1. ~Active(y)
    BY <1>3, <1>9 DEF Active, Shape, Preparing, Starting, Stopping, Opens, Closes
  <2>2. Reliable(thread[t])'
    BY <1>8, <1>9, <2>1, Unconcerned
  <2>3. TakesTurn(t, y)
    BY <1>9 DEF TakesTurn, Closes
  <2> QED BY <1>7, <2>2, <2>3
<1>10. CASE Connect(t) \/ Disconnect(t) \/ Receive(t) \/ Copied(t)
  <2>1. \/ \E pc \in Positions : Becomes(t, Idle(pc))
        \/ Replies(t)
        \/ /\ x.op \in {"download", "import"}
           /\ \E pc \in Positions : Goto(t, pc)
    BY <1>1, <1>10 DEF Connect, Disconnect, Receive, Copied, At, Shape, Positions
  <2>2. ASSUME NEW pc \in Positions, Becomes(t, Idle(pc))
        PROVE  y.op = "none"
    BY <1>1, <2>2, BecomesIs, IdleHandler
  <2>3. Replies(t) => y.op = "none"
    BY <1>1, RepliesMoves DEF Moves
  <2>4. ASSUME NEW pc \in Positions, Goto(t, pc)
        PROVE  y.op = x.op
    BY <1>1, <2>4, GotoMoves DEF Moves
  <2> QED BY <1>9, <2>1, <2>2, <2>3, <2>4
<1>11. CASE Transfer(t)
  <2>1. x.op = "upload" /\ \E pc \in {"book", "discard"} : Goto(t, pc)
    BY <1>1, <1>11 DEF Transfer, At, Shape
  <2>2. y.op = "upload" /\ y.s = x.s /\ y.volume = x.volume /\ y.pc \in {"book", "discard"}
    BY <1>1, <2>1, GotoMoves DEF Moves, Positions
  <2>3. HandlerOK(x, session[x.s], Last(x.s), Len(mounts[x.s]), stack[x.s], current)
    BY DEF Inv3, AtWork, Reliable
  <2>4. HandlerOK(y, session[y.s], Last(y.s), Len(mounts[y.s]), stack[y.s], current)
    BY <2>1, <2>2, <2>3 DEF HandlerOK, UploadOK, Preparing, Starting, Stopping
  <2> QED BY <1>7, <1>8, <2>1, <2>2, <2>4
<1>12. ASSUME NEW n \in Names, NEW d \in BOOLEAN, Import(t, n, d)
       PROVE  Inv3'
  <2>1. Becomes(t, [Handling("import", "receive") EXCEPT !.name = n, !.deniable = d])
    BY <1>12 DEF Import
  <2>2. y.op = "import"
    BY <1>1, <2>1 DEF Becomes, Handling, Idle
  <2> QED BY <1>9, <2>2
<1>13. ASSUME NEW f \in FileNames, Download(t, f)
       PROVE  Inv3'
  <2>1. Becomes(t, [Handling("download", "fetch") EXCEPT !.s = current, !.file = f])
    BY <1>13 DEF Download
  <2>2. y.op = "download"
    BY <1>1, <2>1 DEF Becomes, Handling, Idle
  <2> QED BY <1>9, <2>2
<1>14. ASSUME NEW f \in FileNames, Upload(t, f)
       PROVE  Inv3'
  <2> DEFINE v == IF session[current].expected_files = "hidden" THEN "hidden" ELSE "outer"
  <2>1. Request(t, "upload") /\ Becomes(t,
          [Handling("upload", "open") EXCEPT !.s = current, !.file = f, !.volume = v])
    BY <1>14 DEF Upload
  <2> HIDE DEF v
  <2>2. y.op = "upload" /\ y.pc = "open" /\ y.s = current /\ y.volume = v
    BY <1>1, <2>1 DEF Becomes, Handling, Idle
  <2>3. TakesTurn(t, y)
    BY <2>1, <2>2, TurnRequests DEF TakesTurn, Closes
  <2>4. HandlerOK(y, session[current], Last(current), Len(mounts[current]),
                  stack[current], current)
    BY <1>14, <2>2, UploadRequested DEF v
  <2> QED BY <1>7, <1>8, <2>2, <2>3, <2>4
<1>15. CASE Switch(t)
  <2>1. Request(t, "switch") /\ Becomes(t, [Handling("switch", "unmount") EXCEPT !.s = current])
    BY <1>15 DEF Switch
  <2>2. y.op = "switch" /\ y.pc = "unmount" /\ y.s = current
    BY <1>1, <2>1 DEF Becomes, Handling, Idle
  <2>3. TakesTurn(t, y)
    BY <2>1, <2>2, TurnRequests DEF TakesTurn, Closes
  <2>4. HandlerOK(y, session[current], Last(current), Len(mounts[current]),
                  stack[current], current)
    BY <1>15, <2>2, SwitchRequested
  <2> QED BY <1>7, <1>8, <2>2, <2>3, <2>4
<1>16. CASE Lock(t) \/ Finish(t)
  <2>1. PICK op \in {"lock", "finish"} :
          Request(t, op) /\ Becomes(t, [Handling(op, "reserve") EXCEPT !.s = current])
    BY <1>16 DEF Lock, Finish
  <2>2. y.op = op /\ y.pc = "reserve"
    BY <1>1, <2>1 DEF Becomes, Handling, Idle
  <2>3. ~Active(y)
    BY <2>2 DEF Active, Preparing, Starting, Stopping
  <2>4. TakesTurn(t, y)
    BY <2>1, <2>2, TurnRequests DEF TakesTurn
  <2>5. y.op # "upload"
    BY <2>2
  <2> QED BY <1>7, <1>8, <2>3, <2>4, <2>5, Unconcerned
<1>17. ASSUME NEW n \in Names, (\E d \in BOOLEAN : Encrypt(t, n, d))
                               \/ \E v \in Volumes : Decrypt(t, n, v)
       PROVE  Inv3'
  <2>1. /\ current = NoSession
        /\ \/ \E d \in BOOLEAN : Becomes(t,
                [Handling("encrypt", "create") EXCEPT !.name = n, !.deniable = d])
           \/ \E v \in Volumes : Becomes(t,
                [Handling("decrypt", "unlock") EXCEPT !.name = n, !.volume = v])
    BY <1>17 DEF Encrypt, Decrypt, MayReserve
  <2>2. y.op \in {"encrypt", "decrypt"} /\ y.pc \in {"create", "unlock"}
        /\ (y.op = "encrypt" => y.volume = "outer")
    BY <1>1, <2>1 DEF Becomes, Handling, Idle
  <2>3. TakesTurn(t, y)
    BY <2>2 DEF TakesTurn, Closes
  <2>4. HandlerOK(y, session[y.s], Last(y.s), Len(mounts[y.s]), stack[y.s], current)
    BY <2>1, <2>2 DEF HandlerOK, Preparing, Starting, Stopping
  <2> QED BY <1>7, <1>8, <2>3, <2>4
<1> QED BY <1>10, <1>11, <1>12, <1>13, <1>14, <1>15, <1>16, <1>17 DEF Browser

\* Handlers that neither open nor close a vault, and the first step of a lock.
LEMMA OtherKeeps3 ==
  ASSUME InTurns, Inv1, Inv3, NEW t \in Threads,
         Release(t) \/ OpenDestination(t) \/ Discard(t) \/ OpenSource(t) \/ Link(t)
         \/ ReserveClose(t)
  PROVE  Inv3'
<1> DEFINE x == thread[t]
           y == thread'[t]
<1>1. /\ t \in Everyone /\ thread \in [Everyone -> Handler] /\ Shape(x) /\ x \in Handler
      /\ t # Main
  BY Unfolded1
<1>2. Orderly(t)
  BY HandleOrderly DEF Handle, StartMount, Release, OpenDestination, Discard,
     OpenSource, Link, ReserveClose, At
<1>3. y \in Handler /\ Moves(t, y) /\ Shape(y)
  BY <1>1, <1>2, OrderlyMoves
<1>4. x.pc \in {"release", "open", "discard", "fetch", "link", "reserve"}
  BY DEF Release, OpenDestination, Discard, OpenSource, Link, ReserveClose, At
<1>5. ~Active(x)
  BY <1>1, <1>4 DEF Active, Shape, Preparing, Starting, Stopping, Opens, Closes
<1>6. UNCHANGED <<session, mounts, stack, current>>
  BY DEF Release, OpenDestination, Discard, OpenSource, Link, ReserveClose, others,
     state, system, told
<1>7. ASSUME y.op \in {"none", x.op},
             HandlerOK(y, session[y.s], Last(y.s), Len(mounts[y.s]), stack[y.s], current)
      PROVE  Inv3'
  <2>1. Reliable(thread[t])'
    BY <1>6, <1>7 DEF Reliable, Last
  <2> QED BY <1>1, <1>3, <1>4, <1>5, <1>6, <1>7, <2>1, OtherStep
<1>8. ASSUME y.op \in {"none", "download"}, y.op \in {"none", x.op}
      PROVE  Inv3'
  <2>1. ~Active(y)
    BY <1>3, <1>8 DEF Active, Shape, Preparing, Starting, Stopping, Opens, Closes
  <2> QED BY <1>7, <1>8, <2>1, Unconcerned
<1>9. Replies(t) => y.op = "none"
  BY <1>1, RepliesMoves DEF Moves
<1>10. CASE Replies(t)
  BY <1>8, <1>9, <1>10
<1>11. CASE OpenDestination(t) /\ ~Replies(t)
  <2>1. x.op = "upload" /\ Becomes(t, [x EXCEPT !.pc = "transfer", !.m = Top(x.s)])
    BY <1>1, <1>11 DEF OpenDestination, At, Shape
  <2>2. y.op = "upload" /\ y.s = x.s /\ y.volume = x.volume /\ y.pc = "transfer"
    BY <1>1, <2>1 DEF Becomes, Handler
  <2>3. HandlerOK(x, session[x.s], Last(x.s), Len(mounts[x.s]), stack[x.s], current)
    BY DEF Inv3, AtWork, Reliable
  <2>4. HandlerOK(y, session[y.s], Last(y.s), Len(mounts[y.s]), stack[y.s], current)
    BY <2>1, <2>2, <2>3 DEF HandlerOK, UploadOK, Preparing, Starting, Stopping
  <2> QED BY <1>7, <2>1, <2>2, <2>4
<1>12. CASE OpenSource(t) /\ ~Replies(t)
  <2>1. x.op = "download" /\ Becomes(t, [x EXCEPT !.pc = "copy", !.m = Top(x.s)])
    BY <1>1, <1>12 DEF OpenSource, At, Shape
  <2>2. y.op = "download"
    BY <1>1, <2>1 DEF Becomes, Handler
  <2> QED BY <1>8, <2>1, <2>2
<1>13. CASE ReserveClose(t) /\ ~Replies(t)
  <2>1. x.op \in {"lock", "finish"} /\ current = x.s /\ Goto(t, "unmount")
    BY <1>1, <1>13 DEF ReserveClose, At, Shape, Closes
  <2>2. y.op = x.op /\ y.s = x.s /\ y.pc = "unmount"
    BY <1>1, <2>1, GotoMoves DEF Moves, Positions
  <2>3. HandlerOK(y, session[y.s], Last(y.s), Len(mounts[y.s]), stack[y.s], current)
    BY <2>1, <2>2 DEF HandlerOK, Preparing, Starting, Stopping
  <2> QED BY <1>7, <2>2, <2>3
<1> QED BY <1>10, <1>11, <1>12, <1>13 DEF Release, Discard, Link

\* A file that has arrived is entered in the lists of the session: record o of
\* the session of x becomes r.
LEMMA ListsGrow ==
  ASSUME InTurns, Inv1, Inv3, NEW t \in Threads, Book(t) \/ Count(t)
  PROVE  LET x == thread[t]
             o == session[x.s]
             r == session'[x.s]
         IN  /\ x.op = "upload" /\ x.s \in 1 .. Len(session) /\ x.s = current
             /\ session' \in Seq(MountSession) /\ Len(session') = Len(session)
             /\ \A k \in 1 .. Len(session) : k # x.s => session'[k] = session[k]
             /\ r.name = o.name /\ r.mode = o.mode /\ r.deniable = o.deniable
             /\ r.phase = o.phase /\ r.expected_files = o.expected_files
             /\ r.uploaded_files = o.uploaded_files /\ r.process = o.process
             /\ r.own = o.own \union
                  (IF x.pc = "count" /\ o.uploaded_files = "own" THEN {x.file} ELSE {})
             /\ r.uploaded_outer = o.uploaded_outer \union
                  (IF x.pc = "book" /\ o.phase = "outer" THEN {x.file} ELSE {})
             /\ r.uploaded_hidden = o.uploaded_hidden \union
                  (IF o.phase = "hidden" THEN {x.file} ELSE {})
<1> DEFINE x == thread[t]
           s == x.s
           o == session[s]
           f == {x.file}
<1>1. /\ x \in Handler /\ Shape(x) /\ t \in Everyone /\ Arguments(x, Len(session))
      /\ session \in Seq(MountSession)
  BY Unfolded1
<1>2. x.op = "upload" /\ x.pc \in {"book", "count"}
  BY <1>1 DEF Book, Count, At, Shape
<1>3. s \in 1 .. Len(session)
  BY <1>2, <1>1 DEF Arguments
<1>4. /\ HandlerOK(x, o, Last(s), Len(mounts[s]), stack[s], current)
  BY DEF Inv3, AtWork, Reliable
<1>5. s = current /\ o.mode = "encrypt"
  BY <1>2, <1>4 DEF HandlerOK, UploadOK
<1>6. o \in MountSession /\ ListsOK(o) /\ x.file \in FileNames
  BY <1>1, <1>2, <1>3, OpenedSession DEF Inv3, SessionOK, Arguments
<1>7. Settled(o)
  <2>1. \A u \in Threads : ~Holder(thread[u])
    BY <1>2 DEF Inv3, TurnsKept, Holder
  <2>2. ~Past(thread[Main])
    BY <1>2 DEF Inv3, JoinedFirst, At
  <2>3. current # NoSession
    BY <1>3, <1>5, OpenedSession DEF Inv3
  <2> QED BY <1>5, <2>1, <2>2, <2>3 DEF Inv3, OpenOK, Undisturbed, Quiet
<1> DEFINE Grown(r) ==
             /\ r.name = o.name /\ r.mode = o.mode /\ r.deniable = o.deniable
             /\ r.phase = o.phase /\ r.expected_files = o.expected_files
             /\ r.uploaded_files = o.uploaded_files /\ r.process = o.process
             /\ r.own = o.own \union
                  (IF x.pc = "count" /\ o.uploaded_files = "own" THEN f ELSE {})
             /\ r.uploaded_outer = o.uploaded_outer \union
                  (IF x.pc = "book" /\ o.phase = "outer" THEN f ELSE {})
             /\ r.uploaded_hidden = o.uploaded_hidden \union
                  (IF o.phase = "hidden" THEN f ELSE {})
<1>8. \E r \in MountSession : session' = [session EXCEPT ![s] = r] /\ Grown(r)
  <2>0. f \subseteq FileNames
    BY <1>6
  <2> HIDE DEF f
  <2>1. CASE Book(t) /\ ~o.deniable
    <3>1. session' = session /\ x.pc = "book" /\ o.phase \notin {"outer", "hidden"}
      BY <1>6, <2>1 DEF Book, At, ListsOK
    <3>2. session' = [session EXCEPT ![s] = o]
      BY <1>1, <1>3, <3>1
    <3> QED BY <1>6, <3>1, <3>2
  <2>2. CASE Book(t) /\ o.deniable /\ o.phase = "outer"
    <3> DEFINE r == [o EXCEPT !.uploaded_outer = @ \union f]
    <3>1. session' = [session EXCEPT ![s] = r] /\ x.pc = "book"
      BY <2>2 DEF Book, At, f
    <3>2. r \in MountSession /\ Grown(r)
      BY <1>6, <2>0, <2>2, <3>1 DEF MountSession
    <3> QED BY <3>1, <3>2
  <2>3. CASE Book(t) /\ o.deniable /\ o.phase # "outer"
    <3> DEFINE r == [o EXCEPT !.uploaded_hidden = @ \union f]
    <3>1. session' = [session EXCEPT ![s] = r] /\ x.pc = "book"
      BY <2>3 DEF Book, At, f
    <3>2. o.phase = "hidden"
      BY <1>6, <2>3 DEF ListsOK, MountSession
    <3>3. r \in MountSession /\ Grown(r)
      BY <1>6, <2>0, <2>3, <3>1, <3>2 DEF MountSession
    <3> QED BY <3>1, <3>3
  <2>4. CASE Count(t) /\ o.uploaded_files = "hidden"
    <3> DEFINE r == [o EXCEPT !.uploaded_hidden = @ \union f]
    <3>1. session' = [session EXCEPT ![s] = r] /\ x.pc = "count"
      BY <2>4 DEF Count, At, f
    <3>2. o.phase = "hidden"
      BY <1>7, <2>4 DEF Settled
    <3>3. r \in MountSession /\ Grown(r)
      BY <1>6, <2>0, <2>4, <3>1, <3>2 DEF MountSession
    <3> QED BY <3>1, <3>3
  <2>5. CASE Count(t) /\ o.uploaded_files # "hidden"
    <3> DEFINE r == [o EXCEPT !.own = @ \union f]
    <3>1. session' = [session EXCEPT ![s] = r] /\ x.pc = "count"
      BY <2>5 DEF Count, At, f
    <3>2. o.phase # "hidden" /\ o.uploaded_files = "own"
      BY <1>6, <1>7, <2>5 DEF Settled, MountSession
    <3>3. r \in MountSession /\ Grown(r)
      BY <1>6, <2>0, <2>5, <3>1, <3>2 DEF MountSession
    <3> QED BY <3>1, <3>3
  <2> QED BY <2>1, <2>2, <2>3, <2>4, <2>5
<1>9. PICK r \in MountSession : session' = [session EXCEPT ![s] = r] /\ Grown(r)
  BY <1>8
<1>10. /\ session' \in Seq(MountSession) /\ Len(session') = Len(session)
       /\ \A k \in 1 .. Len(session) : session'[k] = IF k = s THEN r ELSE session[k]
  BY <1>1, <1>3, <1>9, SessionChanges
<1> QED BY <1>2, <1>3, <1>5, <1>9, <1>10

\* The lists of a session grow.
LEMMA CountKeeps3 ==
  ASSUME InTurns, Inv1, Inv3, NEW t \in Threads, Book(t) \/ Count(t)
  PROVE  Inv3'
<1> DEFINE x == thread[t]
           y == thread'[t]
           s == x.s
           o == session[s]
           r == session'[s]
<1>1. /\ t \in Everyone /\ thread \in [Everyone -> Handler] /\ Shape(x) /\ x \in Handler
      /\ t # Main /\ Main \in Everyone
  BY Unfolded1
<1>2. Orderly(t)
  BY HandleOrderly DEF Handle, StartMount, Book, Count, At
<1>3. Moves(t, y)
  BY <1>1, <1>2, OrderlyMoves
<1>4. UNCHANGED <<current, mounts, stack>> /\ x.pc \in {"book", "count"}
  BY DEF Book, Count, state, system, At
<1>5. /\ x.op = "upload" /\ s \in 1 .. Len(session) /\ s = current
      /\ Len(session') = Len(session)
      /\ \A k \in 1 .. Len(session) : k # s => session'[k] = session[k]
      /\ r.mode = o.mode /\ r.deniable = o.deniable
      /\ r.phase = o.phase /\ r.expected_files = o.expected_files
      /\ r.uploaded_files = o.uploaded_files /\ r.process = o.process
      /\ o.own \subseteq r.own /\ o.uploaded_outer \subseteq r.uploaded_outer
  BY ListsGrow
<1>6. /\ x.pc = "book" => y.pc = "count" /\ y.op = x.op /\ y.s = s /\ y.file = x.file
                          /\ y.volume = x.volume
      /\ x.pc = "count" => y.op = "none" /\ y.pc = "ready"
  <2>1. CASE Book(t)
    BY <1>1, <2>1, GotoMoves DEF Book, At, Moves, Positions
  <2>2. CASE Count(t)
    BY <1>1, <2>2, RepliesMoves DEF Count, At, Moves
  <2> QED BY <2>1, <2>2
<1>7. /\ TurnsKept /\ JoinedFirst /\ SessionsOK /\ AtWork /\ OpenOK /\ Booked
  BY DEF Inv3
<1>8. \A u \in Everyone : u # t => thread'[u] = thread[u]
  BY <1>3 DEF Moves
<1> HIDE DEF r, o, s, y
<1>9. TurnsKept'
  BY <1>1, <1>3, <1>4, <1>6, <1>7, TurnsStep DEF y
<1>10. ~Past(thread[Main]) /\ thread'[Main] = thread[Main] /\ JoinedFirst'
  BY <1>1, <1>4, <1>7, <1>8 DEF JoinedFirst, At
<1>11. ListsOK(o) => ListsOK(r)
  BY <1>5 DEF ListsOK
<1>12. SessionsOK'
  <2>1. ASSUME NEW k \in SessionIds, k \in 1 .. Len(session)
        PROVE  SessionOK(session'[k], mounts[k], stack[k])
    <3>1. SessionOK(session[k], mounts[k], stack[k])
      BY <1>7, <2>1 DEF SessionsOK
    <3> QED BY <1>5, <1>11, <2>1, <3>1 DEF SessionOK, r, o
  <2> QED BY <1>4, <1>5, <1>7, <2>1 DEF SessionsOK
<1>13. AtWork'
  <2>1. ASSUME NEW u \in Threads, u # t
        PROVE  Reliable(thread[u])'
    <3> DEFINE z == thread[u]
    <3>1. HandlerOK(z, session[z.s], Last(z.s), Len(mounts[z.s]), stack[z.s], current)
          /\ z.op # "switch" /\ thread'[u] = z
      BY <1>5, <1>7, <1>8, <2>1 DEF AtWork, Reliable, TurnsKept, Everyone
    <3>2. /\ session'[z.s].mode = session[z.s].mode
          /\ session'[z.s].phase = session[z.s].phase
          /\ session'[z.s].process = session[z.s].process
          \/ ~(z.s \in 1 .. Len(session))
      BY <1>5 DEF r, o
    <3>3. Active(z) \/ z.op = "upload" => Preparing(z) \/ z.s \in 1 .. Len(session)
      BY HasSession DEF Active, Everyone
    <3> HIDE DEF z
    <3>4. CASE Active(z) \/ z.op = "upload"
      <4>1. HandlerOK(z, session'[z.s], Last(z.s), Len(mounts[z.s]), stack[z.s], current)
        <5>1. CASE z.s \in 1 .. Len(session)
          BY <3>1, <3>2, <5>1 DEF HandlerOK, StartOK, UploadOK
        <5>2. CASE Preparing(z)
          <6>1. ~Starting(z) /\ ~Stopping(z) /\ z.pc # "list"
            BY <5>2 DEF Preparing, Starting, Stopping
          <6>2. current # NoSession
            BY <1>5, <1>7, OpenedSession
          <6> QED BY <3>1, <5>2, <6>2 DEF HandlerOK
        <5> QED BY <3>3, <3>4, <5>1, <5>2
      <4> QED BY <1>4, <3>1, <4>1 DEF Reliable, Last, z
    <3>5. CASE ~Active(z) /\ z.op # "upload"
      BY <3>1, <3>5, Unconcerned DEF Reliable, z
    <3> QED BY <3>4, <3>5
  <2>2. Reliable(thread[t])'
    <3>1. CASE x.pc = "book"
      <4>1. HandlerOK(x, o, Last(s), Len(mounts[s]), stack[s], current)
        BY <1>7 DEF AtWork, Reliable, o, s
      <4>2. HandlerOK(y, r, Last(s), Len(mounts[s]), stack[s], current)
        BY <1>5, <1>6, <3>1, <4>1 DEF HandlerOK, UploadOK, Preparing, Starting, Stopping
      <4> QED BY <1>4, <1>6, <3>1, <4>2 DEF Reliable, Last, r, y
    <3>2. CASE x.pc = "count"
      <4>1. ~Active(y) /\ y.op # "upload"
        BY <1>6, <3>2 DEF Active, Preparing, Starting, Stopping
      <4> QED BY <4>1, Unconcerned DEF Reliable, y
    <3> QED BY <1>4, <3>1, <3>2
  <2> QED BY <2>1, <2>2 DEF AtWork
<1>14. OpenOK'
  <2>1. \A u \in Threads : ~Holder(thread[u])
    BY <1>5, <1>7 DEF TurnsKept, Holder
  <2>2. current # NoSession
    BY <1>5, <1>7, OpenedSession
  <2>3. o.mode = "encrypt" => Quiet(o, Last(s), Len(mounts[s]), stack[s])
    BY <1>5, <1>7, <1>10, <2>1, <2>2 DEF OpenOK, Undisturbed, o
  <2>4. r.mode = "encrypt" => Quiet(r, Last(s), Len(mounts[s]), stack[s])
    BY <1>5, <2>3 DEF Quiet, Settled, Spent
  <2> QED BY <1>4, <1>5, <2>4 DEF OpenOK, Last, r
<1>15. Booked'
  <2>1. ASSUME NEW k \in 1 .. Len(session'), NEW f \in session'[k].uploaded_outer,
               f \notin session'[k].own
        PROVE  session'[k].uploaded_files = "own"
               /\ \E u \in Threads : Counting(thread'[u], k, f)
    <3>1. CASE f \in session[k].uploaded_outer
      <4>1. f \notin session[k].own
            /\ session'[k].uploaded_files = session[k].uploaded_files
        BY <1>5, <2>1 DEF r, o
      <4>2. /\ session[k].uploaded_files = "own"
            /\ \E u \in Threads : Counting(thread[u], k, f)
        BY <1>5, <1>7, <2>1, <3>1, <4>1 DEF Booked
      <4>3. PICK u \in Threads : Counting(thread[u], k, f)
        BY <4>2
      <4>4. u # t
        <5>1. ASSUME u = t
              PROVE  FALSE
          <6>1. x.pc = "count" /\ s = k /\ x.file = f
            BY <4>3, <5>1 DEF Counting, s
          <6>2. f \in r.own
            BY <4>2, <6>1, ListsGrow DEF r, s
          <6> QED BY <2>1, <6>1, <6>2 DEF r
        <5> QED BY <5>1
      <4> QED BY <1>8, <4>1, <4>2, <4>3, <4>4 DEF Everyone
    <3>2. CASE f \notin session[k].uploaded_outer
      <4>1. k = s /\ x.pc = "book" /\ o.phase = "outer" /\ f = x.file
        <5>1. k = s
          BY <1>5, <2>1, <3>2
        <5> QED BY <2>1, <3>2, <5>1, ListsGrow DEF s, o
      <4>2. r.uploaded_files = "own"
        <5>1. o \in MountSession /\ ListsOK(o)
          BY <1>5, <1>7, OpenedSession DEF o, SessionOK
        <5> QED BY <1>5, <4>1, <5>1 DEF ListsOK, MountSession
      <4>3. Counting(y, k, f)
        BY <1>6, <4>1 DEF Counting
      <4> QED BY <4>1, <4>2, <4>3 DEF y, r
    <3> QED BY <3>1, <3>2
  <2> QED BY <2>1 DEF Booked
<1> QED BY <1>9, <1>10, <1>12, <1>13, <1>14, <1>15 DEF Inv3

-----------------------------------------------------------------------------
(***************************************************************************)
(* Vaults are opened and closed.                                           *)
(***************************************************************************)
\* A step that changes no session and no mount.
LEMMA ControlSame ==
  ASSUME InTurns, Inv1, Inv3, NEW t \in Everyone, Active(thread[t]), Moves(t, thread'[t]),
         thread'[t].op \in {"none", thread[t].op},
         t = Main => Past(thread'[Main]),
         UNCHANGED <<session, mounts, stack>>,
         LET y == thread'[t]
         IN  t \in Threads =>
               /\ HandlerOK(y, session[y.s], Last(y.s), Len(mounts[y.s]), stack[y.s], current')
               /\ ~Holder(y) /\ current' # NoSession /\ session[current'].mode = "encrypt" =>
                    Quiet(session[current'], Last(current'), Len(mounts[current']),
                          stack[current'])
  PROVE  Inv3'
<1>1. SessionsOK'
  BY DEF Inv3, SessionsOK
<1>2. Shape(thread[t]) /\ thread[t] \in Handler
  BY Unfolded1
<1>3. thread[t].pc # "count"
  BY <1>2 DEF Shape, Active, Preparing, Starting, Stopping
<1>4. \A s \in 1 .. Len(session') : /\ s \in 1 .. Len(session)
        /\ session'[s].own = session[s].own
        /\ session'[s].uploaded_files = session[s].uploaded_files
        /\ session'[s].uploaded_outer = session[s].uploaded_outer
  OBVIOUS
<1>5. Booked'
  BY <1>3, <1>4, BookedKept DEF Inv3
<1>6. /\ t \in Threads => Reliable(thread[t])'
      /\ t \in Threads /\ ~Holder(thread'[t]) /\ current' # NoSession
           /\ session'[current'].mode = "encrypt" =>
             Quiet(session[current], Last(current), Len(mounts[current]), stack[current])'
  BY DEF Reliable, Last
<1> QED BY <1>1, <1>5, <1>6, ControlStep

\* What a handler that opens or closes a vault relies on.
LEMMA ControlKnows ==
  ASSUME InTurns, Inv1, Inv3, NEW t \in Threads, Active(thread[t])
  PROVE  LET x == thread[t]
             s == x.s
         IN  /\ HandlerOK(x, session[s], Last(s), Len(mounts[s]), stack[s], current)
             /\ Reserves(x) \/ x.op = "switch"
             /\ x.pc # "off" /\ ~Past(thread[Main]) /\ t \in Everyone /\ t # Main
             /\ Preparing(x) \/ Starting(x) => current = NoSession
             /\ ~Preparing(x) => s \in 1 .. Len(session) /\ s \in SessionIds /\ s # NoSession
             /\ x.op = "encrypt" => Preparing(x) \/ Starting(x)
             /\ x \in Handler /\ Shape(x) /\ x.op # "shutdown"
<1> DEFINE x == thread[t]
<1>1. Shape(x) /\ x \in Handler /\ t \in Everyone /\ t # Main /\ x.op # "shutdown"
  BY Unfolded1
<1>2. HandlerOK(x, session[x.s], Last(x.s), Len(mounts[x.s]), stack[x.s], current)
  BY DEF Inv3, AtWork, Reliable
<1>3. x.pc # "off" /\ (Reserves(x) \/ x.op = "switch")
  BY <1>1, ActiveKind
<1>4. ~Past(thread[Main])
  BY <1>3 DEF Inv3, JoinedFirst, At
<1>5. ~Preparing(x) => x.s \in 1 .. Len(session)
  BY <1>1, HasSession DEF Active
<1>6. x.s \in 1 .. Len(session) => x.s \in SessionIds /\ x.s # NoSession
  BY OpenedSession DEF Inv3
<1>7. x.op = "encrypt" => Preparing(x) \/ Starting(x)
  BY <1>1 DEF Shape, Active, Preparing, Starting, Stopping
<1>8. Preparing(x) \/ Starting(x) => current = NoSession
  BY <1>2 DEF HandlerOK
<1> QED BY <1>1, <1>2, <1>3, <1>4, <1>5, <1>6, <1>7, <1>8

\* _encrypt and _decrypt up to their mount.
LEMMA PrepareKeeps3 ==
  ASSUME InTurns, Inv1, Inv3, NEW t \in Threads,
         Create(t) \/ Fill(t) \/ CreateHidden(t) \/ Unlock(t)
  PROVE  Inv3'
<1> DEFINE x == thread[t]
           y == thread'[t]
<1>1. /\ t \in Everyone /\ thread \in [Everyone -> Handler] /\ Shape(x) /\ x \in Handler
  BY Unfolded1
<1>2. Orderly(t)
  BY HandleOrderly DEF Handle, StartMount, Create, Fill, CreateHidden, Unlock, At
<1>3. y \in Handler /\ Moves(t, y) /\ Shape(y)
  BY <1>1, <1>2, OrderlyMoves
<1>4. x.pc \in {"create", "fill", "hidden", "unlock"}
  BY DEF Create, Fill, CreateHidden, Unlock, At
<1>5. Active(x) /\ Preparing(x)
  BY <1>4 DEF Active, Preparing
<1>6. UNCHANGED <<session, mounts, stack, current>>
  BY DEF Create, Fill, CreateHidden, Unlock, others, state, system
<1>7. \/ y.op = x.op /\ y.volume = x.volume /\ y.pc \in {"fill", "hidden", "spawn"}
      \/ y.op = x.op /\ y.pc = "release"
  <2>1. \/ \E pc \in {"fill", "hidden", "spawn"} : Goto(t, pc)
        \/ Leaves(t, FALSE)
    BY DEF Create, Fill, CreateHidden, Unlock
  <2>2. ASSUME NEW pc \in {"fill", "hidden", "spawn"}, Goto(t, pc)
        PROVE  y.op = x.op /\ y.volume = x.volume /\ y.pc \in {"fill", "hidden", "spawn"}
    BY <1>1, <2>2, GotoMoves DEF Moves, Positions
  <2>3. Leaves(t, FALSE) => y.op = x.op /\ y.pc = "release"
    BY <1>1, LeavesMoves DEF Moves
  <2> QED BY <2>1, <2>2, <2>3
<1>8. /\ HandlerOK(x, session[x.s], Last(x.s), Len(mounts[x.s]), stack[x.s], current)
      /\ current = NoSession /\ Reserves(x)
      /\ t # Main
  BY <1>1, <1>4, <1>5, ControlKnows DEF Shape, Reserves, Opens
<1>9. HandlerOK(y, session[y.s], Last(y.s), Len(mounts[y.s]), stack[y.s], current)
  BY <1>1, <1>4, <1>5, <1>7, <1>8 DEF HandlerOK, Preparing, Starting, Stopping, Shape
<1> QED BY <1>1, <1>3, <1>5, <1>6, <1>7, <1>8, <1>9, ControlSame

\* The session becomes the open one.
LEMMA PublishKeeps3 ==
  ASSUME InTurns, Inv1, Inv3, NEW t \in Threads, Publish(t)
  PROVE  Inv3'
<1> DEFINE x == thread[t]
           y == thread'[t]
           s == x.s
<1>1. /\ t \in Everyone /\ thread \in [Everyone -> Handler] /\ x.pc = "publish"
  BY Unfolded1 DEF Publish, At
<1>2. Orderly(t)
  BY HandleOrderly DEF Handle, StartMount, Publish, At
<1>3. Moves(t, y)
  BY <1>1, <1>2, OrderlyMoves
<1>4. Active(x) /\ Starting(x) /\ ~Preparing(x)
  BY <1>1 DEF Active, Starting, Preparing
<1>5. /\ HandlerOK(x, session[s], Last(s), Len(mounts[s]), stack[s], current)
      /\ s \in 1 .. Len(session) /\ x \in Handler /\ Shape(x) /\ t # Main
  BY <1>4, ControlKnows
<1>6. /\ UNCHANGED <<session, mounts, stack>> /\ current' = s
  BY DEF Publish, system
<1>7. /\ x.op = "decrypt" => y.op = x.op /\ y.pc = "list" /\ y.s = s
      /\ x.op # "decrypt" => y.op = x.op /\ y.pc = "release"
  <2>1. CASE x.op = "decrypt"
    BY <1>1, <2>1, GotoMoves DEF Publish, Moves, Positions
  <2>2. CASE x.op # "decrypt"
    BY <1>1, <2>2, LeavesMoves DEF Publish, Moves
  <2> QED BY <2>1, <2>2
<1>8. StartOK(x, session[s], Last(s), Len(mounts[s]), stack[s])
  BY <1>4, <1>5 DEF HandlerOK
<1>9. x.op \in {"encrypt", "decrypt"}
  BY <1>4, <1>5 DEF Shape, Starting, Opens
<1>10. HandlerOK(y, session[y.s], Last(y.s), Len(mounts[y.s]), stack[y.s], current')
  BY <1>6, <1>7, <1>8, <1>9 DEF HandlerOK, StartOK, Preparing, Starting, Stopping
<1>11. Quiet(session[s], Last(s), Len(mounts[s]), stack[s])
  <2>1. ListsOK(session[s])
    BY <1>5, OpenedSession DEF Inv3, SessionOK
  <2> QED BY <1>1, <1>8, <2>1 DEF Quiet, Settled, ListsOK, StartOK, MountedOn, CanMount
<1> QED BY <1>1, <1>3, <1>4, <1>5, <1>6, <1>7, <1>10, <1>11, ControlSame

\* A decrypted vault is listed, or closed again.
LEMMA ListKeeps3 ==
  ASSUME InTurns, Inv1, Inv3, NEW t \in Threads, ListFiles(t) \/ ListFailed(t)
  PROVE  Inv3'
<1> DEFINE x == thread[t]
           y == thread'[t]
           s == x.s
<1>1. /\ t \in Everyone /\ thread \in [Everyone -> Handler] /\ x.pc \in {"list", "stopped"}
      /\ Active(x)
  BY Unfolded1 DEF ListFiles, ListFailed, At, Doing, Active, Stopping
<1>2. Orderly(t)
  BY HandleOrderly DEF Handle, StartMount, ListFiles, ListFailed, At, Doing
<1>3. Moves(t, y)
  BY <1>1, <1>2, OrderlyMoves
<1>4. /\ HandlerOK(x, session[s], Last(s), Len(mounts[s]), stack[s], current)
      /\ x \in Handler /\ Shape(x) /\ t # Main
  BY <1>1, ControlKnows
<1>5. x.op = "decrypt"
  BY <1>4 DEF ListFiles, ListFailed, At, Doing, Shape
<1>6. s = current /\ session[s].mode = "decrypt"
  BY <1>1, <1>4, <1>5 DEF HandlerOK, Stopping
<1>7. UNCHANGED <<session, mounts, stack>> /\ current' \in {current, NoSession}
  BY DEF ListFiles, ListFailed, others, state, system
<1>8. \/ y.op = x.op /\ y.pc = "release"
      \/ y.op = x.op /\ y.pc = "unmount" /\ y.s = s /\ current' = current
  <2>1. CASE \E ok \in BOOLEAN : Leaves(t, ok)
    BY <1>1, <2>1, LeavesMoves DEF Moves
  <2>2. CASE Goto(t, "unmount") /\ ListFiles(t)
    BY <1>1, <2>2, GotoMoves DEF Moves, Positions, ListFiles, others, state
  <2> QED BY <2>1, <2>2 DEF ListFiles, ListFailed
<1>9. HandlerOK(y, session[y.s], Last(y.s), Len(mounts[y.s]), stack[y.s], current')
  BY <1>5, <1>6, <1>8 DEF HandlerOK, Preparing, Starting, Stopping, Closes
<1> QED BY <1>1, <1>3, <1>4, <1>6, <1>7, <1>8, <1>9, ControlSame

\* Process m of a session changes, and only the last one is mounted.
LEMMA ProcessChange ==
  ASSUME NEW r, NEW p \in Seq(MountProcess), NEW p2 \in Seq(MountProcess), NEW q, NEW q2,
         SessionOK(r, p, q), Len(p2) = Len(p), NEW m \in 1 .. Len(p),
         \A k \in 1 .. Len(p) : k # m => p2[k] = p[k],
         p2[m].volume = p[m].volume,
         m # Len(p) => p2[m].st # "mounted" /\ ~CanMount(p2[m]) /\ q2 = q,
         m = Len(p) => /\ q2 \in {<<>>, <<m>>}
                       /\ p2[m].st = "mounted" => q2 = <<m>>
                       /\ CanMount(p2[m]) => q2 = <<>>
  PROVE  SessionOK(r, p2, q2)
<1> DEFINE n == Len(p)
<1>1. n \in Nat /\ p2 # <<>> /\ r.process \in 1 .. n /\ ListsOK(r) /\ n # 0
  BY DEF SessionOK
<1>2. r.mode = "encrypt" => \A k \in 1 .. n :
        p2[k].volume = IF k = 1 THEN "outer" ELSE "hidden"
  BY DEF SessionOK
<1>3. \A k \in 1 .. n - 1 : p2[k].st # "mounted" /\ ~CanMount(p2[k])
  <2>1. ASSUME NEW k \in 1 .. n - 1
        PROVE  p2[k].st # "mounted" /\ ~CanMount(p2[k])
    <3>1. p[k].st # "mounted" /\ ~CanMount(p[k]) /\ k \in 1 .. n /\ k # n
      BY <1>1 DEF SessionOK
    <3> QED BY <3>1
  <2> QED BY <2>1
<1>4. /\ q2 \in {<<>>, <<n>>}
      /\ p2[n].st = "mounted" => q2 = <<n>>
      /\ CanMount(p2[n]) => q2 = <<>>
  <2>1. CASE m = n
    BY <2>1
  <2>2. CASE m # n
    <3>1. n \in 1 .. n
      BY <1>1
    <3>2. p2[n] = p[n] /\ q2 = q
      BY <2>2, <3>1
    <3> QED BY <3>2 DEF SessionOK
  <2> QED BY <2>1, <2>2
<1> HIDE DEF n
<1>5. Len(p2) = n
  BY DEF n
<1> QED BY <1>1, <1>2, <1>3, <1>4, <1>5 DEF SessionOK

\* A process is started for volume v.
LEMMA SpawnedProcess ==
  ASSUME Inv1, NEW s \in SessionIds, NEW v \in Volumes, Spawn(s, v)
  PROVE  /\ mounts' \in [SessionIds -> Seq(MountProcess)]
         /\ \A r \in SessionIds : r # s => mounts'[r] = mounts[r]
         /\ Len(mounts'[s]) = Len(mounts[s]) + 1 /\ Len(mounts[s]) \in Nat
         /\ \A k \in 1 .. Len(mounts[s]) : mounts'[s][k] = mounts[s][k]
         /\ LET l == mounts'[s][Len(mounts[s]) + 1]
            IN  l.st = "starting" /\ ~l.terminated /\ l.volume = v
<1> DEFINE p == [volume |-> v, terminated |-> FALSE, st |-> "starting"]
           q == mounts[s]
<1>1. mounts \in [SessionIds -> Seq(MountProcess)] /\ dirs \subseteq SessionIds
  BY Unfolded1
<1>2. p \in MountProcess
  BY DEF MountProcess
<1>3. q \in Seq(MountProcess) /\ Len(q) \in Nat
  BY <1>1
<1>4. mounts'[s] = Append(q, p)
  BY <1>1 DEF Spawn
<1>5. Append(q, p)[Len(q) + 1] = p
  BY <1>2, <1>3
<1>6. p.volume = v
  OBVIOUS
<1> HIDE DEF p
<1> QED BY <1>1, <1>3, <1>4, <1>5, <1>6, SpawnChanges

\* Another process is the last of a session, whose record becomes r.
LEMMA SpawnedSession ==
  ASSUME NEW r, NEW p \in Seq(MountProcess), NEW p2 \in Seq(MountProcess),
         Len(p2) = Len(p) + 1, \A k \in 1 .. Len(p) : p2[k] = p[k],
         p = <<>> \/ \E q : SessionOK(r, p, q),
         ListsOK(r), r.process \in 1 .. Len(p) \union {1},
         r.mode = "encrypt" =>
           p2[Len(p) + 1].volume = IF p = <<>> THEN "outer" ELSE "hidden",
         p # <<>> => p[Len(p)].st # "mounted" /\ ~CanMount(p[Len(p)]),
         p2[Len(p) + 1].st # "mounted"
  PROVE  SessionOK(r, p2, <<>>)
<1> DEFINE n == Len(p)
<1>1. n \in Nat /\ (p = <<>> <=> n = 0)
  OBVIOUS
<1>2. p2 # <<>> /\ r.process \in 1 .. n + 1
  BY <1>1
<1>3. r.mode = "encrypt" => \A k \in 1 .. n + 1 :
        p2[k].volume = IF k = 1 THEN "outer" ELSE "hidden"
  <2>1. ASSUME r.mode = "encrypt", NEW k \in 1 .. n
        PROVE  p2[k].volume = IF k = 1 THEN "outer" ELSE "hidden"
    <3>1. p # <<>>
      BY <1>1, <2>1
    <3> QED BY <2>1, <3>1 DEF SessionOK
  <2> QED BY <1>1, <2>1
<1>4. \A k \in 1 .. n : p2[k].st # "mounted" /\ ~CanMount(p2[k])
  <2>1. ASSUME NEW k \in 1 .. n
        PROVE  p[k].st # "mounted" /\ ~CanMount(p[k])
    <3>1. p # <<>>
      BY <1>1, <2>1
    <3>2. CASE k = n
      BY <3>1, <3>2
    <3>3. CASE k # n
      <4>1. k \in 1 .. n - 1
        BY <1>1, <3>3
      <4> QED BY <3>1, <4>1 DEF SessionOK
    <3> QED BY <3>2, <3>3
  <2> QED BY <2>1
<1>5. (n + 1) - 1 = n
  BY <1>1
<1> HIDE DEF n
<1>6. Len(p2) = n + 1
  BY DEF n
<1>7. p2[n + 1].st # "mounted"
  BY DEF n
<1> QED BY <1>2, <1>3, <1>4, <1>5, <1>6, <1>7 DEF SessionOK

\* The mount of a new session is started.
LEMMA StartMountKeeps3 ==
  ASSUME InTurns, Inv1, Inv3, NEW t \in Threads, StartMount(t)
  PROVE  Inv3'
<1> DEFINE x == thread[t]
           y == thread'[t]
           n == Len(session)
           r == NewSession(x)
<1>1. /\ t \in Everyone /\ t # Main /\ x \in Handler /\ n \in Nat /\ Shape(x)
      /\ mounts \in [SessionIds -> Seq(MountProcess)] /\ dirs \subseteq SessionIds
  BY Unfolded1
<1>2. /\ Moves(t, y) /\ y.pc = "await" /\ y.op = x.op /\ y.s = n + 1 /\ y.m = 1
  BY StartMountSession DEF Moves
<1>3. /\ Len(session') = n + 1 /\ n + 1 \in SessionIds
      /\ session'[n + 1] = r /\ r \in MountSession /\ r.process = 1 /\ r.mode = x.op
      /\ \A s \in 1 .. n : session'[s] = session[s]
  <2>1. n < MaxSessions /\ MaxSessions \in Nat
    BY StartMountSession, DashboardAssumption
  <2>2. n + 1 \in SessionIds
    BY <1>1, <2>1 DEF SessionIds
  <2> QED BY <2>2, StartMountSession
<1>4. /\ x.pc = "spawn" /\ UNCHANGED <<current, stack>> /\ Spawn(n + 1, x.volume)
  BY DEF StartMount, At, state
<1>5. Active(x) /\ Preparing(x)
  BY <1>4 DEF Active, Preparing
<1>6. /\ HandlerOK(x, session[x.s], Last(x.s), Len(mounts[x.s]), stack[x.s], current)
      /\ current = NoSession
  BY <1>5, ControlKnows
<1>7. x.volume \in Volumes /\ (x.op = "encrypt" => x.volume = "outer")
  BY <1>1, <1>5, <1>6, HandlerFields DEF HandlerOK
<1>8. mounts[n + 1] = <<>> /\ stack[n + 1] = <<>>
  BY <1>1, <1>3 DEF Inv3, SessionsOK
<1>9. /\ mounts' \in [SessionIds -> Seq(MountProcess)]
      /\ \A s \in SessionIds : s # n + 1 => mounts'[s] = mounts[s]
      /\ Len(mounts'[n + 1]) = 1
      /\ LET l == mounts'[n + 1][1]
         IN  l.st = "starting" /\ ~l.terminated /\ l.volume = x.volume
  <2> DEFINE k == n + 1
  <2>1. k \in SessionIds /\ Spawn(k, x.volume) /\ mounts[k] = <<>>
    BY <1>3, <1>4, <1>8
  <2> HIDE DEF x, k
  <2>2. /\ mounts' \in [SessionIds -> Seq(MountProcess)]
        /\ \A s \in SessionIds : s # k => mounts'[s] = mounts[s]
        /\ Len(mounts'[k]) = Len(mounts[k]) + 1
        /\ LET l == mounts'[k][Len(mounts[k]) + 1]
           IN  l.st = "starting" /\ ~l.terminated /\ l.volume = x.volume
    BY <1>7, <2>1, SpawnedProcess DEF x
  <2>3. Len(mounts[k]) = 0
    BY <2>1
  <2> QED BY <2>2, <2>3 DEF k
<1>10. /\ r.phase # "hidden" /\ r.uploaded_outer = {} /\ ListsOK(r)
  BY <1>1 DEF NewSession, FirstPhase, ListsOK
<1> HIDE DEF r, n
<1>11. SessionOK(r, mounts'[n + 1], <<>>)
  <2> DEFINE p == mounts[n + 1]
             p2 == mounts'[n + 1]
  <2>1. /\ p2 \in Seq(MountProcess) /\ p \in Seq(MountProcess)
        /\ Len(p) = 0 /\ p = <<>> /\ Len(p2) = Len(p) + 1
    BY <1>1, <1>3, <1>8, <1>9
  <2>2. /\ p2[Len(p) + 1].st = "starting"
        /\ r.mode = "encrypt" => p2[Len(p) + 1].volume = "outer"
    BY <1>3, <1>7, <1>9, <2>1
  <2>3. /\ r.process \in 1 .. Len(p) \union {1}
        /\ \A k \in 1 .. Len(p) : p2[k] = p[k]
    BY <1>3, <2>1
  <2> HIDE DEF p, p2
  <2>4. SessionOK(r, p2, <<>>)
    BY <1>10, <2>1, <2>2, <2>3, SpawnedSession
  <2> QED BY <2>4 DEF p2
<1>12. SessionsOK'
  <2>1. ASSUME NEW s \in SessionIds, s # n + 1
        PROVE  IF s \in 1 .. n + 1
               THEN SessionOK(session'[s], mounts'[s], stack[s])
               ELSE mounts'[s] = <<>> /\ stack[s] = <<>>
    <3>1. IF s \in 1 .. n THEN SessionOK(session[s], mounts[s], stack[s])
                          ELSE mounts[s] = <<>> /\ stack[s] = <<>>
      BY DEF Inv3, SessionsOK, n
    <3>2. mounts'[s] = mounts[s] /\ (s \in 1 .. n + 1 <=> s \in 1 .. n)
      BY <1>1, <1>9, <2>1 DEF SessionIds, n
    <3> QED BY <1>3, <3>1, <3>2
  <2>2. n + 1 \in 1 .. n + 1
    BY <1>1 DEF n
  <2> QED BY <1>3, <1>4, <1>8, <1>11, <2>1, <2>2 DEF SessionsOK
<1>13. Booked'
  <2>1. \A s \in 1 .. n + 1 : s \in 1 .. n \/ s = n + 1
    BY <1>1 DEF n
  <2>2. \A s \in 1 .. Len(session') :
           \/ session'[s].uploaded_outer \subseteq session'[s].own
           \/ /\ s \in 1 .. Len(session) /\ session'[s].own = session[s].own
              /\ session'[s].uploaded_files = session[s].uploaded_files
              /\ session'[s].uploaded_outer = session[s].uploaded_outer
    BY <1>3, <1>10, <2>1 DEF n
  <2> QED BY <1>1, <1>2, <1>4, <2>2, BookedKept DEF Inv3
<1>14. Reliable(thread[t])'
  <2>1. StartOK(y, r, mounts'[n + 1][1], 1, <<>>)
    BY <1>2, <1>3, <1>9, <1>10 DEF StartOK
  <2>2. x.op \in {"encrypt", "decrypt"}
    BY <1>1, <1>4 DEF Shape, Opens
  <2>3. HandlerOK(y, r, mounts'[n + 1][1], 1, <<>>, current)
    BY <1>2, <1>6, <2>1, <2>2 DEF HandlerOK, Preparing, Starting, Stopping
  <2> QED BY <1>2, <1>3, <1>4, <1>8, <1>9, <2>3 DEF Reliable, Last
<1> QED BY <1>1, <1>2, <1>4, <1>5, <1>6, <1>12, <1>13, <1>14, ControlStep

\* Only session s changes.
LEMMA SessionsStep ==
  ASSUME SessionsOK, NEW s \in 1 .. Len(session), Len(session') = Len(session),
         \A k \in 1 .. Len(session) : k # s => session'[k] = session[k],
         \A k \in SessionIds : k # s => mounts'[k] = mounts[k] /\ stack'[k] = stack[k],
         SessionOK(session'[s], mounts'[s], stack'[s])
  PROVE  SessionsOK'
BY DEF SessionsOK

\* The lists of all sessions stay.
LEMMA ListsStay ==
  ASSUME Inv1, Inv3, NEW t \in Everyone, Active(thread[t]), Moves(t, thread'[t]),
         session' = session
  PROVE  Booked'
<1>1. Shape(thread[t]) /\ thread[t] \in Handler
  BY Unfolded1
<1>2. thread[t].pc # "count"
  BY <1>1 DEF Shape, Active, Preparing, Starting, Stopping
<1>3. \A s \in 1 .. Len(session') : /\ s \in 1 .. Len(session)
        /\ session'[s].own = session[s].own
        /\ session'[s].uploaded_files = session[s].uploaded_files
        /\ session'[s].uploaded_outer = session[s].uploaded_outer
  OBVIOUS
<1> QED BY <1>2, <1>3, BookedKept DEF Inv3

\* start_mount waits, and gives up.
LEMMA AwaitMountKeeps3 ==
  ASSUME InTurns, Inv1, Inv3, NEW t \in Threads, AwaitMount(t) \/ MountTimedOut(t)
  PROVE  Inv3'
<1> DEFINE x == thread[t]
           y == thread'[t]
           s == x.s
           n == Len(mounts[s])
           l == Last(s)
<1>1. /\ t \in Everyone /\ thread \in [Everyone -> Handler] /\ x.pc \in {"await", "terminated"}
      /\ mounts \in [SessionIds -> Seq(MountProcess)]
  BY Unfolded1 DEF AwaitMount, MountTimedOut, At
<1>2. Orderly(t)
  BY HandleOrderly DEF Handle, StartMount, AwaitMount, MountTimedOut, At
<1>3. Moves(t, y)
  BY <1>1, <1>2, OrderlyMoves
<1>4. Active(x) /\ Starting(x) /\ ~Preparing(x)
  BY <1>1 DEF Active, Starting, Preparing
<1>5. /\ HandlerOK(x, session[s], l, n, stack[s], current) /\ current = NoSession
      /\ s \in 1 .. Len(session) /\ s \in SessionIds /\ x \in Handler /\ Shape(x) /\ t # Main
  BY <1>4, ControlKnows
<1>6. /\ UNCHANGED <<session, stack, current>>
  BY DEF AwaitMount, MountTimedOut, state
<1>7. /\ mounts[s] \in Seq(MountProcess) /\ SessionOK(session[s], mounts[s], stack[s])
      /\ l \in MountProcess
  BY <1>5, OpenedSession DEF Inv3
<1>8. StartOK(x, session[s], l, n, stack[s]) /\ n = 1 /\ x.m = 1 /\ l = mounts[s][1]
  BY <1>4, <1>5 DEF HandlerOK, StartOK, Last
<1>9. x.op \in {"encrypt", "decrypt"}
  BY <1>4, <1>5 DEF Shape, Starting, Opens
<1>10. ASSUME y.op = x.op, y.pc = "release"
       PROVE  \A r, ll, nn, q, cur : HandlerOK(y, r, ll, nn, q, cur)
  BY <1>9, <1>10, Unconcerned DEF Active, Preparing, Starting, Stopping
<1>11. ASSUME mounts' = mounts, HandlerOK(y, session[y.s], Last(y.s), Len(mounts[y.s]),
                                           stack[y.s], current),
              y.op = x.op
       PROVE  Inv3'
  BY <1>1, <1>3, <1>4, <1>5, <1>6, <1>11, ControlSame
<1>12. CASE Leaves(t, FALSE) /\ mounts' = mounts
  <2>1. y.op = x.op /\ y.pc = "release"
    BY <1>1, <1>12, LeavesMoves DEF Moves
  <2> QED BY <1>10, <1>11, <1>12, <2>1
<1>13. CASE AwaitMount(t) /\ IsMount(s) /\ Goto(t, "publish") /\ mounts' = mounts
  <2>1. y.op = x.op /\ y.pc = "publish" /\ y.s = s /\ y.m = x.m
    BY <1>1, <1>13, GotoMoves DEF Moves, Positions
  <2>2. x.pc = "await" /\ stack[s] # <<>>
    BY <1>13 DEF AwaitMount, At, IsMount
  <2>3. stack[s] = <<n>>
    BY <1>7, <2>2 DEF SessionOK
  <2>4. StartOK(y, session[s], l, n, stack[s])
    BY <1>8, <2>1, <2>2, <2>3 DEF StartOK, MountedOn
  <2>5. HandlerOK(y, session[s], l, n, stack[s], current)
    BY <1>5, <1>9, <2>1, <2>4 DEF HandlerOK, Preparing, Starting, Stopping
  <2> QED BY <1>11, <1>13, <2>1, <2>5
<1>14. ASSUME OneProcess(s, 1), mounts'[s][1].volume = l.volume,
              mounts'[s][1].st = "dead" \/ (mounts'[s][1].st = l.st /\ mounts'[s][1].terminated),
              HandlerOK(y, session[y.s], mounts'[y.s][Len(mounts'[y.s])],
                       Len(mounts'[y.s]), stack[y.s], current),
              y.op = x.op
       PROVE  Inv3'
  <2>1. SessionOK(session[s], mounts'[s], stack[s])
    <3> DEFINE p2 == mounts'[s]
               p == mounts[s]
    <3>1. p2 \in Seq(MountProcess) /\ Len(p2) = Len(p) /\ Len(p) = 1
          /\ \A k \in 1 .. Len(p) : k # 1 => p2[k] = p[k]
      BY <1>5, <1>8, <1>14 DEF OneProcess
    <3>2. /\ stack[s] \in {<<>>, <<1>>} /\ p2[1].volume = p[1].volume
          /\ p2[1].st = "mounted" => stack[s] = <<1>>
          /\ ~CanMount(p2[1])
      BY <1>7, <1>8, <1>14 DEF SessionOK, CanMount
    <3> HIDE DEF p2, p
    <3> QED BY <1>7, <3>1, <3>2, ProcessChange DEF p, p2
  <2>2. SessionsOK'
    BY <1>5, <1>6, <1>14, <2>1, SessionsStep DEF Inv3, OneProcess
  <2>3. Booked'
    BY <1>1, <1>3, <1>4, <1>6, ListsStay
  <2>4. Reliable(thread[t])'
    BY <1>6, <1>14 DEF Reliable, Last
  <2> QED BY <1>1, <1>3, <1>4, <1>5, <1>6, <1>14, <2>2, <2>3, <2>4, ControlStep
<1>15. CASE AwaitMount(t) /\ Terminate(t) /\ Goto(t, "terminated")
  <2>1. y.op = x.op /\ y.pc = "terminated" /\ y.s = s /\ y.m = x.m
    BY <1>1, <1>15, GotoMoves DEF Moves, Positions
  <2>2. /\ OneProcess(s, x.m)
        /\ x.m \in 1 .. Len(mounts[s]) =>
              /\ mounts'[s][x.m].st = mounts[s][x.m].st
              /\ mounts'[s][x.m].volume = mounts[s][x.m].volume
              /\ mounts'[s][x.m].terminated = TRUE
    BY <1>1, <1>5, <1>15, TerminateChanges
  <2>3. /\ OneProcess(s, 1) /\ mounts'[s][1].st = l.st
        /\ mounts'[s][1].volume = l.volume /\ mounts'[s][1].terminated
    BY <1>8, <2>2
  <2>4. Len(mounts'[s]) = n
    BY <2>3 DEF OneProcess
  <2>5. \A ll : StartOK(y, session[s], ll, n, stack[s])
    BY <1>8, <2>1 DEF StartOK
  <2>6. \A ll : HandlerOK(y, session[s], ll, n, stack[s], current)
    BY <1>5, <1>9, <2>1, <2>5 DEF HandlerOK, Preparing, Starting, Stopping
  <2> QED BY <1>14, <2>1, <2>3, <2>4, <2>6
<1>16. CASE MountTimedOut(t) /\ Status(s, x.m, "dead") /\ Leaves(t, FALSE)
  <2>1. y.op = x.op /\ y.pc = "release"
    BY <1>1, <1>16, LeavesMoves DEF Moves
  <2>2. /\ OneProcess(s, x.m)
        /\ x.m \in 1 .. Len(mounts[s]) =>
              /\ mounts'[s][x.m].st = "dead" /\ mounts'[s][x.m].volume = mounts[s][x.m].volume
    BY <1>1, <1>5, <1>16, StatusChanges
  <2>3. OneProcess(s, 1) /\ mounts'[s][1].st = "dead" /\ mounts'[s][1].volume = l.volume
    BY <1>8, <2>2
  <2> QED BY <1>10, <1>14, <2>1, <2>3
<1> QED BY <1>12, <1>13, <1>15, <1>16 DEF AwaitMount, MountTimedOut, EndProcess

\* No file is uploaded while a handler opens or closes a vault, so that the
\* lists of the outer volume agree.
LEMMA ListsAgree ==
  ASSUME InTurns, Inv1, Inv3, NEW t \in Everyone, Active(thread[t]),
         NEW s \in 1 .. Len(session)
  PROVE  session[s].uploaded_outer \subseteq session[s].own
<1>1. \A u \in Threads : thread[u].pc # "count"
  <2>1. ASSUME NEW u \in Threads, thread[u].pc = "count"
        PROVE  FALSE
    <3>1. Shape(thread[u]) /\ u \in Everyone
      BY Unfolded1 DEF Everyone
    <3>2. thread[u].op = "upload"
      BY <2>1, <3>1 DEF Shape
    <3>3. ~Active(thread[u])
      BY <2>1, <3>2 DEF Active, Preparing, Starting, Stopping
    <3> QED BY <3>2, <3>3, OneInControl
  <2> QED BY <2>1
<1> QED BY <1>1 DEF Inv3, Booked, Counting

\* What the handler that switches the phase knows.
LEMMA SwitchKnows ==
  ASSUME InTurns, Inv1, Inv3, NEW t \in Threads, thread[t].op = "switch"
  PROVE  LET x == thread[t]
             s == x.s
         IN  /\ Active(x) /\ ~Preparing(x) /\ ~Starting(x) /\ t \in Everyone /\ t # Main
             /\ s = current /\ s \in 1 .. Len(session) /\ s \in SessionIds /\ s # NoSession
             /\ SwitchOK(x, session[s], Last(s), Len(mounts[s]), stack[s])
             /\ SessionOK(session[s], mounts[s], stack[s]) /\ session[s] \in MountSession
             /\ mounts[s] \in Seq(MountProcess) /\ Len(mounts[s]) \in Nat \ {0}
             /\ Last(s) \in MountProcess /\ Last(s) = mounts[s][Len(mounts[s])]
             /\ x.m \in Nat /\ x \in Handler
<1> DEFINE x == thread[t]
           s == x.s
<1>1. Active(x)
  BY DEF Active
<1>2. /\ HandlerOK(x, session[s], Last(s), Len(mounts[s]), stack[s], current)
      /\ t \in Everyone /\ t # Main /\ x \in Handler /\ Shape(x)
      /\ ~Preparing(x) => s \in 1 .. Len(session) /\ s \in SessionIds /\ s # NoSession
  BY <1>1, ControlKnows
<1>3. ~Preparing(x) /\ ~Starting(x)
  BY <1>2 DEF Shape, Preparing, Starting, Opens
<1>4. s = current /\ SwitchOK(x, session[s], Last(s), Len(mounts[s]), stack[s])
  BY <1>2 DEF HandlerOK
<1>5. x.m \in Nat
  BY <1>2, HandlerFields
<1> QED BY <1>1, <1>2, <1>3, <1>4, <1>5, OpenedSession DEF Inv3, Last

\* A step of that handler that changes no record.
LEMMA SwitchStep ==
  ASSUME InTurns, Inv1, Inv3, NEW t \in Threads, thread[t].op = "switch",
         Moves(t, thread'[t]), UNCHANGED <<session, current>>,
         mounts' \in [SessionIds -> Seq(MountProcess)],
         \A k \in SessionIds : k # current => mounts'[k] = mounts[k] /\ stack'[k] = stack[k],
         LET y == thread'[t]
             r == session[current]
             n == Len(mounts'[current])
             l == mounts'[current][n]
             q == stack'[current]
         IN  /\ SessionOK(r, mounts'[current], q)
             /\ \/ /\ y.op = "switch" /\ y.s = current /\ ~Preparing(y) /\ ~Starting(y)
                   /\ SwitchOK(y, r, l, n, q)
                \/ y.op = "none" /\ y.pc = "ready" /\ Quiet(r, l, n, q)
  PROVE  Inv3'
<1> DEFINE x == thread[t]
           y == thread'[t]
<1>1. /\ Active(x) /\ t \in Everyone /\ t # Main
      /\ current \in 1 .. Len(session) /\ current \in SessionIds
  BY SwitchKnows
<1>2. SessionsOK'
  BY <1>1, SessionsStep DEF Inv3
<1>3. Booked'
  BY <1>1, ListsStay
<1>4. CASE y.op = "switch"
  <2>1. HandlerOK(y, session[current], mounts'[current][Len(mounts'[current])],
                  Len(mounts'[current]), stack'[current], current)
    BY <1>4 DEF HandlerOK
  <2>2. Reliable(thread[t])'
    BY <1>4, <2>1 DEF Reliable, Last
  <2>3. Holder(y)
    BY <1>4 DEF Holder
  <2> QED BY <1>1, <1>2, <1>3, <1>4, <2>2, <2>3, ControlStep
<1>5. CASE y.op # "switch"
  <2>1. y.op = "none" /\ y.pc = "ready"
    BY <1>5
  <2>2. ~Active(y)
    BY <2>1 DEF Active, Preparing, Starting, Stopping
  <2>3. Reliable(thread[t])'
    BY <2>1, <2>2, Unconcerned DEF Reliable
  <2>4. Quiet(session[current], Last(current), Len(mounts[current]), stack[current])'
    BY <1>5 DEF Last
  <2> QED BY <1>1, <1>2, <1>3, <2>1, <2>3, <2>4, ControlStep
<1> QED BY <1>4, <1>5

\* The hidden volume is to be mounted.
LEMMA RemountKeeps3 ==
  ASSUME InTurns, Inv1, Inv3, NEW t \in Threads, Remount(t)
  PROVE  Inv3'
<1> DEFINE x == thread[t]
           y == thread'[t]
           s == x.s
           r == session[s]
           n == Len(mounts[s])
           l == Last(s)
<1>1. x.op = "switch" /\ x.pc = "stopped" /\ UNCHANGED <<session, current, stack>>
  BY DEF Remount, Doing, state
<1>2. thread \in [Everyone -> Handler] /\ mounts \in [SessionIds -> Seq(MountProcess)]
  BY Unfolded1
<1>3. /\ t \in Everyone /\ s = current /\ s \in SessionIds
      /\ SwitchOK(x, r, l, n, stack[s]) /\ SessionOK(r, mounts[s], stack[s])
      /\ n \in Nat \ {0} /\ l = mounts[s][n] /\ mounts[s] \in Seq(MountProcess)
  BY <1>1, SwitchKnows
<1>4. /\ stack[s] = <<>> /\ ~CanMount(l) /\ r.phase = "outer" /\ r.process = 1
      /\ r.uploaded_files = "own" /\ CoverFiles \subseteq r.own
  BY <1>1, <1>3 DEF SwitchOK, Stopping
<1>5. CASE Replies(t) /\ mounts' = mounts
  <2>1. Moves(t, y) /\ y.op = "none" /\ y.pc = "ready"
    BY <1>2, <1>3, <1>5, RepliesMoves DEF Moves
  <2>2. Quiet(r, l, n, stack[s])
    BY <1>4 DEF Quiet, Settled, Spent
  <2> QED BY <1>1, <1>2, <1>3, <1>5, <2>1, <2>2, SwitchStep
<1>6. CASE Spawn(s, "hidden") /\ Advances(t, "remounting", n + 1)
  <2> DEFINE p == mounts[s]
             p2 == mounts'[s]
             k == n + 1
  <2>1. /\ Moves(t, y) /\ y.op = "switch" /\ y.s = s /\ y.m = k /\ y.pc = "remounting"
    <3>1. n + 1 \in Nat /\ "remounting" \in Positions
      BY <1>3 DEF Positions
    <3> HIDE DEF n
    <3> QED BY <1>1, <1>2, <1>3, <1>6, <3>1, AdvancesMoves DEF Moves
  <2>2. /\ mounts' \in [SessionIds -> Seq(MountProcess)]
        /\ \A j \in SessionIds : j # s => mounts'[j] = mounts[j]
        /\ Len(p2) = Len(p) + 1 /\ \A j \in 1 .. Len(p) : p2[j] = p[j]
        /\ p2[Len(p) + 1].st = "starting" /\ ~p2[Len(p) + 1].terminated
        /\ p2[Len(p) + 1].volume = "hidden"
    <3>1. "hidden" \in Volumes
      BY DEF Volumes
    <3> QED BY <1>3, <1>6, <3>1, SpawnedProcess
  <2>3. p2 \in Seq(MountProcess) /\ p # <<>> /\ p[Len(p)].st # "mounted"
        /\ ~CanMount(p[Len(p)]) /\ ListsOK(r) /\ r.process \in 1 .. Len(p) \union {1}
    BY <1>3, <1>4, <2>2 DEF SessionOK
  <2>4. SessionOK(r, p2, <<>>)
    <3> HIDE DEF p, p2, r
    <3>1. \E q : SessionOK(r, p, q)
      BY <1>3 DEF p, r
    <3>2. p \in Seq(MountProcess)
      BY <1>3 DEF p
    <3>3. p2[Len(p) + 1].st # "mounted"
      BY <2>2
    <3> QED BY <2>2, <2>3, <3>1, <3>2, <3>3, SpawnedSession
  <2>5. k > 1 /\ Len(p2) = k /\ p2[k].st = "starting" /\ ~p2[k].terminated
    BY <1>3, <2>2
  <2> HIDE DEF k, p2
  <2>6. SwitchOK(y, r, p2[k], k, <<>>)
    BY <1>1, <1>3, <1>4, <2>1, <2>5 DEF SwitchOK, Stopping
  <2>7. ~Preparing(y) /\ ~Starting(y)
    BY <2>1 DEF Preparing, Starting
  <2> QED BY <1>1, <1>3, <1>4, <2>1, <2>2, <2>4, <2>5, <2>6, <2>7, SwitchStep DEF p2
<1> QED BY <1>5, <1>6 DEF Remount, Advances

\* It is mounted, or it is not.
LEMMA AwaitRemountKeeps3 ==
  ASSUME InTurns, Inv1, Inv3, NEW t \in Threads, AwaitRemount(t)
  PROVE  Inv3'
<1> DEFINE x == thread[t]
           y == thread'[t]
           s == x.s
           r == session[s]
           n == Len(mounts[s])
           l == Last(s)
<1>1. x.pc = "remounting" /\ UNCHANGED <<session, current, stack>>
  BY DEF AwaitRemount, At, state
<1>2. /\ thread \in [Everyone -> Handler] /\ mounts \in [SessionIds -> Seq(MountProcess)]
      /\ x.op = "switch"
  BY <1>1, Unfolded1 DEF Shape, Everyone
<1>3. /\ t \in Everyone /\ s = current /\ s \in SessionIds
      /\ SwitchOK(x, r, l, n, stack[s]) /\ SessionOK(r, mounts[s], stack[s])
      /\ n \in Nat \ {0} /\ l = mounts[s][n] /\ mounts[s] \in Seq(MountProcess)
  BY <1>2, SwitchKnows
<1>4. /\ x.m = n /\ n > 1 /\ ~l.terminated /\ (l.st = "mounted" \/ stack[s] = <<>>)
      /\ r.phase = "outer" /\ r.process = 1
      /\ r.uploaded_files = "own" /\ CoverFiles \subseteq r.own
  BY <1>1, <1>3 DEF SwitchOK
<1>5. ASSUME NEW l2, ~CanMount(l2)
      PROVE  Quiet(r, l2, n, stack[s])
  BY <1>4, <1>5 DEF Quiet, Settled, Spent
<1>6. Replies(t) => Moves(t, y) /\ y.op = "none" /\ y.pc = "ready"
  BY <1>2, <1>3, RepliesMoves DEF Moves
<1>7. CASE Dead(t) /\ Replies(t) /\ mounts' = mounts
  <2>1. ~CanMount(l)
    BY <1>3, <1>4, <1>7 DEF CanMount, Dead
  <2> QED BY <1>1, <1>2, <1>3, <1>5, <1>6, <1>7, <2>1, SwitchStep
<1>8. CASE RemountSeen(t) /\ Goto(t, "process") /\ mounts' = mounts
  <2>1. Moves(t, y) /\ y.op = "switch" /\ y.s = s /\ y.m = n /\ y.pc = "process"
    BY <1>2, <1>3, <1>4, <1>8, GotoMoves DEF Moves, Positions
  <2>2. stack[s] # <<>>
    BY <1>8 DEF RemountSeen, IsMount
  <2>3. stack[s] = <<n>> /\ l.st = "mounted"
    BY <1>3, <1>4, <2>2 DEF SessionOK
  <2>4. SwitchOK(y, r, l, n, stack[s])
    BY <1>1, <1>3, <1>4, <2>1, <2>3 DEF SwitchOK, MountedOn, Stopping
  <2>5. ~Preparing(y) /\ ~Starting(y)
    BY <2>1 DEF Preparing, Starting
  <2> QED BY <1>1, <1>2, <1>3, <1>8, <2>1, <2>4, <2>5, SwitchStep
<1>9. CASE Terminate(t) /\ Replies(t)
  <2> DEFINE p == mounts[s]
             p2 == mounts'[s]
  <2>1. /\ OneProcess(s, x.m)
        /\ x.m \in 1 .. Len(mounts[s]) =>
              /\ mounts'[s][x.m].st = mounts[s][x.m].st
              /\ mounts'[s][x.m].volume = mounts[s][x.m].volume
              /\ mounts'[s][x.m].terminated = TRUE
    BY <1>2, <1>3, <1>9, TerminateChanges
  <2>2. n \in 1 .. n
    BY <1>3
  <2>3. /\ mounts' \in [SessionIds -> Seq(MountProcess)]
        /\ \A j \in SessionIds : j # s => mounts'[j] = mounts[j]
        /\ p2 \in Seq(MountProcess) /\ Len(p2) = n
        /\ \A j \in 1 .. n : j # n => p2[j] = p[j]
        /\ p2[n].st = p[n].st /\ p2[n].volume = p[n].volume /\ p2[n].terminated
    BY <1>3, <1>4, <2>1, <2>2 DEF OneProcess
  <2>4. /\ stack[s] \in {<<>>, <<n>>} /\ ~CanMount(p2[n])
        /\ p2[n].st = "mounted" => stack[s] = <<n>>
    BY <1>3, <2>3 DEF SessionOK, CanMount
  <2>5. SessionOK(r, p2, stack[s])
    <3> DEFINE q == stack[s]
    <3>1. SessionOK(r, p, q) /\ p \in Seq(MountProcess) /\ n = Len(p) /\ Len(p2) = Len(p)
      BY <1>3, <2>3
    <3>2. /\ n \in 1 .. Len(p) /\ p2 \in Seq(MountProcess)
          /\ \A j \in 1 .. Len(p) : j # n => p2[j] = p[j]
          /\ p2[n].volume = p[n].volume
          /\ q \in {<<>>, <<n>>} /\ ~CanMount(p2[n]) /\ (p2[n].st = "mounted" => q = <<n>>)
      BY <2>2, <2>3, <2>4, <3>1
    <3> HIDE DEF p2, p, r, n, q
    <3>3. SessionOK(r, p2, q)
      BY <3>1, <3>2, ProcessChange
    <3> QED BY <3>3 DEF q
  <2> QED BY <1>1, <1>2, <1>3, <1>5, <1>6, <1>9, <2>3, <2>4, <2>5, SwitchStep
<1> QED BY <1>7, <1>8, <1>9 DEF AwaitRemount

\* The four assignments.
LEMMA AssignKeeps3 ==
  ASSUME InTurns, Inv1, Inv3, NEW t \in Threads, Assign(t)
  PROVE  Inv3'
<1> DEFINE x == thread[t]
           y == thread'[t]
           s == x.s
           r == session[s]
           n == Len(mounts[s])
           l == Last(s)
           q == stack[s]
<1>1. /\ x.pc \in {"process", "phase", "expected", "uploaded"}
      /\ UNCHANGED <<current, stack, mounts>>
  BY DEF Assign, At, state, system
<1>2. /\ thread \in [Everyone -> Handler] /\ session \in Seq(MountSession)
      /\ x.op = "switch"
  BY <1>1, Unfolded1 DEF Shape, Everyone
<1>3. /\ t \in Everyone /\ t # Main /\ s = current /\ s \in 1 .. Len(session)
      /\ Active(x) /\ x.m \in Nat /\ r \in MountSession
      /\ SwitchOK(x, r, l, n, q) /\ SessionOK(r, mounts[s], q)
      /\ n \in Nat \ {0}
  BY <1>2, SwitchKnows
<1>4. r.uploaded_outer \subseteq r.own
  BY <1>3, ListsAgree
<1>5. ASSUME NEW r2 \in MountSession, session' = [session EXCEPT ![s] = r2],
             SessionOK(r2, mounts[s], q), Moves(t, y),
             /\ r2.own = r.own /\ r2.uploaded_outer = r.uploaded_outer,
             \/ /\ y.op = "switch" /\ y.s = s /\ ~Preparing(y) /\ ~Starting(y)
                /\ SwitchOK(y, r2, l, n, q)
             \/ y.op = "none" /\ y.pc = "ready" /\ Quiet(r2, l, n, q)
      PROVE  Inv3'
  <2>1. /\ Len(session') = Len(session)
        /\ \A k \in 1 .. Len(session) : session'[k] = IF k = s THEN r2 ELSE session[k]
    BY <1>2, <1>3, <1>5, SessionChanges
  <2>2. session'[s] = r2
    BY <1>3, <2>1
  <2>3. SessionsOK'
    BY <1>1, <1>3, <1>5, <2>1, <2>2, SessionsStep DEF Inv3
  <2>4. Booked'
    <3>1. \A k \in 1 .. Len(session') :
             \/ session'[k].uploaded_outer \subseteq session'[k].own
             \/ /\ k \in 1 .. Len(session) /\ session'[k].own = session[k].own
                /\ session'[k].uploaded_files = session[k].uploaded_files
                /\ session'[k].uploaded_outer = session[k].uploaded_outer
      BY <1>4, <1>5, <2>1, <2>2
    <3> QED BY <1>1, <1>3, <1>5, <3>1, BookedKept DEF Inv3
  <2>5. CASE y.op = "switch"
    <3>1. HandlerOK(y, r2, l, n, q, s)
      BY <1>5, <2>5 DEF HandlerOK
    <3>2. Reliable(thread[t])'
      BY <1>1, <1>3, <1>5, <2>2, <2>5, <3>1 DEF Reliable, Last
    <3>3. Holder(y)
      BY <2>5 DEF Holder
    <3> QED BY <1>2, <1>3, <1>5, <2>3, <2>4, <2>5, <3>2, <3>3, ControlStep
  <2>6. CASE y.op # "switch"
    <3>1. y.op = "none" /\ y.pc = "ready"
      BY <1>5, <2>6
    <3>2. ~Active(y)
      BY <3>1 DEF Active, Preparing, Starting, Stopping
    <3>3. Reliable(thread[t])'
      BY <3>1, <3>2, Unconcerned DEF Reliable
    <3>4. Quiet(session[current], Last(current), Len(mounts[current]), stack[current])'
      BY <1>1, <1>3, <1>5, <2>2, <2>6 DEF Last
    <3> QED BY <1>3, <1>5, <2>3, <2>4, <3>1, <3>3, <3>4, ControlStep
  <2> QED BY <2>5, <2>6
<1>6. ASSUME NEW pc \in Positions, Goto(t, pc)
      PROVE  Moves(t, y) /\ y.op = "switch" /\ y.s = s /\ y.pc = pc /\ y.m = x.m
  BY <1>2, <1>3, <1>6, GotoMoves DEF Moves
<1>7. CASE At(t, "process") /\ Set(t, [r EXCEPT !.process = x.m], "phase")
  <2> DEFINE r2 == [r EXCEPT !.process = x.m]
  <2>1. session' = [session EXCEPT ![s] = r2] /\ Goto(t, "phase")
    BY <1>7 DEF Set
  <2>2. Moves(t, y) /\ y.op = "switch" /\ y.s = s /\ y.pc = "phase"
    BY <1>6, <2>1 DEF Positions
  <2>3. x.m = n /\ n > 1 /\ MountedOn(l, n, q) /\ x.pc = "process"
    BY <1>3, <1>7 DEF SwitchOK, At
  <2>4. /\ r2 \in MountSession /\ r2.process = n
        /\ r2.own = r.own /\ r2.uploaded_outer = r.uploaded_outer
        /\ r2.mode = r.mode /\ r2.deniable = r.deniable /\ r2.phase = r.phase
        /\ r2.expected_files = r.expected_files /\ r2.uploaded_files = r.uploaded_files
    BY <1>3, <2>3 DEF MountSession
  <2> HIDE DEF r2, r, n, l, q
  <2>5. SessionOK(r2, mounts[s], q)
    BY <1>3, <2>4 DEF SessionOK, ListsOK, n
  <2>6. SwitchOK(y, r2, l, n, q)
    BY <1>3, <2>2, <2>3, <2>4 DEF SwitchOK, Stopping
  <2>7. ~Preparing(y) /\ ~Starting(y)
    BY <2>2 DEF Preparing, Starting
  <2> QED BY <1>5, <2>1, <2>2, <2>4, <2>5, <2>6, <2>7
<1>8. CASE At(t, "phase") /\ Set(t, [r EXCEPT !.phase = "hidden"], "expected")
  <2> DEFINE r2 == [r EXCEPT !.phase = "hidden"]
  <2>1. session' = [session EXCEPT ![s] = r2] /\ Goto(t, "expected")
    BY <1>8 DEF Set
  <2>2. Moves(t, y) /\ y.op = "switch" /\ y.s = s /\ y.pc = "expected"
    BY <1>6, <2>1 DEF Positions
  <2>3. x.pc = "phase"
    BY <1>8 DEF At
  <2>4. /\ r2 \in MountSession /\ r2.process = r.process
        /\ r2.own = r.own /\ r2.uploaded_outer = r.uploaded_outer
        /\ r2.mode = r.mode /\ r2.deniable = r.deniable /\ r2.phase = "hidden"
        /\ r2.expected_files = r.expected_files /\ r2.uploaded_files = r.uploaded_files
    BY <1>3 DEF MountSession
  <2> HIDE DEF r2, r, n, l, q
  <2>5. SwitchOK(y, r2, l, n, q)
    BY <1>3, <2>2, <2>3, <2>4 DEF SwitchOK, Stopping
  <2>6. SessionOK(r2, mounts[s], q)
    BY <1>3, <2>3, <2>4, <2>5 DEF SessionOK, ListsOK, SwitchOK, n
  <2>7. ~Preparing(y) /\ ~Starting(y)
    BY <2>2 DEF Preparing, Starting
  <2> QED BY <1>5, <2>1, <2>2, <2>4, <2>5, <2>6, <2>7
<1>9. CASE At(t, "expected") /\ Set(t, [r EXCEPT !.expected_files = "hidden"], "uploaded")
  <2> DEFINE r2 == [r EXCEPT !.expected_files = "hidden"]
  <2>1. session' = [session EXCEPT ![s] = r2] /\ Goto(t, "uploaded")
    BY <1>9 DEF Set
  <2>2. Moves(t, y) /\ y.op = "switch" /\ y.s = s /\ y.pc = "uploaded"
    BY <1>6, <2>1 DEF Positions
  <2>3. x.pc = "expected"
    BY <1>9 DEF At
  <2>4. /\ r2 \in MountSession /\ r2.process = r.process
        /\ r2.own = r.own /\ r2.uploaded_outer = r.uploaded_outer
        /\ r2.mode = r.mode /\ r2.deniable = r.deniable /\ r2.phase = r.phase
        /\ r2.expected_files = "hidden" /\ r2.uploaded_files = r.uploaded_files
    BY <1>3 DEF MountSession
  <2> HIDE DEF r2, r, n, l, q
  <2>5. SwitchOK(y, r2, l, n, q)
    BY <1>3, <2>2, <2>3, <2>4 DEF SwitchOK, Stopping
  <2>6. SessionOK(r2, mounts[s], q)
    BY <1>3, <2>3, <2>4 DEF SessionOK, ListsOK, SwitchOK, n
  <2>7. ~Preparing(y) /\ ~Starting(y)
    BY <2>2 DEF Preparing, Starting
  <2> QED BY <1>5, <2>1, <2>2, <2>4, <2>5, <2>6, <2>7
<1>10. CASE At(t, "uploaded") /\ Set(t, [r EXCEPT !.uploaded_files = "hidden"], "ready")
  <2> DEFINE r2 == [r EXCEPT !.uploaded_files = "hidden"]
  <2>1. session' = [session EXCEPT ![s] = r2] /\ Replies(t)
    BY <1>10 DEF Set
  <2>2. Moves(t, y) /\ y.op = "none" /\ y.pc = "ready"
    BY <1>2, <1>3, <2>1, RepliesMoves DEF Moves
  <2>3. x.pc = "uploaded"
    BY <1>10 DEF At
  <2>4. /\ r2 \in MountSession /\ r2.process = r.process
        /\ r2.own = r.own /\ r2.uploaded_outer = r.uploaded_outer
        /\ r2.mode = r.mode /\ r2.deniable = r.deniable /\ r2.phase = r.phase
        /\ r2.expected_files = r.expected_files /\ r2.uploaded_files = "hidden"
    BY <1>3 DEF MountSession
  <2> HIDE DEF r2, r, n, l, q
  <2>5. /\ r.phase = "hidden" /\ r.expected_files = "hidden" /\ r.process = n /\ n > 1
        /\ MountedOn(l, n, q)
    BY <1>3, <2>3 DEF SwitchOK
  <2>6. SessionOK(r2, mounts[s], q)
    BY <1>3, <2>4, <2>5 DEF SessionOK, ListsOK, n
  <2>7. Quiet(r2, l, n, q)
    BY <2>4, <2>5 DEF Quiet, Settled, MountedOn, CanMount
  <2> QED BY <1>5, <2>1, <2>2, <2>4, <2>6, <2>7
<1> QED BY <1>7, <1>8, <1>9, <1>10 DEF Assign

\* What stop_mount knows.
LEMMA StopRelies ==
  ASSUME InTurns, Inv1, Inv3, NEW t \in Everyone, Stopping(thread[t])
  PROVE  LET x == thread[t]
             s == x.s
         IN  /\ Active(x) /\ x \in Handler /\ Shape(x)
             /\ s \in 1 .. Len(session) /\ s \in SessionIds /\ s # NoSession
             /\ SessionOK(session[s], mounts[s], stack[s])
             /\ mounts[s] \in Seq(MountProcess) /\ stack[s] \in Seq(Nat)
             /\ Len(mounts[s]) \in Nat \ {0} /\ Last(s) = mounts[s][Len(mounts[s])]
             /\ t \in Threads =>
                  /\ HandlerOK(x, session[s], Last(s), Len(mounts[s]), stack[s], current)
                  /\ s = current /\ x.op \in {"switch", "lock", "finish", "decrypt"}
                  /\ t # Main
             /\ t = Main => x.op = "shutdown" /\ t \notin Threads
             /\ t \in Threads \/ t = Main
             /\ thread \in [Everyone -> Handler]
             /\ mounts \in [SessionIds -> Seq(MountProcess)]
             /\ stack \in [SessionIds -> Seq(Nat)]
<1> DEFINE x == thread[t]
           s == x.s
<1>1. /\ x \in Handler /\ Shape(x) /\ thread \in [Everyone -> Handler]
      /\ mounts \in [SessionIds -> Seq(MountProcess)]
      /\ stack \in [SessionIds -> Seq(Nat)] /\ Main \notin Threads
      /\ t \in Threads => x.op # "shutdown"
  BY Unfolded1
<1>2. Active(x)
  BY DEF Active
<1>3. s \in 1 .. Len(session)
  BY HasSession
<1>4. t \in Threads => /\ HandlerOK(x, session[s], Last(s), Len(mounts[s]), stack[s], current)
                       /\ s = current
  BY DEF Inv3, AtWork, Reliable, HandlerOK
<1>5. t \in Threads => x.op \in {"switch", "lock", "finish", "decrypt"}
  BY <1>1 DEF Shape, Stopping
<1>6. t = Main => x.op = "shutdown"
  BY <1>1, <1>2, ActiveKind, Unfolded1
<1> QED BY <1>1, <1>2, <1>3, <1>4, <1>5, <1>6, OpenedSession DEF Inv3, Last, Everyone

\* A step of stop_mount that goes on.
LEMMA StopStep ==
  ASSUME InTurns, Inv1, Inv3, NEW t \in Everyone, Stopping(thread[t]),
         Moves(t, thread'[t]), UNCHANGED <<session, current>>,
         LET x == thread[t]
             y == thread'[t]
             s == x.s
             n == Len(mounts'[s])
         IN  /\ y.op = x.op /\ y.s = s /\ y.pc \in {"reap", "wait", "stopped"}
             /\ \A k \in SessionIds : k # s => mounts'[k] = mounts[k] /\ stack'[k] = stack[k]
             /\ SessionOK(session[s], mounts'[s], stack'[s])
             /\ x.op = "switch" => stack'[s] = <<>> /\ ~CanMount(mounts'[s][n])
  PROVE  Inv3'
<1> DEFINE x == thread[t]
           y == thread'[t]
           s == x.s
           r == session[s]
           n == Len(mounts'[s])
           l == mounts'[s][n]
           q == stack'[s]
<1>1. /\ Active(x) /\ s \in 1 .. Len(session)
      /\ t \in Threads =>
           /\ HandlerOK(x, r, Last(s), Len(mounts[s]), stack[s], current)
           /\ s = current /\ x.op \in {"switch", "lock", "finish", "decrypt"}
           /\ t # Main
  BY StopRelies
<1>2. SessionsOK'
  BY <1>1, SessionsStep DEF Inv3
<1>3. Booked'
  BY <1>1, ListsStay
<1>4. t = Main => Past(thread'[Main])
  BY DEF Past
<1>5. t \in Threads => HandlerOK(y, r, l, n, q, current)
  <2>1. ASSUME t \in Threads, x.op = "switch"
        PROVE  SwitchOK(y, r, l, n, q)
    <3>1. SwitchOK(x, r, Last(s), Len(mounts[s]), stack[s])
      BY <1>1, <2>1 DEF HandlerOK
    <3> QED BY <2>1, <3>1 DEF SwitchOK, Stopping
  <2>2. ASSUME t \in Threads, x.op = "decrypt"
        PROVE  r.mode = "decrypt"
    BY <1>1, <2>2 DEF HandlerOK
  <2> QED BY <1>1, <2>1, <2>2 DEF HandlerOK, Preparing, Starting, Stopping
<1>6. t \in Threads => Reliable(thread[t])'
  BY <1>5 DEF Reliable, Last
<1>7. t \in Threads /\ ~Holder(y) => session'[current'].mode = "decrypt"
  BY <1>1 DEF Holder, HandlerOK, Closes
<1> QED BY <1>1, <1>2, <1>3, <1>4, <1>6, <1>7, ControlStep

\* The volume is unmounted, or is not.
LEMMA UnmountKeeps3 ==
  ASSUME InTurns, Inv1, Inv3, NEW t \in Everyone, Unmount(t)
  PROVE  Inv3'
<1> DEFINE x == thread[t]
           y == thread'[t]
           s == x.s
           r == session[s]
           n == Len(mounts[s])
           l == Last(s)
           q == stack[s]
<1>1. x.pc = "unmount" /\ Stopping(x) /\ UNCHANGED <<session, current>>
  BY DEF Unmount, At, Stopping, state
<1>2. /\ Active(x) /\ x \in Handler /\ Shape(x)
      /\ s \in 1 .. Len(session) /\ s \in SessionIds /\ s # NoSession
      /\ SessionOK(r, mounts[s], q)
      /\ mounts[s] \in Seq(MountProcess) /\ q \in Seq(Nat)
      /\ n \in Nat \ {0} /\ l = mounts[s][n]
      /\ t \in Threads =>
           /\ HandlerOK(x, r, l, n, q, current)
           /\ s = current /\ x.op \in {"switch", "lock", "finish", "decrypt"}
           /\ t # Main
      /\ t = Main => x.op = "shutdown" /\ t \notin Threads
      /\ t \in Threads \/ t = Main
  BY <1>1, StopRelies
<1>3. /\ thread \in [Everyone -> Handler]
      /\ mounts \in [SessionIds -> Seq(MountProcess)]
      /\ stack \in [SessionIds -> Seq(Nat)]
  BY Unfolded1
<1>4. x.op = "switch" => SwitchOK(x, r, l, n, q) /\ ~CanMount(l)
  BY <1>1, <1>2 DEF HandlerOK, SwitchOK
<1>5. Goto(t, "reap") => Moves(t, y) /\ y.op = x.op /\ y.s = s /\ y.pc = "reap"
  BY <1>3, GotoMoves DEF Moves, Positions
<1>6. CASE ~IsMount(s) /\ Goto(t, "reap") /\ UNCHANGED <<mounts, stack>>
  <2>1. q = <<>>
    BY <1>6 DEF IsMount
  <2> QED BY <1>1, <1>2, <1>4, <1>5, <1>6, <2>1, StopStep
<1>7. CASE /\ IsMount(s) /\ Status(s, Top(s), "closing") /\ Goto(t, "reap")
           /\ stack' = [stack EXCEPT ![s] = Without(@, Top(s))]
  <2> DEFINE p == mounts[s]
             p2 == mounts'[s]
             q2 == stack'[s]
  <2>1. q = <<n>>
    BY <1>2, <1>7 DEF IsMount, SessionOK
  <2>2. Top(s) = n
    BY <1>2, <1>7, <2>1 DEF Top
  <2>3. /\ q2 = <<>> /\ \A k \in SessionIds : k # s => stack'[k] = stack[k]
    <3>1. /\ stack'[s] = Without(q, n)
          /\ \A k \in SessionIds : k # s => stack'[k] = stack[k]
      BY <1>2, <1>3, <1>7, <2>2
    <3> QED BY <1>2, <2>1, <3>1, WithoutStack
  <2>4. /\ OneProcess(s, n)
        /\ n \in 1 .. Len(mounts[s]) =>
              /\ mounts'[s][n].st = "closing" /\ mounts'[s][n].volume = mounts[s][n].volume
    BY <1>2, <1>3, <1>7, <2>2, StatusChanges
  <2>5. n \in 1 .. Len(p)
    BY <1>2
  <2>6. /\ \A k \in SessionIds : k # s => mounts'[k] = mounts[k]
        /\ p2 \in Seq(MountProcess) /\ Len(p2) = Len(p)
        /\ \A j \in 1 .. Len(p) : j # n => p2[j] = p[j]
        /\ p2[n].st = "closing" /\ p2[n].volume = p[n].volume
    BY <1>2, <2>4, <2>5 DEF OneProcess
  <2>7. ~CanMount(p2[n])
    BY <2>6 DEF CanMount
  <2>8. SessionOK(r, p2, q2)
    <3>1. SessionOK(r, p, q) /\ p \in Seq(MountProcess) /\ n = Len(p) /\ Len(p2) = Len(p)
      BY <1>2, <2>6
    <3> HIDE DEF p, p2, q2, q, n, r
    <3> QED BY <2>3, <2>5, <2>6, <2>7, <3>1, ProcessChange
  <2>9. Len(p2) = n
    BY <2>6
  <2> QED BY <1>1, <1>2, <1>5, <1>7, <2>3, <2>6, <2>7, <2>8, <2>9, StopStep
<1>8. CASE IsMount(s) /\ StopFails(t) /\ UNCHANGED <<mounts, stack>>
  <2>1. CASE x.op = "switch"
    <3>1. Replies(t)
      BY <1>8, <2>1 DEF StopFails
    <3>2. Moves(t, y) /\ y.op = "none" /\ y.pc = "ready"
      BY <1>3, <3>1, RepliesMoves DEF Moves
    <3>3. Quiet(r, l, n, q)
      BY <1>1, <1>4, <2>1 DEF SwitchOK, Quiet, Settled, Spent
    <3> QED BY <1>1, <1>2, <1>3, <1>8, <2>1, <3>2, <3>3, SwitchStep
  <2>2. CASE x.op = "shutdown"
    <3>1. Goto(t, "exited")
      BY <1>8, <2>2 DEF StopFails
    <3>2. Moves(t, y) /\ y.op = x.op /\ y.pc = "exited"
      BY <1>3, <3>1, GotoMoves DEF Moves, Positions
    <3>3. t = Main /\ t \notin Threads
      BY <1>2, <2>2
    <3> QED BY <1>1, <1>2, <1>8, <3>2, <3>3, ControlSame DEF Past
  <2>3. CASE x.op \in {"lock", "finish", "decrypt"}
    <3>1. Leaves(t, FALSE)
      BY <1>8, <2>3 DEF StopFails
    <3>2. Moves(t, y) /\ y.op = x.op /\ y.pc = "release"
      BY <1>3, <3>1, LeavesMoves DEF Moves
    <3>3. t \in Threads
      BY <1>2, <2>3
    <3>4. HandlerOK(y, session[y.s], Last(y.s), Len(mounts[y.s]), stack[y.s], current)
      BY <2>3, <3>2, Unconcerned DEF Active, Preparing, Starting, Stopping
    <3>5. r.mode = "encrypt" => Quiet(r, l, n, q)
      <4>1. ASSUME r.mode = "encrypt"
            PROVE  Undisturbed
        <5>1. x.op # "decrypt"
          BY <1>1, <1>2, <3>3, <4>1 DEF HandlerOK
        <5>2. \A u \in Threads : ~Holder(thread[u])
          <6>1. ~Holder(x)
            BY <1>1, <2>3 DEF Holder
          <6>2. \A u \in Threads : u # t => ~Active(thread[u])
            BY <1>2, OneInControl
          <6> QED BY <6>1, <6>2 DEF Holder, Active, Stopping
        <5>3. ~Past(thread[Main])
          BY <1>2, <3>3, ControlKnows
        <5> QED BY <1>2, <3>3, <5>2, <5>3 DEF Undisturbed
      <4> QED BY <1>2, <3>3, <4>1 DEF Inv3, OpenOK
    <3> QED BY <1>1, <1>2, <1>8, <3>2, <3>3, <3>4, <3>5, ControlSame
  <2> QED BY <1>2, <2>1, <2>2, <2>3
<1> QED BY <1>6, <1>7, <1>8 DEF Unmount

\* The process is waited for.
LEMMA WaitKeeps3 ==
  ASSUME InTurns, Inv1, Inv3, NEW t \in Everyone, Reap(t) \/ WaitProcess(t)
  PROVE  Inv3'
<1> DEFINE x == thread[t]
           y == thread'[t]
           s == x.s
           n == Len(mounts[s])
<1>1. /\ x.pc \in {"reap", "wait"} /\ Stopping(x)
      /\ UNCHANGED <<session, current, mounts, stack>>
  BY DEF Reap, WaitProcess, At, Stopping, state, others, system
<1>2. /\ SessionOK(session[s], mounts[s], stack[s]) /\ Last(s) = mounts[s][n]
      /\ t \in Threads => HandlerOK(x, session[s], Last(s), n, stack[s], current)
      /\ t = Main => x.op = "shutdown"
      /\ t \in Threads \/ t = Main
      /\ thread \in [Everyone -> Handler] /\ x \in Handler
      /\ s \in 1 .. Len(session)
  BY <1>1, StopRelies
<1>3. x.op = "switch" => stack[s] = <<>> /\ ~CanMount(mounts[s][n])
  BY <1>1, <1>2 DEF HandlerOK, SwitchOK
<1>4. Moves(t, y) /\ y.op = x.op /\ y.s = s /\ y.pc \in {"wait", "stopped"}
  <2>1. CASE Reap(t)
    <3>1. Advances(t, "wait", session[s].process)
      BY <2>1 DEF Reap, Advances
    <3>2. session[s].process \in Nat /\ "wait" \in Positions
      BY <1>2, OpenedSession DEF Inv3, MountSession, Positions
    <3> QED BY <1>2, <3>1, <3>2, AdvancesMoves DEF Moves
  <2>2. CASE WaitProcess(t)
    <3>1. Goto(t, "stopped")
      BY <2>2 DEF WaitProcess, InTurns
    <3> QED BY <1>2, <3>1, GotoMoves DEF Moves, Positions
  <2> QED BY <2>1, <2>2
<1> QED BY <1>1, <1>2, <1>3, <1>4, StopStep

\* The vault is locked.
LEMMA LockedKeeps3 ==
  ASSUME InTurns, Inv1, Inv3, NEW t \in Threads, Locked(t)
  PROVE  Inv3'
<1> DEFINE x == thread[t]
           y == thread'[t]
           s == x.s
           r == session[s]
<1>1. /\ x.pc = "stopped" /\ x.op \in {"lock", "finish"} /\ Stopping(x)
      /\ current' = NoSession /\ Leaves(t, TRUE) /\ UNCHANGED <<mounts, stack>>
  BY DEF Locked, Doing, Stopping, system
<1>2. /\ t \in Everyone /\ t # Main /\ thread \in [Everyone -> Handler]
      /\ session \in Seq(MountSession)
  BY Unfolded1
<1>3. /\ Active(x) /\ s \in 1 .. Len(session) /\ SessionOK(r, mounts[s], stack[s])
  BY <1>1, <1>2, StopRelies
<1>4. Moves(t, y) /\ y.op = x.op /\ y.pc = "release"
  BY <1>1, <1>2, LeavesMoves DEF Moves
<1>5. ~Active(y) /\ y.op # "upload"
  BY <1>1, <1>4 DEF Active, Preparing, Starting, Stopping
<1>6. CASE session' = session
  <2>1. HandlerOK(y, session[y.s], Last(y.s), Len(mounts[y.s]), stack[y.s], current')
    BY <1>5, Unconcerned
  <2> QED BY <1>1, <1>2, <1>3, <1>4, <1>6, <2>1, ControlSame
<1>7. CASE session' = [session EXCEPT ![s].hidden_password = FALSE]
  <2> DEFINE r2 == [r EXCEPT !.hidden_password = FALSE]
  <2>1. /\ r \in MountSession
    BY <1>3, OpenedSession DEF Inv3
  <2>2. /\ r2 \in MountSession /\ r2.process = r.process
        /\ r2.own = r.own /\ r2.uploaded_outer = r.uploaded_outer
        /\ r2.mode = r.mode /\ r2.deniable = r.deniable /\ r2.phase = r.phase
        /\ r2.expected_files = r.expected_files /\ r2.uploaded_files = r.uploaded_files
    BY <2>1 DEF MountSession
  <2>3. session' = [session EXCEPT ![s] = r2]
    BY <1>7
  <2> HIDE DEF r2, r
  <2>4. /\ Len(session') = Len(session)
        /\ \A k \in 1 .. Len(session) : session'[k] = IF k = s THEN r2 ELSE session[k]
    BY <1>2, <1>3, <2>2, <2>3, SessionChanges
  <2>5. SessionOK(r2, mounts[s], stack[s])
    BY <1>3, <2>2 DEF SessionOK, ListsOK
  <2>6. SessionsOK'
    BY <1>1, <1>3, <2>4, <2>5, SessionsStep DEF Inv3
  <2>7. Booked'
    <3>1. \A k \in 1 .. Len(session') : /\ k \in 1 .. Len(session)
            /\ session'[k].own = session[k].own
            /\ session'[k].uploaded_files = session[k].uploaded_files
            /\ session'[k].uploaded_outer = session[k].uploaded_outer
      BY <2>2, <2>4 DEF r
    <3> QED BY <1>1, <1>2, <1>4, <3>1, BookedKept DEF Inv3
  <2>8. Reliable(thread[t])'
    BY <1>5, Unconcerned DEF Reliable
  <2> QED BY <1>1, <1>2, <1>3, <1>4, <2>6, <2>7, <2>8, ControlStep
<1> QED BY <1>6, <1>7 DEF Locked

\* The shutdown.
LEMMA MainKeeps3 ==
  ASSUME InTurns, Inv1, Inv3, Interrupt \/ CloseServer \/ Exit
  PROVE  Inv3'
<1> DEFINE x == thread[Main]
           y == thread'[Main]
<1>1. /\ Main \in Everyone /\ Main \notin Threads /\ Shape(x)
      /\ thread \in [Everyone -> Handler]
  BY Unfolded1
<1>2. Orderly(Main)
  BY MainOrderly
<1>3. Moves(Main, y)
  BY <1>1, <1>2, OrderlyMoves
<1>4. UNCHANGED <<session, mounts, stack, current>>
  BY DEF Interrupt, CloseServer, Exit, others, state, system
<1>5. CASE Interrupt
  <2>1. x.pc = "serving" /\ y.pc = "closing"
    BY <1>1, <1>5, GotoMoves DEF Interrupt, At, Moves, Positions
  <2>2. ~Active(x) /\ ~Past(x) /\ ~Past(y) /\ x.pc # "count"
    BY <1>1, <2>1 DEF Active, Past, Shape, Preparing, Starting, Stopping
  <2> QED BY <1>1, <1>3, <1>4, <2>2, OtherStep
<1>6. CASE CloseServer
  <2>1. x.pc = "closing" /\ \A u \in Threads : At(u, "off")
    BY <1>6 DEF CloseServer, At, Joined
  <2>2. ~Active(x) /\ ~Past(x) /\ x.pc # "count"
    BY <1>1, <2>1 DEF Active, Past, Shape, Preparing, Starting, Stopping
  <2> QED BY <1>1, <1>3, <1>4, <2>1, <2>2, OtherStep
<1>7. CASE Exit
  <2>1. x.pc = "stopped" /\ Becomes(Main, [x EXCEPT !.pc = "exited", !.ok = TRUE])
    BY <1>7 DEF Exit, Doing
  <2>2. y.pc = "exited" /\ y.op = x.op
    BY <1>1, <2>1 DEF Becomes, Handler
  <2>3. Active(x) /\ Past(y)
    BY <2>1, <2>2 DEF Active, Stopping, Past
  <2> QED BY <1>1, <1>3, <1>4, <2>2, <2>3, ControlSame
<1> QED BY <1>5, <1>6, <1>7

-----------------------------------------------------------------------------
(***************************************************************************)
(* The processes.                                                          *)
(***************************************************************************)
\* What a process does of its own, l, becomes l2, and what is mounted with it.
Proceeds(l, l2, n, q, q2) ==
  /\ l2.terminated = l.terminated
  /\ \/ CanMount(l) /\ q = <<>> /\ l2.st = "mounted" /\ q2 = <<n>>
     \/ l.st = "starting" /\ l2.st = "dead" /\ q2 = q
     \/ l.st = "mounted" /\ l.terminated /\ l2.st = "closing" /\ q2 = <<>>
     \/ l.st = "closing" /\ l2.st = "dead" /\ q2 = q

\* No handler minds.
LEMMA ProceedsKeeps ==
  ASSUME NEW l, NEW l2, NEW n, NEW q, NEW q2, Proceeds(l, l2, n, q, q2),
         NEW h, NEW r, NEW cur
  PROVE  /\ HandlerOK(h, r, l, n, q, cur) => HandlerOK(h, r, l2, n, q2, cur)
         /\ Quiet(r, l, n, q) => Quiet(r, l2, n, q2)
<1>1. MountedOn(l, n, q) => FALSE
  BY DEF MountedOn, Proceeds, CanMount
<1>2. ASSUME HandlerOK(h, r, l, n, q, cur)
      PROVE  HandlerOK(h, r, l2, n, q2, cur)
  <2>1. ~CanMount(l2)
    BY DEF Proceeds, CanMount
  <2>2. StartOK(h, r, l, n, q) => StartOK(h, r, l2, n, q2)
    BY <1>1 DEF StartOK, Proceeds, CanMount
  <2>3. SwitchOK(h, r, l, n, q) => SwitchOK(h, r, l2, n, q2)
    <3>1. ASSUME Stopping(h), ~CanMount(l), q = <<>>
          PROVE  q2 = <<>>
      BY <3>1 DEF Proceeds
    <3>2. ASSUME ~l.terminated, l.st = "mounted" \/ q = <<>>
          PROVE  ~l2.terminated /\ (l2.st = "mounted" \/ q2 = <<>>)
      BY <3>2 DEF Proceeds
    <3> QED BY <1>1, <2>1, <3>1, <3>2 DEF SwitchOK, Stopping
  <2>4. ~UploadOK(h, r, l, n, q)
    BY <1>1 DEF UploadOK
  <2> QED BY <1>2, <2>2, <2>3, <2>4 DEF HandlerOK
<1>3. Quiet(r, l, n, q) => Quiet(r, l2, n, q2)
  BY <1>1 DEF Quiet, Proceeds, CanMount
<1> QED BY <1>2, <1>3

\* A process of session s changes.
LEMMA ProcessKeeps3 ==
  ASSUME Inv1, Inv3, NEW s \in SessionIds, Process(s)
  PROVE  Inv3'
<1> DEFINE p == mounts[s]
           p2 == mounts'[s]
           q == stack[s]
           q2 == stack'[s]
           r == session[s]
           n == Len(p)
<1>1. PICK m \in DOMAIN p :
        MountAppears(s, m) \/ MountFails(s, m) \/ MountTerminated(s, m) \/ MountEnds(s, m)
  BY DEF Process
<1>2. UNCHANGED <<session, thread, current>>
  BY <1>1 DEF MountAppears, MountFails, MountTerminated, MountEnds, state
<1>3. /\ mounts \in [SessionIds -> Seq(MountProcess)] /\ stack \in [SessionIds -> Seq(Nat)]
      /\ p \in Seq(MountProcess) /\ q \in Seq(Nat) /\ m \in 1 .. n /\ n \in Nat
  BY Unfolded1
<1>4. s \in 1 .. Len(session) /\ SessionOK(r, p, q)
  <2>1. p # <<>>
    BY <1>3
  <2> QED BY <2>1 DEF Inv3, SessionsOK
<1>5. /\ p[m].st = "mounted" \/ CanMount(p[m]) => m = n
      /\ m = n /\ CanMount(p[n]) => q = <<>>
      /\ m = n /\ p[n].st = "mounted" => q = <<n>>
  <2>1. m # n => m \in 1 .. n - 1
    BY <1>3
  <2> HIDE DEF p, n
  <2> QED BY <1>4, <2>1 DEF SessionOK, n
<1>6. \A st \in {"mounted", "closing", "dead"} : Status(s, m, st) =>
        /\ mounts' \in [SessionIds -> Seq(MountProcess)]
        /\ \A k \in SessionIds : k # s => mounts'[k] = mounts[k]
        /\ Len(p2) = n /\ \A k \in 1 .. n : k # m => p2[k] = p[k]
        /\ p2[m].st = st /\ p2[m].volume = p[m].volume /\ p2[m].terminated = p[m].terminated
  BY <1>3, StatusChanges DEF OneProcess
<1>7. /\ \E st \in {"mounted", "closing", "dead"} : Status(s, m, st)
      /\ \A k \in SessionIds : k # s => stack'[k] = stack[k]
      /\ IF m = n THEN Proceeds(p[n], p2[n], n, q, q2)
                  ELSE p2[m].st = "dead" /\ q2 = q
  <2>1. CASE MountAppears(s, m)
    <3>1. /\ CanMount(p[m]) /\ Status(s, m, "mounted")
          /\ stack' = [stack EXCEPT ![s] = Append(@, m)]
      BY <2>1 DEF MountAppears, CanMount
    <3>2. /\ q2 = Append(q, m) /\ \A k \in SessionIds : k # s => stack'[k] = stack[k]
      BY <1>3, <3>1
    <3>3. m = n /\ q = <<>>
      BY <1>5, <3>1
    <3>4. q2 = <<n>>
      BY <3>2, <3>3
    <3> QED BY <1>6, <3>1, <3>2, <3>3, <3>4 DEF Proceeds
  <2>2. CASE MountFails(s, m)
    <3>1. p[m].st = "starting" /\ Status(s, m, "dead") /\ stack' = stack
      BY <2>2 DEF MountFails
    <3> QED BY <1>6, <3>1 DEF Proceeds
  <2>3. CASE MountTerminated(s, m)
    <3>1. /\ p[m].st = "mounted" /\ p[m].terminated /\ Status(s, m, "closing")
          /\ stack' = [stack EXCEPT ![s] = Without(@, m)]
      BY <2>3 DEF MountTerminated
    <3>2. /\ q2 = Without(q, m) /\ \A k \in SessionIds : k # s => stack'[k] = stack[k]
      BY <1>3, <3>1
    <3>3. m = n /\ q = <<n>>
      BY <1>5, <3>1
    <3>4. q2 = <<>>
      BY <1>3, <3>2, <3>3, WithoutStack
    <3> QED BY <1>6, <3>1, <3>2, <3>3, <3>4 DEF Proceeds
  <2>4. CASE MountEnds(s, m)
    <3>1. p[m].st = "closing" /\ Status(s, m, "dead") /\ stack' = stack
      BY <2>4 DEF MountEnds
    <3> QED BY <1>6, <3>1 DEF Proceeds
  <2> QED BY <1>1, <2>1, <2>2, <2>3, <2>4
<1>8. /\ \A k \in SessionIds : k # s => mounts'[k] = mounts[k]
      /\ p2 \in Seq(MountProcess)
      /\ Len(p2) = n /\ \A k \in 1 .. n : k # m => p2[k] = p[k]
      /\ p2[m].volume = p[m].volume
  BY <1>6, <1>7
<1>9. n \in 1 .. n /\ Last(s) = p[n] /\ Last(s)' = p2[n]
  BY <1>2, <1>3, <1>8 DEF Last
<1> HIDE DEF p, p2, q, q2, r, n
<1>10. SessionOK(r, p2, q2)
  <2>1. m # n => p2[m].st # "mounted" /\ ~CanMount(p2[m]) /\ q2 = q
    BY <1>7 DEF CanMount
  <2>2. m = n => /\ q2 \in {<<>>, <<m>>}
                 /\ p2[m].st = "mounted" => q2 = <<m>>
                 /\ CanMount(p2[m]) => q2 = <<>>
    BY <1>4, <1>7 DEF Proceeds, CanMount, SessionOK, n
  <2>3. n = Len(p)
    BY DEF n
  <2>4. /\ m \in 1 .. Len(p) /\ p \in Seq(MountProcess) /\ Len(p2) = Len(p)
        /\ \A k \in 1 .. Len(p) : k # m => p2[k] = p[k]
    BY <1>3, <1>8, <2>3 DEF p
  <2>5. m # Len(p) => p2[m].st # "mounted" /\ ~CanMount(p2[m]) /\ q2 = q
    BY <2>1, <2>3
  <2>6. m = Len(p) => /\ q2 \in {<<>>, <<m>>}
                      /\ p2[m].st = "mounted" => q2 = <<m>>
                      /\ CanMount(p2[m]) => q2 = <<>>
    BY <2>2, <2>3
  <2> QED BY <1>4, <1>8, <2>4, <2>5, <2>6, ProcessChange
<1>11. \/ p2[n] = p[n] /\ q2 = q
       \/ Proceeds(p[n], p2[n], n, q, q2)
  BY <1>7, <1>8, <1>9
<1>12. SessionsOK'
  <2>1. SessionOK(session'[s], mounts'[s], stack'[s])
    BY <1>2, <1>10 DEF p2, q2, r
  <2> QED BY <1>2, <1>4, <1>7, <1>8, <2>1, SessionsStep DEF Inv3
<1>13. \A h, rr, cur : /\ HandlerOK(h, rr, p[n], n, q, cur) => HandlerOK(h, rr, p2[n], n, q2, cur)
                       /\ Quiet(rr, p[n], n, q) => Quiet(rr, p2[n], n, q2)
  BY <1>11, ProceedsKeeps
<1>14. ASSUME NEW k \in 1 .. Len(session), NEW h, NEW rr, NEW cur
       PROVE  /\ HandlerOK(h, rr, Last(k), Len(mounts[k]), stack[k], cur)
                   => HandlerOK(h, rr, mounts'[k][Len(mounts'[k])], Len(mounts'[k]), stack'[k], cur)
              /\ Quiet(rr, Last(k), Len(mounts[k]), stack[k])
                   => Quiet(rr, mounts'[k][Len(mounts'[k])], Len(mounts'[k]), stack'[k])
  <2>1. k \in SessionIds
    BY OpenedSession DEF Inv3
  <2>2. CASE k = s
    BY <1>8, <1>9, <1>13, <2>2 DEF p, p2, q, q2, n
  <2>3. CASE k # s
    BY <1>7, <1>8, <2>1, <2>3 DEF Last
  <2> QED BY <2>2, <2>3
<1>15. AtWork'
  <2>1. ASSUME NEW t \in Threads
        PROVE  Reliable(thread[t])'
    <3> DEFINE h == thread[t]
    <3>1. HandlerOK(h, session[h.s], Last(h.s), Len(mounts[h.s]), stack[h.s], current)
      BY DEF Inv3, AtWork, Reliable
    <3>2. CASE Starting(h) \/ h.pc = "list" \/ Stopping(h) \/ h.op \in {"switch", "upload"}
      <4>1. h.s \in 1 .. Len(session)
        BY <3>2, HasSession DEF Everyone
      <4> QED BY <1>2, <1>14, <3>1, <4>1 DEF Reliable, Last
    <3>3. CASE ~(Starting(h) \/ h.pc = "list" \/ Stopping(h) \/ h.op \in {"switch", "upload"})
      <4>1. \A rr, l, nn, qq : HandlerOK(h, rr, l, nn, qq, current)
        BY <3>1, <3>3 DEF HandlerOK
      <4> QED BY <1>2, <4>1 DEF Reliable
    <3> QED BY <3>2, <3>3
  <2> QED BY <2>1 DEF AtWork
<1>16. OpenOK'
  <2>1. Undisturbed' => Undisturbed
    BY <1>2 DEF Undisturbed
  <2>2. current # NoSession => current \in 1 .. Len(session)
    BY Unfolded1
  <2>3. ASSUME Undisturbed, session[current].mode = "encrypt"
        PROVE  Quiet(session[current], mounts'[current][Len(mounts'[current])],
                     Len(mounts'[current]), stack'[current])
    <3>1. Quiet(session[current], Last(current), Len(mounts[current]), stack[current])
      BY <2>3 DEF Inv3, OpenOK
    <3>2. current \in 1 .. Len(session)
      BY <2>2, <2>3 DEF Undisturbed
    <3> QED BY <1>14, <3>1, <3>2
  <2> QED BY <1>2, <2>1, <2>3 DEF OpenOK, Last
<1>17. TurnsKept' /\ JoinedFirst' /\ Booked'
  BY <1>2 DEF Inv3, TurnsKept, JoinedFirst, Booked, At
<1> QED BY <1>12, <1>15, <1>16, <1>17 DEF Inv3

-----------------------------------------------------------------------------
(***************************************************************************)
(* Every step keeps it.                                                    *)
(***************************************************************************)
\* At first there is no session.
LEMMA InitInv3 ==
  ASSUME Init
  PROVE  Inv3
<1>1. Inv1
  BY InitInv1
<1>2. \A t \in Threads : thread[t].op = "none" /\ thread[t].pc = "off"
  <2>1. ASSUME NEW t \in Threads
        PROVE  thread[t].op = "none" /\ thread[t].pc = "off"
    <3>1. thread[t] = Idle("off")
      BY <1>1, Unfolded1 DEF Init
    <3> QED BY <3>1, IdleHandler DEF Positions
  <2> QED BY <2>1
<1>3. TurnsKept /\ JoinedFirst
  BY <1>2 DEF TurnsKept, Closes, JoinedFirst, At
<1>4. SessionsOK
  <2>1. Len(session) = 0
    BY DEF Init
  <2> QED BY <2>1 DEF Init, SessionsOK
<1>5. AtWork
  <2>1. ASSUME NEW t \in Threads
        PROVE  Reliable(thread[t])
    <3>1. ~Active(thread[t]) /\ thread[t].op # "upload"
      BY <1>2 DEF Active, Preparing, Starting, Stopping
    <3> QED BY <3>1, Unconcerned DEF Reliable
  <2> QED BY <2>1 DEF AtWork
<1>6. OpenOK
  BY DEF Init, OpenOK, Undisturbed
<1>7. Booked
  <2>1. Len(session) = 0
    BY DEF Init
  <2> QED BY <2>1 DEF Booked
<1> QED BY <1>3, <1>4, <1>5, <1>6, <1>7 DEF Inv3

\* Every step keeps the invariant.
LEMMA NextInv3 ==
  ASSUME InTurns, Inv1, Inv3, [Next]_vars
  PROVE  Inv3'
<1>1. ASSUME UNCHANGED vars
      PROVE  Inv3'
  BY <1>1 DEF vars, Inv3, TurnsKept, JoinedFirst, SessionsOK, AtWork, OpenOK, Booked,
     Reliable, Last, Undisturbed, At
<1>2. ASSUME NEW t \in Threads, Handle(t)
      PROVE  Inv3'
  BY <1>2, OtherKeeps3, PrepareKeeps3, StartMountKeeps3, AwaitMountKeeps3, PublishKeeps3,
     ListKeeps3, LockedKeeps3, RemountKeeps3, AwaitRemountKeeps3, AssignKeeps3,
     CountKeeps3 DEF Handle
<1>3. ASSUME NEW t \in Everyone, StopMount(t)
      PROVE  Inv3'
  BY <1>3, UnmountKeeps3, WaitKeeps3 DEF StopMount
<1>4. CASE Next
  <2>1. Threads \subseteq Everyone /\ Main \in Everyone
    BY Unfolded1
  <2> QED BY <1>1, <1>2, <1>3, <1>4, <2>1, BrowserKeeps3, MainKeeps3, ProcessKeeps3 DEF Next
<1> QED BY <1>1, <1>4

-----------------------------------------------------------------------------
(***************************************************************************)
(* Where the files go.                                                     *)
(***************************************************************************)
\* What a handler knows that uploads a file: the volume is mounted that the
\* page took the file for, and the lists are those of the phase.
LEMMA UploadKnows ==
  ASSUME InTurns, Inv1, Inv3, NEW t \in Threads, thread[t].op = "upload"
  PROVE  LET x == thread[t]
             s == x.s
             r == session[s]
         IN  /\ s \in 1 .. Len(session) /\ s = current /\ s \in SessionIds
             /\ x \in Handler /\ Shape(x) /\ x.file \in FileNames
             /\ r \in MountSession /\ ListsOK(r) /\ Settled(r)
             /\ x.volume = IF r.phase = "hidden" THEN "hidden" ELSE "outer"
             /\ IsMount(s) /\ Top(s) = r.process /\ r.process \in Nat \ {0}
             /\ mounts[s][r.process].st = "mounted"
             /\ mounts[s][r.process].volume = x.volume
             /\ Where(s) = <<x.volume, r.name>>
<1> DEFINE x == thread[t]
           s == x.s
           r == session[s]
           n == Len(mounts[s])
<1>1. t \in Everyone /\ x \in Handler /\ Shape(x) /\ Arguments(x, Len(session))
  BY Unfolded1
<1>2. x.file \in FileNames /\ s \in 1 .. Len(session)
  BY <1>1, HasSession DEF Arguments
<1>3. HandlerOK(x, r, Last(s), n, stack[s], current)
  BY DEF Inv3, AtWork, Reliable
<1>4. s = current /\ UploadOK(x, r, Last(s), n, stack[s])
  BY <1>3 DEF HandlerOK
<1>5. /\ SessionOK(r, mounts[s], stack[s]) /\ r \in MountSession /\ s \in SessionIds
      /\ n \in Nat \ {0} /\ Last(s) = mounts[s][n] /\ s # NoSession
  BY <1>2, OpenedSession DEF Inv3, Last
<1>6. r.mode = "encrypt" /\ r.process = n /\ stack[s] = <<n>>
      /\ mounts[s][n].st = "mounted"
      /\ x.volume = IF r.phase = "hidden" THEN "hidden" ELSE "outer"
  BY <1>4, <1>5 DEF UploadOK, MountedOn
<1>7. Settled(r)
  <2>1. \A u \in Threads : ~Holder(thread[u])
    <3>1. ASSUME NEW u \in Threads, Holder(thread[u])
          PROVE  FALSE
      <4>1. Active(thread[u]) /\ u \in Everyone
        BY <3>1, Unfolded1 DEF Holder, Active, Stopping
      <4>2. u # t
        BY <3>1 DEF Holder, Closes
      <4> QED BY <4>1, <4>2, OneInControl
    <3> QED BY <3>1
  <2>2. ~Past(thread[Main])
    BY <1>1 DEF Inv3, JoinedFirst, At, Shape
  <2> QED BY <1>4, <1>5, <1>6, <2>1, <2>2 DEF Inv3, OpenOK, Undisturbed, Quiet
<1>8. IsMount(s) /\ Top(s) = n
  BY <1>5, <1>6 DEF IsMount, Top
<1>9. mounts[s][n].volume = x.volume
  <2>1. mounts[s][n].volume = IF n = 1 THEN "outer" ELSE "hidden"
    BY <1>5, <1>6 DEF SessionOK
  <2> QED BY <1>6, <1>7, <2>1 DEF Settled
<1>10. Where(s) = <<x.volume, r.name>>
  BY <1>8, <1>9 DEF Where
<1> QED BY <1>1, <1>2, <1>4, <1>5, <1>6, <1>7, <1>8, <1>9, <1>10 DEF SessionOK

-----------------------------------------------------------------------------
(***************************************************************************)
(* The files that the page was told are in.                                *)
(***************************************************************************)
Record(f, v, w) == [name |-> f, source |-> v, whole |-> w]
Named(p, f) == {x \in store[p] : x.name = f}

\* What a session has counted is in its volumes, in full.
Kept(r) ==
  /\ \A f \in r.own \union r.uploaded_outer :
       Record(f, "outer", TRUE) \in store[<<"outer", r.name>>]
  /\ \A f \in r.uploaded_hidden :
       Record(f, "hidden", TRUE) \in store[<<"hidden", r.name>>]

\* A file is on its way, or has arrived and is to be counted.
Receiving(h) == h.op = "upload" /\ h.pc \in {"transfer", "discard"}
Received(h)  == h.op = "upload" /\ h.pc \in {"book", "count"}

FileOK(h, r) ==
  /\ Receiving(h) => Named(<<h.volume, r.name>>, h.file) = {Record(h.file, h.volume, FALSE)}
  /\ Received(h)  => Record(h.file, h.volume, TRUE) \in store[<<h.volume, r.name>>]
  /\ h.op = "upload" /\ h.pc = "transfer" => h.m = r.process

FilesOK ==
  /\ \A s \in 1 .. Len(session) : Kept(session[s])
  /\ \A t \in Threads : FileOK(thread[t], session[thread[t].s])
  /\ \A t, u \in Threads : Receiving(thread[t]) /\ Receiving(thread[u])
       /\ thread[t].file = thread[u].file => t = u
  /\ OnlyThroughMount

\* Nothing is missing.
Complete(r) == /\ r.phase = "single" => CoverFiles \subseteq r.own
               /\ r.phase = "hidden" => HiddenFiles \subseteq r.uploaded_hidden
               /\ r.phase # "outer"

\* The lists follow the phase, but while it is switched.
Relisting(h, s) == h.op = "switch" /\ h.pc \in {"expected", "uploaded"} /\ h.s = s
Matched == \A s \in 1 .. Len(session) : session[s].phase = "hidden" =>
  session[s].uploaded_files = "hidden" \/ \E t \in Threads : Relisting(thread[t], s)

FinishingOK ==
  /\ \A t \in Threads : thread[t].op = "finish" =>
       thread[t].s \in 1 .. Len(session) /\ Complete(session[thread[t].s])
  /\ \A s \in finished : s \in 1 .. Len(session) /\ Complete(session[s])

Inv4 == FilesOK /\ Matched /\ FinishingOK

\* A record that is marked.
LEMMA MarkedRecord ==
  ASSUME NEW f, NEW v, NEW w \in BOOLEAN
  PROVE  [Record(f,v,w) EXCEPT !.whole = TRUE] = Record(f,v,TRUE)
<1> DEFINE R == [name : {f}, source : {v}, whole : BOOLEAN]
           z == Record(f, v, w)
           z2 == Record(f, v, TRUE)
           y == [z EXCEPT !.whole = TRUE]
<1>1. z \in R /\ z2 \in R
  BY DEF Record
<1>2. z.name = f /\ z.source = v /\ z2.name = f /\ z2.source = v /\ z2.whole = TRUE
  BY DEF Record
<1> HIDE DEF z, z2
<1>3. y \in R /\ y.name = z2.name /\ y.source = z2.source /\ y.whole = TRUE
  BY <1>1, <1>2
<1>4. y.whole = z2.whole
  BY <1>2, <1>3
<1>5. y = z2
  <2> HIDE DEF y
  <2> QED BY <1>1, <1>3, <1>4
<1> QED BY <1>5 DEF z, z2

\* The lists still follow the phases.
LEMMA MatchedKept ==
  ASSUME Matched, NEW t \in Everyone, Moves(t, thread'[t]),
         thread[t].pc \notin {"expected", "uploaded"},
         \A s \in 1 .. Len(session') :
           \/ session'[s].phase # "hidden"
           \/ /\ s \in 1 .. Len(session) /\ session'[s].phase = session[s].phase
              /\ session'[s].uploaded_files = session[s].uploaded_files
  PROVE  Matched'
<1>1. ASSUME NEW s \in 1 .. Len(session'), session'[s].phase = "hidden",
             session'[s].uploaded_files # "hidden"
      PROVE  \E u \in Threads : Relisting(thread'[u], s)
  <2>1. PICK u \in Threads : Relisting(thread[u], s)
    BY <1>1 DEF Matched
  <2>2. thread'[u] = thread[u]
    BY <2>1 DEF Relisting, Moves, Everyone
  <2> QED BY <2>1, <2>2
<1> QED BY <1>1 DEF Matched

\* A step that writes no file.
LEMMA RecordsStep ==
  ASSUME Inv1, Inv4, NEW t \in Everyone, Moves(t, thread'[t]), store' = store,
         Len(session') \in Nat, Len(session) <= Len(session'),
         \A s \in 1 .. Len(session') : Kept(session'[s]),
         \A s \in 1 .. Len(session) :
           /\ session'[s].name = session[s].name
           /\ Complete(session[s]) => Complete(session'[s]),
         \A u \in Threads : thread[u].op = "upload" /\ u # t =>
           session'[thread[u].s].process = session[thread[u].s].process,
         t \in Threads => FileOK(thread'[t], session'[thread'[t].s]),
         t \in Threads /\ Receiving(thread'[t]) =>
           Receiving(thread[t]) /\ thread'[t].file = thread[t].file,
         t \in Threads /\ thread'[t].op = "finish" =>
           thread'[t].s \in 1 .. Len(session') /\ Complete(session'[thread'[t].s]),
         \A s \in finished' : s \in 1 .. Len(session') /\ Complete(session'[s]),
         Matched'
  PROVE  Inv4'
<1>1. /\ Threads \subseteq Everyone /\ \A u \in Threads : u # t => thread'[u] = thread[u]
      /\ Len(session) \in Nat /\ 1 .. Len(session) \subseteq 1 .. Len(session')
  BY Unfolded1 DEF Moves
<1>2. \A s \in 1 .. Len(session') : Kept(session[s])'
  BY DEF Kept
<1>3. ASSUME NEW u \in Threads
      PROVE  FileOK(thread[u], session[thread[u].s])'
  <2>1. CASE u = t
    BY <2>1 DEF FileOK, Named
  <2>2. CASE u # t /\ thread[u].op = "upload"
    <3>1. thread[u].s \in 1 .. Len(session)
      BY <1>1, <2>2, HasSession
    <3>2. FileOK(thread[u], session[thread[u].s])
      BY DEF Inv4, FilesOK
    <3> QED BY <1>1, <2>2, <3>1, <3>2 DEF FileOK, Named
  <2>3. CASE u # t /\ thread[u].op # "upload"
    BY <1>1, <2>3 DEF FileOK, Receiving, Received
  <2> QED BY <2>1, <2>2, <2>3
<1>4. \A u, w \in Threads : Receiving(thread'[u]) /\ Receiving(thread'[w])
        /\ thread'[u].file = thread'[w].file => u = w
  <2>1. \A u \in Threads : Receiving(thread'[u]) =>
          Receiving(thread[u]) /\ thread'[u].file = thread[u].file
    BY <1>1
  <2> QED BY <2>1 DEF Inv4, FilesOK
<1>5. OnlyThroughMount'
  BY DEF Inv4, FilesOK, OnlyThroughMount
<1>6. FinishingOK'
  <2>1. ASSUME NEW u \in Threads, thread'[u].op = "finish"
        PROVE  thread'[u].s \in 1 .. Len(session') /\ Complete(session'[thread'[u].s])
    <3>1. CASE u = t
      BY <2>1, <3>1
    <3>2. CASE u # t
      BY <1>1, <2>1, <3>2 DEF Inv4, FinishingOK
    <3> QED BY <3>1, <3>2
  <2> QED BY <2>1 DEF FinishingOK, Complete
<1> QED BY <1>2, <1>3, <1>4, <1>5, <1>6 DEF Inv4, FilesOK

\* A step that changes neither a session nor a file.
LEMMA QuietStep4 ==
  ASSUME Inv1, Inv4, NEW t \in Everyone, Moves(t, thread'[t]),
         UNCHANGED <<session, store>>,
         thread[t].pc \notin {"expected", "uploaded"},
         LET y == thread'[t]
         IN  t \in Threads =>
               /\ ~Receiving(y) /\ ~Received(y)
               /\ y.op = "finish" => /\ y.s \in 1 .. Len(session)
                                     /\ Complete(session[y.s]),
         \A s \in finished' : s \in 1 .. Len(session) /\ Complete(session[s])
  PROVE  Inv4'
<1>1. Matched'
  BY MatchedKept DEF Inv4
<1>2. t \in Threads => FileOK(thread'[t], session'[thread'[t].s])
  BY DEF FileOK, Receiving
<1>3. Len(session') \in Nat /\ Len(session) <= Len(session')
  BY Unfolded1
<1>4. \A s \in 1 .. Len(session') : Kept(session'[s])
  BY DEF Inv4, FilesOK
<1> QED BY <1>1, <1>2, <1>3, <1>4, RecordsStep

\* A handler that goes on keeps its request and its session.
LEMMA SameRequest ==
  ASSUME Inv1, NEW t \in Everyone,
         \/ \E pc \in Positions : Goto(t, pc)
         \/ \E pc \in Positions : \E m \in Nat : Advances(t, pc, m)
         \/ \E ok \in BOOLEAN : Leaves(t, ok)
         \/ Replies(t)
  PROVE  LET x == thread[t]
             y == thread'[t]
         IN  Moves(t, y) /\ (y.op = "none" \/ (y.op = x.op /\ y.s = x.s))
<1> DEFINE x == thread[t]
           y == thread'[t]
<1>1. thread \in [Everyone -> Handler]
  BY Unfolded1
<1>2. ASSUME NEW pc \in Positions, Goto(t, pc)
      PROVE  Moves(t, y) /\ y.op = x.op /\ y.s = x.s
  BY <1>1, <1>2, GotoMoves DEF Moves
<1>3. ASSUME NEW pc \in Positions, NEW m \in Nat, Advances(t, pc, m)
      PROVE  Moves(t, y) /\ y.op = x.op /\ y.s = x.s
  BY <1>1, <1>3, AdvancesMoves DEF Moves
<1>4. ASSUME NEW ok \in BOOLEAN, Leaves(t, ok)
      PROVE  Moves(t, y) /\ y.op = x.op /\ y.s = x.s
  BY <1>1, <1>4, LeavesMoves DEF Moves
<1>5. Replies(t) => Moves(t, y) /\ y.op = "none"
  BY <1>1, RepliesMoves DEF Moves
<1> QED BY <1>2, <1>3, <1>4, <1>5

\* Handlers that write no file and change no record.
LEMMA HandlersKeep4 ==
  ASSUME InTurns, Inv1, Inv3, Inv4, NEW t \in Everyone,
         \/ /\ t \in Threads
            /\ \/ Release(t) \/ ReserveClose(t) \/ Create(t) \/ Fill(t) \/ CreateHidden(t)
               \/ Unlock(t) \/ AwaitMount(t) \/ MountTimedOut(t) \/ Publish(t)
               \/ ListFiles(t) \/ ListFailed(t) \/ Remount(t) \/ AwaitRemount(t)
               \/ OpenSource(t) \/ Link(t)
         \/ StopMount(t)
  PROVE  Inv4'
<1> DEFINE x == thread[t]
           y == thread'[t]
<1>1. /\ x \in Handler /\ Shape(x) /\ x.pc \in Positions
  BY Unfolded1, HandlerPosition
<1>2. UNCHANGED <<session, store, finished>>
  BY DEF Release, ReserveClose, Create, Fill, CreateHidden, Unlock, AwaitMount,
     MountTimedOut, Publish, ListFiles, ListFailed, Remount, AwaitRemount, OpenSource,
     Link, StopMount, Unmount, Reap, WaitProcess, others, told
<1>3. x.pc \in {"release", "reserve", "create", "fill", "hidden", "unlock", "await",
                "terminated", "publish", "list", "stopped", "remounting", "fetch", "link",
                "unmount", "reap", "wait"}
  BY DEF Release, ReserveClose, Create, Fill, CreateHidden, Unlock, AwaitMount,
     MountTimedOut, Publish, ListFiles, ListFailed, Remount, AwaitRemount, OpenSource,
     Link, StopMount, Unmount, Reap, WaitProcess, At, Doing
<1>4. x.op # "upload"
  BY <1>1, <1>3 DEF Shape, Opens, Closes
<1>5. \/ \E pc \in Positions : Goto(t, pc)
      \/ \E pc \in Positions : \E m \in Nat : Advances(t, pc, m)
      \/ \E ok \in BOOLEAN : Leaves(t, ok)
      \/ Replies(t)
  <2>1. /\ \A s \in SessionIds : Len(mounts[s]) + 1 \in Nat /\ Top(s) \in Nat
        /\ \A s \in 1 .. Len(session) : session[s].process \in Nat /\ s \in SessionIds
    <3>1. ASSUME NEW s \in SessionIds
          PROVE  Len(mounts[s]) + 1 \in Nat /\ Top(s) \in Nat
      <4>1. mounts[s] \in Seq(MountProcess) /\ stack[s] \in Seq(Nat)
        BY Unfolded1
      <4> QED BY <4>1 DEF Top, IsMount
    <3> QED BY <3>1, OpenedSession DEF Inv3, MountSession
  <2>2. Arguments(x, Len(session))
    BY Unfolded1
  <2>3. CASE ReserveClose(t) \/ Create(t) \/ Fill(t) \/ CreateHidden(t) \/ Release(t)
             \/ Unlock(t) \/ AwaitMount(t) \/ MountTimedOut(t) \/ Publish(t)
             \/ ListFiles(t) \/ ListFailed(t) \/ AwaitRemount(t) \/ Link(t)
    <3>1. /\ {"unmount", "fill", "hidden", "spawn", "publish", "terminated", "list",
              "process"} \subseteq Positions
      BY DEF Positions
    <3> QED BY <2>3, <3>1 DEF ReserveClose, Create, Fill, CreateHidden, Release, Unlock,
         AwaitMount, MountTimedOut, Publish, ListFiles, ListFailed, AwaitRemount, Link
  <2>4. CASE OpenSource(t)
    <3>1. x.s \in SessionIds
      BY <2>1, <2>2, <2>4 DEF OpenSource, At, Arguments
    <3>2. Top(x.s) \in Nat /\ "copy" \in Positions
      BY <2>1, <3>1 DEF Positions
    <3> QED BY <2>4, <3>2 DEF OpenSource, Advances
  <2>5. CASE Remount(t)
    <3>1. x.s \in SessionIds
      BY <2>1, <2>2, <2>5 DEF Remount, Doing, Arguments
    <3>2. Len(mounts[x.s]) + 1 \in Nat /\ "remounting" \in Positions
      BY <2>1, <3>1 DEF Positions
    <3> QED BY <2>5, <3>2 DEF Remount, Advances
  <2>6. CASE StopMount(t)
    <3>1. Unmount(t) \/ WaitProcess(t) =>
            \/ \E pc \in {"reap", "stopped"} : Goto(t, pc)
            \/ StopFails(t)
      BY DEF Unmount, WaitProcess
    <3>2. StopFails(t) => \/ Replies(t) \/ Goto(t, "exited") \/ Leaves(t, FALSE)
      BY DEF StopFails
    <3>3. ASSUME Reap(t)
          PROVE  \E pc \in Positions : \E m \in Nat : Advances(t, pc, m)
      <4>1. session[x.s].process \in Nat /\ "wait" \in Positions
        BY <2>1, <2>2, <3>3 DEF Reap, At, Arguments, Positions
      <4> QED BY <3>3, <4>1 DEF Reap, Advances
    <3>4. {"reap", "stopped", "exited"} \subseteq Positions
      BY DEF Positions
    <3> QED BY <2>6, <3>1, <3>2, <3>3, <3>4 DEF StopMount
  <2> QED BY <2>3, <2>4, <2>5, <2>6
<1>6. Moves(t, y) /\ (y.op = "none" \/ (y.op = x.op /\ y.s = x.s))
  BY <1>5, SameRequest
<1>7. ~Receiving(y) /\ ~Received(y)
  BY <1>4, <1>6 DEF Receiving, Received
<1>8. t \in Threads /\ y.op = "finish" => y.s \in 1 .. Len(session) /\ Complete(session[y.s])
  BY <1>6 DEF Inv4, FinishingOK
<1> QED BY <1>2, <1>3, <1>6, <1>7, <1>8, QuietStep4 DEF Inv4, FinishingOK

\* The vault may be finished: nothing is missing.
LEMMA FinishRequested ==
  ASSUME InTurns, Inv1, Inv3, Inv4, NEW t \in Threads, Finish(t)
  PROVE  current \in 1 .. Len(session) /\ Complete(session[current])
<1> DEFINE r == session[current]
<1>1. /\ Request(t, "finish") /\ current # NoSession
      /\ r.phase # "outer" /\ Expected(current) \subseteq Uploaded(current)
  BY DEF Finish, Open, NothingMissing
<1>2. current \in 1 .. Len(session)
  BY <1>1, Unfolded1
<1>3. \A u \in Threads : thread[u].op # "switch"
  BY <1>1, TurnRequests
<1>4. r.phase = "hidden" => r.uploaded_files = "hidden"
  BY <1>2, <1>3 DEF Inv4, Matched, Relisting
<1>5. ListsOK(r) /\ r \in MountSession
  BY <1>2, OpenedSession DEF Inv3, SessionOK
<1>6. CASE r.phase = "hidden"
  <2>1. r.uploaded_files = "hidden" /\ r.expected_files = "hidden"
    BY <1>4, <1>5, <1>6 DEF ListsOK
  <2> QED BY <1>1, <1>2, <1>6, <2>1 DEF Complete, Expected, Uploaded
<1>7. CASE r.phase # "hidden"
  <2>1. r.uploaded_files # "hidden" /\ r.expected_files # "hidden"
    BY <1>5, <1>7 DEF ListsOK
  <2> QED BY <1>1, <1>2, <1>7, <2>1 DEF Complete, Expected, Uploaded
<1> QED BY <1>6, <1>7

\* Requests as they arrive, and the steps that wait for the browser.
LEMMA BrowserKeeps4 ==
  ASSUME InTurns, Inv1, Inv3, Inv4, NEW t \in Threads, Browser(t), ~Transfer(t)
  PROVE  Inv4'
<1> DEFINE x == thread[t]
           y == thread'[t]
<1>1. /\ t \in Everyone /\ thread \in [Everyone -> Handler] /\ Shape(x) /\ x \in Handler
  BY Unfolded1
<1>2. Orderly(t)
  BY BrowserOrderly, HandleOrderly DEF Browser
<1>3. Moves(t, y)
  BY <1>1, <1>2, OrderlyMoves
<1>4. UNCHANGED <<session, store, finished>>
  BY DEF Browser, Connect, Disconnect, Encrypt, Decrypt, Import, Switch, Finish, Lock,
     Upload, Download, Copied, Receive, others, told
<1>5. x.pc \in {"off", "ready", "copy", "receive"}
  BY DEF Browser, Connect, Disconnect, Encrypt, Decrypt, Import, Switch, Finish, Lock,
     Upload, Download, Copied, Receive, Request, At
<1>6. ASSUME ~Receiving(y), ~Received(y),
             y.op = "finish" => y.s = current /\ Finish(t)
      PROVE  Inv4'
  <2>1. \A s \in finished' : s \in 1 .. Len(session) /\ Complete(session[s])
    BY <1>4 DEF Inv4, FinishingOK
  <2>2. y.op = "finish" => y.s \in 1 .. Len(session) /\ Complete(session[y.s])
    BY <1>6, FinishRequested
  <2> QED BY <1>1, <1>3, <1>4, <1>5, <1>6, <2>1, <2>2, QuietStep4
<1>7. ASSUME y.op \notin {"upload", "finish"}
      PROVE  Inv4'
  BY <1>6, <1>7 DEF Receiving, Received
<1>8. CASE Connect(t) \/ Disconnect(t) \/ Receive(t) \/ Copied(t)
  <2>1. \/ \E pc \in Positions : Becomes(t, Idle(pc))
        \/ Replies(t)
        \/ x.op = "import" /\ \E pc \in Positions : Goto(t, pc)
    BY <1>1, <1>8 DEF Connect, Disconnect, Receive, Copied, At, Shape, Positions
  <2>2. ASSUME NEW pc \in Positions, Becomes(t, Idle(pc))
        PROVE  y.op = "none"
    BY <1>1, <2>2, BecomesIs, IdleHandler
  <2>3. Replies(t) => y.op = "none"
    BY <1>1, RepliesMoves DEF Moves
  <2>4. ASSUME NEW pc \in Positions, Goto(t, pc)
        PROVE  y.op = x.op
    BY <1>1, <2>4, GotoMoves DEF Moves
  <2> QED BY <1>7, <2>1, <2>2, <2>3, <2>4
<1>9. ASSUME NEW n \in Names, \/ \E d \in BOOLEAN : Encrypt(t, n, d) \/ Import(t, n, d)
                              \/ \E v \in Volumes : Decrypt(t, n, v)
      PROVE  Inv4'
  <2>1. \/ \E d \in BOOLEAN : Becomes(t,
             [Handling("encrypt", "create") EXCEPT !.name = n, !.deniable = d])
        \/ \E d \in BOOLEAN : Becomes(t,
             [Handling("import", "receive") EXCEPT !.name = n, !.deniable = d])
        \/ \E v \in Volumes : Becomes(t,
             [Handling("decrypt", "unlock") EXCEPT !.name = n, !.volume = v])
    BY <1>9 DEF Encrypt, Decrypt, Import
  <2>2. y.op \in {"encrypt", "decrypt", "import"}
    BY <1>1, <2>1 DEF Becomes, Handling, Idle
  <2> QED BY <1>7, <2>2
<1>10. ASSUME NEW f \in FileNames, Download(t, f)
       PROVE  Inv4'
  <2>1. Becomes(t, [Handling("download", "fetch") EXCEPT !.s = current, !.file = f])
    BY <1>10 DEF Download
  <2>2. y.op = "download"
    BY <1>1, <2>1 DEF Becomes, Handling, Idle
  <2> QED BY <1>7, <2>2
<1>11. ASSUME NEW f \in FileNames, Upload(t, f)
       PROVE  Inv4'
  <2> DEFINE v == IF session[current].expected_files = "hidden" THEN "hidden" ELSE "outer"
  <2>1. Becomes(t, [Handling("upload", "open") EXCEPT !.s = current, !.file = f, !.volume = v])
    BY <1>11 DEF Upload
  <2> HIDE DEF v
  <2>2. y.op = "upload" /\ y.pc = "open"
    BY <1>1, <2>1 DEF Becomes, Handling, Idle
  <2> QED BY <1>6, <2>2 DEF Receiving, Received
<1>12. CASE Switch(t) \/ Lock(t)
  <2>1. \E op \in {"switch", "lock"} : \E pc \in {"unmount", "reserve"} :
          Becomes(t, [Handling(op, pc) EXCEPT !.s = current])
    BY <1>12 DEF Switch, Lock
  <2>2. y.op \in {"switch", "lock"}
    BY <1>1, <2>1 DEF Becomes, Handling, Idle
  <2> QED BY <1>7, <2>2
<1>13. CASE Finish(t)
  <2>1. Becomes(t, [Handling("finish", "reserve") EXCEPT !.s = current])
    BY <1>13 DEF Finish
  <2>2. y.op = "finish" /\ y.s = current
    BY <1>1, <2>1 DEF Becomes, Handling, Idle
  <2> QED BY <1>6, <1>13, <2>2 DEF Receiving, Received
<1> QED BY <1>8, <1>9, <1>10, <1>11, <1>12, <1>13 DEF Browser

\* A new session has counted nothing.
LEMMA StartMountKeeps4 ==
  ASSUME InTurns, Inv1, Inv3, Inv4, NEW t \in Threads, StartMount(t)
  PROVE  Inv4'
<1> DEFINE x == thread[t]
           y == thread'[t]
           n == Len(session)
           r == NewSession(x)
<1>1. /\ t \in Everyone /\ x \in Handler /\ n \in Nat /\ Shape(x)
  BY Unfolded1
<1>2. /\ Moves(t, y) /\ y.pc = "await" /\ y.op = x.op
  BY StartMountSession DEF Moves
<1>3. /\ Len(session') = n + 1 /\ session'[n + 1] = r
      /\ \A s \in 1 .. n : session'[s] = session[s]
  BY StartMountSession
<1>4. x.pc = "spawn" /\ UNCHANGED <<store, finished>>
  BY DEF StartMount, At, told
<1>5. x.op \in {"encrypt", "decrypt"}
  BY <1>1, <1>4 DEF Shape, Opens
<1>6. /\ r.phase # "hidden" /\ r.own = {} /\ r.uploaded_outer = {} /\ r.uploaded_hidden = {}
  BY DEF NewSession, FirstPhase
<1> HIDE DEF r, n
<1>7. \A s \in 1 .. n + 1 : s \in 1 .. n \/ s = n + 1
  BY <1>1 DEF n
<1>8. \A s \in 1 .. n : s \in 1 .. n + 1
  BY <1>1 DEF n
<1>9. Kept(r)
  BY <1>6 DEF Kept
<1>10. \A s \in 1 .. Len(session') : Kept(session'[s])
  BY <1>3, <1>7, <1>9 DEF Inv4, FilesOK, n
<1>11. Matched'
  BY <1>1, <1>2, <1>3, <1>4, <1>6, <1>7, MatchedKept DEF Inv4, n
<1>12. FileOK(y, session'[y.s]) /\ ~Receiving(y) /\ y.op # "finish"
  BY <1>2, <1>5 DEF FileOK, Receiving, Received
<1>13. \A u \in Threads : thread[u].op = "upload" =>
         session'[thread[u].s].process = session[thread[u].s].process
  BY <1>3, HasSession, Unfolded1 DEF n
<1>14. \A s \in finished' : s \in 1 .. Len(session') /\ Complete(session'[s])
  BY <1>3, <1>4, <1>8 DEF Inv4, FinishingOK, n
<1>15. Len(session') \in Nat /\ Len(session) <= Len(session')
  BY <1>1, <1>3 DEF n
<1> QED BY <1>1, <1>2, <1>3, <1>4, <1>10, <1>11, <1>12, <1>13, <1>14, <1>15, RecordsStep DEF n

\* A step of handler t that changes the record of one session only, from o to r.
LEMMA RecordStep4 ==
  ASSUME Inv1, Inv4, NEW t \in Threads, Moves(t, thread'[t]), store' = store,
         NEW s \in 1 .. Len(session), Len(session') = Len(session),
         \A k \in 1 .. Len(session) : k # s => session'[k] = session[k],
         LET y == thread'[t]
             o == session[s]
             r == session'[s]
         IN  /\ r.name = o.name /\ Kept(r) /\ (Complete(o) => Complete(r))
             /\ r.process = o.process \/ \A u \in Threads : u # t => thread[u].op # "upload"
             /\ FileOK(y, session'[y.s]) /\ ~Receiving(y)
             /\ y.op = "finish" => y.op = thread[t].op /\ y.s = thread[t].s,
         \A k \in finished' : k \in finished \/ (k = s /\ Complete(session'[s])),
         Matched'
  PROVE  Inv4'
<1>1. t \in Everyone /\ Len(session) \in Nat /\ Threads \subseteq Everyone
  BY Unfolded1
<1>2. \A k \in 1 .. Len(session') : Kept(session'[k])
  BY DEF Inv4, FilesOK
<1>3. \A k \in 1 .. Len(session) : /\ session'[k].name = session[k].name
                                   /\ Complete(session[k]) => Complete(session'[k])
  OBVIOUS
<1>4. ASSUME NEW u \in Threads, thread[u].op = "upload", u # t
      PROVE  session'[thread[u].s].process = session[thread[u].s].process
  <2>1. thread[u].s \in 1 .. Len(session)
    BY <1>1, <1>4, HasSession
  <2> QED BY <1>4, <2>1
<1>5. \A k \in finished' : k \in 1 .. Len(session') /\ Complete(session'[k])
  BY <1>3 DEF Inv4, FinishingOK
<1>6. thread'[t].op = "finish" =>
        thread'[t].s \in 1 .. Len(session') /\ Complete(session'[thread'[t].s])
  BY <1>3 DEF Inv4, FinishingOK
<1> QED BY <1>1, <1>2, <1>3, <1>4, <1>5, <1>6, RecordsStep

\* The vault is locked, or finished.
LEMMA LockedKeeps4 ==
  ASSUME InTurns, Inv1, Inv3, Inv4, NEW t \in Threads, Locked(t)
  PROVE  Inv4'
<1> DEFINE x == thread[t]
           y == thread'[t]
           s == x.s
           o == session[s]
<1>1. /\ x.pc = "stopped" /\ x.op \in {"lock", "finish"} /\ Stopping(x)
      /\ Leaves(t, TRUE) /\ store' = store
  BY DEF Locked, Doing, Stopping
<1>2. /\ t \in Everyone /\ thread \in [Everyone -> Handler] /\ session \in Seq(MountSession)
  BY Unfolded1
<1>3. s \in 1 .. Len(session)
  BY <1>1, <1>2, HasSession
<1>4. Moves(t, y) /\ y.op = x.op /\ y.s = s
  BY <1>1, <1>2, LeavesMoves DEF Moves
<1>5. ~Receiving(y) /\ ~Received(y)
  BY <1>1, <1>4 DEF Receiving, Received
<1>6. CASE UNCHANGED <<session, finished>>
  BY <1>1, <1>2, <1>4, <1>5, <1>6, QuietStep4 DEF Inv4, FinishingOK
<1>7. CASE /\ x.op = "finish" /\ finished' = finished \union {s}
           /\ session' = [session EXCEPT ![s].hidden_password = FALSE]
  <2> DEFINE r == [o EXCEPT !.hidden_password = FALSE]
  <2>1. o \in MountSession
    BY <1>3, OpenedSession DEF Inv3
  <2>2. /\ r \in MountSession /\ r.name = o.name /\ r.process = o.process
        /\ r.own = o.own /\ r.uploaded_outer = o.uploaded_outer
        /\ r.uploaded_hidden = o.uploaded_hidden /\ r.phase = o.phase
        /\ r.uploaded_files = o.uploaded_files
    BY <2>1 DEF MountSession
  <2>3. session' = [session EXCEPT ![s] = r]
    BY <1>7
  <2> HIDE DEF r, o
  <2>4. /\ Len(session') = Len(session)
        /\ \A k \in 1 .. Len(session) : session'[k] = IF k = s THEN r ELSE session[k]
    BY <1>2, <1>3, <2>2, <2>3, SessionChanges
  <2>5. session'[s] = r /\ \A k \in 1 .. Len(session) : k # s => session'[k] = session[k]
    BY <1>3, <2>4
  <2>6. Kept(r) /\ Complete(r)
    <3>1. Kept(o) /\ Complete(o)
      BY <1>3, <1>7 DEF Inv4, FilesOK, FinishingOK, o
    <3> QED BY <2>2, <3>1 DEF Kept, Complete
  <2>7. Matched'
    BY <1>1, <1>2, <1>4, <2>2, <2>4, MatchedKept DEF Inv4, o
  <2>8. FileOK(y, session'[y.s])
    BY <1>5 DEF FileOK, Receiving
  <2> QED BY <1>1, <1>3, <1>4, <1>5, <1>7, <2>2, <2>4, <2>5, <2>6, <2>7, <2>8, RecordStep4
       DEF o
<1> QED BY <1>6, <1>7 DEF Locked

\* The four assignments.
LEMMA AssignKeeps4 ==
  ASSUME InTurns, Inv1, Inv3, Inv4, NEW t \in Threads, Assign(t)
  PROVE  Inv4'
<1> DEFINE x == thread[t]
           y == thread'[t]
           s == x.s
           o == session[s]
<1>1. x.pc \in {"process", "phase", "expected", "uploaded"} /\ UNCHANGED <<store, finished>>
  BY DEF Assign, At, told
<1>2. /\ thread \in [Everyone -> Handler] /\ session \in Seq(MountSession) /\ t \in Everyone
      /\ x.op = "switch"
  BY <1>1, Unfolded1 DEF Shape, Everyone
<1>3. /\ s \in 1 .. Len(session) /\ Active(x) /\ x.m \in Nat /\ o \in MountSession
      /\ SwitchOK(x, o, Last(s), Len(mounts[s]), stack[s])
  BY <1>2, SwitchKnows
<1>4. \A u \in Threads : u # t => thread[u].op # "upload"
  BY <1>2, <1>3, OneInControl
<1>5. ASSUME NEW r \in MountSession, session' = [session EXCEPT ![s] = r],
             r.name = o.name, r.own = o.own, r.uploaded_outer = o.uploaded_outer,
             r.uploaded_hidden = o.uploaded_hidden,
             r.phase = o.phase \/ o.phase = "outer",
             Moves(t, y),
             \/ y.op = "none"
             \/ y.op = "switch" /\ y.s = s /\ y.pc \in {"phase", "expected", "uploaded"},
             r.phase = "hidden" => r.uploaded_files = "hidden" \/ Relisting(y, s)
      PROVE  Inv4'
  <2>1. /\ Len(session') = Len(session)
        /\ \A k \in 1 .. Len(session) : session'[k] = IF k = s THEN r ELSE session[k]
    BY <1>2, <1>3, <1>5, SessionChanges
  <2>2. session'[s] = r /\ \A k \in 1 .. Len(session) : k # s => session'[k] = session[k]
    BY <1>3, <2>1
  <2>3. Kept(r) /\ (Complete(o) => Complete(r))
    <3>1. Kept(o)
      BY <1>3 DEF Inv4, FilesOK
    <3> HIDE DEF o
    <3> QED BY <1>5, <3>1 DEF Kept, Complete
  <2>4. Matched'
    <3>1. ASSUME NEW k \in 1 .. Len(session), session'[k].phase = "hidden",
                 session'[k].uploaded_files # "hidden"
          PROVE  \E u \in Threads : Relisting(thread'[u], k)
      <4>1. CASE k = s
        BY <1>5, <2>2, <3>1, <4>1
      <4>2. CASE k # s
        <5>1. PICK u \in Threads : Relisting(thread[u], k)
          BY <2>2, <3>1, <4>2 DEF Inv4, Matched
        <5>2. u # t /\ u \in Everyone
          BY <4>2, <5>1, Unfolded1 DEF Relisting
        <5>3. thread'[u] = thread[u]
          BY <1>5, <5>2 DEF Moves
        <5> QED BY <5>1, <5>3
      <4> QED BY <4>1, <4>2
    <3> QED BY <2>1, <3>1 DEF Matched
  <2>5. FileOK(y, session'[y.s]) /\ ~Receiving(y) /\ y.op # "finish"
    BY <1>5 DEF FileOK, Receiving, Received
  <2> QED BY <1>1, <1>3, <1>4, <1>5, <2>1, <2>2, <2>3, <2>4, <2>5, RecordStep4
<1>6. ASSUME NEW pc \in Positions, Goto(t, pc)
      PROVE  Moves(t, y) /\ y.op = "switch" /\ y.s = s /\ y.pc = pc
  BY <1>2, <1>6, GotoMoves DEF Moves
<1>7. CASE At(t, "process") /\ Set(t, [o EXCEPT !.process = x.m], "phase")
  <2> DEFINE r == [o EXCEPT !.process = x.m]
  <2>1. session' = [session EXCEPT ![s] = r] /\ Goto(t, "phase") /\ o.phase = "outer"
    BY <1>3, <1>7 DEF Set, At, SwitchOK
  <2>2. Moves(t, y) /\ y.op = "switch" /\ y.s = s /\ y.pc = "phase"
    BY <1>6, <2>1 DEF Positions
  <2>3. /\ r \in MountSession /\ r.name = o.name /\ r.own = o.own /\ r.phase = o.phase
        /\ r.uploaded_outer = o.uploaded_outer /\ r.uploaded_hidden = o.uploaded_hidden
    BY <1>3 DEF MountSession
  <2> HIDE DEF r, o
  <2> QED BY <1>5, <2>1, <2>2, <2>3
<1>8. CASE At(t, "phase") /\ Set(t, [o EXCEPT !.phase = "hidden"], "expected")
  <2> DEFINE r == [o EXCEPT !.phase = "hidden"]
  <2>1. session' = [session EXCEPT ![s] = r] /\ Goto(t, "expected") /\ o.phase = "outer"
    BY <1>3, <1>8 DEF Set, At, SwitchOK
  <2>2. Moves(t, y) /\ y.op = "switch" /\ y.s = s /\ y.pc = "expected"
    BY <1>6, <2>1 DEF Positions
  <2>3. /\ r \in MountSession /\ r.name = o.name /\ r.own = o.own
        /\ r.uploaded_outer = o.uploaded_outer /\ r.uploaded_hidden = o.uploaded_hidden
    BY <1>3 DEF MountSession
  <2> HIDE DEF r, o
  <2> QED BY <1>5, <2>1, <2>2, <2>3 DEF Relisting
<1>9. CASE At(t, "expected") /\ Set(t, [o EXCEPT !.expected_files = "hidden"], "uploaded")
  <2> DEFINE r == [o EXCEPT !.expected_files = "hidden"]
  <2>1. session' = [session EXCEPT ![s] = r] /\ Goto(t, "uploaded")
    BY <1>9 DEF Set
  <2>2. Moves(t, y) /\ y.op = "switch" /\ y.s = s /\ y.pc = "uploaded"
    BY <1>6, <2>1 DEF Positions
  <2>3. /\ r \in MountSession /\ r.name = o.name /\ r.own = o.own /\ r.phase = o.phase
        /\ r.uploaded_outer = o.uploaded_outer /\ r.uploaded_hidden = o.uploaded_hidden
    BY <1>3 DEF MountSession
  <2> HIDE DEF r, o
  <2> QED BY <1>5, <2>1, <2>2, <2>3 DEF Relisting
<1>10. CASE At(t, "uploaded") /\ Set(t, [o EXCEPT !.uploaded_files = "hidden"], "ready")
  <2> DEFINE r == [o EXCEPT !.uploaded_files = "hidden"]
  <2>1. session' = [session EXCEPT ![s] = r] /\ Replies(t)
    BY <1>10 DEF Set
  <2>2. Moves(t, y) /\ y.op = "none"
    BY <1>2, <2>1, RepliesMoves DEF Moves
  <2>3. /\ r \in MountSession /\ r.name = o.name /\ r.own = o.own /\ r.phase = o.phase
        /\ r.uploaded_outer = o.uploaded_outer /\ r.uploaded_hidden = o.uploaded_hidden
        /\ r.uploaded_files = "hidden"
    BY <1>3 DEF MountSession
  <2> HIDE DEF r, o
  <2> QED BY <1>5, <2>1, <2>2, <2>3
<1> QED BY <1>7, <1>8, <1>9, <1>10 DEF Assign

\* A file that has arrived is counted.
LEMMA CountKeeps4 ==
  ASSUME InTurns, Inv1, Inv3, Inv4, NEW t \in Threads, Book(t) \/ Count(t)
  PROVE  Inv4'
<1> DEFINE x == thread[t]
           y == thread'[t]
           s == x.s
           o == session[s]
           r == session'[s]
<1>1. /\ x.op = "upload" /\ s \in 1 .. Len(session) /\ Len(session') = Len(session)
      /\ \A k \in 1 .. Len(session) : k # s => session'[k] = session[k]
      /\ r.name = o.name /\ r.phase = o.phase /\ r.process = o.process
      /\ r.uploaded_files = o.uploaded_files
      /\ r.own = o.own \union
           (IF x.pc = "count" /\ o.uploaded_files = "own" THEN {x.file} ELSE {})
      /\ r.uploaded_outer = o.uploaded_outer \union
           (IF x.pc = "book" /\ o.phase = "outer" THEN {x.file} ELSE {})
      /\ r.uploaded_hidden = o.uploaded_hidden \union
           (IF o.phase = "hidden" THEN {x.file} ELSE {})
  BY ListsGrow
<1>2. /\ Settled(o) /\ x.volume = IF o.phase = "hidden" THEN "hidden" ELSE "outer"
      /\ o \in MountSession
  BY <1>1, UploadKnows
<1>3. x.pc \in {"book", "count"} /\ UNCHANGED <<store, finished>>
  BY DEF Book, Count, At, told
<1>4. t \in Everyone /\ thread \in [Everyone -> Handler]
  BY Unfolded1
<1>5. /\ Moves(t, y)
      /\ \/ y.op = "upload" /\ y.pc = "count" /\ y.s = s /\ y.file = x.file
            /\ y.volume = x.volume
         \/ y.op = "none"
  <2>1. CASE Book(t)
    BY <1>1, <1>4, <2>1, GotoMoves DEF Book, Moves, Positions
  <2>2. CASE Count(t)
    BY <1>4, <2>2, RepliesMoves DEF Count, Moves
  <2> QED BY <2>1, <2>2
<1>6. Kept(o) /\ Record(x.file, x.volume, TRUE) \in store[<<x.volume, o.name>>]
  BY <1>1, <1>3 DEF Inv4, FilesOK, FileOK, Received
<1>7. FileOK(y, session'[y.s]) /\ ~Receiving(y) /\ y.op # "finish"
  BY <1>1, <1>5, <1>6 DEF FileOK, Receiving, Received
<1>8. Matched'
  BY <1>1, <1>3, <1>4, <1>5, MatchedKept DEF Inv4
<1> HIDE DEF o, r
<1>9. Kept(r)
  <2>1. ASSUME NEW f \in r.own \union r.uploaded_outer
        PROVE  Record(f, "outer", TRUE) \in store[<<"outer", r.name>>]
    <3>1. CASE f \in o.own \union o.uploaded_outer
      BY <1>1, <1>6, <3>1 DEF Kept
    <3>2. CASE f \notin o.own \union o.uploaded_outer
      <4>1. f = x.file /\ o.phase # "hidden"
        BY <1>1, <1>2, <2>1, <3>2 DEF Settled
      <4> QED BY <1>1, <1>2, <1>6, <4>1
    <3> QED BY <3>1, <3>2
  <2>2. ASSUME NEW f \in r.uploaded_hidden
        PROVE  Record(f, "hidden", TRUE) \in store[<<"hidden", r.name>>]
    <3>1. f \in o.uploaded_hidden \/ (f = x.file /\ o.phase = "hidden")
      BY <1>1, <2>2
    <3> QED BY <1>1, <1>2, <1>6, <3>1 DEF Kept
  <2> QED BY <2>1, <2>2 DEF Kept
<1>10. Complete(o) => Complete(r)
  BY <1>1 DEF Complete
<1> QED BY <1>1, <1>3, <1>5, <1>7, <1>8, <1>9, <1>10, RecordStep4 DEF o, r

-----------------------------------------------------------------------------
(***************************************************************************)
(* Files are written.                                                      *)
(***************************************************************************)
\* The place of the file that t uploads.
Place(t) == <<thread[t].volume, session[thread[t].s].name>>

\* A step of t that leaves fs in its place: what is complete stays, and so do
\* the files that others are writing.
LEMMA StoreStep ==
  ASSUME InTurns, Inv1, Inv3, Inv4, NEW t \in Threads, thread[t].op = "upload",
         Moves(t, thread'[t]), thread[t].pc \in {"open", "transfer", "discard"},
         UNCHANGED <<session, finished>>, NEW fs,
         store' = [store EXCEPT ![Place(t)] = fs],
         \A f, v : Record(f, v, TRUE) \in store[Place(t)] => Record(f, v, TRUE) \in fs,
         \A z : z.name # thread[t].file => (z \in fs <=> z \in store[Place(t)]),
         \A u \in Threads : u # t /\ Receiving(thread[u]) => thread[u].file # thread[t].file,
         thread'[t].op \in {"none", "upload"},
         FileOK(thread[t], session[thread[t].s])',
         Receiving(thread'[t]) => thread'[t].file = thread[t].file
  PROVE  Inv4'
<1> DEFINE x == thread[t]
           y == thread'[t]
           pl == Place(t)
<1>1. /\ store \in [Places -> SUBSET File] /\ session \in Seq(MountSession)
      /\ t \in Everyone /\ Threads \subseteq Everyone
  BY Unfolded1
<1>2. pl \in Places /\ \A s : pl # <<"host", s>>
  <2>1. x.volume \in Volumes /\ session[x.s] \in MountSession
    BY UploadKnows, HandlerFields
  <2> QED BY <2>1 DEF Place, Places, MountSession, Volumes
<1>3. \A p \in Places : store'[p] = IF p = pl THEN fs ELSE store[p]
  BY <1>1, <1>2
<1>4. \A u \in Threads : u # t => thread'[u] = thread[u]
  BY <1>1 DEF Moves
<1>5. \A s \in 1 .. Len(session) : \A v \in Volumes : <<v, session[s].name>> \in Places
  <2>1. ASSUME NEW s \in 1 .. Len(session)
        PROVE  session[s].name \in Names
    <3>1. session[s] \in MountSession
      BY <1>1
    <3> QED BY <3>1 DEF MountSession
  <2> QED BY <2>1 DEF Places
<1>6. \A p \in Places : \A f, v :
        Record(f, v, TRUE) \in store[p] => Record(f, v, TRUE) \in store'[p]
  <2> HIDE DEF pl
  <2>1. ASSUME NEW p \in Places, NEW f, NEW v, Record(f, v, TRUE) \in store[p]
        PROVE  Record(f, v, TRUE) \in store'[p]
    <3>1. CASE p = pl
      <4>1. Record(f, v, TRUE) \in fs
        BY <2>1, <3>1 DEF pl
      <4> QED BY <1>3, <3>1, <4>1
    <3>2. CASE p # pl
      BY <1>3, <2>1, <3>2
    <3> QED BY <3>1, <3>2
  <2> QED BY <2>1
<1>7. ASSUME NEW s \in 1 .. Len(session)
      PROVE  Kept(session[s])'
  <2>1. Kept(session[s])
    BY DEF Inv4, FilesOK
  <2>2. <<"outer", session[s].name>> \in Places /\ <<"hidden", session[s].name>> \in Places
    BY <1>5 DEF Volumes
  <2> QED BY <1>6, <2>1, <2>2 DEF Kept
<1>8. ASSUME NEW u \in Threads
      PROVE  FileOK(thread[u], session[thread[u].s])'
  <2> DEFINE w == thread[u]
             p == <<w.volume, session[w.s].name>>
  <2>1. CASE u = t
    BY <2>1
  <2>2. CASE u # t /\ w.op # "upload"
    BY <1>4, <2>2 DEF FileOK, Receiving, Received
  <2>3. CASE u # t /\ w.op = "upload"
    <3>1. FileOK(w, session[w.s])
      BY DEF Inv4, FilesOK
    <3>2. w.s \in 1 .. Len(session) /\ w.volume \in Volumes
      BY <2>3, UploadKnows, HandlerFields
    <3>3. p \in Places
      BY <1>5, <3>2
    <3> HIDE DEF p
    <3>4. ASSUME Receiving(w)
          PROVE  {z \in store'[p] : z.name = w.file} = {z \in store[p] : z.name = w.file}
      <4>1. w.file # x.file
        BY <2>3, <3>4
      <4>2. \A z : z.name = w.file => (z \in store'[p] <=> z \in store[p])
        BY <1>3, <3>3, <4>1
      <4> QED BY <4>2
    <3>5. Record(w.file, w.volume, TRUE) \in store[p] =>
            Record(w.file, w.volume, TRUE) \in store'[p]
      BY <1>6, <3>3
    <3>6. /\ Receiving(w) => {z \in store[p] : z.name = w.file} = {Record(w.file, w.volume, FALSE)}
          /\ Received(w) => Record(w.file, w.volume, TRUE) \in store[p]
          /\ w.op = "upload" /\ w.pc = "transfer" => w.m = session[w.s].process
      BY <3>1 DEF FileOK, Named, p
    <3>7. thread'[u] = w /\ session' = session
      BY <1>4, <2>3
    <3> HIDE DEF w
    <3>8. /\ Receiving(w) => {z \in store'[p] : z.name = w.file} = {Record(w.file, w.volume, FALSE)}
          /\ Received(w) => Record(w.file, w.volume, TRUE) \in store'[p]
      BY <3>4, <3>5, <3>6
    <3> QED BY <3>6, <3>7, <3>8 DEF FileOK, Named, p
  <2> QED BY <2>1, <2>2, <2>3
<1>9. \A u, w \in Threads : Receiving(thread'[u]) /\ Receiving(thread'[w])
        /\ thread'[u].file = thread'[w].file => u = w
  <2>1. \A u \in Threads : u # t /\ Receiving(thread'[u]) =>
          Receiving(thread[u]) /\ thread'[u].file = thread[u].file /\ thread[u].file # x.file
    BY <1>4
  <2>2. Receiving(y) => y.file = x.file
    OBVIOUS
  <2> QED BY <2>1, <2>2 DEF Inv4, FilesOK
<1>10. OnlyThroughMount'
  <2> HIDE DEF pl
  <2>1. ASSUME NEW s \in SessionIds
        PROVE  store'[<<"host", s>>] = {}
    <3>1. <<"host", s>> \in Places
      BY DEF Places
    <3>2. <<"host", s>> # pl
      BY <1>2
    <3>3. store'[<<"host", s>>] = store[<<"host", s>>]
      BY <1>3, <3>1, <3>2
    <3> QED BY <3>3 DEF Inv4, FilesOK, OnlyThroughMount
  <2> QED BY <2>1 DEF OnlyThroughMount
<1>11. Matched'
  BY <1>1, MatchedKept DEF Inv4
<1>12. FinishingOK'
  <2>1. \A u \in Threads : thread'[u].op = "finish" => thread'[u] = thread[u]
    BY <1>4
  <2> QED BY <2>1 DEF Inv4, FinishingOK, Complete
<1> QED BY <1>7, <1>8, <1>9, <1>10, <1>11, <1>12 DEF Inv4, FilesOK

\* Those who write at a time write to the same place.
LEMMA OnePlace ==
  ASSUME InTurns, Inv1, Inv3, NEW t \in Threads, NEW u \in Threads,
         thread[t].op = "upload", thread[u].op = "upload"
  PROVE  Place(t) = Place(u)
<1>1. /\ thread[t].s = current /\ thread[u].s = current
      /\ thread[t].volume = thread[u].volume
  BY UploadKnows
<1> QED BY <1>1 DEF Place

\* A file is created.
LEMMA OpenKeeps4 ==
  ASSUME InTurns, Inv1, Inv3, Inv4, NEW t \in Threads, OpenDestination(t)
  PROVE  Inv4'
<1> DEFINE x == thread[t]
           y == thread'[t]
           s == x.s
           f == x.file
           pl == Place(t)
           new == Record(f, x.volume, FALSE)
           fs == store[pl] \union {new}
<1>1. /\ x.pc = "open" /\ x.op = "upload" /\ UNCHANGED <<session, finished>>
      /\ t \in Everyone /\ thread \in [Everyone -> Handler]
  <2>1. Shape(x) /\ t \in Everyone /\ thread \in [Everyone -> Handler]
    BY Unfolded1
  <2> QED BY <2>1 DEF OpenDestination, At, Shape, told
<1>2. Where(s) = pl /\ Top(s) = session[s].process /\ Top(s) \in Nat
  BY <1>1, UploadKnows DEF Place
<1>3. CASE Replies(t) /\ store' = store
  <2>1. Moves(t, y) /\ y.op = "none"
    BY <1>1, <1>3, RepliesMoves DEF Moves
  <2>2. ~Receiving(y) /\ ~Received(y)
    BY <2>1 DEF Receiving, Received
  <2> QED BY <1>1, <1>3, <2>1, <2>2, QuietStep4 DEF Inv4, FinishingOK
<1>4. CASE /\ MayOpenNew(s, f)
           /\ Contents(Where(s), (store[Where(s)] \ FileAt(s, f)) \union {new})
           /\ Advances(t, "transfer", Top(s))
  <2>1. \A z \in store[pl] : z.name # f
    BY <1>2, <1>4 DEF MayOpenNew, FileAt
  <2>2. FileAt(s, f) = {} /\ store' = [store EXCEPT ![pl] = fs]
    BY <1>2, <1>4 DEF MayOpenNew, Contents
  <2>3. Moves(t, y) /\ y.op = "upload" /\ y.pc = "transfer" /\ y.s = s /\ y.file = f
        /\ y.m = Top(s) /\ y.volume = x.volume
    <3>1. x \in Handler /\ Top(s) \in Nat /\ "transfer" \in Positions
      BY <1>1, <1>2 DEF Positions
    <3>2. Moves(t, y) /\ y.op = "upload" /\ y.pc = "transfer" /\ y.s = s /\ y.file = f
          /\ y.m = Top(s)
      BY <1>1, <1>4, <3>1, AdvancesMoves DEF Moves
    <3>3. y = [x EXCEPT !.pc = "transfer", !.m = Top(s)]
      BY <1>1, <1>4 DEF Advances, Becomes
    <3>4. y.volume = x.volume
      BY <3>1, <3>3 DEF Handler
    <3> QED BY <3>2, <3>4
  <2>4. ASSUME NEW u \in Threads, u # t, Receiving(thread[u])
        PROVE  thread[u].file # f
    <3>1. thread[u].op = "upload"
      BY <2>4 DEF Receiving
    <3>2. Named(Place(u), thread[u].file) = {Record(thread[u].file, thread[u].volume, FALSE)}
      BY <2>4 DEF Inv4, FilesOK, FileOK, Place
    <3>3. Place(u) = pl
      BY <1>1, <3>1, OnePlace
    <3>4. \E z \in store[pl] : z.name = thread[u].file
      <4> HIDE DEF pl
      <4>1. Record(thread[u].file, thread[u].volume, FALSE) \in store[pl]
        BY <3>2, <3>3 DEF Named
      <4>2. Record(thread[u].file, thread[u].volume, FALSE).name = thread[u].file
        BY DEF Record
      <4> QED BY <4>1, <4>2
    <3> QED BY <2>1, <3>4
  <2>5. new.name = f
    BY DEF Record
  <2> HIDE DEF new, pl
  <2>6. {z \in fs : z.name = f} = {new}
    BY <2>1, <2>5
  <2>7. store'[pl] = fs
    <3>1. store \in [Places -> SUBSET File] /\ pl \in Places
      <4>1. x.volume \in Volumes /\ session[x.s] \in MountSession
        BY <1>1, UploadKnows, HandlerFields
      <4> QED BY <4>1, Unfolded1 DEF Place, Places, MountSession, pl
    <3> HIDE DEF fs
    <3> QED BY <2>2, <3>1
  <2>8. FileOK(thread[t], session[thread[t].s])'
    <3>1. <<y.volume, session'[y.s].name>> = pl /\ y.m = session'[y.s].process
      BY <1>1, <1>2, <2>3 DEF pl, Place
    <3> HIDE DEF fs
    <3>2. Receiving(y) => {z \in store'[pl] : z.name = y.file} = {Record(y.file, y.volume, FALSE)}
      BY <2>3, <2>6, <2>7 DEF new
    <3>3. ~Received(y)
      BY <2>3 DEF Received
    <3> QED BY <3>1, <3>2, <3>3 DEF FileOK, Named
  <2>9. \A g, v : Record(g, v, TRUE) \in store[pl] => Record(g, v, TRUE) \in fs
    OBVIOUS
  <2>10. \A z : z.name # f => (z \in fs <=> z \in store[pl])
    BY <2>5
  <2> HIDE DEF fs
  <2> QED BY <1>1, <2>2, <2>3, <2>4, <2>8, <2>9, <2>10, StoreStep DEF pl
<1> QED BY <1>3, <1>4 DEF OpenDestination, Advances, Record

\* The body arrives.
LEMMA TransferKeeps4 ==
  ASSUME InTurns, Inv1, Inv3, Inv4, NEW t \in Threads, Transfer(t)
  PROVE  Inv4'
<1> DEFINE x == thread[t]
           y == thread'[t]
           s == x.s
           f == x.file
           pl == Place(t)
           old == Record(f, x.volume, FALSE)
           Whole(z) == [z EXCEPT !.whole = @ \/ z.name = f]
           fs == {Whole(z) : z \in store[pl]}
<1>1. /\ x.pc = "transfer" /\ x.op = "upload" /\ UNCHANGED <<session, finished>>
      /\ t \in Everyone /\ thread \in [Everyone -> Handler]
  <2>1. Shape(x) /\ t \in Everyone /\ thread \in [Everyone -> Handler]
    BY Unfolded1
  <2> QED BY <2>1 DEF Transfer, At, Shape, told
<1>2. /\ x.m = session[s].process /\ x.m # 0
      /\ mounts[s][x.m].volume = x.volume
      /\ store \in [Places -> SUBSET File] /\ pl \in Places /\ f \in FileNames
  <2>1. FileOK(x, session[s])
    BY DEF Inv4, FilesOK
  <2>2. x.volume \in Volumes /\ session[x.s] \in MountSession
    BY <1>1, UploadKnows, HandlerFields
  <2> QED BY <1>1, <2>1, <2>2, UploadKnows, Unfolded1 DEF FileOK, Place, Places, MountSession
<1>3. OpenPlace(t) = pl
  BY <1>2 DEF OpenPlace, Place
<1>4. Named(pl, f) = {old}
  BY <1>1 DEF Inv4, FilesOK, FileOK, Receiving, Place
<1>5. ASSUME NEW u \in Threads, u # t, Receiving(thread[u])
      PROVE  thread[u].file # f
  BY <1>1, <1>5 DEF Inv4, FilesOK, Receiving
<1>6. ASSUME NEW pc \in {"book", "discard"}, Goto(t, pc)
      PROVE  Moves(t, y) /\ y.op = "upload" /\ y.pc = pc /\ y.s = s /\ y.file = f
             /\ y.volume = x.volume
  BY <1>1, <1>6, GotoMoves DEF Moves, Positions
<1>7. CASE Goto(t, "discard") /\ store' = store
  <2>1. store' = [store EXCEPT ![pl] = store[pl]]
    BY <1>2, <1>7
  <2>2. Moves(t, y) /\ y.op = "upload" /\ y.pc = "discard" /\ y.s = s /\ y.file = f
        /\ y.volume = x.volume
    BY <1>6, <1>7
  <2>3. FileOK(thread[t], session[thread[t].s])'
    <3>1. <<y.volume, session'[y.s].name>> = pl
      BY <1>1, <2>2 DEF Place
    <3> HIDE DEF pl
    <3> QED BY <1>4, <1>7, <2>2, <3>1 DEF FileOK, Named, Received
  <2> HIDE DEF pl
  <2> QED BY <1>1, <1>5, <2>1, <2>2, <2>3, StoreStep DEF pl
<1>8. CASE Goto(t, "book") /\ Contents(OpenPlace(t),
             {[z EXCEPT !.whole = @ \/ z.name = x.file] : z \in store[OpenPlace(t)]})
  <2>1. store' = [store EXCEPT ![pl] = fs]
    BY <1>3, <1>8 DEF Contents
  <2>2. Moves(t, y) /\ y.op = "upload" /\ y.pc = "book" /\ y.s = s /\ y.file = f
        /\ y.volume = x.volume
    BY <1>6, <1>8
  <2>3. store[pl] \subseteq File
    BY <1>2
  <2>4. \A z \in File : z.name # f => Whole(z) = z
    <3>1. ASSUME NEW z \in File, z.name # f
          PROVE  Whole(z) = z
      <4>1. z.whole \in BOOLEAN /\ z = [z EXCEPT !.whole = z.whole]
        BY <3>1 DEF File
      <4>2. (z.whole \/ z.name = f) = z.whole
        BY <3>1, <4>1
      <4> QED BY <4>1, <4>2
    <3> QED BY <3>1
  <2>5. \A z \in File : Whole(z).name = z.name
    BY DEF File
  <2>6. \A g, v : Whole(Record(g, v, TRUE)) = Record(g, v, TRUE)
    <3>1. ASSUME NEW g, NEW v
          PROVE  Whole(Record(g, v, TRUE)) = Record(g, v, TRUE)
      <4> DEFINE z == Record(g, v, TRUE)
      <4>1. z.whole = TRUE
        BY DEF Record
      <4>2. (z.whole \/ z.name = f) = TRUE
        BY <4>1
      <4>3. [z EXCEPT !.whole = TRUE] = z
        BY MarkedRecord
      <4>4. Whole(z) = z
        <5> HIDE DEF z
        <5> QED BY <4>2, <4>3
      <4> QED BY <4>4
    <3> QED BY <3>1
  <2>7. Whole(old) = Record(f, x.volume, TRUE)
    <3>1. ASSUME NEW g, NEW v, g = f
          PROVE  Whole(Record(g, v, FALSE)) = Record(g, v, TRUE)
      <4> DEFINE z == Record(g, v, FALSE)
      <4>1. z.name = f
        BY <3>1 DEF Record
      <4>2. (z.whole \/ z.name = f) = TRUE
        BY <4>1
      <4>3. [z EXCEPT !.whole = TRUE] = Record(g, v, TRUE)
        BY MarkedRecord
      <4> HIDE DEF z
      <4>4. Whole(z) = Record(g, v, TRUE)
        BY <4>2, <4>3
      <4> QED BY <4>4 DEF z
    <3> HIDE DEF Whole
    <3> QED BY <3>1
  <2> HIDE DEF Whole
  <2>8. old \in store[pl]
    BY <1>4 DEF Named
  <2> HIDE DEF old, pl
  <2>9. Record(f, x.volume, TRUE) \in fs
    BY <2>7, <2>8
  <2>10. \A g, v : Record(g, v, TRUE) \in store[pl] => Record(g, v, TRUE) \in fs
    BY <2>6
  <2>11. \A z : z.name # f => (z \in fs <=> z \in store[pl])
    BY <2>3, <2>4, <2>5
  <2> HIDE DEF fs
  <2>12. store'[pl] = fs
    BY <1>2, <2>1
  <2>13. FileOK(thread[t], session[thread[t].s])'
    <3>1. <<y.volume, session'[y.s].name>> = pl
      BY <1>1, <2>2 DEF Place, pl
    <3> QED BY <2>2, <2>9, <2>12, <3>1 DEF FileOK, Receiving
  <2>14. ~Receiving(y)
    BY <2>2 DEF Receiving
  <2> QED BY <1>1, <1>5, <2>1, <2>2, <2>10, <2>11, <2>13, <2>14, StoreStep DEF pl
<1> QED BY <1>7, <1>8 DEF Transfer

\* What has arrived of the file is removed.
LEMMA DiscardKeeps4 ==
  ASSUME InTurns, Inv1, Inv3, Inv4, NEW t \in Threads, Discard(t)
  PROVE  Inv4'
<1> DEFINE x == thread[t]
           y == thread'[t]
           s == x.s
           f == x.file
           pl == Place(t)
           old == Record(f, x.volume, FALSE)
           fs == store[pl] \ Named(pl, f)
<1>1. /\ x.pc = "discard" /\ x.op = "upload" /\ UNCHANGED <<session, finished>>
      /\ t \in Everyone /\ thread \in [Everyone -> Handler]
  <2>1. Shape(x) /\ t \in Everyone /\ thread \in [Everyone -> Handler]
    BY Unfolded1
  <2> QED BY <2>1 DEF Discard, At, Shape, told
<1>2. Where(s) = pl /\ Reachable(s)
  BY <1>1, UploadKnows DEF Place, Reachable
<1>3. Named(pl, f) = {old}
  BY <1>1 DEF Inv4, FilesOK, FileOK, Receiving, Place
<1>4. store' = [store EXCEPT ![pl] = fs] /\ Replies(t)
  BY <1>2 DEF Discard, Unlinked, Contents, FileAt, Named
<1>5. Moves(t, y) /\ y.op = "none"
  BY <1>1, <1>4, RepliesMoves DEF Moves
<1>6. ASSUME NEW u \in Threads, u # t, Receiving(thread[u])
      PROVE  thread[u].file # f
  BY <1>1, <1>6 DEF Inv4, FilesOK, Receiving
<1>7. FileOK(thread[t], session[thread[t].s])' /\ ~Receiving(y)
  BY <1>5 DEF FileOK, Receiving, Received
<1>8. \A g, v : Record(g, v, TRUE) \in store[pl] => Record(g, v, TRUE) \in fs
  <2>1. ASSUME NEW g, NEW v
        PROVE  Record(g, v, TRUE) # old
    <3>1. Record(g, v, TRUE).whole = TRUE /\ old.whole = FALSE
      BY DEF Record
    <3> QED BY <3>1
  <2> HIDE DEF old
  <2> QED BY <1>3, <2>1
<1>9. \A z : z.name # f => (z \in fs <=> z \in store[pl])
  BY DEF Named
<1> HIDE DEF fs, pl
<1> QED BY <1>1, <1>4, <1>5, <1>6, <1>7, <1>8, <1>9, StoreStep DEF pl

-----------------------------------------------------------------------------
(***************************************************************************)
(* Every step keeps what is known of the files.                            *)
(***************************************************************************)
\* The shutdown writes no file.
LEMMA MainKeeps4 ==
  ASSUME Inv1, Inv4, Interrupt \/ CloseServer \/ Exit
  PROVE  Inv4'
<1>1. Main \in Everyone /\ Main \notin Threads /\ Shape(thread[Main])
  BY Unfolded1
<1>2. Moves(Main, thread'[Main])
  BY <1>1, MainOrderly, OrderlyMoves
<1>3. thread[Main].pc \in {"serving", "closing", "stopped"}
  BY DEF Interrupt, CloseServer, Exit, At, Doing
<1>4. UNCHANGED <<session, store, finished>>
  BY DEF Interrupt, CloseServer, Exit, others, told
<1> QED BY <1>1, <1>2, <1>3, <1>4, QuietStep4 DEF Inv4, FinishingOK

\* Nor does a step that leaves sessions, files and handlers alone.
LEMMA NothingWritten ==
  ASSUME Inv4, UNCHANGED <<session, store, thread, finished>>
  PROVE  Inv4'
<1>1. FilesOK'
  <2>1. \A s \in 1 .. Len(session) : Kept(session[s])'
    BY DEF Inv4, FilesOK, Kept
  <2>2. \A t \in Threads : FileOK(thread[t], session[thread[t].s])'
    BY DEF Inv4, FilesOK, FileOK, Named
  <2>3. OnlyThroughMount'
    BY DEF Inv4, FilesOK, OnlyThroughMount
  <2> QED BY <2>1, <2>2, <2>3 DEF Inv4, FilesOK
<1>2. Matched' /\ FinishingOK'
  BY DEF Inv4, Matched, FinishingOK
<1> QED BY <1>1, <1>2 DEF Inv4

\* At first there is no file.
LEMMA InitInv4 ==
  ASSUME Init
  PROVE  Inv4
<1>1. Inv1 /\ Len(session) = 0
  BY InitInv1 DEF Init
<1>2. \A t \in Threads : thread[t].op = "none" /\ thread[t].pc = "off"
  <2>1. ASSUME NEW t \in Threads
        PROVE  thread[t].op = "none" /\ thread[t].pc = "off"
    <3>1. thread[t] = Idle("off")
      BY <1>1, Unfolded1 DEF Init
    <3> QED BY <3>1, IdleHandler DEF Positions
  <2> QED BY <2>1
<1>3. OnlyThroughMount
  BY DEF Init, OnlyThroughMount, Places
<1>4. FilesOK
  <2>1. \A t \in Threads : FileOK(thread[t], session[thread[t].s]) /\ ~Receiving(thread[t])
    BY <1>2 DEF FileOK, Receiving, Received
  <2>2. \A s \in 1 .. Len(session) : Kept(session[s])
    BY <1>1
  <2> QED BY <1>3, <2>1, <2>2 DEF FilesOK
<1>5. Matched /\ FinishingOK
  BY <1>1, <1>2 DEF Matched, FinishingOK, Init
<1> QED BY <1>4, <1>5 DEF Inv4

\* Every step keeps it.
LEMMA NextInv4 ==
  ASSUME InTurns, Inv1, Inv3, Inv4, [Next]_vars
  PROVE  Inv4'
<1>1. ASSUME UNCHANGED vars
      PROVE  Inv4'
  BY <1>1, NothingWritten DEF vars, told
<1>2. Threads \subseteq Everyone /\ Main \in Everyone
  BY Unfolded1
<1>3. ASSUME NEW t \in Threads, Handle(t)
      PROVE  Inv4'
  <2>1. CASE StartMount(t) \/ Locked(t) \/ Assign(t) \/ Book(t) \/ Count(t)
             \/ OpenDestination(t) \/ Discard(t)
    BY <2>1, StartMountKeeps4, LockedKeeps4, AssignKeeps4, CountKeeps4, OpenKeeps4,
       DiscardKeeps4
  <2>2. CASE \/ Release(t) \/ ReserveClose(t) \/ Create(t) \/ Fill(t) \/ CreateHidden(t)
             \/ Unlock(t) \/ AwaitMount(t) \/ MountTimedOut(t) \/ Publish(t)
             \/ ListFiles(t) \/ ListFailed(t) \/ Remount(t) \/ AwaitRemount(t)
             \/ OpenSource(t) \/ Link(t)
    BY <1>2, <2>2, HandlersKeep4
  <2> QED BY <1>3, <2>1, <2>2 DEF Handle
<1>4. ASSUME NEW t \in Everyone, StopMount(t)
      PROVE  Inv4'
  BY <1>4, HandlersKeep4
<1>5. ASSUME NEW t \in Threads, Browser(t)
      PROVE  Inv4'
  BY <1>5, TransferKeeps4, BrowserKeeps4
<1>6. ASSUME NEW s \in SessionIds, Process(s)
      PROVE  Inv4'
  <2>1. UNCHANGED <<session, store, thread, finished>>
    BY <1>6 DEF Process, MountAppears, MountFails, MountTerminated, MountEnds, told
  <2> QED BY <2>1, NothingWritten
<1> QED BY <1>1, <1>2, <1>3, <1>4, <1>5, <1>6, MainKeeps4 DEF Next

\* Together they are inductive.
LEMMA SpecInv4 ==
  ASSUME InTurns
  PROVE  Spec => [](Inv1 /\ Inv3 /\ Inv4)
<1>1. Init => Inv1 /\ Inv3 /\ Inv4
  BY InitInv1, InitInv3, InitInv4
<1>2. Inv1 /\ Inv3 /\ Inv4 /\ [Next]_vars => (Inv1 /\ Inv3 /\ Inv4)'
  BY NextInv1, NextInv3, NextInv4
<1> QED BY <1>1, <1>2, PTL DEF Spec

\* No uploaded file is ever written by _upload_encrypted_file to the mount
\* directory itself, where it would lie in the clear and outside the vault, as
\* long as a page sends nothing while the phase is switched and does not close
\* the vault during an upload.  The hidden volume may fail to be mounted.
THEOREM FilesGoThroughMount ==
  ASSUME InTurns
  PROVE  Spec => []OnlyThroughMount
<1>1. Inv4 => OnlyThroughMount
  BY DEF Inv4, FilesOK
<1> QED BY <1>1, SpecInv4, PTL

\* When _finish_encrypt reports success, every file of the list is in the volume
\* the page took it for and in full, on the same condition.
THEOREM FinishedIsComplete ==
  ASSUME InTurns
  PROVE  Spec => []FinishedComplete
<1>1. ASSUME Inv1, Inv3, Inv4
      PROVE  FinishedComplete
  <2>1. ASSUME NEW s \in finished
        PROVE  LET r == session[s]
               IN  /\ \A f \in CoverFiles :
                        Record(f, "outer", TRUE) \in store[<<"outer", r.name>>]
                   /\ r.deniable => \A f \in HiddenFiles :
                        Record(f, "hidden", TRUE) \in store[<<"hidden", r.name>>]
    <3> DEFINE r == session[s]
    <3>1. s \in 1 .. Len(session) /\ Complete(r) /\ Kept(r)
      BY <1>1, <2>1 DEF Inv4, FilesOK, FinishingOK
    <3>2. ListsOK(r) /\ r.phase \in {"single", "outer", "hidden"}
      <4>1. r \in MountSession /\ SessionOK(r, mounts[s], stack[s])
        BY <1>1, <3>1, OpenedSession DEF Inv3
      <4> QED BY <4>1 DEF SessionOK, MountSession
    <3>3. CoverFiles \subseteq r.own \union r.uploaded_outer
      BY <3>1, <3>2 DEF Complete, ListsOK
    <3>4. r.deniable => HiddenFiles \subseteq r.uploaded_hidden
      BY <3>1, <3>2 DEF Complete, ListsOK
    <3> QED BY <3>1, <3>3, <3>4 DEF Kept
  <2> QED BY <2>1 DEF FinishedComplete, Record
<1> QED BY <1>1, SpecInv4, PTL
=============================================================================
