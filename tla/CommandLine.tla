---------------------------- MODULE CommandLine -----------------------------
(***************************************************************************)
(* main.c as one run of the denyfs program: the words of the command line  *)
(* are read, one or two passphrases are taken from descriptors or from the *)
(* terminal into secure buffers, the command runs, the buffers are wiped.  *)
(* Any allocation and any terminal call may fail.  What the commands do to *)
(* the container is the subject of Container; here they have an outcome.   *)
(***************************************************************************)
EXTENDS Integers, Sequences, FiniteSets, FiniteSetsExt

CONSTANTS
  CommandLines,  \* argv without the program's name: command, path, options
  Numerals,      \* the value of the words that begin like a number
  Descriptors,   \* open file descriptors, standard input 0 among them
  Inputs,        \* what may be read from them: descriptor -> characters
  LineBreaks,    \* the characters \n and \r
  BufferSize,    \* max_len of the passphrase buffers
  NoPass         \* a null pointer instead of a buffer

ASSUME CommandLineAssumption ==
  /\ \A t \in DOMAIN Numerals : Numerals[t] \in Int
  /\ Descriptors \subseteq Nat /\ 0 \in Descriptors
  /\ \A s \in Inputs : /\ DOMAIN s = Descriptors
                       /\ \A f \in Descriptors :
                            s[f] \in Seq({s[f][i] : i \in DOMAIN s[f]})
  /\ BufferSize \in Nat \ {0}

VARIABLES
  argv,    \* the words of the command line
  stream,  \* all that can be read from each descriptor
  tty,     \* whether standard input is a terminal
  pc,      \* where main is
  slot,    \* the passphrase being read: 1 outer or only, 2 hidden
  pos,     \* how many characters of each descriptor were taken
  buf,     \* the characters in the buffer being filled
  pass,    \* the passphrases read so far
  live,    \* buffers allocated and not yet wiped
  echo,    \* whether the terminal echoes
  opened,  \* the volume the command opened
  code     \* the exit code

vars == <<argv, stream, tty, pc, slot, pos, buf, pass, live, echo, opened, code>>
world == <<argv, stream, tty>>

argc    == Len(argv) + 1
command == IF argv = <<>> THEN "" ELSE argv[1]

Commands == {"create", "create-hidden", "open", "mount", "write-sector",
             "read-sector"}

Init ==
  /\ argv \in CommandLines /\ stream \in Inputs /\ tty \in BOOLEAN
  /\ pc = "start" /\ slot = 1
  /\ pos = [f \in Descriptors |-> 0]
  /\ buf = <<>> /\ pass = [k \in {1, 2} |-> NoPass]
  /\ live = {} /\ echo = TRUE /\ opened = "none" /\ code = 0

Exit(c) == pc' = "exit" /\ code' = c

-----------------------------------------------------------------------------
(***************************************************************************)
(* The options.  The loops look at every word from the third on; they do   *)
(* not skip the value of an option, the last occurrence wins, and words    *)
(* they do not know are passed over.                                       *)
(***************************************************************************)
NoValue == "no value"

Value(opt) ==
  LET at == {i \in 3 .. Len(argv) - 1 : argv[i] = opt}
  IN  IF at = {} THEN NoValue ELSE argv[Max(at) + 1]

Given(opt) == \E i \in 3 .. Len(argv) : argv[i] = opt

\* atoi and strtoull: a word that is no number is zero.
Number(t) == IF t \in DOMAIN Numerals THEN Numerals[t] ELSE 0

size_mb == IF Value("--size") = NoValue THEN 0 ELSE Number(Value("--size"))

pwd_fd(k) ==
  LET v == Value(IF k = 1 THEN "--password-fd" ELSE "--hidden-password-fd")
  IN  IF v = NoValue THEN -1 ELSE Number(v)

protect_hidden == command \in {"open", "mount"} /\ Given("--protect-hidden")

EnoughWords ==
  argc >= IF command \in {"create", "create-hidden"} THEN 5 ELSE 3

Complete ==
  /\ command \in {"create", "create-hidden"} => size_mb # 0
  /\ command = "mount" => Value("--mountpoint") # NoValue
  /\ command \in {"write-sector", "read-sector"} => Value("--lba") # NoValue
  /\ command = "write-sector" => Value("--data") # NoValue
  /\ command = "read-sector" => Value("--output") # NoValue

Rejected ==
  \/ argc < 2
  \/ command \notin Commands
  \/ ~EnoughWords
  \/ ~Complete

main ==
  /\ pc = "start"
  /\ \/ Exit(1)   \* no usable cryptographic library, or a bad command line
     \/ ~Rejected /\ pc' = "ask" /\ UNCHANGED code
  /\ UNCHANGED <<world, slot, pos, buf, pass, live, echo, opened>>

-----------------------------------------------------------------------------
(***************************************************************************)
(* read_password_from_fd and get_password_interactive.                     *)
(***************************************************************************)
interactive == pwd_fd(slot) < 0
Source == IF interactive THEN 0 ELSE pwd_fd(slot)

\* Both passphrases of create-hidden, and of a protected open or mount.
TwoPasses == command = "create-hidden" \/ protect_hidden

\* Passphrase slot is p; the next one is asked for even if this one is null.
Got(p) ==
  /\ pass' = [pass EXCEPT ![slot] = p]
  /\ IF slot = 1 /\ TwoPasses THEN slot' = 2 /\ pc' = "ask"
                              ELSE slot' = slot /\ pc' = "check"
  /\ buf' = <<>>

\* tcgetattr and tcsetattr, before the buffer is allocated.
Ask ==
  /\ pc = "ask"
  /\ \/ /\ ~interactive
        /\ pc' = "alloc" /\ UNCHANGED <<slot, buf, pass, echo>>
     \/ /\ interactive /\ tty
        /\ echo' = FALSE
        /\ pc' = "alloc" /\ UNCHANGED <<slot, buf, pass>>
     \/ interactive /\ Got(NoPass) /\ UNCHANGED echo
  /\ UNCHANGED <<world, pos, live, opened, code>>

\* Mutant: the terminal stays as it is when there is no buffer.
EchoForgotten == UNCHANGED echo
EchoBack == echo' = TRUE

Allocate ==
  /\ pc = "alloc"
  /\ \/ /\ live' = live \union {slot}
        /\ pc' = "read" /\ UNCHANGED <<slot, buf, pass, echo>>
     \/ Got(NoPass) /\ EchoBack /\ UNCHANGED live
  /\ UNCHANGED <<world, pos, opened, code>>

\* The next character, or end of file; nothing comes from a descriptor that
\* is not open.
AtEOF == Source \notin Descriptors \/ pos[Source] = Len(stream[Source])
ch == stream[Source][pos[Source] + 1]

\* Mutant: reading stops when the buffer is full.
StopWhenFull == ~AtEOF => ch \in LineBreaks \/ Len(buf) = BufferSize - 1
LineEnds == ~AtEOF => ch \in LineBreaks

Take == pos' = IF AtEOF THEN pos ELSE [pos EXCEPT ![Source] = @ + 1]

ReadChar ==
  /\ pc = "read"
  /\ \/ /\ ~LineEnds
        /\ buf' = IF Len(buf) < BufferSize - 1 THEN Append(buf, ch) ELSE buf
        /\ UNCHANGED <<pc, slot, pass, echo>>
     \/ LineEnds /\ Got(buf) /\ echo' = TRUE
  /\ Take
  /\ UNCHANGED <<world, live, opened, code>>

-----------------------------------------------------------------------------
(***************************************************************************)
(* The command, and the end of main.                                       *)
(***************************************************************************)
\* Mutant: one passphrase is missing and the other one is forgotten.
OtherForgotten == UNCHANGED live
\* secure_cleanup_buffer on the other passphrase when one is missing.
OtherWiped == live' = {}

Missing == pass[1] = NoPass \/ (command = "create-hidden" /\ pass[2] = NoPass)

PasswordRequired ==
  /\ pc = "check" /\ Missing
  /\ OtherWiped /\ Exit(1)
  /\ UNCHANGED <<world, slot, pos, buf, pass, echo, opened>>

Ready == pc = "check" /\ ~Missing

\* handle_create and handle_create_hidden: empty passphrases, and equal ones,
\* are refused; the rest succeeds or not.
handle_create ==
  /\ Ready /\ command \in {"create", "create-hidden"}
  /\ \/ pc' = "done" /\ code' = 1
     \/ /\ pass[1] # <<>>
        /\ command = "create-hidden" => pass[2] \notin {<<>>, pass[1]}
        /\ pc' = "done" /\ code' = 0
  /\ UNCHANGED <<world, slot, pos, buf, pass, live, echo, opened>>

\* Mutant: without a hidden passphrase there is nothing to protect.
UnguardedWithoutPass == IF pass[2] = NoPass THEN "outer" ELSE "guarded"
\* denyfs_vol_open on the outer volume with protection: no hidden passphrase,
\* no volume.
ProtectedOuter == IF pass[2] = NoPass THEN "none" ELSE "guarded"

\* What denyfs_vol_open may return: nothing, the hidden volume, or the outer.
Openable ==
  {"none", "hidden", IF protect_hidden THEN ProtectedOuter ELSE "outer"}

\* handle_open, handle_mount, handle_write_sector, handle_read_sector: no
\* volume is an error; with one, the rest succeeds or not.
handle_open ==
  /\ Ready /\ command \notin {"create", "create-hidden"}
  /\ opened' \in Openable
  /\ \/ pc' = "done" /\ code' = 1
     \/ opened' # "none" /\ pc' = "done" /\ code' = 0
  /\ UNCHANGED <<world, slot, pos, buf, pass, live, echo>>

Done ==
  /\ pc = "done"
  /\ live' = {} /\ Exit(code)
  /\ UNCHANGED <<world, slot, pos, buf, pass, echo, opened>>

Exited == pc = "exit" /\ UNCHANGED vars

Next ==
  \/ main \/ Ask \/ Allocate \/ ReadChar \/ PasswordRequired
  \/ handle_create \/ handle_open \/ Done \/ Exited

Spec == Init /\ [][Next]_vars

-----------------------------------------------------------------------------
(***************************************************************************)
(* Properties.                                                             *)
(***************************************************************************)
\* No passphrase outlives main: on every path, failed allocations and missing
\* terminals included, the buffers that were allocated are wiped before exit.
SecretsWiped == pc = "exit" => live = {}

\* The terminal echoes again whenever main is not waiting for a passphrase
\* typed into it, whatever failed in get_password_interactive.
EchoRestored == pc \notin {"alloc", "read"} => echo

\* Where the line from character p of s ends, without its line break.
LineEnd(s, p) ==
  Min({i \in p .. Len(s) : s[i] \in LineBreaks} \union {Len(s) + 1}) - 1
\* The first BufferSize - 1 characters of that line.
LineAt(s, p) == SubSeq(s, p, Min({LineEnd(s, p), p + BufferSize - 2}))

Text(k) == LET f == IF pwd_fd(k) < 0 THEN 0 ELSE pwd_fd(k)
           IN  IF f \in Descriptors THEN stream[f] ELSE <<>>
SameSource ==
  (IF pwd_fd(1) < 0 THEN 0 ELSE pwd_fd(1)) = IF pwd_fd(2) < 0 THEN 0 ELSE pwd_fd(2)

\* When a command runs, its passphrases are lines of the input: the first line
\* of its descriptor, and for the hidden one the line after it when both come
\* from the same place, however long the first is and however it ends.
PassphrasesAreLines ==
  Ready =>
    /\ pass[1] = LineAt(Text(1), 1)
    /\ pass[2] # NoPass =>
         pass[2] = LineAt(Text(2),
                     IF SameSource THEN LineEnd(Text(1), 1) + 2 ELSE 1)

\* An outer volume that the command line asks to protect is opened protected
\* or not at all, also when the hidden passphrase could not be read.
ProtectFailsClosed ==
  command \in {"open", "mount"} /\ Given("--protect-hidden") => opened # "outer"

=============================================================================
