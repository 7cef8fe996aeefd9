------------------------- MODULE CommandLineProofs --------------------------
(***************************************************************************)
(* What main guarantees for every command line, every input, every length  *)
(* of buffer and every failure.                                            *)
(***************************************************************************)
EXTENDS CommandLine, SequenceTheorems, TLAPS

-----------------------------------------------------------------------------
(***************************************************************************)
(* Passphrases.  Not inductive by itself: that main may exit without       *)
(* wiping when it rejects the command line needs that nothing is allocated *)
(* before.                                                                 *)
(***************************************************************************)
WipedInv == pc \in {"start", "exit"} => live = {}

LEMMA WipedStep == ASSUME WipedInv, [Next]_vars PROVE WipedInv'
<1>1. CASE main
  BY <1>1 DEF WipedInv, main, Exit
<1>2. CASE Ask
  BY <1>2 DEF WipedInv, Ask, Got
<1>3. CASE Allocate
  BY <1>3 DEF WipedInv, Allocate, Got
<1>4. CASE ReadChar
  BY <1>4 DEF WipedInv, ReadChar, Got
<1>5. CASE PasswordRequired
  BY <1>5 DEF WipedInv, PasswordRequired, OtherWiped
<1>6. CASE handle_create
  BY <1>6 DEF WipedInv, handle_create, Ready
<1>7. CASE handle_open
  BY <1>7 DEF WipedInv, handle_open, Ready
<1>8. CASE Done
  BY <1>8 DEF WipedInv, Done
<1>9. CASE Exited \/ UNCHANGED vars
  BY <1>9 DEF WipedInv, Exited, vars
<1>10. QED
  BY <1>1, <1>2, <1>3, <1>4, <1>5, <1>6, <1>7, <1>8, <1>9 DEF Next

\* On every path of main, the early returns for a missing passphrase, a failed
\* allocation or a missing terminal included, no buffer that holds a
\* passphrase is left when the program exits.
THEOREM SecretsAlwaysWiped == Spec => []SecretsWiped
<1>1. Init => WipedInv
  BY DEF Init, WipedInv
<1>2. WipedInv => SecretsWiped
  BY DEF WipedInv, SecretsWiped
<1>3. QED
  BY <1>1, <1>2, WipedStep, PTL DEF Spec

-----------------------------------------------------------------------------
(***************************************************************************)
(* The terminal.                                                           *)
(***************************************************************************)
LEMMA EchoStep == ASSUME EchoRestored, [Next]_vars PROVE EchoRestored'
<1>1. CASE main
  BY <1>1 DEF EchoRestored, main, Exit
<1>2. CASE Ask
  BY <1>2 DEF EchoRestored, Ask, Got
<1>3. CASE Allocate
  BY <1>3 DEF EchoRestored, Allocate, Got, EchoBack
<1>4. CASE ReadChar
  BY <1>4 DEF EchoRestored, ReadChar, Got
<1>5. CASE PasswordRequired
  BY <1>5 DEF EchoRestored, PasswordRequired, Exit
<1>6. CASE handle_create
  BY <1>6 DEF EchoRestored, handle_create, Ready
<1>7. CASE handle_open
  BY <1>7 DEF EchoRestored, handle_open, Ready
<1>8. CASE Done
  BY <1>8 DEF EchoRestored, Done, Exit
<1>9. CASE Exited \/ UNCHANGED vars
  BY <1>9 DEF EchoRestored, Exited, vars
<1>10. QED
  BY <1>1, <1>2, <1>3, <1>4, <1>5, <1>6, <1>7, <1>8, <1>9 DEF Next

\* Outside the two loops that read a passphrase the terminal echoes, whichever
\* of the calls in get_password_interactive failed.
THEOREM EchoAlwaysRestored == Spec => []EchoRestored
<1>1. Init => EchoRestored
  BY DEF Init, EchoRestored
<1>2. QED
  BY <1>1, EchoStep, PTL DEF Spec

-----------------------------------------------------------------------------
(***************************************************************************)
(* Protection.                                                             *)
(***************************************************************************)
LEMMA OpenedStep == ASSUME ProtectFailsClosed, [Next]_vars
                    PROVE  ProtectFailsClosed'
<1>1. CASE handle_open
  <2>1. ProtectedOuter # "outer"
    BY DEF ProtectedOuter
  <2>2. protect_hidden => opened' # "outer"
    BY <1>1, <2>1 DEF handle_open, Openable
  <2>3. argv' = argv
    BY <1>1 DEF handle_open, world
  <2>4. QED
    BY <2>2, <2>3 DEF ProtectFailsClosed, protect_hidden, command, Given
<1>2. CASE ~handle_open
  <2>1. argv' = argv /\ opened' = opened
    BY <1>2 DEF Next, main, Ask, Allocate, ReadChar, PasswordRequired,
                handle_create, Done, Exited, world, vars
  <2>2. QED
    BY <2>1 DEF ProtectFailsClosed, command, Given
<1>3. QED
  BY <1>1, <1>2

\* With --protect-hidden, an open or mount never works on the outer volume
\* without its guard, however the hidden passphrase was, or was not, read.
THEOREM ProtectionNeverDropped == Spec => []ProtectFailsClosed
<1>1. Init => ProtectFailsClosed
  BY DEF Init, ProtectFailsClosed
<1>2. QED
  BY <1>1, OpenedStep, PTL DEF Spec

-----------------------------------------------------------------------------
(***************************************************************************)
(* Passphrases as lines of the input.  The invariant says how far each     *)
(* descriptor was read and which part of the line the buffer holds; it     *)
(* claims nothing of a hidden passphrase that is read after the first one  *)
(* was lost, because main then stops.                                      *)
(***************************************************************************)
\* The descriptor of passphrase k, where its line begins in the text of that
\* descriptor, and how much of that text was taken.
Feed(k) == IF pwd_fd(k) < 0 THEN 0 ELSE pwd_fd(k)
Begin(k) == IF k = 2 /\ SameSource THEN LineEnd(Text(1), 1) + 2 ELSE 1
Taken(k, ps) == IF Feed(k) \in Descriptors THEN ps[Feed(k)] ELSE 0

\* The smaller one of two numbers.
Smaller(a, b) == IF a <= b THEN a ELSE b

\* The next character is the first of the line, or there is none.
BeforeLine(k, ps) == Taken(k, ps) = Smaller(Begin(k) - 1, Len(Text(k)))

\* The text was taken up to a character of the line, and the buffer holds
\* what fits of it.
InLine(k, ps, b) ==
  /\ Begin(k) - 1 <= Taken(k, ps) \/ Taken(k, ps) = Len(Text(k))
  /\ \A i \in Begin(k) .. Taken(k, ps) : Text(k)[i] \notin LineBreaks
  /\ b = SubSeq(Text(k), Begin(k),
                Smaller(Taken(k, ps), Begin(k) + BufferSize - 2))

LinesOK(pa) == \A k \in {1, 2} :
  pa[1] # NoPass /\ pa[k] # NoPass => pa[k] = LineAt(Text(k), Begin(k))

Waiting(st, k, ps, b, pa) ==
  /\ st \in {"start", "ask", "alloc"} => b = <<>>
  /\ k = 1 \/ pa[1] # NoPass =>
       /\ st \in {"start", "ask", "alloc"} => BeforeLine(k, ps)
       /\ st = "read" => InLine(k, ps, b)

ReadInv ==
  /\ stream \in Inputs /\ slot \in {1, 2} /\ DOMAIN pass = {1, 2}
  /\ pos \in [Descriptors -> Nat]
  /\ \A f \in Descriptors : pos[f] <= Len(stream[f])
  /\ slot = 1 => /\ pass[2] = NoPass
                 /\ \A f \in Descriptors : f # Feed(1) => pos[f] = 0
  /\ slot = 2 /\ pass[1] # NoPass => LineEnd(Text(1), 1) \in Nat
  /\ LinesOK(pass)
  /\ Waiting(pc, slot, pos, buf, pass)

\* The smallest of a set is what it is.
LEMMA MinIs ==
  ASSUME NEW S, S \subseteq Int, NEW m \in S, \A x \in S : m <= x
  PROVE  Min(S) = m
<1> DEFINE P(x) == x \in S /\ \A y \in S : x <= y
<1>1. P(m)
  OBVIOUS
<1>2. P(CHOOSE x : P(x))
  BY <1>1
<1>3. \A x : P(x) => x = m
  OBVIOUS
<1>4. Min(S) = CHOOSE x : P(x)
  BY Zenon DEF Min
<1> QED BY <1>2, <1>3, <1>4

\* The end of a line, at its first line break or at the end of the text.
LEMMA LineEndIs ==
  ASSUME NEW C, NEW s \in Seq(C), NEW p \in Nat \ {0}, NEW q \in 0 .. Len(s),
         p - 1 <= q \/ q = Len(s),
         \A i \in p .. q : s[i] \notin LineBreaks,
         q = Len(s) \/ s[q + 1] \in LineBreaks
  PROVE  LineEnd(s, p) = q
<1> DEFINE S == {i \in p .. Len(s) : s[i] \in LineBreaks} \union {Len(s) + 1}
<1>1. q + 1 \in S
  OBVIOUS
<1>2. \A i \in S : q + 1 <= i
  OBVIOUS
<1>3. S \subseteq Int
  OBVIOUS
<1>4. Min(S) = q + 1
  BY <1>1, <1>2, <1>3, MinIs
<1> QED BY <1>4 DEF LineEnd

\* What is kept of a line of which the first q - p + 1 characters were read.
LEMMA LineKept ==
  ASSUME NEW C, NEW s \in Seq(C), NEW p \in Nat \ {0}, NEW q \in 0 .. Len(s),
         LineEnd(s, p) = q
  PROVE  LineAt(s, p) = SubSeq(s, p, Smaller(q, p + BufferSize - 2))
<1> DEFINE c == p + BufferSize - 2
<1>1. c \in Int /\ q \in Int
  BY CommandLineAssumption
<1> HIDE DEF c
<1>2. Smaller(q, c) \in {q, c} /\ \A x \in {q, c} : Smaller(q, c) <= x
  BY <1>1 DEF Smaller
<1>3. Min({q, c}) = Smaller(q, c)
  BY <1>1, <1>2, MinIs
<1> QED BY <1>3 DEF LineAt, c

\* A part of a text that begins within it or right behind it.
LEMMA PartLength ==
  ASSUME NEW C, NEW s \in Seq(C), NEW p \in Nat \ {0}, NEW q \in Nat,
         p - 1 <= q, q <= Len(s)
  PROVE  SubSeq(s, p, q) \in Seq(C) /\ Len(SubSeq(s, p, q)) = q - p + 1
<1>1. p \in Int /\ q \in Int /\ \A i \in p .. q : s[i] \in C
  OBVIOUS
<1>2. /\ SubSeq(s, p, q) \in Seq(C)
      /\ Len(SubSeq(s, p, q)) = IF p <= q THEN q - p + 1 ELSE 0
  BY <1>1, SubSeqProperties
<1> QED BY <1>2

\* One more character of a text.
LEMMA PartGrows ==
  ASSUME NEW C, NEW s \in Seq(C), NEW p \in Nat \ {0}, NEW q \in Nat,
         p - 1 <= q, q < Len(s)
  PROVE  Append(SubSeq(s, p, q), s[q + 1]) = SubSeq(s, p, q + 1)
<1>1. q <= Len(s) /\ s[q + 1] \in C
  OBVIOUS
<1>2. SubSeq(s, p, q) \in Seq(C)
  BY <1>1, PartLength
<1>3. Append(SubSeq(s, p, q), s[q + 1]) = SubSeq(s, p, q) \o <<s[q + 1]>>
  BY <1>1, <1>2, AppendIsConcat
<1>4. p \in 1 .. Len(s) /\ q + 1 \in p .. Len(s) /\ (q + 1) - 1 = q
  OBVIOUS
<1> QED BY <1>3, <1>4, SubSeqRecursiveSecond

\* One more character of a line fits into the buffer, which ends with
\* character c of the text at most, or the buffer is full.
LEMMA CharKept ==
  ASSUME NEW C, NEW s \in Seq(C), NEW p \in Nat \ {0}, NEW q \in Nat,
         p - 1 <= q, q < Len(s), NEW c \in Nat, p - 1 <= c
  PROVE  (IF Len(SubSeq(s, p, Smaller(q, c))) < c - p + 1
            THEN Append(SubSeq(s, p, Smaller(q, c)), s[q + 1])
            ELSE SubSeq(s, p, Smaller(q, c)))
           = SubSeq(s, p, Smaller(q + 1, c))
<1>1. CASE q < c
  <2>1. Smaller(q, c) = q /\ Smaller(q + 1, c) = q + 1
    BY <1>1 DEF Smaller
  <2>2. q <= Len(s)
    OBVIOUS
  <2>3. Len(SubSeq(s, p, q)) = q - p + 1
    BY <2>2, PartLength
  <2>4. Len(SubSeq(s, p, q)) < c - p + 1
    BY <1>1, <2>3
  <2> QED BY <2>1, <2>4, PartGrows
<1>2. CASE ~(q < c)
  <2>1. Smaller(q, c) = c /\ Smaller(q + 1, c) = c
    BY <1>2 DEF Smaller
  <2>2. c <= Len(s)
    BY <1>2
  <2>3. Len(SubSeq(s, p, c)) = c - p + 1
    BY <2>2, PartLength
  <2>4. ~(Len(SubSeq(s, p, c)) < c - p + 1)
    BY <2>3
  <2> QED BY <2>1, <2>4
<1> QED BY <1>1, <1>2

-----------------------------------------------------------------------------
\* What one step finds is what the next one finds: the command line and the
\* input stay the same.
LEMMA SameInput ==
  ASSUME argv' = argv, stream' = stream, NEW k
  PROVE  Feed(k)' = Feed(k) /\ Text(k)' = Text(k) /\ Begin(k)' = Begin(k)
BY DEF Feed, Text, Begin, SameSource, pwd_fd, Value

\* The text a passphrase is read from, and the part of it that was taken.
LEMMA TextIs ==
  ASSUME ReadInv, NEW k \in {1, 2}
  PROVE  /\ \E C : Text(k) \in Seq(C)
         /\ Len(Text(k)) \in Nat
         /\ Feed(k) \in Descriptors => Text(k) = stream[Feed(k)]
         /\ Feed(k) \notin Descriptors => Text(k) = <<>>
         /\ Taken(k, pos) \in 0 .. Len(Text(k))
<1>1. CASE Feed(k) \in Descriptors
  <2>1. Text(k) = stream[Feed(k)]
    BY <1>1 DEF Text, Feed
  <2>2. stream[Feed(k)] \in
          Seq({stream[Feed(k)][i] : i \in DOMAIN stream[Feed(k)]})
    BY <1>1, CommandLineAssumption DEF ReadInv
  <2>3. Taken(k, pos) \in Nat /\ Taken(k, pos) <= Len(stream[Feed(k)])
    BY <1>1 DEF Taken, ReadInv
  <2>4. Len(Text(k)) \in Nat
    BY <2>1, <2>2
  <2> QED BY <1>1, <2>1, <2>2, <2>3, <2>4
<1>2. CASE Feed(k) \notin Descriptors
  <2>1. Text(k) = <<>>
    BY <1>2 DEF Text, Feed
  <2>2. <<>> \in Seq({}) /\ Len(<<>>) = 0
    OBVIOUS
  <2> QED BY <1>2, <2>1, <2>2 DEF Taken
<1> QED BY <1>1, <1>2

\* The line a passphrase is read from begins somewhere.
LEMMA BeginIs ==
  ASSUME ReadInv, slot = 1 \/ pass[1] # NoPass
  PROVE  Begin(slot) \in Nat \ {0}
BY DEF ReadInv, Begin

\* Steps that read nothing and keep no passphrase.
LEMMA NothingRead ==
  ASSUME ReadInv, argv' = argv, stream' = stream,
         UNCHANGED <<slot, pos, buf, pass>>,
         \/ pc' \notin {"start", "ask", "alloc", "read"}
         \/ /\ pc \in {"start", "ask", "alloc"}
            /\ pc' \in {"start", "ask", "alloc"}
         \/ pc = "alloc" /\ pc' = "read"
         \/ pc' = pc
  PROVE  ReadInv'
<1>1. \A k : Feed(k)' = Feed(k) /\ Text(k)' = Text(k) /\ Begin(k)' = Begin(k)
  BY SameInput
<1>2. LinesOK(pass)'
  BY <1>1 DEF ReadInv, LinesOK
<1>3. pc' \in {"start", "ask", "alloc"} => buf = <<>>
  BY DEF ReadInv, Waiting
<1>4. ASSUME slot = 1 \/ pass[1] # NoPass
      PROVE  /\ pc' \in {"start", "ask", "alloc"} => BeforeLine(slot, pos)
             /\ pc' = "read" => InLine(slot, pos, buf)
  <2>1. CASE pc = "alloc" /\ pc' = "read"
    <3>1. buf = <<>> /\ BeforeLine(slot, pos)
      BY <1>4, <2>1 DEF ReadInv, Waiting
    <3> DEFINE n == Len(Text(slot))
               b == Begin(slot)
               q == Taken(slot, pos)
    <3>2. n \in Nat /\ b \in Nat \ {0} /\ q \in 0 .. n /\ BufferSize \in Nat
      BY <1>4, TextIs, BeginIs, CommandLineAssumption DEF ReadInv
    <3>3. q = Smaller(b - 1, n)
      BY <3>1 DEF BeforeLine
    <3> HIDE DEF n, b, q
    <3>4. b - 1 <= q \/ q = n
      BY <3>2, <3>3 DEF Smaller
    <3>5. q < b
      BY <3>2, <3>3 DEF Smaller
    <3>6. /\ Smaller(q, b + BufferSize - 2) \in Int
          /\ Smaller(q, b + BufferSize - 2) < b
      BY <3>2, <3>5 DEF Smaller
    <3>7. SubSeq(Text(slot), b, Smaller(q, b + BufferSize - 2)) = <<>>
      BY <3>2, <3>6, SubSeqEmpty
    <3>8. \A i \in b .. q : Text(slot)[i] \notin LineBreaks
      BY <3>2, <3>5
    <3> QED BY <2>1, <3>1, <3>4, <3>7, <3>8 DEF InLine, n, b, q
  <2>2. CASE ~(pc = "alloc" /\ pc' = "read")
    BY <1>4, <2>2 DEF ReadInv, Waiting
  <2> QED BY <2>1, <2>2
<1>5. /\ BeforeLine(slot, pos)' <=> BeforeLine(slot, pos)
      /\ InLine(slot, pos, buf)' <=> InLine(slot, pos, buf)
  BY <1>1 DEF BeforeLine, InLine, Taken
<1>6. Waiting(pc, slot, pos, buf, pass)'
  BY <1>3, <1>4, <1>5 DEF Waiting
<1> QED BY <1>1, <1>2, <1>6 DEF ReadInv


\* Keeping a passphrase, or none: what it takes to go on from there.
LEMMA PassKept ==
  ASSUME ReadInv, argv' = argv, stream' = stream, NEW p, Got(p),
         pos' \in [Descriptors -> Nat],
         \A f \in Descriptors : pos'[f] <= Len(stream[f]),
         p # NoPass /\ (slot = 1 \/ pass[1] # NoPass) =>
           p = LineAt(Text(slot), Begin(slot)),
         slot = 1 => \A f \in Descriptors : f # Feed(1) => pos'[f] = 0,
         slot = 1 /\ p # NoPass =>
           LineEnd(Text(1), 1) \in Nat /\ BeforeLine(2, pos')
  PROVE  ReadInv'
<1>1. \A k : Feed(k)' = Feed(k) /\ Text(k)' = Text(k) /\ Begin(k)' = Begin(k)
  BY SameInput
<1>2. /\ slot \in {1, 2} /\ DOMAIN pass = {1, 2} /\ LinesOK(pass)
      /\ slot = 1 => pass[2] = NoPass
  BY DEF ReadInv
<1>3. /\ DOMAIN pass' = {1, 2} /\ buf' = <<>>
      /\ pass'[slot] = p
      /\ \A k \in {1, 2} : k # slot => pass'[k] = pass[k]
  BY <1>2 DEF Got
<1>4. \/ slot = 1 /\ slot' = 2 /\ pc' = "ask"
      \/ slot' = slot /\ pc' = "check"
  BY DEF Got
<1>5. LinesOK(pass)'
  <2>1. ASSUME NEW k \in {1, 2}, pass'[1] # NoPass, pass'[k] # NoPass
        PROVE  pass'[k] = LineAt(Text(k), Begin(k))
    <3>1. CASE k = slot
      BY <1>2, <1>3, <2>1, <3>1
    <3>2. CASE k # slot
      <4>1. slot = 2 /\ k = 1
        BY <1>2, <1>3, <2>1, <3>2
      <4> QED BY <1>2, <1>3, <2>1, <4>1 DEF LinesOK
    <3> QED BY <3>1, <3>2
  <2>2. \A k : LineAt(Text(k), Begin(k))' = LineAt(Text(k), Begin(k))
    BY <1>1
  <2> QED BY <2>1, <2>2 DEF LinesOK
<1>6. \A k : BeforeLine(k, pos') => BeforeLine(k, pos)'
  BY <1>1 DEF BeforeLine, Taken
<1>7. Waiting(pc, slot, pos, buf, pass)'
  BY <1>2, <1>3, <1>4, <1>6 DEF Waiting
<1>8. slot' = 2 /\ pass'[1] # NoPass => LineEnd(Text(1), 1)' \in Nat
  BY <1>1, <1>2, <1>3, <1>4 DEF ReadInv
<1>9. slot' = 1 => /\ pass'[2] = NoPass
                   /\ \A f \in Descriptors : f # Feed(1)' => pos'[f] = 0
  BY <1>1, <1>2, <1>3, <1>4
<1> QED BY <1>1, <1>2, <1>3, <1>4, <1>5, <1>7, <1>8, <1>9 DEF ReadInv

\* Going on without a passphrase.
LEMMA PassMissing ==
  ASSUME ReadInv, UNCHANGED <<argv, stream, pos>>, Got(NoPass)
  PROVE  ReadInv'
BY PassKept DEF ReadInv

\* One call of read: what is taken, and where that ends.
LEMMA CharTaken ==
  ASSUME ReadInv, Take
  PROVE  /\ pos' \in [Descriptors -> Nat]
         /\ \A f \in Descriptors : pos'[f] <= Len(stream[f])
         /\ \A f \in Descriptors : f # Feed(slot) => pos'[f] = pos[f]
         /\ AtEOF <=> Taken(slot, pos) = Len(Text(slot))
         /\ AtEOF => Taken(slot, pos') = Taken(slot, pos)
         /\ ~AtEOF => /\ Taken(slot, pos') = Taken(slot, pos) + 1
                      /\ ch = Text(slot)[Taken(slot, pos) + 1]
<1>1. Source = Feed(slot) /\ slot \in {1, 2}
  BY DEF Source, interactive, Feed, ReadInv
<1>2. CASE Feed(slot) \in Descriptors
  <2> DEFINE f == Feed(slot)
  <2>1. /\ Text(slot) = stream[f]
        /\ Taken(slot, pos) = pos[f] /\ Taken(slot, pos') = pos'[f]
    BY <1>1, <1>2, TextIs DEF Taken
  <2>2. AtEOF <=> pos[f] = Len(stream[f])
    BY <1>1, <1>2 DEF AtEOF
  <2>3. pos' = IF AtEOF THEN pos ELSE [pos EXCEPT ![f] = @ + 1]
    BY <1>1 DEF Take
  <2>4. ch = stream[f][pos[f] + 1]
    BY <1>1 DEF ch
  <2>5. /\ pos \in [Descriptors -> Nat]
        /\ \A g \in Descriptors : pos[g] <= Len(stream[g])
        /\ Len(stream[f]) \in Nat
    BY <1>1, <2>1, TextIs DEF ReadInv
  <2>6. CASE AtEOF
    <3>1. pos' = pos
      BY <2>3, <2>6
    <3>2. \A g \in Descriptors : pos'[g] <= Len(stream[g]) /\ pos'[g] = pos[g]
      BY <2>5, <3>1
    <3>3. pos' \in [Descriptors -> Nat] /\ Taken(slot, pos') = Taken(slot, pos)
      BY <2>5, <3>1
    <3> QED BY <2>1, <2>2, <2>6, <3>2, <3>3
  <2>7. CASE ~AtEOF
    <3>1. pos'[f] = pos[f] + 1 /\ pos[f] + 1 <= Len(stream[f])
      BY <1>2, <2>2, <2>3, <2>5, <2>7
    <3>2. pos' \in [Descriptors -> Nat]
      BY <1>2, <2>3, <2>5, <2>7
    <3>3. \A g \in Descriptors : g # f => pos'[g] = pos[g]
      BY <2>3, <2>5, <2>7
    <3> QED BY <2>1, <2>2, <2>4, <2>5, <2>7, <3>1, <3>2, <3>3
  <2> QED BY <2>6, <2>7
<1>3. CASE Feed(slot) \notin Descriptors
  <2>1. AtEOF
    BY <1>1, <1>3 DEF AtEOF
  <2>2. Text(slot) = <<>> /\ Taken(slot, pos) = 0 /\ Taken(slot, pos') = 0
    BY <1>1, <1>3, TextIs DEF Taken
  <2>3. pos' = pos
    BY <2>1 DEF Take
  <2> QED BY <2>1, <2>2, <2>3 DEF ReadInv
<1> QED BY <1>2, <1>3

\* A character of the line.
LEMMA CharStep ==
  ASSUME ReadInv, ReadChar, ~LineEnds
  PROVE  ReadInv'
<1>1. /\ UNCHANGED <<argv, stream, pc, slot, pass>> /\ pc = "read" /\ Take
      /\ buf' = IF Len(buf) < BufferSize - 1 THEN Append(buf, ch) ELSE buf
      /\ ~AtEOF /\ ch \notin LineBreaks
  BY DEF ReadChar, LineEnds, world
<1>2. \A k : Feed(k)' = Feed(k) /\ Text(k)' = Text(k) /\ Begin(k)' = Begin(k)
  BY <1>1, SameInput
<1>3. /\ slot \in {1, 2}
      /\ slot = 1 => \A f \in Descriptors : f # Feed(1) => pos[f] = 0
  BY DEF ReadInv
<1>4. /\ pos' \in [Descriptors -> Nat]
      /\ \A f \in Descriptors : pos'[f] <= Len(stream[f])
      /\ slot = 1 => \A f \in Descriptors : f # Feed(1) => pos'[f] = 0
  BY <1>1, <1>3, CharTaken
<1>5. LinesOK(pass)'
  BY <1>1, <1>2 DEF ReadInv, LinesOK
<1>6. ASSUME slot = 1 \/ pass[1] # NoPass PROVE InLine(slot, pos', buf')
  <2> DEFINE s == Text(slot)
             b == Begin(slot)
             q == Taken(slot, pos)
             c == b + BufferSize - 2
  <2>1. InLine(slot, pos, buf)
    BY <1>1, <1>6 DEF ReadInv, Waiting
  <2>2. /\ Taken(slot, pos') = q + 1 /\ ch = s[q + 1] /\ q # Len(s)
    BY <1>1, CharTaken
  <2>3. b \in Nat \ {0} /\ q \in 0 .. Len(s) /\ Len(s) \in Nat
    BY <1>3, <1>6, BeginIs, TextIs
  <2>4. PICK C : s \in Seq(C)
    BY <1>3, TextIs
  <2>5. /\ b - 1 <= q
        /\ \A i \in b .. q : s[i] \notin LineBreaks
        /\ buf = SubSeq(s, b, Smaller(q, c))
    BY <2>1, <2>2 DEF InLine
  <2>6. c \in Nat /\ b - 1 <= c /\ c - b + 1 = BufferSize - 1
    BY <2>3, CommandLineAssumption
  <2>7. s[q + 1] \notin LineBreaks
    BY <1>1, <2>2
  <2> HIDE DEF s, b, q, c
  <2>8. q \in Nat /\ q < Len(s)
    BY <2>2, <2>3
  <2>9. buf' = SubSeq(s, b, Smaller(q + 1, c))
    <3>1. (IF Len(SubSeq(s, b, Smaller(q, c))) < c - b + 1
             THEN Append(SubSeq(s, b, Smaller(q, c)), s[q + 1])
             ELSE SubSeq(s, b, Smaller(q, c)))
            = SubSeq(s, b, Smaller(q + 1, c))
      BY <2>3, <2>4, <2>5, <2>6, <2>8, CharKept
    <3> QED BY <1>1, <2>2, <2>5, <2>6, <3>1
  <2>10. b - 1 <= q + 1
    BY <2>3, <2>5, <2>8
  <2>11. \A i \in b .. q + 1 : s[i] \notin LineBreaks
    BY <2>3, <2>5, <2>7, <2>8
  <2> QED BY <2>2, <2>9, <2>10, <2>11 DEF InLine, s, b, q, c
<1>7. InLine(slot, pos', buf') => InLine(slot, pos, buf)'
  BY <1>1, <1>2 DEF InLine, Taken
<1>8. Waiting(pc, slot, pos, buf, pass)'
  BY <1>1, <1>6, <1>7 DEF Waiting
<1> QED BY <1>1, <1>2, <1>4, <1>5, <1>8 DEF ReadInv

\* The end of the line: the buffer is the line, and what follows is read next.
LEMMA LineStep ==
  ASSUME ReadInv, ReadChar, LineEnds
  PROVE  ReadInv'
<1>1. /\ UNCHANGED <<argv, stream>> /\ pc = "read" /\ Take /\ Got(buf)
      /\ AtEOF \/ ch \in LineBreaks
  BY DEF ReadChar, LineEnds, Got, world
<1>2. /\ slot \in {1, 2}
      /\ slot = 1 => \A f \in Descriptors : f # Feed(1) => pos[f] = 0
  BY DEF ReadInv
<1>3. /\ pos' \in [Descriptors -> Nat]
      /\ \A f \in Descriptors : pos'[f] <= Len(stream[f])
      /\ slot = 1 => \A f \in Descriptors : f # Feed(1) => pos'[f] = 0
  BY <1>1, <1>2, CharTaken
<1>4. ASSUME slot = 1 \/ pass[1] # NoPass
      PROVE  /\ LineEnd(Text(slot), Begin(slot)) = Taken(slot, pos)
             /\ buf = LineAt(Text(slot), Begin(slot))
  <2> DEFINE s == Text(slot)
             b == Begin(slot)
             q == Taken(slot, pos)
  <2>1. InLine(slot, pos, buf)
    BY <1>1, <1>4 DEF ReadInv, Waiting
  <2>2. q = Len(s) \/ s[q + 1] \in LineBreaks
    BY <1>1, CharTaken
  <2>3. b \in Nat \ {0} /\ q \in 0 .. Len(s)
    BY <1>2, <1>4, BeginIs, TextIs
  <2>4. PICK C : s \in Seq(C)
    BY <1>2, TextIs
  <2>5. /\ b - 1 <= q \/ q = Len(s)
        /\ \A i \in b .. q : s[i] \notin LineBreaks
        /\ buf = SubSeq(s, b, Smaller(q, b + BufferSize - 2))
    BY <2>1 DEF InLine
  <2> HIDE DEF s, b, q
  <2>6. LineEnd(s, b) = q
    BY <2>2, <2>3, <2>4, <2>5, LineEndIs
  <2>7. LineAt(s, b) = buf
    BY <2>3, <2>4, <2>5, <2>6, LineKept
  <2> QED BY <2>6, <2>7 DEF s, b, q
<1>5. ASSUME slot = 1
      PROVE  LineEnd(Text(1), 1) \in Nat /\ BeforeLine(2, pos')
  <2> DEFINE q == Taken(1, pos)
             n == Len(Text(1))
  <2>1. LineEnd(Text(1), 1) = q /\ q \in 0 .. n /\ n \in Nat
    BY <1>4, <1>5, TextIs DEF Begin
  <2>2. /\ q = n <=> AtEOF
        /\ AtEOF => Taken(1, pos') = q
        /\ ~AtEOF => Taken(1, pos') = q + 1
    BY <1>1, <1>5, CharTaken
  <2>3. CASE SameSource
    <3>1. Begin(2) - 1 = q + 1
      BY <2>1, <2>3 DEF Begin
    <3>2. Feed(1) = Feed(2)
      BY <2>3 DEF SameSource, Feed
    <3>3. Text(2) = Text(1) /\ Taken(2, pos') = Taken(1, pos')
      BY <3>2 DEF Text, Taken, Feed
    <3> HIDE DEF q, n
    <3>4. Taken(1, pos') = Smaller(q + 1, n)
      BY <2>1, <2>2 DEF Smaller
    <3> QED BY <2>1, <3>1, <3>3, <3>4 DEF BeforeLine, n
  <2>4. CASE ~SameSource
    <3>1. Begin(2) = 1
      BY <2>4 DEF Begin
    <3>2. Feed(1) # Feed(2)
      BY <2>4 DEF SameSource, Feed
    <3>3. Taken(2, pos') = 0
      BY <1>3, <1>5, <3>2 DEF Taken
    <3>4. Len(Text(2)) \in Nat
      BY TextIs
    <3>5. Smaller(Begin(2) - 1, Len(Text(2))) = 0
      BY <3>1, <3>4 DEF Smaller
    <3> QED BY <2>1, <3>3, <3>5 DEF BeforeLine
  <2> QED BY <2>3, <2>4
<1>6. buf # NoPass /\ (slot = 1 \/ pass[1] # NoPass) =>
        buf = LineAt(Text(slot), Begin(slot))
  BY <1>4
<1> QED BY <1>1, <1>3, <1>5, <1>6, PassKept

\* Every step of main keeps the invariant.
LEMMA ReadStep == ASSUME ReadInv, [Next]_vars PROVE ReadInv'
<1>1. CASE main
  BY <1>1, NothingRead DEF main, Exit, world
<1>2. CASE Ask
  <2>1. CASE interactive /\ Got(NoPass)
    BY <1>2, <2>1, PassMissing DEF Ask, world
  <2>2. CASE ~(interactive /\ Got(NoPass))
    BY <1>2, <2>2, NothingRead DEF Ask, world
  <2> QED BY <2>1, <2>2
<1>3. CASE Allocate
  <2>1. CASE Got(NoPass)
    BY <1>3, <2>1, PassMissing DEF Allocate, world
  <2>2. CASE ~Got(NoPass)
    BY <1>3, <2>2, NothingRead DEF Allocate, world
  <2> QED BY <2>1, <2>2
<1>4. CASE ReadChar
  BY <1>4, CharStep, LineStep
<1>5. CASE PasswordRequired
  BY <1>5, NothingRead DEF PasswordRequired, Exit, world
<1>6. CASE handle_create
  BY <1>6, NothingRead DEF handle_create, world
<1>7. CASE handle_open
  BY <1>7, NothingRead DEF handle_open, world
<1>8. CASE Done
  BY <1>8, NothingRead DEF Done, Exit, world
<1>9. CASE Exited \/ UNCHANGED vars
  BY <1>9, NothingRead DEF Exited, vars
<1> QED
  BY <1>1, <1>2, <1>3, <1>4, <1>5, <1>6, <1>7, <1>8, <1>9 DEF Next

\* Nothing is read yet when main starts.
LEMMA ReadInit == ASSUME Init PROVE ReadInv
<1>1. /\ stream \in Inputs /\ slot = 1 /\ pass = [k \in {1, 2} |-> NoPass]
      /\ pos = [f \in Descriptors |-> 0] /\ buf = <<>> /\ pc = "start"
  BY DEF Init
<1>2. \A f \in Descriptors : Len(stream[f]) \in Nat
  <2> SUFFICES ASSUME NEW f \in Descriptors PROVE Len(stream[f]) \in Nat
    OBVIOUS
  <2>1. stream[f] \in Seq({stream[f][i] : i \in DOMAIN stream[f]})
    BY <1>1, CommandLineAssumption
  <2> QED BY <2>1
<1>3. Taken(1, pos) = 0 /\ Begin(1) = 1
  BY <1>1 DEF Taken, Begin
<1>4. Len(Text(1)) \in Nat
  <2>1. Len(<<>>) = 0
    OBVIOUS
  <2> QED BY <1>2, <2>1 DEF Text
<1>5. BeforeLine(1, pos)
  BY <1>3, <1>4 DEF BeforeLine, Smaller
<1>6. LinesOK(pass) /\ Waiting(pc, slot, pos, buf, pass)
  BY <1>1, <1>5 DEF LinesOK, Waiting
<1>7. \A f \in Descriptors : pos[f] = 0 /\ pos[f] <= Len(stream[f])
  BY <1>1, <1>2
<1> QED BY <1>1, <1>6, <1>7 DEF ReadInv

\* Whatever the command line says and however the input is broken into lines,
\* a command that runs was given the first line of its descriptor, and as its
\* hidden passphrase the next one or the first one of another descriptor; a
\* line longer than the buffer is cut and the rest of it is not taken for the
\* next passphrase.
THEOREM PassphrasesReadAsLines == Spec => []PassphrasesAreLines
<1>1. Init => ReadInv
  BY ReadInit
<1>2. ReadInv => PassphrasesAreLines
  <2> SUFFICES ASSUME ReadInv, Ready PROVE
         /\ pass[1] = LineAt(Text(1), 1)
         /\ pass[2] # NoPass =>
              pass[2] = LineAt(Text(2),
                          IF SameSource THEN LineEnd(Text(1), 1) + 2 ELSE 1)
    BY DEF PassphrasesAreLines
  <2>1. pass[1] # NoPass
    BY DEF Ready, Missing
  <2> QED BY <2>1 DEF ReadInv, LinesOK, Begin
<1>3. QED
  BY <1>1, <1>2, ReadStep, PTL DEF Spec

=============================================================================
