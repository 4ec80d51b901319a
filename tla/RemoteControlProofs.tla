------------------------ MODULE RemoteControlProofs -------------------------
(***************************************************************************)
(* The pipes between the system and its remote control are a link, for     *)
(* pipes of any capacity, any states and commands, any number of clients   *)
(* one after the other, and however the reads cut what is in the pipe.     *)
(*                                                                         *)
(* What a side has yet to take is its partialData followed by its pipe.    *)
(* Until it is lost, that is a sequence of whole lines (Straight), even if *)
(* a process has died in between.  A write adds a line at the end of it, a *)
(* read takes none or the first one, wherever it cut the pipe (DropFront), *)
(* and leaving clears both parts or, of a reader that is still there,      *)
(* neither.  So its messages (MessagesIn) are a queue.                     *)
(***************************************************************************)
EXTENDS RemoteControl, SequenceTheorems, WellFoundedInduction, TLAPS

(* The messages of the two programs, and the halves of their lines.        *)
Messages == [type : {"PONG", "COMMAND", "CURRENT_STATE"}, state : States]
            \cup [type : {"PING", "GET_STATUS", "SYSTEM"}, state : {Nothing}]
Halves == Messages \X {"head", "tail"}

PipesTyped == /\ wire \in [Sides -> Seq(Halves)] /\ partialData \in [Sides -> Seq(Halves)]
              /\ stage \in [Sides -> Stages] /\ torn \in BOOLEAN /\ halfRead \in BOOLEAN
StatesTyped == /\ todo \subseteq Messages /\ sysState \in States
               /\ {answer, currentState} \subseteq States \cup {Nothing}

(* What a read of n halves makes of what side s has yet to take, and what  *)
(* is left when a line of l halves has been taken from that.               *)
Front(p, w, n) == p \o SubSeq(w, 1, n)
Rest(p, w, n, l) == SubSeq(Front(p, w, n), l + 1, Len(Front(p, w, n)))
                    \o SubSeq(w, n + 1, Len(w))

(* q consists of k lines; of some number of lines.                         *)
InLines(q, k) == /\ Len(q) = 2 * k
                 /\ \A j \in 1..k : /\ q[2 * j][2] = "tail"
                                    /\ q[2 * j - 1] = <<q[2 * j][1], "head">>
Lines(q) == \E k \in Nat : InLines(q, k)

(* Only a side that has its pipes open, or died with them, holds part of a *)
(* line.                                                                   *)
Fresh == \A s \in Sides : stage[s] \notin {"open", "killed"} => partialData[s] = <<>>

(* Each side has whole lines before it, unless they are lost to it.        *)
Straight == \A s \in Sides : Lost(s) \/ Lines(Stream(s))

(* The inductive invariant.                                                *)
PipesSound == PipesTyped /\ Fresh /\ Straight /\ LinesArriveWhole

-----------------------------------------------------------------------------
(* What SubSeq() returns, element by element.                              *)
LEMMA Part ==
    ASSUME NEW S, NEW q \in Seq(S), NEW n \in Nat, NEW l \in Nat, n <= Len(q), l <= n
    PROVE  /\ SubSeq(q, l + 1, n) \in Seq(S) /\ Len(SubSeq(q, l + 1, n)) = n - l
           /\ \A i \in 1..(n - l) : SubSeq(q, l + 1, n)[i] = q[i + l]
OBVIOUS

(* What a concatenation holds, element by element.                         *)
LEMMA Joint ==
    ASSUME NEW S, NEW p \in Seq(S), NEW w \in Seq(S)
    PROVE  /\ p \o w \in Seq(S) /\ Len(p \o w) = Len(p) + Len(w)
           /\ Len(p) \in Nat /\ Len(w) \in Nat
           /\ \A i \in 1..Len(p) : (p \o w)[i] = p[i]
           /\ \A i \in 1..Len(w) : (p \o w)[i + Len(p)] = w[i]
OBVIOUS

(* The buffer of a read is the beginning of the stream.                    *)
LEMMA FrontOfStream ==
    ASSUME NEW S, NEW p \in Seq(S), NEW w \in Seq(S), NEW n \in 0..Len(w),
           NEW d, d = p \o SubSeq(w, 1, n)
    PROVE  /\ d \in Seq(S) /\ Len(d) = Len(p) + n
           /\ \A i \in 1..Len(d) : d[i] = (p \o w)[i]
<1>1. PICK a : a = SubSeq(w, 1, n)
  OBVIOUS
<1>2. a \in Seq(S) /\ Len(a) = n /\ \A i \in 1..n : a[i] = w[i]
  BY <1>1, Part
<1>3. d = p \o a
  BY <1>1
<1>4. /\ d \in Seq(S) /\ Len(d) = Len(p) + n
      /\ \A i \in 1..Len(p) : d[i] = p[i]
      /\ \A i \in 1..n : d[i + Len(p)] = a[i]
  BY <1>2, <1>3, Joint
<1>5. ASSUME NEW i \in 1..Len(d) PROVE d[i] = (p \o w)[i]
  <2>1. CASE i \in 1..Len(p)
    BY <1>4, <2>1, Joint
  <2>2. CASE i \notin 1..Len(p)
    <3>1. PICK j \in 1..n : i = j + Len(p)
      <4>1. i - Len(p) \in 1..n /\ i = (i - Len(p)) + Len(p)
        BY <1>4, <2>2, Joint
      <4> QED BY <4>1
    <3> QED BY <1>2, <1>4, <3>1, Joint
  <2> QED BY <2>1, <2>2
<1> QED BY <1>4, <1>5

(* What is left of a sequence without its first l elements.                *)
LEMMA Back ==
    ASSUME NEW S, NEW q \in Seq(S), NEW l \in Nat, l <= Len(q), NEW a,
           a = SubSeq(q, l + 1, Len(q))
    PROVE  a \in Seq(S) /\ Len(a) = Len(q) - l /\ \A i \in 1..(Len(q) - l) : a[i] = q[i + l]
OBVIOUS

(* Taking a line of l halves from the buffer of a read of n halves         *)
(* leaves the stream without its first l halves, whatever n is.            *)
LEMMA DropFront ==
    ASSUME NEW p \in Seq(Halves), NEW w \in Seq(Halves), NEW n \in Nat, n <= Len(w),
           NEW l \in Nat, l <= Len(Front(p, w, n))
    PROVE  /\ Rest(p, w, n, l) \in Seq(Halves) /\ Len(Rest(p, w, n, l)) = Len(p \o w) - l
           /\ \A i \in 1..Len(Rest(p, w, n, l)) : Rest(p, w, n, l)[i] = (p \o w)[i + l]
<1>1. PICK d : d = p \o SubSeq(w, 1, n)
  OBVIOUS
<1>2. d \in Seq(Halves) /\ Len(d) = Len(p) + n /\ \A i \in 1..Len(d) : d[i] = (p \o w)[i]
  BY <1>1, FrontOfStream
<1>3. PICK a : a = SubSeq(d, l + 1, Len(d))
  OBVIOUS
<1>4. l <= Len(d) /\ Len(d) \in Nat
  BY <1>1, <1>2 DEF Front
<1>5. a \in Seq(Halves) /\ Len(a) = Len(d) - l /\ \A i \in 1..(Len(d) - l) : a[i] = d[i + l]
  <2>1. d \in Seq(Halves)
    BY <1>2
  <2> QED BY <1>3, <1>4, <2>1, Back
<1>6. PICK b : b = SubSeq(w, n + 1, Len(w))
  OBVIOUS
<1>7. Len(w) \in Nat /\ Len(p) \in Nat
  OBVIOUS
<1>8. b \in Seq(Halves) /\ Len(b) = Len(w) - n /\ \A i \in 1..(Len(w) - n) : b[i] = w[i + n]
  BY <1>6, <1>7, Back
<1>9. PICK q : q = p \o w
  OBVIOUS
<1>10. /\ q \in Seq(Halves) /\ Len(q) = Len(p) + Len(w)
       /\ \A i \in 1..Len(w) : q[i + Len(p)] = w[i]
  BY <1>9, Joint
<1>11. a \in Seq(Halves) /\ b \in Seq(Halves) /\ Len(a) \in Nat /\ Len(b) \in Nat
  BY <1>5, <1>8
<1>12. PICK r : r = a \o b
  OBVIOUS
<1>13. /\ r \in Seq(Halves) /\ Len(r) = Len(a) + Len(b)
       /\ \A i \in 1..Len(a) : r[i] = a[i]
       /\ \A i \in 1..Len(b) : r[i + Len(a)] = b[i]
  BY <1>11, <1>12, Joint
<1>14. l <= Len(p) + n /\ Len(a) = Len(p) + n - l /\ Len(b) = Len(w) - n
       /\ Len(r) = Len(q) - l
  BY <1>2, <1>4, <1>5, <1>7, <1>8, <1>10, <1>13
<1>15. ASSUME NEW i \in 1..Len(r) PROVE r[i] = q[i + l]
  <2>0. i \in Nat /\ i >= 1 /\ i <= Len(a) + Len(b)
    BY <1>11, <1>13
  <2>1. CASE i <= Len(a)
    <3>1. i \in 1..Len(a) /\ i \in 1..(Len(d) - l) /\ i + l \in 1..Len(d)
      BY <1>4, <1>5, <1>11, <2>0, <2>1
    <3> QED BY <1>2, <1>5, <1>9, <1>13, <3>1
  <2>2. CASE ~(i <= Len(a))
    <3>1. PICK j \in 1..Len(b) : i = j + Len(a)
      <4>1. i - Len(a) \in 1..Len(b) /\ i = (i - Len(a)) + Len(a)
        BY <1>11, <2>0, <2>2
      <4> QED BY <4>1
    <3>2. r[i] = b[j] /\ b[j] = w[j + n]
      BY <1>8, <1>13, <3>1
    <3>3. j + n \in 1..Len(w) /\ i + l = (j + n) + Len(p)
      BY <1>7, <1>14, <3>1
    <3> QED BY <1>10, <3>2, <3>3
  <2> QED BY <2>1, <2>2
<1>16. Rest(p, w, n, l) = r
  BY <1>1, <1>3, <1>6, <1>12 DEF Front, Rest
<1> QED BY <1>9, <1>13, <1>14, <1>15, <1>16

(* Without the first line, lines are lines.                                *)
LEMMA LinesDrop ==
    ASSUME NEW q \in Seq(Halves), NEW r \in Seq(Halves), Lines(q), Len(q) >= 2,
           Len(r) = Len(q) - 2, \A i \in 1..Len(r) : r[i] = q[i + 2]
    PROVE  Lines(r)
<1>1. PICK k \in Nat : InLines(q, k)
  BY DEF Lines
<1>2. k - 1 \in Nat /\ Len(r) = 2 * (k - 1)
  BY <1>1 DEF InLines
<1>3. ASSUME NEW j \in 1..(k - 1)
      PROVE  r[2 * j][2] = "tail" /\ r[2 * j - 1] = <<r[2 * j][1], "head">>
  <2>1. 2 * j \in 1..Len(r) /\ 2 * j - 1 \in 1..Len(r)
        /\ 2 * j + 2 = 2 * (j + 1) /\ (2 * j - 1) + 2 = 2 * (j + 1) - 1
    BY <1>2
  <2>3. r[2 * j] = q[2 * (j + 1)] /\ r[2 * j - 1] = q[2 * (j + 1) - 1]
    BY <2>1
  <2>2. j + 1 \in 1..k
    BY <1>2
  <2> QED BY <1>1, <2>2, <2>3 DEF InLines
<1>4. InLines(r, k - 1)
  BY <1>2, <1>3 DEF InLines
<1> QED BY <1>2, <1>4 DEF Lines

(* Being lines is a matter of the elements.                                *)
LEMMA LinesSame ==
    ASSUME NEW q \in Seq(Halves), NEW r \in Seq(Halves), Lines(q),
           Len(r) = Len(q), \A i \in 1..Len(r) : r[i] = q[i]
    PROVE  Lines(r)
<1>1. PICK k \in Nat : InLines(q, k)
  BY DEF Lines
<1>2. ASSUME NEW j \in 1..k PROVE r[2 * j] = q[2 * j] /\ r[2 * j - 1] = q[2 * j - 1]
  BY <1>1 DEF InLines
<1>3. InLines(r, k)
  BY <1>1, <1>2 DEF InLines
<1> QED BY <1>3 DEF Lines

(* With one more line at the end, lines are lines.                         *)
LEMMA LinesAdd ==
    ASSUME NEW q \in Seq(Halves), NEW r \in Seq(Halves), NEW m \in Messages, Lines(q),
           Len(r) = Len(q) + 2, \A i \in 1..Len(q) : r[i] = q[i],
           r[Len(q) + 1] = <<m, "head">>, r[Len(q) + 2] = <<m, "tail">>
    PROVE  Lines(r)
<1>1. PICK k \in Nat : InLines(q, k)
  BY DEF Lines
<1>2. k + 1 \in Nat /\ Len(r) = 2 * (k + 1) /\ Len(q) = 2 * k
  BY <1>1 DEF InLines
<1>3. ASSUME NEW j \in 1..(k + 1)
      PROVE  r[2 * j][2] = "tail" /\ r[2 * j - 1] = <<r[2 * j][1], "head">>
  <2>1. CASE j \in 1..k
    <3>1. r[2 * j] = q[2 * j] /\ r[2 * j - 1] = q[2 * j - 1]
      BY <1>2, <2>1
    <3> QED BY <1>1, <2>1, <3>1 DEF InLines
  <2>2. CASE j = k + 1
    <3>1. 2 * j = Len(q) + 2 /\ 2 * j - 1 = Len(q) + 1
      BY <1>2, <2>2
    <3>2. r[2 * j] = <<m, "tail">> /\ r[2 * j - 1] = <<m, "head">>
      BY <3>1
    <3> QED BY <3>2
  <2> QED BY <2>1, <2>2
<1>4. InLines(r, k + 1)
  BY <1>2, <1>3 DEF InLines
<1> QED BY <1>2, <1>4 DEF Lines

(* The first line found in a beginning of lines is their first, whole.     *)
LEMMA FirstLineWhole ==
    ASSUME NEW q \in Seq(Halves), NEW d \in Seq(Halves), Lines(q), Len(d) <= Len(q),
           \A i \in 1..Len(d) : d[i] = q[i], Ends(d) # {}
    PROVE  FirstEnd(d) = 2 /\ Len(d) >= 2 /\ Whole(SubSeq(d, 1, 2))
<1>1. PICK k \in Nat : InLines(q, k)
  BY DEF Lines
<1>2. PICK e \in 1..Len(d) : d[e][2] = "tail"
  BY DEF Ends
<1>3. k >= 1 /\ q[1] = <<q[2][1], "head">> /\ q[2][2] = "tail"
  <2>1. k >= 1
    BY <1>1, <1>2 DEF InLines
  <2>2. 1 \in 1..k /\ 2 * 1 = 2 /\ 2 * 1 - 1 = 1
    BY <2>1
  <2> QED BY <1>1, <2>1, <2>2 DEF InLines
<1>4. d[1] = q[1] /\ d[1][2] = "head"
  BY <1>2, <1>3
<1>5. e >= 2 /\ Len(d) >= 2 /\ d[2] = q[2]
  BY <1>2, <1>4
<1>6. 2 \in Ends(d) /\ 1 \notin Ends(d) /\ Ends(d) \subseteq 1..Len(d)
  BY <1>3, <1>4, <1>5 DEF Ends
<1>7. FirstEnd(d) = 2
  BY <1>6 DEF FirstEnd
<1>8. Len(SubSeq(d, 1, 2)) = 2 /\ SubSeq(d, 1, 2)[1] = d[1] /\ SubSeq(d, 1, 2)[2] = d[2]
  BY <1>5
<1> QED BY <1>3, <1>4, <1>5, <1>7, <1>8 DEF Whole

(* A set of natural numbers has a least element.                           *)
LEMMA Least == ASSUME NEW T, T \subseteq Nat, T # {} PROVE \E x \in T : \A y \in T : x <= y
<1> DEFINE R == OpToRel(<, Nat)
<1>1. IsWellFoundedOn(R, Nat)
  BY NatLessThanWellFounded
<1>2. \A x, y \in Nat : x < y => <<x, y>> \in R
  BY DEF OpToRel
<1> HIDE DEF R
<1>3. PICK x \in T : \A y \in T : ~(<<y, x>> \in R)
  BY <1>1, WFMin
<1>4. \A y \in T : ~(y < x)
  BY <1>2, <1>3
<1> QED BY <1>4

(* The first line of what was read is a beginning of it.                   *)
LEMMA FirstEndIs ==
    ASSUME NEW d \in Seq(Halves), Ends(d) # {}
    PROVE  FirstEnd(d) \in 1..Len(d)
<1>1. Ends(d) \subseteq 1..Len(d) /\ Ends(d) \subseteq Nat
  BY DEF Ends
<1>2. \E x \in Ends(d) : \A y \in Ends(d) : x <= y
  BY <1>1, Least
<1>3. FirstEnd(d) \in Ends(d)
  BY <1>2 DEF FirstEnd
<1> QED BY <1>1, <1>3

(* The messages of lines, and of lines without the first or with one more. *)
LEMMA MessagesAre ==
    ASSUME NEW q \in Seq(Halves), NEW k \in Nat, InLines(q, k)
    PROVE  /\ MessagesIn(q) \in Seq(Messages) /\ Len(MessagesIn(q)) = k
           /\ \A j \in 1..k : MessagesIn(q)[j] = q[2 * j][1]
<1>1. Len(q) \div 2 = k
  BY DEF InLines
<1>2. \A j \in 1..k : q[2 * j][1] \in Messages
  <2> SUFFICES ASSUME NEW j \in 1..k PROVE q[2 * j][1] \in Messages
    OBVIOUS
  <2>1. 2 * j \in 1..Len(q)
    BY DEF InLines
  <2>2. q[2 * j] \in Halves
    BY <2>1
  <2> QED BY <2>2 DEF Halves
<1>3. MessagesIn(q) = [j \in 1..k |-> q[2 * j][1]]
  BY <1>1 DEF MessagesIn
<1> QED BY <1>2, <1>3

LEMMA NoMessages == MessagesIn(<<>>) = <<>>
<1>1. Len(<<>>) \div 2 = 0
  OBVIOUS
<1> QED BY <1>1 DEF MessagesIn

LEMMA FirstMessage ==
    ASSUME NEW q \in Seq(Halves), NEW r \in Seq(Halves), Lines(q), Len(q) >= 2,
           Len(r) = Len(q) - 2, \A i \in 1..Len(r) : r[i] = q[i + 2]
    PROVE  /\ MessagesIn(q) # <<>> /\ Head(MessagesIn(q)) = q[1][1]
           /\ Tail(MessagesIn(q)) = MessagesIn(r)
<1>1. PICK k \in Nat : InLines(q, k)
  BY DEF Lines
<1>2. k - 1 \in Nat /\ Len(r) = 2 * (k - 1) /\ 1 \in 1..k
  BY <1>1 DEF InLines
<1>3. \A j \in 1..(k - 1) : r[2 * j] = q[2 * (j + 1)] /\ r[2 * j - 1] = q[2 * (j + 1) - 1]
                            /\ j + 1 \in 1..k
  <2> SUFFICES ASSUME NEW j \in 1..(k - 1)
               PROVE  r[2 * j] = q[2 * (j + 1)] /\ r[2 * j - 1] = q[2 * (j + 1) - 1]
                      /\ j + 1 \in 1..k
    OBVIOUS
  <2>1. 2 * j \in 1..Len(r) /\ 2 * j - 1 \in 1..Len(r)
        /\ 2 * j + 2 = 2 * (j + 1) /\ (2 * j - 1) + 2 = 2 * (j + 1) - 1
    BY <1>2
  <2> QED BY <1>2, <2>1
<1>4. InLines(r, k - 1)
  BY <1>1, <1>2, <1>3 DEF InLines
<1>5. PICK a, b : a = MessagesIn(q) /\ b = MessagesIn(r)
  OBVIOUS
<1>6. /\ a \in Seq(Messages) /\ Len(a) = k /\ \A j \in 1..k : a[j] = q[2 * j][1]
      /\ b \in Seq(Messages) /\ Len(b) = k - 1 /\ \A j \in 1..(k - 1) : b[j] = r[2 * j][1]
  BY <1>1, <1>2, <1>4, <1>5, MessagesAre
<1>7. a # <<>> /\ Head(a) = a[1]
  BY <1>2, <1>6
<1>8. a[1] = q[1][1]
  <2>1. a[1] = q[2 * 1][1] /\ q[2 * 1 - 1] = <<q[2 * 1][1], "head">>
    BY <1>1, <1>2, <1>6 DEF InLines
  <2> QED BY <2>1
<1>9. Tail(a) \in Seq(Messages) /\ Len(Tail(a)) = Len(b)
      /\ \A i \in 1..Len(b) : Tail(a)[i] = b[i]
  <2>1. Tail(a) \in Seq(Messages) /\ Len(Tail(a)) = k - 1
        /\ \A i \in 1..(k - 1) : Tail(a)[i] = a[i + 1]
    BY <1>2, <1>6, <1>7, HeadTailProperties
  <2>2. ASSUME NEW i \in 1..Len(b) PROVE Tail(a)[i] = b[i]
    <3>1. i \in 1..(k - 1) /\ i + 1 \in 1..k
      BY <1>2, <1>6
    <3>2. a[i + 1] = q[2 * (i + 1)][1] /\ b[i] = r[2 * i][1] /\ r[2 * i] = q[2 * (i + 1)]
      BY <1>3, <1>6, <3>1
    <3> QED BY <2>1, <3>1, <3>2
  <2> QED BY <1>6, <2>1, <2>2
<1>10. Tail(a) = b
  BY <1>6, <1>9, SeqEqual
<1> QED BY <1>5, <1>7, <1>8, <1>10

LEMMA LastMessage ==
    ASSUME NEW q \in Seq(Halves), NEW r \in Seq(Halves), NEW m \in Messages, Lines(q), Lines(r),
           Len(r) = Len(q) + 2, \A i \in 1..Len(q) : r[i] = q[i], r[Len(q) + 2] = <<m, "tail">>
    PROVE  MessagesIn(r) = Append(MessagesIn(q), m)
<1>1. PICK k \in Nat : InLines(q, k)
  BY DEF Lines
<1>2. PICK l \in Nat : InLines(r, l)
  BY DEF Lines
<1>3. l = k + 1 /\ Len(q) + 2 = 2 * l
  BY <1>1, <1>2 DEF InLines
<1>4. PICK a, b : a = MessagesIn(q) /\ b = MessagesIn(r)
  OBVIOUS
<1>5. /\ a \in Seq(Messages) /\ Len(a) = k /\ \A j \in 1..k : a[j] = q[2 * j][1]
      /\ b \in Seq(Messages) /\ Len(b) = l /\ \A j \in 1..l : b[j] = r[2 * j][1]
  BY <1>1, <1>2, <1>4, MessagesAre
<1>6. PICK c : c = Append(a, m)
  OBVIOUS
<1>7. c \in Seq(Messages) /\ Len(c) = l /\ c[l] = m /\ \A j \in 1..k : c[j] = a[j]
  BY <1>3, <1>5, <1>6
<1>8. ASSUME NEW j \in 1..Len(b) PROVE b[j] = c[j]
  <2>1. CASE j \in 1..k
    <3>1. 2 * j \in 1..Len(q)
      BY <1>1, <2>1 DEF InLines
    <3> QED BY <1>3, <1>5, <1>7, <2>1, <3>1
  <2>2. CASE j = l
    BY <1>3, <1>5, <1>7, <2>2
  <2> QED BY <1>3, <1>5, <2>1, <2>2
<1>9. b = c
  BY <1>5, <1>7, <1>8, SeqEqual
<1> QED BY <1>4, <1>6, <1>9
(* A line written to the pipe is a line at the end of the stream, and its   *)
(* last message.                                                           *)
LEMMA Appended ==
    ASSUME NEW p \in Seq(Halves), NEW w \in Seq(Halves), NEW m \in Messages,
           NEW h \in Halves, NEW t \in Halves, h = <<m, "head">>, t = <<m, "tail">>
    PROVE  /\ w \o <<h, t>> \in Seq(Halves)
           /\ Lines(p \o w) => /\ Lines(p \o (w \o <<h, t>>))
                               /\ MessagesIn(p \o (w \o <<h, t>>))
                                  = Append(MessagesIn(p \o w), m)
<1>1. PICK q : q = p \o w
  OBVIOUS
<1>2. PICK r : r = p \o (w \o <<h, t>>)
  OBVIOUS
<1>3. w \o <<h, t>> \in Seq(Halves) /\ r \in Seq(Halves) /\ q \in Seq(Halves)
  BY <1>1, <1>2
<1>4. /\ Len(r) = Len(q) + 2 /\ \A i \in 1..Len(q) : r[i] = q[i]
      /\ r[Len(q) + 1] = h /\ r[Len(q) + 2] = t
  BY <1>1, <1>2
<1>5. Lines(q) => Lines(r) /\ MessagesIn(r) = Append(MessagesIn(q), m)
  <2> SUFFICES ASSUME Lines(q) PROVE Lines(r) /\ MessagesIn(r) = Append(MessagesIn(q), m)
    OBVIOUS
  <2>1. r[Len(q) + 1] = <<m, "head">> /\ r[Len(q) + 2] = <<m, "tail">>
    BY <1>4
  <2>2. Lines(r)
    BY <1>3, <1>4, <2>1, LinesAdd
  <2> QED BY <1>3, <1>4, <2>1, <2>2, LastMessage
<1> QED BY <1>1, <1>2, <1>3, <1>5

-----------------------------------------------------------------------------
(* An empty stream has nothing but whole lines.                            *)
LEMMA NoLine == Lines(<<>>) /\ <<>> \in Seq(Halves)
<1>1. Len(<<>>) = 2 * 0
  OBVIOUS
<1>2. InLines(<<>>, 0)
  BY <1>1 DEF InLines
<1> QED BY <1>2 DEF Lines

-----------------------------------------------------------------------------
(* A step that takes no message, and adds none, may clear what a side that *)
(* is not there has before it, and nothing else.                           *)
LEMMA LosesIf ==
    ASSUME \A x \in Sides : \/ Channels'[x] = Channels[x]
                            \/ Channels'[x] = <<>> /\ stage'[x] # "open",
           \A x \in Sides : stage'[x] = "open" => stage[x] = "open",
           Broken => Broken', Broken' => Broken \/ stage'["client"] # "open"
    PROVE  Link!Loses
<1> DEFINE lost == {x \in Sides : Channels'[x] # Channels[x]}
           gone == {x \in Sides : stage'[x] # "open"}
<1>1. lost \in SUBSET {x \in Sides : ~Present'[x]} /\ gone \in SUBSET Sides
  BY DEF Present
<1>2. Channels' = [x \in Sides |-> IF x \in lost THEN <<>> ELSE Channels[x]]
  BY DEF Channels
<1>3. Present' = [x \in Sides |-> Present[x] /\ x \notin gone]
  BY DEF Present
<1>4. Broken' => Broken \/ ~Present'["client"]
  BY DEF Present, Sides
<1>5. \E l \in SUBSET {x \in Link!Sides : ~Present'[x]} :
          Channels' = [x \in Link!Sides |-> IF x \in l THEN <<>> ELSE Channels[x]]
  BY <1>1, <1>2 DEF Link!Sides, Sides
<1>6. \E g \in SUBSET Link!Sides : Present' = [x \in Link!Sides |-> Present[x] /\ x \notin g]
  BY <1>1, <1>3 DEF Link!Sides, Sides
<1> QED BY <1>4, <1>5, <1>6 DEF Link!Loses

(* What a side has before it is a matter of its stream, once it is known   *)
(* that it is not lost.                                                    *)
LEMMA ChannelOf ==
    ASSUME NEW s \in Sides
    PROVE  Channels[s] = IF Lost(s) THEN <<>> ELSE MessagesIn(Stream(s))
BY DEF Channels

(* Opening the pipes, with its retries, touches no data; a server gives up *)
(* its pipes with the last try.                                            *)
LEMMA OpeningKeeps ==
    ASSUME PipesSound, Opening
    PROVE  /\ PipesSound'
           /\ \/ Link!Loses
              \/ \E s \in Sides : /\ Present' = [Present EXCEPT ![s] = TRUE]
                                  /\ Channels' = Channels /\ Broken' = Broken
<1>1. UNCHANGED <<wire, partialData, torn, halfRead>>
  BY DEF Opening, Retry, Create, OpenFirst, OpenSecond, Opens
<1>2. stage' \in [Sides -> Stages]
  BY DEF PipesSound, PipesTyped, Opening, Retry, Create, OpenFirst, OpenSecond, Stage, Stages,
         Sides
<1>3. \A s \in Sides : stage[s] \in {"open", "killed", "gone"} => stage'[s] = stage[s]
  BY DEF PipesSound, PipesTyped, Opening, Retry, Create, OpenFirst, OpenSecond, Stage, Stages,
         Sides, Other
<1>4. \A s \in Sides : stage'[s] # "killed" \/ stage[s] = "killed"
  BY DEF PipesSound, PipesTyped, Opening, Retry, Create, OpenFirst, OpenSecond, Stage, Stages,
         Sides, Other
<1>5. "client" \in Sides /\ "server" \in Sides
  BY DEF Sides
<1>6. Fresh'
  BY <1>1, <1>3 DEF PipesSound, Fresh
<1>7. Broken' = Broken
  <2>1. stage'["client"] = "killed" <=> stage["client"] = "killed"
    BY <1>3, <1>4, <1>5
  <2> QED BY <1>1, <2>1 DEF Broken
<1>8. \A s \in Sides : /\ Stream(s)' = Stream(s) /\ (Lost(s) => Lost(s)')
                       /\ Lost(s)' => Lost(s) \/ stage'[s] = "gone"
  BY <1>1, <1>3, <1>4, <1>7 DEF Stream, Lost, Sides
<1>9. PipesSound'
  BY <1>1, <1>2, <1>6, <1>8 DEF PipesSound, PipesTyped, Straight, LinesArriveWhole
<1>10. \A s \in Sides : Channels'[s] = Channels[s] \/ (Channels'[s] = <<>> /\ stage'[s] # "open")
  BY <1>8 DEF Channels
<1>11. CASE \A s \in Sides : stage'[s] = "open" => stage[s] = "open"
  BY <1>7, <1>9, <1>10, <1>11, LosesIf
<1>12. CASE \E s \in Sides : stage' = [stage EXCEPT ![s] = "open"]
  <2>1. PICK s \in Sides : stage' = [stage EXCEPT ![s] = "open"]
    BY <1>12
  <2>2. Present' = [Present EXCEPT ![s] = TRUE]
    BY <2>1 DEF Present, PipesSound, PipesTyped
  <2>3. \A x \in Sides : Lost(x)' <=> Lost(x)
    <3>1. \A x \in Sides : stage'[x] = "gone" => stage[x] = "gone"
      BY <2>1 DEF PipesSound, PipesTyped
    <3> QED BY <1>7, <1>8, <3>1 DEF Lost
  <2>4. Channels' = Channels
    BY <1>8, <2>3 DEF Channels
  <2> QED BY <1>7, <1>9, <2>2, <2>4
<1>13. \/ \A s \in Sides : stage'[s] = "open" => stage[s] = "open"
       \/ \E s \in Sides : stage' = [stage EXCEPT ![s] = "open"]
  BY DEF PipesSound, PipesTyped, Opening, Retry, Create, OpenFirst, OpenSecond, Stage, Stages,
         Sides, Other
<1> QED BY <1>11, <1>12, <1>13

(* A write that fails, or kills its process, adds nothing; one that        *)
(* succeeds adds a line, which is a message.                               *)
LEMMA SendKeeps ==
    ASSUME PipesSound, NEW s \in Sides, NEW m \in Messages, SendMessage(s, m)
    PROVE  PipesSound' /\ Link!SendTo(Other(s), m) /\ UNCHANGED torn
<1>1. stage[s] = "open" /\ UNCHANGED <<partialData, torn, halfRead>>
  BY DEF SendMessage
<1>2. CASE ~Reads(Other(s))
  <2>1. stage' = [stage EXCEPT ![s] = "killed"] /\ UNCHANGED wire
    BY <1>2 DEF SendMessage, Stage
  <2>2. PipesTyped'
    BY <1>1, <2>1 DEF PipesSound, PipesTyped, Stages
  <2>3. Fresh'
    BY <1>1, <2>1 DEF PipesSound, PipesTyped, Fresh
  <2>4. \A x \in Sides : Stream(x)' = Stream(x) /\ stage'[x] = IF x = s THEN "killed" ELSE stage[x]
    BY <1>1, <2>1 DEF PipesSound, PipesTyped, Stream
  <2>5. (Broken => Broken') /\ (Broken' => Broken \/ stage'["client"] # "open")
    BY <1>1, <2>4 DEF Broken, Sides
  <2>6. \A x \in Sides : (Lost(x) => Lost(x)') /\ (Lost(x)' => Lost(x) \/ stage'[x] # "open")
    BY <1>1, <2>4, <2>5 DEF Lost, Broken, Sides
  <2>7. PipesSound'
    BY <1>1, <2>2, <2>3, <2>4, <2>6 DEF PipesSound, Straight, LinesArriveWhole
  <2>8. \A x \in Sides : Channels'[x] = Channels[x] \/ (Channels'[x] = <<>> /\ stage'[x] # "open")
    BY <2>4, <2>6 DEF Channels
  <2>9. Link!Loses
    BY <2>4, <2>5, <2>8, LosesIf
  <2> QED BY <1>1, <2>7, <2>9 DEF Link!SendTo
<1>3. CASE Reads(Other(s)) /\ Full(Other(s))
  <2>1. UNCHANGED <<stage, wire>>
    BY <1>3 DEF SendMessage
  <2>2. Broken' = Broken /\ Channels' = Channels
    BY <1>1, <2>1 DEF Broken, Channels, Lost, Stream
  <2>3. Link!Loses
    BY <2>1, <2>2, LosesIf
  <2>4. PipesSound'
    BY <1>1, <2>1, <2>2 DEF PipesSound, PipesTyped, Fresh, Straight, Stream, Lost, LinesArriveWhole
  <2> QED BY <1>1, <2>3, <2>4 DEF Link!SendTo
<1>4. CASE Reads(Other(s)) /\ ~Full(Other(s))
  <2>1. UNCHANGED stage /\ wire' = [wire EXCEPT ![Other(s)] = @ \o Line(m)]
    BY <1>4 DEF SendMessage
  <2>2. PICK o \in Sides : o = Other(s)
    BY DEF Other, Sides
  <2>3. PICK w, p : w = wire[o] /\ p = partialData[o]
    OBVIOUS
  <2>5. w \in Seq(Halves) /\ p \in Seq(Halves)
    BY <2>2, <2>3 DEF PipesSound, PipesTyped
  <2>6. <<m, "head">> \in Halves /\ <<m, "tail">> \in Halves
    BY DEF Halves
  <2>7. PICK v : v = w \o Line(m)
    OBVIOUS
  <2>8. v \in Seq(Halves)
        /\ (Lines(p \o w) => /\ Lines(p \o v)
                             /\ MessagesIn(p \o v) = Append(MessagesIn(p \o w), m))
    BY <2>5, <2>6, <2>7, Appended DEF Line
  <2>9. wire' = [wire EXCEPT ![o] = v]
    BY <2>1, <2>2, <2>3, <2>7
  <2>10. PipesTyped' /\ Fresh' /\ LinesArriveWhole' /\ Broken' = Broken
    BY <1>1, <2>1, <2>8, <2>9
       DEF PipesSound, PipesTyped, Fresh, LinesArriveWhole, Broken
  <2>11. \A x \in Sides : Lost(x)' <=> Lost(x)
    BY <2>1, <2>10 DEF Lost
  <2>12. Stream(o) = p \o w /\ Stream(o)' = p \o v
    BY <1>1, <2>3, <2>9 DEF PipesSound, PipesTyped, Stream
  <2>13. \A x \in Sides : x # o => Stream(x)' = Stream(x)
    BY <1>1, <2>9 DEF PipesSound, PipesTyped, Stream
  <2>14. Straight'
    BY <2>8, <2>11, <2>12, <2>13 DEF PipesSound, Straight
  <2>15. CASE Lost(o)
    <3>1. Channels' = Channels
      BY <2>11, <2>13, <2>15 DEF Channels
    <3>2. Link!Loses
      BY <2>1, <2>10, <3>1, LosesIf
    <3> QED BY <1>1, <2>10, <2>14, <3>2 DEF PipesSound, Link!SendTo
  <2>16. CASE ~Lost(o)
    <3>1. MessagesIn(Stream(o))' = Append(MessagesIn(Stream(o)), m)
      BY <2>8, <2>12, <2>16 DEF PipesSound, Straight
    <3>2. Channels' = [Channels EXCEPT ![o] = Append(@, m)]
      BY <2>11, <2>13, <2>16, <3>1 DEF Channels
    <3>3. Present' = Present
      BY <2>1 DEF Present
    <3> QED BY <1>1, <2>2, <2>10, <2>14, <3>2, <3>3 DEF PipesSound, Link!SendTo
  <2> QED BY <2>15, <2>16
<1> QED BY <1>2, <1>3, <1>4

(* A read gives nothing, or the first message; if lines are lost already,  *)
(* it gives what looks like one.                                           *)
LEMMA ReceiveKeeps ==
    ASSUME PipesSound, NEW s \in Sides, NEW n, ReceiveMessage(s, n),
           NEW f, f = FirstLine(s, n)
    PROVE  /\ PipesSound' /\ Present' = Present /\ Broken' = Broken
           /\ f # <<>> => f[1][1] \in Messages
           /\ f = <<>> \/ Lost(s) => Channels' = Channels
           /\ f # <<>> /\ ~Lost(s)
              => Link!Takes(s) /\ Head(Channels[s]) = f[1][1] /\ Whole(f)
           /\ f = <<>> \/ ~Lost(s) => torn' = torn
           /\ torn => torn'
<1>1. PICK p, w, q, d : p = partialData[s] /\ w = wire[s] /\ q = p \o w
                        /\ d = p \o SubSeq(w, 1, n)
  OBVIOUS
<1>2. PICK l, r : l = Len(f) /\ r = SubSeq(d, l + 1, Len(d)) \o SubSeq(w, n + 1, Len(w))
  OBVIOUS
<1>3. stage[s] = "open" /\ torn' = (torn \/ (f # <<>> /\ ~Whole(f)))
  BY DEF ReceiveMessage, Receives
<1>4. (f = <<>> => torn' = torn) /\ (torn => torn')
  BY <1>3 DEF PipesSound, PipesTyped
<1>5. p \in Seq(Halves) /\ w \in Seq(Halves) /\ stage[s] = "open"
  BY <1>1 DEF PipesSound, PipesTyped, ReceiveMessage, Receives
<1>6. n \in 0..Len(w) /\ n \in Nat /\ n <= Len(w)
  BY <1>1, <1>5 DEF ReceiveMessage, Receives, Reading
<1>7. d \in Seq(Halves) /\ Len(d) = Len(p) + n /\ \A i \in 1..Len(d) : d[i] = q[i]
  <2>1. d = p \o SubSeq(w, 1, n) /\ q = p \o w
    BY <1>1
  <2>2. d \in Seq(Halves) /\ Len(d) = Len(p) + n /\ \A i \in 1..Len(d) : d[i] = (p \o w)[i]
    BY <1>5, <1>6, <2>1, FrontOfStream
  <2> QED BY ONLY <2>1, <2>2
<1>8. f = IF Ends(d) = {} THEN <<>> ELSE SubSeq(d, 1, FirstEnd(d))
  BY <1>1 DEF FirstLine, Data
<1>9. l \in Nat /\ l <= Len(d) /\ (f # <<>> => f[1][1] \in Messages)
  <2>1. CASE Ends(d) = {}
    <3>1. f = <<>>
      BY <1>8, <2>1, Zenon
    <3>2. Len(d) \in Nat
      BY <1>7
    <3> QED BY <1>2, <3>1, <3>2
  <2>2. CASE Ends(d) # {}
    <3>1. FirstEnd(d) \in 1..Len(d)
      BY <1>7, <2>2, FirstEndIs
    <3>2. f = SubSeq(d, 1, FirstEnd(d))
      BY <1>8, <2>2, Zenon
    <3>3. f \in Seq(Halves) /\ Len(f) = FirstEnd(d) /\ f[1] = d[1] /\ d[1] \in Halves
      BY ONLY <1>7, <3>1, <3>2
    <3> QED BY <1>2, <1>7, <3>1, <3>3 DEF Halves
  <2> QED BY <2>1, <2>2
<1>10. r \in Seq(Halves) /\ Len(r) = Len(q) - l /\ \A i \in 1..Len(r) : r[i] = q[i + l]
  <2>1. p \in Seq(Halves) /\ w \in Seq(Halves) /\ n \in Nat /\ n <= Len(w) /\ l \in Nat
    BY <1>5, <1>6, <1>9
  <2>2. l <= Len(Front(p, w, n)) /\ r = Rest(p, w, n, l)
    BY <1>1, <1>2, <1>9 DEF Front, Rest
  <2>3. /\ Rest(p, w, n, l) \in Seq(Halves) /\ Len(Rest(p, w, n, l)) = Len(p \o w) - l
        /\ \A i \in 1..Len(Rest(p, w, n, l)) : Rest(p, w, n, l)[i] = (p \o w)[i + l]
    BY ONLY <2>1, <2>2, DropFront
  <2> QED BY ONLY <1>1, <2>2, <2>3
<1>11. PICK a, b : a = SubSeq(d, l + 1, Len(d)) /\ b = SubSeq(w, n + 1, Len(w))
  OBVIOUS
<1>12. a \in Seq(Halves) /\ b \in Seq(Halves) /\ r = a \o b
  <2>1. a \in Seq(Halves) /\ b \in Seq(Halves)
    BY ONLY <1>5, <1>6, <1>7, <1>9, <1>11
  <2> QED BY ONLY <1>2, <1>11, <2>1
<1>13. wire' = [wire EXCEPT ![s] = b] /\ partialData' = [partialData EXCEPT ![s] = a]
       /\ UNCHANGED <<stage, halfRead>>
  BY <1>1, <1>2, <1>11 DEF ReceiveMessage, Receives, Data
<1>14. /\ PipesTyped' /\ Fresh' /\ UNCHANGED <<stage, halfRead>>
      /\ Stream(s)' = r /\ \A x \in Sides : x # s => Stream(x)' = Stream(x)
  <2>1. PipesTyped'
    BY <1>3, <1>12, <1>13 DEF PipesSound, PipesTyped
  <2>2. Fresh'
    BY <1>5, <1>13 DEF PipesSound, PipesTyped, Fresh
  <2>3. Stream(s)' = r /\ \A x \in Sides : x # s => Stream(x)' = Stream(x)
    BY <1>12, <1>13 DEF PipesSound, PipesTyped, Stream
  <2> QED BY <1>13, <2>1, <2>2, <2>3
<1>15. q \in Seq(Halves) /\ Len(q) = Len(p) + Len(w) /\ Stream(s) = q /\ Len(d) <= Len(q)
  <2>1. Stream(s) = q
    BY <1>1 DEF Stream
  <2>2. p \in Seq(Halves) /\ w \in Seq(Halves) /\ q = p \o w
    BY <1>1, <1>5
  <2>3. q \in Seq(Halves) /\ Len(q) = Len(p) + Len(w) /\ Len(p) \in Nat /\ Len(w) \in Nat
    BY ONLY <2>2, Joint
  <2>4. n \in Nat /\ n <= Len(w) /\ Len(d) = Len(p) + n
    BY <1>6, <1>7
  <2> QED BY ONLY <2>1, <2>3, <2>4
<1>16. partialData'["client"] = partialData["client"] \/ stage["client"] # "killed"
  BY <1>3 DEF ReceiveMessage, Receives, PipesSound, PipesTyped, Sides
<1>17. Broken' = Broken /\ Present' = Present
  BY <1>14, <1>16 DEF Broken, Present
<1>18. \A x \in Sides : Lost(x)' <=> Lost(x)
  BY <1>14, <1>17 DEF Lost
<1>19. CASE Lost(s)
  <2>1. halfRead
    BY <1>3, <1>19 DEF Lost, Broken, Sides
  <2>2. Straight'
    BY <1>14, <1>18, <1>19 DEF PipesSound, Straight
  <2>3. LinesArriveWhole'
    BY <1>14, <2>1 DEF LinesArriveWhole
  <2>4. Channels' = Channels
    BY <1>14, <1>18, <1>19 DEF Channels
  <2> QED BY <1>14, <1>17, <1>19, <1>9, <1>4, <2>2, <2>3, <2>4 DEF PipesSound
<1>20. CASE ~Lost(s)
  <2>1. Lines(q)
    BY <1>15, <1>20 DEF PipesSound, Straight
  <2>2. CASE Ends(d) = {}
    <3>1. f = <<>> /\ l = 0 /\ torn' = torn
      <4>1. f = <<>>
        BY <1>8, <2>2, Zenon
      <4>2. l = 0
        BY <1>2, <4>1
      <4>3. torn' = torn
        BY <1>4, <4>1
      <4> QED BY <4>1, <4>2, <4>3
    <3>2. Len(r) = Len(q) /\ \A i \in 1..Len(r) : r[i] = q[i]
      BY <1>10, <3>1
    <3>3. r = q
      BY <1>15, <1>10, <3>2, SeqEqual
    <3>4. Straight' /\ Channels' = Channels
      BY <1>14, <1>15, <1>18, <3>3 DEF PipesSound, Straight, Channels
    <3> QED BY <1>14, <1>17, <3>1, <3>4 DEF PipesSound, LinesArriveWhole
  <2>3. CASE Ends(d) # {}
    <3>1. FirstEnd(d) = 2 /\ Len(d) >= 2 /\ Whole(SubSeq(d, 1, 2))
      BY <1>15, <1>7, <2>1, <2>3, FirstLineWhole
    <3>2. f = SubSeq(d, 1, 2) /\ Whole(f)
      <4>1. f = SubSeq(d, 1, FirstEnd(d))
        BY <1>8, <2>3, Zenon
      <4> QED BY ONLY <3>1, <4>1
    <3>3. Len(f) = 2 /\ f # <<>> /\ f[1] = q[1] /\ Len(q) >= 2
      <4>1. d \in Seq(Halves) /\ d[1] = q[1]
        BY <1>7, <3>1
      <4>2. Len(f) = 2 /\ f[1] = d[1]
        BY ONLY <3>1, <3>2, <4>1
      <4>3. f # <<>>
        BY ONLY <4>2
      <4>4. Len(d) \in Nat /\ Len(q) \in Nat
        BY ONLY <1>15, <4>1
      <4> QED BY ONLY <1>15, <3>1, <4>1, <4>2, <4>3, <4>4
    <3>4. Len(q) >= 2 /\ Len(r) = Len(q) - 2 /\ \A i \in 1..Len(r) : r[i] = q[i + 2]
      <4>1. l = 2
        BY <1>2, <3>3
      <4>2. Len(r) = Len(q) - l /\ \A i \in 1..Len(r) : r[i] = q[i + l]
        BY <1>10
      <4> QED BY ONLY <3>3, <4>1, <4>2
    <3>5. Lines(r)
      BY <1>15, <1>10, <2>1, <3>4, LinesDrop
    <3>6. /\ MessagesIn(q) # <<>> /\ Head(MessagesIn(q)) = q[1][1]
          /\ Tail(MessagesIn(q)) = MessagesIn(r)
      BY <1>15, <1>10, <2>1, <3>4, FirstMessage
    <3>7. Straight'
      BY <1>14, <1>18, <3>5 DEF PipesSound, Straight
    <3>8. Channels[s] = MessagesIn(q)
      BY <1>15, <1>20 DEF Channels
    <3>9. Channels' = [Channels EXCEPT ![s] = Tail(@)]
      BY <1>14, <1>18, <1>20, <3>6, <3>8 DEF Channels
    <3>10. Link!Takes(s)
      BY <1>3, <1>17, <3>6, <3>8, <3>9 DEF Link!Takes, Present
    <3>11. torn' = torn /\ Head(Channels[s]) = f[1][1]
      <4>1. torn' = torn
        BY <1>3, <3>2 DEF PipesSound, PipesTyped
      <4> QED BY <3>3, <3>6, <3>8, <4>1
    <3>12. PipesSound'
      BY <1>14, <3>7, <3>11 DEF PipesSound, LinesArriveWhole
    <3>13. f[1][1] \in Messages
      BY <1>9, <3>3
    <3> QED BY <1>17, <1>20, <3>2, <3>3, <3>10, <3>11, <3>12, <3>13
  <2> QED BY <2>2, <2>3
<1> QED BY <1>19, <1>20

(* A process that ends takes its buffer with it, and the pipes that        *)
(* nobody else has open; a client with half a line breaks the link.        *)
LEMMA LeaveKeeps ==
    ASSUME PipesSound, NEW s \in Sides, Leave(s)
    PROVE  PipesSound' /\ Link!Loses /\ UNCHANGED torn
<1>1. /\ stage' = [stage EXCEPT ![s] = "gone"]
      /\ partialData' = [partialData EXCEPT ![s] = <<>>]
      /\ halfRead' = (halfRead \/ (s = "client" /\ partialData[s] # <<>>))
      /\ UNCHANGED torn
  BY DEF Leave, Stage
<1>2. wire' = [x \in Sides |-> IF IF x = s THEN Writes(Other(s)) ELSE Reads(x)
                               THEN wire[x] ELSE <<>>]
  BY DEF Leave
<1>3. PipesTyped'
  BY <1>1, <1>2, NoLine DEF PipesSound, PipesTyped, Stages
<1>4. Fresh'
  BY <1>1 DEF PipesSound, PipesTyped, Fresh
<1>5. /\ "client" \in Sides /\ "server" \in Sides
      /\ \A x \in Sides : stage'[x] = IF x = s THEN "gone" ELSE stage[x]
  BY <1>1 DEF PipesSound, PipesTyped, Sides
<1>6. Broken' <=> Broken \/ (s = "client" /\ partialData["client"] # <<>>)
  BY <1>1, <1>5 DEF Broken, PipesSound, PipesTyped
<1>7. ASSUME NEW x \in Sides
      PROVE  /\ Lost(x) => Lost(x)'
             /\ \/ Lost(x)'
                \/ Stream(x)' = Stream(x)
                \/ Stream(x)' = <<>> /\ stage'[x] # "open"
             /\ Lost(x)' => Lost(x) \/ stage'[x] # "open"
  <2>1. Lost(x) => Lost(x)'
    BY <1>5, <1>6 DEF Lost
  <2>2. Lost(x)' => Lost(x) \/ stage'[x] # "open"
    BY <1>5, <1>6 DEF Lost, Sides
  <2>3. CASE x = s /\ ~Lost(x)'
    <3>1. x = "client" /\ partialData[x] = <<>> /\ stage'[x] # "open"
      BY <1>5, <1>6, <2>3 DEF Lost, Sides
    <3>2. partialData'[x] = <<>> /\ wire'[x] \in {wire[x], <<>>}
      BY <1>1, <1>2, <2>3 DEF PipesSound, PipesTyped
    <3>3. Stream(x)' = Stream(x) \/ Stream(x)' = <<>>
      BY <3>1, <3>2 DEF Stream
    <3> QED BY <2>1, <2>2, <3>1, <3>3
  <2>4. CASE x # s /\ Reads(x)
    <3>1. Stream(x)' = Stream(x)
      BY <1>1, <1>2, <2>4 DEF Stream, PipesSound, PipesTyped
    <3> QED BY <2>1, <2>2, <3>1
  <2>5. CASE x # s /\ ~Reads(x) /\ ~Lost(x)'
    <3>1. stage'[x] # "open" /\ stage'[x] = stage[x] /\ wire'[x] = <<>>
      BY <1>2, <1>5, <2>5 DEF Reads
    <3>2. partialData[x] = <<>>
      BY <1>5, <1>6, <2>5, <3>1 DEF Lost, Broken, PipesSound, Fresh, Sides
    <3>3. partialData'[x] = <<>>
      BY <1>1, <2>5, <3>2 DEF PipesSound, PipesTyped
    <3>4. Stream(x)' = <<>>
      BY <3>1, <3>3 DEF Stream
    <3> QED BY <2>1, <2>2, <3>1, <3>4
  <2> QED BY <2>1, <2>2, <2>3, <2>4, <2>5
<1>8. Straight'
  <2> SUFFICES ASSUME NEW x \in Sides, ~Lost(x)' PROVE Lines(Stream(x)')
    BY DEF Straight
  <2>1. ~Lost(x) /\ Lines(Stream(x))
    BY <1>7 DEF PipesSound, Straight
  <2>2. Stream(x)' = Stream(x) \/ Stream(x)' = <<>>
    BY <1>7
  <2> QED BY <2>1, <2>2, NoLine
<1>9. \A x \in Sides : Channels'[x] = Channels[x] \/ (Channels'[x] = <<>> /\ stage'[x] # "open")
  <2> SUFFICES ASSUME NEW x \in Sides
               PROVE  Channels'[x] = Channels[x] \/ (Channels'[x] = <<>> /\ stage'[x] # "open")
    OBVIOUS
  <2>1. Channels[x] = IF Lost(x) THEN <<>> ELSE MessagesIn(Stream(x))
    BY DEF Channels
  <2>2. Channels'[x] = IF Lost(x)' THEN <<>> ELSE MessagesIn(Stream(x)')
    BY DEF Channels
  <2> QED BY <1>7, <2>1, <2>2, NoMessages
<1>10. Link!Loses
  BY <1>5, <1>6, <1>9, LosesIf
<1>11. LinesArriveWhole'
  BY <1>1 DEF PipesSound, LinesArriveWhole
<1> QED BY <1>1, <1>3, <1>4, <1>8, <1>10, <1>11 DEF PipesSound

(* Another client starts with an empty buffer.                             *)
LEMMA StartKeeps ==
    ASSUME PipesSound, ClientStarts
    PROVE  /\ PipesSound' /\ Channels' = Channels /\ Present' = Present /\ Broken' = Broken
           /\ ~Present["client"] /\ UNCHANGED torn
<1>1. /\ stage["client"] = "gone" /\ stage' = [stage EXCEPT !["client"] = "start"]
      /\ UNCHANGED <<wire, partialData, torn, halfRead>>
  BY DEF ClientStarts, Stage
<1>2. \A x \in Sides : \/ stage'[x] = stage[x]
                       \/ stage[x] = "gone" /\ stage'[x] = "start" /\ x = "client"
  BY <1>1 DEF PipesSound, PipesTyped
<1>3. PipesTyped' /\ LinesArriveWhole'
  BY <1>1 DEF PipesSound, PipesTyped, Stages, LinesArriveWhole
<1>4. Fresh'
  BY <1>1 DEF PipesSound, PipesTyped, Fresh
<1>5. Broken' = Broken /\ Present' = Present /\ ~Present["client"]
  BY <1>1, <1>2 DEF Broken, Present, Sides
<1>6. \A x \in Sides : (Lost(x)' <=> Lost(x)) /\ Stream(x)' = Stream(x)
  BY <1>1, <1>2, <1>5 DEF Lost, Stream
<1>7. Straight'
  BY <1>6 DEF PipesSound, Straight
<1>8. Channels' = Channels
  BY <1>6 DEF Channels
<1> QED BY <1>1, <1>3, <1>4, <1>5, <1>7, <1>8 DEF PipesSound

(* Nothing changes what is on its way but the steps above.                 *)
LEMMA PipesIdle ==
    ASSUME PipesSound, UNCHANGED fifoVars
    PROVE  /\ PipesSound' /\ UNCHANGED torn
           /\ Channels' = Channels /\ Present' = Present /\ Broken' = Broken
BY DEF fifoVars, PipesSound, PipesTyped, Fresh, Straight, Stream, Lost, Broken, Channels,
       Present, LinesArriveWhole

(* The same of sendMessage() of the proxy, connected or not.               *)
LEMMA ProxySendKeeps ==
    ASSUME PipesSound, NEW s \in Sides, NEW m \in Messages, ProxySend(s, m)
    PROVE  PipesSound' /\ Link!SendTo(Other(s), m) /\ UNCHANGED torn
<1>1. CASE SendMessage(s, m)
  BY <1>1, SendKeeps
<1>2. CASE UNCHANGED fifoVars
  <2>1. Link!Loses
    BY <1>2, PipesIdle, LosesIf DEF fifoVars
  <2> QED BY <1>2, <2>1, PipesIdle DEF Link!SendTo
<1> QED BY <1>1, <1>2 DEF ProxySend

(* The programs write no other messages than these.                        *)
LEMMA MessagesTyped ==
    /\ \A x \in States : \A t \in {"PONG", "COMMAND", "CURRENT_STATE"} : Msg(t, x) \in Messages
    /\ \A t \in {"PING", "GET_STATUS", "SYSTEM"} : Msg(t, Nothing) \in Messages
    /\ \A m \in Messages : /\ m.type \in {"PONG", "COMMAND", "CURRENT_STATE"} => m.state \in States
                           /\ m.state \in States \cup {Nothing}
BY DEF Msg, Messages

RemoteInv == PipesSound /\ StatesTyped

LEMMA RemoteStarts == RemoteInit => RemoteInv /\ Link!Init
<1> SUFFICES ASSUME RemoteInit PROVE RemoteInv /\ Link!Init
  OBVIOUS
<1>1. PipesTyped /\ Fresh /\ LinesArriveWhole
  BY NoLine DEF RemoteInit, FifoInit, PipesTyped, Fresh, Stages, LinesArriveWhole
<1>2. \A s \in Sides : Stream(s) = <<>>
  BY NoLine DEF RemoteInit, FifoInit, Stream
<1>3. Straight
  BY <1>2, NoLine DEF Straight
<1>4. StatesTyped
  BY RemoteAssumption DEF RemoteInit, StatesTyped
<1>5. Channels = [s \in Sides |-> <<>>] /\ Present = [s \in Sides |-> FALSE]
  <2>1. \A s \in Sides : MessagesIn(Stream(s)) = <<>>
    BY <1>2, NoMessages
  <2>2. \A s \in Sides : stage[s] # "open"
    BY DEF RemoteInit, FifoInit
  <2> QED BY <2>1, <2>2 DEF Channels, Present
<1>6. ~Broken
  BY DEF RemoteInit, FifoInit, Broken, Sides
<1> QED BY <1>1, <1>3, <1>4, <1>5, <1>6
        DEF RemoteInv, PipesSound, RemoteInit, FifoInit, Link!Init, Link!Sides, Sides,
            Link!Nothing, Nothing

(* Every step of either process keeps the invariant, and is one of the     *)
(* link, or none.                                                          *)
LEMMA RemoteStep ==
    ASSUME RemoteInv, [RemoteNext]_remoteVars
    PROVE  RemoteInv' /\ [Link!Next]_Link!linkVars
<1> USE DEF RemoteInv
<1> DEFINE Same == UNCHANGED <<serverVars, currentState>>
           SameLink == Channels' = Channels /\ Present' = Present /\ Broken' = Broken
<1>0. /\ "client" \in Sides /\ "server" \in Sides
      /\ Other("client") = "server" /\ Other("server") = "client"
  BY DEF Sides, Other
<1>1. ASSUME Same PROVE StatesTyped'
  BY <1>1 DEF serverVars, StatesTyped
<1>2. ASSUME UNCHANGED fifoVars, Same PROVE RemoteInv' /\ [Link!Next]_Link!linkVars
  BY <1>1, <1>2, PipesIdle DEF serverVars, Link!linkVars
<1>3. CASE UNCHANGED remoteVars
  BY <1>2, <1>3 DEF remoteVars, clientVars
<1>4. CASE Connects
  <2>1. Same /\ UNCHANGED torn
    BY <1>4 DEF Connects, clientVars, Opening, Retry, Create, OpenFirst, OpenSecond, Opens
  <2>2. PipesSound' /\ (Link!Loses \/ \E s \in Sides : /\ Present' = [Present EXCEPT ![s] = TRUE]
                                                       /\ Channels' = Channels /\ Broken' = Broken)
    BY <1>4, OpeningKeeps DEF Connects
  <2>3. Link!Ends \/ \E s \in Link!Sides : Link!Comes(s)
    BY <2>1, <2>2 DEF serverVars, Link!Ends, Link!Comes, Link!systemVars, Link!Sides, Sides
  <2> QED BY <1>1, <2>1, <2>2, <2>3 DEF Link!Next
<1>5. CASE \E s \in Sides : ProxyConnects(s)
  BY <1>2, <1>5 DEF ProxyConnects
<1>6. CASE ServerAnswers
  <2>1. Msg("PONG", answer) \in Messages
    BY <1>6, MessagesTyped DEF ServerAnswers, StatesTyped
  <2>2. PipesSound' /\ Link!SendTo("client", Msg("PONG", answer)) /\ UNCHANGED torn
    BY <1>0, <1>6, <2>1, ProxySendKeeps DEF ServerAnswers
  <2>3. StatesTyped'
    BY <1>6 DEF ServerAnswers, clientVars, StatesTyped
  <2>4. Link!ServerAnswers
    BY <1>6, <2>2 DEF ServerAnswers, clientVars, Link!ServerAnswers, Link!Msg, Msg,
                      Link!Nothing, Nothing
  <2> QED BY <2>2, <2>3, <2>4 DEF Link!Next
<1>7. ASSUME NEW n, ServerReceives(n) PROVE RemoteInv' /\ [Link!Next]_Link!linkVars
  <2>1. PICK f : f = FirstLine("server", n)
    OBVIOUS
  <2>2. ReceiveMessage("server", n) /\ answer = Nothing /\ UNCHANGED <<sysState, currentState>>
        /\ IF f = <<>> THEN UNCHANGED <<answer, todo>>
           ELSE IF f[1][1].type = "PING" THEN answer' = sysState /\ UNCHANGED todo
           ELSE todo' = todo \cup {f[1][1]} /\ UNCHANGED answer
    BY <1>7, <2>1 DEF ServerReceives, clientVars
  <2>3. ~Lost("server")
    BY <2>2 DEF ReceiveMessage, Receives, Lost
  <2>4. /\ PipesSound' /\ UNCHANGED torn
        /\ f = <<>> => SameLink
        /\ f # <<>> => /\ f[1][1] \in Messages /\ Link!Takes("server")
                       /\ Head(Channels["server"]) = f[1][1]
    BY <1>0, <2>1, <2>2, <2>3, ReceiveKeeps
  <2>5. StatesTyped'
    BY <2>2, <2>4 DEF StatesTyped
  <2>6. CASE f = <<>>
    BY <2>2, <2>4, <2>5, <2>6 DEF Link!linkVars
  <2>7. CASE f # <<>>
    <3>1. Link!ServerTakes
      BY <2>2, <2>4, <2>7 DEF Link!ServerTakes, Link!Nothing, Nothing
    <3> QED BY <2>4, <2>5, <3>1 DEF Link!Next
  <2> QED BY <2>6, <2>7
<1>8. ASSUME NEW m \in todo, ServerWorks(m) PROVE RemoteInv' /\ [Link!Next]_Link!linkVars
  <2> DEFINE reply == IF m.type = "COMMAND" THEN Msg("SYSTEM", Nothing)
                      ELSE Msg("CURRENT_STATE", sysState)
  <2>1. m \in Messages /\ reply \in Messages
    BY MessagesTyped DEF StatesTyped
  <2>2. PipesSound' /\ Link!SendTo("client", reply) /\ UNCHANGED torn
    BY <1>0, <1>8, <2>1, ProxySendKeeps DEF ServerWorks
  <2>3. StatesTyped'
    BY <1>8, <2>1, MessagesTyped DEF ServerWorks, clientVars, StatesTyped
  <2>4. Link!ServerWorks(m)
    BY <1>8, <2>2 DEF ServerWorks, clientVars, Link!ServerWorks, Link!Msg, Msg, Link!Nothing,
                      Nothing
  <2> QED BY <2>2, <2>3, <2>4 DEF Link!Next
<1>9. ASSUME NEW n, ClientReceives(n) PROVE RemoteInv' /\ [Link!Next]_Link!linkVars
  <2>1. PICK f : f = FirstLine("client", n)
    OBVIOUS
  <2>2. /\ ReceiveMessage("client", n) /\ UNCHANGED serverVars
        /\ IF f = <<>> THEN UNCHANGED currentState
           ELSE IF Whole(f) THEN Handle(f[1][1])
           ELSE UNCHANGED currentState
    BY <1>9, <2>1 DEF ClientReceives
  <2>3. /\ PipesSound' /\ Present' = Present /\ Broken' = Broken /\ (torn => torn')
        /\ f # <<>> => f[1][1] \in Messages
        /\ f = <<>> \/ Lost("client") => Channels' = Channels
        /\ f = <<>> \/ ~Lost("client") => torn' = torn
        /\ f # <<>> /\ ~Lost("client")
           => Link!Takes("client") /\ Head(Channels["client"]) = f[1][1] /\ Whole(f)
    BY <1>0, <2>1, <2>2, ReceiveKeeps
  <2>4. currentState' \in States \cup {Nothing}
    BY <2>2, <2>3, MessagesTyped DEF Handle, StatesTyped
  <2>5. StatesTyped'
    BY <2>2, <2>4 DEF serverVars, StatesTyped
  <2>6. CASE f = <<>>
    BY <2>2, <2>3, <2>5, <2>6 DEF serverVars, Link!linkVars
  <2>7. CASE f # <<>> /\ Lost("client")
    <3>1. Broken /\ Present["client"]
      BY <1>0, <2>2, <2>7 DEF Lost, Present, ReceiveMessage, Receives
    <3>2. Link!ClientMisled
      BY <2>2, <2>3, <2>4, <2>7, <3>1
         DEF serverVars, Link!ClientMisled, Link!systemVars, Link!Nothing, Nothing
    <3> QED BY <2>3, <2>5, <3>2 DEF Link!Next
  <2>8. CASE f # <<>> /\ ~Lost("client")
    <3>1. Handle(f[1][1])
      BY <2>2, <2>3, <2>8
    <3>2. Link!ClientTakes
      BY <2>2, <2>3, <2>8, <3>1 DEF serverVars, Handle, Link!ClientTakes, Link!systemVars
    <3> QED BY <2>3, <2>5, <3>2 DEF Link!Next
  <2> QED BY <2>6, <2>7, <2>8
<1>10. ASSUME NEW m \in Messages, m \in Link!Requests, ProxySend("client", m), Same
       PROVE  RemoteInv' /\ [Link!Next]_Link!linkVars
  <2>1. PipesSound' /\ Link!SendTo("server", m) /\ UNCHANGED torn
    BY <1>0, <1>10, ProxySendKeeps
  <2>2. Link!ClientSends
    BY <1>10, <2>1 DEF serverVars, Link!ClientSends, Link!systemVars
  <2> QED BY <1>1, <1>10, <2>1, <2>2 DEF Link!Next
<1>11. CASE SendHeartbeat
  <2>1. Msg("PING", Nothing) \in Messages /\ Msg("PING", Nothing) \in Link!Requests
    BY MessagesTyped DEF Link!Requests, Link!Msg, Msg, Link!Nothing, Nothing
  <2> QED BY <1>10, <1>11, <2>1 DEF SendHeartbeat
<1>12. ASSUME NEW m \in Messages, m \in Link!Requests, SendCommand(m)
       PROVE  RemoteInv' /\ [Link!Next]_Link!linkVars
  BY <1>2, <1>10, <1>12 DEF SendCommand
<1>13. CASE Greets
  <2>1. Msg("GET_STATUS", Nothing) \in Messages /\ Msg("GET_STATUS", Nothing) \in Link!Requests
    BY MessagesTyped DEF Link!Requests, Link!Msg, Msg, Link!Nothing, Nothing
  <2> QED BY <1>12, <1>13, <2>1 DEF Greets
<1>14. ASSUME NEW c \in Commanded, UserCommands(c) PROVE RemoteInv' /\ [Link!Next]_Link!linkVars
  <2>1. Msg("COMMAND", c) \in Messages /\ Msg("COMMAND", c) \in Link!Requests
    BY MessagesTyped, RemoteAssumption DEF Link!Requests, Link!Msg, Msg
  <2> QED BY <1>12, <1>14, <2>1 DEF UserCommands
<1>15. CASE CheckConnection
  BY <1>2, <1>15 DEF CheckConnection
<1>16. ASSUME NEW s \in Sides, ProcessEnds(s) PROVE RemoteInv' /\ [Link!Next]_Link!linkVars
  <2>1. PipesSound' /\ Link!Loses /\ UNCHANGED torn
    BY <1>16, LeaveKeeps DEF ProcessEnds
  <2>2. Link!Ends
    BY <1>16, <2>1 DEF ProcessEnds, serverVars, clientVars, Link!Ends, Link!systemVars
  <2> QED BY <1>1, <1>16, <2>1, <2>2 DEF ProcessEnds, clientVars, Link!Next
<1>17. CASE ClientStarts
  <2>1. PipesSound' /\ SameLink /\ ~Present["client"] /\ UNCHANGED torn
    BY <1>17, StartKeeps
  <2>2. StatesTyped'
    BY <1>17 DEF ClientStarts, serverVars, StatesTyped
  <2>3. Link!ClientStarts
    BY <1>17, <2>1 DEF ClientStarts, serverVars, Link!ClientStarts, Link!systemVars,
                       Link!Nothing, Nothing
  <2> QED BY <2>1, <2>2, <2>3 DEF Link!Next
<1> QED BY <1>3, <1>4, <1>5, <1>6, <1>7, <1>8, <1>9, <1>11, <1>13, <1>14, <1>15, <1>16, <1>17
        DEF RemoteNext, ServerRuns, ServerPool, ClientRuns

(* What the pipes are to the two programs: each takes the other's messages *)
(* whole, once and in the order they were sent, and loses none while it is *)
(* there, until a client goes with half a line (FifoComm.cpp 252-356).     *)
THEOREM PipesAreALink == RemoteSpec => RefinesRemoteLink
<1>1. RemoteInv /\ [RemoteNext]_remoteVars => RemoteInv' /\ [Link!Next]_Link!linkVars
  BY RemoteStep
<1> QED BY <1>1, RemoteStarts, PTL DEF RemoteSpec, RefinesRemoteLink, Link!Spec

(* In particular: however the pipes are read, opened, filled and left, a   *)
(* side is given a line that is not one only after a client went away with *)
(* the beginning of it in its buffer (FifoComm.cpp 304-356).               *)
THEOREM NoTornLine == RemoteSpec => []LinesArriveWhole
<1>1. RemoteInv /\ [RemoteNext]_remoteVars => RemoteInv'
  BY RemoteStep
<1>2. RemoteInv => LinesArriveWhole
  BY DEF RemoteInv, PipesSound
<1> QED BY <1>1, <1>2, RemoteStarts, PTL DEF RemoteSpec

-----------------------------------------------------------------------------
(* The pipes hold no more than they can, and the server gives up with the  *)
(* last of its tries.                                                      *)
Limits ==
    /\ retries \in 0..MAX_RETRIES /\ (retries = MAX_RETRIES => stage["server"] = "gone")
    /\ \A s \in Sides : Len(wire[s]) <= Capacity
    /\ linked \in [Sides -> BOOLEAN] /\ isConnected \in BOOLEAN /\ greeting \in BOOLEAN
    /\ events \in 0..MaxEvents

(* A write adds a line where there is room for one.                        *)
LEMMA SendFits ==
    ASSUME PipesSound, Limits, NEW s \in Sides, NEW m \in Messages, ProxySend(s, m)
    PROVE  /\ retries' = retries /\ (stage["server"] = "gone" => stage'["server"] = "gone")
           /\ \A x \in Sides : Len(wire'[x]) <= Capacity
           /\ linked' \in [Sides -> BOOLEAN]
<1>1. CASE ~linked[s]
  BY <1>1 DEF ProxySend, fifoVars, Limits
<1>2. CASE linked[s]
  <2>1. SendMessage(s, m) /\ linked' \in [Sides -> BOOLEAN]
    BY <1>2 DEF ProxySend, Limits, Sent, Reads
  <2>2. retries' = retries /\ (stage["server"] = "gone" => stage'["server"] = "gone")
    BY <2>1 DEF SendMessage, Stage, PipesSound, PipesTyped, Sides
  <2>3. CASE wire' = wire
    BY <2>1, <2>2, <2>3 DEF Limits
  <2>4. CASE ~Full(Other(s)) /\ wire' = [wire EXCEPT ![Other(s)] = @ \o Line(m)]
    <3>1. PICK o \in Sides : o = Other(s)
      BY DEF Other, Sides
    <3>2. PICK v : v = wire[o] \o Line(m)
      OBVIOUS
    <3>3. wire[o] \in Seq(Halves) /\ Len(wire[o]) + 2 <= Capacity
      BY <2>4, <3>1, RemoteAssumption DEF PipesSound, PipesTyped, Full
    <3>4. <<m, "head">> \in Halves /\ <<m, "tail">> \in Halves
      BY DEF Halves
    <3>5. Len(v) = Len(wire[o]) + 2
      BY <3>2, <3>3, <3>4 DEF Line
    <3>6. \A x \in Sides : wire'[x] = IF x = o THEN v ELSE wire[x]
      BY <2>4, <3>1, <3>2 DEF PipesSound, PipesTyped
    <3> QED BY <2>1, <2>2, <3>3, <3>5, <3>6 DEF Limits
  <2> QED BY <2>1, <2>3, <2>4 DEF SendMessage
<1> QED BY <1>1, <1>2

LEMMA ReceiveFits ==
    ASSUME PipesSound, Limits, NEW s \in Sides, NEW n, ReceiveMessage(s, n)
    PROVE  \A x \in Sides : Len(wire'[x]) <= Capacity
<1>1. PICK w : w = wire[s]
  OBVIOUS
<1>2. w \in Seq(Halves) /\ n \in 0..Len(w)
  BY <1>1 DEF PipesSound, PipesTyped, ReceiveMessage, Receives, Reading
<1>3. \A x \in Sides : wire'[x] = IF x = s THEN SubSeq(w, n + 1, Len(w)) ELSE wire[x]
  BY <1>1 DEF PipesSound, PipesTyped, ReceiveMessage, Receives
<1>4. Len(SubSeq(w, n + 1, Len(w))) = Len(w) - n /\ Len(w) \in Nat
  BY <1>2
<1>5. Len(SubSeq(w, n + 1, Len(w))) <= Capacity
  BY <1>1, <1>2, <1>4, RemoteAssumption DEF Limits
<1> QED BY <1>3, <1>5 DEF Limits

LEMMA LimitsKept ==
    ASSUME RemoteInv, Limits, [RemoteNext]_remoteVars
    PROVE  Limits'
<1> USE DEF RemoteInv, Limits
<1>0. "client" \in Sides /\ "server" \in Sides
  BY DEF Sides
<1>1. CASE UNCHANGED remoteVars
  BY <1>1 DEF remoteVars, fifoVars, clientVars
<1>2. CASE Connects
  <2>1. UNCHANGED <<wire, linked, isConnected, greeting, events>>
    BY <1>2 DEF Connects, clientVars, Opening, Retry, Create, OpenFirst, OpenSecond, Opens
  <2>2. stage["server"] = "gone" => stage'["server"] = "gone" /\ retries' = retries
    BY <1>2 DEF Connects, Opening, Retry, Create, OpenFirst, OpenSecond, Stage, Sides, Other,
                PipesSound, PipesTyped
  <2>3. retries' \in 0..MAX_RETRIES /\ (retries' = MAX_RETRIES => stage'["server"] = "gone")
    <3>1. CASE UNCHANGED retries
      BY <2>2, <3>1
    <3>2. CASE retries' = 0
      BY <3>2, RemoteAssumption
    <3>3. CASE OpenSecond("server") /\ retries' = retries + 1
      <4>1. stage["server"] # "gone"
            /\ stage' = [stage EXCEPT !["server"] = IF retries' = MAX_RETRIES THEN "gone"
                                                    ELSE "retry"]
        BY <3>3, RemoteAssumption DEF OpenSecond, Stage, PipesSound, PipesTyped
      <4>2. retries # MAX_RETRIES
        BY <4>1
      <4> QED BY <1>0, <3>3, <4>1, <4>2, RemoteAssumption DEF PipesSound, PipesTyped
    <3> QED BY <1>2, <3>1, <3>2, <3>3 DEF Connects, Opening, Retry, Create, OpenFirst,
                                          OpenSecond, Sides
  <2> QED BY <2>1, <2>3
<1>3. CASE \E s \in Sides : ProxyConnects(s)
  BY <1>3 DEF ProxyConnects, fifoVars
<1>4. CASE ServerAnswers
  <2>1. Msg("PONG", answer) \in Messages
    BY <1>4, MessagesTyped DEF ServerAnswers, StatesTyped
  <2> QED BY <1>0, <1>4, <2>1, SendFits DEF ServerAnswers, clientVars
<1>5. ASSUME NEW s \in Sides, NEW n, ReceiveMessage(s, n), linked' \in [Sides -> BOOLEAN],
             isConnected' \in BOOLEAN, UNCHANGED <<greeting, events>>
      PROVE  Limits'
  BY <1>5, ReceiveFits DEF ReceiveMessage, Receives
<1>6. ASSUME NEW n, ServerReceives(n) PROVE Limits'
  BY <1>0, <1>5, <1>6 DEF ServerReceives, clientVars
<1>7. ASSUME NEW m \in todo, ServerWorks(m) PROVE Limits'
  <2>1. Msg("SYSTEM", Nothing) \in Messages /\ Msg("CURRENT_STATE", sysState) \in Messages
    BY MessagesTyped DEF StatesTyped
  <2> QED BY <1>0, <1>7, <2>1, SendFits DEF ServerWorks, clientVars
<1>8. ASSUME NEW n, ClientReceives(n) PROVE Limits'
  BY <1>0, <1>5, <1>8 DEF ClientReceives, Handle
<1>9. CASE SendHeartbeat
  <2>1. Msg("PING", Nothing) \in Messages
    BY MessagesTyped
  <2> QED BY <1>0, <1>9, <2>1, SendFits DEF SendHeartbeat
<1>10. ASSUME NEW m \in Messages, SendCommand(m), greeting' \in BOOLEAN, events' \in 0..MaxEvents
       PROVE  Limits'
  <2>1. CASE isConnected
    BY <1>0, <1>10, <2>1, SendFits DEF SendCommand
  <2>2. CASE ~isConnected
    BY <1>10, <2>2 DEF SendCommand, fifoVars
  <2> QED BY <2>1, <2>2
<1>11. CASE Greets
  <2>1. Msg("GET_STATUS", Nothing) \in Messages
    BY MessagesTyped
  <2> QED BY <1>10, <1>11, <2>1 DEF Greets
<1>12. ASSUME NEW c \in Commanded, UserCommands(c) PROVE Limits'
  <2>1. Msg("COMMAND", c) \in Messages
    BY MessagesTyped, RemoteAssumption
  <2> QED BY <1>10, <1>12, <2>1, RemoteAssumption DEF UserCommands
<1>13. CASE CheckConnection
  BY <1>13 DEF CheckConnection, fifoVars
<1>14. ASSUME NEW s \in Sides, ProcessEnds(s) PROVE Limits'
  <2>1. \A x \in Sides : wire'[x] \in {wire[x], <<>>}
    BY <1>14 DEF ProcessEnds, Leave
  <2>2. stage' = [stage EXCEPT ![s] = "gone"] /\ UNCHANGED <<retries, linked, clientVars>>
    BY <1>14 DEF ProcessEnds, Leave, Stage
  <2>3. \A x \in Sides : Len(wire'[x]) <= Capacity
    BY <2>1, RemoteAssumption
  <2> QED BY <1>0, <2>2, <2>3 DEF clientVars, PipesSound, PipesTyped
<1>15. CASE ClientStarts
  <2>1. stage'["server"] = stage["server"] /\ UNCHANGED <<retries, wire>>
    BY <1>0, <1>15 DEF ClientStarts, Stage, PipesSound, PipesTyped
  <2>2. events' \in 0..MaxEvents
    BY <1>15, RemoteAssumption DEF ClientStarts
  <2>3. linked' \in [Sides -> BOOLEAN] /\ isConnected' \in BOOLEAN /\ greeting' \in BOOLEAN
    BY <1>15 DEF ClientStarts
  <2> QED BY <2>1, <2>2, <2>3
<1> QED BY <1>1, <1>2, <1>3, <1>4, <1>6, <1>7, <1>8, <1>9, <1>11, <1>12, <1>13, <1>14, <1>15
        DEF RemoteNext, ServerRuns, ServerPool, ClientRuns

LEMMA RemoteTypes == RemoteInv /\ Limits => RemoteTypeOK
BY DEF RemoteInv, PipesSound, PipesTyped, StatesTyped, Limits, RemoteTypeOK, FifoTypeOK

LEMMA LimitsStart == RemoteInit => Limits
<1> SUFFICES ASSUME RemoteInit PROVE Limits
  OBVIOUS
<1>1. \A s \in Sides : Len(wire[s]) <= Capacity
  BY RemoteAssumption DEF RemoteInit, FifoInit
<1>2. retries \in 0..MAX_RETRIES /\ retries # MAX_RETRIES /\ events \in 0..MaxEvents
  BY RemoteAssumption DEF RemoteInit, FifoInit
<1> QED BY <1>1, <1>2 DEF RemoteInit, Limits

(* The types of all of it: what is in a pipe fits into it, the tries are   *)
(* counted to their limit, and the client takes for the state of the       *)
(* system nothing but a state - also after it has lost its place in the    *)
(* lines.                                                                  *)
THEOREM RemoteTyped == RemoteSpec => []RemoteTypeOK
<1>1. RemoteInv /\ [RemoteNext]_remoteVars => RemoteInv'
  BY RemoteStep
<1>2. RemoteInv /\ Limits /\ [RemoteNext]_remoteVars => Limits'
  BY LimitsKept
<1> QED BY <1>1, <1>2, RemoteStarts, LimitsStart, RemoteTypes, PTL DEF RemoteSpec
=============================================================================
