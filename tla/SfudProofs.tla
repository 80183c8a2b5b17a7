----------------------------- MODULE SfudProofs -----------------------------
(***************************************************************************)
(* Proofs about the operations of the serial flash driver: for any number  *)
(* of threads, any calls, any sizes of chip, page and erasers.             *)
(***************************************************************************)
EXTENDS Sfud, FiniteSetTheorems, SequenceTheorems, TLAPS

Commands == {"read", "erase", "chipErase", "write", "eraseWrite"}
Labels == {"enter", "erased", "lock", "wren", "wrenStatus", "fill", "command", "busy", "data",
           "wrdi", "wrdiStatus", "head", "headDone", "tail", "tailDone", "abort",
           "abortStatus", "unlock"}
Frames == [fn : Commands \cup {"page", "aai"}, at : Labels, addr : Nat, size : 0 .. SizeMod - 1,
           from : Nat, gran : Nat \ {0}, retry : 0 .. RetryTimes, result : Results]

\* One function calls another only at two places of its text.
Nested(f, g) == \/ g.fn = "eraseWrite" /\ f.fn \in {"erase", "chipErase"}
                \/ g.fn = "aai" /\ f.fn = "page"

StackOK == /\ stack \in [Threads -> Seq(Frames)]
           /\ \A t \in Threads : \/ Len(stack[t]) <= 1
                                 \/ Len(stack[t]) = 2 /\ Nested(stack[t][1], stack[t][2])

\* What the cells are once the cycle under way, if any, has ended.
Finished == [b \in Cells |-> IF b \in work.cells THEN work.value[b] ELSE mem[b]]

ChipOK == /\ mem \in [Cells -> Int] /\ Finished \in [Cells -> Int]
          /\ wel \in BOOLEAN /\ aai \in Nat \cup {NotAai}

CallsOK == /\ call \in [Threads -> [fn : Commands, addr : Nat, size : 0 .. SizeMod - 1, version : Nat]]
           /\ answer \in [Threads -> Results \cup {"none"}]
           /\ before \in [Threads -> [Cells -> Int]]
           /\ DOMAIN got = Threads
           /\ cmd_data.addr \in Nat /\ cmd_data.bytes \in Seq(Int)
           /\ write_mode \in WriteModes /\ lock_ \in Threads \cup {Free}
           /\ calls \in 0 .. MaxCalls /\ faults \in 0 .. MaxFaults
           /\ deceived \in BOOLEAN /\ (deceived => faults < MaxFaults)

Types == StackOK /\ ChipOK /\ CallsOK

-----------------------------------------------------------------------------
\* Short sequences.
LEMMA OneElement ==
    ASSUME NEW S, NEW s \in Seq(S), Len(s) = 1
    PROVE  s # <<>> /\ Tail(s) = <<>>
  <1>1. s # <<>>
    BY EmptySeq
  <1>2. Tail(s) \in Seq(S) /\ Len(Tail(s)) = 0
    BY <1>1, HeadTailProperties
  <1>3. QED
    BY <1>1, <1>2, EmptySeq

LEMMA TwoElements ==
    ASSUME NEW S, NEW s \in Seq(S), Len(s) = 2
    PROVE  s # <<>> /\ Tail(s) = << s[2] >> /\ s[2] \in S
  <1>1. s # <<>>
    BY EmptySeq
  <1>2. Tail(s) \in Seq(S) /\ Len(Tail(s)) = 1 /\ Tail(s)[1] = s[2]
    BY <1>1, HeadTailProperties
  <1>3. s[2] \in S
    OBVIOUS
  <1>4. << s[2] >> \in Seq(S) /\ Len(<< s[2] >>) = 1 /\ << s[2] >>[1] = s[2]
    BY <1>3
  <1> DEFINE r == Tail(s)
             q == << s[2] >>
  <1>5. r \in Seq(S) /\ q \in Seq(S) /\ Len(r) = 1 /\ Len(q) = 1 /\ r[1] = q[1]
    BY <1>2, <1>4
  <1> HIDE DEF r, q
  <1>6. \A i \in 1 .. Len(r) : r[i] = q[i]
    BY <1>5
  <1>7. r = q
    BY <1>5, <1>6, SeqEqual
  <1>8. QED
    BY <1>1, <1>3, <1>7 DEF r, q

LEMMA OneBeforeNone ==
    ASSUME NEW S, NEW f \in S
    PROVE  << f >> \o <<>> = << f >>
  BY ConcatEmptySeq

\* What the helpers make of the stack.
LEMMA TopIsThere ==
    ASSUME StackOK, NEW t \in Threads, stack[t] # <<>>
    PROVE  /\ Top(t) \in Frames /\ Tail(stack[t]) \in Seq(Frames)
           /\ stack[t] = << Top(t) >> \o Tail(stack[t])
           /\ \/ Len(stack[t]) = 1 /\ Tail(stack[t]) = <<>>
              \/ /\ Len(stack[t]) = 2 /\ Tail(stack[t]) = << stack[t][2] >>
                 /\ stack[t][2] \in Frames /\ Nested(Top(t), stack[t][2])
           /\ Len(stack[t]) = 2 => Nested(Top(t), stack[t][2])
  <1> DEFINE s == stack[t]
  <1>1. s \in Seq(Frames) /\ s # <<>>
    BY DEF StackOK
  <1>2. Len(s) <= 1 \/ (Len(s) = 2 /\ Nested(s[1], s[2]))
    BY DEF StackOK
  <1> HIDE DEF s
  <1>3. Head(s) \in Frames /\ Tail(s) \in Seq(Frames) /\ Head(s) = s[1] /\ Len(s) > 0
        /\ Len(Tail(s)) = Len(s) - 1
    BY <1>1
  <1>4. s = << Head(s) >> \o Tail(s)
    BY <1>1
  <1>5. CASE Len(s) = 1
    <2>1. Tail(s) = <<>>
      BY <1>1, <1>5, OneElement
    <2>2. QED
      BY <1>3, <1>4, <1>5, <2>1 DEF s, Top
  <1>6. CASE Len(s) = 2
    <2>1. s[2] \in Frames /\ Tail(s) = << s[2] >>
      BY <1>1, <1>6, TwoElements
    <2>2. QED
      BY <1>2, <1>3, <1>4, <1>6, <2>1 DEF s, Top
  <1>7. QED
    BY <1>1, <1>2, <1>3, <1>5, <1>6

LEMMA TopSet ==
    ASSUME StackOK, NEW t \in Threads, stack[t] # <<>>, NEW f \in Frames, SetTop(t, f)
    PROVE  /\ stack' \in [Threads -> Seq(Frames)]
           /\ stack'[t] # <<>> /\ Len(stack'[t]) = Len(stack[t])
           /\ Top(t)' = f /\ Tail(stack'[t]) = Tail(stack[t])
           /\ Len(stack[t]) = 2 => stack'[t][2] = stack[t][2]
           /\ stack'[t][1] = f
           /\ \A u \in Threads : u # t => stack'[u] = stack[u]
  <1> DEFINE r == Tail(stack[t])
             s == << f >> \o r
  <1>1. r \in Seq(Frames) /\ Len(stack[t]) = Len(r) + 1 /\ (Len(stack[t]) = 2 => r[1] = stack[t][2])
    <2>1. stack[t] \in Seq(Frames)
      BY DEF StackOK
    <2>2. QED
      BY <2>1
  <1> HIDE DEF r
  <1>2. s \in Seq(Frames) /\ s # <<>> /\ Len(s) = Len(r) + 1 /\ Head(s) = f /\ Tail(s) = r
        /\ s[1] = f /\ (Len(r) = 1 => s[2] = r[1])
    BY <1>1
  <1> HIDE DEF s
  <1>3. stack' = [stack EXCEPT ![t] = s]
    BY DEF SetTop, s, r
  <1>4. stack \in [Threads -> Seq(Frames)]
    BY DEF StackOK
  <1>5. stack' \in [Threads -> Seq(Frames)] /\ stack'[t] = s
        /\ \A u \in Threads : u # t => stack'[u] = stack[u]
    BY <1>2, <1>3, <1>4
  <1>6. QED
    BY <1>1, <1>2, <1>5 DEF r, Top

LEMMA Pushed ==
    ASSUME StackOK, NEW t \in Threads, stack[t] # <<>>, Len(stack[t]) = 1,
           NEW f \in Frames, NEW l \in Labels, Push(t, f, l)
    PROVE  /\ stack' \in [Threads -> Seq(Frames)]
           /\ stack'[t] = << f, [Top(t) EXCEPT !.at = l] >>
           /\ stack'[t] # <<>> /\ Len(stack'[t]) = 2 /\ Top(t)' = f
           /\ stack'[t][1] = f /\ stack'[t][2] = [Top(t) EXCEPT !.at = l]
           /\ \A u \in Threads : u # t => stack'[u] = stack[u]
  <1> DEFINE g == [Top(t) EXCEPT !.at = l]
             s == << f, g >>
  <1>1. Top(t) \in Frames /\ Tail(stack[t]) = <<>>
    <2>1. stack[t] \in Seq(Frames)
      BY DEF StackOK
    <2>2. QED
      BY <2>1, OneElement, TopIsThere
  <1>2. g \in Frames
    BY <1>1 DEF Frames
  <1>3. stack' = [stack EXCEPT ![t] = << f, g >> \o Tail(stack[t])]
    BY DEF Push
  <1> HIDE DEF g
  <1>4. << f, g >> \o Tail(stack[t]) = s
    <2>1. << f, g >> \in Seq(Frames) /\ << f, g >> \o <<>> = << f, g >>
      BY <1>2, ConcatEmptySeq
    <2>2. QED
      BY <1>1, <2>1
  <1>5. s \in Seq(Frames) /\ s # <<>> /\ Len(s) = 2 /\ Head(s) = f /\ s[1] = f /\ s[2] = g
    BY <1>2
  <1> HIDE DEF s
  <1>6. stack \in [Threads -> Seq(Frames)]
    BY DEF StackOK
  <1>7. stack' = [stack EXCEPT ![t] = s]
    BY <1>3, <1>4
  <1>8. stack' \in [Threads -> Seq(Frames)] /\ stack'[t] = s
        /\ \A u \in Threads : u # t => stack'[u] = stack[u]
    BY <1>5, <1>6, <1>7
  <1>9. QED
    BY <1>5, <1>8 DEF g, s, Top

LEMMA ReturnsTo ==
    ASSUME StackOK, NEW t \in Threads, stack[t] # <<>>, NEW r \in Results, Return(t, r)
    PROVE  /\ stack' \in [Threads -> Seq(Frames)]
           /\ \/ /\ Len(stack[t]) = 1 /\ stack'[t] = <<>>
                 /\ answer' = [answer EXCEPT ![t] = r]
              \/ /\ Len(stack[t]) = 2 /\ Nested(Top(t), stack[t][2]) /\ stack[t][2] \in Frames
                 /\ stack'[t] = << [stack[t][2] EXCEPT !.result = r] >>
                 /\ stack'[t] # <<>> /\ Len(stack'[t]) = 1
                 /\ Top(t)' = [stack[t][2] EXCEPT !.result = r]
                 /\ UNCHANGED answer
           /\ \A u \in Threads : u # t => stack'[u] = stack[u]
  <1>1. stack \in [Threads -> Seq(Frames)]
    BY DEF StackOK
  <1>2. CASE Len(stack[t]) = 1
    <2>1. stack' = [stack EXCEPT ![t] = <<>>] /\ answer' = [answer EXCEPT ![t] = r]
      BY <1>2 DEF Return
    <2>2. <<>> \in Seq(Frames)
      OBVIOUS
    <2>3. QED
      BY <1>1, <1>2, <2>1, <2>2
  <1>3. CASE Len(stack[t]) # 1
    <2>1. /\ Len(stack[t]) = 2 /\ stack[t][2] \in Frames /\ Nested(Top(t), stack[t][2])
          /\ Tail(stack[t]) = << stack[t][2] >>
      BY <1>3, TopIsThere
    <2> DEFINE g == [stack[t][2] EXCEPT !.result = r]
               s == << g >>
    <2>2. g \in Frames
      BY <2>1 DEF Frames
    <2>3. stack' = [stack EXCEPT ![t] = << g >> \o Tail(Tail(stack[t]))] /\ UNCHANGED answer
      BY <1>3 DEF Return
    <2> HIDE DEF g
    <2>4. << g >> \o Tail(Tail(stack[t])) = s
      <3> DEFINE h == stack[t][2]
      <3>1. << h >> \in Seq(Frames) /\ Len(<< h >>) = 1
        BY <2>1
      <3> HIDE DEF h
      <3>2. Tail(<< h >>) = <<>>
        BY <3>1, OneElement
      <3>3. << g >> \o <<>> = << g >>
        BY <2>2, OneBeforeNone
      <3>4. QED
        BY <2>1, <3>2, <3>3 DEF h
    <2>5. s \in Seq(Frames) /\ s # <<>> /\ Len(s) = 1 /\ Head(s) = g
      BY <2>2
    <2> HIDE DEF s
    <2>6. stack' = [stack EXCEPT ![t] = s]
      BY <2>3, <2>4
    <2>7. stack' \in [Threads -> Seq(Frames)] /\ stack'[t] = s
          /\ \A u \in Threads : u # t => stack'[u] = stack[u]
      BY <1>1, <2>5, <2>6
    <2>8. QED
      BY <2>1, <2>3, <2>5, <2>7 DEF g, s, Top
  <1>4. QED
    BY <1>2, <1>3


\* A step inside a function, a call and a return keep the stack's shape.
LEMMA SetKeepsShape ==
    ASSUME StackOK, NEW t \in Threads, stack[t] # <<>>, NEW f \in Frames, SetTop(t, f),
           Len(stack[t]) = 2 => Nested(f, stack[t][2])
    PROVE  StackOK'
  <1>1. /\ stack' \in [Threads -> Seq(Frames)] /\ Len(stack'[t]) = Len(stack[t])
        /\ stack'[t][1] = f /\ (Len(stack[t]) = 2 => stack'[t][2] = stack[t][2])
        /\ \A u \in Threads : u # t => stack'[u] = stack[u]
    BY TopSet
  <1>2. Len(stack[t]) <= 1 \/ Len(stack[t]) = 2
    BY DEF StackOK
  <1>3. ASSUME NEW u \in Threads
        PROVE  Len(stack'[u]) <= 1 \/ (Len(stack'[u]) = 2 /\ Nested(stack'[u][1], stack'[u][2]))
    <2>1. CASE u = t
      BY <1>1, <1>2, <2>1
    <2>2. CASE u # t
      <3>1. stack'[u] = stack[u]
        BY <1>1, <2>2
      <3>2. QED
        BY <3>1 DEF StackOK
    <2>3. QED
      BY <2>1, <2>2
  <1>4. QED
    BY <1>1, <1>3 DEF StackOK

LEMMA PushKeepsShape ==
    ASSUME StackOK, NEW t \in Threads, stack[t] # <<>>, Len(stack[t]) = 1,
           NEW f \in Frames, NEW l \in Labels, Push(t, f, l), Nested(f, Top(t))
    PROVE  StackOK'
  <1>1. /\ stack' \in [Threads -> Seq(Frames)] /\ Len(stack'[t]) = 2
        /\ stack'[t][1] = f /\ stack'[t][2] = [Top(t) EXCEPT !.at = l]
        /\ \A u \in Threads : u # t => stack'[u] = stack[u]
    BY Pushed
  <1>2. Top(t) \in Frames
    BY TopIsThere
  <1>3. stack'[t][2].fn = Top(t).fn
    BY <1>1, <1>2 DEF Frames
  <1>4. Nested(stack'[t][1], stack'[t][2])
    BY <1>1, <1>3 DEF Nested
  <1>5. ASSUME NEW u \in Threads
        PROVE  Len(stack'[u]) <= 1 \/ (Len(stack'[u]) = 2 /\ Nested(stack'[u][1], stack'[u][2]))
    <2>1. CASE u = t
      BY <1>1, <1>4, <2>1
    <2>2. CASE u # t
      <3>1. stack'[u] = stack[u]
        BY <1>1, <2>2
      <3>2. QED
        BY <3>1 DEF StackOK
    <2>3. QED
      BY <2>1, <2>2
  <1>6. QED
    BY <1>1, <1>5 DEF StackOK

LEMMA ReturnKeepsShape ==
    ASSUME StackOK, NEW t \in Threads, stack[t] # <<>>, NEW r \in Results, Return(t, r),
           answer \in [Threads -> Results \cup {"none"}]
    PROVE  StackOK' /\ answer' \in [Threads -> Results \cup {"none"}]
  <1>1. /\ stack' \in [Threads -> Seq(Frames)]
        /\ stack'[t] = <<>> \/ Len(stack'[t]) = 1
        /\ \A u \in Threads : u # t => stack'[u] = stack[u]
        /\ answer' = [answer EXCEPT ![t] = r] \/ UNCHANGED answer
    BY ReturnsTo
  <1>2. ASSUME NEW u \in Threads
        PROVE  Len(stack'[u]) <= 1 \/ (Len(stack'[u]) = 2 /\ Nested(stack'[u][1], stack'[u][2]))
    <2>1. CASE u = t
      BY <1>1, <2>1
    <2>2. CASE u # t
      <3>1. stack'[u] = stack[u]
        BY <1>1, <2>2
      <3>2. QED
        BY <3>1 DEF StackOK
    <2>3. QED
      BY <2>1, <2>2
  <1>3. answer' \in [Threads -> Results \cup {"none"}]
    BY <1>1
  <1>4. QED
    BY <1>1, <1>2, <1>3 DEF StackOK

-----------------------------------------------------------------------------
\* What the helpers make of a frame.
LEMMA Moved ==
    ASSUME NEW f \in Frames, NEW l \in Labels
    PROVE  /\ [f EXCEPT !.at = l] \in Frames
           /\ [f EXCEPT !.at = l].at = l /\ [f EXCEPT !.at = l].fn = f.fn
           /\ [f EXCEPT !.at = l].addr = f.addr /\ [f EXCEPT !.at = l].size = f.size
           /\ [f EXCEPT !.at = l].from = f.from /\ [f EXCEPT !.at = l].gran = f.gran
           /\ [f EXCEPT !.at = l].result = f.result
  BY DEF Frames

LEMMA GivenUp ==
    ASSUME NEW f \in Frames, NEW l \in Labels, NEW r \in Results
    PROVE  /\ [f EXCEPT !.at = l, !.result = r] \in Frames
           /\ [f EXCEPT !.at = l, !.result = r].at = l
           /\ [f EXCEPT !.at = l, !.result = r].fn = f.fn
           /\ [f EXCEPT !.at = l, !.result = r].result = r
  BY DEF Frames

LEMMA Advanced ==
    ASSUME NEW f \in Frames, NEW n \in Nat
    PROVE  LET g == Advance(f, n)
           IN  /\ g \in Frames
               /\ g.fn = f.fn /\ g.at = f.at /\ g.gran = f.gran /\ g.result = f.result
               /\ g.addr = f.addr + n /\ g.from = f.from + n
               /\ n <= f.size => g.size = f.size - n
  <1> DEFINE m == (f.size - n + SizeMod) % SizeMod
             g == [f EXCEPT !.addr = @ + n, !.from = @ + n, !.size = m]
  <1>1. f.size \in 0 .. SizeMod - 1 /\ f.addr \in Nat /\ f.from \in Nat
    BY DEF Frames
  <1>2. SizeMod \in Nat /\ SizeMod > 0
    BY <1>1, SfudAssumption
  <1>3. m \in 0 .. SizeMod - 1
    BY <1>1, <1>2
  <1>4. n <= f.size => m = f.size - n
    <2> SUFFICES ASSUME n <= f.size PROVE m = f.size - n
      OBVIOUS
    <2>1. PICK z \in 0 .. SizeMod - 1 : z = f.size
      BY <1>1
    <2>2. PICK k \in 0 .. SizeMod - 1 : k = z - n
      BY <1>2, <2>1
    <2>3. (k + SizeMod) % SizeMod = k
      BY <1>2, SMT
    <2>4. QED
      BY <2>1, <2>2, <2>3
  <1> HIDE DEF m
  <1>5. /\ g \in Frames
        /\ g.fn = f.fn /\ g.at = f.at /\ g.gran = f.gran /\ g.result = f.result
        /\ g.addr = f.addr + n /\ g.from = f.from + n /\ g.size = m
    <2>1. PICK a \in Nat, b \in Nat, c \in 0 .. SizeMod - 1 : a = f.addr + n /\ b = f.from + n /\ c = m
      BY <1>1, <1>3
    <2>2. g = [f EXCEPT !.addr = a, !.from = b, !.size = c]
      BY <2>1
    <2> HIDE DEF g
    <2>3. /\ g \in Frames
          /\ g.fn = f.fn /\ g.at = f.at /\ g.gran = f.gran /\ g.result = f.result
          /\ g.addr = a /\ g.from = b /\ g.size = c
      BY <2>2 DEF Frames
    <2>4. QED
      BY <2>1, <2>3
  <1>6. Advance(f, n) = g
    BY DEF Advance, m
  <1> HIDE DEF g
  <1>7. QED
    BY <1>4, <1>5, <1>6


-----------------------------------------------------------------------------
LEMMA GreatestIsThere ==
    ASSUME NEW n \in Nat, NEW T \in SUBSET (0 .. n), T # {}
    PROVE  \E x \in T : \A y \in T : y <= x
  <1> DEFINE F == {x .. n : x \in T}
  <1>1. F \subseteq FiniteSubsetsOf(Nat) /\ F # {}
    <2>1. ASSUME NEW x \in T PROVE x .. n \in FiniteSubsetsOf(Nat)
      <3>1. x \in Int /\ n \in Int /\ x .. n \subseteq Nat
        OBVIOUS
      <3>2. IsFiniteSet(x .. n)
        BY <3>1, FS_Interval
      <3>3. QED
        BY <3>1, <3>2 DEF FiniteSubsetsOf
    <2>2. QED
      BY <2>1
  <1>2. PICK X \in F : \A Y \in F : ~(<<Y, X>> \in StrictSubsetOrdering(Nat))
    <2>1. IsWellFoundedOn(StrictSubsetOrdering(Nat), FiniteSubsetsOf(Nat))
      BY FS_StrictSubsetOrderingWellFounded
    <2> HIDE DEF F
    <2>2. QED
      BY <1>1, <2>1, WFMin
  <1>3. PICK x \in T : X = x .. n
    OBVIOUS
  <1>4. ASSUME NEW y \in T PROVE y <= x
    <2>1. SUFFICES ASSUME ~(y <= x) PROVE FALSE
      OBVIOUS
    <2>2. x < y /\ x \in Nat /\ y \in Nat /\ x <= n
      BY <2>1
    <2>3. y .. n \subseteq x .. n /\ x \notin y .. n /\ x \in x .. n
      BY <2>2
    <2>4. y .. n \in SUBSET Nat /\ x .. n \in SUBSET Nat /\ y .. n # x .. n
      BY <2>2, <2>3
    <2>5. <<y .. n, x .. n>> \in StrictSubsetOrdering(Nat)
      BY <2>3, <2>4 DEF StrictSubsetOrdering
    <2>6. QED
      BY <1>2, <1>3, <2>5
  <1>5. QED
    BY <1>4

\* What a command makes of the chip.
LEMMA Begins ==
    ASSUME ChipOK, NEW w, Begin(w), \A b \in Cells : b \in w.cells => w.value[b] \in Int,
           aai' \in Nat \cup {NotAai}
    PROVE  /\ ChipOK' /\ UNCHANGED << mem, wel >>
           /\ Finished' = [b \in Cells |-> IF b \in w.cells THEN w.value[b] ELSE mem[b]]
           /\ work'.cells = w.cells
  <1>1. work' = w /\ mem' = mem /\ wel' = wel
    BY DEF Begin
  <1>2. Finished' = [b \in Cells |-> IF b \in w.cells THEN w.value[b] ELSE mem[b]]
    BY <1>1 DEF Finished
  <1>3. ASSUME NEW b \in Cells
        PROVE  (IF b \in w.cells THEN w.value[b] ELSE mem[b]) \in Int
    BY DEF ChipOK
  <1>4. Finished' \in [Cells -> Int]
    BY <1>2, <1>3
  <1>5. QED
    BY <1>1, <1>2, <1>4 DEF ChipOK

LEMMA Quiet ==
    ASSUME ChipOK, Ignored \/ WREN \/ WRDI
    PROVE  ChipOK' /\ UNCHANGED << mem, work, Finished >>
  <1>1. mem' = mem /\ work' = work /\ aai' \in {aai, NotAai} /\ wel' \in BOOLEAN
    BY DEF ChipOK, Ignored, WREN, WRDI, chip
  <1>2. QED
    BY <1>1 DEF ChipOK, Finished

LEMMA Finishes ==
    ASSUME ChipOK, Finish
    PROVE  ChipOK' /\ Ready' /\ mem' = Finished /\ Finished' = Finished
  <1>1. mem' = Finished /\ work' = NoWork /\ aai' = aai /\ wel' \in BOOLEAN
    BY DEF Finish, Finished
  <1>2. work'.cells = {}
    BY <1>1 DEF NoWork
  <1>3. Finished' = mem'
    BY <1>1, <1>2 DEF Finished
  <1>4. QED
    BY <1>1, <1>3 DEF ChipOK, Ready

LEMMA ReadyIsFinished ==
    ASSUME ChipOK, Ready
    PROVE  Finished = mem
  BY DEF ChipOK, Ready, NoWork, Finished

LEMMA BlockTypes ==
    ASSUME ChipOK, NEW a, NEW size, EraseBlock(a, size)
    PROVE  ChipOK'
  <1> DEFINE block == {b \in Cells : b \div size = a \div size}
             w == [cells |-> block, value |-> [b \in block |-> Erased]]
  <1>1. CASE Obeys
    <2>1. Begin(w) /\ aai' = aai
      BY <1>1 DEF EraseBlock
    <2>2. w.cells = block /\ w.value = [b \in block |-> Erased]
      OBVIOUS
    <2>3. \A b \in Cells : b \in w.cells => w.value[b] \in Int
      BY <2>2 DEF Erased
    <2> HIDE DEF w
    <2>4. aai' \in Nat \cup {NotAai}
      BY <2>1 DEF ChipOK
    <2>5. QED
      BY <2>1, <2>3, <2>4, Begins
  <1>2. CASE ~Obeys
    BY <1>2, Quiet DEF EraseBlock
  <1>3. QED
    BY <1>1, <1>2

LEMMA AndTypes ==
    ASSUME NEW x \in Int, NEW y \in Int
    PROVE  And(x, y) \in Int
  BY DEF And, Mixed

LEMMA PageTypes ==
    ASSUME ChipOK, NEW a, NEW bytes \in Seq(Int), ProgramPage(a, bytes)
    PROVE  ChipOK'
  <1> DEFINE to(k) == (a \div PageSize) * PageSize + ((a + k - 1) % PageSize)
             cells == {to(k) : k \in DOMAIN bytes} \cap Cells
             last(b) == CHOOSE k \in DOMAIN bytes :
                           to(k) = b /\ \A j \in DOMAIN bytes : to(j) = b => j <= k
             w == [cells |-> cells, value |-> [b \in cells |-> And(mem[b], bytes[last(b)])]]
  <1>1. CASE Obeys
    <2>1. Begin(w) /\ aai' = aai
      BY <1>1 DEF ProgramPage
    <2>2. w.cells = cells /\ w.value = [b \in cells |-> And(mem[b], bytes[last(b)])]
      OBVIOUS
    <2>3. ASSUME NEW b \in cells PROVE last(b) \in DOMAIN bytes
      <3> HIDE DEF to
      <3> DEFINE T == {k \in DOMAIN bytes : to(k) = b}
      <3>1. T # {} /\ DOMAIN bytes = 1 .. Len(bytes) /\ Len(bytes) \in Nat
        OBVIOUS
      <3>2. T \in SUBSET (0 .. Len(bytes))
        BY <3>1
      <3>3. \E k \in T : \A j \in T : j <= k
        BY <3>1, <3>2, GreatestIsThere
      <3>4. \E k \in DOMAIN bytes : to(k) = b /\ \A j \in DOMAIN bytes : to(j) = b => j <= k
        BY <3>3
      <3>5. QED
        BY <3>4
    <2>4. ASSUME NEW b \in cells PROVE And(mem[b], bytes[last(b)]) \in Int
      <3>1. mem[b] \in Int
        BY DEF ChipOK
      <3>2. bytes[last(b)] \in Int
        <4> DEFINE k == last(b)
        <4>1. k \in DOMAIN bytes
          BY <2>3
        <4> HIDE DEF k
        <4>2. bytes[k] \in Int
          BY <4>1
        <4>3. QED
          BY <4>2 DEF k
      <3>3. QED
        BY <3>1, <3>2, AndTypes
    <2>5. \A b \in Cells : b \in w.cells => w.value[b] \in Int
      BY <2>2, <2>4
    <2> HIDE DEF w
    <2>6. aai' \in Nat \cup {NotAai}
      BY <2>1 DEF ChipOK
    <2>7. QED
      BY <2>1, <2>5, <2>6, Begins
  <1>2. CASE ~Obeys
    BY <1>2, Quiet DEF ProgramPage
  <1>3. QED
    BY <1>1, <1>2

LEMMA WordTypes ==
    ASSUME ChipOK, NEW first \in BOOLEAN, NEW a \in Nat, NEW bytes \in Seq(Int), Len(bytes) = 2,
           ProgramWord(first, a, bytes)
    PROVE  ChipOK'
  <1> DEFINE at == IF aai = NotAai THEN a ELSE aai
             cells == {at, at + 1} \cap Cells
             w == [cells |-> cells, value |-> [b \in cells |-> And(mem[b], bytes[b - at + 1])]]
  <1>1. CASE Ready /\ wel /\ (first \/ aai # NotAai)
    <2>1. Begin(w) /\ aai' = at + 2
      BY <1>1 DEF ProgramWord
    <2>2. at \in Nat
      BY DEF ChipOK
    <2> HIDE DEF at
    <2>3. w.cells = cells /\ w.value = [b \in cells |-> And(mem[b], bytes[b - at + 1])]
      OBVIOUS
    <2>4. ASSUME NEW b \in cells PROVE And(mem[b], bytes[b - at + 1]) \in Int
      <3>1. b - at + 1 \in 1 .. 2
        BY <2>2
      <3>2. bytes[b - at + 1] \in Int
        BY <3>1, ElementOfSeq
      <3>3. mem[b] \in Int
        BY DEF ChipOK
      <3>4. QED
        BY <3>2, <3>3, AndTypes
    <2>5. \A b \in Cells : b \in w.cells => w.value[b] \in Int
      BY <2>3, <2>4
    <2> HIDE DEF w
    <2>6. aai' \in Nat \cup {NotAai}
      BY <2>1, <2>2
    <2>7. QED
      BY <2>1, <2>5, <2>6, Begins
  <1>2. CASE ~(Ready /\ wel /\ (first \/ aai # NotAai))
    BY <1>2, Quiet DEF ProgramWord
  <1>3. QED
    BY <1>1, <1>2


-----------------------------------------------------------------------------
\* One transfer: what it tells, and what it costs when it goes wrong.
LEMMA OneTransfer ==
    ASSUME CallsOK, NEW x \in Transfers, Spend(x)
    PROVE  /\ x.ok \in BOOLEAN /\ x.lost \in BOOLEAN
           /\ ~x.lost => (x.busy <=> ~Ready) /\ (x.wel <=> wel)
           /\ x.lost => ~x.busy /\ ~x.wel
           /\ ~(x.ok /\ ~x.lost) => faults' < MaxFaults
           /\ x.ok /\ x.lost => deceived'
           /\ faults' \in 0 .. MaxFaults /\ faults' <= faults
           /\ deceived' \in BOOLEAN /\ (deceived => deceived') /\ (deceived' => faults' < MaxFaults)
  <1>1. faults \in 0 .. MaxFaults /\ MaxFaults \in Nat
        /\ deceived \in BOOLEAN /\ (deceived => faults < MaxFaults)
    BY SfudAssumption DEF CallsOK
  <1>2. /\ x.ok \in BOOLEAN /\ x.lost \in BOOLEAN
        /\ faults = 0 => x.ok /\ ~x.lost
        /\ x.busy = (~x.lost /\ ~Ready) /\ x.wel = (~x.lost /\ wel)
    BY DEF Transfers
  <1>3. CASE x.ok /\ ~x.lost
    <2>1. faults' = faults /\ (deceived' <=> deceived)
      BY <1>3 DEF Spend
    <2>2. deceived' \in BOOLEAN
      BY DEF Spend
    <2>3. faults' \in 0 .. MaxFaults /\ faults' <= faults
      BY <1>1, <2>1
    <2>4. (deceived => deceived') /\ (deceived' => faults' < MaxFaults)
      BY <1>1, <2>1
    <2>5. QED
      BY <1>2, <1>3, <2>2, <2>3, <2>4
  <1>4. CASE ~(x.ok /\ ~x.lost)
    <2>1. faults' = faults - 1 /\ faults # 0
      BY <1>2, <1>4 DEF Spend
    <2>2. faults' \in 0 .. MaxFaults /\ faults' <= faults /\ faults' < MaxFaults
      BY <1>1, <2>1
    <2>3. deceived' \in BOOLEAN /\ (deceived => deceived') /\ (x.ok /\ x.lost => deceived')
      BY DEF Spend
    <2>4. QED
      BY <1>2, <1>4, <2>2, <2>3
  <1>5. QED
    BY <1>3, <1>4

LEMMA NextBoundary ==
    ASSUME NEW a \in Nat, NEW n \in Nat \ {0}
    PROVE  ToNext(a, n) \in 1 .. n
  <1>1. a % n \in 0 .. n - 1
    BY SMT
  <1>2. QED
    BY <1>1 DEF ToNext

LEMMA LeastOfTwo ==
    ASSUME NEW a \in Int, NEW b \in Int
    PROVE  Min({a, b}) = IF a <= b THEN a ELSE b
  <1>1. \E x \in {a, b} : \A y \in {a, b} : x =< y
    OBVIOUS
  <1>2. Min({a, b}) \in {a, b} /\ \A y \in {a, b} : Min({a, b}) =< y
    BY <1>1 DEF Min
  <1>3. QED
    BY <1>2

\* The eraser is the smallest, or one whose block starts here and fits.
LEMMA EraserFits ==
    ASSUME NEW f \in Frames
    PROVE  \E i \in 1 .. Len(Erasers) :
              /\ EraseSize(f) = Erasers[i] /\ Erasers[i] \in Nat \ {0} /\ Erasers[1] \in Nat \ {0}
              /\ i = 1 \/ (f.size >= Erasers[i] /\ f.addr % Erasers[i] = 0 /\ f.addr % Erasers[1] = 0)
  <1>1. Erasers \in Seq(Nat \ {0}) /\ Len(Erasers) \in Nat /\ Len(Erasers) > 0
        /\ DOMAIN Erasers = 1 .. Len(Erasers)
    BY SfudAssumption
  <1>2. \A i \in 1 .. Len(Erasers) : Erasers[i] \in Nat \ {0}
    BY <1>1, ElementOfSeq
  <1>3. 1 \in 1 .. Len(Erasers)
    BY <1>1
  <1> DEFINE fit == {i \in DOMAIN Erasers : f.size >= Erasers[i] /\ f.addr % Erasers[i] = 0}
             best == CHOOSE i \in fit : \A j \in fit : j <= i
  <1>4. CASE SfdpAvailable /\ f.addr % Erasers[1] = 0 /\ fit # {}
    <2>1. EraseSize(f) = Erasers[best]
      BY <1>4 DEF EraseSize
    <2>2. \E i \in fit : \A j \in fit : j <= i
      <3>1. fit \in SUBSET (0 .. Len(Erasers))
        BY <1>1
      <3> HIDE DEF fit
      <3>2. QED
        BY <1>1, <1>4, <3>1, GreatestIsThere
    <2>3. best \in fit
      <3> HIDE DEF fit
      <3>1. QED
        BY <2>2
    <2> HIDE DEF best
    <2>4. QED
      BY <1>1, <1>2, <1>3, <1>4, <2>1, <2>3
  <1>5. CASE ~(SfdpAvailable /\ f.addr % Erasers[1] = 0 /\ fit # {})
    <2>1. EraseSize(f) = Erasers[1]
      BY <1>5 DEF EraseSize
    <2>2. QED
      BY <1>2, <1>3, <2>1
  <1>6. QED
    BY <1>4, <1>5

\* How much of its range one cycle takes care of.
Portion(f) == Min({f.size, Done(f)})

LEMMA PortionFits ==
    ASSUME NEW f \in Frames, f.fn \in Writers
    PROVE  /\ Done(f) \in Nat /\ Portion(f) \in 0 .. f.size
           /\ Portion(f) = IF f.size <= Done(f) THEN f.size ELSE Done(f)
           /\ f.fn = "page" => Chunk(f) \in Nat /\ Portion(f) = Chunk(f) /\ Chunk(f) <= ToNext(f.addr, f.gran)
           /\ f.fn = "page" /\ f.size > 0 => Chunk(f) > 0
           /\ f.fn = "chipErase" => Portion(f) = f.size
           /\ f.fn = "aai" /\ f.size >= 2 => Portion(f) = 2
           /\ f.fn = "erase" => Done(f) = ToNext(f.addr, EraseSize(f)) /\ Done(f) > 0
  <1>1. f.size \in Nat /\ f.addr \in Nat /\ f.gran \in Nat \ {0}
    BY DEF Frames
  <1>2. Chunk(f) = (IF f.size <= ToNext(f.addr, f.gran) THEN f.size ELSE ToNext(f.addr, f.gran))
        /\ ToNext(f.addr, f.gran) \in 1 .. f.gran
    <2>1. ToNext(f.addr, f.gran) \in 1 .. f.gran
      BY <1>1, NextBoundary
    <2>2. ToNext(f.addr, f.gran) \in Int /\ f.size \in Int
      BY <1>1, <2>1
    <2>3. QED
      BY <2>1, <2>2, LeastOfTwo DEF Chunk
  <1>3. ToNext(f.addr, EraseSize(f)) \in Nat /\ ToNext(f.addr, EraseSize(f)) > 0
    <2>1. EraseSize(f) \in Nat \ {0}
      BY EraserFits
    <2>2. ToNext(f.addr, EraseSize(f)) \in 1 .. EraseSize(f)
      BY <1>1, <2>1, NextBoundary
    <2>3. QED
      BY <2>1, <2>2
  <1>4. CASE f.fn = "page"
    <2>1. Done(f) = Chunk(f) /\ Chunk(f) \in Nat /\ Chunk(f) <= f.size
      BY <1>1, <1>2, <1>4 DEF Done
    <2>2. Portion(f) = IF f.size <= Done(f) THEN f.size ELSE Done(f)
      BY <1>1, <2>1, LeastOfTwo DEF Portion
    <2>3. QED
      BY <1>1, <1>2, <1>4, <2>1, <2>2
  <1>5. CASE f.fn = "erase"
    <2>1. Done(f) = ToNext(f.addr, EraseSize(f))
      BY <1>5 DEF Done
    <2>2. Portion(f) = IF f.size <= Done(f) THEN f.size ELSE Done(f)
      BY <1>1, <1>3, <2>1, LeastOfTwo DEF Portion
    <2>3. QED
      BY <1>1, <1>3, <1>5, <2>1, <2>2
  <1>6. CASE f.fn = "chipErase"
    <2>1. Done(f) = f.size
      BY <1>6 DEF Done
    <2>2. Portion(f) = IF f.size <= Done(f) THEN f.size ELSE Done(f)
      BY <1>1, <2>1, LeastOfTwo DEF Portion
    <2>3. QED
      BY <1>1, <1>6, <2>1, <2>2
  <1>7. CASE f.fn = "aai"
    <2>1. Done(f) = 2
      BY <1>7 DEF Done
    <2>2. Portion(f) = IF f.size <= Done(f) THEN f.size ELSE Done(f)
      BY <1>1, <2>1, LeastOfTwo DEF Portion
    <2>3. QED
      BY <1>1, <1>7, <2>1, <2>2
  <1>8. QED
    BY <1>4, <1>5, <1>6, <1>7 DEF Writers

\* The frame after a cycle.
LEMMA CycleAdvances ==
    ASSUME NEW f \in Frames, f.fn \in Writers
    PROVE  LET g == AfterCycle(f)
               n == Portion(f)
           IN  /\ g \in Frames
               /\ g.fn = f.fn /\ g.gran = f.gran /\ g.result = f.result
               /\ g.addr = f.addr + n /\ g.from = f.from + n /\ g.size = f.size - n
               /\ g.at = IF f.fn = "aai" THEN (IF g.size >= 2 THEN "command" ELSE "wrdi")
                                         ELSE (IF g.size = 0 THEN "wrdi" ELSE "wren")
  <1> DEFINE n == Portion(f)
             h == Advance(f, n)
             l == IF f.fn = "aai" THEN (IF h.size >= 2 THEN "command" ELSE "wrdi")
                                  ELSE (IF h.size = 0 THEN "wrdi" ELSE "wren")
  <1>1. n \in Nat /\ n <= f.size
    <2>1. n \in 0 .. f.size /\ f.size \in Nat
      BY PortionFits DEF Frames
    <2>2. QED
      BY <2>1
  <1>2. AfterCycle(f) = [h EXCEPT !.at = l]
    BY DEF AfterCycle, Writers, Portion
  <1> HIDE DEF n
  <1>3. /\ h \in Frames
        /\ h.fn = f.fn /\ h.gran = f.gran /\ h.result = f.result
        /\ h.addr = f.addr + n /\ h.from = f.from + n /\ h.size = f.size - n
    BY <1>1, Advanced
  <1>4. l \in Labels
    BY DEF Labels
  <1> HIDE DEF h
  <1> DEFINE g == [h EXCEPT !.at = l]
  <1>5. /\ g \in Frames /\ g.at = l /\ g.fn = h.fn /\ g.addr = h.addr /\ g.size = h.size
        /\ g.from = h.from /\ g.gran = h.gran /\ g.result = h.result
    <2> HIDE DEF l
    <2>1. QED
      BY <1>3, <1>4, Moved
  <1> HIDE DEF g
  <1>6. QED
    BY <1>2, <1>3, <1>5 DEF n, g


-----------------------------------------------------------------------------
\* Types, step by step.
LEMMA SameFunction ==
    ASSUME StackOK, NEW t \in Threads, stack[t] # <<>>, NEW f \in Frames, SetTop(t, f),
           f.fn = Top(t).fn
    PROVE  StackOK'
  <1>1. Len(stack[t]) = 2 => Nested(Top(t), stack[t][2])
    BY TopIsThere
  <1>2. Len(stack[t]) = 2 => Nested(f, stack[t][2])
    BY <1>1 DEF Nested
  <1>3. QED
    BY <1>2, SetKeepsShape

LEMMA Goes ==
    ASSUME StackOK, NEW t \in Threads, stack[t] # <<>>, NEW l \in Labels, Goto(t, l)
    PROVE  StackOK' /\ SetTop(t, [Top(t) EXCEPT !.at = l])
  <1> DEFINE f == [Top(t) EXCEPT !.at = l]
  <1>1. Top(t) \in Frames
    BY TopIsThere
  <1>2. f \in Frames /\ f.fn = Top(t).fn
    BY <1>1, Moved
  <1>3. SetTop(t, f)
    BY DEF Goto
  <1> HIDE DEF f
  <1>4. StackOK'
    BY <1>2, <1>3, SameFunction
  <1>5. QED
    BY <1>3, <1>4 DEF f

LEMMA GivesUp ==
    ASSUME StackOK, NEW t \in Threads, stack[t] # <<>>, NEW l \in Labels, NEW r \in Results,
           Fail(t, l, r)
    PROVE  StackOK' /\ SetTop(t, [Top(t) EXCEPT !.at = l, !.result = r])
  <1> DEFINE f == [Top(t) EXCEPT !.at = l, !.result = r]
  <1>1. Top(t) \in Frames
    BY TopIsThere
  <1>2. f \in Frames /\ f.fn = Top(t).fn
    <2> DEFINE h == Top(t)
               g == [h EXCEPT !.at = l, !.result = r]
    <2>1. h \in Frames
      BY <1>1
    <2> HIDE DEF h
    <2>2. g \in Frames /\ g.fn = h.fn
      BY <2>1 DEF Frames
    <2>3. QED
      BY <2>2 DEF h
  <1>3. SetTop(t, f)
    BY DEF Fail
  <1> HIDE DEF f
  <1>4. StackOK'
    BY <1>2, <1>3, SameFunction
  <1>5. QED
    BY <1>3, <1>4 DEF f

LEMMA CallsKept ==
    ASSUME CallsOK, UNCHANGED << cmd_data, lock_, answer, got, ghost >>, faults' \in 0 .. MaxFaults,
           deceived' \in BOOLEAN, deceived' => faults' < MaxFaults
    PROVE  CallsOK'
  BY DEF CallsOK, ghost, port

LEMMA ChipKept ==
    ASSUME ChipOK, UNCHANGED chip
    PROVE  ChipOK'
  BY DEF ChipOK, Finished, chip

LEMMA ExitLabel ==
    ASSUME NEW t \in Threads
    PROVE  Exit(t) \in Labels
  BY DEF Exit, Labels

LEMMA NewFrame ==
    ASSUME NEW fn \in Commands \cup {"page"}, NEW a \in Nat, NEW n \in 0 .. SizeMod - 1,
           NEW k \in Nat, NEW g \in Nat \ {0}
    PROVE  LET f == Frame(fn, "enter", a, n, k, g)
           IN  /\ f \in Frames /\ f.fn = fn /\ f.at = "enter" /\ f.addr = a /\ f.size = n
               /\ f.from = k /\ f.gran = g /\ f.result = "SUCCESS"
  <1>1. RetryTimes \in 0 .. RetryTimes
    BY SfudAssumption
  <1>2. QED
    BY <1>1 DEF Frame, Frames, Labels, Results

LEMMA CallTypes ==
    ASSUME Types, NEW t \in Threads, Call(t)
    PROVE  Types'
  <1> USE DEF Types
  <1>1. stack[t] = <<>> /\ calls < MaxCalls /\ calls' = calls + 1 /\ calls \in 0 .. MaxCalls
        /\ MaxCalls \in Nat
    BY SfudAssumption DEF Call, CallsOK
  <1>2. PICK r \in Requests[t] :
             /\ call' = [call EXCEPT ![t] = [fn |-> r[1], addr |-> r[2], size |-> r[3],
                                             version |-> calls + 1]]
             /\ stack' = [stack EXCEPT ![t] = << Frame(r[1], "enter", r[2], r[3], 0, PageSize) >>]
    BY DEF Call
  <1>3. r[1] \in Commands /\ r[2] \in Nat /\ r[3] \in 0 .. SizeMod - 1 /\ PageSize \in Nat \ {0}
    BY SfudAssumption, ChipAssumption DEF Commands
  <1> DEFINE f == Frame(r[1], "enter", r[2], r[3], 0, PageSize)
             c == [fn |-> r[1], addr |-> r[2], size |-> r[3], version |-> calls + 1]
  <1>4. f \in Frames
    BY <1>3, NewFrame
  <1>5. c \in [fn : Commands, addr : Nat, size : 0 .. SizeMod - 1, version : Nat]
    BY <1>1, <1>3
  <1> HIDE DEF f, c
  <1>6. << f >> \in Seq(Frames) /\ Len(<< f >>) = 1
    BY <1>4
  <1>7. stack' = [stack EXCEPT ![t] = << f >>] /\ call' = [call EXCEPT ![t] = c]
    BY <1>2 DEF f, c
  <1>8. StackOK'
    BY <1>6, <1>7 DEF StackOK
  <1>9. CallsOK'
    <2>1. call' \in [Threads -> [fn : Commands, addr : Nat, size : 0 .. SizeMod - 1, version : Nat]]
      BY <1>5, <1>7 DEF CallsOK
    <2>2. calls' \in 0 .. MaxCalls
      BY <1>1
    <2>3. answer' = [answer EXCEPT ![t] = "none"]
          /\ UNCHANGED << write_mode, cmd_data, lock_, got, before, faults, deceived >>
      BY DEF Call, port
    <2>4. QED
      BY <2>1, <2>2, <2>3 DEF CallsOK
  <1>10. ChipOK'
    BY ChipKept DEF Call
  <1>11. QED
    BY <1>8, <1>9, <1>10

LEMMA WriteTypes ==
    ASSUME Types, NEW t \in Threads, sfud_write(t)
    PROVE  Types'
  <1> USE DEF Types
  <1>1. stack[t] # <<>> /\ Top(t).fn = "write" /\ Top(t) \in Frames
    BY TopIsThere DEF sfud_write, At
  <1>2. Len(stack[t]) = 1
    BY <1>1, TopIsThere DEF Nested
  <1>3. CASE write_mode \in {"page", "aai"}
    <2> DEFINE f == [Top(t) EXCEPT !.fn = write_mode]
    <2>1. f \in Frames
      BY <1>1, <1>3 DEF Frames
    <2>2. SetTop(t, f) /\ UNCHANGED answer
      BY <1>3 DEF sfud_write
    <2> HIDE DEF f
    <2>3. StackOK'
      BY <1>1, <1>2, <2>1, <2>2, SetKeepsShape
    <2>4. QED
      BY <2>2, <2>3, ChipKept DEF sfud_write, CallsOK, ghost, port
  <1>4. CASE write_mode \notin {"page", "aai"}
    <2>1. Return(t, "SUCCESS") /\ "SUCCESS" \in Results
      BY <1>4 DEF sfud_write, Results
    <2>2. StackOK' /\ answer' \in [Threads -> Results \cup {"none"}]
      BY <1>1, <2>1, ReturnKeepsShape DEF CallsOK
    <2>3. QED
      BY <2>2, ChipKept DEF sfud_write, CallsOK, ghost, port
  <1>5. QED
    BY <1>3, <1>4

LEMMA EraseWriteTypes ==
    ASSUME Types, NEW t \in Threads, sfud_erase_write(t)
    PROVE  Types'
  <1> USE DEF Types
  <1>1. stack[t] # <<>> /\ Top(t).fn = "eraseWrite" /\ Top(t) \in Frames
    BY TopIsThere DEF sfud_erase_write, At
  <1>2. Len(stack[t]) = 1
    BY <1>1, TopIsThere DEF Nested
  <1>3. StackOK' /\ answer' \in [Threads -> Results \cup {"none"}]
    <2>1. CASE /\ At(t, {"eraseWrite"}, "enter")
               /\ Push(t, Frame("erase", "enter", Top(t).addr, Top(t).size, 0, PageSize), "erased")
               /\ UNCHANGED answer
      <3> DEFINE f == Frame("erase", "enter", Top(t).addr, Top(t).size, 0, PageSize)
      <3>1. Top(t).addr \in Nat /\ Top(t).size \in 0 .. SizeMod - 1 /\ PageSize \in Nat \ {0}
        BY <1>1, ChipAssumption DEF Frames
      <3>2. f \in Frames /\ f.fn = "erase"
        <4>1. PICK a \in Nat, n \in 0 .. SizeMod - 1 : a = Top(t).addr /\ n = Top(t).size
          BY <3>1
        <4>2. "erase" \in Commands \cup {"page"} /\ 0 \in Nat
          BY DEF Commands
        <4>3. f = Frame("erase", "enter", a, n, 0, PageSize)
          BY <4>1
        <4> HIDE DEF f
        <4>4. QED
          BY <3>1, <4>2, <4>3, NewFrame
      <3> HIDE DEF f
      <3>3. Push(t, f, "erased")
        BY <2>1 DEF f
      <3>4. "erased" \in Labels /\ Nested(f, Top(t))
        BY <1>1, <3>2 DEF Labels, Nested
      <3>5. StackOK'
        BY <1>1, <1>2, <3>2, <3>3, <3>4, PushKeepsShape
      <3>6. QED
        BY <2>1, <3>5 DEF CallsOK
    <2>2. CASE At(t, {"eraseWrite"}, "erased") /\ Top(t).result = "SUCCESS"
               /\ SetTop(t, [Top(t) EXCEPT !.fn = "write", !.at = "enter"]) /\ UNCHANGED answer
      <3> DEFINE f == [Top(t) EXCEPT !.fn = "write", !.at = "enter"]
      <3>1. f \in Frames
        BY <1>1 DEF Frames, Commands, Labels
      <3> HIDE DEF f
      <3>2. SetTop(t, f)
        BY <2>2 DEF f
      <3>3. StackOK'
        BY <1>1, <1>2, <3>1, <3>2, SetKeepsShape
      <3>4. QED
        BY <2>2, <3>3 DEF CallsOK
    <2>3. CASE At(t, {"eraseWrite"}, "erased") /\ Return(t, Top(t).result)
      <3>1. Top(t).result \in Results
        BY <1>1 DEF Frames
      <3>2. QED
        BY <1>1, <2>3, <3>1, ReturnKeepsShape DEF CallsOK
    <2>4. QED
      BY <2>1, <2>2, <2>3 DEF sfud_erase_write
  <1>4. QED
    BY <1>3, ChipKept DEF sfud_erase_write, CallsOK, ghost, port

LEMMA EnterTypes ==
    ASSUME Types, NEW t \in Threads, Enter(t)
    PROVE  Types'
  <1> USE DEF Types
  <1>1. stack[t] # <<>> /\ Top(t) \in Frames /\ Top(t).fn \in Writers \cup {"read"}
    BY TopIsThere DEF Enter, At
  <1> DEFINE fn == IF Top(t).fn = "erase" /\ Top(t).addr = 0 /\ Top(t).size = ChipSize
                   THEN "chipErase" ELSE Top(t).fn
             f == [Top(t) EXCEPT !.at = "lock", !.fn = fn]
  <1>2. f \in Frames /\ f.fn = fn
    BY <1>1 DEF Frames, Commands, Labels
  <1>3. \/ SetTop(t, f) /\ UNCHANGED answer
        \/ Return(t, "ERR_ADDR_OUT_OF_BOUND")
    BY DEF Enter
  <1>4. Len(stack[t]) = 2 => Nested(f, stack[t][2])
    <2>1. Len(stack[t]) = 2 => Nested(Top(t), stack[t][2])
      BY <1>1, TopIsThere
    <2>2. QED
      BY <1>2, <2>1 DEF Nested
  <1> HIDE DEF f
  <1>5. StackOK' /\ answer' \in [Threads -> Results \cup {"none"}]
    <2>1. CASE SetTop(t, f) /\ UNCHANGED answer
      BY <1>1, <1>2, <1>4, <2>1, SetKeepsShape DEF CallsOK
    <2>2. CASE Return(t, "ERR_ADDR_OUT_OF_BOUND")
      BY <1>1, <2>2, ReturnKeepsShape DEF CallsOK, Results
    <2>3. QED
      BY <1>3, <2>1, <2>2
  <1>6. QED
    BY <1>5, ChipKept DEF Enter, CallsOK, ghost, port

LEMMA LockTypes ==
    ASSUME Types, NEW t \in Threads, Lock(t)
    PROVE  Types'
  <1> USE DEF Types
  <1>1. stack[t] # <<>> /\ Top(t) \in Frames
    BY TopIsThere DEF Lock, At
  <1>2. Start(Top(t)) \in Labels /\ Goto(t, Start(Top(t)))
    BY DEF Start, Labels, Lock
  <1>3. StackOK'
    BY <1>1, <1>2, Goes
  <1>4. lock_' \in Threads \cup {Free}
    BY DEF Lock, CallsOK
  <1>5. mem \in [Cells -> Int]
    BY DEF ChipOK
  <1>6. before' \in [Threads -> [Cells -> Int]]
    BY <1>5 DEF Lock, CallsOK
  <1>7. QED
    BY <1>3, <1>4, <1>6, ChipKept DEF Lock, CallsOK, port

LEMMA UnlockTypes ==
    ASSUME Types, NEW t \in Threads, Unlock(t)
    PROVE  Types'
  <1> USE DEF Types
  <1>1. stack[t] # <<>> /\ Top(t) \in Frames
    BY TopIsThere DEF Unlock, At
  <1>2. Top(t).result \in Results /\ Return(t, Top(t).result)
    BY <1>1 DEF Frames, Unlock
  <1>3. StackOK' /\ answer' \in [Threads -> Results \cup {"none"}]
    BY <1>1, <1>2, ReturnKeepsShape DEF CallsOK
  <1>4. QED
    BY <1>3, ChipKept DEF Unlock, CallsOK, ghost, port


LEMMA WriteEnableTypes ==
    ASSUME Types, NEW t \in Threads, WriteEnable(t)
    PROVE  Types'
  <1> USE DEF Types
  <1>1. stack[t] # <<>>
    BY DEF WriteEnable, At
  <1>2. PICK x \in Transfers :
             /\ Spend(x)
             /\ IF x.lost THEN Ignored ELSE WREN
             /\ IF x.ok THEN Goto(t, "wrenStatus") ELSE Fail(t, Exit(t), "ERR_WRITE")
    BY DEF WriteEnable
  <1>3. StackOK'
    BY <1>1, <1>2, Goes, GivesUp, ExitLabel DEF Labels, Results
  <1>4. CallsOK'
    BY <1>2, OneTransfer, CallsKept DEF WriteEnable
  <1>5. QED
    BY <1>2, <1>3, <1>4, Quiet

LEMMA EnableStatusTypes ==
    ASSUME Types, NEW t \in Threads, WriteEnableStatus(t)
    PROVE  Types'
  <1> USE DEF Types
  <1>1. stack[t] # <<>>
    BY DEF WriteEnableStatus, At
  <1> DEFINE l == CASE Top(t).fn = "page" -> "fill"
                    [] Top(t).fn = "aai" /\ Top(t).size < 2 -> "wrdi"
                    [] OTHER -> "command"
  <1>2. PICK x \in Transfers :
             /\ Spend(x)
             /\ Fail(t, Exit(t), "ERR_READ") \/ Fail(t, Exit(t), "ERR_WRITE") \/ Goto(t, l)
    BY DEF WriteEnableStatus
  <1>3. l \in Labels
    BY DEF Labels
  <1> HIDE DEF l
  <1>4. StackOK'
    BY <1>1, <1>2, <1>3, Goes, GivesUp, ExitLabel DEF Results
  <1>5. CallsOK'
    BY <1>2, OneTransfer, CallsKept DEF WriteEnableStatus
  <1>6. QED
    BY <1>4, <1>5, ChipKept DEF WriteEnableStatus

LEMMA DataTypes ==
    ASSUME CallsOK, NEW t \in Threads, NEW m \in Nat, NEW n \in Nat
    PROVE  /\ Data(t, m, n) \in Seq(Int) /\ Len(Data(t, m, n)) = n
           /\ \A k \in 1 .. n : Data(t, m, n)[k] = 100 * call[t].version + m + k - 1
  <1>1. call[t].version \in Nat
    BY DEF CallsOK
  <1>2. \A k \in 1 .. n : 100 * call[t].version + m + k - 1 \in Int
    BY <1>1
  <1>3. Data(t, m, n) \in [1 .. n -> Int]
    BY <1>2 DEF Data
  <1>4. QED
    BY <1>3 DEF Data

LEMMA FillTypes ==
    ASSUME Types, NEW t \in Threads, Fill(t)
    PROVE  Types'
  <1> USE DEF Types
  <1>1. stack[t] # <<>> /\ Top(t) \in Frames /\ Top(t).fn = "page"
    BY TopIsThere DEF Fill, At
  <1>2. StackOK'
    BY <1>1, Goes DEF Fill, Labels
  <1>3. Top(t).addr \in Nat /\ Top(t).from \in Nat
    BY <1>1 DEF Frames
  <1>4. Chunk(Top(t)) \in Nat
    BY <1>1, PortionFits DEF Writers
  <1>5. Data(t, Top(t).from, Chunk(Top(t))) \in Seq(Int)
    BY <1>3, <1>4, DataTypes
  <1>6. cmd_data'.addr \in Nat /\ cmd_data'.bytes \in Seq(Int)
    BY <1>3, <1>5 DEF Fill
  <1>7. CallsOK'
    BY <1>6 DEF Fill, CallsOK, ghost, port
  <1>8. QED
    BY <1>2, <1>7, ChipKept DEF Fill

LEMMA ReactionTypes ==
    ASSUME Types, NEW t \in Threads, stack[t] # <<>>, Top(t).fn \in Writers, Reaction(t)
    PROVE  ChipOK'
  <1> USE DEF Types
  <1>1. Top(t) \in Frames
    BY TopIsThere
  <1>2. Top(t).addr \in Nat /\ Top(t).from \in Nat
    BY <1>1 DEF Frames
  <1>3. CASE Top(t).fn = "page"
    <2>1. ProgramPage(cmd_data.addr, cmd_data.bytes)
      BY <1>3 DEF Reaction
    <2>2. QED
      BY <2>1, PageTypes DEF CallsOK
  <1>4. CASE Top(t).fn = "aai"
    <2>1. PICK first \in BOOLEAN : ProgramWord(first, Top(t).addr, Data(t, Top(t).from, 2))
      <3>1. (Top(t).from < 2) \in BOOLEAN
        OBVIOUS
      <3>2. QED
        BY <1>4, <3>1 DEF Reaction
    <2>2. Data(t, Top(t).from, 2) \in Seq(Int) /\ Len(Data(t, Top(t).from, 2)) = 2
      <3>1. PICK m \in Nat : m = Top(t).from
        BY <1>2
      <3>2. Data(t, m, 2) \in Seq(Int) /\ Len(Data(t, m, 2)) = 2
        <4>1. 2 \in Nat /\ CallsOK
          BY DEF Types
        <4>2. \A n \in Nat : Data(t, m, n) \in Seq(Int) /\ Len(Data(t, m, n)) = n
          BY <4>1, DataTypes
        <4>3. QED
          BY <4>1, <4>2
      <3>3. QED
        BY <3>1, <3>2
    <2>3. QED
      BY <1>2, <2>1, <2>2, WordTypes
  <1>5. CASE Top(t).fn = "erase"
    BY <1>5, BlockTypes DEF Reaction
  <1>6. CASE Top(t).fn = "chipErase"
    BY <1>6, BlockTypes DEF Reaction
  <1>7. QED
    BY <1>3, <1>4, <1>5, <1>6 DEF Writers

LEMMA Retried ==
    ASSUME NEW f \in Frames
    PROVE  /\ [f EXCEPT !.at = "busy", !.retry = RetryTimes] \in Frames
           /\ [f EXCEPT !.at = "busy", !.retry = RetryTimes].fn = f.fn
  <1>1. "busy" \in Labels /\ RetryTimes \in 0 .. RetryTimes
    BY SfudAssumption DEF Labels
  <1>2. QED
    BY <1>1 DEF Frames

LEMMA CommandTypes ==
    ASSUME Types, NEW t \in Threads, Command(t)
    PROVE  Types'
  <1> USE DEF Types
  <1>1. stack[t] # <<>> /\ Top(t) \in Frames /\ Top(t).fn \in Writers
    BY TopIsThere DEF Command, At
  <1> DEFINE f == [Top(t) EXCEPT !.at = "busy", !.retry = RetryTimes]
  <1>2. PICK x \in Transfers :
             /\ Spend(x)
             /\ IF x.lost THEN Ignored ELSE Reaction(t)
             /\ IF x.ok THEN SetTop(t, f) ELSE Fail(t, Exit(t), "ERR_WRITE")
    BY DEF Command
  <1>3. f \in Frames /\ f.fn = Top(t).fn
    BY <1>1, Retried
  <1> HIDE DEF f
  <1>4. StackOK'
    <2>1. CASE SetTop(t, f)
      BY <1>1, <1>3, <2>1, SameFunction
    <2>2. CASE Fail(t, Exit(t), "ERR_WRITE")
      BY <1>1, <2>2, GivesUp, ExitLabel DEF Results
    <2>3. QED
      BY <1>2, <2>1, <2>2
  <1>5. ChipOK'
    BY <1>1, <1>2, ReactionTypes, Quiet
  <1>6. CallsOK'
    BY <1>2, OneTransfer, CallsKept DEF Command
  <1>7. QED
    BY <1>4, <1>5, <1>6

LEMMA WaitBusyTypes ==
    ASSUME Types, NEW t \in Threads, WaitBusy(t)
    PROVE  Types'
  <1> USE DEF Types
  <1>1. stack[t] # <<>> /\ Top(t) \in Frames /\ Top(t).fn \in Writers \cup {"read"}
    BY TopIsThere DEF WaitBusy, At
  <1> DEFINE f == [Top(t) EXCEPT !.retry = @ - 1]
             g == AfterCycle(Top(t))
  <1>2. PICK x \in Transfers :
             /\ Spend(x)
             /\ \/ SetTop(t, g)
                \/ Top(t).retry > 0 /\ SetTop(t, f)
                \/ Fail(t, Exit(t), "ERR_TIMEOUT")
    BY DEF WaitBusy
  <1>3. g \in Frames /\ g.fn = Top(t).fn
    <2>1. CASE Top(t).fn = "read"
      <3>1. g = [Top(t) EXCEPT !.at = "data"] /\ "data" \in Labels
        BY <2>1 DEF AfterCycle, Labels
      <3>2. QED
        BY <1>1, <3>1, Moved
    <2>2. CASE Top(t).fn \in Writers
      BY <1>1, <2>2, CycleAdvances
    <2>3. QED
      BY <1>1, <2>1, <2>2
  <1>4. Top(t).retry > 0 => f \in Frames /\ f.fn = Top(t).fn
    <2> DEFINE h == Top(t)
    <2>1. h \in Frames
      BY <1>1
    <2> HIDE DEF h
    <2>2. h.retry > 0 => h.retry - 1 \in 0 .. RetryTimes
      BY <2>1, SfudAssumption DEF Frames
    <2>3. h.retry > 0 => /\ [h EXCEPT !.retry = h.retry - 1] \in Frames
                         /\ [h EXCEPT !.retry = h.retry - 1].fn = h.fn
      BY <2>1, <2>2 DEF Frames
    <2>4. f = [h EXCEPT !.retry = h.retry - 1]
      BY DEF h
    <2>5. QED
      BY <2>3, <2>4 DEF h
  <1> HIDE DEF f, g
  <1>5. StackOK'
    BY <1>1, <1>2, <1>3, <1>4, SameFunction, GivesUp, ExitLabel DEF Results
  <1>6. CallsOK'
    BY <1>2, OneTransfer, CallsKept DEF WaitBusy
  <1>7. QED
    BY <1>5, <1>6, ChipKept DEF WaitBusy

LEMMA ReadDataTypes ==
    ASSUME Types, NEW t \in Threads, ReadData(t)
    PROVE  Types'
  <1> USE DEF Types
  <1>1. stack[t] # <<>>
    BY DEF ReadData, At
  <1>2. PICK x \in Transfers :
             /\ Spend(x)
             /\ IF x.ok THEN Goto(t, "unlock") ELSE Fail(t, "unlock", "ERR_READ")
    BY DEF ReadData
  <1>3. StackOK'
    BY <1>1, <1>2, Goes, GivesUp DEF Labels, Results
  <1>4. DOMAIN got' = Threads
    BY DEF ReadData, CallsOK
  <1>5. CallsOK'
    <2>1. faults' \in 0 .. MaxFaults /\ deceived' \in BOOLEAN /\ (deceived' => faults' < MaxFaults)
      BY <1>2, OneTransfer
    <2>2. QED
      BY <1>4, <2>1 DEF ReadData, CallsOK, ghost, port
  <1>6. QED
    BY <1>3, <1>5, ChipKept DEF ReadData

LEMMA DisableTypes ==
    ASSUME Types, NEW t \in Threads, WriteDisable(t)
    PROVE  Types'
  <1> USE DEF Types
  <1>1. stack[t] # <<>>
    BY DEF WriteDisable, At
  <1>2. PICK x \in Transfers :
             /\ Spend(x)
             /\ IF x.lost THEN Ignored ELSE WRDI
             /\ Goto(t, "wrdiStatus") \/ Fail(t, "abort", "ERR_WRITE") \/ Goto(t, "unlock")
    BY DEF WriteDisable
  <1>3. StackOK'
    BY <1>1, <1>2, Goes, GivesUp DEF Labels, Results
  <1>4. CallsOK'
    BY <1>2, OneTransfer, CallsKept DEF WriteDisable
  <1>5. QED
    BY <1>2, <1>3, <1>4, Quiet

LEMMA DisableStatusTypes ==
    ASSUME Types, NEW t \in Threads, WriteDisableStatus(t)
    PROVE  Types'
  <1> USE DEF Types
  <1>1. stack[t] # <<>>
    BY DEF WriteDisableStatus, At
  <1>2. PICK x \in Transfers :
             /\ Spend(x)
             /\ \/ Goto(t, "unlock") \/ Goto(t, "tail")
                \/ Fail(t, "abort", "ERR_READ") \/ Fail(t, "abort", "ERR_WRITE")
    BY DEF WriteDisableStatus
  <1>3. StackOK'
    BY <1>1, <1>2, Goes, GivesUp DEF Labels, Results
  <1>4. CallsOK'
    BY <1>2, OneTransfer, CallsKept DEF WriteDisableStatus
  <1>5. QED
    BY <1>3, <1>4, ChipKept DEF WriteDisableStatus

LEMMA OddByteTypes ==
    ASSUME Types, NEW t \in Threads, OddByte(t)
    PROVE  Types'
  <1> USE DEF Types
  <1>1. stack[t] # <<>> /\ Top(t) \in Frames /\ Top(t).fn = "aai"
    BY TopIsThere DEF OddByte, At
  <1>2. Len(stack[t]) = 1
    BY <1>1, TopIsThere DEF Nested
  <1> DEFINE f == Frame("page", "enter", Top(t).addr, 1, Top(t).from, 1)
  <1>3. f \in Frames /\ f.fn = "page"
    <2>1. PICK a \in Nat, k \in Nat : a = Top(t).addr /\ k = Top(t).from
      BY <1>1 DEF Frames
    <2>2. f = Frame("page", "enter", a, 1, k, 1)
      BY <2>1
    <2>3. 1 \in 0 .. SizeMod - 1 /\ 1 \in Nat \ {0} /\ "page" \in Commands \cup {"page"}
      BY SfudAssumption, ChipAssumption
    <2> HIDE DEF f
    <2>4. QED
      BY <2>2, <2>3, NewFrame
  <1> HIDE DEF f
  <1>4. Push(t, f, "headDone") \/ Push(t, f, "tailDone")
    BY DEF OddByte, f
  <1>5. Nested(f, Top(t)) /\ {"headDone", "tailDone"} \subseteq Labels
    BY <1>1, <1>3 DEF Nested, Labels
  <1>6. StackOK'
    BY <1>1, <1>2, <1>3, <1>4, <1>5, PushKeepsShape
  <1>7. QED
    BY <1>6, ChipKept DEF OddByte, CallsOK, ghost, port

LEMMA OddByteDoneTypes ==
    ASSUME Types, NEW t \in Threads, OddByteDone(t)
    PROVE  Types'
  <1> USE DEF Types
  <1>1. stack[t] # <<>> /\ Top(t) \in Frames
    BY TopIsThere DEF OddByteDone, At
  <1> DEFINE h == Advance(Top(t), 1)
             f == [h EXCEPT !.at = "wren"]
  <1>2. SetTop(t, f) \/ Goto(t, "unlock") \/ Goto(t, "abort")
    BY DEF OddByteDone
  <1>3. h \in Frames /\ h.fn = Top(t).fn
    BY <1>1, Advanced
  <1> HIDE DEF h
  <1>4. f \in Frames /\ f.fn = Top(t).fn
    <2>1. "wren" \in Labels
      BY DEF Labels
    <2>2. QED
      BY <1>3, <2>1, Moved
  <1> HIDE DEF f
  <1>5. StackOK'
    BY <1>1, <1>2, <1>4, SameFunction, Goes DEF Labels
  <1>6. QED
    BY <1>5, ChipKept DEF OddByteDone, CallsOK, ghost, port

LEMMA AbortTypes ==
    ASSUME Types, NEW t \in Threads, Abort(t)
    PROVE  Types'
  <1> USE DEF Types
  <1>1. stack[t] # <<>>
    BY DEF Abort, At
  <1>2. PICK x \in Transfers :
             /\ Spend(x) /\ (Ignored \/ WRDI)
             /\ Goto(t, "abortStatus") \/ Goto(t, "unlock")
    BY DEF Abort
  <1>3. StackOK'
    BY <1>1, <1>2, Goes DEF Labels
  <1>4. CallsOK'
    BY <1>2, OneTransfer, CallsKept DEF Abort
  <1>5. QED
    BY <1>2, <1>3, <1>4, Quiet

LEMMA NobodyTypes ==
    ASSUME Types, CycleEnds \/ UNCHANGED vars
    PROVE  Types'
  <1> USE DEF Types
  <1>1. CASE CycleEnds
    BY <1>1, Finishes DEF CycleEnds, StackOK, CallsOK, ghost, port
  <1>2. CASE UNCHANGED vars
    BY <1>2, ChipKept DEF vars, StackOK, CallsOK, ghost, port
  <1>3. QED
    BY <1>1, <1>2

LEMMA TypesStep == Types /\ [Next]_vars => Types'
  <1> SUFFICES ASSUME Types, [Next]_vars PROVE Types'
    OBVIOUS
  <1>1. ASSUME NEW t \in Threads, Call(t) \/ Driver(t) PROVE Types'
    BY <1>1, CallTypes, WriteTypes, EraseWriteTypes, EnterTypes, LockTypes, UnlockTypes,
       WriteEnableTypes, EnableStatusTypes, FillTypes, CommandTypes, WaitBusyTypes, ReadDataTypes,
       DisableTypes, DisableStatusTypes, OddByteTypes, OddByteDoneTypes, AbortTypes DEF Driver
  <1>2. QED
    BY <1>1, NobodyTypes DEF Next, Rest

LEMMA TypesInit == Init => Types
  <1> SUFFICES ASSUME Init PROVE Types
    OBVIOUS
  <1> USE SfudAssumption, ChipAssumption
  <1>1. StackOK
    BY DEF Init, StackOK
  <1>2. ChipOK
    <2>1. mem \in [Cells -> Int]
      <3>1. Erased \in Int /\ OldByte \in Int
        BY DEF Erased, OldByte
      <3>2. QED
        BY <3>1 DEF Init
    <2>2. work.cells = {}
      BY DEF Init, NoWork
    <2>3. wel \in BOOLEAN /\ aai = NotAai
      BY DEF Init
    <2>4. Finished = [b \in Cells |-> mem[b]]
      BY <2>2 DEF Finished
    <2>5. QED
      BY <2>1, <2>3, <2>4 DEF ChipOK
  <1>3. CallsOK
    <2>1. mem \in [Cells -> Int]
      BY <1>2 DEF ChipOK
    <2>2. <<>> \in Seq(Int) /\ 0 \in 0 .. SizeMod - 1
      OBVIOUS
    <2>3. [fn |-> "read", addr |-> 0, size |-> 0, version |-> 0]
             \in [fn : Commands, addr : Nat, size : 0 .. SizeMod - 1, version : Nat]
      BY <2>2 DEF Commands
    <2>4. call \in [Threads -> [fn : Commands, addr : Nat, size : 0 .. SizeMod - 1, version : Nat]]
      BY <2>3 DEF Init
    <2>5. deceived \in BOOLEAN /\ (deceived => faults < MaxFaults)
      BY DEF Init
    <2>6. QED
      BY <2>1, <2>2, <2>4, <2>5 DEF Init, CallsOK
  <1>4. QED
    BY <1>1, <1>2, <1>3 DEF Types

\* The values of the chip and the driver stay in their types, whatever threads
\* call what, on any chip, whatever becomes of their transfers, with and without
\* a lock: no retry is counted below zero, the functions nest at most once and
\* a size stays in size_t's range, where it may have wrapped (sfud.c).
THEOREM FlashTypes == Spec => []TypeOK
  <1>1. Types => TypeOK
    <2> SUFFICES ASSUME Types PROVE TypeOK
      OBVIOUS
    <2>1. ASSUME NEW t \in Threads
          PROVE  /\ Len(stack[t]) <= 2 /\ answer[t] \in Results \cup {"none"}
                 /\ \A i \in DOMAIN stack[t] : stack[t][i] \in Frames
      <3>1. stack[t] \in Seq(Frames) /\ (Len(stack[t]) <= 1 \/ Len(stack[t]) = 2)
        BY DEF Types, StackOK
      <3>2. answer[t] \in Results \cup {"none"}
        BY DEF Types, CallsOK
      <3>3. QED
        BY <3>1, <3>2, ElementOfSeq
    <2>2. \A f \in Frames : f.size \in 0 .. SizeMod - 1 /\ f.retry \in 0 .. RetryTimes
                            /\ f.result \in Results
      BY DEF Frames
    <2>3. \A a \in Cells : mem[a] \in Int
      BY DEF Types, ChipOK
    <2>4. {wel, Ready} \subseteq BOOLEAN /\ aai \in {NotAai} \cup Nat
      BY DEF Types, ChipOK, Ready
    <2>5. QED
      BY <2>1, <2>2, <2>3, <2>4 DEF TypeOK, Types, CallsOK
  <1>2. QED
    BY <1>1, TypesInit, TypesStep, PTL DEF Spec

-----------------------------------------------------------------------------
\* Control: what the frames of a call can be at each place.

\* What the theorems about the memory need of their users: a lock or a single
\* thread, no empty AAI write at an odd address, no sum of an address and a size
\* that wraps.
Alone == \A t, u \in Threads : t = u
Errors == {"ERR_WRITE", "ERR_READ", "ERR_TIMEOUT"}
Serial == Locking \/ Alone \/ MaxCalls <= 1
AaiFits == "aai" \in WriteModes =>
              \A t \in Threads : \A r \in Requests[t] :
                 r[1] \in {"write", "eraseWrite"} => r[3] > 0 \/ r[2] % 2 = 0
SumsFit == \A t \in Threads : \A r \in Requests[t] : r[2] + r[3] < SizeMod

\* Which places each function has, and at which it may hold an error.
Loop == {"wren", "wrenStatus", "command", "busy"}
Way(fn) == {"enter", "lock", "unlock", "wrdi", "wrdiStatus"} \cup Loop
Ways(fn) == CASE fn = "write"      -> {"enter"}
              [] fn = "eraseWrite" -> {"enter", "erased"}
              [] fn = "read"       -> {"enter", "lock", "busy", "data", "unlock"}
              [] fn = "page"       -> Way(fn) \cup {"fill"}
              [] fn = "aai"        -> Way(fn) \cup {"head", "headDone", "tail", "tailDone", "abort",
                                                    "abortStatus"}
              [] OTHER             -> Way(fn)
Late(fn) == CASE fn = "write"      -> {}
              [] fn = "eraseWrite" -> {"erased"}
              [] fn = "read"       -> {"unlock"}
              [] fn = "aai"        -> {"headDone", "tailDone", "abort", "abortStatus", "unlock"}
              [] OTHER             -> {"wrdi", "wrdiStatus", "unlock"}

\* How much is left to do at a place.
Sizes(f) ==
    /\ f.fn \in {"page", "erase"} /\ f.at \in Loop \cup {"fill"} => f.size > 0
    /\ f.fn \in {"page", "erase"} /\ f.at \in {"wrdi", "wrdiStatus", "unlock"}
       /\ f.result = "SUCCESS" => f.size = 0
    /\ f.fn = "aai" /\ f.at \in {"head", "headDone"} => f.size > 0
    /\ f.fn = "aai" /\ f.at \in {"tail", "tailDone"} => f.size = 1
    /\ f.fn = "aai" /\ f.at \in {"command", "busy"} => f.size > 1
    /\ f.fn = "aai" /\ f.at \in {"wrdi", "wrdiStatus"} => f.size < 2
    /\ f.fn = "aai" /\ f.at \in {"enter", "lock"} /\ f.addr % 2 # 0 => f.size > 0
    /\ f.fn = "aai" /\ f.at \in {"enter", "lock", "head", "headDone"} => f.from = 0
    /\ f.fn = "aai" /\ f.at \in {"wren", "wrenStatus"} => f.from < 2

\* A frame f of a call c.
InRange(c) == c.fn = "chipErase" \/ c.addr + c.size <= ChipSize
Placed(f, c) ==
    /\ f.at \in Ways(f.fn) /\ (f.result # "SUCCESS" => f.at \in Late(f.fn))
    /\ f.at \in {"abort", "abortStatus"} => f.result # "SUCCESS"
    /\ Sizes(f)
    /\ f.at \notin {"enter", "erased"} => InRange(c)
    /\ f.fn = "chipErase" /\ c.fn # "chipErase" => c.addr = 0 /\ c.size = ChipSize

\* The frame has its place in the range of the call.
Main(f, c) == /\ f.addr = c.addr + f.from /\ f.from + f.size = c.size /\ f.gran = PageSize
              /\ f.at \in {"enter", "lock", "erased"} => f.from = 0

Serves(fn) == CASE fn = "read"      -> {"read"}
                [] fn = "erase"     -> {"erase", "chipErase"}
                [] fn = "chipErase" -> {"chipErase"}
                [] fn = "write"     -> {"write", "page", "aai"}
                [] OTHER            -> {"eraseWrite", "write", "page", "aai"}
Single(f, c) == f.fn \in Serves(c.fn) /\ Main(f, c)

UnderErase(f, g, c) == /\ g.fn = "eraseWrite" /\ g.at = "erased" /\ c.fn = "eraseWrite"
                       /\ f.fn \in {"erase", "chipErase"} /\ Main(f, c)
UnderAai(f, g, c) == /\ g.fn = "aai" /\ g.at \in {"headDone", "tailDone"}
                     /\ f.fn = "page" /\ c.fn \in {"write", "eraseWrite"} /\ InRange(c)
                     /\ f.gran = 1 /\ f.from >= g.from
                     /\ f.addr = c.addr + f.from /\ f.from + f.size = g.from + 1
Pair(f, g, c) == /\ Placed(g, c) /\ Main(g, c) /\ g.result = "SUCCESS"
                 /\ UnderErase(f, g, c) \/ UnderAai(f, g, c)

Shape(t) ==
    stack[t] # <<>> =>
       /\ answer[t] = "none"
       /\ call[t].fn \in {"write", "eraseWrite"} /\ write_mode = "aai"
             => call[t].size > 0 \/ call[t].addr % 2 = 0
       /\ call[t].addr + call[t].size < SizeMod
       /\ Placed(Top(t), call[t])
       /\ Len(stack[t]) = 1 => Single(Top(t), call[t])
       /\ Len(stack[t]) = 2 => Pair(Top(t), stack[t][2], call[t])
Control == \A t \in Threads : Shape(t)

-----------------------------------------------------------------------------
LEMMA TopChanges ==
    ASSUME StackOK, NEW t \in Threads, stack[t] # <<>>, NEW f, SetTop(t, f)
    PROVE  /\ stack'[t] # <<>> /\ Len(stack'[t]) = Len(stack[t]) /\ Top(t)' = f
           /\ Len(stack[t]) = 2 => stack'[t][2] = stack[t][2]
           /\ \A u \in Threads : u # t => stack'[u] = stack[u]
           /\ DOMAIN stack' = Threads
  <1> DEFINE S == Frames \cup {f}
             r == Tail(stack[t])
             s == << f >> \o r
  <1>1. stack[t] \in Seq(Frames) /\ DOMAIN stack = Threads
    BY DEF StackOK
  <1>2. r \in Seq(Frames) /\ Len(stack[t]) = Len(r) + 1 /\ (Len(stack[t]) = 2 => r[1] = stack[t][2])
    BY <1>1
  <1>3. r \in Seq(S) /\ f \in S
    <2>1. Frames \subseteq S
      OBVIOUS
    <2>2. QED
      BY <1>2, <2>1
  <1> HIDE DEF r, S
  <1>4. s # <<>> /\ Len(s) = Len(r) + 1 /\ Head(s) = f /\ (Len(r) = 1 => s[2] = r[1])
    BY <1>3
  <1> HIDE DEF s
  <1>5. stack' = [stack EXCEPT ![t] = s]
    BY DEF SetTop, s, r
  <1>6. stack'[t] = s /\ (\A u \in Threads : u # t => stack'[u] = stack[u]) /\ DOMAIN stack' = Threads
    BY <1>1, <1>5
  <1>7. Top(t)' = f
    BY <1>4, <1>6 DEF Top
  <1>8. Len(r) \in Nat
    BY <1>2
  <1>9. stack'[t] # <<>> /\ Len(stack'[t]) = Len(stack[t])
    BY <1>2, <1>4, <1>6
  <1>10. Len(stack[t]) = 2 => stack'[t][2] = stack[t][2]
    <2> SUFFICES ASSUME Len(stack[t]) = 2 PROVE stack'[t][2] = stack[t][2]
      OBVIOUS
    <2>1. Len(r) = 1
      <3>1. PICK k \in Nat : k = Len(r)
        BY <1>8
      <3>2. k + 1 = 2
        BY <1>2, <3>1
      <3>3. QED
        BY <3>1, <3>2
    <2>2. QED
      BY <1>2, <1>4, <1>6, <2>1
  <1>11. QED
    BY <1>6, <1>7, <1>9, <1>10

LEMMA ControlMoves ==
    ASSUME StackOK, Control, NEW t \in Threads, stack[t] # <<>>, NEW f, SetTop(t, f),
           UNCHANGED << call, answer, write_mode >>,
           Placed(f, call[t]),
           Single(Top(t), call[t]) => Single(f, call[t]),
           Len(stack[t]) = 2 /\ Pair(Top(t), stack[t][2], call[t]) => Pair(f, stack[t][2], call[t])
    PROVE  Control'
  <1> SUFFICES ASSUME NEW u \in Threads PROVE Shape(u)'
    BY DEF Control
  <1>1. Shape(u) /\ Shape(t)
    BY DEF Control
  <1>2. CASE u = t
    BY <1>1, <1>2, TopChanges DEF Shape
  <1>3. CASE u # t
    <2>1. stack'[u] = stack[u]
      BY <1>3, TopChanges
    <2>2. QED
      BY <1>1, <2>1 DEF Shape, Top
  <1>4. QED
    BY <1>2, <1>3

\* After n more bytes.
LEMMA AdvancesInRange ==
    ASSUME NEW h \in Frames, NEW f \in Frames, NEW c, NEW g, NEW n \in Nat,
           c.addr \in Nat, c.size \in Nat, g \in Frames,
           f.fn = h.fn, f.addr = h.addr + n, f.size = h.size - n, f.from = h.from + n,
           f.gran = h.gran, f.at \notin {"enter", "erased"}, f.at = "lock" => h.at = "enter" /\ n = 0
    PROVE  /\ Single(h, c) => Single(f, c)
           /\ Pair(h, g, c) => Pair(f, g, c)
  <1> PICK a \in Nat, s \in Nat, m \in Nat : a = h.addr /\ s = h.size /\ m = h.from
    BY DEF Frames
  <1>1. Main(h, c) => Main(f, c)
    BY DEF Main
  <1>2. UnderAai(h, g, c) => UnderAai(f, g, c)
    <2> SUFFICES ASSUME UnderAai(h, g, c) PROVE UnderAai(f, g, c)
      OBVIOUS
    <2>1. PICK k \in Nat : k = g.from
      BY DEF Frames
    <2>2. QED
      BY <2>1 DEF UnderAai
  <1>3. QED
    BY <1>1, <1>2 DEF Single, Pair, UnderErase

LEMMA TheOther ==
    ASSUME StackOK, NEW t \in Threads, stack[t] # <<>>
    PROVE  /\ Top(t) \in Frames
           /\ Len(stack[t]) = 1 \/ (Len(stack[t]) = 2 /\ stack[t][2] \in Frames)
  BY TopIsThere

\* The same for a thread's stack.
LEMMA ControlGoes ==
    ASSUME Types, Types', Control, NEW t \in Threads, stack[t] # <<>>, NEW f \in Frames,
           SetTop(t, f), UNCHANGED << call, answer, write_mode >>, NEW n \in Nat,
           f.fn = Top(t).fn, f.addr = Top(t).addr + n, f.size = Top(t).size - n,
           f.from = Top(t).from + n, f.gran = Top(t).gran,
           f.at \notin {"enter", "erased"},
           f.at = "lock" => Top(t).at = "enter" /\ n = 0,
           Placed(f, call[t])
    PROVE  Control'
  <1> DEFINE h == Top(t)
             g == stack[t][2]
             c == call[t]
  <1>1. h \in Frames /\ StackOK /\ c.addr \in Nat /\ c.size \in Nat
        /\ (Len(stack[t]) = 1 \/ (Len(stack[t]) = 2 /\ g \in Frames))
    <2>1. StackOK /\ CallsOK
      BY DEF Types
    <2>2. c \in [fn : Commands, addr : Nat, size : 0 .. SizeMod - 1, version : Nat]
      BY <2>1 DEF CallsOK
    <2>3. c.addr \in Nat /\ c.size \in Nat
      BY <2>2, SfudAssumption
    <2>4. QED
      BY <2>1, <2>3, TheOther
  <1> HIDE DEF h, c, g
  <1>2. Single(h, c) => Single(f, c)
    BY <1>1, AdvancesInRange DEF h
  <1>3. Len(stack[t]) = 2 /\ Pair(h, g, c) => Pair(f, g, c)
    BY <1>1, AdvancesInRange DEF h
  <1>4. QED
    BY <1>1, <1>2, <1>3, ControlMoves DEF h, c, g

\* The same, where only the place, the retries and the result change.
Like(h, f) == /\ f.fn = h.fn /\ f.addr = h.addr /\ f.size = h.size /\ f.from = h.from
              /\ f.gran = h.gran

LEMMA ControlLike ==
    ASSUME Types, Types', Control, NEW t \in Threads, stack[t] # <<>>, NEW f \in Frames,
           SetTop(t, f), UNCHANGED << call, answer, write_mode >>,
           Like(Top(t), f), f.at \notin {"enter", "erased"}, f.at = "lock" => Top(t).at = "enter",
           Placed(f, call[t])
    PROVE  Control'
  <1> DEFINE h == Top(t)
  <1>1. h \in Frames /\ f.addr = h.addr /\ f.size = h.size /\ f.from = h.from
    BY TheOther DEF Types, Like
  <1> HIDE DEF h
  <1>2. f.addr = h.addr + 0 /\ f.size = h.size - 0 /\ f.from = h.from + 0
    <2>1. PICK a \in Nat, s \in Nat, m \in Nat : a = h.addr /\ s = h.size /\ m = h.from
      BY <1>1, SfudAssumption DEF Frames
    <2>2. f.addr = a /\ f.size = s /\ f.from = m
      BY <1>1, <2>1
    <2>3. a = a + 0 /\ s = s - 0 /\ m = m + 0
      OBVIOUS
    <2>4. QED
      BY <2>1, <2>2, <2>3
  <1>3. QED
    BY <1>2, ControlGoes DEF Like, h

\* The places that a step goes to.
LEMMA ControlGoto ==
    ASSUME Types, Types', Control, NEW t \in Threads, stack[t] # <<>>,
           NEW l \in Labels \ {"enter", "erased"}, l = "lock" => Top(t).at = "enter",
           Goto(t, l), UNCHANGED << call, answer, write_mode >>,
           \A f \in Frames : Like(Top(t), f) /\ f.at = l /\ f.result = Top(t).result => Placed(f, call[t])
    PROVE  Control'
  <1> DEFINE h == Top(t)
             f == [h EXCEPT !.at = l]
  <1>1. h \in Frames
    BY TheOther DEF Types
  <1>2. SetTop(t, f)
    BY DEF Goto
  <1> HIDE DEF h
  <1>3. f \in Frames /\ Like(h, f) /\ f.at = l /\ f.result = h.result
    BY <1>1, Moved DEF Like
  <1> HIDE DEF f
  <1>4. QED
    BY <1>2, <1>3, ControlLike DEF h

LEMMA ControlFail ==
    ASSUME Types, Types', Control, NEW t \in Threads, stack[t] # <<>>,
           NEW l \in Labels \ {"enter", "erased", "lock"}, NEW r \in Results,
           Fail(t, l, r), UNCHANGED << call, answer, write_mode >>,
           \A f \in Frames : Like(Top(t), f) /\ f.at = l /\ f.result = r => Placed(f, call[t])
    PROVE  Control'
  <1> DEFINE h == Top(t)
             f == [h EXCEPT !.at = l, !.result = r]
  <1>1. h \in Frames
    BY TheOther DEF Types
  <1>2. SetTop(t, f)
    BY DEF Fail
  <1> HIDE DEF h
  <1>3. f \in Frames /\ Like(h, f) /\ f.at = l /\ f.result = r
    BY <1>1 DEF Like, Frames
  <1> HIDE DEF f
  <1>4. QED
    BY <1>2, <1>3, ControlLike DEF h

\* What all of them do when a transfer or a cycle fails.
LEMMA ControlExit ==
    ASSUME Types, Types', Control, NEW t \in Threads, stack[t] # <<>>,
           Top(t).fn \in Writers \cup {"read"}, Top(t).at \in Loop, NEW r \in Errors,
           Fail(t, Exit(t), r), UNCHANGED << call, answer, write_mode >>
    PROVE  Control'
  <1> DEFINE h == Top(t)
             c == call[t]
  <1>1. h \in Frames /\ Placed(h, c)
    BY TheOther DEF Types, Control, Shape
  <1>2. PICK l \in Labels \ {"enter", "erased", "lock"} : l = Exit(t)
    BY DEF Exit, Labels
  <1>3. Fail(t, l, r) /\ r \in Results
    BY <1>2 DEF Errors, Results
  <1>4. ASSUME NEW f \in Frames, Like(h, f), f.at = l, f.result = r
        PROVE  Placed(f, c)
    BY <1>1, <1>2, <1>4
    DEF Placed, Like, Sizes, Ways, Way, Late, Loop, Writers, Exit, Errors
  <1>5. \A f \in Frames : Like(h, f) /\ f.at = l /\ f.result = r => Placed(f, c)
    BY <1>4
  <1>6. QED
    BY <1>3, <1>5, ControlFail

LEMMA WriteEnableControl ==
    ASSUME Types, Types', Control, NEW t \in Threads, WriteEnable(t)
    PROVE  Control'
  <1> DEFINE h == Top(t)
             c == call[t]
  <1>1. stack[t] # <<>> /\ h.fn \in Writers /\ h.at = "wren"
    BY DEF WriteEnable, At
  <1>2. h \in Frames /\ Placed(h, c)
    BY <1>1, TheOther DEF Types, Control, Shape
  <1>3. Goto(t, "wrenStatus") \/ Fail(t, Exit(t), "ERR_WRITE")
    BY DEF WriteEnable
  <1>4. UNCHANGED << call, answer, write_mode >>
    BY DEF WriteEnable, ghost
  <1>5. CASE Goto(t, "wrenStatus")
    <2>1. ASSUME NEW f \in Frames, Like(h, f), f.at = "wrenStatus", f.result = h.result
          PROVE  Placed(f, c)
      BY <1>1, <1>2, <2>1 DEF Placed, Like, Sizes, Ways, Way, Late, Loop, Writers
    <2>2. QED
      BY <1>1, <1>4, <1>5, <2>1, ControlGoto DEF Labels
  <1>6. CASE Fail(t, Exit(t), "ERR_WRITE")
    BY <1>1, <1>4, <1>6, ControlExit DEF Loop, Errors
  <1>7. QED
    BY <1>3, <1>5, <1>6

LEMMA EnableStatusControl ==
    ASSUME Types, Types', Control, NEW t \in Threads, WriteEnableStatus(t)
    PROVE  Control'
  <1> DEFINE h == Top(t)
             c == call[t]
             l == CASE h.fn = "page" -> "fill"
                    [] h.fn = "aai" /\ h.size < 2 -> "wrdi"
                    [] OTHER -> "command"
  <1>1. stack[t] # <<>> /\ h.fn \in Writers /\ h.at = "wrenStatus"
    BY DEF WriteEnableStatus, At
  <1>2. h \in Frames /\ Placed(h, c)
    BY <1>1, TheOther DEF Types, Control, Shape
  <1>3. Goto(t, l) \/ Fail(t, Exit(t), "ERR_WRITE") \/ Fail(t, Exit(t), "ERR_READ")
    BY DEF WriteEnableStatus
  <1>4. UNCHANGED << call, answer, write_mode >>
    BY DEF WriteEnableStatus, ghost
  <1>5. CASE Goto(t, l)
    <2>1. ASSUME NEW f \in Frames, Like(h, f), f.at = l, f.result = h.result
          PROVE  Placed(f, c)
      <3>1. h.size \in Int
        BY <1>2, SfudAssumption DEF Frames
      <3>2. QED
        BY <1>1, <1>2, <2>1, <3>1 DEF Placed, Like, Sizes, Ways, Way, Late, Loop, Writers
    <2>2. l \in Labels \ {"enter", "erased"} /\ l # "lock"
      BY DEF Labels
    <2> HIDE DEF l
    <2>3. QED
      BY <1>1, <1>4, <1>5, <2>1, <2>2, ControlGoto
  <1>6. ASSUME NEW r \in Errors, Fail(t, Exit(t), r) PROVE Control'
    BY <1>1, <1>4, <1>6, ControlExit DEF Loop
  <1>7. QED
    BY <1>3, <1>5, <1>6 DEF Errors

LEMMA FillControl ==
    ASSUME Types, Types', Control, NEW t \in Threads, Fill(t)
    PROVE  Control'
  <1> DEFINE h == Top(t)
             c == call[t]
  <1>1. stack[t] # <<>> /\ h.fn = "page" /\ h.at = "fill"
    BY DEF Fill, At
  <1>2. h \in Frames /\ Placed(h, c)
    BY <1>1, TheOther DEF Types, Control, Shape
  <1>3. Goto(t, "command") /\ UNCHANGED << call, answer, write_mode >>
    BY DEF Fill, ghost
  <1>4. ASSUME NEW f \in Frames, Like(h, f), f.at = "command", f.result = h.result
        PROVE  Placed(f, c)
    BY <1>1, <1>2, <1>4 DEF Placed, Like, Sizes, Ways, Way, Late, Loop
  <1>5. QED
    BY <1>1, <1>3, <1>4, ControlGoto DEF Labels

LEMMA CommandControl ==
    ASSUME Types, Types', Control, NEW t \in Threads, Command(t)
    PROVE  Control'
  <1> DEFINE h == Top(t)
             c == call[t]
             f == [h EXCEPT !.at = "busy", !.retry = RetryTimes]
  <1>1. stack[t] # <<>> /\ h.fn \in Writers /\ h.at = "command"
    BY DEF Command, At
  <1>2. h \in Frames /\ Placed(h, c)
    BY <1>1, TheOther DEF Types, Control, Shape
  <1>3. SetTop(t, f) \/ Fail(t, Exit(t), "ERR_WRITE")
    BY DEF Command
  <1>4. UNCHANGED << call, answer, write_mode >>
    BY DEF Command, ghost
  <1>5. CASE SetTop(t, f)
    <2> HIDE DEF h
    <2>1. f \in Frames /\ Like(h, f) /\ f.at = "busy" /\ f.result = h.result
      <3>1. "busy" \in Labels /\ RetryTimes \in 0 .. RetryTimes
        BY SfudAssumption DEF Labels
      <3>2. QED
        BY <1>2, <3>1 DEF Like, Frames
    <2> HIDE DEF f
    <2>2. Placed(f, c)
      BY <1>1, <1>2, <2>1 DEF Placed, Like, Sizes, Ways, Way, Late, Loop, Writers
    <2>3. QED
      BY <1>1, <1>4, <1>5, <2>1, <2>2, ControlLike DEF h
  <1>6. CASE Fail(t, Exit(t), "ERR_WRITE")
    BY <1>1, <1>4, <1>6, ControlExit DEF Loop, Errors
  <1>7. QED
    BY <1>3, <1>5, <1>6

LEMMA WaitBusyControl ==
    ASSUME Types, Types', Control, NEW t \in Threads, WaitBusy(t)
    PROVE  Control'
  <1> DEFINE h == Top(t)
             c == call[t]
             f == [h EXCEPT !.retry = @ - 1]
             g == AfterCycle(h)
  <1>1. stack[t] # <<>> /\ h.fn \in Writers \cup {"read"} /\ h.at = "busy"
    BY DEF WaitBusy, At
  <1>2. h \in Frames /\ Placed(h, c)
    BY <1>1, TheOther DEF Types, Control, Shape
  <1>3. SetTop(t, g) \/ (h.retry > 0 /\ SetTop(t, f)) \/ Fail(t, Exit(t), "ERR_TIMEOUT")
    BY DEF WaitBusy
  <1>4. UNCHANGED << call, answer, write_mode >>
    BY DEF WaitBusy, ghost
  <1>5. CASE SetTop(t, g) /\ h.fn = "read"
    <2>1. Goto(t, "data")
      BY <1>5 DEF AfterCycle, Goto
    <2>2. ASSUME NEW k \in Frames, Like(h, k), k.at = "data", k.result = h.result
          PROVE  Placed(k, c)
      BY <1>1, <1>2, <1>5, <2>2 DEF Placed, Like, Sizes, Ways, Late, Loop
    <2>3. QED
      BY <1>1, <1>4, <2>1, <2>2, ControlGoto DEF Labels
  <1>6. CASE SetTop(t, g) /\ h.fn \in Writers
    <2> DEFINE n == Portion(h)
    <2> HIDE DEF h
    <2>1. g \in Frames /\ g.fn = h.fn /\ g.gran = h.gran /\ g.result = h.result
          /\ g.addr = h.addr + n /\ g.from = h.from + n /\ g.size = h.size - n
          /\ g.at = IF h.fn = "aai" THEN (IF g.size >= 2 THEN "command" ELSE "wrdi")
                                    ELSE (IF g.size = 0 THEN "wrdi" ELSE "wren")
      BY <1>2, <1>6, CycleAdvances
    <2>2. n \in 0 .. h.size /\ h.size \in Nat
      BY <1>2, <1>6, PortionFits, SfudAssumption DEF Frames
    <2>3. g.size \in Nat
      BY <2>1, SfudAssumption DEF Frames
    <2> HIDE DEF g, n
    <2>4. Placed(g, c)
      BY <1>1, <1>2, <1>6, <2>1, <2>3 DEF Placed, Sizes, Ways, Way, Late, Loop, Writers
    <2>5. n \in Nat /\ g.at \notin {"enter", "erased", "lock"}
      BY <2>1, <2>2
    <2>6. QED
      BY <1>1, <1>4, <1>6, <2>1, <2>4, <2>5, ControlGoes DEF h
  <1>7. CASE h.retry > 0 /\ SetTop(t, f)
    <2>1. SetTop(t, f)
      BY <1>7
    <2> HIDE DEF f
    <2>2. Top(t)' = f
      BY <1>1, <2>1, TopChanges DEF Types
    <2>3. stack'[t] # <<>>
      BY <1>1, <2>1, TopChanges DEF Types
    <2>4. f \in Frames
      <3>1. stack'[t] \in Seq(Frames)
        BY DEF Types, StackOK
      <3>2. Head(stack'[t]) \in Frames
        BY <2>3, <3>1
      <3>3. QED
        BY <2>2, <3>2 DEF Top
    <2>5. Like(h, f) /\ f.at = h.at /\ f.result = h.result
      BY <1>2 DEF f, Like, Frames
    <2>6. Placed(f, c)
      BY <1>1, <1>2, <2>5 DEF Placed, Like, Sizes
    <2>7. QED
      BY <1>1, <1>4, <2>1, <2>4, <2>5, <2>6, ControlLike
  <1>8. CASE Fail(t, Exit(t), "ERR_TIMEOUT")
    BY <1>1, <1>4, <1>8, ControlExit DEF Loop, Errors
  <1>9. QED
    BY <1>1, <1>3, <1>5, <1>6, <1>7, <1>8

LEMMA ReadDataControl ==
    ASSUME Types, Types', Control, NEW t \in Threads, ReadData(t)
    PROVE  Control'
  <1> DEFINE h == Top(t)
             c == call[t]
  <1>1. stack[t] # <<>> /\ h.fn = "read" /\ h.at = "data"
    BY DEF ReadData, At
  <1>2. h \in Frames /\ Placed(h, c)
    BY <1>1, TheOther DEF Types, Control, Shape
  <1>3. (Goto(t, "unlock") \/ Fail(t, "unlock", "ERR_READ")) /\ UNCHANGED << call, answer, write_mode >>
    BY DEF ReadData, ghost
  <1>4. ASSUME NEW f \in Frames, Like(h, f), f.at = "unlock"
        PROVE  Placed(f, c)
    BY <1>1, <1>2, <1>4 DEF Placed, Like, Sizes, Ways, Late, Loop
  <1>5. \A f \in Frames : Like(h, f) /\ f.at = "unlock" => Placed(f, c)
    BY <1>4
  <1>6. CASE Goto(t, "unlock")
    BY <1>1, <1>3, <1>5, <1>6, ControlGoto DEF Labels
  <1>7. CASE Fail(t, "unlock", "ERR_READ")
    BY <1>1, <1>3, <1>5, <1>7, ControlFail DEF Labels, Results
  <1>8. QED
    BY <1>3, <1>6, <1>7

LEMMA DisableControl ==
    ASSUME Types, Types', Control, NEW t \in Threads, WriteDisable(t)
    PROVE  Control'
  <1> DEFINE h == Top(t)
             c == call[t]
  <1>1. stack[t] # <<>> /\ h.fn \in Writers /\ h.at = "wrdi"
    BY DEF WriteDisable, At
  <1>2. h \in Frames /\ Placed(h, c)
    BY <1>1, TheOther DEF Types, Control, Shape
  <1>3. /\ \/ Goto(t, "wrdiStatus")
           \/ h.fn = "aai" /\ Fail(t, "abort", "ERR_WRITE")
           \/ h.fn # "aai" /\ Goto(t, "unlock")
        /\ UNCHANGED << call, answer, write_mode >>
    BY DEF WriteDisable, ghost
  <1>4. CASE Goto(t, "wrdiStatus")
    <2>1. ASSUME NEW f \in Frames, Like(h, f), f.at = "wrdiStatus", f.result = h.result
          PROVE  Placed(f, c)
      BY <1>1, <1>2, <2>1 DEF Placed, Like, Sizes, Ways, Way, Late, Loop, Writers
    <2>2. QED
      BY <1>1, <1>3, <1>4, <2>1, ControlGoto DEF Labels
  <1>5. CASE h.fn = "aai" /\ Fail(t, "abort", "ERR_WRITE")
    <2>1. ASSUME NEW f \in Frames, Like(h, f), f.at = "abort", f.result = "ERR_WRITE"
          PROVE  Placed(f, c)
      BY <1>1, <1>2, <1>5, <2>1 DEF Placed, Like, Sizes, Ways, Way, Late, Loop
    <2>2. QED
      BY <1>1, <1>3, <1>5, <2>1, ControlFail DEF Labels, Results
  <1>6. CASE h.fn # "aai" /\ Goto(t, "unlock")
    <2>1. ASSUME NEW f \in Frames, Like(h, f), f.at = "unlock", f.result = h.result
          PROVE  Placed(f, c)
      BY <1>1, <1>2, <1>6, <2>1 DEF Placed, Like, Sizes, Ways, Way, Late, Loop, Writers
    <2>2. QED
      BY <1>1, <1>3, <1>6, <2>1, ControlGoto DEF Labels
  <1>7. QED
    BY <1>3, <1>4, <1>5, <1>6

LEMMA DisableStatusControl ==
    ASSUME Types, Types', Control, NEW t \in Threads, WriteDisableStatus(t)
    PROVE  Control'
  <1> DEFINE h == Top(t)
             c == call[t]
  <1>1. stack[t] # <<>> /\ h.fn \in Writers /\ h.at = "wrdiStatus"
    BY DEF WriteDisableStatus, At
  <1>2. h \in Frames /\ Placed(h, c)
    BY <1>1, TheOther DEF Types, Control, Shape
  <1>3. /\ \/ (h.fn = "aai" => h.size # 1) /\ Goto(t, "unlock")
           \/ h.fn = "aai" /\ h.size = 1 /\ Goto(t, "tail")
           \/ \E r \in {"ERR_READ", "ERR_WRITE"} : h.fn = "aai" /\ Fail(t, "abort", r)
        /\ UNCHANGED << call, answer, write_mode >>
    BY DEF WriteDisableStatus, ghost
  <1>4. CASE (h.fn = "aai" => h.size # 1) /\ Goto(t, "unlock")
    <2>1. ASSUME NEW f \in Frames, Like(h, f), f.at = "unlock", f.result = h.result
          PROVE  Placed(f, c)
      BY <1>1, <1>2, <1>4, <2>1 DEF Placed, Like, Sizes, Ways, Way, Late, Loop, Writers
    <2>2. QED
      BY <1>1, <1>3, <1>4, <2>1, ControlGoto DEF Labels
  <1>5. CASE h.fn = "aai" /\ h.size = 1 /\ Goto(t, "tail")
    <2>1. ASSUME NEW f \in Frames, Like(h, f), f.at = "tail", f.result = h.result
          PROVE  Placed(f, c)
      BY <1>1, <1>2, <1>5, <2>1 DEF Placed, Like, Sizes, Ways, Way, Late, Loop
    <2>2. QED
      BY <1>1, <1>3, <1>5, <2>1, ControlGoto DEF Labels
  <1>6. ASSUME NEW r \in {"ERR_READ", "ERR_WRITE"}, h.fn = "aai", Fail(t, "abort", r)
        PROVE  Control'
    <2>1. ASSUME NEW f \in Frames, Like(h, f), f.at = "abort", f.result = r
          PROVE  Placed(f, c)
      BY <1>1, <1>2, <1>6, <2>1 DEF Placed, Like, Sizes, Ways, Way, Late, Loop
    <2>2. \A f \in Frames : Like(h, f) /\ f.at = "abort" /\ f.result = r => Placed(f, c)
      BY <2>1
    <2>3. "abort" \in Labels \ {"enter", "erased", "lock"} /\ r \in Results
      BY DEF Labels, Results
    <2>4. QED
      BY <1>1, <1>3, <1>6, <2>2, <2>3, ControlFail
  <1>7. QED
    BY <1>3, <1>4, <1>5, <1>6

LEMMA AbortControl ==
    ASSUME Types, Types', Control, NEW t \in Threads, Abort(t)
    PROVE  Control'
  <1> DEFINE h == Top(t)
             c == call[t]
  <1>1. stack[t] # <<>> /\ h.fn = "aai" /\ h.at \in {"abort", "abortStatus"}
    BY DEF Abort, At
  <1>2. h \in Frames /\ Placed(h, c)
    BY <1>1, TheOther DEF Types, Control, Shape
  <1>3. PICK l \in {"abortStatus", "unlock"} : Goto(t, l)
    BY DEF Abort
  <1>4. UNCHANGED << call, answer, write_mode >>
    BY DEF Abort, ghost
  <1>5. ASSUME NEW f \in Frames, Like(h, f), f.at = l, f.result = h.result
        PROVE  Placed(f, c)
    BY <1>1, <1>2, <1>5 DEF Placed, Like, Sizes, Ways, Way, Late, Loop
  <1>6. \A f \in Frames : Like(h, f) /\ f.at = l /\ f.result = h.result => Placed(f, c)
    BY <1>5
  <1>7. l \in Labels \ {"enter", "erased"} /\ l # "lock"
    BY DEF Labels
  <1>8. QED
    BY <1>1, <1>3, <1>4, <1>6, <1>7, ControlGoto

LEMMA OddByteDoneControl ==
    ASSUME Types, Types', Control, NEW t \in Threads, OddByteDone(t)
    PROVE  Control'
  <1> DEFINE h == Top(t)
             c == call[t]
             k == Advance(h, 1)
             f == [k EXCEPT !.at = "wren"]
  <1>1. stack[t] # <<>> /\ h.fn = "aai" /\ h.at \in {"headDone", "tailDone"}
    BY DEF OddByteDone, At
  <1>2. h \in Frames /\ Placed(h, c)
    BY <1>1, TheOther DEF Types, Control, Shape
  <1>3. /\ \/ h.at = "headDone" /\ h.result = "SUCCESS" /\ SetTop(t, f)
           \/ h.at = "tailDone" /\ Goto(t, "unlock")
           \/ h.result # "SUCCESS" /\ Goto(t, "abort")
        /\ UNCHANGED << call, answer, write_mode >>
    BY DEF OddByteDone, At, ghost
  <1>4. CASE h.at = "headDone" /\ h.result = "SUCCESS" /\ SetTop(t, f)
    <2>1. h.size > 0 /\ h.size \in Nat
      BY <1>1, <1>2, <1>4, SfudAssumption DEF Placed, Sizes, Frames
    <2> HIDE DEF h
    <2>2. k \in Frames /\ k.fn = h.fn /\ k.gran = h.gran /\ k.addr = h.addr + 1
          /\ k.from = h.from + 1 /\ k.size = h.size - 1 /\ k.result = h.result
      BY <1>2, <2>1, Advanced
    <2> HIDE DEF k
    <2>3. f \in Frames /\ Like(k, f) /\ f.at = "wren" /\ f.result = h.result
      <3>1. "wren" \in Labels
        BY DEF Labels
      <3>2. QED
        BY <2>2, <3>1, Moved DEF Like
    <2> HIDE DEF f
    <2>5. Placed(f, c)
      BY <1>1, <1>2, <1>4, <2>2, <2>3 DEF Placed, Like, Sizes, Ways, Way, Late, Loop
    <2>6. f.fn = h.fn /\ f.addr = h.addr + 1 /\ f.size = h.size - 1 /\ f.from = h.from + 1
          /\ f.gran = h.gran /\ f.at \notin {"enter", "erased", "lock"}
      BY <2>2, <2>3 DEF Like
    <2>7. QED
      BY <1>1, <1>3, <1>4, <2>3, <2>5, <2>6, ControlGoes DEF h
  <1>5. CASE h.at = "tailDone" /\ Goto(t, "unlock")
    <2>1. ASSUME NEW g \in Frames, Like(h, g), g.at = "unlock", g.result = h.result
          PROVE  Placed(g, c)
      BY <1>1, <1>2, <1>5, <2>1 DEF Placed, Like, Sizes, Ways, Way, Late, Loop
    <2>2. QED
      BY <1>1, <1>3, <1>5, <2>1, ControlGoto DEF Labels
  <1>6. CASE h.result # "SUCCESS" /\ Goto(t, "abort")
    <2>1. ASSUME NEW g \in Frames, Like(h, g), g.at = "abort", g.result = h.result
          PROVE  Placed(g, c)
      BY <1>1, <1>2, <1>6, <2>1 DEF Placed, Like, Sizes, Ways, Way, Late, Loop
    <2>2. QED
      BY <1>1, <1>3, <1>6, <2>1, ControlGoto DEF Labels
  <1>7. QED
    BY <1>3, <1>4, <1>5, <1>6

LEMMA LockControl ==
    ASSUME Types, Types', Control, NEW t \in Threads, Lock(t)
    PROVE  Control'
  <1> DEFINE h == Top(t)
             c == call[t]
  <1>1. stack[t] # <<>> /\ h.fn \in Writers \cup {"read"} /\ h.at = "lock"
    BY DEF Lock, At
  <1>2. h \in Frames /\ Placed(h, c)
    BY <1>1, TheOther DEF Types, Control, Shape
  <1>3. PICK l \in Labels \ {"enter", "erased"} : l = Start(h)
    BY DEF Start, Labels
  <1>4. Goto(t, l) /\ UNCHANGED << call, answer, write_mode >> /\ l # "lock"
    BY <1>3 DEF Lock, Start
  <1>5. ASSUME NEW f \in Frames, Like(h, f), f.at = l, f.result = h.result
        PROVE  Placed(f, c)
    <2>1. h.size \in Nat
      BY <1>2, SfudAssumption DEF Frames
    <2>2. QED
      BY <1>1, <1>2, <1>3, <1>5, <2>1
      DEF Placed, Like, Sizes, Ways, Way, Late, Loop, Start, Writers
  <1>6. \A f \in Frames : Like(h, f) /\ f.at = l /\ f.result = h.result => Placed(f, c)
    BY <1>5
  <1>7. QED
    BY <1>1, <1>4, <1>6, ControlGoto

\* Nothing happens to another thread.
LEMMA OtherShape ==
    ASSUME Control, NEW u \in Threads, stack'[u] = stack[u], answer'[u] = answer[u],
           call'[u] = call[u], write_mode' = write_mode
    PROVE  Shape(u)'
  BY DEF Control, Shape, Top

LEMMA ControlReturn ==
    ASSUME Types, Control, NEW t \in Threads, stack[t] # <<>>, NEW r \in Results, Return(t, r),
           UNCHANGED << call, write_mode >>
    PROVE  Control'
  <1> SUFFICES ASSUME NEW u \in Threads PROVE Shape(u)'
    BY DEF Control
  <1> DEFINE h == Top(t)
             c == call[t]
             g == stack[t][2]
             f == [g EXCEPT !.result = r]
  <1>1. /\ \/ Len(stack[t]) = 1 /\ stack'[t] = <<>> /\ answer' = [answer EXCEPT ![t] = r]
           \/ /\ Len(stack[t]) = 2 /\ g \in Frames /\ stack'[t] # <<>> /\ Len(stack'[t]) = 1
              /\ Top(t)' = f /\ UNCHANGED answer
        /\ \A v \in Threads : v # t => stack'[v] = stack[v]
    <2>1. StackOK
      BY DEF Types
    <2>2. \/ Len(stack[t]) = 1 /\ stack'[t] = <<>> /\ answer' = [answer EXCEPT ![t] = r]
          \/ /\ Len(stack[t]) = 2 /\ g \in Frames /\ stack'[t] # <<>> /\ Len(stack'[t]) = 1
             /\ Top(t)' = f /\ UNCHANGED answer
      BY <2>1, ReturnsTo
    <2>3. \A v \in Threads : v # t => stack'[v] = stack[v]
      BY <2>1, ReturnsTo
    <2> HIDE DEF f, g
    <2>4. QED
      BY <2>2, <2>3
  <1>2. CASE u # t
    <2>1. answer'[u] = answer[u]
      BY <1>1, <1>2 DEF Types, CallsOK
    <2>2. QED
      BY <1>1, <1>2, <2>1, OtherShape
  <1>3. CASE u = t /\ Len(stack[t]) = 1
    BY <1>1, <1>3 DEF Shape
  <1>4. CASE u = t /\ Len(stack[t]) = 2
    <2>1. g \in Frames /\ stack'[t] # <<>> /\ Len(stack'[t]) = 1 /\ Top(t)' = f /\ UNCHANGED answer
      BY <1>1, <1>4
    <2>2. Pair(h, g, c) /\ answer[t] = "none"
          /\ (c.fn \in {"write", "eraseWrite"} /\ write_mode = "aai" => c.size > 0 \/ c.addr % 2 = 0)
          /\ c.addr + c.size < SizeMod
      BY <1>4 DEF Control, Shape
    <2> HIDE DEF h, g, c
    <2>3. Like(g, f) /\ f.at = g.at /\ f.result = r
      BY <2>1 DEF Like, Frames
    <2> HIDE DEF f
    <2>4. Placed(f, c)
      BY <2>2, <2>3 DEF Pair, UnderErase, UnderAai, Placed, Like, Sizes, Late
    <2>5. Single(f, c)
      BY <2>2, <2>3 DEF Pair, UnderErase, UnderAai, Single, Serves, Main, Like
    <2>6. QED
      BY <1>4, <2>1, <2>2, <2>4, <2>5 DEF Shape, c
  <1>5. QED
    BY <1>1, <1>2, <1>3, <1>4

LEMMA UnlockControl ==
    ASSUME Types, Control, NEW t \in Threads, Unlock(t)
    PROVE  Control'
  <1>1. stack[t] # <<>> /\ Top(t) \in Frames
    BY TheOther DEF Types, Unlock, At
  <1>2. PICK r \in Results : r = Top(t).result
    BY <1>1 DEF Frames
  <1>3. Return(t, r) /\ UNCHANGED << call, write_mode >>
    BY <1>2 DEF Unlock, ghost
  <1>4. QED
    BY <1>1, <1>3, ControlReturn

\* The sum of an address and a size of a call within SumsFit does not wrap.
LEMMA NoWrap ==
    ASSUME Types, Control, NEW t \in Threads, stack[t] # <<>>
    PROVE  (Top(t).addr + Top(t).size) % SizeMod = Top(t).addr + Top(t).size
  <1> DEFINE h == Top(t)
             c == call[t]
             g == stack[t][2]
  <1>1. /\ h \in Frames /\ (Len(stack[t]) = 1 => Single(h, c))
        /\ (Len(stack[t]) = 2 => Pair(h, g, c) /\ g \in Frames)
        /\ (Len(stack[t]) = 1 \/ Len(stack[t]) = 2)
        /\ c.addr + c.size < SizeMod
    BY TheOther DEF Types, Control, Shape
  <1>2. c.addr \in Nat /\ c.size \in Nat
    <2>1. c \in [fn : Commands, addr : Nat, size : 0 .. SizeMod - 1, version : Nat]
      BY DEF Types, CallsOK
    <2>2. QED
      BY <2>1, SfudAssumption
  <1> HIDE DEF h, c, g
  <1>3. PICK a \in Nat, s \in Nat, m \in Nat : a = h.addr /\ s = h.size /\ m = h.from
    BY <1>1, SfudAssumption DEF Frames
  <1>4. a + s <= c.addr + c.size
    <2>1. CASE Main(h, c)
      BY <1>2, <1>3, <2>1 DEF Main
    <2>2. CASE UnderAai(h, g, c) /\ Main(g, c) /\ Placed(g, c) /\ g \in Frames
      <3>1. PICK j \in Nat, y \in Nat : j = g.from /\ y = g.size
        BY <2>2, SfudAssumption DEF Frames
      <3>2. y >= 1 /\ j + y = c.size
        BY <2>2, <3>1 DEF UnderAai, Placed, Sizes, Main
      <3>3. a = c.addr + m /\ m + s = j + 1
        BY <1>3, <2>2, <3>1 DEF UnderAai
      <3>4. QED
        BY <1>2, <3>2, <3>3
    <2>3. QED
      BY <1>1, <2>1, <2>2 DEF Single, Pair, UnderErase
  <1>5. a + s \in 0 .. SizeMod - 1 /\ SizeMod \in Nat \ {0}
    BY <1>1, <1>2, <1>4, SfudAssumption, ChipAssumption
  <1>6. (a + s) % SizeMod = a + s
    BY <1>5
  <1>7. QED
    BY <1>3, <1>6 DEF h

\* So the check of the bound is the one that the code means.
LEMMA Checked ==
    ASSUME Types, Control, NEW t \in Threads, Enter(t)
    PROVE  IF Top(t).addr + Top(t).size > ChipSize /\ Top(t).fn # "chipErase"
           THEN Return(t, "ERR_ADDR_OUT_OF_BOUND")
           ELSE /\ SetTop(t, [Top(t) EXCEPT !.at = "lock",
                                 !.fn = IF @ = "erase" /\ Top(t).addr = 0 /\ Top(t).size = ChipSize
                                        THEN "chipErase" ELSE @])
                /\ UNCHANGED answer
  <1>1. stack[t] # <<>>
    BY DEF Enter, At
  <1>2. QED
    BY <1>1, NoWrap DEF Enter

LEMMA CheckedOut ==
    ASSUME Types, Control, NEW t \in Threads, Enter(t),
           Top(t).addr + Top(t).size > ChipSize, Top(t).fn # "chipErase"
    PROVE  Return(t, "ERR_ADDR_OUT_OF_BOUND")
  <1>1. stack[t] # <<>>
    BY DEF Enter, At
  <1>2. (Top(t).addr + Top(t).size) % SizeMod = Top(t).addr + Top(t).size
    BY <1>1, NoWrap
  <1>3. (Top(t).addr + Top(t).size) % SizeMod > ChipSize
    BY <1>2
  <1>4. QED
    BY <1>3 DEF Enter

LEMMA CheckedIn ==
    ASSUME Types, Control, NEW t \in Threads, Enter(t),
           ~(Top(t).addr + Top(t).size > ChipSize /\ Top(t).fn # "chipErase")
    PROVE  /\ SetTop(t, [Top(t) EXCEPT !.at = "lock",
                            !.fn = IF @ = "erase" /\ Top(t).addr = 0 /\ Top(t).size = ChipSize
                                   THEN "chipErase" ELSE @])
           /\ UNCHANGED answer
  <1>1. stack[t] # <<>>
    BY DEF Enter, At
  <1>2. (Top(t).addr + Top(t).size) % SizeMod = Top(t).addr + Top(t).size
    BY <1>1, NoWrap
  <1>3. ~((Top(t).addr + Top(t).size) % SizeMod > ChipSize /\ Top(t).fn # "chipErase")
    BY <1>2
  <1>4. QED
    BY <1>3 DEF Enter

LEMMA EnterControl ==
    ASSUME Types, Types', Control, NEW t \in Threads, Enter(t)
    PROVE  Control'
  <1> DEFINE h == Top(t)
             c == call[t]
             g == stack[t][2]
             f == [h EXCEPT !.at = "lock",
                       !.fn = IF @ = "erase" /\ h.addr = 0 /\ h.size = ChipSize
                              THEN "chipErase" ELSE @]
  <1>1. stack[t] # <<>> /\ h.fn \in Writers \cup {"read"} /\ h.at = "enter"
    BY DEF Enter, At
  <1>2. h \in Frames /\ Placed(h, c) /\ (Len(stack[t]) = 1 => Single(h, c))
        /\ (Len(stack[t]) = 2 => Pair(h, g, c) /\ g \in Frames)
        /\ (Len(stack[t]) = 1 \/ Len(stack[t]) = 2)
    BY <1>1, TheOther DEF Types, Control, Shape
  <1>3. UNCHANGED << call, write_mode >>
    BY DEF Enter, ghost
  <1>4. CASE Return(t, "ERR_ADDR_OUT_OF_BOUND")
    BY <1>1, <1>3, <1>4, ControlReturn DEF Results
  <1>5. CASE /\ h.addr + h.size <= ChipSize \/ h.fn = "chipErase"
             /\ SetTop(t, f) /\ UNCHANGED answer
    <2>1. c.addr \in Nat /\ c.size \in Nat /\ c.fn \in Commands
      <3>1. c \in [fn : Commands, addr : Nat, size : 0 .. SizeMod - 1, version : Nat]
        BY DEF Types, CallsOK
      <3>2. QED
        BY <3>1, SfudAssumption
    <2> HIDE DEF h, c, g
    <2>2. /\ f.at = "lock" /\ f.addr = h.addr /\ f.size = h.size /\ f.from = h.from
          /\ f.gran = h.gran /\ f.result = h.result
          /\ \/ f.fn = h.fn
             \/ h.fn = "erase" /\ f.fn = "chipErase" /\ h.addr = 0 /\ h.size = ChipSize
      BY <1>2 DEF Frames
    <2> HIDE DEF f
    <2>3. PICK a \in Nat, s \in Nat, m \in Nat : a = h.addr /\ s = h.size /\ m = h.from
      BY <1>2, SfudAssumption DEF Frames
    <2>4. Main(h, c) => Main(f, c)
      BY <1>1, <2>2 DEF Main
    <2>5. Single(h, c) => Single(f, c)
      BY <1>1, <2>2, <2>4 DEF Single, Serves
    <2>6. Pair(h, g, c) => Pair(f, g, c)
      BY <1>1, <2>2, <2>4 DEF Pair, UnderErase, UnderAai
    <2>7. (Main(h, c) /\ (h.fn = "chipErase" => c.fn = "chipErase" \/ c.addr + c.size <= ChipSize))
             \/ InRange(c)
      <3>1. CASE Len(stack[t]) = 1
        <4>1. Main(h, c)
          BY <1>2, <3>1 DEF Single
        <4>2. h.fn = "chipErase" => c.fn = "chipErase" \/ (c.addr = 0 /\ c.size = ChipSize)
          BY <1>2 DEF Placed
        <4>3. QED
          BY <2>1, <4>1, <4>2, ChipAssumption
      <3>2. CASE Len(stack[t]) = 2
        <4>1. UnderErase(h, g, c) \/ UnderAai(h, g, c)
          BY <1>2, <3>2 DEF Pair
        <4>2. h.fn = "chipErase" => c.fn = "chipErase" \/ (c.addr = 0 /\ c.size = ChipSize)
          BY <1>2 DEF Placed
        <4>3. QED
          BY <2>1, <4>1, <4>2, ChipAssumption DEF UnderErase, UnderAai
      <3>3. QED
        BY <1>2, <3>1, <3>2
    <2>8. InRange(c)
      BY <1>5, <2>1, <2>3, <2>7 DEF InRange, Main
    <2>9. f.fn = "chipErase" /\ c.fn # "chipErase" => c.addr = 0 /\ c.size = ChipSize
      <3>1. h.fn = "erase" => Main(h, c)
        BY <1>2 DEF Single, Pair, UnderErase, UnderAai
      <3>2. CASE f.fn = h.fn
        BY <1>2, <3>2 DEF Placed
      <3>3. CASE h.fn = "erase" /\ h.addr = 0 /\ h.size = ChipSize
        <4>1. c.addr + m = 0 /\ m + s = c.size /\ s = ChipSize /\ m = 0
          BY <1>1, <2>3, <3>1, <3>3 DEF Main
        <4>2. QED
          BY <2>1, <2>3, <4>1
      <3>4. QED
        BY <2>2, <3>2, <3>3
    <2>10. Placed(f, c)
      BY <1>1, <1>2, <2>2, <2>8, <2>9 DEF Placed, Sizes, Ways, Way, Late, Loop, Writers
    <2>11. SetTop(t, f)
      BY <1>5 DEF f, h
    <2>12. QED
      BY <1>1, <1>3, <1>5, <2>5, <2>6, <2>10, <2>11, ControlMoves DEF Types, h, c, g
  <1>6. h.addr + h.size \in Int /\ ChipSize \in Int
    BY <1>2, SfudAssumption, ChipAssumption DEF Frames
  <1>7. CASE h.addr + h.size > ChipSize /\ h.fn # "chipErase"
    BY <1>4, <1>7, Checked
  <1>8. CASE ~(h.addr + h.size > ChipSize /\ h.fn # "chipErase")
    <2>1. SetTop(t, f) /\ UNCHANGED answer
      BY <1>8, Checked
    <2>2. h.addr + h.size <= ChipSize \/ h.fn = "chipErase"
      BY <1>6, <1>8
    <2>3. QED
      BY <1>5, <2>1, <2>2
  <1>9. QED
    BY <1>7, <1>8

LEMMA WriteControl ==
    ASSUME Types, Types', Control, NEW t \in Threads, sfud_write(t)
    PROVE  Control'
  <1> DEFINE h == Top(t)
             c == call[t]
             f == [h EXCEPT !.fn = write_mode]
  <1>1. stack[t] # <<>> /\ h.fn = "write" /\ h.at = "enter" /\ UNCHANGED << call, write_mode >>
    BY DEF sfud_write, At, ghost
  <1>2. h \in Frames /\ Placed(h, c) /\ Len(stack[t]) = 1 /\ Single(h, c)
        /\ (c.fn \in {"write", "eraseWrite"} /\ write_mode = "aai" => c.size > 0 \/ c.addr % 2 = 0)
    <2>1. h \in Frames /\ (Len(stack[t]) = 1 \/ Len(stack[t]) = 2)
      BY <1>1, TheOther DEF Types
    <2>2. Len(stack[t]) # 2
      BY <1>1 DEF Control, Shape, Pair, UnderErase, UnderAai
    <2>3. QED
      BY <1>1, <2>1, <2>2 DEF Control, Shape
  <1>3. CASE Return(t, "SUCCESS")
    BY <1>1, <1>3, ControlReturn DEF Results
  <1>4. CASE write_mode \in {"page", "aai"} /\ SetTop(t, f) /\ UNCHANGED answer
    <2>1. SetTop(t, f)
      BY <1>4
    <2> HIDE DEF h, c
    <2>2. /\ f.at = "enter" /\ f.addr = h.addr /\ f.size = h.size /\ f.from = h.from
          /\ f.gran = h.gran /\ f.result = h.result /\ f.fn = write_mode
      BY <1>1, <1>2 DEF Frames
    <2> HIDE DEF f
    <2>3. Main(h, c) /\ c.fn \in Commands /\ c.addr \in Nat
      <3>1. c \in [fn : Commands, addr : Nat, size : 0 .. SizeMod - 1, version : Nat]
        BY DEF Types, CallsOK, c
      <3>2. QED
        BY <1>2, <3>1 DEF Single
    <2>4. Single(f, c)
      BY <1>1, <1>2, <1>4, <2>2, <2>3 DEF Single, Serves, Main, Commands
    <2>5. h.addr = c.addr /\ h.size = c.size
      <3>1. PICK a \in Nat, s \in Nat, m \in Nat : a = h.addr /\ s = h.size /\ m = h.from
        BY <1>2, SfudAssumption DEF Frames
      <3>2. m = 0 /\ a = c.addr + m /\ m + s = c.size
        BY <1>1, <2>3, <3>1 DEF Main
      <3>3. QED
        BY <2>3, <3>1, <3>2
    <2>6. (write_mode = "aai" /\ h.addr % 2 # 0 => h.size > 0) /\ h.from = 0
      BY <1>1, <1>2, <2>3, <2>5 DEF Single, Serves, Commands, Main
    <2>7. Placed(f, c)
      BY <1>1, <1>2, <1>4, <2>2, <2>6 DEF Placed, Sizes, Ways, Way, Late, Loop
    <2>8. QED
      BY <1>1, <1>2, <1>4, <2>1, <2>4, <2>7, ControlMoves DEF Types, h, c
  <1>5. QED
    BY <1>3, <1>4 DEF sfud_write

LEMMA EraseWriteControl ==
    ASSUME Types, Types', Control, NEW t \in Threads, sfud_erase_write(t)
    PROVE  Control'
  <1> DEFINE h == Top(t)
             c == call[t]
             f == [h EXCEPT !.fn = "write", !.at = "enter"]
             e == Frame("erase", "enter", h.addr, h.size, 0, PageSize)
             k == [h EXCEPT !.at = "erased"]
  <1>1. stack[t] # <<>> /\ h.fn = "eraseWrite" /\ h.at \in {"enter", "erased"}
        /\ UNCHANGED << call, write_mode >>
    BY DEF sfud_erase_write, At, ghost
  <1>2. h \in Frames /\ Placed(h, c) /\ Len(stack[t]) = 1 /\ Single(h, c) /\ answer[t] = "none"
        /\ (c.fn \in {"write", "eraseWrite"} /\ write_mode = "aai" => c.size > 0 \/ c.addr % 2 = 0)
        /\ c.addr + c.size < SizeMod
    <2>1. h \in Frames /\ (Len(stack[t]) = 1 \/ Len(stack[t]) = 2)
      BY <1>1, TheOther DEF Types
    <2>2. Len(stack[t]) # 2
      BY <1>1 DEF Control, Shape, Pair, UnderErase, UnderAai
    <2>3. QED
      BY <1>1, <2>1, <2>2 DEF Control, Shape
  <1>3. CASE Return(t, h.result)
    <2>1. PICK r \in Results : r = h.result
      BY <1>2 DEF Frames
    <2>2. QED
      BY <1>1, <1>3, <2>1, ControlReturn
  <1>4. CASE h.at = "erased" /\ h.result = "SUCCESS" /\ SetTop(t, f) /\ UNCHANGED answer
    <2>1. SetTop(t, f)
      BY <1>4
    <2> HIDE DEF h, c
    <2>2. /\ f.at = "enter" /\ f.addr = h.addr /\ f.size = h.size /\ f.from = h.from
          /\ f.gran = h.gran /\ f.result = h.result /\ f.fn = "write"
      BY <1>1, <1>2 DEF Frames
    <2> HIDE DEF f
    <2>3. Single(f, c)
      BY <1>1, <1>2, <1>4, <2>2 DEF Single, Serves, Main
    <2>4. Placed(f, c)
      BY <1>1, <1>2, <1>4, <2>2 DEF Placed, Sizes, Ways, Late, Loop
    <2>5. QED
      BY <1>1, <1>2, <1>4, <2>1, <2>3, <2>4, ControlMoves DEF Types, h, c
  <1>5. CASE h.at = "enter" /\ Push(t, e, "erased") /\ UNCHANGED answer
    <2>1. h.addr \in Nat /\ h.size \in 0 .. SizeMod - 1 /\ h.from \in Nat
      BY <1>2 DEF Frames
    <2>2. e \in Frames /\ e.fn = "erase" /\ e.at = "enter" /\ e.addr = h.addr /\ e.size = h.size
          /\ e.from = 0 /\ e.gran = PageSize /\ e.result = "SUCCESS"
      <3>1. PICK a \in Nat, s \in 0 .. SizeMod - 1 : a = h.addr /\ s = h.size
        BY <2>1
      <3>2. "erase" \in Commands \cup {"page"} /\ 0 \in Nat /\ PageSize \in Nat \ {0}
        BY ChipAssumption DEF Commands
      <3>3. QED
        BY <3>1, <3>2, NewFrame
    <2>3. Push(t, e, "erased") /\ "erased" \in Labels
      BY <1>5 DEF Labels
    <2> HIDE DEF e
    <2>4. /\ stack'[t] # <<>> /\ Len(stack'[t]) = 2 /\ Top(t)' = e
          /\ stack'[t][2] = k /\ \A u \in Threads : u # t => stack'[u] = stack[u]
      BY <1>1, <1>2, <2>2, <2>3, Pushed DEF Types
    <2>5. k.fn = h.fn /\ k.addr = h.addr /\ k.size = h.size /\ k.from = h.from
          /\ k.gran = h.gran /\ k.result = h.result /\ k.at = "erased"
      BY <1>2 DEF Frames
    <2> HIDE DEF h, k
    <2>6. Main(h, c) /\ c.fn = "eraseWrite" /\ h.from = 0
      <3>1. c.fn \in Commands
        BY DEF Types, CallsOK
      <3>2. QED
        BY <1>1, <1>2, <1>5, <3>1 DEF Single, Serves, Main, Commands
    <2>7. Placed(k, c) /\ Main(k, c) /\ k.result = "SUCCESS"
      BY <1>1, <1>2, <1>5, <2>5, <2>6 DEF Placed, Main, Sizes, Ways, Late, Loop
    <2>8. Placed(e, c) /\ Main(e, c)
      BY <2>2, <2>6 DEF Placed, Main, Sizes, Ways, Way, Late, Loop
    <2>9. Pair(e, k, c)
      BY <1>1, <2>2, <2>5, <2>6, <2>7, <2>8 DEF Pair, UnderErase
    <2>10. ASSUME NEW u \in Threads PROVE Shape(u)'
      <3>1. CASE u = t
        BY <1>1, <1>2, <1>5, <2>4, <2>8, <2>9, <3>1 DEF Shape
      <3>2. CASE u # t
        BY <1>1, <1>5, <2>4, <3>2, OtherShape
      <3>3. QED
        BY <3>1, <3>2
    <2>11. QED
      BY <2>10 DEF Control
  <1>6. QED
    BY <1>3, <1>4, <1>5 DEF sfud_erase_write, At

LEMMA OddByteControl ==
    ASSUME Types, Types', Control, NEW t \in Threads, OddByte(t)
    PROVE  Control'
  <1> DEFINE h == Top(t)
             c == call[t]
             e == Frame("page", "enter", h.addr, 1, h.from, 1)
  <1>1. PICK l \in {"headDone", "tailDone"} :
             /\ stack[t] # <<>> /\ h.fn = "aai" /\ h.at = IF l = "headDone" THEN "head" ELSE "tail"
             /\ Push(t, e, l)
    BY DEF OddByte, At
  <1> DEFINE k == [h EXCEPT !.at = l]
  <1>2. UNCHANGED << call, answer, write_mode >>
    BY DEF OddByte, ghost
  <1>3. h \in Frames /\ Placed(h, c) /\ Len(stack[t]) = 1 /\ Single(h, c) /\ answer[t] = "none"
        /\ (c.fn \in {"write", "eraseWrite"} /\ write_mode = "aai" => c.size > 0 \/ c.addr % 2 = 0)
        /\ c.addr + c.size < SizeMod
    <2>1. h \in Frames /\ (Len(stack[t]) = 1 \/ Len(stack[t]) = 2)
      BY <1>1, TheOther DEF Types
    <2>2. Len(stack[t]) # 2
      BY <1>1 DEF Control, Shape, Pair, UnderErase, UnderAai
    <2>3. QED
      BY <1>1, <2>1, <2>2 DEF Control, Shape
  <1>4. h.size > 0 /\ h.size \in 0 .. SizeMod - 1 /\ h.addr \in Nat /\ h.from \in Nat
    <2>1. h.size > 0
      BY <1>1, <1>3 DEF Placed, Sizes
    <2>2. QED
      BY <1>3, <2>1 DEF Frames
  <1>5. e \in Frames /\ e.fn = "page" /\ e.at = "enter" /\ e.addr = h.addr /\ e.size = 1
        /\ e.from = h.from /\ e.gran = 1 /\ e.result = "SUCCESS"
    <2>1. PICK a \in Nat, m \in Nat : a = h.addr /\ m = h.from
      BY <1>4
    <2>2. PICK n \in 0 .. SizeMod - 1, g \in Nat \ {0} : n = 1 /\ g = 1
      BY <1>4, SfudAssumption
    <2>3. PICK fn \in Commands \cup {"page"} : fn = "page"
      OBVIOUS
    <2> DEFINE p == Frame(fn, "enter", a, n, m, g)
    <2>4. p \in Frames /\ p.fn = fn /\ p.at = "enter" /\ p.addr = a /\ p.size = n
          /\ p.from = m /\ p.gran = g /\ p.result = "SUCCESS"
      BY NewFrame
    <2>5. e = p
      BY <2>1, <2>2, <2>3
    <2>6. QED
      BY <2>1, <2>2, <2>3, <2>4, <2>5
  <1>6. Push(t, e, l) /\ l \in Labels
    BY <1>1 DEF Labels
  <1> HIDE DEF e
  <1>7. /\ stack'[t] # <<>> /\ Len(stack'[t]) = 2 /\ Top(t)' = e
        /\ stack'[t][2] = k /\ \A u \in Threads : u # t => stack'[u] = stack[u]
    BY <1>1, <1>3, <1>5, <1>6, Pushed DEF Types
  <1>8. Like(h, k) /\ k.result = h.result /\ k.at = l
    BY <1>3 DEF Frames, Like
  <1> HIDE DEF h, k
  <1>9. Main(h, c) /\ c.fn \in {"write", "eraseWrite"}
    <2>1. c.fn \in Commands
      BY DEF Types, CallsOK
    <2>2. QED
      BY <1>1, <1>3, <2>1 DEF Single, Serves, Commands
  <1>10. h.result = "SUCCESS" /\ InRange(c)
    BY <1>1, <1>3 DEF Placed, Late
  <1>11. Placed(k, c) /\ Main(k, c) /\ k.result = "SUCCESS"
    BY <1>1, <1>3, <1>8, <1>9, <1>10 DEF Placed, Main, Sizes, Ways, Way, Late, Loop, Like
  <1>12. Placed(e, c)
    BY <1>5 DEF Placed, Sizes, Ways, Way, Late, Loop
  <1>13. UnderAai(e, k, c)
    <2>1. PICK m \in Nat : m = h.from
      BY <1>4
    <2>2. QED
      BY <1>1, <1>5, <1>8, <1>9, <1>10, <2>1 DEF UnderAai, Like, Main
  <1>14. Pair(e, k, c)
    BY <1>11, <1>13 DEF Pair
  <1>15. ASSUME NEW u \in Threads PROVE Shape(u)'
    <2>1. CASE u = t
      BY <1>2, <1>3, <1>7, <1>12, <1>14, <2>1 DEF Shape
    <2>2. CASE u # t
      BY <1>2, <1>7, <2>2, OtherShape
    <2>3. QED
      BY <2>1, <2>2
  <1>16. QED
    BY <1>15 DEF Control

LEMMA CallControl ==
    ASSUME AaiFits, SumsFit, Types, Control, NEW t \in Threads, Call(t)
    PROVE  Control'
  <1>1. PICK r \in Requests[t] :
             /\ call' = [call EXCEPT ![t] = [fn |-> r[1], addr |-> r[2], size |-> r[3],
                                             version |-> calls + 1]]
             /\ stack' = [stack EXCEPT ![t] = << Frame(r[1], "enter", r[2], r[3], 0, PageSize) >>]
    BY DEF Call
  <1> DEFINE f == Frame(r[1], "enter", r[2], r[3], 0, PageSize)
             c == [fn |-> r[1], addr |-> r[2], size |-> r[3], version |-> calls + 1]
  <1>2. r[1] \in Commands /\ r[2] \in Nat /\ r[3] \in 0 .. SizeMod - 1
    BY SfudAssumption DEF Commands
  <1>3. f \in Frames /\ f.fn = r[1] /\ f.at = "enter" /\ f.addr = r[2] /\ f.size = r[3]
        /\ f.from = 0 /\ f.gran = PageSize /\ f.result = "SUCCESS"
    <2>1. PICK fn \in Commands \cup {"page"}, a \in Nat, n \in 0 .. SizeMod - 1 :
              fn = r[1] /\ a = r[2] /\ n = r[3]
      BY <1>2
    <2>2. PICK m \in Nat, g \in Nat \ {0} : m = 0 /\ g = PageSize
      BY ChipAssumption
    <2> DEFINE p == Frame(fn, "enter", a, n, m, g)
    <2>3. p \in Frames /\ p.fn = fn /\ p.at = "enter" /\ p.addr = a /\ p.size = n
          /\ p.from = m /\ p.gran = g /\ p.result = "SUCCESS"
      BY NewFrame
    <2>4. f = p
      BY <2>1, <2>2
    <2>5. QED
      BY <2>1, <2>2, <2>3, <2>4
  <1>4. c.fn = r[1] /\ c.addr = r[2] /\ c.size = r[3]
    OBVIOUS
  <1> HIDE DEF f, c
  <1>5. << f >> # <<>> /\ Len(<< f >>) = 1 /\ Head(<< f >>) = f
    BY <1>3
  <1>6. /\ stack'[t] = << f >> /\ call'[t] = c /\ answer'[t] = "none" /\ write_mode' = write_mode
        /\ \A u \in Threads : u # t => /\ stack'[u] = stack[u] /\ call'[u] = call[u]
                                       /\ answer'[u] = answer[u]
    BY <1>1 DEF Call, Types, StackOK, CallsOK, f, c
  <1>7. Main(f, c)
    BY <1>2, <1>3, <1>4, SfudAssumption DEF Main
  <1>8. Single(f, c)
    BY <1>2, <1>3, <1>4, <1>7 DEF Single, Serves, Commands
  <1>9. Placed(f, c)
    BY <1>2, <1>3, <1>4 DEF Placed, Sizes, Ways, Way, Late, Loop, Commands
  <1>10. c.fn \in {"write", "eraseWrite"} /\ write_mode = "aai" => c.size > 0 \/ c.addr % 2 = 0
    <2>1. write_mode \in WriteModes
      BY DEF Types, CallsOK
    <2>2. QED
      BY <1>4, <2>1 DEF AaiFits
  <1>11. c.addr + c.size < SizeMod
    BY <1>4 DEF SumsFit
  <1>12. ASSUME NEW u \in Threads PROVE Shape(u)'
    <2>1. CASE u = t
      BY <1>5, <1>6, <1>8, <1>9, <1>10, <1>11, <2>1 DEF Shape, Top
    <2>2. CASE u # t
      BY <1>6, <2>2, OtherShape
    <2>3. QED
      BY <2>1, <2>2
  <1>13. QED
    BY <1>12 DEF Control

LEMMA NobodyControl ==
    ASSUME Control, CycleEnds \/ UNCHANGED vars
    PROVE  Control'
  <1>1. UNCHANGED << stack, call, answer, write_mode >>
    BY DEF CycleEnds, vars, ghost, port
  <1>2. QED
    BY <1>1, OtherShape DEF Control

LEMMA ControlStep == AaiFits /\ SumsFit /\ Types /\ Types' /\ Control /\ [Next]_vars => Control'
  <1> SUFFICES ASSUME AaiFits, SumsFit, Types, Types', Control, [Next]_vars PROVE Control'
    OBVIOUS
  <1>1. ASSUME NEW t \in Threads, Call(t) \/ Driver(t) PROVE Control'
    BY <1>1, CallControl, WriteControl, EraseWriteControl, EnterControl, LockControl,
       UnlockControl, WriteEnableControl, EnableStatusControl, FillControl, CommandControl,
       WaitBusyControl, ReadDataControl, DisableControl, DisableStatusControl, OddByteControl,
       OddByteDoneControl, AbortControl DEF Driver
  <1>2. QED
    BY <1>1, NobodyControl DEF Next, Rest

LEMMA ControlInit == Init => Control
  BY DEF Init, Control, Shape

-----------------------------------------------------------------------------
\* Exclusion: with a lock in the port one thread at a time has the bus.

\* Thread t is between its calls of lock and unlock.
Bus == Labels \ {"enter", "erased", "lock"}
Inner(t) == Len(stack[t]) = 2 /\ stack[t][2].fn = "aai"
OnBus(t) == stack[t] # <<>> /\ (Top(t).at \in Bus \/ Inner(t))

\* The lock is held by whoever is on the bus; aai_write waits for itself there.
Exclusion == Locking => \A t \in Threads : /\ OnBus(t) <=> lock_ = t
                                           /\ Inner(t) => Top(t).at \in {"enter", "lock"}

\* The steps inside a function that has the bus.
Works(t) == \/ WriteEnable(t) \/ WriteEnableStatus(t) \/ Fill(t) \/ Command(t) \/ WaitBusy(t)
            \/ ReadData(t) \/ WriteDisable(t) \/ WriteDisableStatus(t) \/ OddByteDone(t) \/ Abort(t)

LEMMA WorksAt ==
    ASSUME Types, Control, NEW t \in Threads, Works(t)
    PROVE  /\ stack[t] # <<>> /\ Top(t) \in Frames /\ Top(t).at \in Bus
           /\ \E f : SetTop(t, f) /\ f.at \in Bus
           /\ UNCHANGED << lock_, ghost, answer >>
  <1> DEFINE h == Top(t)
  <1>1. stack[t] # <<>> /\ h.at \in Bus
    BY DEF Works, WriteEnable, WriteEnableStatus, Fill, Command, WaitBusy, ReadData, WriteDisable,
           WriteDisableStatus, OddByteDone, Abort, At, Bus, Labels
  <1>2. h \in Frames
    BY <1>1, TheOther DEF Types
  <1>3. UNCHANGED << lock_, ghost, answer >>
    BY DEF Works, WriteEnable, WriteEnableStatus, Fill, Command, WaitBusy, ReadData, WriteDisable,
           WriteDisableStatus, OddByteDone, Abort
  <1>4. ASSUME NEW l \in Bus, Goto(t, l) PROVE \E f : SetTop(t, f) /\ f.at \in Bus
    <2>1. SetTop(t, [h EXCEPT !.at = l]) /\ [h EXCEPT !.at = l].at = l
      BY <1>2, <1>4 DEF Goto, Frames
    <2>2. QED
      BY <2>1
  <1>5. ASSUME NEW l \in Bus, NEW r, Fail(t, l, r) PROVE \E f : SetTop(t, f) /\ f.at \in Bus
    <2>1. SetTop(t, [h EXCEPT !.at = l, !.result = r]) /\ [h EXCEPT !.at = l, !.result = r].at = l
      BY <1>2, <1>5 DEF Fail, Frames
    <2>2. QED
      BY <2>1
  <1>6. Exit(t) \in Bus
    BY DEF Exit, Bus, Labels
  <1>7. \E f : SetTop(t, f) /\ f.at \in Bus
    <2>1. CASE WriteEnable(t)
      BY <1>4, <1>5, <1>6, <2>1 DEF WriteEnable, Bus, Labels
    <2>2. CASE WriteEnableStatus(t)
      <3> DEFINE l == CASE Top(t).fn = "page" -> "fill"
                        [] Top(t).fn = "aai" /\ Top(t).size < 2 -> "wrdi"
                        [] OTHER -> "command"
      <3>1. l \in Bus
        BY DEF Bus, Labels
      <3>2. Goto(t, l) \/ Fail(t, Exit(t), "ERR_READ") \/ Fail(t, Exit(t), "ERR_WRITE")
        BY <2>2 DEF WriteEnableStatus
      <3> HIDE DEF l
      <3>3. QED
        BY <1>4, <1>5, <1>6, <3>1, <3>2
    <2>3. CASE Fill(t)
      BY <1>4, <2>3 DEF Fill, Bus, Labels
    <2>4. CASE Command(t)
      <3>1. CASE Fail(t, Exit(t), "ERR_WRITE")
        BY <1>5, <1>6, <3>1
      <3>2. CASE SetTop(t, [h EXCEPT !.at = "busy", !.retry = RetryTimes])
        <4>1. [h EXCEPT !.at = "busy", !.retry = RetryTimes].at = "busy"
          BY <1>2 DEF Frames
        <4>2. QED
          BY <3>2, <4>1 DEF Bus, Labels
      <3>3. QED
        BY <2>4, <3>1, <3>2 DEF Command
    <2>5. CASE WaitBusy(t)
      <3>1. CASE Fail(t, Exit(t), "ERR_TIMEOUT")
        BY <1>5, <1>6, <3>1
      <3>2. CASE SetTop(t, [h EXCEPT !.retry = @ - 1])
        <4>1. [h EXCEPT !.retry = @ - 1].at = h.at
          BY <1>2 DEF Frames
        <4>2. QED
          BY <1>1, <3>2, <4>1
      <3>3. CASE SetTop(t, AfterCycle(h))
        <4>1. CASE h.fn = "read"
          <5>1. Goto(t, "data")
            BY <3>3, <4>1 DEF AfterCycle, Goto
          <5>2. QED
            BY <1>4, <5>1 DEF Bus, Labels
        <4>2. CASE h.fn \in Writers
          <5>1. AfterCycle(h).at \in {"command", "wrdi", "wren"}
            BY <1>2, <4>2, CycleAdvances
          <5>2. QED
            BY <3>3, <5>1 DEF Bus, Labels
        <4>3. QED
          BY <2>5, <4>1, <4>2 DEF WaitBusy, At
      <3>4. QED
        BY <2>5, <3>1, <3>2, <3>3 DEF WaitBusy
    <2>6. CASE ReadData(t)
      BY <1>4, <1>5, <2>6 DEF ReadData, Bus, Labels
    <2>7. CASE WriteDisable(t)
      BY <1>4, <1>5, <2>7 DEF WriteDisable, Bus, Labels
    <2>8. CASE WriteDisableStatus(t)
      <3>1. \/ \E l \in {"tail", "unlock"} : Goto(t, l)
            \/ Fail(t, "abort", "ERR_READ") \/ Fail(t, "abort", "ERR_WRITE")
        BY <2>8 DEF WriteDisableStatus
      <3>2. QED
        BY <1>4, <1>5, <3>1 DEF Bus, Labels
    <2>9. CASE OddByteDone(t)
      <3>1. CASE Goto(t, "unlock") \/ Goto(t, "abort")
        BY <1>4, <3>1 DEF Bus, Labels
      <3>2. CASE SetTop(t, [Advance(h, 1) EXCEPT !.at = "wren"])
        <4>1. Advance(h, 1) \in Frames
          BY <1>2, Advanced
        <4>2. [Advance(h, 1) EXCEPT !.at = "wren"].at = "wren"
          BY <4>1 DEF Frames
        <4>3. QED
          BY <3>2, <4>2 DEF Bus, Labels
      <3>3. QED
        BY <2>9, <3>1, <3>2 DEF OddByteDone
    <2>10. CASE Abort(t)
      <3>1. \E l \in {"abortStatus", "unlock"} : Goto(t, l)
        BY <2>10 DEF Abort
      <3>2. QED
        BY <1>4, <3>1 DEF Bus, Labels
    <2>11. QED
      BY <2>1, <2>2, <2>3, <2>4, <2>5, <2>6, <2>7, <2>8, <2>9, <2>10 DEF Works
  <1>8. QED
    BY <1>1, <1>2, <1>3, <1>7

LEMMA OtherBus ==
    ASSUME NEW u \in Threads, stack'[u] = stack[u]
    PROVE  (OnBus(u)' <=> OnBus(u)) /\ (Inner(u)' <=> Inner(u)) /\ Top(u)' = Top(u)
  BY DEF OnBus, Inner, Top

LEMMA InnerIsPage ==
    ASSUME StackOK, Control, NEW t \in Threads, Inner(t)
    PROVE  /\ stack[t] # <<>> /\ Top(t).fn = "page" /\ UnderAai(Top(t), stack[t][2], call[t])
           /\ stack[t][2] \in Frames /\ OnBus(t)
  <1>1. stack[t] # <<>>
    <2>1. stack[t] \in Seq(Frames)
      BY DEF StackOK
    <2>2. QED
      BY <2>1, EmptySeq DEF Inner
  <1>2. stack[t][2] \in Frames
    BY <1>1, TheOther DEF Inner
  <1>3. UnderAai(Top(t), stack[t][2], call[t])
    BY <1>1 DEF Control, Shape, Inner, Pair, UnderErase
  <1>4. QED
    BY <1>1, <1>2, <1>3 DEF OnBus, UnderAai

LEMMA WorksOnBus ==
    ASSUME Types, Control, NEW t \in Threads, Works(t)
    PROVE  /\ OnBus(t) /\ OnBus(t)' /\ (Inner(t)' <=> Inner(t))
           /\ \A u \in Threads : u # t => stack'[u] = stack[u]
  <1>1. PICK f : SetTop(t, f) /\ f.at \in Bus
    BY WorksAt
  <1>2. stack[t] # <<>> /\ Top(t).at \in Bus
    BY WorksAt
  <1>3. /\ stack'[t] # <<>> /\ Len(stack'[t]) = Len(stack[t]) /\ Top(t)' = f
        /\ Len(stack[t]) = 2 => stack'[t][2] = stack[t][2]
        /\ \A u \in Threads : u # t => stack'[u] = stack[u]
    BY <1>1, <1>2, TopChanges DEF Types
  <1>4. QED
    BY <1>1, <1>2, <1>3 DEF OnBus, Inner, Bus, Labels

\* What a return does to the bus.
LEMMA ReturnsOnBus ==
    ASSUME Types, Control, NEW t \in Threads, stack[t] # <<>>, NEW r \in Results, Return(t, r)
    PROVE  /\ ~Inner(t)' /\ (OnBus(t)' <=> Inner(t))
           /\ \A u \in Threads : u # t => stack'[u] = stack[u]
           /\ Inner(t) => Top(t)'.at \in {"headDone", "tailDone"}
  <1> DEFINE g == stack[t][2]
             f == [g EXCEPT !.result = r]
  <1>1. /\ \/ Len(stack[t]) = 1 /\ stack'[t] = <<>>
           \/ /\ Len(stack[t]) = 2 /\ g \in Frames /\ stack'[t] # <<>> /\ Len(stack'[t]) = 1
              /\ Top(t)' = f
        /\ \A u \in Threads : u # t => stack'[u] = stack[u]
    BY ReturnsTo DEF Types
  <1>2. CASE Len(stack[t]) = 1 /\ stack'[t] = <<>>
    <2>1. Len(stack'[t]) # 2
      BY <1>2
    <2>2. QED
      BY <1>1, <1>2, <2>1 DEF OnBus, Inner
  <1>3. CASE /\ Len(stack[t]) = 2 /\ g \in Frames /\ stack'[t] # <<>> /\ Len(stack'[t]) = 1
             /\ Top(t)' = f
    <2>1. UnderErase(Top(t), g, call[t]) \/ UnderAai(Top(t), g, call[t])
      BY <1>3 DEF Control, Shape, Pair
    <2>2. f.at = g.at
      BY <1>3 DEF Frames
    <2>3. QED
      BY <1>1, <1>3, <2>1, <2>2 DEF OnBus, Inner, UnderErase, UnderAai, Bus, Labels
  <1>4. QED
    BY <1>1, <1>2, <1>3

LEMMA OddByteOnBus ==
    ASSUME Types, Control, NEW t \in Threads, OddByte(t)
    PROVE  /\ OnBus(t) /\ ~Inner(t) /\ OnBus(t)' /\ Inner(t)'
           /\ Top(t)'.at = "enter" /\ Len(stack[t]) = 1
           /\ \A u \in Threads : u # t => stack'[u] = stack[u]
  <1> DEFINE h == Top(t)
             e == Frame("page", "enter", h.addr, 1, h.from, 1)
  <1>1. PICK l \in {"headDone", "tailDone"} :
             /\ stack[t] # <<>> /\ h.fn = "aai" /\ h.at = IF l = "headDone" THEN "head" ELSE "tail"
             /\ Push(t, e, l)
    BY DEF OddByte, At
  <1>2. h \in Frames /\ Len(stack[t]) = 1 /\ Placed(h, call[t])
    <2>1. h \in Frames /\ (Len(stack[t]) = 1 \/ Len(stack[t]) = 2)
      BY <1>1, TheOther DEF Types
    <2>2. Len(stack[t]) # 2
      BY <1>1 DEF Control, Shape, Pair, UnderErase, UnderAai
    <2>3. QED
      BY <1>1, <2>1, <2>2 DEF Control, Shape
  <1>3. e \in Frames
    <2>1. PICK a \in Nat, m \in Nat : a = h.addr /\ m = h.from
      BY <1>2 DEF Frames
    <2>2. h.size > 0 /\ h.size \in 0 .. SizeMod - 1
      BY <1>1, <1>2 DEF Placed, Sizes, Frames
    <2>3. PICK n \in 0 .. SizeMod - 1, g \in Nat \ {0} : n = 1 /\ g = 1
      BY <2>2, SfudAssumption
    <2>4. PICK fn \in Commands \cup {"page"} : fn = "page"
      OBVIOUS
    <2>5. Frame(fn, "enter", a, n, m, g) \in Frames
      BY NewFrame
    <2>6. QED
      BY <2>1, <2>3, <2>4, <2>5
  <1>4. e.at = "enter"
    BY DEF Frame
  <1>5. Push(t, e, l) /\ l \in Labels
    BY <1>1 DEF Labels
  <1> HIDE DEF e
  <1>6. /\ stack'[t] # <<>> /\ Len(stack'[t]) = 2 /\ Top(t)' = e
        /\ stack'[t][2] = [h EXCEPT !.at = l] /\ \A u \in Threads : u # t => stack'[u] = stack[u]
    BY <1>1, <1>2, <1>3, <1>5, Pushed DEF Types
  <1>7. [h EXCEPT !.at = l].fn = "aai"
    BY <1>1, <1>2 DEF Frames
  <1>8. h.at \in Bus
    BY <1>1 DEF Bus, Labels
  <1>9. QED
    BY <1>1, <1>2, <1>4, <1>6, <1>7, <1>8 DEF OnBus, Inner

\* The steps before and between: Call, and what sfud_write and sfud_erase_write do.
Outside(t) == Call(t) \/ sfud_write(t) \/ sfud_erase_write(t)

LEMMA OutsideOffBus ==
    ASSUME Types, Types', Control, Control', NEW t \in Threads, Outside(t)
    PROVE  /\ ~OnBus(t) /\ ~OnBus(t)'
           /\ \A u \in Threads : u # t => stack'[u] = stack[u]
           /\ UNCHANGED << lock_, chip >>
  <1>1. ~OnBus(t)
    <2>1. stack[t] # <<>> => Top(t).at \in {"enter", "erased"} /\ Top(t).fn \in {"write", "eraseWrite"}
      BY DEF Outside, Call, sfud_write, sfud_erase_write, At
    <2>2. ~Inner(t) \/ stack[t] = <<>>
      BY <2>1, InnerIsPage DEF Types
    <2>3. QED
      BY <2>1, <2>2 DEF OnBus, Bus
  <1>2. UNCHANGED << lock_, chip >>
    BY DEF Outside, Call, sfud_write, sfud_erase_write
  <1>3. ASSUME stack[t] # <<>>, NEW r \in Results, Return(t, r)
        PROVE  ~OnBus(t)' /\ \A u \in Threads : u # t => stack'[u] = stack[u]
    BY <1>1, <1>3, ReturnsOnBus DEF OnBus
  <1>4. ASSUME stack[t] # <<>>, NEW f, SetTop(t, f), f.at = "enter"
        PROVE  ~OnBus(t)' /\ \A u \in Threads : u # t => stack'[u] = stack[u]
    <2>1. /\ stack'[t] # <<>> /\ Len(stack'[t]) = Len(stack[t]) /\ Top(t)' = f
          /\ Len(stack[t]) = 2 => stack'[t][2] = stack[t][2]
          /\ \A u \in Threads : u # t => stack'[u] = stack[u]
      BY <1>4, TopChanges DEF Types
    <2>2. QED
      BY <1>1, <1>4, <2>1 DEF OnBus, Inner, Bus
  <1>5. CASE Call(t)
    <2>1. PICK q \in Requests[t] :
             stack' = [stack EXCEPT ![t] = << Frame(q[1], "enter", q[2], q[3], 0, PageSize) >>]
      BY <1>5 DEF Call
    <2> DEFINE f == Frame(q[1], "enter", q[2], q[3], 0, PageSize)
    <2>2. f.at = "enter"
      BY DEF Frame
    <2> HIDE DEF f
    <2>3. Head(<< f >>) = f /\ Len(<< f >>) = 1
      OBVIOUS
    <2>4. stack'[t] = << f >> /\ \A u \in Threads : u # t => stack'[u] = stack[u]
      BY <2>1 DEF Types, StackOK, f
    <2>5. QED
      BY <1>1, <1>2, <2>2, <2>3, <2>4 DEF OnBus, Inner, Top, Bus
  <1>6. CASE sfud_write(t)
    <2>1. stack[t] # <<>> /\ Top(t).at = "enter" /\ Top(t) \in Frames
      BY <1>6, TheOther DEF sfud_write, At, Types
    <2>2. [Top(t) EXCEPT !.fn = write_mode].at = "enter"
      BY <2>1 DEF Frames
    <2>3. QED
      BY <1>1, <1>2, <1>3, <1>4, <1>6, <2>1, <2>2 DEF sfud_write, Results
  <1>7. CASE sfud_erase_write(t)
    <2>1. stack[t] # <<>> /\ Top(t) \in Frames /\ Top(t).fn = "eraseWrite"
      BY <1>7, TheOther DEF sfud_erase_write, At, Types
    <2>2. [Top(t) EXCEPT !.fn = "write", !.at = "enter"].at = "enter"
      BY <2>1 DEF Frames
    <2>3. CASE Return(t, Top(t).result)
      <3>1. Top(t).result \in Results
        BY <2>1 DEF Frames
      <3>2. QED
        BY <1>1, <1>2, <1>3, <2>1, <2>3, <3>1
    <2>4. CASE SetTop(t, [Top(t) EXCEPT !.fn = "write", !.at = "enter"])
      BY <1>1, <1>2, <1>4, <2>1, <2>2, <2>4
    <2>5. CASE Push(t, Frame("erase", "enter", Top(t).addr, Top(t).size, 0, PageSize), "erased")
      <3> DEFINE h == Top(t)
                 e == Frame("erase", "enter", h.addr, h.size, 0, PageSize)
      <3>1. Len(stack[t]) = 1
        <4>1. Len(stack[t]) = 1 \/ Len(stack[t]) = 2
          BY <2>1, TheOther DEF Types
        <4>2. Len(stack[t]) # 2
          BY <2>1 DEF Control, Shape, Pair, UnderErase, UnderAai
        <4>3. QED
          BY <4>1, <4>2
      <3>2. e \in Frames
        <4>1. PICK a \in Nat, s \in 0 .. SizeMod - 1 : a = h.addr /\ s = h.size
          BY <2>1 DEF Frames
        <4>2. "erase" \in Commands \cup {"page"} /\ 0 \in Nat /\ PageSize \in Nat \ {0}
          BY ChipAssumption DEF Commands
        <4>3. QED
          BY <4>1, <4>2, NewFrame
      <3>3. e.at = "enter" /\ e.fn = "erase"
        BY DEF Frame
      <3>4. Push(t, e, "erased") /\ "erased" \in Labels
        BY <2>5 DEF Labels
      <3> HIDE DEF e
      <3>5. /\ stack'[t] # <<>> /\ Len(stack'[t]) = 2 /\ Top(t)' = e
            /\ stack'[t][2] = [h EXCEPT !.at = "erased"]
            /\ \A u \in Threads : u # t => stack'[u] = stack[u]
        BY <2>1, <3>1, <3>2, <3>4, Pushed DEF Types
      <3>6. [h EXCEPT !.at = "erased"].fn = "eraseWrite"
        BY <2>1 DEF Frames
      <3>7. QED
        BY <1>1, <1>2, <3>3, <3>5, <3>6 DEF OnBus, Inner, Bus
    <2>6. QED
      BY <1>7, <2>3, <2>4, <2>5 DEF sfud_erase_write
  <1>8. QED
    BY <1>1, <1>2, <1>5, <1>6, <1>7 DEF Outside

LEMMA EnterOnBus ==
    ASSUME Types, Control, NEW t \in Threads, Enter(t)
    PROVE  /\ OnBus(t)' <=> OnBus(t)
           /\ Inner(t)' => Inner(t) /\ Top(t)'.at \in {"enter", "lock"}
           /\ \A u \in Threads : u # t => stack'[u] = stack[u]
           /\ UNCHANGED << lock_, chip >>
  <1> DEFINE h == Top(t)
             f == [h EXCEPT !.at = "lock",
                       !.fn = IF @ = "erase" /\ h.addr = 0 /\ h.size = ChipSize
                              THEN "chipErase" ELSE @]
  <1>1. stack[t] # <<>> /\ h.at = "enter" /\ UNCHANGED << lock_, chip >>
    BY DEF Enter, At
  <1>2. h \in Frames
    BY <1>1, TheOther DEF Types
  <1>3. f.at = "lock"
    BY <1>2 DEF Frames
  <1>4. OnBus(t) <=> Inner(t)
    BY <1>1 DEF OnBus, Bus
  <1>5. CASE Return(t, "ERR_ADDR_OUT_OF_BOUND")
    BY <1>1, <1>4, <1>5, ReturnsOnBus DEF Results
  <1>6. CASE SetTop(t, f)
    <2> HIDE DEF f
    <2>1. /\ stack'[t] # <<>> /\ Len(stack'[t]) = Len(stack[t]) /\ Top(t)' = f
          /\ Len(stack[t]) = 2 => stack'[t][2] = stack[t][2]
          /\ \A u \in Threads : u # t => stack'[u] = stack[u]
      BY <1>1, <1>6, TopChanges DEF Types
    <2>2. QED
      BY <1>1, <1>3, <1>4, <2>1 DEF OnBus, Inner, Bus
  <1>7. QED
    BY <1>5, <1>6 DEF Enter

LEMMA LockOnBus ==
    ASSUME Types, Control, NEW t \in Threads, Lock(t)
    PROVE  /\ OnBus(t)' /\ (OnBus(t) <=> Inner(t)) /\ (Inner(t)' <=> Inner(t))
           /\ \A u \in Threads : u # t => stack'[u] = stack[u]
  <1> DEFINE h == Top(t)
             f == [h EXCEPT !.at = Start(h)]
  <1>1. stack[t] # <<>> /\ h.at = "lock" /\ SetTop(t, f)
    BY DEF Lock, At, Goto
  <1>2. h \in Frames
    BY <1>1, TheOther DEF Types
  <1>3. f.at \in Bus
    BY <1>2 DEF Frames, Start, Bus, Labels
  <1> HIDE DEF f
  <1>4. /\ stack'[t] # <<>> /\ Len(stack'[t]) = Len(stack[t]) /\ Top(t)' = f
        /\ Len(stack[t]) = 2 => stack'[t][2] = stack[t][2]
        /\ \A u \in Threads : u # t => stack'[u] = stack[u]
    BY <1>1, TopChanges DEF Types
  <1>5. QED
    BY <1>1, <1>3, <1>4 DEF OnBus, Inner, Bus

LEMMA UnlockOnBus ==
    ASSUME Types, Control, NEW t \in Threads, Unlock(t)
    PROVE  /\ OnBus(t) /\ stack[t] # <<>> /\ Top(t).at = "unlock"
           /\ ~Inner(t)' /\ (OnBus(t)' <=> Inner(t))
           /\ \A u \in Threads : u # t => stack'[u] = stack[u]
  <1>1. stack[t] # <<>> /\ Top(t).at = "unlock" /\ Return(t, Top(t).result)
    BY DEF Unlock, At
  <1>2. Top(t).result \in Results
    BY <1>1, TheOther DEF Types, Frames
  <1>3. QED
    BY <1>1, <1>2, ReturnsOnBus DEF OnBus, Bus, Labels

LEMMA ExclusionStep ==
    ASSUME Types, Types', Control, Control', Exclusion, [Next]_vars
    PROVE  Exclusion'
  <1> SUFFICES ASSUME Locking
               PROVE  \A u \in Threads : /\ OnBus(u)' <=> lock_' = u
                                         /\ Inner(u)' => Top(u)'.at \in {"enter", "lock"}
    BY DEF Exclusion
  <1>1. \A u \in Threads : (OnBus(u) <=> lock_ = u) /\ (Inner(u) => Top(u).at \in {"enter", "lock"})
    BY DEF Exclusion
  <1>2. ASSUME NEW t \in Threads, \A u \in Threads : u # t => stack'[u] = stack[u], UNCHANGED lock_,
               OnBus(t)' <=> OnBus(t), Inner(t)' => Top(t)'.at \in {"enter", "lock"}
        PROVE  Exclusion'
    <2>1. ASSUME NEW u \in Threads
          PROVE  (OnBus(u)' <=> lock_' = u) /\ (Inner(u)' => Top(u)'.at \in {"enter", "lock"})
      <3>1. CASE u = t
        BY <1>1, <1>2, <3>1
      <3>2. CASE u # t
        BY <1>1, <1>2, <3>2, OtherBus
      <3>3. QED
        BY <3>1, <3>2
    <2>2. QED
      BY <2>1 DEF Exclusion
  <1>3. ASSUME NEW t \in Threads, Works(t) PROVE Exclusion'
    <2>1. UNCHANGED lock_ /\ OnBus(t) /\ OnBus(t)' /\ (Inner(t)' <=> Inner(t))
          /\ \A u \in Threads : u # t => stack'[u] = stack[u]
      BY <1>3, WorksAt, WorksOnBus
    <2>2. ~Inner(t)
      BY <1>1, <1>3, WorksAt DEF Bus
    <2>3. QED
      BY <1>2, <2>1, <2>2
  <1>4. ASSUME NEW t \in Threads, OddByte(t) PROVE Exclusion'
    <2>1. UNCHANGED lock_
      BY <1>4 DEF OddByte
    <2>2. QED
      BY <1>2, <1>4, <2>1, OddByteOnBus
  <1>5. ASSUME NEW t \in Threads, Outside(t) PROVE Exclusion'
    <2>1. ~OnBus(t) /\ ~OnBus(t)' /\ (\A u \in Threads : u # t => stack'[u] = stack[u]) /\ UNCHANGED lock_
      BY <1>5, OutsideOffBus
    <2>2. ~Inner(t)'
      BY <2>1 DEF OnBus, Inner
    <2>3. QED
      BY <1>2, <2>1, <2>2
  <1>6. ASSUME NEW t \in Threads, Enter(t) PROVE Exclusion'
    BY <1>2, <1>6, EnterOnBus
  <1>7. ASSUME NEW t \in Threads, Lock(t) PROVE Exclusion'
    <2>1. lock_ = Free /\ lock_' = t
      BY <1>7 DEF Lock
    <2>2. \A u \in Threads : ~OnBus(u)
      BY <1>1, <2>1, SfudAssumption
    <2>3. OnBus(t)' /\ ~Inner(t)' /\ \A u \in Threads : u # t => stack'[u] = stack[u]
      BY <1>7, <2>2, LockOnBus
    <2>4. ASSUME NEW u \in Threads
          PROVE  (OnBus(u)' <=> lock_' = u) /\ (Inner(u)' => Top(u)'.at \in {"enter", "lock"})
      <3>1. CASE u = t
        BY <2>1, <2>3, <3>1
      <3>2. CASE u # t
        BY <1>1, <2>1, <2>2, <2>3, <3>2, OtherBus
      <3>3. QED
        BY <3>1, <3>2
    <2>5. QED
      BY <2>4 DEF Exclusion
  <1>8. ASSUME NEW t \in Threads, Unlock(t) PROVE Exclusion'
    <2>1. OnBus(t) /\ Top(t).at = "unlock" /\ ~Inner(t)' /\ (OnBus(t)' <=> Inner(t))
          /\ \A u \in Threads : u # t => stack'[u] = stack[u]
      BY <1>8, UnlockOnBus
    <2>2. lock_ = t /\ lock_' = Free /\ ~Inner(t)
      BY <1>1, <1>8, <2>1 DEF Unlock
    <2>3. ASSUME NEW u \in Threads
          PROVE  (OnBus(u)' <=> lock_' = u) /\ (Inner(u)' => Top(u)'.at \in {"enter", "lock"})
      <3>1. CASE u = t
        BY <2>1, <2>2, <3>1, SfudAssumption
      <3>2. CASE u # t
        BY <1>1, <2>1, <2>2, <3>2, OtherBus, SfudAssumption
      <3>3. QED
        BY <3>1, <3>2
    <2>4. QED
      BY <2>3 DEF Exclusion
  <1>9. CASE CycleEnds \/ UNCHANGED vars
    <2>1. UNCHANGED << stack, lock_ >>
      BY <1>9 DEF CycleEnds, vars, port
    <2>2. QED
      BY <1>1, <2>1, OtherBus
  <1>10. QED
    BY <1>3, <1>4, <1>5, <1>6, <1>7, <1>8, <1>9 DEF Next, Rest, Driver, Works, Outside, Exclusion

-----------------------------------------------------------------------------
\* The memory: portions of a range, and what a piece of a call leaves there.

\* Pages and blocks.
LEMMA Division ==
    ASSUME NEW n \in Nat \ {0}, NEW a \in Nat
    PROVE  /\ a \div n \in Nat /\ a % n \in 0 .. n - 1
           /\ a = n * (a \div n) + (a % n)
  <1> DEFINE q == a \div n
             r == a % n
  <1>1. q \in Int /\ r \in 0 .. n - 1 /\ a = n * q + r
    BY SMT
  <1>2. q >= 0
    <2> HIDE DEF q, r
    <2>1. q <= -1 => n * q <= -n
      BY <1>1, SMT
    <2>2. PICK p \in Int : p = n * q
      BY <1>1, SMT
    <2>3. QED
      BY <1>1, <2>1, <2>2
  <1>3. q \in Nat
    BY <1>1, <1>2
  <1>4. QED
    BY <1>1, <1>3

LEMMA OneQuotient ==
    ASSUME NEW n \in Nat \ {0}, NEW i \in Nat, NEW j \in 0 .. n - 1
    PROVE  (n * i + j) \div n = i /\ (n * i + j) % n = j
  <1> DEFINE k == n * i + j
             q == k \div n
             r == k % n
             d == i - q
             s == r - j
  <1>1. k \in Nat
    BY SMT
  <1>2. k = n * q + r /\ q \in Nat /\ r \in 0 .. n - 1
    BY <1>1, Division
  <1>3. d \in Int /\ s \in Int /\ n * d = s /\ s < n /\ -s < n /\ n > 0
    BY <1>2, SMT
  <1>4. d = 0
    <2> HIDE DEF d, s
    <2>1. ~(d >= 1)
      <3>1. d >= 1 => n * d >= n
        BY <1>3, SMT
      <3>2. QED
        BY <1>3, <3>1
    <2>2. ~(d <= -1)
      <3>1. d <= -1 => n * d <= -n
        BY <1>3, SMT
      <3>2. QED
        BY <1>3, <3>1
    <2>3. QED
      BY <1>3, <2>1, <2>2
  <1>5. q = i /\ r = j
    BY <1>2, <1>4, SMT
  <1>6. QED
    BY <1>5

\* Within a page or a block the quotient stays.
LEMMA WithinBlock ==
    ASSUME NEW n \in Nat \ {0}, NEW a \in Nat, NEW j \in Nat, (a % n) + j < n
    PROVE  (a + j) \div n = a \div n /\ (a + j) % n = (a % n) + j
  <1> DEFINE q == a \div n
             r == a % n
  <1>1. q \in Nat /\ r \in 0 .. n - 1 /\ a = n * q + r
    BY Division
  <1> HIDE DEF q, r
  <1>2. r + j \in 0 .. n - 1
    BY <1>1 DEF r
  <1>3. (n * q + (r + j)) \div n = q /\ (n * q + (r + j)) % n = r + j
    BY <1>1, <1>2, OneQuotient
  <1>4. a + j = n * q + (r + j)
    <2>1. PICK p \in Nat : p = n * q
      BY <1>1, SMT
    <2>2. QED
      BY <1>1, <1>2, <2>1
  <1>5. QED
    BY <1>3, <1>4 DEF q, r

\* The block that starts at a.
LEMMA BlockAt ==
    ASSUME NEW n \in Nat \ {0}, NEW a \in Nat, a % n = 0, NEW b \in Nat
    PROVE  b \div n = a \div n <=> a <= b /\ b < a + n
  <1>1. a <= b /\ b < a + n => b \div n = a \div n
    <2> SUFFICES ASSUME a <= b /\ b < a + n PROVE b \div n = a \div n
      OBVIOUS
    <2>1. PICK j \in Nat : b = a + j /\ j < n
      BY SMT
    <2>2. (a % n) + j < n
      BY <2>1
    <2>3. QED
      BY <2>1, <2>2, WithinBlock
  <1>2. b \div n = a \div n => a <= b /\ b < a + n
    <2> SUFFICES ASSUME b \div n = a \div n PROVE a <= b /\ b < a + n
      OBVIOUS
    <2>1. PICK q \in Nat, r \in 0 .. n - 1 : q = b \div n /\ r = b % n /\ b = n * q + r
      BY Division
    <2>2. a = n * q + 0
      BY <2>1, Division
    <2>3. PICK p \in Nat : p = n * q
      BY <2>1, SMT
    <2>4. QED
      BY <2>1, <2>2, <2>3
  <1>3. QED
    BY <1>1, <1>2

-----------------------------------------------------------------------------
\* What the commands do to the memory.
LEMMA PageLaw ==
    ASSUME ChipOK, Obeys, NEW a \in Nat, NEW bytes \in Seq(Int),
           (a % PageSize) + Len(bytes) <= PageSize, ProgramPage(a, bytes)
    PROVE  /\ UNCHANGED << mem, wel, aai >>
           /\ work'.cells = {b \in Cells : a <= b /\ b < a + Len(bytes)}
           /\ Finished' = [b \in Cells |-> IF a <= b /\ b < a + Len(bytes)
                                           THEN And(mem[b], bytes[b - a + 1]) ELSE mem[b]]
  <1> DEFINE to(k) == (a \div PageSize) * PageSize + ((a + k - 1) % PageSize)
             cells == {to(k) : k \in DOMAIN bytes} \cap Cells
             last(b) == CHOOSE k \in DOMAIN bytes :
                           to(k) = b /\ \A j \in DOMAIN bytes : to(j) = b => j <= k
             w == [cells |-> cells, value |-> [b \in cells |-> And(mem[b], bytes[last(b)])]]
             n == Len(bytes)
             run == {b \in Cells : a <= b /\ b < a + n}
  <1>1. Begin(w) /\ aai' = aai
    BY DEF ProgramPage
  <1>2. w.cells = cells /\ w.value = [b \in cells |-> And(mem[b], bytes[last(b)])]
    OBVIOUS
  <1>3. n \in Nat /\ DOMAIN bytes = 1 .. n /\ PageSize \in Nat \ {0} /\ ChipSize \in Nat
    BY ChipAssumption
  <1>4. ASSUME NEW k \in DOMAIN bytes PROVE to(k) = a + k - 1
    <2>1. PICK j \in Nat : j = k - 1 /\ j < n
      BY <1>3
    <2>2. PICK q \in Nat, r \in 0 .. PageSize - 1 :
             q = a \div PageSize /\ r = a % PageSize /\ a = PageSize * q + r
      BY <1>3, Division
    <2>3. r + j < PageSize
      <3>1. r + n <= PageSize /\ r \in Nat /\ PageSize \in Nat
        BY <1>3, <2>2
      <3>2. QED
        BY <1>3, <2>1, <3>1
    <2>4. (a + j) % PageSize = r + j
      BY <1>3, <2>2, <2>3, WithinBlock
    <2>5. a + k - 1 = a + j
      BY <1>3, <2>1
    <2>6. PICK p \in Nat : p = PageSize * q /\ p = q * PageSize
      BY <1>3, <2>2, SMT
    <2>7. to(k) = p + (r + j)
      BY <2>2, <2>4, <2>5, <2>6
    <2>8. a = p + r /\ r \in Nat
      <3>1. a = PageSize * q + r
        BY <2>2
      <3>2. r \in Nat
        BY <1>3, <2>2
      <3>3. QED
        BY <2>6, <3>1, <3>2
    <2>9. QED
      BY <2>1, <2>5, <2>6, <2>7, <2>8
  <1> HIDE DEF to
  <1>5. cells = run
    <2>1. ASSUME NEW b \in run PROVE b \in cells
      <3>1. b - a + 1 \in DOMAIN bytes
        BY <1>3 DEF Cells
      <3>2. to(b - a + 1) = b
        <4>1. PICK k \in DOMAIN bytes : k = b - a + 1
          BY <3>1
        <4>2. to(k) = a + k - 1
          BY <1>4
        <4>3. b \in Int
          BY <1>3 DEF Cells
        <4>4. QED
          BY <4>1, <4>2, <4>3
      <3>3. QED
        BY <3>1, <3>2
    <2>2. ASSUME NEW b \in cells PROVE b \in run
      <3>1. PICK k \in DOMAIN bytes : b = to(k) /\ b \in Cells
        OBVIOUS
      <3>2. b = a + k - 1
        BY <1>4, <3>1
      <3>3. QED
        BY <1>3, <3>1, <3>2
    <2>3. QED
      BY <2>1, <2>2
  <1>6. ASSUME NEW b \in run PROVE last(b) = b - a + 1
    <2>1. PICK k \in 1 .. n : k = b - a + 1
      BY <1>3 DEF Cells
    <2>2. b \in Int
      BY <1>3 DEF Cells
    <2>3. ASSUME NEW j \in DOMAIN bytes PROVE to(j) = b <=> j = k
      <3>1. to(j) = a + j - 1
        BY <1>4
      <3>2. j \in Int
        BY <1>3
      <3>3. QED
        <4>1. PICK i \in Int : i = j
          BY <3>2
        <4>2. a + i - 1 = b <=> i = b - a + 1
          BY <2>2
        <4>3. QED
          BY <2>1, <3>1, <4>1, <4>2
    <2>4. \A j \in DOMAIN bytes : (to(j) = b /\ \A i \in DOMAIN bytes : to(i) = b => i <= j) <=> j = k
      BY <1>3, <2>1, <2>3
    <2>5. last(b) = k
      BY <1>3, <2>4
    <2>6. QED
      BY <2>1, <2>5
  <1>7. w.cells = run /\ \A b \in run : w.value[b] = And(mem[b], bytes[b - a + 1])
    <2> HIDE DEF w, last
    <2>1. QED
      BY <1>2, <1>5, <1>6
  <1>8. ASSUME NEW b \in run PROVE And(mem[b], bytes[b - a + 1]) \in Int
    <2>1. b - a + 1 \in 1 .. n
      BY <1>3 DEF Cells
    <2>2. bytes[b - a + 1] \in Int
      BY <2>1, ElementOfSeq
    <2>3. mem[b] \in Int
      BY DEF ChipOK
    <2>4. QED
      BY <2>2, <2>3, AndTypes
  <1>9. \A b \in Cells : b \in w.cells => w.value[b] \in Int
    BY <1>7, <1>8
  <1> HIDE DEF w, cells, last
  <1>10. /\ UNCHANGED << mem, wel >> /\ work'.cells = w.cells
         /\ Finished' = [b \in Cells |-> IF b \in w.cells THEN w.value[b] ELSE mem[b]]
    <2>1. aai' \in Nat \cup {NotAai}
      BY <1>1 DEF ChipOK
    <2>2. QED
      BY <1>1, <1>9, <2>1, Begins
  <1>11. \A b \in Cells : (IF b \in w.cells THEN w.value[b] ELSE mem[b]) =
                          (IF a <= b /\ b < a + n THEN And(mem[b], bytes[b - a + 1]) ELSE mem[b])
    BY <1>7
  <1>12. QED
    BY <1>1, <1>7, <1>10, <1>11

LEMMA WordLaw ==
    ASSUME ChipOK, Ready, wel, NEW first \in BOOLEAN, NEW a \in Nat,
           aai = a \/ (aai = NotAai /\ first), NEW bytes \in Seq(Int),
           Len(bytes) = 2, ProgramWord(first, a, bytes)
    PROVE  /\ UNCHANGED << mem, wel >> /\ aai' = a + 2
           /\ work'.cells = {b \in Cells : a <= b /\ b < a + 2}
           /\ Finished' = [b \in Cells |-> IF a <= b /\ b < a + 2
                                           THEN And(mem[b], bytes[b - a + 1]) ELSE mem[b]]
  <1> DEFINE cells == {a, a + 1} \cap Cells
             w == [cells |-> cells, value |-> [b \in cells |-> And(mem[b], bytes[b - a + 1])]]
             run == {b \in Cells : a <= b /\ b < a + 2}
  <1>1. (IF aai = NotAai THEN a ELSE aai) = a /\ (first \/ aai # NotAai)
    BY DEF NotAai
  <1>2. Begin(w) /\ aai' = a + 2
    BY <1>1 DEF ProgramWord
  <1>3. w.cells = cells /\ w.value = [b \in cells |-> And(mem[b], bytes[b - a + 1])]
    OBVIOUS
  <1>4. cells = run
    <2>1. \A b \in Cells : b \in {a, a + 1} <=> a <= b /\ b < a + 2
      BY ChipAssumption DEF Cells
    <2>2. QED
      BY <2>1
  <1>5. ASSUME NEW b \in run PROVE And(mem[b], bytes[b - a + 1]) \in Int
    <2>1. b - a + 1 \in 1 .. 2
      BY ChipAssumption DEF Cells
    <2>2. bytes[b - a + 1] \in Int
      BY <2>1, ElementOfSeq
    <2>3. mem[b] \in Int
      BY DEF ChipOK
    <2>4. QED
      BY <2>2, <2>3, AndTypes
  <1>6. \A b \in Cells : b \in w.cells => w.value[b] \in Int
    BY <1>3, <1>4, <1>5
  <1>7. w.cells = run /\ \A b \in run : w.value[b] = And(mem[b], bytes[b - a + 1])
    BY <1>3, <1>4
  <1> HIDE DEF w, cells
  <1>8. /\ UNCHANGED << mem, wel >> /\ work'.cells = w.cells
        /\ Finished' = [b \in Cells |-> IF b \in w.cells THEN w.value[b] ELSE mem[b]]
    <2>1. aai' \in Nat \cup {NotAai}
      BY <1>2
    <2>2. QED
      BY <1>2, <1>6, <2>1, Begins
  <1>9. \A b \in Cells : (IF b \in w.cells THEN w.value[b] ELSE mem[b]) =
                         (IF a <= b /\ b < a + 2 THEN And(mem[b], bytes[b - a + 1]) ELSE mem[b])
    BY <1>7
  <1>10. QED
    BY <1>2, <1>7, <1>8, <1>9

LEMMA BlockLaw ==
    ASSUME ChipOK, Obeys, NEW a, NEW size, EraseBlock(a, size)
    PROVE  /\ UNCHANGED << mem, wel, aai >>
           /\ work'.cells = {b \in Cells : b \div size = a \div size}
           /\ Finished' = [b \in Cells |-> IF b \div size = a \div size THEN Erased ELSE mem[b]]
  <1> DEFINE block == {b \in Cells : b \div size = a \div size}
             w == [cells |-> block, value |-> [b \in block |-> Erased]]
  <1>1. Begin(w) /\ aai' = aai
    BY DEF EraseBlock
  <1>2. w.cells = block /\ w.value = [b \in block |-> Erased]
    OBVIOUS
  <1>3. \A b \in Cells : b \in w.cells => w.value[b] \in Int
    BY <1>2 DEF Erased
  <1> HIDE DEF w
  <1>4. aai' \in Nat \cup {NotAai}
    BY <1>1 DEF ChipOK
  <1>5. /\ UNCHANGED << mem, wel >> /\ work'.cells = w.cells
        /\ Finished' = [b \in Cells |-> IF b \in w.cells THEN w.value[b] ELSE mem[b]]
    BY <1>1, <1>3, <1>4, Begins
  <1>6. \A b \in Cells : (IF b \in w.cells THEN w.value[b] ELSE mem[b]) =
                         (IF b \div size = a \div size THEN Erased ELSE mem[b])
    BY <1>2
  <1>7. QED
    BY <1>1, <1>2, <1>5, <1>6

-----------------------------------------------------------------------------
\* The chip: its latches, and what the thread on the bus has done so far.

\* With a bound of one call a single thread has it.
Involved(t) == stack[t] # <<>> \/ answer[t] # "none"
Solo == MaxCalls <= 1 => /\ \A t, u \in Threads : Involved(t) /\ Involved(u) => t = u
                         /\ \A t \in Threads : Involved(t) => calls >= 1

\* Nothing has gone wrong yet, or it has only in a call that is not over.
FailedAt(t) == answer[t] \in Errors \/ (stack[t] # <<>> /\ Top(t).result \in Errors)
Honest == ~deceived
Clean == \/ ~Slow /\ faults = MaxFaults
         \/ MaxCalls <= 1 /\ Honest /\ \A t \in Threads : ~FailedAt(t)

\* What the chip's latches are at each place.
Rested == Ready /\ ~wel /\ aai = NotAai
Armed == {"wrenStatus", "fill", "command"}
Latches(f) ==
    /\ f.at \in Armed => /\ wel /\ Ready
                         /\ IF f.fn = "aai" /\ f.at = "command"
                            THEN aai = f.addr \/ (aai = NotAai /\ f.from < 2)
                            ELSE aai = NotAai
    /\ f.at = "busy" /\ f.fn = "aai" => wel /\ aai = f.addr + 2
    /\ f.at = "busy" /\ f.fn \notin {"aai", "read"} => (wel <=> ~Ready) /\ aai = NotAai
    /\ f.at = "wrdi" /\ f.fn = "aai" => Ready
    /\ f.at = "busy" /\ f.fn = "read" => Rested
    /\ f.at \notin Armed \cup {"busy"} /\ ~(f.at = "wrdi" /\ f.fn = "aai") => Rested

\* page256_or_1_byte_write's buffer holds what the command is to carry.
Buffered(f, c) ==
    f.fn = "page" /\ f.at = "command" =>
       /\ cmd_data.addr = f.addr /\ Len(cmd_data.bytes) = Chunk(f)
       /\ \A k \in 1 .. Chunk(f) : cmd_data.bytes[k] = 100 * c.version + f.from + k - 1

Owns(f, c) == /\ f.result = "SUCCESS" /\ Latches(f) /\ Buffered(f, c)
              /\ ~Ready => work.cells \subseteq Footprint(c)

\* What the memory will be once the cycle under way has ended: the call's work
\* done on the first bytes of its range, on top of the memory m it began with.
Part(f) == CASE f.at = "busy"                     -> f.from + Portion(f)
             [] f.at \in {"headDone", "tailDone"} -> f.from + 1
             [] f.at = "unlock"                   -> f.from + f.size
             [] OTHER                             -> f.from
Upto(c, k, m) ==
    [a \in Cells |-> IF c.addr <= a /\ a < c.addr + k
                     THEN And(m[a], 100 * c.version + (a - c.addr)) ELSE m[a]]
WipedUpto(c, k, m) ==
    [a \in Cells |-> IF \E b \in Cells : /\ c.addr <= b /\ b < c.addr + k
                                         /\ a \div Erasers[1] = b \div Erasers[1]
                     THEN Erased ELSE m[a]]
Unwiped == {"wren", "wrenStatus", "command"}
Expected(f, c, m) ==
    CASE f.fn = "read"                             -> m
      [] f.fn = "chipErase" /\ f.at \in Unwiped    -> m
      [] f.fn = "chipErase" /\ f.at \notin Unwiped -> [a \in Cells |-> Erased]
      [] f.fn = "erase"                            -> WipedUpto(c, Part(f), m)
      [] OTHER                                     -> Upto(c, Part(f), m)

\* The larger erasers' blocks consist of smaller ones.
Divides == \A i \in DOMAIN Erasers : Erasers[i] % Erasers[1] = 0
Keeps(h, f, c) ==
    \A m : Divides /\ Finished = Expected(h, c, m) => Finished' = Expected(f, c, m)

Sound == Clean => /\ (\A t \in Threads : ~OnBus(t)) => Rested
                  /\ \A t \in Threads : OnBus(t) => Owns(Top(t), call[t])

\* After a failure a cycle may still run, within the range of the one call.
Left == MaxCalls <= 1 =>
           Ready \/ \E t \in Threads : Involved(t) /\ work.cells \subseteq Footprint(call[t])

-----------------------------------------------------------------------------
LEMMA OneOnBus ==
    ASSUME Serial, Exclusion, Solo, NEW t \in Threads, NEW u \in Threads, OnBus(t), OnBus(u)
    PROVE  t = u
  <1>1. CASE Locking
    BY <1>1 DEF Exclusion
  <1>2. CASE Alone
    BY <1>2 DEF Alone
  <1>3. CASE MaxCalls <= 1
    BY <1>3 DEF Solo, Involved, OnBus
  <1>4. QED
    BY <1>1, <1>2, <1>3 DEF Serial

\* A step of t is no step of another thread.
LEMMA OthersStay ==
    ASSUME Types, Types', Control, Control', NEW t \in Threads, Call(t) \/ Driver(t),
           NEW u \in Threads, u # t
    PROVE  /\ stack'[u] = stack[u] /\ answer'[u] = answer[u] /\ call'[u] = call[u]
           /\ before'[u] = before[u]
  <1>1. stack'[u] = stack[u]
    <2>1. CASE Works(t)
      BY <2>1, WorksOnBus
    <2>2. CASE Outside(t)
      BY <2>2, OutsideOffBus
    <2>3. QED
      BY <2>1, <2>2, OddByteOnBus, EnterOnBus, LockOnBus, UnlockOnBus DEF Driver, Works, Outside
  <1>2. ASSUME stack[t] # <<>>, NEW r \in Results, Return(t, r) PROVE answer'[u] = answer[u]
    BY <1>2, ReturnsTo DEF Types, CallsOK
  <1>3. Driver(t) => stack[t] # <<>> /\ Top(t).result \in Results
    <2>1. Driver(t) => stack[t] # <<>>
      BY DEF Driver, sfud_write, sfud_erase_write, Enter, Lock, Unlock, WriteEnable,
             WriteEnableStatus, Fill, Command, WaitBusy, ReadData, WriteDisable,
             WriteDisableStatus, OddByte, OddByteDone, Abort, At
    <2>2. QED
      BY <2>1, TheOther DEF Types, Frames
  <1>4. answer'[u] = answer[u]
    <2>1. CASE UNCHANGED answer
      BY <2>1
    <2>2. CASE Call(t)
      BY <2>2 DEF Call, Types, CallsOK
    <2>3. CASE Driver(t) /\ \E r \in Results : Return(t, r)
      BY <1>2, <1>3, <2>3
    <2>4. CASE Works(t) \/ OddByte(t) \/ Lock(t)
      BY <2>1, <2>4, WorksAt DEF OddByte, Lock
    <2>5. QED
      BY <1>3, <2>1, <2>2, <2>3, <2>4
      DEF Driver, Works, sfud_write, sfud_erase_write, Enter, Unlock, Results
  <1>5. call'[u] = call[u] /\ before'[u] = before[u]
    <2>1. CASE UNCHANGED ghost
      BY <2>1 DEF ghost
    <2>2. CASE Call(t)
      BY <2>2 DEF Call, Types, CallsOK
    <2>3. CASE Lock(t)
      BY <2>3 DEF Lock, Types, CallsOK
    <2>4. QED
      BY <2>1, <2>2, <2>3
      DEF Driver, sfud_write, sfud_erase_write, Enter, Unlock, WriteEnable,
          WriteEnableStatus, Fill, Command, WaitBusy, ReadData, WriteDisable,
          WriteDisableStatus, OddByte, OddByteDone, Abort
  <1>6. QED
    BY <1>1, <1>4, <1>5

LEMMA SoloStep ==
    ASSUME Types, Types', Control, Control', Solo, [Next]_vars
    PROVE  Solo'
  <1> SUFFICES ASSUME MaxCalls <= 1
               PROVE  /\ \A t, u \in Threads : Involved(t)' /\ Involved(u)' => t = u
                      /\ \A t \in Threads : Involved(t)' => calls' >= 1
    BY DEF Solo
  <1>1. /\ \A t, u \in Threads : Involved(t) /\ Involved(u) => t = u
        /\ \A t \in Threads : Involved(t) => calls >= 1
    BY DEF Solo
  <1>2. calls \in Nat /\ MaxCalls \in Nat
    BY SfudAssumption DEF Types, CallsOK
  <1>3. ASSUME NEW t \in Threads, Call(t) \/ Driver(t) PROVE Solo'
    <2>1. calls' >= 1 /\ \A u \in Threads : u # t => ~Involved(u)
      <3>1. CASE Call(t)
        <4>1. calls = 0 /\ calls' = 1
          BY <1>2, <3>1 DEF Call
        <4>2. QED
          BY <1>1, <4>1
      <3>2. CASE Driver(t)
        <4>1. stack[t] # <<>> /\ calls' = calls
          BY <3>2 DEF Driver, sfud_write, sfud_erase_write, Enter, Lock, Unlock, WriteEnable,
             WriteEnableStatus, Fill, Command, WaitBusy, ReadData, WriteDisable,
             WriteDisableStatus, OddByte, OddByteDone, Abort, At, ghost
        <4>2. Involved(t)
          BY <4>1 DEF Involved
        <4>3. QED
          BY <1>1, <4>1, <4>2
      <3>3. QED
        BY <1>3, <3>1, <3>2
    <2>2. \A u \in Threads : u # t => ~Involved(u)'
      BY <1>3, <2>1, OthersStay DEF Involved
    <2>3. QED
      BY <2>1, <2>2 DEF Solo
  <1>4. CASE CycleEnds \/ UNCHANGED vars
    <2>1. UNCHANGED << stack, answer, calls >>
      BY <1>4 DEF CycleEnds, vars, ghost, port
    <2>2. QED
      BY <1>1, <2>1 DEF Involved
  <1>5. QED
    BY <1>3, <1>4 DEF Next, Rest, Solo

\* An error is not forgotten before the call is over.
LEMMA ErrorIsLate ==
    ASSUME Types, Control, NEW t \in Threads, stack[t] # <<>>, Top(t).result \in Errors
    PROVE  /\ Top(t) \in Frames /\ Top(t).at \in Late(Top(t).fn)
           /\ Len(stack[t]) = 1 \/ Len(stack[t]) = 2
  <1>1. Top(t).result # "SUCCESS"
    BY DEF Errors
  <1>2. Placed(Top(t), call[t])
    BY DEF Control, Shape
  <1>3. QED
    BY <1>1, <1>2, TheOther DEF Placed, Types

LEMMA WorksKeepError ==
    ASSUME Types, Control, NEW t \in Threads, Works(t), Top(t).result \in Errors
    PROVE  \E f : SetTop(t, f) /\ f.result \in Errors
  <1> DEFINE h == Top(t)
  <1>1. stack[t] # <<>> /\ h \in Frames /\ h.at \in Late(h.fn)
    BY WorksAt, ErrorIsLate
  <1>2. ASSUME NEW l, Goto(t, l) PROVE \E f : SetTop(t, f) /\ f.result \in Errors
    <2>1. SetTop(t, [h EXCEPT !.at = l]) /\ [h EXCEPT !.at = l].result = h.result
      BY <1>1, <1>2 DEF Goto, Frames
    <2>2. QED
      BY <2>1
  <1>3. ASSUME NEW l, NEW r \in Errors, Fail(t, l, r) PROVE \E f : SetTop(t, f) /\ f.result \in Errors
    <2>1. SetTop(t, [h EXCEPT !.at = l, !.result = r]) /\ [h EXCEPT !.at = l, !.result = r].result = r
      BY <1>1, <1>3 DEF Fail, Frames
    <2>2. QED
      BY <2>1
  <1>4. CASE WriteDisable(t)
    BY <1>2, <1>3, <1>4 DEF WriteDisable, Errors
  <1>5. CASE WriteDisableStatus(t)
    BY <1>2, <1>3, <1>5 DEF WriteDisableStatus, Errors
  <1>6. CASE OddByteDone(t)
    BY <1>2, <1>6 DEF OddByteDone, Errors
  <1>7. CASE Abort(t)
    BY <1>2, <1>7 DEF Abort
  <1>8. ~(WriteEnable(t) \/ WriteEnableStatus(t) \/ Fill(t) \/ Command(t) \/ WaitBusy(t) \/ ReadData(t))
    BY <1>1 DEF WriteEnable, WriteEnableStatus, Fill, Command, WaitBusy, ReadData, At, Late
  <1>9. QED
    BY <1>4, <1>5, <1>6, <1>7, <1>8 DEF Works

LEMMA FailedStays ==
    ASSUME Types, Types', Control, Control', Solo, MaxCalls <= 1, [Next]_vars,
           NEW t \in Threads, FailedAt(t)
    PROVE  FailedAt(t)'
  <1>1. Involved(t) /\ calls >= 1
    <2>1. Involved(t)
      BY DEF FailedAt, Involved, Errors
    <2>2. QED
      BY <2>1 DEF Solo
  <1>2. ASSUME NEW u \in Threads, Call(u) PROVE FALSE
    BY <1>1, <1>2, SfudAssumption DEF Call, Types, CallsOK
  <1>3. ASSUME NEW u \in Threads, Driver(u), u # t PROVE FailedAt(t)'
    BY <1>3, OthersStay DEF FailedAt, Top
  <1>4. ASSUME Driver(t) PROVE FailedAt(t)'
    <2> DEFINE h == Top(t)
    <2>1. stack[t] # <<>> /\ answer[t] = "none" /\ h.result \in Errors
      <3>1. stack[t] # <<>>
        BY <1>4 DEF Driver, sfud_write, sfud_erase_write, Enter, Lock, Unlock, WriteEnable,
             WriteEnableStatus, Fill, Command, WaitBusy, ReadData, WriteDisable,
             WriteDisableStatus, OddByte, OddByteDone, Abort, At
      <3>2. answer[t] = "none"
        BY <3>1 DEF Control, Shape
      <3>3. QED
        BY <3>1, <3>2 DEF FailedAt, Errors
    <2>2. h \in Frames /\ h.at \in Late(h.fn)
      BY <2>1, ErrorIsLate
    <2>3. ~(sfud_write(t) \/ Enter(t) \/ Lock(t) \/ OddByte(t))
      BY <2>2 DEF sfud_write, Enter, Lock, OddByte, At, Late
    <2>4. CASE Works(t)
      <3>1. PICK f : SetTop(t, f) /\ f.result \in Errors
        BY <2>1, <2>4, WorksKeepError
      <3>2. stack'[t] # <<>> /\ Top(t)' = f
        BY <2>1, <3>1, TopChanges DEF Types
      <3>3. QED
        BY <3>1, <3>2 DEF FailedAt
    <2>5. CASE Return(t, h.result)
      <3>1. PICK r \in Results : r = h.result
        BY <2>2 DEF Frames
      <3>2. Return(t, r) /\ r \in Errors
        BY <2>1, <2>5, <3>1
      <3>3. \/ answer' = [answer EXCEPT ![t] = r]
            \/ /\ stack[t][2] \in Frames /\ stack'[t] # <<>>
               /\ Top(t)' = [stack[t][2] EXCEPT !.result = r]
        BY <2>1, <3>2, ReturnsTo DEF Types
      <3>4. CASE answer' = [answer EXCEPT ![t] = r]
        BY <3>2, <3>4 DEF FailedAt, Types, CallsOK
      <3>5. CASE /\ stack[t][2] \in Frames /\ stack'[t] # <<>>
                 /\ Top(t)' = [stack[t][2] EXCEPT !.result = r]
        <4>1. [stack[t][2] EXCEPT !.result = r].result = r
          BY <3>5 DEF Frames
        <4>2. QED
          BY <3>2, <3>5, <4>1 DEF FailedAt
      <3>6. QED
        BY <3>3, <3>4, <3>5
    <2>6. sfud_erase_write(t) \/ Unlock(t) => Return(t, h.result)
      BY <2>1, <2>2 DEF sfud_erase_write, Unlock, At, Late, Errors
    <2>7. QED
      BY <1>4, <2>3, <2>4, <2>5, <2>6 DEF Driver, Works
  <1>5. CASE CycleEnds \/ UNCHANGED vars
    BY <1>5 DEF CycleEnds, vars, FailedAt, Top
  <1>6. QED
    BY <1>2, <1>3, <1>4, <1>5 DEF Next, Rest

LEMMA FaultsFall ==
    ASSUME Types, Types', [Next]_vars
    PROVE  faults' <= faults /\ faults \in Nat /\ MaxFaults \in Nat /\ faults <= MaxFaults
           /\ faults' \in Nat /\ faults' <= MaxFaults /\ (deceived => deceived')
  <1>1. CallsOK /\ CallsOK'
    BY DEF Types
  <1>2. faults \in 0 .. MaxFaults /\ MaxFaults \in Nat /\ faults' \in 0 .. MaxFaults
    BY <1>1, SfudAssumption DEF CallsOK
  <1>3. UNCHANGED port \/ \E x \in Transfers : Spend(x)
    <2>1. ASSUME NEW t \in Threads, Works(t) PROVE UNCHANGED port \/ \E x \in Transfers : Spend(x)
      BY <2>1 DEF Works, WriteEnable, WriteEnableStatus, Fill, Command, WaitBusy, ReadData,
         WriteDisable, WriteDisableStatus, OddByteDone, Abort
    <2>2. ASSUME NEW t \in Threads, Call(t) \/ (Driver(t) /\ ~Works(t)) PROVE UNCHANGED port
      BY <2>2 DEF Works, Driver, Call, sfud_write, sfud_erase_write, Enter, Lock, Unlock, OddByte
    <2>3. CycleEnds \/ UNCHANGED vars => UNCHANGED port
      BY DEF CycleEnds, vars
    <2>4. QED
      BY <2>1, <2>2, <2>3 DEF Next, Rest
  <1>4. faults' <= faults /\ (deceived => deceived')
    <2>1. CASE UNCHANGED port
      BY <1>2, <2>1 DEF port
    <2>2. CASE \E x \in Transfers : Spend(x)
      BY <1>1, <2>2, OneTransfer
    <2>3. QED
      BY <1>3, <2>1, <2>2
  <1>5. QED
    BY <1>2, <1>4

LEMMA CleanBefore ==
    ASSUME Types, Types', Control, Control', Solo, [Next]_vars, Clean'
    PROVE  Clean
  <1>1. faults' <= faults /\ faults \in Nat /\ faults <= MaxFaults /\ MaxFaults \in Nat
        /\ (deceived => deceived')
    BY FaultsFall
  <1>2. faults' = MaxFaults => faults = MaxFaults
    BY <1>1
  <1>3. QED
    BY <1>1, <1>2, FailedStays DEF Clean, Honest

-----------------------------------------------------------------------------
\* What the steps on the bus make of the chip.
LEMMA CleanTransfer ==
    ASSUME Types, NEW x \in Transfers, Spend(x), Clean'
    PROVE  /\ x.ok => ~x.lost
           /\ ~x.lost => (x.busy <=> ~Ready) /\ (x.wel <=> wel)
           /\ x.lost => ~x.busy /\ ~x.wel
  <1>1. CallsOK
    BY DEF Types
  <1>2. x.lost /\ x.ok => deceived' /\ faults' < MaxFaults
    BY <1>1, OneTransfer
  <1>3. faults' \in Nat
    BY <1>1, OneTransfer
  <1>4. ~(x.lost /\ x.ok)
    BY <1>2, <1>3, SfudAssumption DEF Clean, Honest
  <1>5. QED
    BY <1>1, <1>4, OneTransfer

LEMMA NoFailure ==
    ASSUME Types, NEW t \in Threads, stack[t] # <<>>, NEW x \in Transfers, Spend(x), Clean',
           NEW l, NEW r \in Errors, Fail(t, l, r)
    PROVE  ~Slow /\ ~x.lost /\ x.ok /\ (x.busy <=> ~Ready) /\ (x.wel <=> wel)
  <1> DEFINE h == Top(t)
             f == [h EXCEPT !.at = l, !.result = r]
  <1>1. h \in Frames /\ CallsOK
    BY TheOther DEF Types
  <1>2. SetTop(t, f) /\ f.result = r
    BY <1>1 DEF Fail, Frames
  <1> HIDE DEF f
  <1>3. FailedAt(t)'
    <2>1. stack'[t] # <<>> /\ Top(t)' = f
      BY <1>2, TopChanges DEF Types
    <2>2. QED
      BY <1>2, <2>1 DEF FailedAt
  <1>4. ~Slow /\ faults' = MaxFaults
    BY <1>3 DEF Clean
  <1>5. x.ok /\ ~x.lost
    <2>1. ~(x.ok /\ ~x.lost) => faults' < MaxFaults
      BY <1>1, OneTransfer
    <2>2. QED
      BY <1>4, <2>1, SfudAssumption
  <1>6. QED
    BY <1>1, <1>4, <1>5, OneTransfer

LEMMA GoesTo ==
    ASSUME Types, NEW t \in Threads, stack[t] # <<>>, NEW l \in Labels, Goto(t, l)
    PROVE  \E f \in Frames : /\ SetTop(t, f) /\ Like(Top(t), f)
                             /\ f.at = l /\ f.result = Top(t).result
  <1> DEFINE h == Top(t)
             f == [h EXCEPT !.at = l]
  <1>1. h \in Frames
    BY TheOther DEF Types
  <1>2. SetTop(t, f)
    BY DEF Goto
  <1> HIDE DEF h
  <1>3. f \in Frames /\ Like(h, f) /\ f.at = l /\ f.result = h.result
    BY <1>1, Moved DEF Like
  <1>4. QED
    BY <1>2, <1>3 DEF h

\* A step keeps what it does not touch.
LEMMA OwnsQuiet ==
    ASSUME NEW f, NEW c, f.result = "SUCCESS", Latches(f)', f.at # "command", UNCHANGED work,
           ~Ready => work.cells \subseteq Footprint(c)
    PROVE  Owns(f, c)'
  BY DEF Owns, Buffered, Ready

LEMMA KeepsQuiet ==
    ASSUME NEW h, NEW f, NEW c, UNCHANGED << mem, work >>, f.fn = h.fn, Part(f) = Part(h),
           f.fn = "chipErase" => (h.at \in Unwiped <=> f.at \in Unwiped)
    PROVE  Keeps(h, f, c)
  <1>1. Finished' = Finished
    BY DEF Finished
  <1>2. \A m : Expected(f, c, m) = Expected(h, c, m)
    BY DEF Expected
  <1>3. QED
    BY <1>1, <1>2 DEF Keeps

LEMMA WriteEnableOwns ==
    ASSUME Types, Control, NEW t \in Threads, WriteEnable(t), Clean', Owns(Top(t), call[t])
    PROVE  \E f \in Frames : SetTop(t, f) /\ Owns(f, call[t])' /\ Keeps(Top(t), f, call[t])
  <1> DEFINE h == Top(t)
             c == call[t]
  <1>1. stack[t] # <<>> /\ h.fn \in Writers /\ h.at = "wren" /\ UNCHANGED call
    BY DEF WriteEnable, At, ghost
  <1>2. Rested /\ h.result = "SUCCESS"
    BY <1>1 DEF Owns, Latches, Armed
  <1>3. PICK x \in Transfers :
             /\ Spend(x)
             /\ IF x.lost THEN Ignored ELSE WREN
             /\ IF x.ok THEN Goto(t, "wrenStatus") ELSE Fail(t, Exit(t), "ERR_WRITE")
    BY DEF WriteEnable
  <1>4. x.ok /\ ~x.lost
    <2>1. ~x.ok => FALSE
      BY <1>1, <1>3, NoFailure DEF Errors
    <2>2. QED
      BY <1>3, <2>1, CleanTransfer
  <1>5. wel' /\ UNCHANGED << mem, work, aai >>
    BY <1>2, <1>3, <1>4 DEF WREN, Rested
  <1>6. PICK f \in Frames : SetTop(t, f) /\ Like(h, f) /\ f.at = "wrenStatus" /\ f.result = h.result
    <2>1. "wrenStatus" \in Labels
      BY DEF Labels
    <2>2. QED
      BY <1>1, <1>3, <1>4, <2>1, GoesTo
  <1>7. Latches(f)'
    BY <1>2, <1>5, <1>6 DEF Latches, Armed, Rested, Ready
  <1>8. Owns(f, c)'
    BY <1>1, <1>2, <1>5, <1>6, <1>7 DEF Owns, Buffered, Ready, Rested
  <1>9. Keeps(h, f, c)
    <2>1. Part(f) = Part(h) /\ f.fn = h.fn
      BY <1>1, <1>6 DEF Part, Like
    <2>2. QED
      BY <1>1, <1>5, <1>6, <2>1, KeepsQuiet DEF Unwiped
  <1>10. QED
    BY <1>6, <1>8, <1>9

LEMMA EnableStatusOwns ==
    ASSUME Types, Control, NEW t \in Threads, WriteEnableStatus(t), Clean', Owns(Top(t), call[t])
    PROVE  \E f \in Frames : SetTop(t, f) /\ Owns(f, call[t])' /\ Keeps(Top(t), f, call[t])
  <1> DEFINE h == Top(t)
             c == call[t]
             l == CASE h.fn = "page" -> "fill"
                    [] h.fn = "aai" /\ h.size < 2 -> "wrdi"
                    [] OTHER -> "command"
  <1>1. stack[t] # <<>> /\ h.fn \in Writers /\ h.at = "wrenStatus" /\ UNCHANGED << call, chip >>
    BY DEF WriteEnableStatus, At, ghost
  <1>2. wel /\ Ready /\ aai = NotAai /\ h.result = "SUCCESS" /\ (h.fn = "aai" => h.from < 2)
    BY <1>1 DEF Owns, Latches, Armed, Control, Shape, Placed, Sizes
  <1>3. PICK x \in Transfers :
             /\ Spend(x)
             /\ \/ ~x.ok /\ Fail(t, Exit(t), "ERR_READ")
                \/ x.ok /\ ~x.wel /\ Fail(t, Exit(t), "ERR_WRITE")
                \/ x.ok /\ Goto(t, l)
    BY DEF WriteEnableStatus
  <1>4. Goto(t, l)
    <2>1. ~(~x.ok /\ Fail(t, Exit(t), "ERR_READ"))
      BY <1>1, <1>3, NoFailure DEF Errors
    <2>2. ~(x.ok /\ ~x.wel /\ Fail(t, Exit(t), "ERR_WRITE"))
      BY <1>1, <1>2, <1>3, NoFailure DEF Errors
    <2>3. QED
      BY <1>3, <2>1, <2>2
  <1>5. l \in Labels /\ (l = "wrdi" => h.fn = "aai") /\ l \in {"fill", "wrdi", "command"}
        /\ (h.fn = "page" <=> l = "fill") /\ (h.fn = "chipErase" => l = "command")
    BY DEF Labels
  <1>6. PICK f \in Frames : SetTop(t, f) /\ Like(h, f) /\ f.at = l /\ f.result = h.result
    <2> HIDE DEF l
    <2>1. QED
      BY <1>1, <1>4, <1>5, GoesTo
  <1> HIDE DEF l
  <1>7. Latches(f)'
    BY <1>1, <1>2, <1>5, <1>6 DEF Latches, Armed, Ready, chip, Like
  <1>8. Owns(f, c)'
    BY <1>1, <1>2, <1>5, <1>6, <1>7 DEF Owns, Buffered, Ready, chip, Like
  <1>9. Keeps(h, f, c)
    <2>1. Part(f) = Part(h) /\ f.fn = h.fn
      BY <1>1, <1>5, <1>6 DEF Part, Like
    <2>2. QED
      BY <1>1, <1>5, <1>6, <2>1, KeepsQuiet DEF Unwiped, chip
  <1>10. QED
    BY <1>6, <1>8, <1>9

LEMMA FillOwns ==
    ASSUME Types, Control, NEW t \in Threads, Fill(t), Clean', Owns(Top(t), call[t])
    PROVE  \E f \in Frames : SetTop(t, f) /\ Owns(f, call[t])' /\ Keeps(Top(t), f, call[t])
  <1> DEFINE h == Top(t)
             c == call[t]
  <1>1. stack[t] # <<>> /\ h.fn = "page" /\ h.at = "fill" /\ UNCHANGED << call, chip >>
        /\ Goto(t, "command")
        /\ cmd_data' = [addr |-> h.addr, bytes |-> Data(t, h.from, Chunk(h))]
    BY DEF Fill, At, ghost
  <1>2. wel /\ Ready /\ aai = NotAai /\ h.result = "SUCCESS" /\ h \in Frames
    BY <1>1, TheOther DEF Owns, Latches, Armed, Types
  <1>3. PICK f \in Frames : SetTop(t, f) /\ Like(h, f) /\ f.at = "command" /\ f.result = h.result
    BY <1>1, GoesTo DEF Labels
  <1>4. PICK m \in Nat, n \in Nat : m = h.from /\ n = Chunk(h) /\ n = Chunk(f)
    <2>1. Chunk(h) \in Nat /\ h.from \in Nat
      BY <1>1, <1>2, PortionFits DEF Writers, Frames
    <2>2. Chunk(f) = Chunk(h)
      BY <1>3 DEF Chunk, Like
    <2>3. QED
      BY <2>1, <2>2
  <1>5. /\ cmd_data'.addr = h.addr /\ Len(cmd_data'.bytes) = n
        /\ \A k \in 1 .. n : cmd_data'.bytes[k] = 100 * c.version + m + k - 1
    <2>1. CallsOK
      BY DEF Types
    <2>2. Len(Data(t, m, n)) = n /\ \A k \in 1 .. n : Data(t, m, n)[k] = 100 * c.version + m + k - 1
      BY <2>1, DataTypes
    <2>3. cmd_data'.addr = h.addr /\ cmd_data'.bytes = Data(t, m, n)
      BY <1>1, <1>4
    <2>4. QED
      BY <2>2, <2>3
  <1>6. Buffered(f, c)'
    BY <1>1, <1>3, <1>4, <1>5 DEF Buffered, Like
  <1>7. Latches(f)'
    <2>1. wel' /\ Ready' /\ aai' = NotAai
      BY <1>1, <1>2 DEF Ready, chip
    <2>2. f.fn = "page" /\ f.at = "command"
      BY <1>1, <1>3 DEF Like
    <2>3. QED
      BY <2>1, <2>2 DEF Latches, Armed
  <1>8. Owns(f, c)'
    BY <1>1, <1>2, <1>3, <1>6, <1>7 DEF Owns, Ready, chip
  <1>9. Keeps(h, f, c)
    <2>1. Part(f) = Part(h) /\ f.fn = h.fn
      BY <1>1, <1>3 DEF Part, Like
    <2>2. QED
      BY <1>1, <1>3, <2>1, KeepsQuiet DEF chip
  <1>10. QED
    BY <1>3, <1>8, <1>9

LEMMA ReadDataOwns ==
    ASSUME Types, Control, NEW t \in Threads, ReadData(t), Clean', Owns(Top(t), call[t])
    PROVE  \E f \in Frames : SetTop(t, f) /\ Owns(f, call[t])' /\ Keeps(Top(t), f, call[t])
  <1> DEFINE h == Top(t)
             c == call[t]
  <1>1. stack[t] # <<>> /\ h.fn = "read" /\ h.at = "data" /\ UNCHANGED << call, chip >>
    BY DEF ReadData, At, ghost
  <1>2. Rested /\ h.result = "SUCCESS"
    BY <1>1 DEF Owns, Latches, Armed
  <1>3. PICK x \in Transfers :
             /\ Spend(x)
             /\ IF x.ok THEN Goto(t, "unlock") ELSE Fail(t, "unlock", "ERR_READ")
    BY DEF ReadData
  <1>4. Goto(t, "unlock")
    <2>1. ~(~x.ok /\ Fail(t, "unlock", "ERR_READ"))
      BY <1>1, <1>3, NoFailure DEF Errors
    <2>2. QED
      BY <1>3, <2>1
  <1>5. PICK f \in Frames : SetTop(t, f) /\ Like(h, f) /\ f.at = "unlock" /\ f.result = h.result
    BY <1>1, <1>4, GoesTo DEF Labels
  <1>6. Owns(f, c)'
    BY <1>1, <1>2, <1>5 DEF Owns, Buffered, Latches, Armed, Rested, Ready, chip
  <1>7. Keeps(h, f, c)
    <2>1. Finished' = Finished
      BY <1>1 DEF Finished, chip
    <2>2. QED
      BY <1>1, <1>5, <2>1 DEF Keeps, Expected, Like
  <1>8. QED
    BY <1>5, <1>6, <1>7

LEMMA AbortOwns ==
    ASSUME Types, Control, NEW t \in Threads, Abort(t), Owns(Top(t), call[t])
    PROVE  FALSE
  <1>1. stack[t] # <<>> /\ Top(t).at \in {"abort", "abortStatus"}
    BY DEF Abort, At
  <1>2. Top(t).result # "SUCCESS"
    BY <1>1 DEF Control, Shape, Placed
  <1>3. QED
    BY <1>2 DEF Owns

LEMMA DisableOwns ==
    ASSUME Types, Control, NEW t \in Threads, WriteDisable(t), Clean', Owns(Top(t), call[t])
    PROVE  \E f \in Frames : SetTop(t, f) /\ Owns(f, call[t])' /\ Keeps(Top(t), f, call[t])
  <1> DEFINE h == Top(t)
             c == call[t]
  <1>1. stack[t] # <<>> /\ h.fn \in Writers /\ h.at = "wrdi" /\ UNCHANGED call
    BY DEF WriteDisable, At, ghost
  <1>2. h \in Frames /\ h.result = "SUCCESS" /\ Ready /\ (h.fn # "aai" => Rested)
    BY <1>1, TheOther DEF Owns, Latches, Armed, Rested, Types
  <1>3. PICK x \in Transfers :
             /\ Spend(x)
             /\ IF x.lost THEN Ignored ELSE WRDI
             /\ \/ x.ok /\ Goto(t, "wrdiStatus")
                \/ ~x.ok /\ h.fn = "aai" /\ Fail(t, "abort", "ERR_WRITE")
                \/ ~x.ok /\ h.fn # "aai" /\ Goto(t, "unlock")
    BY DEF WriteDisable
  <1>4. x.ok => ~x.lost
    BY <1>3, CleanTransfer
  <1>5. ~(~x.ok /\ Fail(t, "abort", "ERR_WRITE"))
    BY <1>1, <1>3, NoFailure DEF Errors
  <1>6. Rested' /\ UNCHANGED << mem, work >>
    BY <1>2, <1>3, <1>4, <1>5 DEF WRDI, Ignored, Rested, Ready, chip
  <1>7. PICK f \in Frames : /\ SetTop(t, f) /\ Like(h, f) /\ f.result = h.result
                            /\ f.at = "wrdiStatus" \/ (h.fn # "aai" /\ f.at = "unlock")
    BY <1>1, <1>3, <1>5, GoesTo DEF Labels
  <1>8. Owns(f, c)'
    BY <1>1, <1>2, <1>6, <1>7 DEF Owns, Buffered, Latches, Armed, Rested, Ready
  <1>9. Keeps(h, f, c)
    <2>1. CASE h.fn # "chipErase"
      <3>1. f.at = "unlock" => h.size = 0
        BY <1>1, <1>2, <1>7, <2>1 DEF Control, Shape, Placed, Sizes, Writers
      <3>2. PICK m \in Nat : m = h.from
        BY <1>2 DEF Frames
      <3>3. Part(f) = m /\ Part(h) = m
        BY <1>1, <1>7, <3>1, <3>2 DEF Part, Like
      <3>4. QED
        BY <1>6, <1>7, <2>1, <3>3, KeepsQuiet DEF Like
    <2>2. CASE h.fn = "chipErase"
      <3>1. Finished' = Finished
        BY <1>6 DEF Finished
      <3>2. QED
        BY <1>1, <1>7, <2>2, <3>1 DEF Keeps, Expected, Like, Unwiped
    <2>3. QED
      BY <2>1, <2>2
  <1>10. QED
    BY <1>7, <1>8, <1>9

LEMMA DisableStatusOwns ==
    ASSUME Types, Control, NEW t \in Threads, WriteDisableStatus(t), Clean', Owns(Top(t), call[t])
    PROVE  \E f \in Frames : SetTop(t, f) /\ Owns(f, call[t])' /\ Keeps(Top(t), f, call[t])
  <1> DEFINE h == Top(t)
             c == call[t]
  <1>1. stack[t] # <<>> /\ h.fn \in Writers /\ h.at = "wrdiStatus" /\ UNCHANGED << call, chip >>
    BY DEF WriteDisableStatus, At, ghost
  <1>2. h \in Frames /\ h.result = "SUCCESS" /\ Rested
    BY <1>1, TheOther DEF Owns, Latches, Armed, Types
  <1>3. PICK x \in Transfers :
             /\ Spend(x)
             /\ \/ (h.fn # "aai" \/ h.size # 1) /\ Goto(t, "unlock")
                \/ h.fn = "aai" /\ h.size = 1 /\ Goto(t, "tail")
                \/ ~x.ok /\ Fail(t, "abort", "ERR_READ")
                \/ x.wel /\ Fail(t, "abort", "ERR_WRITE")
    BY DEF WriteDisableStatus
  <1>4. /\ ~(~x.ok /\ Fail(t, "abort", "ERR_READ"))
        /\ ~(x.wel /\ Fail(t, "abort", "ERR_WRITE"))
    BY <1>1, <1>2, <1>3, NoFailure DEF Errors, Rested
  <1>5. PICK f \in Frames : /\ SetTop(t, f) /\ Like(h, f) /\ f.result = h.result
                            /\ \/ (h.fn # "aai" \/ h.size # 1) /\ f.at = "unlock"
                               \/ h.fn = "aai" /\ h.size = 1 /\ f.at = "tail"
    BY <1>1, <1>3, <1>4, GoesTo DEF Labels
  <1>6. Owns(f, c)'
    BY <1>1, <1>2, <1>5 DEF Owns, Buffered, Latches, Armed, Rested, Ready, chip
  <1>7. Keeps(h, f, c)
    <2>1. CASE h.fn # "chipErase"
      <3>1. PICK m \in Nat, s \in Nat : m = h.from /\ s = h.size
        BY <1>2, SfudAssumption DEF Frames
      <3>2. f.at = "unlock" => s = 0
        <4>1. h.fn = "aai" => s < 2
          BY <1>1, <1>2, <3>1 DEF Control, Shape, Placed, Sizes
        <4>2. h.fn # "aai" => s = 0
          BY <1>1, <1>2, <2>1, <3>1 DEF Control, Shape, Placed, Sizes, Writers
        <4>3. QED
          BY <1>5, <3>1, <4>1, <4>2
      <3>3. Part(f) = m /\ Part(h) = m
        BY <1>1, <1>5, <3>1, <3>2 DEF Part, Like
      <3>4. QED
        BY <1>1, <1>5, <2>1, <3>3, KeepsQuiet DEF Like, chip
    <2>2. CASE h.fn = "chipErase"
      <3>1. Finished' = Finished
        BY <1>1 DEF Finished, chip
      <3>2. QED
        BY <1>1, <1>5, <2>2, <3>1 DEF Keeps, Expected, Like, Unwiped
    <2>3. QED
      BY <2>1, <2>2
  <1>8. QED
    BY <1>5, <1>6, <1>7

-----------------------------------------------------------------------------
\* The cycle: each step of the thread on the bus keeps what it owns.

LEMMA LikePortion ==
    ASSUME NEW h, NEW f, Like(h, f)
    PROVE  Portion(f) = Portion(h) /\ Chunk(f) = Chunk(h) /\ EraseSize(f) = EraseSize(h)
  <1>1. PICK a, s, g, fn : /\ a = h.addr /\ s = h.size /\ g = h.gran /\ fn = h.fn
                           /\ a = f.addr /\ s = f.size /\ g = f.gran /\ fn = f.fn
    BY DEF Like
  <1>2. EraseSize(f) = EraseSize(h)
    <2> DEFINE fit == {i \in DOMAIN Erasers : s >= Erasers[i] /\ a % Erasers[i] = 0}
               e == IF SfdpAvailable /\ a % Erasers[1] = 0
                    THEN Erasers[IF fit = {} THEN 1 ELSE CHOOSE i \in fit : \A j \in fit : j <= i]
                    ELSE Erasers[1]
    <2>1. EraseSize(f) = e
      BY <1>1 DEF EraseSize
    <2>2. EraseSize(h) = e
      BY <1>1 DEF EraseSize
    <2>3. QED
      BY <2>1, <2>2
  <1>3. Chunk(f) = Chunk(h)
    BY <1>1 DEF Chunk
  <1>4. Done(f) = Done(h)
    BY <1>1, <1>2, <1>3 DEF Done
  <1>5. QED
    BY <1>1, <1>2, <1>3, <1>4 DEF Portion

LEMMA WaitBusyOwns ==
    ASSUME Types, Control, NEW t \in Threads, WaitBusy(t), Clean', Owns(Top(t), call[t])
    PROVE  \E f \in Frames : SetTop(t, f) /\ Owns(f, call[t])' /\ Keeps(Top(t), f, call[t])
  <1> DEFINE h == Top(t)
             c == call[t]
  <1>1. stack[t] # <<>> /\ h.fn \in Writers \cup {"read"} /\ h.at = "busy" /\ UNCHANGED << call, chip >>
    BY DEF WaitBusy, At, ghost
  <1>2. h \in Frames /\ h.result = "SUCCESS" /\ (~Ready => work.cells \subseteq Footprint(c))
    BY <1>1, TheOther DEF Owns, Types
  <1>3. UNCHANGED << mem, wel, work, aai >>
    BY <1>1 DEF chip
  <1>4. PICK x \in Transfers :
             /\ Spend(x)
             /\ \/ x.ok /\ ~x.busy /\ SetTop(t, AfterCycle(h))
                \/ h.retry > 0 /\ SetTop(t, [h EXCEPT !.retry = @ - 1])
                \/ ~(x.ok /\ ~x.busy) /\ (x.busy => Slow) /\ Fail(t, Exit(t), "ERR_TIMEOUT")
    BY DEF WaitBusy
  <1>5. ~(~(x.ok /\ ~x.busy) /\ (x.busy => Slow) /\ Fail(t, Exit(t), "ERR_TIMEOUT"))
    BY <1>1, <1>4, NoFailure DEF Errors
  <1>6. CASE h.retry > 0 /\ SetTop(t, [h EXCEPT !.retry = @ - 1])
    <2> PICK f : f = [h EXCEPT !.retry = @ - 1]
      OBVIOUS
    <2>1. f \in Frames /\ Like(h, f) /\ f.at = "busy" /\ f.result = h.result
      <3> HIDE DEF h
      <3>1. h.retry - 1 \in 0 .. RetryTimes
        BY <1>2, <1>6, SfudAssumption DEF Frames
      <3>2. QED
        BY <1>1, <1>2, <3>1 DEF Frames, Like
    <2>2. SetTop(t, f)
      BY <1>6
    <2>3. Latches(f)'
      BY <1>1, <1>3, <2>1 DEF Owns, Latches, Like, Armed, Ready, Rested
    <2>4. Owns(f, c)'
      BY <1>1, <1>2, <1>3, <2>1, <2>3 DEF Owns, Buffered, Ready
    <2>5. Part(f) = Part(h) /\ f.fn = h.fn
      BY <1>1, <2>1, LikePortion DEF Part, Like
    <2>6. Keeps(h, f, c)
      BY <1>1, <1>3, <2>1, <2>5, KeepsQuiet
    <2>7. QED
      BY <2>1, <2>2, <2>4, <2>6
  <1>7. CASE x.ok /\ ~x.busy /\ SetTop(t, AfterCycle(h)) /\ h.fn = "read"
    <2>1. Goto(t, "data")
      BY <1>7 DEF AfterCycle, Goto
    <2>2. PICK f \in Frames : SetTop(t, f) /\ Like(h, f) /\ f.at = "data" /\ f.result = h.result
      BY <1>1, <2>1, GoesTo DEF Labels
    <2>3. Latches(f)'
      BY <1>1, <1>3, <1>7, <2>2 DEF Owns, Latches, Like, Armed, Ready, Rested
    <2>4. Owns(f, c)'
      BY <1>1, <1>2, <1>3, <2>2, <2>3 DEF Owns, Buffered, Ready
    <2>5. Finished' = Finished
      BY <1>3 DEF Finished
    <2>6. Keeps(h, f, c)
      BY <1>7, <2>2, <2>5 DEF Keeps, Expected, Like
    <2>7. QED
      BY <2>2, <2>4, <2>6
  <1>8. CASE x.ok /\ ~x.busy /\ SetTop(t, AfterCycle(h)) /\ h.fn \in Writers
    <2> PICK f : f = AfterCycle(h)
      OBVIOUS
    <2> DEFINE n == Portion(h)
    <2>1. SetTop(t, f)
      BY <1>8
    <2>2. Ready
      BY <1>4, <1>8, CleanTransfer
    <2>3. f \in Frames /\ f.fn = h.fn /\ f.gran = h.gran /\ f.result = h.result
          /\ f.addr = h.addr + n /\ f.from = h.from + n /\ f.size = h.size - n
          /\ f.at = IF f.fn = "aai" THEN (IF f.size >= 2 THEN "command" ELSE "wrdi")
                                    ELSE (IF f.size = 0 THEN "wrdi" ELSE "wren")
      <3> HIDE DEF h
      <3>1. QED
        BY <1>2, <1>8, CycleAdvances
    <2>4. h.fn = "aai" => n = 2
      <3>1. h.fn = "aai" => h.size > 1
        BY <1>1 DEF Control, Shape, Placed, Sizes
      <3>2. h.size \in Nat
        BY <1>2, SfudAssumption DEF Frames
      <3>3. QED
        BY <1>2, <1>8, <3>1, <3>2, PortionFits
    <2>5. h.fn = "chipErase" => f.at = "wrdi"
      <3>1. h.fn = "chipErase" => n = h.size
        BY <1>2, <1>8, PortionFits
      <3>2. PICK s \in Nat : s = h.size
        BY <1>2, SfudAssumption DEF Frames
      <3>3. h.fn = "chipErase" => f.size = 0
        BY <2>3, <3>1, <3>2
      <3>4. QED
        BY <2>3, <3>3
    <2> HIDE DEF n
    <2>6. Latches(f)'
      <3>1. CASE h.fn = "aai"
        <4>1. wel /\ aai = h.addr + 2
          BY <1>1, <3>1 DEF Owns, Latches
        <4>2. f.at \in {"command", "wrdi"} /\ f.fn = "aai" /\ f.addr = h.addr + 2
          BY <2>3, <2>4, <3>1
        <4>3. QED
          BY <1>3, <2>2, <4>1, <4>2 DEF Latches, Armed, Ready
      <3>2. CASE h.fn # "aai"
        <4>1. Rested
          BY <1>1, <1>8, <2>2, <3>2 DEF Owns, Latches, Rested, Writers
        <4>2. f.at \in {"wren", "wrdi"}
          BY <2>3, <3>2
        <4>3. QED
          BY <1>3, <2>3, <3>2, <4>1, <4>2 DEF Latches, Armed, Ready, Rested
      <3>3. QED
        BY <3>1, <3>2
    <2>7. Owns(f, c)'
      <3>1. f.fn = "page" => f.at # "command"
        BY <2>3
      <3>2. QED
        BY <1>1, <1>2, <1>3, <2>2, <2>3, <2>6, <3>1 DEF Owns, Buffered, Ready
    <2>8. Part(f) = Part(h)
      <3>1. Part(h) = h.from + n
        BY <1>1 DEF Part, n
      <3>2. Part(f) = f.from
        BY <2>3 DEF Part
      <3>3. QED
        BY <2>3, <3>1, <3>2
    <2>9. Keeps(h, f, c)
      BY <1>1, <1>3, <2>3, <2>5, <2>8, KeepsQuiet DEF Unwiped
    <2>10. QED
      BY <2>1, <2>3, <2>7, <2>9
  <1>9. QED
    BY <1>1, <1>4, <1>5, <1>6, <1>7, <1>8

LEMMA OddByteDoneOwns ==
    ASSUME Types, Control, NEW t \in Threads, OddByteDone(t), Owns(Top(t), call[t])
    PROVE  \E f \in Frames : SetTop(t, f) /\ Owns(f, call[t])' /\ Keeps(Top(t), f, call[t])
  <1> DEFINE h == Top(t)
             c == call[t]
  <1>1. stack[t] # <<>> /\ h.fn = "aai" /\ h.at \in {"headDone", "tailDone"}
        /\ UNCHANGED << call, chip >>
    BY DEF OddByteDone, At, ghost
  <1>2. h \in Frames /\ h.result = "SUCCESS" /\ Rested /\ h.size \in Nat
    BY <1>1, TheOther, SfudAssumption DEF Owns, Latches, Armed, Types, Frames
  <1>3. UNCHANGED << mem, wel, work, aai >>
    BY <1>1 DEF chip
  <1>4. PICK m \in Nat, s \in Nat : m = h.from /\ s = h.size
    BY <1>2 DEF Frames
  <1>5. CASE h.at = "headDone" /\ SetTop(t, [Advance(h, 1) EXCEPT !.at = "wren"])
    <2> PICK g : g = Advance(h, 1)
      OBVIOUS
    <2> PICK f : f = [g EXCEPT !.at = "wren"]
      OBVIOUS
    <2>1. g \in Frames /\ g.fn = h.fn /\ g.result = h.result /\ g.from = h.from + 1
      BY <1>2, Advanced
    <2>2. f \in Frames /\ f.at = "wren" /\ f.fn = "aai" /\ f.result = "SUCCESS" /\ f.from = h.from + 1
      <3> HIDE DEF h
      <3>1. f \in Frames /\ f.at = "wren" /\ f.fn = g.fn /\ f.result = g.result /\ f.from = g.from
        <4>1. g \in Frames
          BY <2>1
        <4>2. QED
          BY <4>1 DEF Frames, Labels
      <3>2. QED
        BY <1>1, <1>2, <2>1, <3>1
    <2>3. SetTop(t, f)
      BY <1>5
    <2>4. Owns(f, c)'
      BY <1>1, <1>2, <1>3, <2>2 DEF Owns, Buffered, Latches, Armed, Ready, Rested
    <2>5. Part(f) = Part(h)
      BY <1>5, <2>2 DEF Part
    <2>6. Keeps(h, f, c)
      BY <1>1, <1>3, <2>2, <2>5, KeepsQuiet
    <2>7. QED
      BY <2>2, <2>3, <2>4, <2>6
  <1>6. CASE h.at = "tailDone" /\ Goto(t, "unlock")
    <2>1. PICK f \in Frames : SetTop(t, f) /\ Like(h, f) /\ f.at = "unlock" /\ f.result = h.result
      BY <1>1, <1>6, GoesTo DEF Labels
    <2>2. Owns(f, c)'
      BY <1>1, <1>2, <1>3, <2>1 DEF Owns, Buffered, Latches, Armed, Ready, Rested
    <2>3. s = 1
      BY <1>1, <1>4, <1>6 DEF Control, Shape, Placed, Sizes
    <2>4. Part(f) = Part(h)
      BY <1>4, <1>6, <2>1, <2>3 DEF Part, Like
    <2>5. Keeps(h, f, c)
      BY <1>1, <1>3, <2>1, <2>4, KeepsQuiet DEF Like
    <2>6. QED
      BY <2>1, <2>2, <2>5
  <1>7. QED
    BY <1>1, <1>2, <1>5, <1>6 DEF OddByteDone, At

-----------------------------------------------------------------------------
\* Where a command works.
LEMMA InPlace ==
    ASSUME Types, Control, NEW t \in Threads, stack[t] # <<>>, Top(t).at \in {"command", "busy"},
           Top(t).fn \in Writers
    PROVE  LET h == Top(t)
               c == call[t]
           IN  /\ h \in Frames /\ h.from \in Nat /\ h.size \in Nat /\ h.addr \in Nat
               /\ c.addr \in Nat /\ c.size \in Nat /\ c.version \in Nat
               /\ h.addr = c.addr + h.from /\ h.from + h.size <= c.size /\ InRange(c)
               /\ h.fn \in {"page", "aai"} => c.fn \in {"write", "eraseWrite"}
               /\ h.fn = "erase" => c.fn \in {"erase", "eraseWrite"}
               /\ h.fn = "chipErase" => \/ c.fn = "chipErase"
                                        \/ /\ c.fn \in {"erase", "eraseWrite"}
                                           /\ c.addr = 0 /\ c.size = ChipSize
               /\ h.fn # "chipErase" => h.size > 0
               /\ h.fn = "aai" => h.size > 1
               /\ h.fn = "page" => h.gran = PageSize \/ (h.gran = 1 /\ h.size = 1)
  <1> DEFINE h == Top(t)
             c == call[t]
             g == stack[t][2]
  <1>1. h \in Frames /\ (Len(stack[t]) = 1 \/ (Len(stack[t]) = 2 /\ g \in Frames))
    BY TheOther DEF Types
  <1>2. /\ Placed(h, c)
        /\ Len(stack[t]) = 1 => Single(h, c)
        /\ Len(stack[t]) = 2 => Pair(h, g, c)
    BY DEF Control, Shape
  <1>3. c \in [fn : Commands, addr : Nat, size : 0 .. SizeMod - 1, version : Nat]
    BY DEF Types, CallsOK
  <1> HIDE DEF h, c, g
  <1>4. c.addr \in Nat /\ c.size \in Nat /\ c.version \in Nat /\ c.fn \in Commands
    BY <1>3, SfudAssumption
  <1>5. h.from \in Nat /\ h.size \in Nat /\ h.addr \in Nat
    BY <1>1, SfudAssumption DEF Frames
  <1>6. h.at \in {"command", "busy"} /\ h.fn \in Writers
    BY DEF h
  <1>7. InRange(c) /\ (h.fn # "chipErase" => h.size > 0) /\ (h.fn = "aai" => h.size > 1)
        /\ (h.fn = "chipErase" /\ c.fn # "chipErase" => c.addr = 0 /\ c.size = ChipSize)
    BY <1>2, <1>5, <1>6 DEF Placed, Sizes, Loop, Writers
  <1>8. CASE Single(h, c) \/ UnderErase(h, g, c)
    <2>1. Main(h, c)
      BY <1>8 DEF Single, UnderErase
    <2>2. h.addr = c.addr + h.from /\ h.from + h.size <= c.size /\ h.gran = PageSize
      BY <1>4, <2>1 DEF Main
    <2>3. /\ h.fn \in {"page", "aai"} => c.fn \in {"write", "eraseWrite"}
          /\ h.fn = "erase" => c.fn \in {"erase", "eraseWrite"}
          /\ h.fn = "chipErase" => c.fn \in {"chipErase", "erase", "eraseWrite"}
      BY <1>4, <1>8 DEF Single, UnderErase, Serves, Commands
    <2>4. QED
      BY <1>1, <1>4, <1>5, <1>7, <2>2, <2>3 DEF h, c
  <1>9. CASE Len(stack[t]) = 2 /\ UnderAai(h, g, c)
    <2>1. g \in Frames /\ Placed(g, c) /\ Main(g, c) /\ g.at \in {"headDone", "tailDone"} /\ g.fn = "aai"
      BY <1>1, <1>2, <1>9 DEF Pair, UnderAai
    <2>2. PICK k \in Nat, s \in Nat : k = g.from /\ s = g.size
      BY <2>1, SfudAssumption DEF Frames
    <2>3. s >= 1 /\ k + s = c.size
      BY <2>1, <2>2 DEF Placed, Sizes, Main
    <2>4. h.from >= k /\ h.from + h.size = k + 1 /\ h.addr = c.addr + h.from
          /\ h.gran = 1 /\ h.fn = "page" /\ c.fn \in {"write", "eraseWrite"}
      BY <1>9, <2>2 DEF UnderAai
    <2>5. h.from + h.size <= c.size /\ h.size = 1
      <3>1. PICK i \in Nat, n \in Nat : i = h.from /\ n = h.size
        BY <1>5
      <3>2. n > 0 /\ i >= k /\ i + n = k + 1
        BY <1>7, <2>4, <3>1
      <3>3. n = 1 /\ i + n <= k + s
        BY <2>3, <3>2
      <3>4. QED
        BY <2>3, <3>1, <3>3
    <2>6. QED
      BY <1>1, <1>4, <1>5, <1>7, <2>4, <2>5 DEF h, c
  <1>10. QED
    BY <1>1, <1>2, <1>8, <1>9 DEF Pair

LEMMA InFootprint ==
    ASSUME NEW c, c.addr \in Nat, c.size \in Nat, c.addr + c.size <= ChipSize,
           NEW a \in Cells, c.addr <= a, a < c.addr + c.size
    PROVE  /\ c.fn \in {"write", "erase", "eraseWrite"} => a \in Footprint(c)
           /\ c.fn \in {"erase", "eraseWrite"} =>
                 \A b \in Cells : b \div Erasers[1] = a \div Erasers[1] => b \in Footprint(c)
  <1>1. a \in Flash!Target(c) /\ Flash!InBound(c)
    BY DEF Flash!Target, Flash!InBound, Flash!Cells, Cells
  <1>2. \A b \in Cells : b \div Erasers[1] = a \div Erasers[1] => b \in Flash!Blocks(c)
    BY <1>1 DEF Flash!Blocks, Flash!Cells, Cells
  <1>3. QED
    BY <1>1, <1>2 DEF Footprint

\* The first bytes of a range, and some more.
LEMMA UptoMore ==
    ASSUME NEW c, c.addr \in Nat, NEW k \in Nat, NEW n \in Nat, NEW m, NEW old, NEW new,
           old = Upto(c, k, m),
           new = [b \in Cells |-> IF c.addr + k <= b /\ b < c.addr + k + n
                                  THEN And(old[b], 100 * c.version + (b - c.addr)) ELSE old[b]]
    PROVE  new = Upto(c, k + n, m)
  <1>1. ASSUME NEW b \in Cells
        PROVE  new[b] = IF c.addr <= b /\ b < c.addr + (k + n)
                        THEN And(m[b], 100 * c.version + (b - c.addr)) ELSE m[b]
    <2>1. b \in Int
      BY ChipAssumption DEF Cells
    <2>2. old[b] = IF c.addr <= b /\ b < c.addr + k
                   THEN And(m[b], 100 * c.version + (b - c.addr)) ELSE m[b]
      BY DEF Upto
    <2>3. new[b] = IF c.addr + k <= b /\ b < c.addr + k + n
                   THEN And(old[b], 100 * c.version + (b - c.addr)) ELSE old[b]
      OBVIOUS
    <2>4. CASE c.addr + k <= b /\ b < c.addr + k + n
      <3>1. ~(c.addr <= b /\ b < c.addr + k) /\ c.addr <= b /\ b < c.addr + (k + n)
        BY <2>1, <2>4
      <3>2. QED
        BY <2>2, <2>3, <2>4, <3>1
    <2>5. CASE ~(c.addr + k <= b /\ b < c.addr + k + n)
      <3>1. c.addr <= b /\ b < c.addr + k <=> c.addr <= b /\ b < c.addr + (k + n)
        BY <2>1, <2>5
      <3>2. QED
        BY <2>2, <2>3, <2>5, <3>1
    <2>6. QED
      BY <2>4, <2>5
  <1>2. DOMAIN new = Cells
    OBVIOUS
  <1>3. new = [b \in Cells |-> new[b]]
    OBVIOUS
  <1>4. QED
    BY <1>1, <1>3 DEF Upto

\* The program commands write the next bytes of the call.
Programs(h, c, n) ==
    /\ UNCHANGED << mem, wel >>
    /\ work'.cells = {b \in Cells : h.addr <= b /\ b < h.addr + n}
    /\ Finished' = [b \in Cells |-> IF h.addr <= b /\ b < h.addr + n
                                    THEN And(mem[b], 100 * c.version + (b - c.addr)) ELSE mem[b]]

\* A page command stays in its page, whatever bytes it carries.
LEMMA PageCells ==
    ASSUME Types, Control, NEW t \in Threads, stack[t] # <<>>, Top(t).at = "command",
           Top(t).fn = "page", Obeys, Reaction(t),
           cmd_data.addr = Top(t).addr, Len(cmd_data.bytes) = Chunk(Top(t))
    PROVE  LET a == Top(t).addr
               n == Portion(Top(t))
               bytes == cmd_data.bytes
           IN  /\ n \in Nat /\ n > 0 /\ n = Chunk(Top(t)) /\ n <= Top(t).size
               /\ UNCHANGED << mem, wel, aai >>
               /\ work'.cells = {b \in Cells : a <= b /\ b < a + n}
               /\ Finished' = [b \in Cells |-> IF a <= b /\ b < a + n
                                               THEN And(mem[b], bytes[b - a + 1]) ELSE mem[b]]
  <1> DEFINE h == Top(t)
             c == call[t]
  <1>1. Obeys
    OBVIOUS
  <1>2. /\ h \in Frames /\ h.from \in Nat /\ h.size \in Nat /\ h.addr \in Nat
        /\ c.addr \in Nat /\ c.version \in Nat /\ h.addr = c.addr + h.from /\ h.size > 0
        /\ h.gran = PageSize \/ (h.gran = 1 /\ h.size = 1)
    BY InPlace DEF Writers
  <1>3. PICK n \in Nat : n = Portion(h) /\ n = Chunk(h) /\ n > 0 /\ n <= ToNext(h.addr, h.gran)
                         /\ n <= h.size
    <2> HIDE DEF h
    <2>1. h.fn = "page"
      BY DEF h
    <2>2. QED
      BY <1>2, <2>1, PortionFits DEF Writers
  <1>4. PICK a \in Nat : a = h.addr
    BY <1>2
  <1>5. cmd_data.addr = a /\ Len(cmd_data.bytes) = n
    BY <1>3, <1>4
  <1>6. PICK bytes \in Seq(Int) : bytes = cmd_data.bytes
    BY DEF Types, CallsOK
  <1>7. ProgramPage(a, bytes)
    BY <1>5, <1>6 DEF Reaction
  <1>8. (a % PageSize) + Len(bytes) <= PageSize
    <2>1. a % PageSize \in 0 .. PageSize - 1 /\ PageSize \in Nat \ {0}
      BY ChipAssumption
    <2>2. PICK r \in Nat : r = a % PageSize /\ r < PageSize
      BY <2>1
    <2>3. CASE h.gran = PageSize
      <3>1. n <= PageSize - r
        BY <1>3, <1>4, <2>2, <2>3 DEF ToNext
      <3>2. QED
        BY <1>5, <1>6, <2>1, <2>2, <3>1
    <2>4. CASE h.size = 1
      <3>1. n <= 1
        BY <1>3, <2>4
      <3>2. QED
        BY <1>5, <1>6, <2>1, <2>2, <3>1
    <2>5. QED
      BY <1>2, <2>3, <2>4
  <1>9. ChipOK
    BY DEF Types
  <1>10. /\ UNCHANGED << mem, wel, aai >>
         /\ work'.cells = {b \in Cells : a <= b /\ b < a + Len(bytes)}
         /\ Finished' = [b \in Cells |-> IF a <= b /\ b < a + Len(bytes)
                                         THEN And(mem[b], bytes[b - a + 1]) ELSE mem[b]]
    BY <1>1, <1>7, <1>8, <1>9, PageLaw
  <1>11. QED
    BY <1>3, <1>4, <1>5, <1>6, <1>10

LEMMA PageWrites ==
    ASSUME Types, Control, NEW t \in Threads, stack[t] # <<>>, Top(t).at = "command",
           Top(t).fn = "page", Owns(Top(t), call[t]), Reaction(t)
    PROVE  /\ Programs(Top(t), call[t], Portion(Top(t))) /\ aai' = NotAai
           /\ Portion(Top(t)) > 0
  <1> DEFINE h == Top(t)
             c == call[t]
  <1>1. Obeys /\ Buffered(h, c)
    BY DEF Owns, Latches, Armed, Obeys
  <1>2. /\ h \in Frames /\ h.from \in Nat /\ h.size \in Nat /\ h.addr \in Nat
        /\ c.addr \in Nat /\ c.version \in Nat /\ h.addr = c.addr + h.from
    BY InPlace DEF Writers
  <1>3. PICK n \in Nat, a \in Nat, bytes \in Seq(Int) :
           n = Portion(h) /\ a = h.addr /\ bytes = cmd_data.bytes
    BY <1>1, <1>2, PageCells DEF Buffered, Types, CallsOK
  <1>4. /\ n > 0 /\ n = Chunk(h) /\ UNCHANGED << mem, wel, aai >>
        /\ work'.cells = {b \in Cells : a <= b /\ b < a + n}
        /\ Finished' = [b \in Cells |-> IF a <= b /\ b < a + n
                                        THEN And(mem[b], bytes[b - a + 1]) ELSE mem[b]]
    BY <1>1, <1>3, PageCells DEF Buffered
  <1>5. \A k \in 1 .. n : bytes[k] = 100 * c.version + h.from + k - 1
    BY <1>1, <1>3, <1>4 DEF Buffered
  <1>6. ASSUME NEW b \in Cells, a <= b, b < a + n
        PROVE  bytes[b - a + 1] = 100 * c.version + (b - c.addr)
    <2>1. PICK k \in 1 .. n : k = b - a + 1 /\ b \in Int
      BY <1>6, ChipAssumption DEF Cells
    <2>2. PICK m \in Nat, i \in Nat, v \in Nat : m = h.from /\ i = c.addr /\ v = c.version
      BY <1>2
    <2>3. a = i + m
      BY <1>2, <1>3, <2>2
    <2>4. bytes[k] = 100 * v + m + k - 1
      BY <1>5, <2>2
    <2>5. m + k - 1 = b - i
      BY <2>1, <2>3
    <2>6. 100 * v + m + k - 1 = 100 * v + (b - i)
      BY <2>1, <2>5
    <2>7. QED
      BY <2>1, <2>2, <2>4, <2>6
  <1>7. aai' = NotAai
    BY <1>1, <1>4 DEF Obeys
  <1>8. Programs(h, c, n)
    BY <1>3, <1>4, <1>6 DEF Programs
  <1>9. QED
    BY <1>3, <1>4, <1>7, <1>8

LEMMA AaiWrites ==
    ASSUME Types, Control, NEW t \in Threads, stack[t] # <<>>, Top(t).at = "command",
           Top(t).fn = "aai", Owns(Top(t), call[t]), Reaction(t)
    PROVE  /\ Programs(Top(t), call[t], Portion(Top(t))) /\ aai' = Top(t).addr + 2
           /\ Portion(Top(t)) = 2
  <1> DEFINE h == Top(t)
             c == call[t]
             bytes == Data(t, h.from, 2)
  <1>1. Ready /\ wel /\ (aai = h.addr \/ (aai = NotAai /\ h.from < 2))
    BY DEF Owns, Latches, Armed
  <1>2. /\ h \in Frames /\ h.from \in Nat /\ h.size \in Nat /\ h.addr \in Nat
        /\ c.addr \in Nat /\ c.version \in Nat /\ h.addr = c.addr + h.from /\ h.size > 1
    BY InPlace DEF Writers
  <1>3. Portion(h) = 2
    <2> HIDE DEF h
    <2>1. h.fn = "aai"
      BY DEF h
    <2>2. h.size >= 2
      BY <1>2
    <2>3. QED
      BY <1>2, <2>1, <2>2, PortionFits DEF Writers
  <1>4. PICK a \in Nat, m \in Nat, i \in Nat, v \in Nat :
           a = h.addr /\ m = h.from /\ i = c.addr /\ v = c.version /\ a = i + m
    BY <1>2
  <1>5. bytes \in Seq(Int) /\ Len(bytes) = 2 /\ \A k \in 1 .. 2 : bytes[k] = 100 * v + m + k - 1
    <2>1. PICK j \in Nat, n \in Nat : j = m /\ n = 2
      OBVIOUS
    <2>2. CallsOK
      BY DEF Types
    <2>3. Len(Data(t, j, n)) = n
          /\ \A k \in 1 .. n : Data(t, j, n)[k] = 100 * call[t].version + j + k - 1
      BY <2>2, DataTypes
    <2>4. Data(t, j, n) \in Seq(Int)
      BY <2>2, DataTypes
    <2>5. QED
      BY <1>4, <2>1, <2>3, <2>4
  <1>6. PICK first \in BOOLEAN : ProgramWord(first, a, bytes) /\ (first <=> h.from < 2)
    <2>1. (h.from < 2) \in BOOLEAN
      OBVIOUS
    <2>2. QED
      BY <1>4, <2>1 DEF Reaction
  <1>7. ChipOK
    BY DEF Types
  <1> HIDE DEF bytes
  <1>8. /\ UNCHANGED << mem, wel >> /\ aai' = a + 2
        /\ work'.cells = {b \in Cells : a <= b /\ b < a + 2}
        /\ Finished' = [b \in Cells |-> IF a <= b /\ b < a + 2
                                        THEN And(mem[b], bytes[b - a + 1]) ELSE mem[b]]
    <2>1. Ready /\ wel /\ (aai = a \/ (aai = NotAai /\ first))
      BY <1>1, <1>4, <1>6
    <2>2. bytes \in Seq(Int) /\ Len(bytes) = 2 /\ ProgramWord(first, a, bytes)
      BY <1>5, <1>6
    <2>3. QED
      BY <1>7, <2>1, <2>2, WordLaw
  <1>9. ASSUME NEW b \in Cells, a <= b, b < a + 2
        PROVE  bytes[b - a + 1] = 100 * v + (b - i)
    <2>1. PICK k \in 1 .. 2 : k = b - a + 1 /\ b \in Int
      BY <1>9, ChipAssumption DEF Cells
    <2>2. bytes[k] = 100 * v + m + k - 1
      BY <1>5
    <2>3. m + k - 1 = b - i
      <3>1. a = i + m
        BY <1>4
      <3>2. k \in Int /\ k = b - a + 1 /\ b \in Int
        BY <2>1
      <3>3. QED
        BY <3>1, <3>2
    <2>4. 100 * v + m + k - 1 = 100 * v + (b - i)
      BY <2>1, <2>3
    <2>5. QED
      BY <2>1, <2>2, <2>4
  <1>10. Programs(h, c, 2)
    BY <1>4, <1>8, <1>9 DEF Programs
  <1>11. QED
    BY <1>3, <1>4, <1>8, <1>10

\* No block of n bytes spans a multiple of n.
LEMMA Boundary ==
    ASSUME NEW n \in Nat \ {0}, NEW x \in Nat, x % n = 0, NEW a \in Nat, NEW b \in Nat,
           a \div n = b \div n, b < x
    PROVE  a < x
  <1>1. PICK q \in Nat, r \in 0 .. n - 1 : q = b \div n /\ r = b % n /\ b = n * q + r
    BY Division
  <1>2. PICK s \in 0 .. n - 1 : a = n * q + s
    <2>1. PICK i \in Nat, s \in 0 .. n - 1 : i = a \div n /\ s = a % n /\ a = n * i + s
      BY Division
    <2>2. i = q
      BY <1>1, <2>1
    <2>3. QED
      BY <2>1, <2>2
  <1>3. PICK p \in Nat : p = x \div n /\ x = n * p + 0
    BY Division
  <1>4. PICK nq \in Nat, np \in Nat, nd \in Int : nq = n * q /\ np = n * p /\ nd = n * (q + 1)
    <2>1. n * q \in Nat
      BY SMT
    <2>2. n * p \in Nat
      BY SMT
    <2>3. n * (q + 1) \in Int
      BY SMT
    <2>4. QED
      BY <2>1, <2>2, <2>3
  <1>5. nd = nq + n
    BY <1>4, SMT
  <1>6. q >= p => nq >= np
    BY <1>4, SMT
  <1>7. q < p => nd <= np
    <2>1. q + 1 <= p => n * (q + 1) <= n * p
      BY SMT
    <2>2. QED
      BY <1>4, <2>1
  <1>8. b = nq + r /\ x = np /\ a = nq + s
    BY <1>1, <1>2, <1>3, <1>4
  <1>9. QED
    BY <1>5, <1>6, <1>7, <1>8

LEMMA SumOfMultiples ==
    ASSUME NEW n \in Nat \ {0}, NEW a \in Nat, a % n = 0, NEW b \in Nat, b % n = 0
    PROVE  (a + b) % n = 0
  <1>1. PICK p \in Nat, q \in Nat : a = n * p + 0 /\ b = n * q + 0
    <2>1. PICK p \in Nat : a = n * p + 0
      BY Division
    <2>2. PICK q \in Nat : b = n * q + 0
      BY Division
    <2>3. QED
      BY <2>1, <2>2
  <1>2. n * (p + q) = n * p + n * q
    BY SMT
  <1>3. PICK i \in Nat : i = p + q
    OBVIOUS
  <1>4. a + b = n * i + 0
    <2>1. PICK x \in Nat, y \in Nat : x = n * p /\ y = n * q
      BY SMT
    <2>2. QED
      BY <1>1, <1>2, <1>3, <2>1
  <1>5. (n * i + 0) % n = 0
    BY OneQuotient
  <1>6. QED
    BY <1>4, <1>5

\* The erase command wipes the blocks of the next bytes of the call.
Wipes(h, n) ==
    /\ UNCHANGED << mem, wel >>
    /\ \E a \in Cells : a \in work'.cells
    /\ Finished' = [b \in Cells |-> IF b \in work'.cells THEN Erased ELSE mem[b]]
    /\ Divides => work'.cells = {a \in Cells : \E b \in Cells : /\ h.addr <= b /\ b < h.addr + n
                                                                /\ a \div Erasers[1] = b \div Erasers[1]}

LEMMA EraseWipes ==
    ASSUME Types, Control, NEW t \in Threads, stack[t] # <<>>, Top(t).at = "command",
           Top(t).fn = "erase", Obeys, Reaction(t)
    PROVE  /\ Wipes(Top(t), Portion(Top(t))) /\ aai' = NotAai
           /\ work'.cells \subseteq Footprint(call[t])
  <1> DEFINE h == Top(t)
             c == call[t]
             G == Erasers[1]
  <1>1. Obeys
    OBVIOUS
  <1>2. /\ h \in Frames /\ h.from \in Nat /\ h.size \in Nat /\ h.addr \in Nat
        /\ c.addr \in Nat /\ c.size \in Nat /\ h.addr = c.addr + h.from
        /\ h.from + h.size <= c.size /\ InRange(c) /\ h.size > 0
        /\ c.fn \in {"erase", "eraseWrite"}
    BY InPlace DEF Writers
  <1>3. c.addr + c.size <= ChipSize /\ ChipSize \in Nat \ {0}
    BY <1>2, ChipAssumption DEF InRange
  <1>4. PICK i \in 1 .. Len(Erasers) :
           /\ EraseSize(h) = Erasers[i] /\ Erasers[i] \in Nat \ {0} /\ G \in Nat \ {0}
           /\ i = 1 \/ (h.size >= Erasers[i] /\ h.addr % Erasers[i] = 0 /\ h.addr % G = 0)
    BY <1>2, EraserFits
  <1>5. PICK E \in Nat \ {0} : E = Erasers[i]
    BY <1>4
  <1>6. PICK a \in Nat, s \in Nat, k \in Nat, z \in Nat :
           a = h.addr /\ s = h.size /\ k = c.addr /\ z = c.size /\ s > 0 /\ k <= a /\ a + s <= k + z
    <2> HIDE DEF h, c
    <2>1. PICK a \in Nat, s \in Nat, k \in Nat, z \in Nat, m \in Nat :
             a = h.addr /\ s = h.size /\ k = c.addr /\ z = c.size /\ m = h.from
      BY <1>2
    <2>2. s > 0 /\ a = k + m /\ m + s <= z
      BY <1>2, <2>1
    <2>3. k <= a /\ a + s <= k + z
      BY <2>2
    <2>4. QED
      BY <2>1, <2>2, <2>3
  <1>7. PICK n \in Nat : n = Portion(h) /\ n > 0 /\ n <= s /\ n = IF s <= E - (a % E) THEN s ELSE E - (a % E)
    <2> HIDE DEF h
    <2>1. h.fn = "erase"
      BY DEF h
    <2>2. Done(h) = E - (a % E) /\ Done(h) \in Nat /\ Done(h) > 0
      BY <1>2, <1>4, <1>5, <1>6, <2>1, PortionFits DEF Writers, ToNext
    <2>3. Portion(h) = IF s <= Done(h) THEN s ELSE Done(h)
      BY <1>2, <1>6, <2>1, PortionFits DEF Writers
    <2>4. QED
      BY <1>6, <2>2, <2>3
  <1>8. EraseBlock(a, E)
    BY <1>4, <1>5, <1>6 DEF Reaction
  <1>9. /\ UNCHANGED << mem, wel, aai >>
        /\ work'.cells = {b \in Cells : b \div E = a \div E}
        /\ Finished' = [b \in Cells |-> IF b \div E = a \div E THEN Erased ELSE mem[b]]
    BY <1>1, <1>8, BlockLaw DEF Types
  <1>10. a \in Cells /\ a \in work'.cells
    <2>1. k + z <= ChipSize /\ ChipSize \in Nat
      BY <1>3, <1>6
    <2>2. s > 0 /\ a + s <= k + z
      BY <1>6
    <2>3. a \in Cells
      BY <2>1, <2>2 DEF Cells
    <2>4. QED
      BY <1>9, <2>3
  <1>11. \A b \in Cells : b \in Nat
    BY ChipAssumption DEF Cells
  <1>12. CASE i = 1
    <2>1. E = G
      BY <1>5, <1>12
    <2>2. work'.cells \subseteq Footprint(c)
      <3>1. c.addr <= a /\ a < c.addr + c.size
        <4>1. s > 0 /\ k <= a /\ a + s <= k + z
          BY <1>6
        <4>2. k <= a /\ a < k + z
          BY <4>1
        <4>3. QED
          BY <1>6, <4>2
      <3>2. \A b \in Cells : b \div G = a \div G => b \in Footprint(c)
        BY <1>2, <1>3, <1>10, <3>1, InFootprint
      <3>3. QED
        BY <1>9, <2>1, <3>2
    <2>3. ASSUME NEW b \in Cells, a <= b, b < a + n PROVE b \div G = a \div G
      <3>1. PICK j \in Nat : b = a + j /\ j < n
        <4>1. b \in Nat
          BY <1>11
        <4>2. b - a \in Nat /\ b = a + (b - a) /\ b - a < n
          BY <2>3, <4>1
        <4>3. QED
          BY <4>2
      <3>2. a % E \in 0 .. E - 1
        BY Division
      <3>3. (a % E) + j < E
        BY <1>7, <3>1, <3>2
      <3>4. QED
        BY <2>1, <3>1, <3>3, WithinBlock
    <2>4. \A b \in Cells : b \div G = a \div G <=>
             \E d \in Cells : a <= d /\ d < a + n /\ b \div G = d \div G
      <3>1. a <= a /\ a < a + n
        BY <1>7
      <3>2. QED
        BY <1>10, <2>3, <3>1
    <2>5. work'.cells = {b \in Cells : \E d \in Cells : /\ a <= d /\ d < a + n
                                                        /\ b \div G = d \div G}
      BY <1>9, <2>1, <2>4
    <2>6. Wipes(h, n)
      BY <1>6, <1>9, <1>10, <2>5 DEF Wipes
    <2>7. QED
      BY <1>1, <1>7, <1>9, <2>2, <2>6 DEF Obeys
  <1>13. CASE i # 1
    <2>1. s >= E /\ a % E = 0 /\ a % G = 0
      BY <1>4, <1>5, <1>6, <1>13
    <2>2. n = E
      BY <1>7, <2>1
    <2>3. \A b \in Cells : b \div E = a \div E <=> a <= b /\ b < a + n
      BY <1>11, <2>1, <2>2, BlockAt
    <2>4. work'.cells \subseteq Footprint(c)
      <3>1. ASSUME NEW b \in Cells, a <= b, b < a + n PROVE b \in Footprint(c)
        <4>1. c.addr <= b /\ b < c.addr + c.size
          <5>1. b \in Nat
            BY <1>11
          <5>2. k <= b /\ b < k + z
            <6>1. k <= a /\ a + s <= k + z /\ n <= s
              BY <1>6, <1>7
            <6>2. QED
              BY <3>1, <5>1, <6>1
          <5>3. QED
            BY <1>6, <5>2
        <4>2. QED
          BY <1>2, <1>3, <4>1, InFootprint
      <3>2. QED
        BY <1>9, <2>3, <3>1
    <2>5. ASSUME Divides
          PROVE  work'.cells = {b \in Cells : \E d \in Cells : /\ a <= d /\ d < a + n
                                                               /\ b \div G = d \div G}
      <3>1. E % G = 0
        <4>1. DOMAIN Erasers = 1 .. Len(Erasers)
          BY SfudAssumption
        <4>2. QED
          BY <1>5, <2>5, <4>1 DEF Divides
      <3>2. PICK g \in Nat \ {0} : g = G
        BY <1>4
      <3>3. (a + E) % g = 0 /\ a % g = 0
        BY <2>1, <3>1, <3>2, SumOfMultiples
      <3>4. ASSUME NEW b \in Cells, NEW d \in Cells, a <= d, d < a + n, b \div g = d \div g
            PROVE  a <= b /\ b < a + n
        <4>1. b < a + E
          <5>1. PICK x \in Nat : x = a + E
            OBVIOUS
          <5>2. d < x
            BY <2>2, <3>4, <5>1
          <5>3. QED
            BY <1>11, <3>3, <3>4, <5>1, <5>2, Boundary
        <4>2. ~(b < a)
          <5>1. b < a => d < a
            BY <1>11, <3>3, <3>4, Boundary
          <5>2. QED
            BY <1>11, <3>4, <5>1
        <4>3. QED
          BY <1>11, <2>2, <4>1, <4>2
      <3>5. \A b \in Cells : b \div E = a \div E <=>
               \E d \in Cells : a <= d /\ d < a + n /\ b \div G = d \div G
        BY <2>3, <3>2, <3>4
      <3>6. QED
        BY <1>9, <3>5
    <2>6. Wipes(h, n)
      BY <1>6, <1>9, <1>10, <2>5 DEF Wipes
    <2>7. QED
      BY <1>1, <1>7, <1>9, <2>4, <2>6 DEF Obeys
  <1>14. QED
    BY <1>12, <1>13

LEMMA ChipWipes ==
    ASSUME Types, Control, NEW t \in Threads, stack[t] # <<>>, Top(t).at = "command",
           Top(t).fn = "chipErase", Obeys, Reaction(t)
    PROVE  /\ UNCHANGED << mem, wel >> /\ aai' = NotAai
           /\ Finished' = [b \in Cells |-> Erased]
           /\ \E a \in Cells : a \in work'.cells
           /\ work'.cells \subseteq Footprint(call[t])
  <1> DEFINE h == Top(t)
             c == call[t]
  <1>1. Obeys
    OBVIOUS
  <1>2. PICK n \in Nat \ {0} : n = ChipSize
    BY ChipAssumption
  <1>3. PICK a \in Nat : a = 0
    OBVIOUS
  <1>4. EraseBlock(a, n)
    BY <1>2, <1>3 DEF Reaction
  <1>5. /\ UNCHANGED << mem, wel, aai >>
        /\ work'.cells = {b \in Cells : b \div n = a \div n}
        /\ Finished' = [b \in Cells |-> IF b \div n = a \div n THEN Erased ELSE mem[b]]
    BY <1>1, <1>4, BlockLaw DEF Types
  <1>6. \A b \in Cells : b \div n = a \div n
    <2>1. ASSUME NEW b \in Cells PROVE b \div n = a \div n
      <3>1. b \in Nat /\ a <= b /\ b < a + n
        BY <1>2, <1>3 DEF Cells
      <3>2. a % n = 0
        <4>1. n * 0 + 0 = a
          BY <1>3
        <4>2. (n * 0 + 0) % n = 0
          BY OneQuotient
        <4>3. QED
          BY <4>1, <4>2
      <3>3. QED
        BY <3>1, <3>2, BlockAt
    <2>2. QED
      BY <2>1
  <1>7. work'.cells = Cells
    BY <1>5, <1>6
  <1>8. 0 \in Cells
    BY <1>2 DEF Cells
  <1>9. Footprint(c) = Cells
    <2>1. c.fn = "chipErase" \/ (c.fn \in {"erase", "eraseWrite"} /\ c.addr = 0 /\ c.size = ChipSize)
      BY InPlace DEF Writers
    <2>2. CASE c.fn = "chipErase"
      BY <2>2 DEF Footprint, Flash!InBound
    <2>3. CASE c.fn \in {"erase", "eraseWrite"} /\ c.addr = 0 /\ c.size = ChipSize
      <3>1. Footprint(c) \subseteq Cells
        BY <2>3 DEF Footprint, Flash!Blocks, Flash!Cells, Cells
      <3>2. ASSUME NEW b \in Cells PROVE b \in Footprint(c)
        <4>1. c.addr <= b /\ b < c.addr + c.size /\ c.addr \in Nat /\ c.size \in Nat
              /\ c.addr + c.size <= ChipSize
          BY <1>2, <2>3 DEF Cells
        <4>2. QED
          BY <2>3, <4>1, InFootprint
      <3>3. QED
        BY <3>1, <3>2
    <2>4. QED
      BY <2>1, <2>2, <2>3
  <1>10. Finished' = [b \in Cells |-> Erased]
    BY <1>5, <1>6
  <1>11. QED
    BY <1>1, <1>5, <1>7, <1>8, <1>9, <1>10 DEF Obeys

LEMMA CommandOwns ==
    ASSUME Types, Control, NEW t \in Threads, Command(t), Clean', Owns(Top(t), call[t])
    PROVE  \E f \in Frames : SetTop(t, f) /\ Owns(f, call[t])' /\ Keeps(Top(t), f, call[t])
  <1> DEFINE h == Top(t)
             c == call[t]
  <1>1. stack[t] # <<>> /\ h.fn \in Writers /\ h.at = "command" /\ UNCHANGED call
    BY DEF Command, At, ghost
  <1>2. /\ h \in Frames /\ h.from \in Nat /\ h.size \in Nat /\ h.addr \in Nat
        /\ c.addr \in Nat /\ c.size \in Nat /\ c.version \in Nat
        /\ h.addr = c.addr + h.from /\ h.from + h.size <= c.size /\ InRange(c)
        /\ h.fn \in {"page", "aai"} => c.fn \in {"write", "eraseWrite"}
    BY <1>1, InPlace
  <1>3. Ready /\ wel /\ h.result = "SUCCESS" /\ (h.fn # "aai" => Obeys)
    BY <1>1 DEF Owns, Latches, Armed, Obeys
  <1>4. PICK x \in Transfers :
             /\ Spend(x)
             /\ IF x.lost THEN Ignored ELSE Reaction(t)
             /\ \/ x.ok /\ SetTop(t, [h EXCEPT !.at = "busy", !.retry = RetryTimes])
                \/ ~x.ok /\ Fail(t, Exit(t), "ERR_WRITE")
    BY DEF Command
  <1>5. x.ok /\ Reaction(t)
    <2>1. ~(~x.ok /\ Fail(t, Exit(t), "ERR_WRITE"))
      BY <1>1, <1>4, NoFailure DEF Errors
    <2>2. QED
      BY <1>4, <2>1, CleanTransfer
  <1>6. PICK f \in Frames : SetTop(t, f) /\ Like(h, f) /\ f.at = "busy" /\ f.result = "SUCCESS"
    <2> PICK f : f = [h EXCEPT !.at = "busy", !.retry = RetryTimes]
      OBVIOUS
    <2>1. f \in Frames /\ Like(h, f) /\ f.at = "busy" /\ f.result = h.result
      <3> HIDE DEF h
      <3>1. "busy" \in Labels /\ RetryTimes \in 0 .. RetryTimes
        BY SfudAssumption DEF Labels
      <3>2. QED
        BY <1>2, <3>1 DEF Like, Frames
    <2>2. SetTop(t, f)
      BY <1>4, <1>5
    <2>3. QED
      BY <1>3, <2>1, <2>2
  <1>7. Part(h) = h.from /\ Part(f) = h.from + Portion(h)
    <2>1. Portion(f) = Portion(h)
      BY <1>6, LikePortion
    <2>2. QED
      BY <1>1, <1>6, <2>1 DEF Part, Like
  <1>8. Finished = mem
    BY <1>3, ReadyIsFinished DEF Types
  <1>9. SUFFICES /\ wel' = wel /\ aai' = IF h.fn = "aai" THEN h.addr + 2 ELSE NotAai
                 /\ \E a \in Cells : a \in work'.cells
                 /\ work'.cells \subseteq Footprint(c)
                 /\ Keeps(h, f, c)
    <2>1. (\E a \in Cells : a \in work'.cells) => ~Ready'
      BY DEF Ready, NoWork
    <2>2. wel' = wel /\ aai' = (IF h.fn = "aai" THEN h.addr + 2 ELSE NotAai) /\ ~Ready' => Latches(f)'
      BY <1>1, <1>3, <1>6 DEF Latches, Armed, Like, Writers
    <2>3. QED
      BY <1>1, <1>6, <2>1, <2>2 DEF Owns, Buffered
  <1>10. CASE h.fn \in {"page", "aai"}
    <2>1. /\ Programs(h, c, Portion(h)) /\ Portion(h) > 0
          /\ aai' = IF h.fn = "aai" THEN h.addr + 2 ELSE NotAai
      BY <1>1, <1>5, <1>10, PageWrites, AaiWrites
    <2>2. PICK n \in Nat, s \in Nat, m \in Nat, a \in Nat, i \in Nat, z \in Nat :
             /\ n = Portion(h) /\ s = h.size /\ m = h.from /\ a = h.addr /\ i = c.addr /\ z = c.size
             /\ n <= s /\ n > 0 /\ a = i + m /\ m + s <= z
      <3>1. Portion(h) \in 0 .. h.size
        <4> HIDE DEF h
        <4>1. QED
          BY <1>2, <1>10, PortionFits DEF Writers
      <3>2. Portion(h) \in Nat /\ Portion(h) <= h.size
        BY <1>2, <3>1
      <3>3. QED
        BY <1>2, <2>1, <3>2
    <2>3. n <= s /\ n > 0 /\ a = i + m /\ m + s <= z
      BY <2>2
    <2>4. i + z <= ChipSize /\ ChipSize \in Nat
      BY <1>2, <1>10, <2>2, ChipAssumption DEF InRange
    <2>5. /\ UNCHANGED << mem, wel >>
          /\ work'.cells = {b \in Cells : a <= b /\ b < a + n}
          /\ Finished' = [b \in Cells |-> IF a <= b /\ b < a + n
                                          THEN And(mem[b], 100 * c.version + (b - c.addr)) ELSE mem[b]]
      BY <2>1, <2>2 DEF Programs
    <2>6. ASSUME NEW b \in work'.cells PROVE b \in Footprint(c)
      <3>1. b \in Cells /\ a <= b /\ b < a + n
        BY <2>5
      <3>2. b \in Int
        BY <2>4, <3>1 DEF Cells
      <3>3. i <= b /\ b < i + z
        BY <2>3, <3>1, <3>2
      <3>4. c.addr <= b /\ b < c.addr + c.size /\ c.addr + c.size <= ChipSize
        BY <2>2, <2>4, <3>3
      <3>5. c.fn \in {"write", "erase", "eraseWrite"}
        BY <1>2, <1>10
      <3>6. QED
        BY <1>2, <3>1, <3>4, <3>5, InFootprint
    <2>7. \E b \in Cells : b \in work'.cells
      <3>1. a \in Cells
        BY <2>3, <2>4 DEF Cells
      <3>2. a <= a /\ a < a + n
        BY <2>3
      <3>3. QED
        BY <2>5, <3>1, <3>2
    <2>8. Keeps(h, f, c)
      <3> SUFFICES ASSUME NEW old, Finished = Expected(h, c, old) PROVE Finished' = Expected(f, c, old)
        BY DEF Keeps
      <3>1. Expected(h, c, old) = Upto(c, m, old)
        BY <1>7, <1>10, <2>2 DEF Expected
      <3>2. Expected(f, c, old) = Upto(c, m + n, old)
        <4>1. Part(f) = m + n /\ f.fn = h.fn
          BY <1>6, <1>7, <2>2 DEF Like
        <4>2. QED
          BY <1>10, <4>1 DEF Expected
      <3>3. mem = Upto(c, m, old)
        BY <1>8, <3>1
      <3>4. a = c.addr + m /\ c.addr \in Nat
        BY <2>2
      <3>5. Finished' = [b \in Cells |-> IF c.addr + m <= b /\ b < c.addr + m + n
                                         THEN And(mem[b], 100 * c.version + (b - c.addr)) ELSE mem[b]]
        BY <2>5, <3>4
      <3>6. Finished' = Upto(c, m + n, old)
        BY <3>3, <3>4, <3>5, UptoMore
      <3>7. QED
        BY <3>2, <3>6
    <2>9. QED
      BY <2>1, <2>5, <2>6, <2>7, <2>8
  <1>11. CASE h.fn = "erase"
    <2>1. Wipes(h, Portion(h)) /\ aai' = NotAai /\ work'.cells \subseteq Footprint(c)
      BY <1>1, <1>3, <1>5, <1>11, EraseWipes
    <2>2. wel' = wel /\ \E a \in Cells : a \in work'.cells
      BY <2>1 DEF Wipes
    <2>3. Keeps(h, f, c)
      <3> SUFFICES ASSUME NEW old, Divides, Finished = Expected(h, c, old)
                   PROVE  Finished' = Expected(f, c, old)
        BY DEF Keeps
      <3>1. PICK n \in Nat, m \in Nat, i \in Nat : n = Portion(h) /\ m = h.from /\ i = c.addr
        <4>1. Portion(h) \in 0 .. h.size
          <5> HIDE DEF h
          <5>1. QED
            BY <1>2, <1>11, PortionFits DEF Writers
        <4>2. Portion(h) \in Nat
          BY <1>2, <4>1
        <4>3. QED
          BY <1>2, <4>2
      <3>2. h.addr = i + m
        BY <1>2, <3>1
      <3>3. mem = WipedUpto(c, m, old)
        BY <1>7, <1>8, <1>11, <3>1 DEF Expected
      <3>4. Expected(f, c, old) = WipedUpto(c, m + n, old)
        <4>1. Part(f) = m + n /\ f.fn = h.fn
          BY <1>6, <1>7, <3>1 DEF Like
        <4>2. QED
          BY <1>11, <4>1 DEF Expected
      <3>5. /\ Finished' = [b \in Cells |-> IF b \in work'.cells THEN Erased ELSE mem[b]]
            /\ work'.cells = {a \in Cells : \E b \in Cells : /\ i + m <= b /\ b < i + m + n
                                                             /\ a \div Erasers[1] = b \div Erasers[1]}
        BY <2>1, <3>1, <3>2 DEF Wipes
      <3>6. \A b \in Cells : i <= b /\ b < i + (m + n) <=>
                             (i <= b /\ b < i + m) \/ (i + m <= b /\ b < i + m + n)
        BY ChipAssumption DEF Cells
      <3> DEFINE same(a, b) == a \div Erasers[1] = b \div Erasers[1]
      <3>7. Finished' = [a \in Cells |-> IF \E b \in Cells : i + m <= b /\ b < i + m + n /\ same(a, b)
                                         THEN Erased ELSE mem[a]]
        BY <3>5
      <3>8. mem = [a \in Cells |-> IF \E b \in Cells : i <= b /\ b < i + m /\ same(a, b)
                                   THEN Erased ELSE old[a]]
        BY <3>1, <3>3 DEF WipedUpto
      <3>9. WipedUpto(c, m + n, old) =
               [a \in Cells |-> IF \E b \in Cells : i <= b /\ b < i + (m + n) /\ same(a, b)
                                THEN Erased ELSE old[a]]
        BY <3>1 DEF WipedUpto
      <3> HIDE DEF same
      <3>10. Finished' = WipedUpto(c, m + n, old)
        BY <3>6, <3>7, <3>8, <3>9
      <3>11. QED
        BY <3>4, <3>10
    <2>4. QED
      BY <1>11, <2>1, <2>2, <2>3
  <1>12. CASE h.fn = "chipErase"
    <2>1. /\ UNCHANGED << mem, wel >> /\ aai' = NotAai
          /\ Finished' = [b \in Cells |-> Erased]
          /\ \E a \in Cells : a \in work'.cells
          /\ work'.cells \subseteq Footprint(c)
      BY <1>1, <1>3, <1>5, <1>12, ChipWipes
    <2>2. Keeps(h, f, c)
      BY <1>6, <1>12, <2>1 DEF Keeps, Expected, Like, Unwiped
    <2>3. QED
      BY <1>12, <2>1, <2>2
  <1>13. QED
    BY <1>1, <1>10, <1>11, <1>12 DEF Writers

-----------------------------------------------------------------------------
\* Soundness: the steps of all threads together.

\* A step of the thread that has the bus and keeps it.
Carries(t) ==
    /\ call'[t] = call[t] /\ before'[t] = before[t]
    /\ \E f \in Frames : Top(t)' = f /\ Owns(f, call[t])' /\ Keeps(Top(t), f, call[t])

LEMMA WorksCarries ==
    ASSUME Types, Control, NEW t \in Threads, Works(t), Clean', Owns(Top(t), call[t])
    PROVE  Carries(t)
  <1>1. PICK f \in Frames : SetTop(t, f) /\ Owns(f, call[t])' /\ Keeps(Top(t), f, call[t])
    BY WriteEnableOwns, EnableStatusOwns, FillOwns, CommandOwns, WaitBusyOwns, ReadDataOwns,
       DisableOwns, DisableStatusOwns, OddByteDoneOwns, AbortOwns DEF Works
  <1>2. stack[t] # <<>> /\ UNCHANGED ghost
    BY WorksAt
  <1>3. Top(t)' = f
    BY <1>1, <1>2, TopChanges DEF Types
  <1>4. call'[t] = call[t] /\ before'[t] = before[t]
    BY <1>2 DEF ghost
  <1>5. QED
    BY <1>1, <1>3, <1>4 DEF Carries

\* An odd byte of aai_write: the bus stays with its thread.
LEMMA OddByteCarries ==
    ASSUME Types, Control, NEW t \in Threads, OddByte(t), Owns(Top(t), call[t])
    PROVE  Carries(t)
  <1> DEFINE h == Top(t)
             c == call[t]
  <1>1. PICK l \in {"headDone", "tailDone"} :
             /\ stack[t] # <<>> /\ h.fn = "aai" /\ h.at = IF l = "headDone" THEN "head" ELSE "tail"
             /\ Push(t, Frame("page", "enter", h.addr, 1, h.from, 1), l)
    BY DEF OddByte, At
  <1>2. UNCHANGED << ghost, chip >> /\ h \in Frames
    BY <1>1, TheOther DEF OddByte, Types
  <1>3. h.result = "SUCCESS" /\ Rested
    BY <1>1 DEF Owns, Latches, Armed
  <1>4. PICK e : e = Frame("page", "enter", h.addr, 1, h.from, 1)
    OBVIOUS
  <1>5. e \in Frames /\ e.fn = "page" /\ e.at = "enter" /\ e.from = h.from /\ e.result = "SUCCESS"
    <2>1. PICK fn \in Commands \cup {"page"}, a \in Nat, n \in 0 .. SizeMod - 1, k \in Nat, g \in Nat \ {0} :
             fn = "page" /\ a = h.addr /\ n = 1 /\ k = h.from /\ g = 1
      <3>1. 1 \in 0 .. SizeMod - 1
        BY SfudAssumption, ChipAssumption
      <3>2. QED
        BY <1>2, <3>1 DEF Frames
    <2>2. e = Frame(fn, "enter", a, n, k, g)
      BY <1>4, <2>1
    <2>3. QED
      BY <2>1, <2>2, NewFrame
  <1>6. Len(stack[t]) = 1
    <2>1. Len(stack[t]) = 1 \/ Len(stack[t]) = 2
      BY <1>1, TheOther DEF Types
    <2>2. Len(stack[t]) # 2
      BY <1>1 DEF Control, Shape, Pair, UnderErase, UnderAai
    <2>3. QED
      BY <2>1, <2>2
  <1>7. Top(t)' = e
    <2>1. Push(t, e, l)
      BY <1>1, <1>4
    <2>2. StackOK /\ l \in Labels
      BY DEF Types, Labels
    <2>3. QED
      BY <1>1, <1>5, <1>6, <2>1, <2>2, Pushed
  <1>8. Owns(e, c)'
    BY <1>2, <1>3, <1>5 DEF Owns, Latches, Armed, Buffered, Rested, Ready, chip
  <1>9. Keeps(h, e, c)
    <2>1. Finished' = Finished
      BY <1>2 DEF Finished, chip
    <2>2. Part(e) = h.from /\ Part(h) = h.from
      BY <1>1, <1>5 DEF Part
    <2>3. \A m : Expected(e, c, m) = Upto(c, h.from, m) /\ Expected(h, c, m) = Upto(c, h.from, m)
      BY <1>1, <1>5, <2>2 DEF Expected
    <2>4. QED
      BY <2>1, <2>3 DEF Keeps
  <1>10. call'[t] = call[t] /\ before'[t] = before[t]
    BY <1>2 DEF ghost
  <1>11. QED
    BY <1>2, <1>5, <1>7, <1>8, <1>9, <1>10 DEF Carries, ghost

LEMMA EnterCarries ==
    ASSUME Types, Control, NEW t \in Threads, Enter(t), Inner(t), Owns(Top(t), call[t])
    PROVE  Carries(t)
  <1> DEFINE h == Top(t)
             c == call[t]
             g == stack[t][2]
  <1>1. stack[t] # <<>> /\ h.fn = "page" /\ h.at = "enter" /\ UNCHANGED << ghost, chip >>
        /\ h \in Frames
    BY InnerIsPage, TheOther DEF Enter, At, Types
  <1>2. h.addr + h.size <= ChipSize
    <2>1. UnderAai(h, g, c) /\ g \in Frames /\ Pair(h, g, c)
      BY <1>1, InnerIsPage DEF Types, Control, Shape, Inner
    <2>2. c \in [fn : Commands, addr : Nat, size : 0 .. SizeMod - 1, version : Nat] /\ h \in Frames
      BY <1>1 DEF Types, CallsOK
    <2> HIDE DEF h, g, c
    <2>3. PICK i \in Nat, z \in Nat, m \in Nat, s \in Nat, j \in Nat, y \in Nat :
             i = c.addr /\ z = c.size /\ m = h.from /\ s = h.size /\ j = g.from /\ y = g.size
      <3>1. c.addr \in Nat /\ c.size \in Nat
        BY <2>2, SfudAssumption
      <3>2. h.from \in Nat /\ h.size \in Nat
        BY <2>2, SfudAssumption DEF Frames
      <3>3. g.from \in Nat /\ g.size \in Nat
        BY <2>1, SfudAssumption DEF Frames
      <3>4. QED
        BY <3>1, <3>2, <3>3
    <2>4. y >= 1 /\ j + y = z
      BY <2>1, <2>3 DEF Pair, UnderAai, Placed, Sizes, Main
    <2>5. m + s = j + 1 /\ h.addr = i + m /\ i + z <= ChipSize
      BY <2>1, <2>3 DEF UnderAai, InRange
    <2>6. (i + m) + s <= ChipSize
      BY <2>4, <2>5, ChipAssumption
    <2>7. QED
      BY <2>3, <2>5, <2>6
  <1>3. SetTop(t, [h EXCEPT !.at = "lock",
                      !.fn = IF @ = "erase" /\ h.addr = 0 /\ h.size = ChipSize
                             THEN "chipErase" ELSE @])
    <2>1. ~(h.addr + h.size > ChipSize)
      <3>1. PICK x \in Int : x = h.addr + h.size
        BY <1>1, SfudAssumption DEF Frames
      <3>2. QED
        BY <1>2, <3>1, ChipAssumption
    <2>2. QED
      BY <2>1, Checked
  <1>4. PICK f : f = [h EXCEPT !.at = "lock",
                        !.fn = IF @ = "erase" /\ h.addr = 0 /\ h.size = ChipSize
                               THEN "chipErase" ELSE @]
    OBVIOUS
  <1>5. f \in Frames /\ f.fn = "page" /\ f.at = "lock" /\ f.from = h.from /\ f.result = h.result
    <2> HIDE DEF h
    <2>1. QED
      BY <1>1, <1>4 DEF Frames, Labels
  <1>6. Top(t)' = f
    BY <1>1, <1>3, <1>4, TopChanges DEF Types
  <1>7. h.result = "SUCCESS" /\ Rested
    BY <1>1 DEF Owns, Latches, Armed
  <1>8. Owns(f, c)'
    BY <1>1, <1>5, <1>7 DEF Owns, Latches, Armed, Buffered, Rested, Ready, chip
  <1>9. Keeps(h, f, c)
    <2>1. Part(f) = Part(h)
      BY <1>1, <1>5 DEF Part
    <2>2. QED
      BY <1>1, <1>5, <2>1, KeepsQuiet DEF chip
  <1>10. call'[t] = call[t] /\ before'[t] = before[t]
    BY <1>1 DEF ghost
  <1>11. QED
    BY <1>5, <1>6, <1>8, <1>9, <1>10 DEF Carries

LEMMA InnerPage ==
    ASSUME Types, Control, NEW t \in Threads, stack[t] # <<>>
    PROVE  Inner(t) <=> OddBytePage(t)
  <1>1. Inner(t) => OddBytePage(t)
    BY InnerIsPage DEF Types, Inner, OddBytePage
  <1>2. OddBytePage(t) => Inner(t)
    BY DEF OddBytePage, Inner, Control, Shape, Pair, UnderErase, UnderAai
  <1>3. QED
    BY <1>1, <1>2

\* Where Lock goes.
LEMMA LockGoes ==
    ASSUME Types, Control, NEW t \in Threads, Lock(t)
    PROVE  /\ stack[t] # <<>> /\ Top(t) \in Frames /\ Top(t).fn \in Writers \cup {"read"}
           /\ Top(t).at = "lock" /\ Top(t).result = "SUCCESS" /\ UNCHANGED << chip, call >>
           /\ \E f \in Frames : /\ Top(t)' = f /\ Like(Top(t), f) /\ f.result = "SUCCESS"
                                /\ f.at \in {"wren", "wrdi", "head", "busy"}
                                /\ f.at = "wrdi" => f.fn # "aai"
                                /\ f.at = "busy" <=> f.fn = "read"
                                /\ f.fn = "chipErase" => f.at = "wren"
  <1> DEFINE h == Top(t)
  <1>1. stack[t] # <<>> /\ h.fn \in Writers \cup {"read"} /\ h.at = "lock" /\ Goto(t, Start(h))
        /\ UNCHANGED << chip, call >>
    BY DEF Lock, At
  <1>2. h \in Frames /\ h.result = "SUCCESS"
    <2>1. h.at \notin Late(h.fn)
      BY <1>1 DEF Late
    <2>2. QED
      BY <1>1, <2>1, TheOther DEF Types, Control, Shape, Placed
  <1>3. PICK l \in Labels : l = Start(h)
    BY DEF Start, Labels
  <1>4. PICK f \in Frames : SetTop(t, f) /\ Like(h, f) /\ f.at = l /\ f.result = h.result
    BY <1>1, <1>3, GoesTo
  <1>5. /\ l \in {"wren", "wrdi", "head", "busy"}
        /\ l = "wrdi" => h.fn # "aai"
        /\ l = "busy" <=> h.fn = "read"
        /\ h.fn = "chipErase" => l = "wren"
    BY <1>3 DEF Start
  <1>6. Top(t)' = f
    BY <1>1, <1>4, TopChanges DEF Types
  <1>7. QED
    BY <1>1, <1>2, <1>4, <1>5, <1>6 DEF Like

LEMMA LockCarries ==
    ASSUME Types, Control, NEW t \in Threads, Lock(t), Inner(t), Owns(Top(t), call[t])
    PROVE  Carries(t)
  <1> DEFINE h == Top(t)
             c == call[t]
  <1>1. stack[t] # <<>> /\ h.fn = "page" /\ h.at = "lock" /\ UNCHANGED << chip, call >>
    BY LockGoes, InnerIsPage DEF Types
  <1>2. PICK f \in Frames : /\ Top(t)' = f /\ Like(h, f) /\ f.result = "SUCCESS"
                            /\ f.at \in {"wren", "wrdi"}
    <2>1. PICK f \in Frames : /\ Top(t)' = f /\ Like(h, f) /\ f.result = "SUCCESS"
                              /\ f.at \in {"wren", "wrdi", "head", "busy"} /\ (f.at = "busy" <=> f.fn = "read")
                              /\ f.at = Start(h)
      <3>1. PICK f \in Frames : /\ Top(t)' = f /\ Like(h, f) /\ f.result = "SUCCESS"
                                /\ f.at \in {"wren", "wrdi", "head", "busy"} /\ (f.at = "busy" <=> f.fn = "read")
        BY LockGoes
      <3>2. f.at = Start(h)
        <4>1. SetTop(t, [h EXCEPT !.at = Start(h)]) /\ h \in Frames
          BY <1>1, TheOther DEF Lock, Goto, Types
        <4>2. Top(t)' = [h EXCEPT !.at = Start(h)]
          BY <1>1, <4>1, TopChanges DEF Types
        <4>3. [h EXCEPT !.at = Start(h)].at = Start(h)
          BY <4>1 DEF Frames
        <4>4. QED
          BY <3>1, <4>2, <4>3
      <3>3. QED
        BY <3>1, <3>2
    <2>2. f.at # "head"
      BY <1>1, <2>1 DEF Start
    <2>3. QED
      BY <1>1, <2>1, <2>2 DEF Like
  <1>3. Rested
    BY <1>1 DEF Owns, Latches, Armed
  <1>4. Owns(f, c)'
    BY <1>1, <1>2, <1>3 DEF Owns, Latches, Armed, Buffered, Rested, Ready, chip, Like
  <1>5. Keeps(h, f, c)
    <2>1. Part(f) = Part(h)
      BY <1>1, <1>2 DEF Part, Like
    <2>2. QED
      BY <1>1, <1>2, <2>1, KeepsQuiet DEF chip, Like
  <1>6. before'[t] = before[t] /\ call'[t] = call[t]
    BY <1>1, InnerPage DEF Lock
  <1>7. QED
    BY <1>2, <1>4, <1>5, <1>6 DEF Carries

LEMMA UnlockCarries ==
    ASSUME Types, Control, NEW t \in Threads, Unlock(t), Inner(t), Owns(Top(t), call[t])
    PROVE  Carries(t)
  <1> DEFINE h == Top(t)
             c == call[t]
             g == stack[t][2]
  <1>1. stack[t] # <<>> /\ h.fn = "page" /\ h.at = "unlock" /\ UNCHANGED << ghost, chip >>
        /\ h \in Frames /\ h.result = "SUCCESS" /\ Rested
    BY InnerIsPage, TheOther DEF Unlock, At, Types, Owns, Latches, Armed
  <1>2. Return(t, "SUCCESS") /\ "SUCCESS" \in Results
    BY <1>1 DEF Unlock, Results
  <1>3. g \in Frames /\ Top(t)' = [g EXCEPT !.result = "SUCCESS"]
    <2>1. PICK r \in Results : r = "SUCCESS"
      BY <1>2
    <2>2. Return(t, r) /\ StackOK /\ Len(stack[t]) = 2
      BY <1>2, <2>1 DEF Types, Inner
    <2>3. g \in Frames /\ Top(t)' = [g EXCEPT !.result = r]
      <3> DEFINE s == stack[t]
      <3>1. \/ Len(s) = 1
            \/ s[2] \in Frames /\ Top(t)' = [s[2] EXCEPT !.result = r]
        BY <1>1, <2>2, ReturnsTo
      <3>2. QED
        BY <2>2, <3>1
    <2>4. QED
      BY <2>1, <2>3
  <1>4. PICK f : f = [g EXCEPT !.result = "SUCCESS"]
    OBVIOUS
  <1>5. g.fn = "aai" /\ g.at \in {"headDone", "tailDone"} /\ h.from + h.size = g.from + 1
    BY <1>1, InnerIsPage DEF UnderAai, Types
  <1>6. f \in Frames /\ f.fn = "aai" /\ f.at \in {"headDone", "tailDone"} /\ f.from = g.from
        /\ f.result = "SUCCESS"
    <2> HIDE DEF g
    <2>1. QED
      BY <1>2, <1>3, <1>4, <1>5 DEF Frames
  <1>7. Owns(f, c)'
    BY <1>1, <1>6 DEF Owns, Latches, Armed, Buffered, Rested, Ready, chip
  <1>8. Keeps(h, f, c)
    <2>1. Finished' = Finished
      BY <1>1 DEF Finished, chip
    <2>2. Part(f) = Part(h)
      BY <1>1, <1>5, <1>6 DEF Part
    <2>3. \A m : Expected(f, c, m) = Upto(c, Part(f), m) /\ Expected(h, c, m) = Upto(c, Part(h), m)
      BY <1>1, <1>6 DEF Expected
    <2>4. QED
      BY <2>1, <2>2, <2>3 DEF Keeps
  <1>9. call'[t] = call[t] /\ before'[t] = before[t]
    BY <1>1 DEF ghost
  <1>10. QED
    BY <1>3, <1>4, <1>6, <1>7, <1>8, <1>9 DEF Carries

LEMMA HolderCarries ==
    ASSUME Types, Types', Control, Control', NEW t \in Threads, Call(t) \/ Driver(t), Clean',
           OnBus(t), OnBus(t)', Owns(Top(t), call[t])
    PROVE  Carries(t)
  <1>1. ~Outside(t)
    BY OutsideOffBus
  <1>2. CASE Works(t)
    BY <1>2, WorksCarries
  <1>3. CASE OddByte(t)
    BY <1>3, OddByteCarries
  <1>4. CASE Enter(t)
    <2>1. Inner(t)
      BY <1>4 DEF OnBus, Enter, At, Bus
    <2>2. QED
      BY <1>4, <2>1, EnterCarries
  <1>5. CASE Lock(t)
    <2>1. Inner(t)
      BY <1>5, LockOnBus
    <2>2. QED
      BY <1>5, <2>1, LockCarries
  <1>6. CASE Unlock(t)
    <2>1. Inner(t)
      BY <1>6, UnlockOnBus
    <2>2. QED
      BY <1>6, <2>1, UnlockCarries
  <1>7. QED
    BY <1>1, <1>2, <1>3, <1>4, <1>5, <1>6 DEF Driver, Works, Outside

\* Nothing of a range, nothing done.
LEMMA NothingYet ==
    ASSUME ChipOK, NEW c, c.addr \in Nat
    PROVE  Upto(c, 0, mem) = mem /\ WipedUpto(c, 0, mem) = mem
  <1>1. mem = [a \in Cells |-> mem[a]]
    BY DEF ChipOK
  <1>2. \A a \in Cells : ~(c.addr <= a /\ a < c.addr + 0)
    BY ChipAssumption DEF Cells
  <1>3. QED
    BY <1>1, <1>2 DEF Upto, WipedUpto

LEMMA LockArrives ==
    ASSUME Types, Control, NEW t \in Threads, Lock(t), ~OnBus(t), Rested
    PROVE  /\ Owns(Top(t), call[t])'
           /\ (Finished = Expected(Top(t), call[t], before[t]))'
  <1> DEFINE h == Top(t)
             c == call[t]
  <1>1. stack[t] # <<>> /\ h.at = "lock" /\ h.fn \in Writers \cup {"read"} /\ h \in Frames
        /\ UNCHANGED << chip, call >>
    BY LockGoes
  <1>2. PICK f \in Frames : /\ Top(t)' = f /\ Like(h, f) /\ f.result = "SUCCESS"
                            /\ f.at \in {"wren", "wrdi", "head", "busy"}
                            /\ f.at = "wrdi" => f.fn # "aai"
                            /\ f.at = "busy" <=> f.fn = "read"
                            /\ f.fn = "chipErase" => f.at = "wren"
    BY LockGoes
  <1>3. Owns(f, c)'
    BY <1>1, <1>2 DEF Owns, Latches, Armed, Buffered, Rested, Ready, chip, Like, Writers
  <1>4. before'[t] = mem
    <2>1. ~OddBytePage(t)
      BY <1>1, InnerPage DEF OnBus
    <2>2. QED
      BY <2>1 DEF Lock, Types, CallsOK
  <1>5. h.from = 0
    <2>1. Main(h, c)
      <3>1. Len(stack[t]) = 1 \/ Len(stack[t]) = 2
        BY <1>1, TheOther DEF Types
      <3>2. ~Inner(t)
        BY <1>1 DEF OnBus
      <3>3. QED
        BY <1>1, <3>1, <3>2 DEF Control, Shape, Single, Pair, UnderErase, UnderAai, Inner
    <2>2. QED
      BY <1>1, <2>1 DEF Main
  <1>6. Finished' = mem
    <2>1. Finished' = Finished
      BY <1>1 DEF Finished, chip
    <2>2. QED
      BY <2>1, ReadyIsFinished DEF Types, Rested
  <1>7. Expected(f, c, mem) = mem
    <2>1. Upto(c, 0, mem) = mem /\ WipedUpto(c, 0, mem) = mem
      BY NothingYet DEF Types, CallsOK
    <2>2. f.fn # "read" => Part(f) = 0
      BY <1>2, <1>5 DEF Part, Like
    <2>3. f.fn \in Writers \cup {"read"}
      BY <1>1, <1>2 DEF Like
    <2>4. QED
      BY <1>2, <2>1, <2>2, <2>3 DEF Expected, Unwiped, Writers
  <1>8. (Expected(Top(t), call[t], before[t]))' = Expected(f, c, mem)
    <2>1. call'[t] = c
      BY <1>1
    <2>2. QED
      BY <1>2, <1>4, <2>1 DEF Expected, Upto, WipedUpto, Part
  <1>9. QED
    BY <1>2, <1>3, <1>6, <1>7, <1>8

LEMMA UnlockLeaves ==
    ASSUME Types, Control, NEW t \in Threads, Unlock(t), Owns(Top(t), call[t])
    PROVE  Rested /\ Rested' /\ UNCHANGED chip
  BY DEF Unlock, At, Owns, Latches, Armed, Rested, Ready, chip

LEMMA OffBusQuiet ==
    ASSUME Types, Types', Control, Control', NEW t \in Threads, Call(t) \/ Driver(t),
           ~OnBus(t), ~OnBus(t)'
    PROVE  UNCHANGED << chip, cmd_data >>
  <1>1. Outside(t) \/ Enter(t)
    BY WorksOnBus, OddByteOnBus, LockOnBus, UnlockOnBus DEF Driver, Works, Outside
  <1>2. QED
    BY <1>1 DEF Outside, Call, sfud_write, sfud_erase_write, Enter

\* The memory's contents, as the thread on the bus has left them.
Kept == Clean /\ Divides =>
           \A t \in Threads : OnBus(t) => Finished = Expected(Top(t), call[t], before[t])

LEMMA SameExpected ==
    ASSUME NEW t \in Threads, NEW f, Top(t)' = f, call'[t] = call[t], before'[t] = before[t]
    PROVE  Expected(Top(t), call[t], before[t])' = Expected(f, call[t], before[t])
  BY DEF Expected, Upto, WipedUpto, Part

LEMMA OtherOwns ==
    ASSUME NEW u \in Threads, stack'[u] = stack[u], call'[u] = call[u], before'[u] = before[u],
           UNCHANGED << chip, cmd_data >>
    PROVE  /\ Owns(Top(u), call[u])' <=> Owns(Top(u), call[u])
           /\ Finished' = Finished
           /\ Expected(Top(u), call[u], before[u])' = Expected(Top(u), call[u], before[u])
  <1>1. Top(u)' = Top(u)
    BY DEF Top
  <1>2. Expected(Top(u), call[u], before[u])' = Expected(Top(u), call[u], before[u])
    BY <1>1, SameExpected
  <1>3. Owns(Top(u), call[u])' <=> Owns(Top(u), call[u])
    BY <1>1 DEF Owns, Latches, Armed, Buffered, Rested, Ready, chip
  <1>4. Finished' = Finished
    BY DEF Finished, chip
  <1>5. QED
    BY <1>2, <1>3, <1>4

\* The end of a cycle is what wait_busy waits for.
LEMMA CycleOwns ==
    ASSUME Types, NEW t \in Threads, CycleEnds, stack[t] # <<>>, Owns(Top(t), call[t])
    PROVE  /\ Owns(Top(t), call[t])'
           /\ Finished' = Finished
           /\ Expected(Top(t), call[t], before[t])' = Expected(Top(t), call[t], before[t])
  <1> DEFINE h == Top(t)
             c == call[t]
  <1>1. /\ ~Ready /\ Ready' /\ (wel' <=> aai # NotAai) /\ aai' = aai /\ Finished' = Finished
        /\ UNCHANGED << stack, call, before, cmd_data >>
    BY Finishes DEF CycleEnds, Finish, Types, ghost, Ready
  <1>2. Top(t)' = h
    BY <1>1 DEF Top
  <1>3. h \in Frames
    BY TheOther DEF Types
  <1>4. h.at = "busy" /\ h.fn # "read"
    BY <1>1 DEF Owns, Latches, Rested
  <1>5. h.fn = "aai" => aai # NotAai
    <2>1. h.addr \in Nat
      BY <1>3 DEF Frames
    <2>2. h.addr + 2 # NotAai
      <3> HIDE DEF h
      <3>1. QED
        BY <2>1 DEF NotAai
    <2>3. QED
      BY <1>4, <2>2 DEF Owns, Latches
  <1>6. h.fn # "aai" => aai = NotAai
    BY <1>4 DEF Owns, Latches
  <1>7. PICK f : f = h
    OBVIOUS
  <1>8. Latches(f)'
    BY <1>1, <1>4, <1>5, <1>6, <1>7 DEF Owns, Latches, Armed
  <1>9. Owns(f, c)'
    BY <1>1, <1>4, <1>7, <1>8 DEF Owns, Buffered
  <1>10. Expected(Top(t), call[t], before[t])' = Expected(f, call[t], before[t])
    BY <1>1, <1>2, <1>7, SameExpected
  <1>11. QED
    BY <1>1, <1>2, <1>7, <1>9, <1>10

LEMMA SoundStep ==
    ASSUME Types, Types', Control, Control', Serial, Exclusion, Solo, Sound, [Next]_vars
    PROVE  Sound' /\ (Kept => Kept')
  <1> SUFFICES ASSUME Clean'
               PROVE  /\ (\A t \in Threads : ~OnBus(t)') => Rested'
                      /\ \A t \in Threads : OnBus(t)' => Owns(Top(t), call[t])'
                      /\ Kept /\ Divides =>
                           \A t \in Threads : OnBus(t)' =>
                              (Finished = Expected(Top(t), call[t], before[t]))'
    BY DEF Sound, Kept, Divides
  <1>1. Clean
    BY CleanBefore
  <1>2. /\ (\A t \in Threads : ~OnBus(t)) => Rested
        /\ \A t \in Threads : OnBus(t) => Owns(Top(t), call[t])
        /\ Kept /\ Divides => \A t \in Threads : OnBus(t) => Finished = Expected(Top(t), call[t], before[t])
    BY <1>1 DEF Sound, Kept
  <1>3. ASSUME NEW t \in Threads, Call(t) \/ Driver(t)
        PROVE  /\ (\A u \in Threads : ~OnBus(u)') => Rested'
               /\ \A u \in Threads : OnBus(u)' => Owns(Top(u), call[u])'
               /\ Kept /\ Divides =>
                    \A u \in Threads : OnBus(u)' =>
                       (Finished = Expected(Top(u), call[u], before[u]))'
    <2>1. \A u \in Threads : u # t => /\ stack'[u] = stack[u] /\ call'[u] = call[u]
                                      /\ before'[u] = before[u]
      BY <1>3, OthersStay
    <2>2. \A u \in Threads : u # t => (OnBus(u)' <=> OnBus(u))
      BY <2>1, OtherBus
    <2>3. CASE OnBus(t)
      <3>1. \A u \in Threads : u # t => ~OnBus(u)'
        BY <2>2, <2>3, OneOnBus
      <3>2. CASE OnBus(t)'
        <4>1. Carries(t)
          BY <1>2, <1>3, <2>3, <3>2, HolderCarries
        <4>2. PICK f \in Frames : Top(t)' = f /\ Owns(f, call[t])' /\ Keeps(Top(t), f, call[t])
          BY <4>1 DEF Carries
        <4>3. Owns(Top(t), call[t])'
          BY <4>2
        <4>4. Kept /\ Divides => (Finished = Expected(Top(t), call[t], before[t]))'
          <5>1. Expected(Top(t), call[t], before[t])' = Expected(f, call[t], before[t])
            BY <4>1, <4>2, SameExpected DEF Carries
          <5>2. QED
            BY <1>2, <2>3, <4>2, <5>1 DEF Keeps
        <4>5. QED
          BY <3>1, <3>2, <4>3, <4>4
      <3>3. CASE ~OnBus(t)'
        <4>1. Unlock(t)
          BY <1>3, <2>3, <3>3, WorksOnBus, OddByteOnBus, LockOnBus, EnterOnBus, OutsideOffBus
          DEF Driver, Works, Outside
        <4>2. Rested'
          BY <1>2, <2>3, <4>1, UnlockLeaves
        <4>3. QED
          BY <3>1, <3>3, <4>2
      <3>4. QED
        BY <3>2, <3>3
    <2>4. CASE ~OnBus(t) /\ ~OnBus(t)'
      <3>1. UNCHANGED << chip, cmd_data >>
        BY <1>3, <2>4, OffBusQuiet
      <3>2. Rested' <=> Rested
        BY <3>1 DEF Rested, Ready, chip
      <3>3. ASSUME NEW u \in Threads, OnBus(u)'
            PROVE  /\ Owns(Top(u), call[u])'
                   /\ Kept /\ Divides => (Finished = Expected(Top(u), call[u], before[u]))'
        <4>1. u # t /\ OnBus(u)
          BY <2>2, <2>4, <3>3
        <4>2. QED
          BY <1>2, <2>1, <3>1, <4>1, OtherOwns
      <3>4. QED
        BY <1>2, <2>2, <2>4, <3>2, <3>3
    <2>5. CASE ~OnBus(t) /\ OnBus(t)'
      <3>1. Lock(t)
        BY <1>3, <2>5, WorksOnBus, OddByteOnBus, UnlockOnBus, EnterOnBus, OutsideOffBus
        DEF Driver, Works, Outside
      <3>2. \A u \in Threads : ~OnBus(u)
        <4>1. CASE Locking
          BY <3>1, <4>1, SfudAssumption DEF Lock, Exclusion
        <4>2. CASE Alone
          BY <2>5, <4>2 DEF Alone
        <4>3. CASE MaxCalls <= 1
          <5>1. Involved(t)
            BY <3>1, LockGoes DEF Involved
          <5>2. QED
            BY <2>5, <4>3, <5>1 DEF Solo, Involved, OnBus
        <4>4. QED
          BY <4>1, <4>2, <4>3 DEF Serial
      <3>3. Rested
        BY <1>2, <3>2
      <3>4. /\ Owns(Top(t), call[t])'
            /\ (Finished = Expected(Top(t), call[t], before[t]))'
        BY <2>5, <3>1, <3>3, LockArrives
      <3>5. \A u \in Threads : u # t => ~OnBus(u)'
        BY <2>2, <3>2
      <3>6. QED
        BY <2>5, <3>4, <3>5
    <2>6. QED
      BY <2>3, <2>4, <2>5
  <1>4. CASE CycleEnds
    <2>1. \A u \in Threads : OnBus(u)' <=> OnBus(u)
      BY <1>4, OtherBus DEF CycleEnds
    <2>2. ~Ready
      BY <1>4 DEF CycleEnds, Finish
    <2>3. ASSUME NEW u \in Threads, OnBus(u)
          PROVE  /\ Owns(Top(u), call[u])'
                 /\ Kept /\ Divides => (Finished = Expected(Top(u), call[u], before[u]))'
      <3>1. stack[u] # <<>>
        BY <2>3 DEF OnBus
      <3>2. QED
        BY <1>2, <1>4, <2>3, <3>1, CycleOwns
    <2>4. ~\A u \in Threads : ~OnBus(u)
      BY <1>2, <2>2 DEF Rested
    <2>5. QED
      BY <2>1, <2>3, <2>4
  <1>5. CASE UNCHANGED vars
    <2>1. UNCHANGED << chip, cmd_data, stack, call, before >>
      BY <1>5 DEF vars, ghost, port
    <2>2. \A u \in Threads : OnBus(u)' <=> OnBus(u)
      BY <2>1, OtherBus
    <2>3. Rested' <=> Rested
      BY <2>1 DEF Rested, Ready, chip
    <2>4. ASSUME NEW u \in Threads, OnBus(u)
          PROVE  /\ Owns(Top(u), call[u])'
                 /\ Kept /\ Divides => (Finished = Expected(Top(u), call[u], before[u]))'
      BY <1>2, <2>1, <2>4, OtherOwns
    <2>5. QED
      BY <1>2, <2>2, <2>3, <2>4
  <1>6. QED
    BY <1>3, <1>4, <1>5 DEF Next, Rest

LEMMA SoundInit == Init => Exclusion /\ Solo /\ Sound /\ Kept
  <1> SUFFICES ASSUME Init PROVE Exclusion /\ Solo /\ Sound /\ Kept
    OBVIOUS
  <1>1. \A t \in Threads : stack[t] = <<>> /\ answer[t] = "none"
    BY DEF Init
  <1>2. \A t \in Threads : ~OnBus(t) /\ ~Involved(t) /\ ~Inner(t)
    BY <1>1 DEF OnBus, Involved, Inner
  <1>3. Rested /\ lock_ \notin Threads
    BY SfudAssumption DEF Init, Rested, Ready
  <1>4. QED
    BY <1>2, <1>3 DEF Exclusion, Solo, Sound, Kept

-----------------------------------------------------------------------------
\* The memory outside a call's range, and the chip afterwards.

LEMMA DriverRuns ==
    ASSUME Types, Control, NEW t \in Threads, Driver(t)
    PROVE  stack[t] # <<>>
  <1>1. Works(t) => stack[t] # <<>>
    BY WorksAt
  <1>2. sfud_write(t) \/ sfud_erase_write(t) \/ Enter(t) => stack[t] # <<>>
    BY DEF sfud_write, sfud_erase_write, Enter, At
  <1>3. Lock(t) \/ Unlock(t) \/ OddByte(t) => stack[t] # <<>>
    BY DEF Lock, Unlock, OddByte, At
  <1>4. QED
    BY <1>1, <1>2, <1>3 DEF Driver, Works

LEMMA InvolvedStays ==
    ASSUME Types, Types', Control, Control', NEW t \in Threads, Call(t) \/ Driver(t),
           NEW u \in Threads, Involved(u), Call(t) => t # u
    PROVE  Involved(u)'
  <1>1. CASE u # t
    BY <1>1, OthersStay DEF Involved
  <1>2. CASE u = t /\ Driver(t)
    <2>1. stack[t] # <<>>
      BY <1>2, DriverRuns
    <2>2. ASSUME NEW r \in Results, Return(t, r) PROVE Involved(t)'
      <3>1. \/ answer' = [answer EXCEPT ![t] = r]
            \/ stack'[t] # <<>>
        BY <2>1, <2>2, ReturnsTo DEF Types
      <3>2. r # "none"
        BY DEF Results
      <3>3. QED
        BY <3>1, <3>2 DEF Involved, Types, CallsOK
    <2>3. Top(t).result \in Results
      BY <2>1, TheOther DEF Types, Frames
    <2>4. ASSUME NEW f, SetTop(t, f) PROVE Involved(t)'
      BY <2>1, <2>4, TopChanges DEF Types, Involved
    <2>5. CASE Works(t)
      <3>1. PICK f : SetTop(t, f)
        BY <2>5, WorksAt
      <3>2. QED
        BY <1>2, <2>4, <3>1
    <2>6. OddByte(t) \/ Lock(t) => Involved(t)'
      BY OddByteOnBus, LockOnBus DEF OnBus, Involved
    <2>7. Unlock(t) => Involved(t)'
      BY <2>2, <2>3 DEF Unlock
    <2>8. Enter(t) => Involved(t)'
      BY <2>2, <2>4 DEF Enter, Results
    <2>9. sfud_write(t) => Involved(t)'
      BY <2>2, <2>4 DEF sfud_write, Results
    <2>10. sfud_erase_write(t) => Involved(t)'
      <3>1. ASSUME NEW f, Push(t, f, "erased") PROVE stack'[t] # <<>>
        <4>1. stack' = [stack EXCEPT ![t] = << f, [Top(t) EXCEPT !.at = "erased"] >> \o Tail(stack[t])]
          BY <3>1 DEF Push
        <4>2. Tail(stack[t]) \in Seq(Frames) /\ DOMAIN stack = Threads
          BY <2>1, TopIsThere DEF Types, StackOK
        <4> DEFINE g == [Top(t) EXCEPT !.at = "erased"]
                   S == Frames \cup {f, g}
        <4>3. << f, g >> \in Seq(S) /\ Tail(stack[t]) \in Seq(S)
          <5>1. Frames \subseteq S /\ f \in S /\ g \in S
            OBVIOUS
          <5> HIDE DEF S, g
          <5>2. QED
            BY <4>2, <5>1
        <4> HIDE DEF S, g
        <4>4. << f, g >> \o Tail(stack[t]) # <<>>
          <5>1. Len(<< f, g >> \o Tail(stack[t])) = 2 + Len(Tail(stack[t])) /\ Len(Tail(stack[t])) \in Nat
            BY <4>3
          <5>2. QED
            BY <5>1
        <4>5. QED
          BY <4>1, <4>2, <4>4 DEF g
      <3>2. QED
        BY <2>2, <2>3, <2>4, <3>1 DEF sfud_erase_write, Involved
    <2>11. QED
      BY <1>2, <2>5, <2>6, <2>7, <2>8, <2>9, <2>10 DEF Driver, Works
  <1>3. QED
    BY <1>1, <1>2

\* Only the end of a cycle changes the memory, and only a command the work.
LEMMA DriverLeavesMemory ==
    ASSUME Types, Types', Control, Control', NEW t \in Threads, Call(t) \/ Driver(t)
    PROVE  mem' = mem /\ (work' = work \/ (Command(t) /\ Reaction(t)))
  <1>1. CASE Command(t)
    <2>1. stack[t] # <<>> /\ Top(t).fn \in Writers
      BY <1>1 DEF Command, At
    <2>2. Reaction(t) => mem' = mem
      BY <2>1 DEF Reaction, Writers, ProgramPage, ProgramWord, EraseBlock, Begin, Ignored, chip
    <2>3. QED
      BY <1>1, <2>2 DEF Command, Ignored, chip
  <1>2. CASE WriteEnable(t) \/ WriteDisable(t) \/ Abort(t)
    BY <1>2 DEF WriteEnable, WriteDisable, Abort, WREN, WRDI, Ignored, chip
  <1>3. CASE UNCHANGED chip
    BY <1>3 DEF chip
  <1>4. QED
    BY <1>1, <1>2, <1>3
    DEF Driver, Call, sfud_write, sfud_erase_write, Enter, Lock, Unlock, WriteEnableStatus, Fill,
        WaitBusy, ReadData, WriteDisableStatus, OddByte, OddByteDone

\* What the one call may do to the chip whatever transfers it loses: it carries
\* the bytes of its own page, and in AAI mode, which it may have lost the
\* command to leave, the chip is not ahead of it and not behind its range.
Leaving == {"wrdi", "wrdiStatus", "tail", "tailDone", "abort", "abortStatus", "unlock"}
Loaded(t) == stack[t] # <<>> /\ Top(t).fn = "page" /\ Top(t).at = "command" =>
                cmd_data.addr = Top(t).addr /\ Len(cmd_data.bytes) = Chunk(Top(t))
Past(t) == \/ Top(t).fn = "aai" /\ Top(t).at \in Leaving
           \/ Len(stack[t]) = 2 /\ stack[t][2].fn = "aai" /\ stack[t][2].at = "tailDone"
Close(f, a, c) ==
    /\ f.fn = "aai" /\ c.addr <= a
    /\ \/ f.at = "command" /\ a <= f.addr
       \/ f.at = "busy" /\ a <= f.addr + 2
Follows(t) == stack[t] # <<>> /\ aai # NotAai => Past(t) \/ Close(Top(t), aai, call[t])
Alongside == MaxCalls <= 1 => /\ calls = 0 => aai = NotAai
                              /\ \A t \in Threads : Loaded(t) /\ Follows(t)

\* What a command sets going lies within its call's footprint.
LEMMA ReactionFits ==
    ASSUME Types, Control, NEW t \in Threads, stack[t] # <<>>, Top(t).fn \in Writers,
           Top(t).at = "command", Loaded(t), Follows(t), Reaction(t)
    PROVE  /\ work' = work \/ work'.cells \subseteq Footprint(call[t])
           /\ aai' = aai \/ (/\ Top(t).fn = "aai" /\ call[t].addr <= aai' /\ aai' <= Top(t).addr + 2)
  <1> DEFINE h == Top(t)
             c == call[t]
  <1>1. /\ h.from \in Nat /\ h.size \in Nat /\ h.addr \in Nat /\ c.addr \in Nat /\ c.size \in Nat
        /\ h.addr = c.addr + h.from /\ h.from + h.size <= c.size /\ InRange(c)
        /\ h.fn \in {"page", "aai"} => c.fn \in {"write", "eraseWrite"}
        /\ h.fn = "aai" => h.size > 1
    BY InPlace
  <1>2. PICK a \in Nat, m \in Nat, s \in Nat, i \in Nat, z \in Nat :
           /\ a = h.addr /\ m = h.from /\ s = h.size /\ i = c.addr /\ z = c.size
           /\ a = i + m /\ m + s <= z
    BY <1>1
  <1>3. ASSUME h.fn \in {"page", "aai"}, NEW b \in Cells, i <= b, b < a + s
        PROVE  b \in Footprint(c)
    <2>1. c.addr + c.size <= ChipSize /\ c.fn \in {"write", "eraseWrite"}
      BY <1>1, <1>3 DEF InRange
    <2>2. c.addr <= b /\ b < c.addr + c.size
      <3>1. b \in Int
        BY ChipAssumption DEF Cells
      <3>2. i <= b /\ b < i + z
        <4>1. a = i + m /\ m + s <= z
          BY <1>2
        <4>2. i <= b /\ b < a + s
          BY <1>3
        <4>3. QED
          BY <3>1, <4>1, <4>2
      <3>3. QED
        BY <1>2, <3>2
    <2>3. QED
      BY <1>1, <2>1, <2>2, InFootprint
  <1>4. CASE h.fn = "page" /\ Obeys
    <2>1. cmd_data.addr = h.addr /\ Len(cmd_data.bytes) = Chunk(h)
      BY <1>4 DEF Loaded
    <2>2. PICK n \in Nat : n <= s /\ UNCHANGED aai /\ work'.cells = {b \in Cells : a <= b /\ b < a + n}
      <3>1. PICK n \in Nat : n = Portion(h)
        BY <1>4, <2>1, PageCells
      <3>2. n <= h.size /\ UNCHANGED aai /\ work'.cells = {b \in Cells : h.addr <= b /\ b < h.addr + n}
        BY <1>4, <2>1, <3>1, PageCells
      <3>3. QED
        BY <1>2, <3>2
    <2>3. ASSUME NEW b \in work'.cells PROVE b \in Footprint(c)
      <3>1. b \in Cells /\ a <= b /\ b < a + n /\ b \in Int
        BY <2>2, ChipAssumption DEF Cells
      <3>2. i <= b /\ b < a + s
        <4>1. a = i + m
          BY <1>2
        <4>2. n <= s
          BY <2>2
        <4>3. QED
          BY <3>1, <4>1, <4>2
      <3>3. QED
        BY <1>3, <1>4, <3>1, <3>2
    <2>4. QED
      BY <2>2, <2>3
  <1>5. CASE h.fn = "aai"
    <2> DEFINE at == IF aai = NotAai THEN a ELSE aai
    <2>1. at \in Nat /\ i <= at /\ at <= a
      <3>1. aai \in Nat \cup {NotAai}
        BY DEF Types, ChipOK
      <3>2. aai # NotAai => c.addr <= aai /\ aai <= h.addr
        BY <1>5, InnerIsPage DEF Follows, Past, Leaving, Close, Control, Shape, Pair, UnderErase, UnderAai
      <3>3. QED
        BY <1>2, <3>1, <3>2
    <2>2. \/ work' = work /\ aai' = aai
          \/ work'.cells = {at, at + 1} \cap Cells /\ aai' = at + 2
      BY <1>2, <1>5 DEF Reaction, ProgramWord, Begin, Ignored, chip
    <2> HIDE DEF at
    <2>3. at + 2 <= a + 2 /\ i <= at + 2
      BY <2>1
    <2>4. ASSUME NEW b \in {at, at + 1} \cap Cells PROVE b \in Footprint(c)
      <3>1. s > 1
        BY <1>1, <1>2, <1>5
      <3>2. i <= b /\ b < a + s
        BY <2>1, <2>4, <3>1
      <3>3. QED
        BY <1>3, <1>5, <3>2
    <2>5. QED
      BY <1>2, <1>5, <2>2, <2>3, <2>4
  <1>6. CASE h.fn = "erase" /\ Obeys
    BY <1>6, EraseWipes DEF Obeys
  <1>7. CASE h.fn = "chipErase" /\ Obeys
    BY <1>7, ChipWipes DEF Obeys
  <1>8. CASE h.fn # "aai" /\ ~Obeys
    BY <1>8 DEF Reaction, ProgramPage, EraseBlock, Ignored, chip, Writers
  <1>9. QED
    BY <1>4, <1>5, <1>6, <1>7, <1>8 DEF Writers

\* Where a step inside a function goes.
Course(h, f) ==
    /\ f.fn = h.fn
    /\ h.fn = "aai" /\ h.at \in Leaving => f.at \in Leaving
    /\ h.fn = "aai" /\ h.at = "command" =>
          f.at \in Leaving \/ (f.at = "busy" /\ f.addr = h.addr)
    /\ h.fn = "aai" /\ h.at = "busy" =>
          \/ f.at \in Leaving
          \/ f.at = "busy" /\ f.addr = h.addr
          \/ f.at = "command" /\ f.addr = h.addr + 2
    /\ f.fn = "page" /\ f.at = "command" => h.at = "fill" /\ Like(h, f)

LEMMA WorksGo ==
    ASSUME Types, Control, NEW t \in Threads, Works(t)
    PROVE  \E f \in Frames : SetTop(t, f) /\ Course(Top(t), f)
  <1> DEFINE h == Top(t)
  <1>1. stack[t] # <<>> /\ h \in Frames
    BY WorksAt
  <1>2. ASSUME NEW l \in Labels, Goto(t, l), \A f \in Frames : Like(h, f) /\ f.at = l => Course(h, f)
        PROVE  \E f \in Frames : SetTop(t, f) /\ Course(h, f)
    BY <1>1, <1>2, GoesTo
  <1>3. ASSUME NEW l \in Labels, NEW r \in Results, Fail(t, l, r),
               h.fn = "aai" => l \in Leaving, l # "command"
        PROVE  \E f \in Frames : SetTop(t, f) /\ Course(h, f)
    <2> PICK f : f = [h EXCEPT !.at = l, !.result = r]
      OBVIOUS
    <2>1. SetTop(t, f)
      BY <1>3 DEF Fail
    <2>2. f \in Frames /\ f.at = l /\ f.fn = h.fn
      <3>1. PICK g \in Frames : g = h
        BY <1>1
      <3>2. f = [g EXCEPT !.at = l, !.result = r]
        BY <3>1
      <3>3. QED
        BY <3>1, <3>2 DEF Frames
    <2>3. Course(h, f)
      BY <1>3, <2>2 DEF Course
    <2>4. QED
      BY <2>1, <2>2, <2>3
  <1>4. Exit(t) \in Labels /\ (h.fn = "aai" => Exit(t) \in Leaving) /\ Exit(t) # "command"
        /\ {"ERR_WRITE", "ERR_READ", "ERR_TIMEOUT"} \subseteq Results
    BY DEF Exit, Labels, Leaving, Results
  <1>5. CASE WriteEnable(t)
    <2>1. h.at = "wren" /\ (Goto(t, "wrenStatus") \/ Fail(t, Exit(t), "ERR_WRITE"))
      BY <1>5 DEF WriteEnable, At
    <2>2. \A f \in Frames : Like(h, f) /\ f.at = "wrenStatus" => Course(h, f)
      BY <2>1 DEF Course, Like, Leaving
    <2>3. QED
      BY <1>2, <1>3, <1>4, <2>1, <2>2 DEF Labels
  <1>6. CASE WriteEnableStatus(t)
    <2> DEFINE l == CASE h.fn = "page" -> "fill"
                      [] h.fn = "aai" /\ h.size < 2 -> "wrdi"
                      [] OTHER -> "command"
    <2>1. h.at = "wrenStatus" /\ l \in Labels /\ (h.fn = "page" => l = "fill")
      BY <1>6 DEF WriteEnableStatus, At, Labels
    <2>2. Goto(t, l) \/ Fail(t, Exit(t), "ERR_READ") \/ Fail(t, Exit(t), "ERR_WRITE")
      BY <1>6 DEF WriteEnableStatus
    <2> HIDE DEF l
    <2>3. \A f \in Frames : Like(h, f) /\ f.at = l => Course(h, f)
      BY <2>1 DEF Course, Like, Leaving
    <2>4. QED
      BY <1>2, <1>3, <1>4, <2>1, <2>2, <2>3
  <1>7. CASE Fill(t)
    <2>1. h.fn = "page" /\ h.at = "fill" /\ Goto(t, "command")
      BY <1>7 DEF Fill, At
    <2>2. \A f \in Frames : Like(h, f) /\ f.at = "command" => Course(h, f)
      BY <2>1 DEF Course, Like
    <2>3. QED
      BY <1>2, <2>1, <2>2 DEF Labels
  <1>8. CASE Command(t)
    <2>1. h.at = "command"
      BY <1>8 DEF Command, At
    <2>2. CASE Fail(t, Exit(t), "ERR_WRITE")
      BY <1>3, <1>4, <2>2
    <2>3. CASE SetTop(t, [h EXCEPT !.at = "busy", !.retry = RetryTimes])
      <3> PICK f : f = [h EXCEPT !.at = "busy", !.retry = RetryTimes]
        OBVIOUS
      <3>1. f \in Frames /\ Like(h, f) /\ f.at = "busy"
        <4> HIDE DEF h
        <4>1. "busy" \in Labels /\ RetryTimes \in 0 .. RetryTimes
          BY SfudAssumption DEF Labels
        <4>2. QED
          BY <1>1, <4>1 DEF Like, Frames
      <3>2. Course(h, f)
        BY <2>1, <3>1 DEF Course, Like, Leaving
      <3>3. QED
        BY <2>3, <3>1, <3>2
    <2>4. QED
      BY <1>8, <2>2, <2>3 DEF Command
  <1>9. CASE WaitBusy(t)
    <2>1. h.at = "busy" /\ h.fn \in Writers \cup {"read"}
      BY <1>9 DEF WaitBusy, At
    <2>2. CASE Fail(t, Exit(t), "ERR_TIMEOUT")
      BY <1>3, <1>4, <2>2
    <2>3. CASE h.retry > 0 /\ SetTop(t, [h EXCEPT !.retry = @ - 1])
      <3> PICK f : f = [h EXCEPT !.retry = @ - 1]
        OBVIOUS
      <3>1. f \in Frames /\ Like(h, f) /\ f.at = "busy"
        <4> HIDE DEF h
        <4>1. h.retry - 1 \in 0 .. RetryTimes
          BY <1>1, <2>3, SfudAssumption DEF Frames
        <4>2. h.at = "busy"
          BY <2>1 DEF h
        <4>3. QED
          BY <1>1, <4>1, <4>2 DEF Frames, Like
      <3>2. Course(h, f)
        BY <2>1, <3>1 DEF Course, Like, Leaving
      <3>3. QED
        BY <2>3, <3>1, <3>2
    <2>4. CASE SetTop(t, AfterCycle(h)) /\ h.fn = "read"
      <3>1. Goto(t, "data")
        BY <2>4 DEF AfterCycle, Goto
      <3>2. \A f \in Frames : Like(h, f) /\ f.at = "data" => Course(h, f)
        BY <2>4 DEF Course, Like
      <3>3. QED
        BY <1>2, <3>1, <3>2 DEF Labels
    <2>5. CASE SetTop(t, AfterCycle(h)) /\ h.fn \in Writers
      <3> PICK f : f = AfterCycle(h)
        OBVIOUS
      <3>1. f \in Frames /\ f.fn = h.fn /\ f.addr = h.addr + Portion(h)
            /\ f.at = IF f.fn = "aai" THEN (IF f.size >= 2 THEN "command" ELSE "wrdi")
                                      ELSE (IF f.size = 0 THEN "wrdi" ELSE "wren")
        <4> HIDE DEF h
        <4>1. QED
          BY <1>1, <2>5, CycleAdvances
      <3>2. h.fn = "aai" => Portion(h) = 2
        <4>1. h.fn = "aai" => h.size > 1
          BY <1>1, <2>1 DEF Control, Shape, Placed, Sizes
        <4>2. h.size \in Nat
          BY <1>1, SfudAssumption DEF Frames
        <4>3. QED
          BY <1>1, <2>5, <4>1, <4>2, PortionFits
      <3>3. Course(h, f)
        BY <2>1, <3>1, <3>2 DEF Course, Leaving
      <3>4. QED
        BY <2>5, <3>1, <3>3
    <2>6. QED
      BY <1>9, <2>1, <2>2, <2>3, <2>4, <2>5 DEF WaitBusy
  <1>10. CASE ReadData(t)
    <2>1. h.fn = "read" /\ (Goto(t, "unlock") \/ Fail(t, "unlock", "ERR_READ"))
      BY <1>10 DEF ReadData, At
    <2>2. \A f \in Frames : Like(h, f) /\ f.at = "unlock" => Course(h, f)
      BY <2>1 DEF Course, Like
    <2>3. QED
      BY <1>2, <1>3, <1>4, <2>1, <2>2 DEF Labels, Leaving
  <1>11. CASE WriteDisable(t)
    <2>1. \A f \in Frames : Like(h, f) /\ f.at \in {"wrdiStatus", "unlock"} => Course(h, f)
      BY DEF Course, Like, Leaving
    <2>2. \/ Goto(t, "wrdiStatus") \/ Goto(t, "unlock")
          \/ Fail(t, "abort", "ERR_WRITE")
      BY <1>11 DEF WriteDisable
    <2>3. QED
      BY <1>2, <1>3, <1>4, <2>1, <2>2 DEF Labels, Leaving
  <1>12. CASE WriteDisableStatus(t)
    <2>1. \A f \in Frames : Like(h, f) /\ f.at \in {"tail", "unlock"} => Course(h, f)
      BY DEF Course, Like, Leaving
    <2>2. \/ Goto(t, "tail") \/ Goto(t, "unlock")
          \/ Fail(t, "abort", "ERR_WRITE") \/ Fail(t, "abort", "ERR_READ")
      BY <1>12 DEF WriteDisableStatus
    <2>3. QED
      BY <1>2, <1>3, <1>4, <2>1, <2>2 DEF Labels, Leaving
  <1>13. CASE OddByteDone(t)
    <2>1. h.fn = "aai" /\ h.at \in {"headDone", "tailDone"}
      BY <1>13 DEF OddByteDone, At
    <2>2. CASE h.at = "headDone" /\ SetTop(t, [Advance(h, 1) EXCEPT !.at = "wren"])
      <3> PICK g : g = Advance(h, 1)
        OBVIOUS
      <3> PICK f : f = [g EXCEPT !.at = "wren"]
        OBVIOUS
      <3>1. h.size \in Nat /\ h.size > 0
        BY <1>1, <2>1, <2>2, SfudAssumption DEF Control, Shape, Placed, Sizes, Frames
      <3>2. g \in Frames /\ g.fn = h.fn
        BY <1>1, <3>1, Advanced
      <3>3. f \in Frames /\ f.at = "wren" /\ f.fn = "aai"
        <4>1. f \in Frames /\ f.at = "wren" /\ f.fn = g.fn
          BY <3>2 DEF Frames, Labels
        <4>2. QED
          BY <2>1, <3>2, <4>1
      <3>4. Course(h, f)
        BY <2>1, <2>2, <3>3 DEF Course, Leaving
      <3>5. QED
        BY <2>2, <3>3, <3>4
    <2>3. \A f \in Frames : Like(h, f) /\ f.at \in {"unlock", "abort"} => Course(h, f)
      BY DEF Course, Like, Leaving
    <2>4. \/ h.at = "headDone" /\ SetTop(t, [Advance(h, 1) EXCEPT !.at = "wren"])
          \/ Goto(t, "unlock") \/ Goto(t, "abort")
      BY <1>13 DEF OddByteDone, At
    <2>5. QED
      BY <1>2, <2>2, <2>3, <2>4 DEF Labels
  <1>14. CASE Abort(t)
    <2>1. \A f \in Frames : Like(h, f) /\ f.at \in {"abortStatus", "unlock"} => Course(h, f)
      BY DEF Course, Like, Leaving
    <2>2. \E l \in {"abortStatus", "unlock"} : Goto(t, l)
      BY <1>14 DEF Abort
    <2>3. QED
      BY <1>2, <2>1, <2>2 DEF Labels
  <1>15. QED
    BY <1>5, <1>6, <1>7, <1>8, <1>9, <1>10, <1>11, <1>12, <1>13, <1>14 DEF Works

\* The steps inside a function keep both.
LEMMA WorksAlongside ==
    ASSUME Types, Types', Control, NEW t \in Threads, Works(t), Loaded(t), Follows(t)
    PROVE  Loaded(t)' /\ Follows(t)'
  <1> DEFINE h == Top(t)
             c == call[t]
  <1>1. stack[t] # <<>> /\ h \in Frames /\ call' = call
    BY WorksAt DEF ghost
  <1>2. PICK f \in Frames : SetTop(t, f) /\ Course(h, f)
    BY WorksGo
  <1>3. /\ stack'[t] # <<>> /\ Len(stack'[t]) = Len(stack[t]) /\ Top(t)' = f
        /\ Len(stack[t]) = 2 => stack'[t][2] = stack[t][2]
    BY <1>1, <1>2, TopChanges DEF Types
  <1>4. Loaded(t)'
    <2> SUFFICES ASSUME f.fn = "page", f.at = "command"
                 PROVE  cmd_data'.addr = f.addr /\ Len(cmd_data'.bytes) = Chunk(f)
      BY <1>3 DEF Loaded
    <2>1. h.at = "fill" /\ Like(h, f) /\ h.fn = "page"
      BY <1>2 DEF Course
    <2>2. Fill(t)
      BY <2>1 DEF Works, WriteEnable, WriteEnableStatus, Command, WaitBusy, ReadData, WriteDisable,
                  WriteDisableStatus, OddByteDone, Abort, At
    <2>3. PICK m \in Nat, n \in Nat : m = h.from /\ n = Chunk(h) /\ n = Chunk(f)
      <3>1. Chunk(h) \in Nat /\ h.from \in Nat
        BY <1>1, <2>1, PortionFits DEF Writers, Frames
      <3>2. Chunk(f) = Chunk(h)
        BY <2>1 DEF Chunk, Like
      <3>3. QED
        BY <3>1, <3>2
    <2>4. Len(Data(t, m, n)) = n
      <3>1. CallsOK
        BY DEF Types
      <3>2. QED
        BY <3>1, DataTypes
    <2>5. QED
      BY <2>1, <2>2, <2>3, <2>4 DEF Fill, Like
  <1>5. h.addr \in Nat /\ c.addr \in Nat
    <2>1. c \in [fn : Commands, addr : Nat, size : 0 .. SizeMod - 1, version : Nat]
      BY DEF Types, CallsOK
    <2>2. QED
      BY <1>1, <2>1 DEF Frames
  <1>6. aai' \in {aai, NotAai} \/ (/\ h.fn = "aai" /\ h.at = "command"
                                   /\ c.addr <= aai' /\ aai' <= h.addr + 2)
    <2>1. CASE Command(t)
      <3>1. h.fn \in Writers /\ h.at = "command"
        BY <2>1 DEF Command, At
      <3>2. Ignored \/ Reaction(t)
        BY <2>1 DEF Command
      <3>3. QED
        BY <1>1, <3>1, <3>2, ReactionFits DEF Ignored, chip
    <2>2. CASE WriteEnable(t) \/ WriteDisable(t) \/ Abort(t)
      BY <2>2 DEF WriteEnable, WriteDisable, Abort, WREN, WRDI, Ignored, chip
    <2>3. QED
      BY <2>1, <2>2 DEF Works, WriteEnableStatus, Fill, WaitBusy, ReadData, WriteDisableStatus,
                        OddByteDone, chip
  <1>7. Follows(t)'
    <2> SUFFICES ASSUME aai' # NotAai PROVE Past(t)' \/ Close(f, aai', c)
      BY <1>1, <1>3 DEF Follows
    <2>1. CASE aai' = aai
      <3>1. Past(t) \/ Close(h, aai, c)
        BY <1>1, <2>1 DEF Follows
      <3>2. Past(t) => Past(t)'
        BY <1>2, <1>3 DEF Past, Course
      <3>3. aai \in Nat
        BY <2>1 DEF Types, ChipOK
      <3>4. CASE Close(h, aai, c)
        BY <1>2, <1>3, <1>5, <2>1, <3>3, <3>4 DEF Close, Course, Past
      <3>5. QED
        BY <3>1, <3>2, <3>4
    <2>2. CASE h.fn = "aai" /\ h.at = "command" /\ c.addr <= aai' /\ aai' <= h.addr + 2
      BY <1>2, <1>3, <2>2 DEF Close, Course, Past
    <2>3. QED
      BY <1>6, <2>1, <2>2
  <1>8. QED
    BY <1>4, <1>7

\* So do the steps between functions, which leave the chip alone.
LEMMA ReturnAlongside ==
    ASSUME Types, Types', Control, NEW t \in Threads, stack[t] # <<>>, NEW r \in Results, Return(t, r),
           UNCHANGED << chip, call, cmd_data >>, Top(t).at \in {"enter", "unlock", "erased"}, Follows(t)
    PROVE  Loaded(t)' /\ Follows(t)'
  <1> DEFINE g == stack[t][2]
             f == [g EXCEPT !.result = r]
  <1>1. \/ Len(stack[t]) = 1 /\ stack'[t] = <<>>
        \/ Len(stack[t]) = 2 /\ g \in Frames /\ stack'[t] # <<>> /\ Len(stack'[t]) = 1 /\ Top(t)' = f
    BY ReturnsTo DEF Types
  <1>2. CASE Len(stack[t]) = 1 /\ stack'[t] = <<>>
    BY <1>2 DEF Loaded, Follows
  <1>3. CASE Len(stack[t]) = 2 /\ g \in Frames /\ stack'[t] # <<>> /\ Len(stack'[t]) = 1 /\ Top(t)' = f
    <2>1. f.fn = g.fn /\ f.at = g.at
      BY <1>3 DEF Frames
    <2>2. UnderErase(Top(t), g, call[t]) \/ UnderAai(Top(t), g, call[t])
      BY <1>3 DEF Control, Shape, Pair
    <2>3. Loaded(t)'
      BY <1>3, <2>1, <2>2 DEF Loaded, UnderErase, UnderAai
    <2>4. aai' = aai /\ Top(t).fn # "aai"
      BY <2>2 DEF chip, UnderErase, UnderAai
    <2>5. Follows(t)'
      BY <1>3, <2>1, <2>4 DEF Follows, Past, Close, Leaving
    <2>6. QED
      BY <2>3, <2>5
  <1>4. QED
    BY <1>1, <1>2, <1>3

LEMMA OutsideAlongside ==
    ASSUME Types, Types', Control, NEW t \in Threads, Loaded(t), Follows(t),
           sfud_write(t) \/ sfud_erase_write(t) \/ Enter(t) \/ Lock(t) \/ Unlock(t) \/ OddByte(t)
    PROVE  Loaded(t)' /\ Follows(t)'
  <1> DEFINE h == Top(t)
  <1>1. stack[t] # <<>> /\ UNCHANGED << chip, call, cmd_data >>
    BY DEF sfud_write, sfud_erase_write, Enter, Lock, Unlock, OddByte, At, ghost
  <1>2. h \in Frames /\ (Len(stack[t]) = 1 \/ Len(stack[t]) = 2) /\ aai' = aai
    BY <1>1, TheOther DEF Types, chip
  <1>3. ASSUME NEW f, SetTop(t, f), h.at \in {"enter", "lock", "erased"}, f.at # "command"
        PROVE  Loaded(t)' /\ Follows(t)'
    <2>1. /\ stack'[t] # <<>> /\ Len(stack'[t]) = Len(stack[t]) /\ Top(t)' = f
          /\ Len(stack[t]) = 2 => stack'[t][2] = stack[t][2]
      BY <1>1, <1>3, TopChanges DEF Types
    <2>2. QED
      BY <1>1, <1>2, <1>3, <2>1 DEF Loaded, Follows, Past, Close, Leaving
  <1>4. ASSUME NEW r \in Results, Return(t, r), h.at \in {"enter", "unlock", "erased"}
        PROVE  Loaded(t)' /\ Follows(t)'
    BY <1>1, <1>4, ReturnAlongside
  <1>5. h.result \in Results /\ "SUCCESS" \in Results /\ "ERR_ADDR_OUT_OF_BOUND" \in Results
    BY <1>2 DEF Frames, Results
  <1>6. CASE sfud_write(t)
    <2>1. h.at = "enter" /\ (SetTop(t, [h EXCEPT !.fn = write_mode]) \/ Return(t, "SUCCESS"))
      BY <1>6 DEF sfud_write, At
    <2>2. [h EXCEPT !.fn = write_mode].at = h.at
      BY <1>2 DEF Frames
    <2>3. QED
      BY <1>3, <1>4, <1>5, <2>1, <2>2
  <1>7. CASE sfud_erase_write(t)
    <2>1. h.fn = "eraseWrite" /\ h.at \in {"enter", "erased"}
          /\ (\/ SetTop(t, [h EXCEPT !.fn = "write", !.at = "enter"]) \/ Return(t, h.result)
              \/ Push(t, Frame("erase", "enter", h.addr, h.size, 0, PageSize), "erased"))
      BY <1>7 DEF sfud_erase_write, At
    <2>2. [h EXCEPT !.fn = "write", !.at = "enter"].at = "enter"
      BY <1>2 DEF Frames
    <2>3. CASE Push(t, Frame("erase", "enter", h.addr, h.size, 0, PageSize), "erased")
      <3>1. aai = NotAai
        BY <1>1, <2>1 DEF Follows, Past, Close, Control, Shape, Pair, UnderErase, UnderAai
      <3>2. Follows(t)'
        BY <1>2, <3>1 DEF Follows
      <3>3. Loaded(t)'
        <4>1. Len(stack[t]) = 1
          BY <1>1, <1>2, <2>1 DEF Control, Shape, Pair, UnderErase, UnderAai
        <4>2. PICK a \in Nat, s \in 0 .. SizeMod - 1 : a = h.addr /\ s = h.size
          BY <1>2 DEF Frames
        <4>3. "erase" \in Commands \cup {"page"} /\ 0 \in Nat /\ PageSize \in Nat \ {0} /\ "erased" \in Labels
          BY ChipAssumption DEF Commands, Labels
        <4> PICK e : e = Frame("erase", "enter", a, s, 0, PageSize)
          OBVIOUS
        <4>4. e \in Frames /\ e.at = "enter"
          BY <4>3, NewFrame
        <4>5. Push(t, e, "erased")
          BY <2>3, <4>2
        <4>6. Top(t)' = e
          BY <1>1, <4>1, <4>3, <4>4, <4>5, Pushed DEF Types
        <4>7. QED
          BY <4>4, <4>6 DEF Loaded
      <3>4. QED
        BY <3>2, <3>3
    <2>4. QED
      BY <1>3, <1>4, <1>5, <2>1, <2>2, <2>3
  <1>8. CASE Enter(t)
    <2> DEFINE f == [h EXCEPT !.at = "lock",
                         !.fn = IF @ = "erase" /\ h.addr = 0 /\ h.size = ChipSize
                                THEN "chipErase" ELSE @]
    <2>1. h.at = "enter" /\ (Return(t, "ERR_ADDR_OUT_OF_BOUND") \/ SetTop(t, f))
      BY <1>8 DEF Enter, At
    <2>2. f.at = "lock"
      BY <1>2 DEF Frames
    <2> HIDE DEF f
    <2>3. QED
      BY <1>3, <1>4, <1>5, <2>1, <2>2
  <1>9. CASE Lock(t)
    <2> DEFINE f == [h EXCEPT !.at = Start(h)]
    <2>1. h.at = "lock" /\ SetTop(t, f)
      BY <1>9 DEF Lock, At, Goto
    <2>2. f.at = Start(h)
      BY <1>2 DEF Frames
    <2>3. Start(h) # "command"
      BY DEF Start
    <2> HIDE DEF f
    <2>4. QED
      BY <1>3, <2>1, <2>2, <2>3
  <1>10. CASE Unlock(t)
    BY <1>4, <1>5, <1>10 DEF Unlock, At
  <1>11. CASE OddByte(t)
    <2>1. PICK l \in {"headDone", "tailDone"} :
               /\ h.fn = "aai" /\ h.at = IF l = "headDone" THEN "head" ELSE "tail"
               /\ Push(t, Frame("page", "enter", h.addr, 1, h.from, 1), l)
      BY <1>11 DEF OddByte, At
    <2>2. Len(stack[t]) = 1
      BY <1>11, OddByteOnBus
    <2>3. Top(t)'.at = "enter"
      BY <1>11, OddByteOnBus
    <2>4. Inner(t)'
      BY <1>11, OddByteOnBus
    <2>5. l = "tailDone" => stack'[t][2].at = "tailDone"
      <3> PICK e : e = Frame("page", "enter", h.addr, 1, h.from, 1)
        OBVIOUS
      <3> PICK k : k = [h EXCEPT !.at = l]
        OBVIOUS
      <3>1. e \in Frames
        <4>1. h.addr \in Nat /\ h.from \in Nat /\ h.size \in 0 .. SizeMod - 1 /\ h.size > 0
          BY <1>1, <1>2, <2>1 DEF Frames, Control, Shape, Placed, Sizes
        <4>2. PICK a \in Nat, m \in Nat : a = h.addr /\ m = h.from
          BY <4>1
        <4>3. PICK n \in 0 .. SizeMod - 1, g \in Nat \ {0} : n = 1 /\ g = 1
          BY <4>1, SfudAssumption
        <4>4. PICK fn \in Commands \cup {"page"} : fn = "page"
          OBVIOUS
        <4>5. Frame(fn, "enter", a, n, m, g) \in Frames
          BY NewFrame
        <4>6. QED
          BY <4>2, <4>3, <4>4, <4>5
      <3>2. k.at = l /\ l \in Labels
        BY <1>2 DEF Frames, Labels
      <3>3. Push(t, e, l)
        BY <2>1
      <3>4. stack'[t][2] = k
        BY <1>1, <2>2, <3>1, <3>2, <3>3, Pushed DEF Types
      <3>5. QED
        BY <3>2, <3>4
    <2>6. Loaded(t)'
      BY <2>3 DEF Loaded
    <2>7. Follows(t)'
      BY <1>1, <1>2, <2>1, <2>2, <2>4, <2>5 DEF Follows, Past, Close, Leaving, Inner
    <2>8. QED
      BY <2>6, <2>7
  <1>12. QED
    BY <1>6, <1>7, <1>8, <1>9, <1>10, <1>11

LEMMA AlongsideStep ==
    ASSUME Types, Types', Control, Control', Solo, Alongside, [Next]_vars
    PROVE  Alongside'
  <1> SUFFICES ASSUME MaxCalls <= 1
               PROVE  /\ calls' = 0 => aai' = NotAai
                      /\ \A t \in Threads : Loaded(t)' /\ Follows(t)'
    BY DEF Alongside
  <1>1. /\ calls = 0 => aai = NotAai
        /\ \A t \in Threads : Loaded(t) /\ Follows(t)
    BY DEF Alongside
  <1>2. calls \in Nat /\ MaxCalls \in Nat
    BY SfudAssumption DEF Types, CallsOK
  <1>3. ASSUME NEW t \in Threads, Driver(t) PROVE Alongside'
    <2>1. stack[t] # <<>>
      BY <1>3, DriverRuns
    <2>2. Involved(t) /\ calls' = calls
      BY <1>3, <2>1 DEF Involved, Driver, sfud_write, sfud_erase_write, Enter, Lock, Unlock,
         WriteEnable, WriteEnableStatus, Fill, Command, WaitBusy, ReadData, WriteDisable,
         WriteDisableStatus, OddByte, OddByteDone, Abort, ghost
    <2>3. calls' # 0 /\ \A u \in Threads : u # t => ~Involved(u)
      BY <1>2, <2>2 DEF Solo
    <2>4. Loaded(t)' /\ Follows(t)'
      BY <1>1, <1>3, WorksAlongside, OutsideAlongside DEF Driver, Works
    <2>5. \A u \in Threads : u # t => stack'[u] = <<>>
      BY <1>3, <2>3, OthersStay DEF Involved
    <2>6. \A u \in Threads : u # t => Loaded(u)' /\ Follows(u)'
      BY <2>5 DEF Loaded, Follows
    <2>7. QED
      BY <2>3, <2>4, <2>6 DEF Alongside
  <1>4. ASSUME NEW t \in Threads, Call(t) PROVE Alongside'
    <2>1. calls = 0 /\ calls' = 1 /\ aai' = aai
      BY <1>2, <1>4 DEF Call, chip
    <2>2. aai' = NotAai
      BY <1>1, <2>1
    <2>3. \A u \in Threads : u # t => stack'[u] = <<>>
      <3>1. \A u \in Threads : ~Involved(u)
        BY <2>1 DEF Solo
      <3>2. QED
        BY <1>4, <3>1, OthersStay DEF Involved
    <2>4. Top(t)'.at = "enter"
      <3>1. PICK r \in Requests[t] : stack' = [stack EXCEPT ![t] = << Frame(r[1], "enter", r[2], r[3], 0, PageSize) >>]
        BY <1>4 DEF Call
      <3> PICK f : f = Frame(r[1], "enter", r[2], r[3], 0, PageSize)
        OBVIOUS
      <3>2. f.at = "enter"
        BY DEF Frame
      <3>3. stack'[t] = << f >>
        BY <3>1 DEF Types, StackOK
      <3>4. QED
        BY <3>2, <3>3 DEF Top
    <2>5. \A u \in Threads : Loaded(u)'
      BY <2>3, <2>4 DEF Loaded
    <2>6. QED
      BY <2>1, <2>2, <2>5 DEF Alongside, Follows
  <1>5. CASE CycleEnds \/ UNCHANGED vars
    <2>1. UNCHANGED << stack, call, calls, cmd_data, aai >>
      BY <1>5 DEF CycleEnds, Finish, vars, ghost, port, chip
    <2>2. \A t \in Threads : Top(t)' = Top(t)
      BY <2>1 DEF Top
    <2>3. \A t \in Threads : Loaded(t)' /\ Follows(t)'
      BY <1>1, <2>1, <2>2 DEF Loaded, Follows, Past
    <2>4. QED
      BY <1>1, <2>1, <2>3
  <1>6. QED
    BY <1>3, <1>4, <1>5 DEF Next, Rest, Alongside

LEMMA LeftStep ==
    ASSUME Types, Types', Control, Control', Solo, Alongside, Left, [Next]_vars
    PROVE  Left'
  <1> SUFFICES ASSUME MaxCalls <= 1
               PROVE  Ready' \/ \E t \in Threads : Involved(t)' /\ work'.cells \subseteq Footprint(call[t])'
    BY DEF Left
  <1>1. \A t \in Threads : Loaded(t) /\ Follows(t)
    BY DEF Alongside
  <1>2. Ready \/ \E t \in Threads : Involved(t) /\ work.cells \subseteq Footprint(call[t])
    BY DEF Left
  <1>3. ASSUME NEW t \in Threads, Call(t) \/ Driver(t), work' = work
        PROVE  Left'
    <2>1. CASE Ready
      BY <1>3, <2>1 DEF Left, Ready
    <2>2. CASE ~Ready
      <3>1. PICK u \in Threads : Involved(u) /\ work.cells \subseteq Footprint(call[u])
        BY <1>2, <2>2
      <3>2. ~Call(t)
        <4>1. calls >= 1 /\ calls \in Nat /\ MaxCalls \in Nat
          BY <3>1, SfudAssumption DEF Solo, Types, CallsOK
        <4>2. QED
          BY <4>1 DEF Call
      <3>3. Involved(u)'
        BY <1>3, <3>1, <3>2, InvolvedStays
      <3>4. call' = call
        BY <1>3, <3>2 DEF Driver, sfud_write, sfud_erase_write, Enter, Lock, Unlock, WriteEnable,
           WriteEnableStatus, Fill, Command, WaitBusy, ReadData, WriteDisable,
           WriteDisableStatus, OddByte, OddByteDone, Abort, ghost
      <3>5. Footprint(call[u])' = Footprint(call[u])
        BY <3>4 DEF Footprint, Flash!InBound, Flash!Target, Flash!Blocks
      <3>6. QED
        BY <1>3, <3>1, <3>3, <3>5 DEF Left
    <2>3. QED
      BY <2>1, <2>2
  <1>4. ASSUME NEW t \in Threads, Command(t), Reaction(t)
        PROVE  Left'
    <2>1. stack[t] # <<>> /\ Top(t).fn \in Writers /\ Top(t).at = "command" /\ call' = call
      BY <1>4 DEF Command, At, ghost
    <2>2. work' = work \/ work'.cells \subseteq Footprint(call[t])
      BY <1>1, <1>4, <2>1, ReactionFits
    <2>3. CASE work' = work
      <3>1. Driver(t)
        BY <1>4 DEF Driver
      <3>2. QED
        BY <1>3, <2>3, <3>1
    <2>4. Involved(t)'
      <3>1. Driver(t) /\ ~Call(t)
        BY <1>4, <2>1 DEF Driver, Call
      <3>2. QED
        BY <2>1, <3>1, InvolvedStays DEF Involved
    <2>5. Footprint(call[t])' = Footprint(call[t])
      BY <2>1 DEF Footprint, Flash!InBound, Flash!Target, Flash!Blocks
    <2>6. QED
      BY <2>2, <2>3, <2>4, <2>5 DEF Left
  <1>5. CASE CycleEnds
    <2>1. Ready'
      BY <1>5 DEF CycleEnds, Finish, Ready
    <2>2. QED
      BY <2>1 DEF Left
  <1>6. CASE UNCHANGED vars
    <2>1. UNCHANGED << stack, answer, call, work >>
      BY <1>6 DEF vars, ghost, port, chip
    <2>2. \A t \in Threads : Footprint(call[t])' = Footprint(call[t])
      BY <2>1 DEF Footprint, Flash!InBound, Flash!Target, Flash!Blocks
    <2>3. QED
      BY <1>2, <2>1, <2>2 DEF Involved, Ready
  <1>7. ASSUME NEW t \in Threads, Call(t) \/ Driver(t) PROVE Left'
    BY <1>3, <1>4, <1>7, DriverLeavesMemory
  <1>8. QED
    BY <1>1, <1>5, <1>6, <1>7 DEF Next, Rest, Left

-----------------------------------------------------------------------------
\* The inductive invariant of the chip's state.
Ordered == Types /\ Control /\ Exclusion /\ Solo /\ Sound /\ Alongside /\ Left /\ Kept

LEMMA OrderedInit == Init => Ordered
  <1>1. Init => Left /\ Alongside
    BY DEF Init, Left, Ready, Alongside, Loaded, Follows
  <1>2. QED
    BY <1>1, TypesInit, ControlInit, SoundInit DEF Ordered

LEMMA OrderedStep == AaiFits /\ SumsFit /\ Serial /\ Ordered /\ [Next]_vars => Ordered'
  <1> SUFFICES ASSUME AaiFits, SumsFit, Serial, Ordered, [Next]_vars PROVE Ordered'
    OBVIOUS
  <1>1. Types'
    BY TypesStep DEF Ordered
  <1>2. Control'
    BY <1>1, ControlStep DEF Ordered
  <1>3. QED
    BY <1>1, <1>2, ExclusionStep, SoloStep, SoundStep, AlongsideStep, LeftStep
    DEF Ordered

\* No transfer goes wrong and every cycle ends in time, or a single call is made.
Tame == \/ ~Slow /\ MaxFaults = 0 /\ Serial
        \/ MaxCalls <= 1

\* A byte changes only in the range of some thread's last call, or in the
\* erase blocks that range touches.  The hypotheses leave out the ranges whose
\* end wraps past 2^w (SumsFit) and the empty aai_write at an odd address
\* (AaiFits).  Of several calls nothing goes wrong; a single call may lose any
\* transfers, reported or not, and its cycle may end late, even after it has
\* returned (sfud.c: page256_or_1_byte_write, aai_write, sfud_erase,
\* sfud_chip_erase).
THEOREM Untouched ==
    ASSUME AaiFits, SumsFit, Tame
    PROVE  Spec => OutsideUntouched
  <1> DEFINE Within == \A a \in Cells : mem'[a] # mem[a] =>
                          \E t \in Threads : a \in Footprint(call[t])
  <1>1. Serial
    BY DEF Tame, Serial
  <1>2. ASSUME Ordered, Ordered', [Next]_vars PROVE Within
    <2>1. CASE \E t \in Threads : Call(t) \/ Driver(t)
      BY <1>2, <2>1, DriverLeavesMemory DEF Ordered
    <2>2. CASE CycleEnds
      <3>1. ~Ready /\ \A a \in Cells : mem'[a] # mem[a] => a \in work.cells
        BY <2>2 DEF CycleEnds, Finish
      <3>2. \E t \in Threads : work.cells \subseteq Footprint(call[t])
        <4>1. faults \in 0 .. MaxFaults /\ MaxFaults \in Nat
          BY <1>2, SfudAssumption DEF Ordered, Types, CallsOK
        <4>2. CASE ~Slow /\ MaxFaults = 0
          <5>1. Clean
            BY <4>1, <4>2 DEF Clean
          <5>2. QED
            BY <1>2, <3>1, <5>1 DEF Ordered, Sound, Owns, Rested
        <4>3. CASE MaxCalls <= 1
          BY <1>2, <3>1, <4>3 DEF Ordered, Left
        <4>4. QED
          BY <4>2, <4>3 DEF Tame
      <3>3. QED
        BY <3>1, <3>2
    <2>3. CASE UNCHANGED vars
      BY <2>3 DEF vars, chip
    <2>4. QED
      BY <1>2, <2>1, <2>2, <2>3 DEF Next, Rest
  <1> HIDE DEF Within
  <1>3. Ordered /\ Ordered' /\ [Next]_vars => [Within]_vars
    BY <1>2
  <1>4. QED
    BY <1>1, <1>3, OrderedInit, OrderedStep, PTL DEF Spec, OutsideUntouched, Within

\* Once every call is over and one has succeeded, the chip is not in a cycle
\* and neither its write-enable latch nor its AAI mode is left set, as long as
\* no transfer went wrong.  The chip's cycles end within the retries or there is
\* a single call, the callers take turns, no range wraps and no empty aai_write
\* starts at an odd address (sfud.c: the calls of set_write_enabled(flash,
\* false)).
THEOREM LeftIdle ==
    ASSUME AaiFits, SumsFit, Serial, ~Slow \/ MaxCalls <= 1
    PROVE  Spec => []ChipLeftIdle
  <1>1. Ordered => ChipLeftIdle
    <2> SUFFICES ASSUME Ordered, faults = MaxFaults, \A t \in Threads : stack[t] = <<>>,
                        NEW t \in Threads, answer[t] = "SUCCESS"
                 PROVE  Rested
      BY DEF ChipLeftIdle, Rested
    <2>1. Clean
      <3>1. CASE ~Slow
        BY <3>1 DEF Clean
      <3>2. CASE MaxCalls <= 1
        <4>1. \A u \in Threads : u = t \/ answer[u] = "none"
          BY <3>2 DEF Ordered, Solo, Involved
        <4>2. \A u \in Threads : ~FailedAt(u)
          BY <4>1 DEF FailedAt, Errors
        <4>3. ~deceived
          BY SfudAssumption DEF Ordered, Types, CallsOK
        <4>4. QED
          BY <3>2, <4>2, <4>3 DEF Clean, Honest
      <3>3. QED
        BY <3>1, <3>2
    <2>2. \A u \in Threads : ~OnBus(u)
      BY DEF OnBus
    <2>3. QED
      BY <2>1, <2>2 DEF Ordered, Sound
  <1>2. QED
    BY <1>1, OrderedInit, OrderedStep, PTL DEF Spec

-----------------------------------------------------------------------------
\* What a success means.

\* What FlashMemory promises, in terms of what the driver's loops leave.
Blank(c, m) == \A a \in Flash!Blocks(c) : m[a] = Erased

LEMMA WriteIsUpto ==
    ASSUME NEW c, NEW m
    PROVE  Flash!AfterWrite(c, m) = Upto(c, c.size, m)
  <1>1. \A old, new : Flash!Programmed(old, new) = And(old, new)
    BY DEF Flash!Programmed, Flash!Erased, Flash!Mixed, And, Erased, Mixed
  <1>2. \A k : Flash!Byte(c.version, k) = 100 * c.version + k
    BY DEF Flash!Byte
  <1>3. \A a \in Cells : a \in Flash!Target(c) <=> c.addr <= a /\ a < c.addr + c.size
    BY DEF Flash!Target, Flash!Cells, Cells
  <1>4. QED
    BY <1>1, <1>2, <1>3 DEF Flash!AfterWrite, Flash!Cells, Upto, Cells

LEMMA EraseIsWiped ==
    ASSUME NEW c, NEW m
    PROVE  Flash!AfterErase(c, m) = WipedUpto(c, c.size, m)
  <1>1. \A a \in Cells : a \in Flash!Target(c) <=> c.addr <= a /\ a < c.addr + c.size
    BY DEF Flash!Target, Flash!Cells, Cells
  <1>2. Flash!Target(c) \subseteq Cells
    BY DEF Flash!Target, Flash!Cells, Cells
  <1>3. \A a \in Cells : a \in Flash!Blocks(c) <=>
           \E b \in Cells : /\ c.addr <= b /\ b < c.addr + c.size
                            /\ a \div Erasers[1] = b \div Erasers[1]
    BY <1>1, <1>2 DEF Flash!Blocks, Flash!Cells, Cells
  <1>4. QED
    BY <1>3 DEF Flash!AfterErase, Flash!Erased, Flash!Cells, WipedUpto, Erased, Cells

LEMMA EraseMakesBlank ==
    ASSUME NEW c, NEW m
    PROVE  Blank(c, Flash!AfterErase(c, m))
  BY DEF Blank, Flash!AfterErase, Flash!Blocks, Flash!Erased, Erased

LEMMA BlankStays ==
    ASSUME NEW c, NEW m \in [Cells -> Int], Blank(c, m)
    PROVE  Flash!AfterErase(c, m) = m
  BY DEF Blank, Flash!AfterErase, Flash!Erased, Erased, Flash!Cells, Cells

\* The blocks of the whole chip are all of it.
LEMMA WholeChip ==
    ASSUME NEW c, c.addr = 0, c.size = ChipSize, NEW m
    PROVE  Flash!AfterErase(c, m) = [a \in Cells |-> Erased]
  <1>1. \A a \in Cells : c.addr <= a /\ a < c.addr + c.size
    BY ChipAssumption DEF Cells
  <1>2. WipedUpto(c, c.size, m) = [a \in Cells |-> Erased]
    BY <1>1 DEF WipedUpto
  <1>3. QED
    BY <1>2, EraseIsWiped

-----------------------------------------------------------------------------
\* sfud_erase_write has erased and is at its second half, in a frame of its own.
Midway(t) == /\ call[t].fn = "eraseWrite" /\ Len(stack[t]) = 1
             /\ ~(Top(t).fn = "eraseWrite" /\ Top(t).at = "enter")
             /\ Top(t).result = "SUCCESS"

\* A call that is over has done its work; sfud_erase_write in its second half
\* has erased; sfud_read at its end has the bytes.
DoneAll(t) ==
    /\ Flash!InBound(call[t])
    /\ mem = Flash!After(call[t], before[t])
    /\ call[t].fn = "read" => got[t] = Flash!Contents(call[t], before[t])
Writing(t) == /\ call[t].fn = "eraseWrite" /\ stack[t] # <<>>
              /\ Midway(t) \/ Inner(t)
HasRead(t) == stack[t] # <<>> /\ Top(t).fn = "read" /\ Top(t).at = "unlock"
Story(t) ==
    /\ Writing(t) => Blank(call[t], IF OnBus(t) THEN before[t] ELSE mem)
    /\ HasRead(t) => got[t] = Flash!Contents(call[t], before[t])
    /\ Returned(t) /\ answer[t] = "SUCCESS" => DoneAll(t)
Told == Clean => \A t \in Threads : Story(t)

LEMMA StillWriting ==
    ASSUME Types, Types', Control, Control', NEW t \in Threads, Call(t) \/ Driver(t),
           OnBus(t), OnBus(t)', Owns(Top(t), call[t]), call'[t] = call[t], Writing(t)'
    PROVE  Writing(t)
  <1>1. stack[t] # <<>> /\ call[t].fn = "eraseWrite" /\ Top(t).result = "SUCCESS"
    BY DEF OnBus, Owns, Writing
  <1>2. Len(stack[t]) = 1 \/ Len(stack[t]) = 2
    BY <1>1, TheOther DEF Types
  <1>3. CASE Len(stack[t]) = 1
    <2>1. Top(t).at # "enter"
      BY <1>3 DEF OnBus, Bus, Inner
    <2>2. QED
      BY <1>1, <1>3, <2>1 DEF Writing, Midway
  <1>4. CASE Len(stack[t]) = 2 /\ ~Inner(t)
    <2>1. Works(t)
      <3>1. ~Enter(t)
        BY <1>4 DEF OnBus, Enter, At, Bus
      <3>2. ~OddByte(t) /\ ~Lock(t) /\ ~Unlock(t)
        BY <1>4, OddByteOnBus, LockOnBus, UnlockOnBus
      <3>3. QED
        BY <3>1, <3>2, OutsideOffBus DEF Driver, Works, Outside
    <2>2. ~Inner(t)'
      BY <1>4, <2>1, WorksOnBus
    <2>3. Len(stack'[t]) = 2
      <3>1. PICK f : SetTop(t, f)
        BY <2>1, WorksAt
      <3>2. QED
        BY <1>1, <1>4, <3>1, TopChanges DEF Types
    <2>4. QED
      BY <2>2, <2>3 DEF Writing, Midway
  <1>5. QED
    BY <1>1, <1>2, <1>3, <1>4 DEF Writing


\* The bytes that sfud_read delivers are those of the memory it began with.
LEMMA ReadEnds ==
    ASSUME Types, Types', Control, Control', NEW t \in Threads, Call(t) \/ Driver(t), Clean',
           OnBus(t), Owns(Top(t), call[t]), Carries(t), HasRead(t)',
           Finished = Expected(Top(t), call[t], before[t])
    PROVE  (got[t] = Flash!Contents(call[t], before[t]))'
  <1> DEFINE h == Top(t)
             c == call[t]
             m == before[t]
  <1>1. PICK f \in Frames : Top(t)' = f /\ Owns(f, c)'
    BY DEF Carries
  <1>2. stack'[t] # <<>> /\ f.fn = "read" /\ f.at = "unlock" /\ f.result = "SUCCESS"
    BY <1>1 DEF HasRead, Owns
  <1>3. call'[t] = c /\ before'[t] = m /\ stack[t] # <<>>
    BY DEF Carries, OnBus
  <1>4. c.fn = "read"
    <2>1. Len(stack'[t]) = 1 \/ Len(stack'[t]) = 2
      <3>1. PICK s \in Seq(Frames) : s = stack'[t]
        BY DEF Types, StackOK
      <3>2. s # <<>> /\ (Len(s) <= 1 \/ Len(s) = 2)
        BY <1>2, <3>1 DEF Types, StackOK
      <3>3. Len(s) = 1 \/ Len(s) = 2
        <4>1. PICK n \in Nat : n = Len(s) /\ n # 0
          BY <3>1, <3>2, EmptySeq
        <4>2. n <= 1 \/ n = 2
          BY <3>2, <4>1
        <4>3. n = 1 \/ n = 2
          BY <4>1, <4>2
        <4>4. QED
          BY <4>1, <4>3
      <3>4. QED
        BY <3>1, <3>3
    <2>2. Len(stack'[t]) = 1 => f.fn \in Serves(c.fn)
      BY <1>1, <1>2, <1>3 DEF Control, Shape, Single
    <2>3. Len(stack'[t]) # 2
      BY <1>1, <1>2 DEF Control, Shape, Pair, UnderErase, UnderAai
    <2>4. QED
      BY <1>2, <2>1, <2>2, <2>3 DEF Serves
  <1>5. h.fn = "read" /\ Len(stack[t]) = 1 /\ h \in Frames
    <2>1. h \in Frames /\ (Len(stack[t]) = 1 \/ Len(stack[t]) = 2)
      BY <1>3, TheOther DEF Types
    <2>2. Len(stack[t]) # 2
      BY <1>3, <1>4 DEF Control, Shape, Pair, UnderErase, UnderAai
    <2>3. h.fn \in Serves(c.fn)
      BY <1>3, <2>1, <2>2 DEF Control, Shape, Single
    <2>4. QED
      BY <1>4, <2>1, <2>2, <2>3 DEF Serves
  <1>6. ~Inner(t) /\ OnBus(t)'
    BY <1>1, <1>2, <1>5 DEF Inner, OnBus, Bus, Labels
  <1>7. Works(t)
    <2>1. ~Enter(t)
      BY <1>6 DEF OnBus, Enter, At, Bus
    <2>2. ~Lock(t) /\ ~Unlock(t)
      BY <1>6, LockOnBus, UnlockOnBus
    <2>3. ~OddByte(t)
      BY <1>5 DEF OddByte, At
    <2>4. QED
      BY <2>1, <2>2, <2>3, OutsideOffBus DEF Driver, Works, Outside
  <1>8. WaitBusy(t) \/ ReadData(t)
    BY <1>5, <1>7 DEF Works, WriteEnable, WriteEnableStatus, Fill, Command, WriteDisable,
       WriteDisableStatus, OddByteDone, Abort, At, Writers
  <1>9. ~WaitBusy(t)
    <2> SUFFICES ASSUME WaitBusy(t) PROVE FALSE
      OBVIOUS
    <2>1. h.at = "busy" /\ (\/ SetTop(t, AfterCycle(h))
                            \/ SetTop(t, [h EXCEPT !.retry = @ - 1])
                            \/ SetTop(t, [h EXCEPT !.at = Exit(t), !.result = "ERR_TIMEOUT"]))
      BY DEF WaitBusy, At, Fail
    <2>2. \/ f = [h EXCEPT !.at = "data"]
          \/ f = [h EXCEPT !.retry = @ - 1]
          \/ f = [h EXCEPT !.at = Exit(t), !.result = "ERR_TIMEOUT"]
      <3>1. AfterCycle(h) = [h EXCEPT !.at = "data"]
        BY <1>5 DEF AfterCycle
      <3>2. \A g : SetTop(t, g) => f = g
        BY <1>1, <1>3, TopChanges DEF Types
      <3>3. QED
        BY <2>1, <3>1, <3>2
    <2> HIDE DEF h
    <2>3. QED
      BY <1>2, <1>5, <2>1, <2>2 DEF Frames
  <1>10. PICK x \in Transfers :
            /\ Spend(x)
            /\ got' = [got EXCEPT ![t] =
                          [k \in 1 .. c.size |->
                             CASE x.lost -> 0
                               [] ~x.lost /\ (~Ready \/ aai # NotAai) -> NoAnswer
                               [] OTHER -> mem[c.addr + k - 1]]]
            /\ IF x.ok THEN Goto(t, "unlock") ELSE Fail(t, "unlock", "ERR_READ")
    BY <1>8, <1>9 DEF ReadData
  <1>11. ~x.lost
    <2>1. x.ok
      BY <1>3, <1>10, NoFailure DEF Errors
    <2>2. QED
      BY <1>10, <2>1, CleanTransfer
  <1>12. Rested
    BY <1>5, <1>8, <1>9 DEF Owns, Latches, Armed, ReadData, At
  <1>13. got'[t] = [k \in 1 .. c.size |-> mem[c.addr + k - 1]]
    BY <1>10, <1>11, <1>12 DEF Rested, Types, CallsOK
  <1>14. mem = m
    BY <1>5, <1>12, ReadyIsFinished DEF Types, Rested, Expected
  <1>15. QED
    BY <1>3, <1>13, <1>14 DEF Flash!Contents

\* While a thread keeps the bus.
LEMMA HolderTells ==
    ASSUME Types, Types', Control, Control', NEW t \in Threads, Call(t) \/ Driver(t), Clean',
           OnBus(t), OnBus(t)', Owns(Top(t), call[t]), Story(t),
           Finished = Expected(Top(t), call[t], before[t])
    PROVE  Story(t)'
  <1>1. Carries(t)
    BY HolderCarries
  <1>2. call'[t] = call[t] /\ before'[t] = before[t]
    BY <1>1 DEF Carries
  <1>3. Writing(t)' => Blank(call[t], before[t])'
    <2>1. Writing(t)' => Blank(call[t], before[t])
      BY <1>2, StillWriting DEF Story
    <2>2. QED
      BY <1>2, <2>1 DEF Blank
  <1>4. HasRead(t)' => (got[t] = Flash!Contents(call[t], before[t]))'
    BY <1>1, ReadEnds
  <1>5. ~Returned(t)'
    BY DEF Returned, OnBus
  <1>6. QED
    BY <1>3, <1>4, <1>5 DEF Story

LEMMA LockTells ==
    ASSUME Types, Types', Control, Control', NEW t \in Threads, Lock(t), ~OnBus(t), Story(t)
    PROVE  Story(t)'
  <1>1. stack[t] # <<>> /\ Top(t).at = "lock" /\ Top(t).result = "SUCCESS"
        /\ UNCHANGED << chip, call >>
    BY LockGoes
  <1>2. OnBus(t)' /\ ~Inner(t) /\ ~Inner(t)'
    BY LockOnBus
  <1>3. before'[t] = mem
    <2>1. ~OddBytePage(t)
      BY <1>1, <1>2, InnerPage
    <2>2. QED
      BY <2>1 DEF Lock, Types, CallsOK
  <1>4. PICK f : Top(t)' = f /\ f.at \in {"wren", "wrdi", "head", "busy"}
    BY LockGoes
  <1>5. Writing(t)' => Writing(t)
    <2>1. Len(stack'[t]) = Len(stack[t])
      BY <1>1, TopChanges DEF Lock, Goto, Types
    <2>2. QED
      BY <1>1, <1>2, <2>1 DEF Writing, Midway
  <1>6. ~HasRead(t)' /\ ~Returned(t)'
    BY <1>2, <1>4 DEF HasRead, Returned, OnBus
  <1>7. Writing(t)' => Blank(call[t], before[t])'
    <2>1. Writing(t)' => Blank(call[t], mem)
      BY <1>5 DEF Story
    <2>2. QED
      BY <1>1, <1>3, <2>1 DEF Blank
  <1>8. QED
    BY <1>2, <1>6, <1>7 DEF Story

\* What a call has left in the memory when it gives up the bus.
LEMMA LeftBehind ==
    ASSUME Types, Control, NEW t \in Threads, stack[t] # <<>>, Top(t).at = "unlock", ~Inner(t),
           Owns(Top(t), call[t]), Finished = Expected(Top(t), call[t], before[t])
    PROVE  /\ Top(t).fn = "read" => mem = before[t]
           /\ Top(t).fn \in {"erase", "chipErase"} /\ call[t].fn # "chipErase" =>
                 mem = Flash!AfterErase(call[t], before[t])
           /\ Top(t).fn = "chipErase" => mem = [a \in Cells |-> Erased]
           /\ Top(t).fn \in {"page", "aai"} => mem = Flash!AfterWrite(call[t], before[t])
  <1> DEFINE h == Top(t)
             c == call[t]
             m == before[t]
  <1>1. h \in Frames /\ Main(h, c)
    <2>1. h \in Frames /\ (Len(stack[t]) = 1 \/ Len(stack[t]) = 2)
      BY TheOther DEF Types
    <2>2. Main(h, c)
      BY <2>1 DEF Control, Shape, Single, Pair, UnderErase, UnderAai, Inner
    <2>3. QED
      BY <2>1, <2>2
  <1>2. mem = Expected(h, c, m)
    <2>1. Ready
      BY DEF Owns, Latches, Armed, Rested
    <2>2. QED
      BY <2>1, ReadyIsFinished DEF Types
  <1>3. Part(h) = c.size
    BY <1>1 DEF Part, Main
  <1>4. h.fn = "read" => mem = m
    BY <1>2 DEF Expected
  <1>5. h.fn = "chipErase" => mem = [a \in Cells |-> Erased]
    BY <1>2 DEF Expected, Unwiped
  <1>6. h.fn = "erase" => mem = Flash!AfterErase(c, m)
    BY <1>2, <1>3, EraseIsWiped DEF Expected
  <1>7. h.fn = "chipErase" /\ c.fn # "chipErase" => mem = Flash!AfterErase(c, m)
    <2>1. h.fn = "chipErase" /\ c.fn # "chipErase" => c.addr = 0 /\ c.size = ChipSize
      BY DEF Control, Shape, Placed
    <2>2. QED
      BY <1>5, <2>1, WholeChip
  <1>8. h.fn \in {"page", "aai"} => mem = Flash!AfterWrite(c, m)
    BY <1>2, <1>3, WriteIsUpto DEF Expected
  <1>9. QED
    BY <1>4, <1>5, <1>6, <1>7, <1>8

LEMMA UnlockTells ==
    ASSUME Types, Types', Control, Control', NEW t \in Threads, Unlock(t), ~Inner(t),
           Owns(Top(t), call[t]), Finished = Expected(Top(t), call[t], before[t]), Story(t)
    PROVE  Story(t)'
  <1> DEFINE h == Top(t)
             c == call[t]
             m == before[t]
  <1>1. /\ stack[t] # <<>> /\ h.at = "unlock" /\ OnBus(t) /\ ~OnBus(t)' /\ ~Inner(t)'
        /\ h.result = "SUCCESS" /\ h \in Frames
    BY UnlockOnBus, TheOther DEF Owns, Types
  <1>2. UNCHANGED << chip, call, before, got >> /\ Return(t, "SUCCESS")
    BY <1>1 DEF Unlock, ghost
  <1>3. Placed(h, c)
    BY <1>1 DEF Control, Shape
  <1>4. InRange(c) /\ h.fn \in {"read", "page", "aai", "erase", "chipErase"}
    BY <1>1, <1>3 DEF Placed, Ways, Frames, Commands
  <1>5. m \in [Cells -> Int] /\ mem' = mem
    BY <1>2 DEF Types, CallsOK, chip
  <1>6. CASE Len(stack[t]) = 1
    <2>1. stack'[t] = <<>> /\ answer'[t] = "SUCCESS"
      BY <1>2, <1>6 DEF Return, Types, StackOK, CallsOK
    <2>2. h.fn \in Serves(c.fn)
      BY <1>1, <1>6 DEF Control, Shape, Single
    <2>3. c.fn \in Commands
      BY DEF Types, CallsOK
    <2>4. mem = Flash!After(c, m)
      <3>1. CASE c.fn = "read"
        BY <1>1, <2>2, <3>1, LeftBehind DEF Serves, Flash!After
      <3>2. CASE c.fn = "chipErase"
        BY <1>1, <2>2, <3>2, LeftBehind DEF Serves, Flash!After, Flash!Cells, Cells, Flash!Erased, Erased
      <3>3. CASE c.fn = "erase"
        BY <1>1, <2>2, <3>3, LeftBehind DEF Serves, Flash!After
      <3>4. CASE c.fn = "write"
        BY <1>1, <1>4, <2>2, <3>4, LeftBehind DEF Serves, Flash!After
      <3>5. CASE c.fn = "eraseWrite"
        <4>1. h.fn \in {"page", "aai"}
          BY <1>4, <2>2, <3>5 DEF Serves
        <4>2. Writing(t)
          BY <1>1, <1>6, <3>5 DEF Writing, Midway
        <4>3. Blank(c, m)
          BY <1>1, <4>2 DEF Story
        <4>4. mem = Flash!AfterWrite(c, m)
          BY <1>1, <4>1, LeftBehind
        <4>5. Flash!AfterErase(c, m) = m
          BY <1>5, <4>3, BlankStays
        <4>6. QED
          BY <3>5, <4>4, <4>5 DEF Flash!After
      <3>6. QED
        BY <2>3, <3>1, <3>2, <3>3, <3>4, <3>5 DEF Commands
    <2>5. c.fn = "read" => got[t] = Flash!Contents(c, m)
      BY <1>1, <2>2 DEF Story, HasRead, Serves
    <2>6. Flash!InBound(c)
      BY <1>4 DEF InRange, Flash!InBound
    <2>7. DoneAll(t)'
      BY <1>2, <1>5, <2>4, <2>5, <2>6 DEF DoneAll
    <2>8. QED
      BY <2>1, <2>7 DEF Story, Writing, HasRead
  <1>7. CASE Len(stack[t]) = 2
    <2>1. UnderErase(h, stack[t][2], c)
      BY <1>1, <1>7 DEF Control, Shape, Pair, UnderAai, Inner
    <2>2. h.fn \in {"erase", "chipErase"} /\ c.fn = "eraseWrite"
      BY <2>1 DEF UnderErase
    <2>3. stack[t][2] \in Frames /\ stack[t][2].fn = "eraseWrite"
      BY <1>1, <1>7, <2>1, TheOther DEF UnderErase, Types
    <2>4. Top(t)' = [stack[t][2] EXCEPT !.result = "SUCCESS"] /\ stack'[t] # <<>>
      <3>1. PICK r \in Results : r = "SUCCESS"
        BY DEF Results
      <3>2. Return(t, r) /\ StackOK
        BY <1>2, <3>1 DEF Types
      <3>3. \/ Len(stack[t]) = 1
            \/ stack'[t] # <<>> /\ Top(t)' = [stack[t][2] EXCEPT !.result = r]
        BY <1>1, <3>2, ReturnsTo
      <3>4. QED
        BY <1>7, <3>1, <3>3
    <2>5. Top(t)'.fn = "eraseWrite"
      <3>1. PICK g \in Frames : g = stack[t][2]
        BY <2>3
      <3>2. [g EXCEPT !.result = "SUCCESS"].fn = g.fn
        BY <3>1 DEF Frames
      <3>3. QED
        BY <2>3, <2>4, <3>1, <3>2
    <2>6. Blank(c, mem)
      <3>1. mem = Flash!AfterErase(c, m)
        BY <1>1, <2>2, LeftBehind
      <3>2. QED
        BY <3>1, EraseMakesBlank
    <2>7. Blank(call[t], mem)'
      BY <1>2, <1>5, <2>6 DEF Blank
    <2>8. QED
      BY <1>1, <2>4, <2>5, <2>7 DEF Story, HasRead, Returned
  <1>8. QED
    BY <1>1, <1>6, <1>7, TheOther DEF Types

\* sfud_write and sfud_erase_write choose what comes next.
LEMMA ChoiceTells ==
    ASSUME Types, Types', Control, Control', WriteModes \subseteq {"page", "aai"},
           NEW t \in Threads, sfud_write(t) \/ sfud_erase_write(t), Story(t), ~OnBus(t)'
    PROVE  /\ Writing(t)' => Writing(t)
           /\ ~(Returned(t)' /\ answer'[t] = "SUCCESS")
  <1> DEFINE h == Top(t)
  <1>1. stack[t] # <<>> /\ h \in Frames /\ (Len(stack[t]) = 1 \/ Len(stack[t]) = 2) /\ UNCHANGED call
    BY TheOther DEF sfud_write, sfud_erase_write, At, Types, ghost
  <1>2. Len(stack[t]) = 1
    BY <1>1 DEF sfud_write, sfud_erase_write, At, Control, Shape, Pair, UnderErase, UnderAai
  <1>3. ~Inner(t)'
    BY InnerIsPage, <1>2 DEF OnBus, Inner
  <1>4. ASSUME NEW f, SetTop(t, f), f.result = h.result,
               h.fn = "write" \/ (h.at = "erased" /\ h.result = "SUCCESS")
        PROVE  (Writing(t)' => Writing(t)) /\ ~Returned(t)'
    <2>1. stack'[t] # <<>> /\ Top(t)' = f
      BY <1>1, <1>4, TopChanges DEF Types
    <2>2. Writing(t)' => Midway(t)
      BY <1>1, <1>2, <1>3, <1>4, <2>1 DEF Writing, Midway
    <2>3. QED
      BY <1>1, <2>1, <2>2 DEF Writing, Returned
  <1>5. CASE sfud_write(t)
    <2>1. SetTop(t, [h EXCEPT !.fn = write_mode]) /\ h.fn = "write"
      BY <1>5 DEF sfud_write, At, Types, CallsOK
    <2>2. [h EXCEPT !.fn = write_mode].result = h.result
      BY <1>1 DEF Frames
    <2>3. QED
      BY <1>4, <2>1, <2>2
  <1>6. CASE sfud_erase_write(t) /\ h.at = "enter"
    <2>1. PICK fn \in Commands, a \in Nat, n \in 0 .. SizeMod - 1, k \in Nat, g \in Nat \ {0} :
             fn = "erase" /\ a = h.addr /\ n = h.size /\ k = 0 /\ g = PageSize
      BY <1>1, ChipAssumption DEF Frames, Commands
    <2>2. Push(t, Frame(fn, "enter", a, n, k, g), "erased")
      BY <1>6, <2>1 DEF sfud_erase_write, At
    <2>3. Frame(fn, "enter", a, n, k, g) \in Frames
      BY NewFrame
    <2>4. PICK l \in Labels : l = "erased"
      BY DEF Labels
    <2>5. Len(stack'[t]) = 2 /\ stack'[t] # <<>>
      BY <1>1, <1>2, <2>2, <2>3, <2>4, Pushed DEF Types
    <2>6. QED
      BY <1>3, <2>5 DEF Writing, Midway, Returned
  <1>7. CASE sfud_erase_write(t) /\ h.at = "erased" /\ h.result = "SUCCESS"
    <2>1. SetTop(t, [h EXCEPT !.fn = "write", !.at = "enter"])
      BY <1>7 DEF sfud_erase_write, At
    <2>2. [h EXCEPT !.fn = "write", !.at = "enter"].result = h.result
      BY <1>1 DEF Frames
    <2>3. QED
      BY <1>4, <1>7, <2>1, <2>2
  <1>8. CASE sfud_erase_write(t) /\ h.at = "erased" /\ h.result # "SUCCESS"
    <2>1. Return(t, h.result) /\ h.result \in Results
      BY <1>1, <1>8 DEF sfud_erase_write, At, Frames
    <2>2. stack'[t] = <<>> /\ answer'[t] # "SUCCESS"
      BY <1>2, <1>8, <2>1 DEF Return, Types, StackOK, CallsOK
    <2>3. QED
      BY <2>2 DEF Writing
  <1>9. QED
    BY <1>5, <1>6, <1>7, <1>8 DEF sfud_erase_write, At

\* The check of the bound.
LEMMA EnterTells ==
    ASSUME Types, Types', Control, Control', NEW t \in Threads, Enter(t), ~OnBus(t), ~OnBus(t)'
    PROVE  /\ Writing(t)' => Writing(t)
           /\ ~(Returned(t)' /\ answer'[t] = "SUCCESS")
  <1> DEFINE h == Top(t)
  <1>1. /\ stack[t] # <<>> /\ h \in Frames /\ (Len(stack[t]) = 1 \/ Len(stack[t]) = 2)
        /\ UNCHANGED call /\ h.fn \in Writers \cup {"read"}
    BY TheOther DEF Enter, At, Types, ghost
  <1>2. ~Inner(t) /\ ~Inner(t)'
    <2>1. ~Inner(t)
      BY <1>1 DEF OnBus
    <2>2. QED
      BY <2>1, EnterOnBus
  <1>3. PICK r \in Results : r = "ERR_ADDR_OUT_OF_BOUND"
    BY DEF Results
  <1>4. CASE Return(t, r)
    <2>1. \/ stack'[t] = <<>> /\ answer' = [answer EXCEPT ![t] = r]
          \/ stack'[t] # <<>> /\ stack[t][2] \in Frames /\ Top(t)' = [stack[t][2] EXCEPT !.result = r]
      <3>1. stack[t] # <<>> /\ StackOK
        BY <1>1 DEF Types
      <3> HIDE DEF h
      <3>2. QED
        BY <1>4, <3>1, ReturnsTo
    <2>2. CASE stack'[t] = <<>> /\ answer' = [answer EXCEPT ![t] = r]
      BY <1>3, <2>2 DEF Writing, Types, CallsOK
    <2>3. CASE stack'[t] # <<>> /\ stack[t][2] \in Frames /\ Top(t)' = [stack[t][2] EXCEPT !.result = r]
      <3>1. PICK g \in Frames : g = stack[t][2]
        BY <2>3
      <3>2. [g EXCEPT !.result = r].result = r
        BY <3>1 DEF Frames
      <3>3. Top(t)'.result # "SUCCESS"
        BY <1>3, <2>3, <3>1, <3>2
      <3>4. QED
        BY <1>2, <2>3, <3>3 DEF Writing, Midway, Returned
    <2>4. QED
      BY <2>1, <2>2, <2>3
  <1>5. CASE ~Return(t, r)
    <2>1. PICK f : /\ f = [h EXCEPT !.at = "lock",
                                    !.fn = IF @ = "erase" /\ h.addr = 0 /\ h.size = ChipSize
                                           THEN "chipErase" ELSE @]
                   /\ SetTop(t, f)
      BY <1>3, <1>5 DEF Enter
    <2>2. f.result = h.result
      <3> HIDE DEF h
      <3>1. QED
        BY <1>1, <2>1 DEF Frames
    <2>3. stack'[t] # <<>> /\ Len(stack'[t]) = Len(stack[t]) /\ Top(t)' = f
      BY <1>1, <2>1, TopChanges DEF Types
    <2>4. Writing(t)' => Midway(t)
      BY <1>1, <1>2, <2>2, <2>3 DEF Writing, Midway, Writers
    <2>5. QED
      BY <1>1, <2>3, <2>4 DEF Writing, Returned
  <1>6. QED
    BY <1>4, <1>5

\* Off the bus nothing is done.
LEMMA OffBusTells ==
    ASSUME Types, Types', Control, Control', WriteModes \subseteq {"page", "aai"},
           NEW t \in Threads, Call(t) \/ Driver(t), ~OnBus(t), ~OnBus(t)', Story(t)
    PROVE  Story(t)'
  <1>1. Outside(t) \/ Enter(t)
    BY WorksOnBus, OddByteOnBus, LockOnBus, UnlockOnBus DEF Driver, Works, Outside
  <1>2. ~HasRead(t)'
    BY DEF HasRead, OnBus, Bus, Labels
  <1>3. CASE Call(t)
    <2>1. PICK r \in Requests[t] :
             /\ call' = [call EXCEPT ![t] = [fn |-> r[1], addr |-> r[2], size |-> r[3],
                                             version |-> calls + 1]]
             /\ stack' = [stack EXCEPT ![t] = << Frame(r[1], "enter", r[2], r[3], 0, PageSize) >>]
      BY <1>3 DEF Call
    <2>2. call'[t].fn = r[1] /\ stack'[t] = << Frame(r[1], "enter", r[2], r[3], 0, PageSize) >>
      BY <2>1 DEF Types, CallsOK, StackOK
    <2>3. Top(t)'.fn = r[1] /\ Top(t)'.at = "enter" /\ stack'[t] # <<>> /\ Len(stack'[t]) = 1
      BY <2>2 DEF Top, Frame
    <2>4. ~Writing(t)' /\ ~Returned(t)'
      BY <2>2, <2>3 DEF Writing, Midway, Inner, Returned
    <2>5. QED
      BY <1>2, <2>4 DEF Story
  <1>4. CASE ~Call(t)
    <2>1. /\ Writing(t)' => Writing(t)
          /\ ~(Returned(t)' /\ answer'[t] = "SUCCESS")
      BY <1>1, <1>4, ChoiceTells, EnterTells DEF Outside
    <2>2. call' = call /\ mem' = mem
      BY <1>1, <1>4 DEF Outside, sfud_write, sfud_erase_write, Enter, ghost, chip
    <2>3. Writing(t)' => Blank(call[t], mem)'
      BY <2>1, <2>2 DEF Story, Blank
    <2>4. QED
      BY <1>2, <2>1, <2>3 DEF Story
  <1>5. QED
    BY <1>3, <1>4

LEMMA ToldStep ==
    ASSUME Types, Types', Control, Control', Alone, Divides, WriteModes \subseteq {"page", "aai"},
           Exclusion, Solo, Sound, Kept, Told, [Next]_vars
    PROVE  Told'
  <1> SUFFICES ASSUME Clean', NEW t \in Threads
               PROVE  Story(t)'
    BY DEF Told
  <1>1. Clean
    BY CleanBefore
  <1>2. /\ ~OnBus(t) => Rested
        /\ OnBus(t) => Owns(Top(t), call[t]) /\ Finished = Expected(Top(t), call[t], before[t])
        /\ Story(t)
    BY <1>1 DEF Sound, Kept, Told, Alone
  <1>3. CASE Call(t) \/ Driver(t)
    <2>1. CASE OnBus(t) /\ OnBus(t)'
      BY <1>2, <1>3, <2>1, HolderTells
    <2>2. CASE OnBus(t) /\ ~OnBus(t)'
      <3>1. Unlock(t) /\ ~Inner(t)
        BY <1>3, <2>2, WorksOnBus, OddByteOnBus, LockOnBus, EnterOnBus, UnlockOnBus, OutsideOffBus
        DEF Driver, Works, Outside
      <3>2. QED
        BY <1>2, <2>2, <3>1, UnlockTells
    <2>3. CASE ~OnBus(t) /\ OnBus(t)'
      <3>1. Lock(t)
        BY <1>3, <2>3, WorksOnBus, OddByteOnBus, UnlockOnBus, EnterOnBus, OutsideOffBus
        DEF Driver, Works, Outside
      <3>2. QED
        BY <1>2, <2>3, <3>1, LockTells
    <2>4. CASE ~OnBus(t) /\ ~OnBus(t)'
      BY <1>2, <1>3, <2>4, OffBusTells
    <2>5. QED
      BY <2>1, <2>2, <2>3, <2>4
  <1>4. CASE CycleEnds
    <2>1. UNCHANGED << stack, call, before, answer, got >> /\ ~Ready
      BY <1>4 DEF CycleEnds, Finish, ghost
    <2>2. OnBus(t) /\ OnBus(t)'
      BY <1>2, <2>1, OtherBus DEF Rested
    <2>3. Top(t)' = Top(t) /\ stack[t] # <<>>
      BY <2>1, <2>2 DEF Top, OnBus
    <2>4. Writing(t)' => Writing(t)
      BY <2>1, <2>3 DEF Writing, Midway, Inner
    <2>5. HasRead(t)' => HasRead(t)
      BY <2>1, <2>3 DEF HasRead
    <2>6. Writing(t)' => Blank(call[t], before[t])'
      BY <1>2, <2>1, <2>2, <2>4 DEF Story, Blank
    <2>7. HasRead(t)' => (got[t] = Flash!Contents(call[t], before[t]))'
      BY <1>2, <2>1, <2>5 DEF Story, Flash!Contents
    <2>8. ~Returned(t)'
      BY <2>1, <2>3 DEF Returned
    <2>9. QED
      BY <2>2, <2>6, <2>7, <2>8 DEF Story
  <1>5. CASE UNCHANGED vars
    <2>1. UNCHANGED << stack, call, before, answer, got, mem >>
      BY <1>5 DEF vars, ghost, port, chip
    <2>2. (OnBus(t)' <=> OnBus(t)) /\ Top(t)' = Top(t)
      BY <2>1, OtherBus
    <2>3. (Writing(t)' => Writing(t)) /\ (HasRead(t)' => HasRead(t))
      BY <2>1, <2>2 DEF Writing, Midway, Inner, HasRead
    <2>4. DoneAll(t)' <=> DoneAll(t)
      BY <2>1 DEF DoneAll
    <2>5. QED
      BY <1>2, <2>1, <2>2, <2>3, <2>4 DEF Story, Blank, Returned, Flash!Contents
  <1>6. QED
    BY <1>3, <1>4, <1>5 DEF Next, Rest, Alone

LEMMA ToldInit == Init => Told
  <1> SUFFICES ASSUME Init, NEW t \in Threads PROVE Story(t)
    BY DEF Told
  <1>1. stack[t] = <<>> /\ answer[t] = "none"
    BY DEF Init
  <1>2. QED
    BY <1>1 DEF Story, Writing, HasRead, Returned

\* A call that answers success has erased the blocks of its range, programmed
\* each of its bytes at its address, done both in turn, or read what was there
\* (sfud.c: sfud_read, sfud_erase, sfud_chip_erase, sfud_write,
\* sfud_erase_write), unless a transfer was lost in silence.  It is the flash's
\* only user and either its only call, in which any transfers may fail as long
\* as the port says so, or one of many of which none goes wrong (Tame).  The
\* chip has a write mode in which sfud_write writes, the smallest eraser
\* divides the others, no range wraps (SumsFit) and no empty aai_write starts
\* at an odd address (AaiFits).
THEOREM SuccessKept ==
    ASSUME Alone, AaiFits, SumsFit, Tame, Divides, WriteModes \subseteq {"page", "aai"}
    PROVE  Spec => []SuccessMeansDone
  <1>1. Serial
    BY DEF Serial
  <1>2. Ordered /\ Told => SuccessMeansDone
    <2> SUFFICES ASSUME Ordered, Told, NEW t \in Threads, Returned(t), answer[t] = "SUCCESS",
                        ~deceived
                 PROVE  DoneAll(t)
      BY DEF SuccessMeansDone, DoneAll
    <2>1. faults \in 0 .. MaxFaults /\ MaxFaults \in Nat
      BY SfudAssumption DEF Ordered, Types, CallsOK
    <2>2. \A u \in Threads : ~FailedAt(u)
      BY DEF Alone, FailedAt, Returned, Errors
    <2>3. Clean
      BY <2>1, <2>2 DEF Clean, Tame, Honest
    <2>4. QED
      BY <2>3 DEF Told, Story
  <1>3. Init => Ordered /\ Told
    BY OrderedInit, ToldInit
  <1>4. Ordered /\ Told /\ [Next]_vars => Ordered' /\ Told'
    <2> SUFFICES ASSUME Ordered, Told, [Next]_vars PROVE Ordered' /\ Told'
      OBVIOUS
    <2>1. Ordered'
      BY <1>1, OrderedStep
    <2>2. Told'
      BY <2>1, ToldStep DEF Ordered
    <2>3. QED
      BY <2>1, <2>2
  <1>5. QED
    BY <1>2, <1>3, <1>4, PTL DEF Spec

-----------------------------------------------------------------------------
\* Linearization: the driver with a lock, or a single user, implements FlashMemory.

\* What a thread is in the eyes of FlashMemory, and what it has read.
Now(t) == IF stack[t] = <<>> THEN "idle" ELSE IF Writing(t) THEN "erased" ELSE "called"
Given(t) == IF stack[t] = <<>> /\ answer[t] = "SUCCESS" /\ call[t].fn = "read" THEN got[t] ELSE <<>>
Lawful == Types /\ Control /\ Exclusion /\ Solo

LEMMA HalfIsWriting ==
    Lawful => \A t \in Threads : stack[t] # <<>> => (HalfDone(t) <=> Writing(t))
  <1> SUFFICES ASSUME Lawful, NEW t \in Threads, stack[t] # <<>>
               PROVE  HalfDone(t) <=> Writing(t)
    OBVIOUS
  <1>1. Inner(t) <=> OddBytePage(t)
    BY InnerPage DEF Lawful
  <1>2. QED
    BY <1>1 DEF HalfDone, Writing, Midway

\* The memory as its users see it: what the thread on the bus began with.
LEMMA SettledIs ==
    Serial => (Lawful => /\ \A t \in Threads : OnBus(t) => Settled = before[t]
                         /\ (\A t \in Threads : ~OnBus(t)) => Settled = mem)
  <1> SUFFICES ASSUME Serial, Lawful
               PROVE  /\ \A t \in Threads : OnBus(t) => Settled = before[t]
                      /\ (\A t \in Threads : ~OnBus(t)) => Settled = mem
    OBVIOUS
  <1> DEFINE holders == {t \in Threads : HasBus(t)}
             h == CHOOSE t \in holders : TRUE
  <1>1. ASSUME NEW t \in Threads PROVE HasBus(t) <=> OnBus(t)
    <2>1. CASE stack[t] # <<>>
      <3>1. Top(t).at \in Labels
        BY <2>1, TheOther DEF Lawful, Types, Frames
      <3>2. Inner(t) <=> OddBytePage(t)
        BY <2>1, InnerPage DEF Lawful
      <3>3. QED
        BY <2>1, <3>1, <3>2 DEF HasBus, OnBus, Bus
    <2>2. CASE stack[t] = <<>>
      BY <2>2 DEF HasBus, OnBus
    <2>3. QED
      BY <2>1, <2>2
  <1>2. Settled = IF holders = {} THEN mem ELSE before[h]
    BY DEF Settled
  <1>3. holders # {} => h \in holders
    OBVIOUS
  <1> HIDE DEF h
  <1>4. ASSUME NEW t \in Threads, OnBus(t) PROVE Settled = before[t]
    <2>1. h \in Threads /\ OnBus(h) /\ holders # {}
      BY <1>1, <1>3, <1>4
    <2>2. h = t
      BY <1>4, <2>1, OneOnBus DEF Lawful
    <2>3. QED
      BY <1>2, <2>1, <2>2
  <1>5. (\A t \in Threads : ~OnBus(t)) => Settled = mem
    BY <1>1, <1>2
  <1>6. QED
    BY <1>4, <1>5

LEMMA SettledNext ==
    ASSUME Serial
    PROVE  Lawful' => (/\ \A t \in Threads : OnBus(t) => Settled = before[t]
                       /\ (\A t \in Threads : ~OnBus(t)) => Settled = mem)'
  BY SettledIs, PTL

\* Who else is on the bus stays there.
LEMMA OthersOnBus ==
    ASSUME Lawful, Lawful', NEW t \in Threads, Call(t) \/ Driver(t), NEW u \in Threads, u # t
    PROVE  OnBus(u)' <=> OnBus(u)
  BY OthersStay DEF Lawful, OnBus, Inner, Top

LEMMA Seen ==
    Lawful => /\ Phase = [t \in Threads |-> Now(t)]
              /\ Delivered = [t \in Threads |-> Given(t)]
  <1>1. Lawful => \A t \in Threads : stack[t] # <<>> => (HalfDone(t) <=> Writing(t))
    BY HalfIsWriting
  <1>2. QED
    BY <1>1 DEF Phase, Now, Delivered, Given

LEMMA SeenNext ==
    Lawful' => (/\ Phase = [t \in Threads |-> Now(t)]
                /\ Delivered = [t \in Threads |-> Given(t)])'
  BY Seen, PTL

\* A step of one thread shows in nobody else.
LEMMA OthersSeen ==
    ASSUME Types, Types', Control, Control', NEW t \in Threads, Call(t) \/ Driver(t),
           NEW u \in Threads, u # t
    PROVE  Now(u)' = Now(u) /\ Given(u)' = Given(u)
  <1>1. stack'[u] = stack[u] /\ answer'[u] = answer[u] /\ call'[u] = call[u]
    BY OthersStay
  <1>2. Writing(u)' <=> Writing(u)
    BY <1>1 DEF Writing, Midway, Inner, Top
  <1>3. got'[u] = got[u]
    <2>1. CASE ReadData(t)
      BY <2>1 DEF ReadData, Types, CallsOK
    <2>2. CASE UNCHANGED got
      BY <2>2
    <2>3. QED
      BY <2>1, <2>2 DEF Driver, Call, sfud_write, sfud_erase_write, Enter, Lock, Unlock, WriteEnable,
         WriteEnableStatus, Fill, Command, WaitBusy, WriteDisable, WriteDisableStatus, OddByte,
         OddByteDone, Abort
  <1>4. QED
    BY <1>1, <1>2, <1>3 DEF Now, Given

LEMMA SeenChange ==
    ASSUME Lawful, Lawful', NEW t \in Threads, Call(t) \/ Driver(t),
           NEW p, p = Now(t)', NEW d, d = Given(t)'
    PROVE  /\ Phase[t] = Now(t) /\ Delivered[t] = Given(t)
           /\ Phase' = [Phase EXCEPT ![t] = p]
           /\ Delivered' = [Delivered EXCEPT ![t] = d]
  <1>1. Phase = [u \in Threads |-> Now(u)] /\ Delivered = [u \in Threads |-> Given(u)]
    BY Seen
  <1>2. Phase' = [u \in Threads |-> Now(u)'] /\ Delivered' = [u \in Threads |-> Given(u)']
    BY SeenNext
  <1>3. \A u \in Threads : u # t => Now(u)' = Now(u) /\ Given(u)' = Given(u)
    BY OthersSeen DEF Lawful
  <1>4. QED
    BY <1>1, <1>2, <1>3

LEMMA Unseen ==
    ASSUME Lawful, Lawful', NEW t \in Threads, Call(t) \/ Driver(t),
           Now(t)' = Now(t), Given(t)' = Given(t), UNCHANGED << answer, call, Settled >>
    PROVE  UNCHANGED Flash!flash
  <1>1. PICK p : p = Now(t)'
    OBVIOUS
  <1>2. PICK d : d = Given(t)'
    OBVIOUS
  <1>3. /\ Phase[t] = p /\ Delivered[t] = d
        /\ Phase' = [Phase EXCEPT ![t] = p]
        /\ Delivered' = [Delivered EXCEPT ![t] = d]
    BY <1>1, <1>2, SeenChange
  <1>4. Phase' = Phase /\ Delivered' = Delivered
    BY <1>3 DEF Phase, Delivered
  <1>5. QED
    BY <1>4 DEF Flash!flash

\* Nobody else's memory is in the way of a step off the bus.
LEMMA SettledOff ==
    ASSUME Serial, Lawful, Lawful', NEW t \in Threads, Call(t) \/ Driver(t), ~OnBus(t), ~OnBus(t)'
    PROVE  Settled' = Settled
  <1>1. Outside(t) \/ Enter(t)
    BY WorksOnBus, OddByteOnBus, LockOnBus, UnlockOnBus DEF Driver, Works, Outside, Lawful
  <1>2. UNCHANGED << mem, before >>
    BY <1>1 DEF Outside, Call, sfud_write, sfud_erase_write, Enter, ghost, chip
  <1>3. \A u \in Threads : OnBus(u)' <=> OnBus(u)
    BY OthersOnBus
  <1>4. QED
    BY <1>2, <1>3, SettledIs, SettledNext

\* What a thread's next answer rests on: sfud_erase_write writes in the chip's
\* bounds, its erase fails at them only, and sfud_read has the bytes at its end.
OverBound(t) == /\ stack[t] # <<>> /\ Len(stack[t]) = 1
                /\ Top(t).fn = "eraseWrite" /\ Top(t).at = "erased" /\ Top(t).result # "SUCCESS"
Due(t) ==
    /\ Writing(t) => InRange(call[t])
    /\ OverBound(t) => Top(t).result = "ERR_ADDR_OUT_OF_BOUND" /\ ~InRange(call[t])
    /\ HasRead(t) => got[t] = Flash!Contents(call[t], before[t])

LEMMA CallMaps ==
    ASSUME Serial, Lawful, Lawful', NEW t \in Threads, Call(t)
    PROVE  Flash!Call(t) /\ Due(t)'
  <1>1. PICK r \in Requests[t] :
           /\ call' = [call EXCEPT ![t] = [fn |-> r[1], addr |-> r[2], size |-> r[3],
                                           version |-> calls + 1]]
           /\ stack' = [stack EXCEPT ![t] = << Frame(r[1], "enter", r[2], r[3], 0, PageSize) >>]
    BY DEF Call
  <1>2. call'[t].fn = r[1] /\ stack'[t] = << Frame(r[1], "enter", r[2], r[3], 0, PageSize) >>
    BY <1>1 DEF Lawful, Types, CallsOK, StackOK
  <1>3. Top(t)'.fn = r[1] /\ Top(t)'.at = "enter" /\ stack'[t] # <<>> /\ Len(stack'[t]) = 1
    BY <1>2 DEF Top, Frame
  <1>4. ~Writing(t)' /\ ~HasRead(t)' /\ ~OverBound(t)'
    BY <1>2, <1>3 DEF Writing, Midway, Inner, HasRead, OverBound
  <1>5. PICK p : p = Now(t)'
    OBVIOUS
  <1>6. PICK d : d = Given(t)'
    OBVIOUS
  <1>7. p = "called" /\ d = <<>>
    BY <1>3, <1>4, <1>5, <1>6 DEF Now, Given
  <1>8. Now(t) = "idle" /\ answer' = [answer EXCEPT ![t] = "none"]
    BY DEF Call, Now
  <1>9. Settled' = Settled
    BY SettledOff, OutsideOffBus DEF Lawful, Outside
  <1>10. [fn |-> r[1], addr |-> r[2], size |-> r[3], version |-> calls + 1] \in Calls
    <2>1. calls + 1 \in 1 .. MaxCalls
      BY SfudAssumption DEF Call, Lawful, Types, CallsOK
    <2>2. r \in UNION {Requests[u] : u \in Threads}
      OBVIOUS
    <2>3. QED
      BY <2>1, <2>2 DEF Calls
  <1>11. \E c \in Calls : call' = [call EXCEPT ![t] = c]
    BY <1>1, <1>10
  <1>12. /\ Phase[t] = Now(t)
         /\ Phase' = [Phase EXCEPT ![t] = p]
         /\ Delivered' = [Delivered EXCEPT ![t] = d]
    BY <1>5, <1>6, SeenChange
  <1>13. Flash!Call(t)
    BY <1>7, <1>8, <1>9, <1>11, <1>12 DEF Flash!Call
  <1>14. QED
    BY <1>4, <1>13 DEF Due

\* sfud_write and sfud_erase_write choose what comes next.
LEMMA WriteMaps ==
    ASSUME Serial, Lawful, Lawful', WriteModes \subseteq {"page", "aai"},
           NEW t \in Threads, sfud_write(t), Due(t)
    PROVE  UNCHANGED Flash!flash /\ Due(t)'
  <1> DEFINE h == Top(t)
  <1>1. /\ stack[t] # <<>> /\ h.fn = "write" /\ h \in Frames
        /\ Len(stack[t]) = 1 \/ Len(stack[t]) = 2
    BY TheOther DEF sfud_write, At, Lawful, Types
  <1>2. Len(stack[t]) = 1
    BY <1>1 DEF Lawful, Control, Shape, Pair, UnderErase, UnderAai
  <1>3. write_mode \in {"page", "aai"}
    BY DEF Lawful, Types, CallsOK
  <1>4. PICK f : f = [h EXCEPT !.fn = write_mode] /\ SetTop(t, f) /\ UNCHANGED answer
    BY <1>1, <1>3 DEF sfud_write
  <1>5. f.fn \in {"page", "aai"} /\ f.at = "enter" /\ f.result = h.result
    <2>1. h.at = "enter"
      BY DEF sfud_write, At
    <2> HIDE DEF h
    <2>2. QED
      BY <1>1, <1>3, <1>4, <2>1 DEF Frames
  <1>6. stack'[t] # <<>> /\ Len(stack'[t]) = 1 /\ Top(t)' = f
    BY <1>1, <1>2, <1>4, TopChanges DEF Lawful, Types
  <1>7. UNCHANGED << answer, call >>
    BY <1>4 DEF sfud_write, ghost
  <1>8. Writing(t)' <=> Writing(t)
    BY <1>1, <1>2, <1>5, <1>6, <1>7 DEF Writing, Midway, Inner
  <1>9. ~HasRead(t)' /\ ~OverBound(t)'
    BY <1>5, <1>6 DEF HasRead, OverBound
  <1>10. Settled' = Settled
    BY SettledOff, OutsideOffBus DEF Lawful, Outside, Driver
  <1>11. Now(t)' = Now(t) /\ Given(t)' = Given(t)
    BY <1>1, <1>6, <1>8 DEF Now, Given
  <1>12. UNCHANGED Flash!flash
    BY <1>7, <1>10, <1>11, Unseen DEF Driver
  <1>13. QED
    BY <1>7, <1>8, <1>9, <1>12 DEF Due, InRange

LEMMA EraseWriteMaps ==
    ASSUME Serial, Lawful, Lawful', NEW t \in Threads, sfud_erase_write(t), Due(t)
    PROVE  /\ Flash!Refuse(t) \/ UNCHANGED Flash!flash
           /\ Due(t)'
  <1> DEFINE h == Top(t)
  <1>1. /\ stack[t] # <<>> /\ h.fn = "eraseWrite" /\ h.at \in {"enter", "erased"} /\ h \in Frames
        /\ Len(stack[t]) = 1 \/ Len(stack[t]) = 2
        /\ UNCHANGED call
    BY TheOther DEF sfud_erase_write, At, Lawful, Types, ghost
  <1>2. Len(stack[t]) = 1 /\ ~Inner(t)
    BY <1>1 DEF Lawful, Control, Shape, Pair, UnderErase, UnderAai, Inner
  <1>3. call[t].fn = "eraseWrite"
    <2>1. h.fn \in Serves(call[t].fn) /\ call[t].fn \in {"read", "erase", "chipErase", "write", "eraseWrite"}
      BY <1>1, <1>2 DEF Lawful, Control, Shape, Single, Types, CallsOK, Commands
    <2>2. QED
      BY <1>1, <2>1 DEF Serves
  <1>4. Settled' = Settled /\ Driver(t)
    BY SettledOff, OutsideOffBus DEF Lawful, Outside, Driver
  <1>5. CASE h.at = "enter"
    <2>1. PICK fn \in Commands, a \in Nat, n \in 0 .. SizeMod - 1, k \in Nat, g \in Nat \ {0} :
             fn = "erase" /\ a = h.addr /\ n = h.size /\ k = 0 /\ g = PageSize
      BY <1>1, ChipAssumption DEF Frames, Commands
    <2>2. Push(t, Frame(fn, "enter", a, n, k, g), "erased") /\ UNCHANGED answer
      BY <1>5, <2>1 DEF sfud_erase_write, At
    <2>3. PICK f \in Frames : f = Frame(fn, "enter", a, n, k, g) /\ f.fn = "erase" /\ f.at = "enter"
      BY <2>1, NewFrame
    <2>4. PICK l \in Labels : l = "erased"
      BY DEF Labels
    <2>5. Push(t, f, l) /\ StackOK
      BY <2>2, <2>3, <2>4 DEF Lawful, Types
    <2>6. Len(stack'[t]) = 2 /\ stack'[t] # <<>> /\ Top(t)' = f /\ stack'[t][2] = [h EXCEPT !.at = l]
      BY <1>1, <1>2, <2>5, Pushed
    <2>7. ~Inner(t)'
      BY <1>1, <2>6 DEF Inner, Frames
    <2>8. ~Writing(t) /\ ~Writing(t)' /\ ~HasRead(t)' /\ ~OverBound(t)'
      BY <1>1, <1>2, <1>5, <2>3, <2>6, <2>7 DEF Writing, Midway, HasRead, OverBound
    <2>9. Now(t)' = Now(t) /\ Given(t)' = Given(t)
      BY <1>1, <2>6, <2>8 DEF Now, Given
    <2>10. QED
      BY <1>1, <1>4, <2>2, <2>8, <2>9, Unseen DEF Due
  <1>6. CASE h.at = "erased" /\ h.result = "SUCCESS"
    <2>1. PICK f : f = [h EXCEPT !.fn = "write", !.at = "enter"] /\ SetTop(t, f) /\ UNCHANGED answer
      BY <1>6 DEF sfud_erase_write, At
    <2>2. f.fn = "write" /\ f.at = "enter" /\ f.result = "SUCCESS"
      <3> HIDE DEF h
      <3>1. QED
        BY <1>1, <1>6, <2>1 DEF Frames
    <2>3. stack'[t] # <<>> /\ Len(stack'[t]) = 1 /\ Top(t)' = f
      BY <1>1, <1>2, <2>1, TopChanges DEF Lawful, Types
    <2>4. Writing(t) /\ Writing(t)' /\ ~HasRead(t)' /\ ~OverBound(t)'
      BY <1>1, <1>2, <1>3, <1>6, <2>2, <2>3 DEF Writing, Midway, HasRead, OverBound
    <2>5. Now(t)' = Now(t) /\ Given(t)' = Given(t)
      BY <1>1, <2>3, <2>4 DEF Now, Given
    <2>6. InRange(call[t])'
      BY <1>1, <2>4 DEF Due, InRange
    <2>7. QED
      BY <1>1, <1>4, <2>1, <2>4, <2>5, <2>6, Unseen DEF Due
  <1>7. CASE h.at = "erased" /\ h.result # "SUCCESS"
    <2>1. h.result = "ERR_ADDR_OUT_OF_BOUND" /\ ~InRange(call[t])
      BY <1>1, <1>2, <1>7 DEF Due, OverBound
    <2>2. Return(t, "ERR_ADDR_OUT_OF_BOUND")
      BY <1>7, <2>1 DEF sfud_erase_write, At
    <2>3. stack'[t] = <<>> /\ answer' = [answer EXCEPT ![t] = "ERR_ADDR_OUT_OF_BOUND"]
      BY <1>2, <2>2 DEF Return, Lawful, Types, StackOK
    <2>4. ~Writing(t) /\ ~Writing(t)' /\ ~HasRead(t)' /\ ~OverBound(t)'
      BY <1>2, <1>7, <2>3 DEF Writing, Midway, HasRead, OverBound
    <2>5. PICK p : p = Now(t)'
      OBVIOUS
    <2>6. PICK d : d = Given(t)'
      OBVIOUS
    <2>7. p = "idle" /\ d = <<>> /\ Now(t) = "called" /\ Given(t) = <<>>
      BY <1>1, <2>3, <2>4, <2>5, <2>6 DEF Now, Given, Lawful, Types, CallsOK
    <2>8. /\ Phase[t] = Now(t) /\ Delivered[t] = Given(t)
          /\ Phase' = [Phase EXCEPT ![t] = p]
          /\ Delivered' = [Delivered EXCEPT ![t] = d]
      BY <1>4, <2>5, <2>6, SeenChange
    <2>9. Delivered' = Delivered
      BY <2>7, <2>8 DEF Delivered
    <2>10. Flash!Refuse(t)
      BY <1>1, <1>4, <2>1, <2>3, <2>7, <2>8, <2>9 DEF Flash!Refuse, Flash!Returns, Flash!InBound, InRange
    <2>11. QED
      BY <2>4, <2>10 DEF Due
  <1>8. QED
    BY <1>1, <1>5, <1>6, <1>7

\* The check of the bound.
LEMMA EnterMaps ==
    ASSUME Serial, Lawful, Lawful', NEW t \in Threads, Enter(t), ~OnBus(t), Due(t)
    PROVE  /\ Flash!Refuse(t) \/ UNCHANGED Flash!flash
           /\ Due(t)'
  <1> DEFINE h == Top(t)
             c == call[t]
  <1>1. /\ stack[t] # <<>> /\ h.at = "enter" /\ h.fn \in Writers \cup {"read"} /\ h \in Frames
        /\ Len(stack[t]) = 1 \/ Len(stack[t]) = 2
        /\ UNCHANGED call
    BY TheOther DEF Enter, At, Lawful, Types, ghost
  <1>2. ~OnBus(t)' /\ ~Inner(t) /\ ~Inner(t)'
    <2>1. ~OnBus(t)' /\ ~Inner(t)
      BY <1>1, EnterOnBus DEF OnBus, Lawful
    <2>2. QED
      BY <2>1, EnterOnBus DEF Lawful
  <1>3. Settled' = Settled /\ Driver(t)
    BY <1>2, SettledOff DEF Driver
  <1>4. h.addr = c.addr /\ h.size = c.size
    <2>1. Main(h, c) /\ h.from = 0
      BY <1>1, <1>2 DEF Lawful, Control, Shape, Single, Pair, UnderErase, UnderAai, Main, Inner
    <2>2. c.addr \in Nat /\ c.size \in Nat
      <3>1. call[t] \in [fn : Commands, addr : Nat, size : 0 .. SizeMod - 1, version : Nat]
        BY DEF Lawful, Types, CallsOK
      <3>2. QED
        BY <3>1
    <2>3. h.addr \in Nat /\ h.size \in Nat
      BY <1>1 DEF Frames
    <2>4. QED
      BY <2>1, <2>2, <2>3 DEF Main
  <1>5. ~HasRead(t)'
    BY <1>2 DEF HasRead, OnBus, Bus, Labels
  <1>6. CASE h.addr + h.size > ChipSize /\ h.fn # "chipErase"
    <2>1. PICK r \in Results : r = "ERR_ADDR_OUT_OF_BOUND" /\ Return(t, r)
      <3>1. Types /\ Control
        BY DEF Lawful
      <3>2. Return(t, "ERR_ADDR_OUT_OF_BOUND")
        BY <1>6, <3>1, CheckedOut
      <3>3. QED
        BY <3>2 DEF Results
    <2>2. c.fn # "chipErase"
      <3>1. Len(stack[t]) = 1 => h.fn \in Serves(c.fn)
        BY <1>1 DEF Lawful, Control, Shape, Single
      <3>2. Len(stack[t]) = 2 => c.fn = "eraseWrite"
        BY <1>1, <1>2 DEF Lawful, Control, Shape, Pair, UnderErase, UnderAai, Inner
      <3>3. QED
        BY <1>1, <1>6, <3>1, <3>2 DEF Serves
    <2>3. ~InRange(c)
      <3>1. c.addr + c.size > ChipSize /\ c.addr \in Nat /\ c.size \in Nat /\ ChipSize \in Nat
        BY <1>4, <1>6, ChipAssumption DEF Lawful, Types, CallsOK
      <3>2. QED
        BY <2>2, <3>1 DEF InRange
    <2>4. ~Writing(t)
      BY <2>3 DEF Due
    <2>5. CASE Len(stack[t]) = 1
      <3>1. stack'[t] = <<>> /\ answer' = [answer EXCEPT ![t] = r]
        BY <2>1, <2>5 DEF Return, Lawful, Types, StackOK
      <3>2. PICK p : p = Now(t)'
        OBVIOUS
      <3>3. PICK d : d = Given(t)'
        OBVIOUS
      <3>4. p = "idle" /\ d = <<>> /\ Now(t) = "called" /\ Given(t) = <<>>
        BY <1>1, <2>1, <2>4, <3>1, <3>2, <3>3 DEF Now, Given, Lawful, Types, CallsOK
      <3>5. /\ Phase[t] = Now(t) /\ Delivered[t] = Given(t)
            /\ Phase' = [Phase EXCEPT ![t] = p]
            /\ Delivered' = [Delivered EXCEPT ![t] = d]
        BY <1>3, <3>2, <3>3, SeenChange
      <3>6. Delivered' = Delivered
        <4>1. Delivered[t] = d /\ Delivered' = [Delivered EXCEPT ![t] = d]
          BY <3>4, <3>5
        <4>2. QED
          BY <4>1 DEF Delivered
      <3>7. Flash!Refuse(t)
        BY <1>1, <1>3, <2>1, <2>3, <3>1, <3>4, <3>5, <3>6
        DEF Flash!Refuse, Flash!Returns, Flash!InBound, InRange
      <3>8. ~Writing(t)' /\ ~OverBound(t)'
        BY <3>1 DEF Writing, OverBound
      <3>9. QED
        BY <1>5, <3>7, <3>8 DEF Due
    <2>6. CASE Len(stack[t]) = 2
      <3>1. PICK g \in Frames : g = stack[t][2] /\ g.fn = "eraseWrite"
        BY <1>1, <1>2, <2>6, TheOther
        DEF Lawful, Types, Control, Shape, Pair, UnderErase, UnderAai, Inner
      <3>2. PICK f : f = [g EXCEPT !.result = r]
        OBVIOUS
      <3>3. f.fn = "eraseWrite" /\ f.result = "ERR_ADDR_OUT_OF_BOUND"
        BY <2>1, <3>1, <3>2 DEF Frames
      <3>4. stack'[t] # <<>> /\ Top(t)' = f /\ UNCHANGED answer
        <4>1. StackOK
          BY DEF Lawful, Types
        <4>2. QED
          BY <1>1, <2>1, <2>6, <3>1, <3>2, <4>1, ReturnsTo
      <3>5. ~Writing(t)'
        BY <1>2, <3>3, <3>4 DEF Writing, Midway
      <3>6. Now(t)' = Now(t) /\ Given(t)' = Given(t)
        BY <1>1, <2>4, <3>4, <3>5 DEF Now, Given
      <3>7. UNCHANGED Flash!flash
        BY <1>1, <1>3, <3>4, <3>6, Unseen
      <3>8. Top(t)'.result = "ERR_ADDR_OUT_OF_BOUND" /\ ~InRange(call[t])'
        BY <1>1, <2>3, <3>3, <3>4 DEF InRange
      <3>9. QED
        BY <1>5, <3>5, <3>7, <3>8 DEF Due
    <2>7. QED
      BY <1>1, <2>5, <2>6
  <1>7. CASE ~(h.addr + h.size > ChipSize /\ h.fn # "chipErase")
    <2>1. PICK f : /\ f = [h EXCEPT !.at = "lock",
                                    !.fn = IF @ = "erase" /\ h.addr = 0 /\ h.size = ChipSize
                                           THEN "chipErase" ELSE @]
                   /\ SetTop(t, f) /\ UNCHANGED answer
      <3>1. Types /\ Control
        BY DEF Lawful
      <3>2. /\ SetTop(t, [Top(t) EXCEPT !.at = "lock",
                             !.fn = IF @ = "erase" /\ Top(t).addr = 0 /\ Top(t).size = ChipSize
                                    THEN "chipErase" ELSE @])
            /\ UNCHANGED answer
        BY <1>7, <3>1, CheckedIn
      <3>3. QED
        BY <3>2
    <2>2. f.result = h.result /\ f.at = "lock" /\ f.fn # "eraseWrite"
      <3>1. h.fn # "eraseWrite"
        BY <1>1 DEF Writers
      <3> HIDE DEF h
      <3>2. QED
        BY <1>1, <2>1, <3>1 DEF Frames
    <2>3. stack'[t] # <<>> /\ Len(stack'[t]) = Len(stack[t]) /\ Top(t)' = f
      BY <1>1, <2>1, TopChanges DEF Lawful, Types
    <2>4. Writing(t)' <=> Writing(t)
      BY <1>1, <1>2, <2>2, <2>3 DEF Writing, Midway, Writers
    <2>5. ~OverBound(t)'
      BY <2>2, <2>3 DEF OverBound
    <2>6. Now(t)' = Now(t) /\ Given(t)' = Given(t)
      BY <1>1, <2>3, <2>4 DEF Now, Given
    <2>7. UNCHANGED Flash!flash
      BY <1>1, <1>3, <2>1, <2>6, Unseen
    <2>8. QED
      BY <1>1, <1>5, <2>4, <2>5, <2>7 DEF Due, InRange
  <1>8. QED
    BY <1>6, <1>7

\* While a thread keeps the bus nobody sees what it does.
LEMMA WritingStays ==
    ASSUME Serial, Lawful, Lawful', NEW t \in Threads, Call(t) \/ Driver(t), OnBus(t), OnBus(t)',
           Owns(Top(t), call[t]), Carries(t), Writing(t)
    PROVE  Writing(t)'
  <1>1. Top(t)'.result = "SUCCESS" /\ call'[t] = call[t] /\ stack'[t] # <<>>
    BY DEF Carries, Owns, OnBus
  <1>2. Types /\ Types' /\ Control /\ Control' /\ StackOK /\ stack[t] # <<>>
    BY DEF Lawful, Types, Writing
  <1>3. CASE Works(t)
    <2>1. Inner(t)' <=> Inner(t)
      BY <1>2, <1>3, WorksOnBus
    <2>2. PICK f : SetTop(t, f) /\ f.at \in Bus
      BY <1>2, <1>3, WorksAt
    <2>3. Len(stack'[t]) = Len(stack[t]) /\ Top(t)' = f
      BY <1>2, <2>2, TopChanges
    <2>4. QED
      BY <1>1, <2>1, <2>2, <2>3 DEF Writing, Midway, Bus
  <1>4. CASE OddByte(t)
    BY <1>1, <1>2, <1>4, OddByteOnBus DEF Writing
  <1>5. CASE Enter(t)
    <2>1. Top(t).at = "enter" /\ Top(t) \in Frames
      BY <1>2, <1>5, TheOther DEF Enter, At
    <2>2. Inner(t)
      BY <2>1 DEF OnBus, Bus
    <2>3. PICK r \in Results : r = "ERR_ADDR_OUT_OF_BOUND"
      BY DEF Results
    <2>4. ~Return(t, r)
      <3> SUFFICES ASSUME Return(t, r) PROVE FALSE
        OBVIOUS
      <3>1. stack[t][2] \in Frames /\ Top(t)' = [stack[t][2] EXCEPT !.result = r]
        BY <1>1, <1>2, ReturnsTo
      <3>2. PICK g \in Frames : g = stack[t][2]
        BY <3>1
      <3>3. [g EXCEPT !.result = r].result = r
        BY <3>2 DEF Frames
      <3>4. QED
        BY <1>1, <2>3, <3>1, <3>2, <3>3
    <2>5. \E f : SetTop(t, f)
      BY <1>5, <2>3, <2>4 DEF Enter
    <2>6. Inner(t)'
      BY <1>2, <2>2, <2>5, TopChanges DEF Inner
    <2>7. QED
      BY <1>1, <2>6 DEF Writing
  <1>6. CASE Lock(t)
    BY <1>1, <1>2, <1>6, LockOnBus DEF Writing
  <1>7. CASE Unlock(t)
    <2>1. Inner(t) /\ Top(t).result = "SUCCESS"
      BY <1>2, <1>7, UnlockOnBus DEF Owns
    <2>2. Len(stack[t]) = 2 /\ stack[t][2] \in Frames /\ stack[t][2].fn = "aai"
      BY <1>2, <2>1, InnerIsPage DEF Lawful, Inner
    <2>3. PICK g \in Frames : g = stack[t][2] /\ g.fn = "aai"
      BY <2>2
    <2>4. PICK r \in Results : r = "SUCCESS"
      BY DEF Results
    <2>5. Return(t, r)
      BY <1>7, <2>1, <2>4 DEF Unlock
    <2>6. Len(stack'[t]) = 1 /\ Top(t)' = [g EXCEPT !.result = r]
      BY <1>1, <1>2, <2>2, <2>3, <2>5, ReturnsTo
    <2>7. [g EXCEPT !.result = r].fn = "aai"
      BY <2>3 DEF Frames
    <2>8. QED
      BY <1>1, <2>6, <2>7 DEF Writing, Midway
  <1>8. ~Outside(t)
    BY <1>2, OutsideOffBus
  <1>9. QED
    BY <1>3, <1>4, <1>5, <1>6, <1>7, <1>8 DEF Driver, Works, Outside

LEMMA HolderMaps ==
    ASSUME Serial, Lawful, Lawful', Clean', NEW t \in Threads, Call(t) \/ Driver(t), OnBus(t), OnBus(t)',
           Owns(Top(t), call[t]), Finished = Expected(Top(t), call[t], before[t]), Due(t)
    PROVE  UNCHANGED Flash!flash /\ Due(t)'
  <1>1. Types /\ Types' /\ Control /\ Control'
    BY DEF Lawful
  <1>2. Carries(t)
    BY <1>1, HolderCarries
  <1>3. /\ call'[t] = call[t] /\ before'[t] = before[t] /\ Top(t)'.result = "SUCCESS"
        /\ stack[t] # <<>> /\ stack'[t] # <<>>
    BY <1>2 DEF Carries, Owns, OnBus
  <1>4. Writing(t)' <=> Writing(t)
    BY <1>1, <1>2, <1>3, StillWriting, WritingStays
  <1>5. Settled' = Settled
    BY <1>3, SettledIs, SettledNext
  <1>6. call' = call
    <2>1. \A u \in Threads : call'[u] = call[u]
      BY <1>1, <1>3, OthersStay
    <2>2. QED
      BY <1>1, <2>1 DEF Types, CallsOK
  <1>7. answer' = answer
    <2>1. answer[t] = "none" /\ answer'[t] = "none"
      BY <1>1, <1>3 DEF Control, Shape
    <2>2. \A u \in Threads : answer'[u] = answer[u]
      BY <1>1, <2>1, OthersStay
    <2>3. QED
      BY <1>1, <2>2 DEF Types, CallsOK
  <1>8. Now(t)' = Now(t) /\ Given(t)' = Given(t)
    BY <1>3, <1>4 DEF Now, Given
  <1>9. UNCHANGED Flash!flash
    BY <1>5, <1>6, <1>7, <1>8, Unseen
  <1>10. HasRead(t)' => (got[t] = Flash!Contents(call[t], before[t]))'
    BY <1>1, <1>2, ReadEnds
  <1>11. ~OverBound(t)'
    BY <1>3 DEF OverBound
  <1>12. QED
    BY <1>3, <1>4, <1>9, <1>10, <1>11 DEF Due, InRange

LEMMA OnlyOneNext ==
    ASSUME Serial
    PROVE  Lawful' => (\A t, u \in Threads : OnBus(t) /\ OnBus(u) => t = u)'
  <1>1. Lawful => \A t, u \in Threads : OnBus(t) /\ OnBus(u) => t = u
    BY OneOnBus DEF Lawful
  <1>2. QED
    BY <1>1, PTL

LEMMA LockMaps ==
    ASSUME Serial, Lawful, Lawful', NEW t \in Threads, Lock(t), ~OnBus(t), Due(t)
    PROVE  UNCHANGED Flash!flash /\ Due(t)'
  <1>1. Types /\ Types' /\ Control /\ Control' /\ Driver(t)
    BY DEF Lawful, Driver
  <1>2. /\ stack[t] # <<>> /\ Top(t).at = "lock" /\ Top(t).result = "SUCCESS"
        /\ UNCHANGED << chip, call, answer >>
    BY <1>1, LockGoes DEF Lock
  <1>3. ~Inner(t) /\ ~Inner(t)' /\ OnBus(t)'
    BY <1>1, LockOnBus
  <1>4. \A u \in Threads : ~OnBus(u)
    <2>1. ASSUME NEW u \in Threads, OnBus(u) PROVE u = t
      <3>1. u # t => OnBus(u)'
        BY <1>1, <2>1, OthersOnBus
      <3>2. QED
        BY <1>3, <3>1, OnlyOneNext
    <2>2. QED
      BY <2>1
  <1>5. before'[t] = mem
    <2>1. ~OddBytePage(t)
      BY <1>1, <1>2, <1>3, InnerPage
    <2>2. QED
      BY <1>1, <2>1 DEF Lock, Types, CallsOK
  <1>6. Settled' = Settled
    BY <1>3, <1>4, <1>5, SettledIs, SettledNext
  <1>7. PICK f : /\ Top(t)' = f /\ f.at \in {"wren", "wrdi", "head", "busy"} /\ f.result = "SUCCESS"
                 /\ f.fn = Top(t).fn
    BY <1>1, LockGoes DEF Like
  <1>8. stack'[t] # <<>> /\ Len(stack'[t]) = Len(stack[t])
    BY <1>1, <1>2, TopChanges DEF Lock, Goto, Types
  <1>9. Writing(t)' <=> Writing(t)
    BY <1>2, <1>3, <1>7, <1>8 DEF Writing, Midway
  <1>10. ~HasRead(t)' /\ ~OverBound(t)'
    BY <1>7 DEF HasRead, OverBound
  <1>11. Now(t)' = Now(t) /\ Given(t)' = Given(t)
    BY <1>2, <1>8, <1>9 DEF Now, Given
  <1>12. UNCHANGED Flash!flash
    BY <1>1, <1>2, <1>6, <1>11, Unseen
  <1>13. QED
    BY <1>2, <1>9, <1>10, <1>12 DEF Due, InRange

\* The call takes effect when it gives up the bus.
LEMMA UnlockMaps ==
    ASSUME Serial, Lawful, Lawful', NEW t \in Threads, Unlock(t), ~OnBus(t)',
           Owns(Top(t), call[t]), Finished = Expected(Top(t), call[t], before[t]), Due(t)
    PROVE  /\ Flash!TakeEffect(t) \/ Flash!EraseHalf(t) \/ Flash!WriteHalf(t)
           /\ Due(t)'
  <1> DEFINE h == Top(t)
             c == call[t]
             m == before[t]
  <1>1. Types /\ Types' /\ Control /\ Control' /\ Driver(t)
    BY DEF Lawful, Driver
  <1>2. /\ stack[t] # <<>> /\ h.at = "unlock" /\ OnBus(t) /\ h.result = "SUCCESS" /\ h \in Frames
        /\ Len(stack[t]) = 1 \/ Len(stack[t]) = 2
    BY <1>1, UnlockOnBus, TheOther DEF Owns, Types
  <1>3. ~Inner(t) /\ ~Inner(t)'
    BY <1>1, UnlockOnBus
  <1>4. UNCHANGED << call, got, mem, before >> /\ Return(t, "SUCCESS")
    BY <1>2 DEF Unlock, ghost, chip
  <1>5. Settled = m /\ Settled' = mem
    <2>1. \A u \in Threads : OnBus(u) => u = t
      BY <1>2, OneOnBus DEF Lawful
    <2>2. \A u \in Threads : ~OnBus(u)'
      BY <1>1, <2>1, OthersOnBus
    <2>3. QED
      BY <1>2, <1>4, <2>2, SettledIs, SettledNext
  <1>6. Placed(h, c)
    BY <1>1, <1>2 DEF Control, Shape
  <1>7. InRange(c) /\ Flash!InBound(c) /\ h.fn \in {"read", "page", "aai", "erase", "chipErase"}
    <2>1. InRange(c) /\ h.fn \in {"read", "page", "aai", "erase", "chipErase"}
      BY <1>2, <1>6 DEF Placed, Ways, Frames, Commands
    <2>2. QED
      BY <2>1 DEF InRange, Flash!InBound
  <1>8. PICK p : p = Now(t)'
    OBVIOUS
  <1>9. PICK d : d = Given(t)'
    OBVIOUS
  <1>10. /\ Phase[t] = Now(t) /\ Delivered[t] = Given(t) /\ Given(t) = <<>>
         /\ Phase' = [Phase EXCEPT ![t] = p]
         /\ Delivered' = [Delivered EXCEPT ![t] = d]
    BY <1>1, <1>2, <1>8, <1>9, SeenChange DEF Given
  <1>11. d = <<>> => Delivered' = Delivered
    <2>1. d = <<>> => Delivered[t] = d /\ Delivered' = [Delivered EXCEPT ![t] = d]
      BY <1>10
    <2>2. QED
      BY <2>1 DEF Delivered
  <1>12. CASE Len(stack[t]) = 1
    <2>1. stack'[t] = <<>> /\ answer' = [answer EXCEPT ![t] = "SUCCESS"] /\ answer'[t] = "SUCCESS"
      BY <1>1, <1>4, <1>12 DEF Return, Types, StackOK, CallsOK
    <2>2. h.fn \in Serves(c.fn) /\ c.fn \in {"read", "erase", "chipErase", "write", "eraseWrite"}
      BY <1>1, <1>2, <1>12 DEF Control, Shape, Single, Types, CallsOK, Commands
    <2>3. p = "idle" /\ d = IF c.fn = "read" THEN got[t] ELSE <<>>
      BY <1>4, <1>8, <1>9, <2>1 DEF Now, Given
    <2>4. ~Writing(t)' /\ ~HasRead(t)' /\ ~OverBound(t)'
      BY <2>1 DEF Writing, HasRead, OverBound
    <2>5. CASE c.fn = "eraseWrite"
      <3>1. h.fn \in {"page", "aai"}
        BY <1>7, <2>2, <2>5 DEF Serves
      <3>2. Now(t) = "erased"
        BY <1>2, <1>12, <2>5 DEF Now, Writing, Midway
      <3>3. mem = Flash!AfterWrite(c, m)
        BY <1>1, <1>2, <1>3, <3>1, LeftBehind
      <3>4. Flash!WriteHalf(t)
        BY <1>4, <1>5, <1>10, <1>11, <2>1, <2>3, <2>5, <3>2, <3>3 DEF Flash!WriteHalf, Flash!Returns
      <3>5. QED
        BY <2>4, <3>4 DEF Due
    <2>6. CASE c.fn # "eraseWrite"
      <3>1. Now(t) = "called"
        BY <1>2, <2>6 DEF Now, Writing
      <3>2. mem = Flash!After(c, m)
        <4>1. CASE c.fn = "read"
          BY <1>1, <1>2, <1>3, <2>2, <4>1, LeftBehind DEF Serves, Flash!After
        <4>2. CASE c.fn = "chipErase"
          BY <1>1, <1>2, <1>3, <2>2, <4>2, LeftBehind
          DEF Serves, Flash!After, Flash!Cells, Cells, Flash!Erased, Erased
        <4>3. CASE c.fn = "erase"
          BY <1>1, <1>2, <1>3, <2>2, <4>3, LeftBehind DEF Serves, Flash!After
        <4>4. CASE c.fn = "write"
          BY <1>1, <1>2, <1>3, <1>7, <2>2, <4>4, LeftBehind DEF Serves, Flash!After
        <4>5. QED
          BY <2>2, <2>6, <4>1, <4>2, <4>3, <4>4
      <3>3. c.fn = "read" => d = Flash!Contents(c, m)
        BY <1>2, <2>2, <2>3 DEF Due, HasRead, Serves
      <3>4. Delivered' = IF c.fn = "read" THEN [Delivered EXCEPT ![t] = Flash!Contents(c, m)] ELSE Delivered
        BY <1>10, <1>11, <2>3, <3>3
      <3>5. Flash!TakeEffect(t)
        BY <1>4, <1>5, <1>7, <1>10, <2>1, <2>3, <2>6, <3>1, <3>2, <3>4
        DEF Flash!TakeEffect, Flash!Returns
      <3>6. QED
        BY <2>4, <3>5 DEF Due
    <2>7. QED
      BY <2>5, <2>6
  <1>13. CASE Len(stack[t]) = 2
    <2>1. UnderErase(h, stack[t][2], c)
      BY <1>1, <1>2, <1>3, <1>13 DEF Control, Shape, Pair, UnderAai, Inner
    <2>2. h.fn \in {"erase", "chipErase"} /\ c.fn = "eraseWrite"
      BY <2>1 DEF UnderErase
    <2>3. PICK g \in Frames : g = stack[t][2] /\ g.fn = "eraseWrite" /\ g.at = "erased"
      BY <1>1, <1>2, <1>13, <2>1, TheOther DEF UnderErase, Types
    <2>4. PICK f : f = [g EXCEPT !.result = "SUCCESS"]
      OBVIOUS
    <2>5. f.fn = "eraseWrite" /\ f.at = "erased" /\ f.result = "SUCCESS"
      BY <2>3, <2>4 DEF Frames
    <2>6. stack'[t] # <<>> /\ Len(stack'[t]) = 1 /\ Top(t)' = f /\ UNCHANGED answer
      <3>1. PICK r \in Results : r = "SUCCESS"
        BY DEF Results
      <3>2. Return(t, r) /\ StackOK
        BY <1>1, <1>4, <3>1 DEF Types
      <3>3. \/ Len(stack[t]) = 1
            \/ /\ stack'[t] # <<>> /\ Len(stack'[t]) = 1 /\ UNCHANGED answer
               /\ Top(t)' = [stack[t][2] EXCEPT !.result = r]
        BY <1>2, <3>2, ReturnsTo
      <3>4. QED
        BY <1>13, <2>3, <2>4, <3>1, <3>3
    <2>7. ~Writing(t) /\ Writing(t)' /\ ~HasRead(t)' /\ ~OverBound(t)'
      BY <1>3, <1>4, <1>13, <2>2, <2>5, <2>6 DEF Writing, Midway, HasRead, OverBound
    <2>8. Now(t) = "called" /\ p = "erased" /\ d = <<>>
      BY <1>2, <1>8, <1>9, <2>6, <2>7 DEF Now, Given
    <2>9. mem = Flash!AfterErase(c, m)
      BY <1>1, <1>2, <1>3, <2>2, LeftBehind
    <2>10. Flash!EraseHalf(t)
      BY <1>4, <1>5, <1>7, <1>10, <1>11, <2>2, <2>6, <2>8, <2>9 DEF Flash!EraseHalf
    <2>11. InRange(call[t])'
      BY <1>4, <1>7 DEF InRange
    <2>12. QED
      BY <2>7, <2>10, <2>11 DEF Due
  <1>14. QED
    BY <1>2, <1>12, <1>13

\* The end of a cycle is part of the call that has the bus.
LEMMA CycleMaps ==
    ASSUME Serial, Lawful, Lawful', NEW u \in Threads, OnBus(u), CycleEnds
    PROVE  UNCHANGED Flash!flash /\ \A t \in Threads : Due(t)' <=> Due(t)
  <1>1. UNCHANGED << stack, call, before, answer, got >>
    BY DEF CycleEnds, ghost
  <1>2. OnBus(u)'
    BY <1>1 DEF OnBus, Inner, Top
  <1>3. Settled' = Settled
    BY <1>1, <1>2, SettledIs, SettledNext
  <1>4. Phase' = Phase /\ Delivered' = Delivered
    BY <1>1 DEF Phase, Delivered, HalfDone, OddBytePage, Top
  <1>5. UNCHANGED Flash!flash
    BY <1>1, <1>3, <1>4 DEF Flash!flash
  <1>6. \A t \in Threads : Due(t)' <=> Due(t)
    BY <1>1 DEF Due, Writing, Midway, Inner, OverBound, HasRead, Top, InRange, Flash!Contents
  <1>7. QED
    BY <1>5, <1>6

LEMMA RestMaps ==
    ASSUME UNCHANGED vars
    PROVE  UNCHANGED Flash!flash /\ \A t \in Threads : Due(t)' <=> Due(t)
  <1>1. UNCHANGED << stack, call, before, answer, got, mem >>
    BY DEF vars, ghost, port, chip
  <1>2. Settled' = Settled
    BY <1>1 DEF Settled, HasBus, OddBytePage, Top
  <1>3. Phase' = Phase /\ Delivered' = Delivered
    BY <1>1 DEF Phase, Delivered, HalfDone, OddBytePage, Top
  <1>4. UNCHANGED Flash!flash
    BY <1>1, <1>2, <1>3 DEF Flash!flash
  <1>5. \A t \in Threads : Due(t)' <=> Due(t)
    BY <1>1 DEF Due, Writing, Midway, Inner, OverBound, HasRead, Top, InRange, Flash!Contents
  <1>6. QED
    BY <1>4, <1>5

LEMMA DriverMaps ==
    ASSUME Serial, WriteModes \subseteq {"page", "aai"}, Lawful, Lawful', Clean',
           NEW t \in Threads, Call(t) \/ Driver(t), Due(t),
           OnBus(t) => Owns(Top(t), call[t]) /\ Finished = Expected(Top(t), call[t], before[t])
    PROVE  [Flash!Next]_(Flash!flash) /\ Due(t)'
  <1>1. Types /\ Types' /\ Control /\ Control'
    BY DEF Lawful
  <1>2. CASE OnBus(t) /\ OnBus(t)'
    BY <1>2, HolderMaps
  <1>3. CASE OnBus(t) /\ ~OnBus(t)'
    <2>1. Unlock(t)
      BY <1>1, <1>3, WorksOnBus, OddByteOnBus, LockOnBus, EnterOnBus, OutsideOffBus
      DEF Driver, Works, Outside
    <2>2. QED
      BY <1>3, <2>1, UnlockMaps DEF Flash!Next
  <1>4. CASE ~OnBus(t) /\ OnBus(t)'
    <2>1. Lock(t)
      BY <1>1, <1>4, WorksOnBus, OddByteOnBus, UnlockOnBus, EnterOnBus, OutsideOffBus
      DEF Driver, Works, Outside
    <2>2. QED
      BY <1>4, <2>1, LockMaps
  <1>5. CASE ~OnBus(t) /\ ~OnBus(t)'
    <2>1. Outside(t) \/ Enter(t)
      BY <1>1, <1>5, WorksOnBus, OddByteOnBus, LockOnBus, UnlockOnBus DEF Driver, Works, Outside
    <2>2. QED
      BY <1>5, <2>1, CallMaps, WriteMaps, EraseWriteMaps, EnterMaps DEF Outside, Flash!Next
  <1>6. QED
    BY <1>2, <1>3, <1>4, <1>5

LEMMA OthersDue ==
    ASSUME Types, Types', Control, Control', NEW t \in Threads, Call(t) \/ Driver(t),
           NEW u \in Threads, u # t, Due(u)
    PROVE  Due(u)'
  <1>1. stack'[u] = stack[u] /\ call'[u] = call[u] /\ before'[u] = before[u]
    BY OthersStay
  <1>2. got'[u] = got[u]
    <2>1. CASE ReadData(t)
      BY <2>1 DEF ReadData, Types, CallsOK
    <2>2. CASE UNCHANGED got
      BY <2>2
    <2>3. QED
      BY <2>1, <2>2 DEF Driver, Call, sfud_write, sfud_erase_write, Enter, Lock, Unlock, WriteEnable,
         WriteEnableStatus, Fill, Command, WaitBusy, WriteDisable, WriteDisableStatus, OddByte,
         OddByteDone, Abort
  <1>3. QED
    BY <1>1, <1>2 DEF Due, Writing, Midway, Inner, OverBound, HasRead, Top, InRange, Flash!Contents

LEMMA MapsStep ==
    ASSUME Serial, WriteModes \subseteq {"page", "aai"}, Divides, Ordered, Ordered', Clean, Clean',
           \A t \in Threads : Due(t), [Next]_vars
    PROVE  [Flash!Next]_(Flash!flash) /\ \A t \in Threads : Due(t)'
  <1>1. Lawful /\ Lawful' /\ Types /\ Types' /\ Control /\ Control'
    BY DEF Ordered, Lawful
  <1>2. CASE \E t \in Threads : Call(t) \/ Driver(t)
    <2>1. PICK t \in Threads : Call(t) \/ Driver(t)
      BY <1>2
    <2>2. OnBus(t) => Owns(Top(t), call[t]) /\ Finished = Expected(Top(t), call[t], before[t])
      BY DEF Ordered, Sound, Kept
    <2>3. [Flash!Next]_(Flash!flash) /\ Due(t)'
      BY <1>1, <2>1, <2>2, DriverMaps
    <2>4. \A u \in Threads : u # t => Due(u)'
      BY <1>1, <2>1, OthersDue
    <2>5. QED
      BY <2>3, <2>4
  <1>3. CASE CycleEnds
    <2>1. ~Ready
      BY <1>3 DEF CycleEnds, Finish
    <2>2. PICK u \in Threads : OnBus(u)
      BY <2>1 DEF Ordered, Sound, Rested
    <2>3. QED
      BY <1>1, <1>3, <2>2, CycleMaps
  <1>4. CASE UNCHANGED vars
    BY <1>4, RestMaps
  <1>5. QED
    BY <1>2, <1>3, <1>4 DEF Next, Rest

LEMMA MapsInit == Init => Flash!Init /\ \A t \in Threads : Due(t)
  <1> SUFFICES ASSUME Init PROVE Flash!Init /\ \A t \in Threads : Due(t)
    OBVIOUS
  <1>1. /\ \A t \in Threads : stack[t] = <<>>
        /\ answer = [t \in Threads |-> "none"]
    BY DEF Init
  <1>2. Settled = mem /\ mem \in [Cells -> Int]
    BY <1>1, TypesInit DEF Settled, HasBus, Types, ChipOK
  <1>3. Phase = [t \in Threads |-> "idle"] /\ Delivered = [t \in Threads |-> <<>>]
    BY <1>1 DEF Phase, Delivered
  <1>4. Flash!Init
    BY <1>1, <1>2, <1>3 DEF Flash!Init, Flash!Cells, Cells
  <1>5. \A t \in Threads : Due(t)
    BY <1>1 DEF Due, Writing, OverBound, HasRead
  <1>6. QED
    BY <1>4, <1>5

\* For callers that take turns, be it by a lock in the port or because only one
\* thread uses the flash, as with the repository's own port, the driver is the
\* memory that sfud.h promises: a call that is refused changes nothing, every
\* other takes effect on the whole of its range at one instant,
\* sfud_erase_write at two, and sfud_read delivers what the memory held at its
\* instant (sfud.c: the functions between spi->lock and spi->unlock).  No
\* transfer goes wrong, the cycles end within the retries, the chip has a write
\* mode in which sfud_write writes, the smallest eraser divides the others, no
\* range wraps (SumsFit) and no empty aai_write starts at an odd address
\* (AaiFits).
THEOREM Linearized ==
    ASSUME Serial, AaiFits, SumsFit, ~Slow, MaxFaults = 0, Divides, WriteModes \subseteq {"page", "aai"}
    PROVE  Spec => Atomic
  <1> DEFINE IInv == Ordered /\ \A t \in Threads : Due(t)
  <1>1. Ordered => Clean
    <2> SUFFICES ASSUME Ordered PROVE Clean
      OBVIOUS
    <2>1. faults \in 0 .. MaxFaults
      BY DEF Ordered, Types, CallsOK
    <2>2. faults = MaxFaults
      BY <2>1
    <2>3. QED
      BY <2>2 DEF Clean
  <1>2. Ordered' => Clean'
    BY <1>1, PTL
  <1>3. Init => IInv /\ Flash!Init
    BY OrderedInit, MapsInit
  <1>4. IInv /\ [Next]_vars => IInv' /\ [Flash!Next]_(Flash!flash)
    <2> SUFFICES ASSUME IInv, [Next]_vars PROVE IInv' /\ [Flash!Next]_(Flash!flash)
      OBVIOUS
    <2>1. Ordered'
      BY OrderedStep
    <2>2. QED
      BY <1>1, <1>2, <2>1, MapsStep
  <1>5. QED
    BY <1>3, <1>4, PTL DEF Spec, Atomic, Flash!Spec
=============================================================================
