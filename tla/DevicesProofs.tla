---------------------------- MODULE DevicesProofs ----------------------------
(***************************************************************************)
(* Proofs about the device objects of one process: for any number of       *)
(* objects of each class, files, failing system calls and crashes, and for *)
(* every set of flags.                                                     *)
(***************************************************************************)
EXTENDS Devices, FiniteSetTheorems, TLAPS

\* The number open gives exists.
LEMMA MinIsThere ==
    ASSUME NEW T \in SUBSET Nat, T # {}
    PROVE  Min(T) \in T /\ \A y \in T : Min(T) <= y
  <1> DEFINE F == {0 .. x : x \in T}
  <1>1. F \subseteq FiniteSubsetsOf(Nat) /\ F # {}
    <2>1. ASSUME NEW x \in T PROVE 0 .. x \in FiniteSubsetsOf(Nat)
      <3>1. x \in Int /\ 0 \in Int /\ 0 .. x \subseteq Nat
        OBVIOUS
      <3>2. IsFiniteSet(0 .. x)
        BY <3>1, FS_Interval
      <3>3. QED
        BY <3>1, <3>2 DEF FiniteSubsetsOf
    <2>2. QED
      BY <2>1
  <1>2. PICK X \in F : \A Y \in F : ~(<<Y, X>> \in StrictSubsetOrdering(Nat))
    <2>1. IsWellFoundedOn(StrictSubsetOrdering(Nat), FiniteSubsetsOf(Nat))
      BY FS_StrictSubsetOrderingWellFounded
    <2> HIDE DEF F
    <2>2. QED
      BY <1>1, <2>1, WFMin
  <1>3. PICK x \in T : X = 0 .. x
    OBVIOUS
  <1>4. ASSUME NEW y \in T PROVE x <= y
    <2>1. SUFFICES ASSUME ~(x <= y) PROVE FALSE
      OBVIOUS
    <2>2. y < x /\ x \in Nat /\ y \in Nat
      BY <2>1
    <2>3. 0 .. y \subseteq 0 .. x /\ x \notin 0 .. y /\ x \in 0 .. x
      BY <2>2
    <2>4. 0 .. y \in SUBSET Nat /\ 0 .. x \in SUBSET Nat /\ 0 .. y # 0 .. x
      BY <2>2, <2>3
    <2>5. <<0 .. y, 0 .. x>> \in StrictSubsetOrdering(Nat)
      BY <2>3, <2>4 DEF StrictSubsetOrdering
    <2>6. QED
      BY <1>2, <1>3, <2>5
  <1>5. QED
    BY <1>4 DEF Min

-----------------------------------------------------------------------------
\* Each place of the code belongs to the classes whose code it is.
SpiPlaces  == {"open", "rdMode", "wrMode", "wrOrder", "wrSpeed", "wrBits", "query", "message"}
UartPlaces == {"attr", "closeAgain"}
FilePlaces == {"built", "create", "read", "print"}
PlacesOf(c) == {"none", "ready"}
               \cup (IF c \in {"spi", "flash"} THEN SpiPlaces ELSE FilePlaces)
               \cup (IF c = "uart" THEN UartPlaces ELSE {})
               \cup (IF c \in {"net", "net1"} THEN {"bind"} ELSE {})
AllPlaces == {"none", "ready", "bind"} \cup SpiPlaces \cup UartPlaces \cup FilePlaces

Table == /\ class \in [Objects -> Classes]
         /\ files \in [Numbers -> Objects \cup {Nobody}]
         /\ fd \in [Objects -> Numbers \cup {NoFile}]
         /\ pc \in [Objects -> AllPlaces] /\ \A o \in Objects : pc[o] \in PlacesOf(class[o])
         /\ faults \in 0 .. MaxFaults
         /\ opened \subseteq {o \in Objects : class[o] = "uart"}

LEMMA SpendStep ==
    ASSUME faults \in 0 .. MaxFaults, NEW able \in BOOLEAN, NEW ok \in Outcomes(able),
           Spend(able, ok)
    PROVE  faults' \in 0 .. MaxFaults /\ ok \in BOOLEAN /\ (ok => able)
  <1>1. ok \in BOOLEAN /\ (ok => able)
    BY DEF Outcomes
  <1>2. able /\ ~ok => faults > 0
    BY DEF Outcomes
  <1>3. faults' = faults \/ (faults > 0 /\ faults' = faults - 1)
    BY <1>2 DEF Spend
  <1>4. faults' \in 0 .. MaxFaults
    BY <1>3, ProcessAssumption
  <1>5. QED
    BY <1>1, <1>4

\* open stores the number it gives, or NoFile.
Gives(o, n) == /\ files' = [files EXCEPT ![n] = o]
               /\ fd' = [fd EXCEPT ![o] = n]
GivesNone(o) == UNCHANGED files /\ fd' = [fd EXCEPT ![o] = NoFile]

LEMMA OpensStep ==
    ASSUME Table, NEW o \in Objects, NEW sane, NEW ok \in BOOLEAN, Opens(o, sane, ok),
           ok => Unused # {}
    PROVE  /\ ok => \E n \in Unused : Gives(o, n)
           /\ ~ok => GivesNone(o)
           /\ Blame(o, "open")
  <1>1. Unused \in SUBSET Nat /\ NoFile \notin Numbers
    BY ProcessAssumption DEF Unused, Numbers, NoFile
  <1>2. ok => Min(Unused) \in Unused
    BY <1>1, MinIsThere
  <1>3. QED
    BY <1>2 DEF Opens, Gives, GivesNone

LEMMA FreedIsTable ==
    ASSUME Table, NEW o \in Objects
    PROVE  Freed(o) \in [Numbers -> Objects \cup {Nobody}]
  BY DEF Table, Freed

\* How a step changes the numbers, and where its object goes.
TableMoves(o) ==
    /\ UNCHANGED class
    /\ \E l \in PlacesOf(class[o]) : pc' = [pc EXCEPT ![o] = l]
    /\ faults' \in 0 .. MaxFaults
    /\ files' = files \/ files' = Freed(o) \/ \E n \in Unused : Gives(o, n)
    /\ \E n \in Numbers \cup {NoFile} : fd' = [fd EXCEPT ![o] = n]
    /\ opened' = opened \/ opened' = opened \ {o} \/ (class[o] = "uart" /\ opened' = opened \cup {o})

LEMMA MovesKeepTable ==
    ASSUME Table, NEW o \in Objects, TableMoves(o) PROVE Table'
  <1>1. files' \in [Numbers -> Objects \cup {Nobody}]
    <2>1. CASE UNCHANGED files
      BY <2>1 DEF Table
    <2>2. CASE files' = Freed(o)
      BY <2>2, FreedIsTable
    <2>3. ASSUME NEW n \in Unused, Gives(o, n) PROVE files' \in [Numbers -> Objects \cup {Nobody}]
      BY <2>3 DEF Table, Gives, Unused
    <2>4. QED
      BY <2>1, <2>2, <2>3 DEF TableMoves
  <1>2. fd' \in [Objects -> Numbers \cup {NoFile}]
    BY DEF TableMoves, Table
  <1>3. pc' \in [Objects -> AllPlaces] /\ \A u \in Objects : pc'[u] \in PlacesOf(class'[u])
    BY DEF TableMoves, Table, PlacesOf, AllPlaces
  <1>4. opened' \subseteq {u \in Objects : class'[u] = "uart"}
    BY DEF TableMoves, Table
  <1>5. QED
    BY <1>1, <1>2, <1>3, <1>4 DEF TableMoves, Table

LEMMA IoctlMoves ==
    ASSUME Table, NEW o \in Objects, NEW at \in SpiPlaces, NEW d, NEW w,
           NEW l \in SpiPlaces \cup {"ready"}, Ioctl(o, at, d, w, l), UNCHANGED opened
    PROVE  TableMoves(o)
  <1>1. pc[o] = at /\ UNCHANGED class /\ class[o] \in {"spi", "flash"}
    BY DEF Ioctl, Table, PlacesOf, SpiPlaces, FilePlaces, UartPlaces
  <1>2. PICK ok \in Outcomes(Reaches(o)) :
           /\ Spend(Reaches(o), ok)
           /\ IF ok THEN /\ UNCHANGED <<files, fd>>
                         /\ Goto(o, l)
                    ELSE /\ Goto(o, "ready")
                         /\ IF call[o].op = "open"
                            THEN files' = Freed(o) /\ fd' = [fd EXCEPT ![o] = NoFile]
                            ELSE UNCHANGED <<files, fd>>
    BY DEF Ioctl, Returns, Refused, Fails
  <1>3. faults' \in 0 .. MaxFaults
    <2>1. Reaches(o) \in BOOLEAN
      BY DEF Reaches
    <2>2. QED
      BY <1>2, <2>1, SpendStep DEF Table
  <1>4. l \in PlacesOf(class[o]) /\ "ready" \in PlacesOf(class[o])
    BY <1>1 DEF PlacesOf
  <1>5. \E m \in PlacesOf(class[o]) : pc' = [pc EXCEPT ![o] = m]
    BY <1>2, <1>4 DEF Goto
  <1>6. fd = [fd EXCEPT ![o] = fd[o]] /\ fd[o] \in Numbers \cup {NoFile}
    BY DEF Table
  <1>7. \E n \in Numbers \cup {NoFile} : fd' = [fd EXCEPT ![o] = n]
    BY <1>2, <1>6
  <1>8. QED
    BY <1>1, <1>2, <1>3, <1>5, <1>7 DEF TableMoves

LEMMA KeepsNumbers ==
    ASSUME Table, NEW o \in Objects, UNCHANGED <<class, files, fd>>,
           faults' \in 0 .. MaxFaults, UNCHANGED opened,
           NEW l \in PlacesOf(class[o]), pc' = [pc EXCEPT ![o] = l]
    PROVE  TableMoves(o)
  <1>1. fd = [fd EXCEPT ![o] = fd[o]] /\ fd[o] \in Numbers \cup {NoFile}
    BY DEF Table
  <1>2. QED
    BY <1>1 DEF TableMoves

LEMMA SpiStepMoves ==
    ASSUME Table, NEW o \in Objects, SpiStep(o), UNCHANGED opened
    PROVE  TableMoves(o)
  <1>1. fd = [fd EXCEPT ![o] = fd[o]] /\ fd[o] \in Numbers \cup {NoFile}
    BY DEF Table
  <1>2. /\ faults \in 0 .. MaxFaults /\ pc = [pc EXCEPT ![o] = pc[o]] /\ pc[o] \in PlacesOf(class[o])
        /\ {"none", "ready"} \subseteq PlacesOf(class[o])
        /\ class[o] \in {"spi", "flash"} => SpiPlaces \subseteq PlacesOf(class[o])
    BY DEF Table, PlacesOf
  <1>3. CASE spi_new(o) \/ spi_free(o)
    BY <1>1, <1>2, <1>3 DEF spi_new, spi_free, Goto, TableMoves
  <1>4. CASE spi_call(o) \/ sfud_spi_port_init(o) \/ spi_write_read(o)
    <2>1. PICK c : Calls(o, c) /\ c.op \in Ops
      BY <1>4, SpiAssumption DEF spi_call, sfud_spi_port_init, spi_write_read, Ops
    <2>2. First(c) \in SpiPlaces
      BY <2>1 DEF First, Ops, SpiPlaces
    <2>3. pc' = [pc EXCEPT ![o] = First(c)] /\ class[o] \in {"spi", "flash"}
      BY <1>4, <2>1 DEF spi_call, sfud_spi_port_init, spi_write_read, Calls, Goto
    <2>4. /\ UNCHANGED <<class, files, faults>>
          /\ fd' = fd \/ fd' = [fd EXCEPT ![o] = NoFile]
      BY <1>4 DEF spi_call, sfud_spi_port_init, spi_write_read
    <2>5. QED
      BY <1>1, <1>2, <2>2, <2>3, <2>4 DEF TableMoves
  <1>5. CASE spi_close(o)
    <2>1. PICK ok \in Outcomes(Behind(o) # Nobody) :
             /\ Spend(Behind(o) # Nobody, ok)
             /\ fd' = IF ok THEN [fd EXCEPT ![o] = NoFile] ELSE fd
      BY <1>5 DEF spi_close
    <2>2. faults' \in 0 .. MaxFaults
      BY <1>2, <2>1, SpendStep
    <2>3. fd' = fd \/ fd' = [fd EXCEPT ![o] = NoFile]
      BY <2>1
    <2>4. files' = Freed(o) /\ UNCHANGED <<class, pc>>
      BY <1>5 DEF spi_close
    <2>5. QED
      BY <1>1, <1>2, <2>2, <2>3, <2>4 DEF TableMoves
  <1>6. CASE OpenDevice(o)
    <2>1. PICK ok \in Outcomes(Unused # {}) :
             /\ Opens(o, Unused # {}, ok)
             /\ IF ok THEN Goto(o, "wrMode") ELSE Goto(o, "ready")
      BY <1>6 DEF OpenDevice, Fails, Returns
    <2>2. faults' \in 0 .. MaxFaults /\ ok \in BOOLEAN /\ (ok => Unused # {})
      BY <1>2, <2>1, SpendStep DEF Opens
    <2>3. /\ ok => \E n \in Unused : Gives(o, n)
          /\ ~ok => GivesNone(o)
      BY <2>1, <2>2, OpensStep
    <2>4. files' = files \/ \E n \in Unused : Gives(o, n)
      BY <2>2, <2>3 DEF GivesNone
    <2>5. \E n \in Numbers \cup {NoFile} : fd' = [fd EXCEPT ![o] = n]
      BY <2>2, <2>3 DEF Gives, GivesNone, Unused
    <2>6. pc[o] \in SpiPlaces /\ UNCHANGED class
      BY <1>6 DEF OpenDevice, SpiPlaces
    <2>7. class[o] \in {"spi", "flash"}
      BY <1>2, <2>6 DEF PlacesOf, SpiPlaces, FilePlaces, UartPlaces
    <2>8. \E l \in PlacesOf(class[o]) : pc' = [pc EXCEPT ![o] = l]
      BY <1>2, <2>1, <2>7 DEF Goto, SpiPlaces
    <2>9. QED
      BY <2>2, <2>4, <2>5, <2>6, <2>8 DEF TableMoves
  <1>7. CASE \/ ReadMode(o) \/ WriteMode(o) \/ WriteOrder(o) \/ WriteSpeed(o)
             \/ WriteBits(o) \/ Query(o) \/ Transfer(o)
    <2>1. /\ {"rdMode", "wrMode", "wrOrder", "wrSpeed", "wrBits", "query", "message"} \subseteq SpiPlaces
          /\ \A x : (IF x THEN "wrSpeed" ELSE "ready") \in SpiPlaces \cup {"ready"}
          /\ \A x : (IF x THEN "wrBits" ELSE "ready") \in SpiPlaces \cup {"ready"}
      BY DEF SpiPlaces
    <2>2. CASE ReadMode(o)
      BY <2>1, <2>2, IoctlMoves DEF ReadMode
    <2>3. CASE WriteMode(o)
      BY <2>1, <2>3, IoctlMoves DEF WriteMode
    <2>4. CASE WriteOrder(o)
      BY <2>1, <2>4, IoctlMoves DEF WriteOrder
    <2>5. CASE WriteSpeed(o)
      BY <2>1, <2>5, IoctlMoves DEF WriteSpeed
    <2>6. CASE WriteBits(o)
      BY <2>1, <2>6, IoctlMoves DEF WriteBits
    <2>7. CASE Query(o)
      BY <2>1, <2>7, IoctlMoves DEF Query
    <2>8. CASE Transfer(o)
      BY <2>1, <2>8, IoctlMoves DEF Transfer
    <2>9. QED
      BY <1>7, <2>2, <2>3, <2>4, <2>5, <2>6, <2>7, <2>8
  <1>8. QED
    BY <1>3, <1>4, <1>5, <1>6, <1>7 DEF SpiStep

LEMMA UartStepMoves ==
    ASSUME Table, NEW o \in Objects, UartStep(o) PROVE TableMoves(o)
  <1>1. fd = [fd EXCEPT ![o] = fd[o]] /\ fd[o] \in Numbers \cup {NoFile}
    BY DEF Table
  <1>2. /\ faults \in 0 .. MaxFaults /\ pc[o] \in PlacesOf(class[o])
        /\ class[o] = "uart" => {"none", "ready", "built", "attr", "closeAgain"} \subseteq PlacesOf(class[o])
        /\ pc[o] \in UartPlaces => class[o] = "uart"
    BY DEF Table, PlacesOf, FilePlaces, UartPlaces, SpiPlaces
  <1>3. CASE CdrawUart(o)
    <2>1. PICK n \in Numbers \cup {NoFile} : fd' = [fd EXCEPT ![o] = n]
      BY <1>3 DEF CdrawUart
    <2>2. /\ UNCHANGED <<class, files, faults>> /\ class[o] = "uart"
          /\ pc' = [pc EXCEPT ![o] = "built"] /\ opened' = opened \ {o}
      BY <1>3 DEF CdrawUart, Goto
    <2>3. QED
      BY <1>2, <2>1, <2>2 DEF TableMoves
  <1>4. CASE openUart(o)
    <2>1. PICK ok \in Outcomes(Unused # {} /\ ~Uses(o, Nothing))
                         \cup (IF Uses(o, Garbage) THEN {FALSE} ELSE {}) :
             /\ Opens(o, Unused # {} /\ ~Uses(o, Nothing) /\ ~Uses(o, Garbage), ok)
             /\ Goto(o, IF ok THEN "attr" ELSE "ready")
      BY <1>4 DEF openUart
    <2>2. ok \in BOOLEAN /\ (ok => Unused # {})
      BY <2>1 DEF Outcomes
    <2>3. /\ ok => \E n \in Unused : Gives(o, n)
          /\ ~ok => GivesNone(o)
      BY <2>1, <2>2, OpensStep
    <2>4. faults' \in 0 .. MaxFaults
      <3>1. CASE Uses(o, Garbage)
        BY <1>2, <2>1, <3>1 DEF Opens, Spend
      <3>2. CASE ~Uses(o, Garbage)
        <4>1. /\ ok \in Outcomes(Unused # {} /\ ~Uses(o, Nothing))
              /\ Spend(Unused # {} /\ ~Uses(o, Nothing), ok)
          BY <2>1, <3>2 DEF Opens, Spend
        <4>2. QED
          BY <1>2, <4>1, SpendStep
      <3>3. QED
        BY <3>1, <3>2
    <2>5. files' = files \/ \E n \in Unused : Gives(o, n)
      BY <2>2, <2>3 DEF GivesNone
    <2>6. \E n \in Numbers \cup {NoFile} : fd' = [fd EXCEPT ![o] = n]
      BY <2>2, <2>3 DEF Gives, GivesNone, Unused
    <2>7. UNCHANGED class /\ class[o] = "uart" /\ opened' = opened \cup {o}
      BY <1>4 DEF openUart
    <2>8. \E l \in PlacesOf(class[o]) : pc' = [pc EXCEPT ![o] = l]
      BY <1>2, <2>1, <2>7 DEF Goto
    <2>9. QED
      BY <2>4, <2>5, <2>6, <2>7, <2>8 DEF TableMoves
  <1>5. CASE GetAttr(o)
    <2>1. faults' \in 0 .. MaxFaults
      BY <1>2, <1>5, SpendStep DEF GetAttr
    <2>2. /\ UNCHANGED <<class, files, fd, opened>> /\ pc' = [pc EXCEPT ![o] = "ready"]
          /\ class[o] = "uart"
      BY <1>2, <1>5 DEF GetAttr, Goto, UartPlaces
    <2>3. QED
      BY <1>2, <2>1, <2>2, KeepsNumbers
  <1>6. CASE CloseUart(o)
    <2>1. PICK ok \in Outcomes(Behind(o) # Nobody) :
             /\ Spend(Behind(o) # Nobody, ok)
             /\ files' = Freed(o)
             /\ IF ok THEN Goto(o, "closeAgain") /\ UNCHANGED <<fd, opened>>
                      ELSE /\ Goto(o, "none")
                           /\ fd' = [fd EXCEPT ![o] = NoFile]
                           /\ opened' = opened \ {o}
      BY <1>6 DEF CloseUart
    <2>2. faults' \in 0 .. MaxFaults
      BY <1>2, <2>1, SpendStep
    <2>3. UNCHANGED class /\ class[o] = "uart"
      BY <1>6 DEF CloseUart
    <2>4. \E l \in PlacesOf(class[o]) : pc' = [pc EXCEPT ![o] = l]
      BY <1>2, <2>1, <2>3 DEF Goto
    <2>5. \E n \in Numbers \cup {NoFile} : fd' = [fd EXCEPT ![o] = n]
      BY <1>1, <2>1
    <2>6. opened' = opened \/ opened' = opened \ {o}
      BY <2>1
    <2>7. QED
      BY <2>1, <2>2, <2>3, <2>4, <2>5, <2>6 DEF TableMoves
  <1>7. CASE CloseUartAgain(o)
    <2>1. /\ UNCHANGED <<class, faults>> /\ pc' = [pc EXCEPT ![o] = "none"] /\ class[o] = "uart"
          /\ files' = Freed(o) /\ fd' = [fd EXCEPT ![o] = NoFile] /\ opened' = opened \ {o}
      BY <1>2, <1>7 DEF CloseUartAgain, Goto, UartPlaces
    <2>2. QED
      BY <1>2, <2>1 DEF TableMoves
  <1>8. QED
    BY <1>3, <1>4, <1>5, <1>6, <1>7 DEF UartStep

LEMMA NetStepMoves ==
    ASSUME Table, NEW o \in Objects, NetStep(o), UNCHANGED opened PROVE TableMoves(o)
  <1>1. fd = [fd EXCEPT ![o] = fd[o]] /\ fd[o] \in Numbers \cup {NoFile}
    BY DEF Table
  <1>2. /\ faults \in 0 .. MaxFaults /\ pc[o] \in PlacesOf(class[o])
        /\ IsNet(o) => {"none", "bind", "built"} \subseteq PlacesOf(class[o])
        /\ pc[o] = "bind" => IsNet(o)
    BY DEF Table, PlacesOf, FilePlaces, UartPlaces, SpiPlaces, IsNet
  <1>3. CASE CdrawNet(o)
    <2>1. PICK ok \in Outcomes(Unused # {}) : Opens(o, Unused # {}, ok)
      BY <1>3 DEF CdrawNet
    <2>2. faults' \in 0 .. MaxFaults /\ ok \in BOOLEAN /\ (ok => Unused # {})
      BY <1>2, <2>1, SpendStep DEF Opens
    <2>3. /\ ok => \E n \in Unused : Gives(o, n)
          /\ ~ok => GivesNone(o)
      BY <2>1, <2>2, OpensStep
    <2>4. files' = files \/ \E n \in Unused : Gives(o, n)
      BY <2>2, <2>3 DEF GivesNone
    <2>5. \E n \in Numbers \cup {NoFile} : fd' = [fd EXCEPT ![o] = n]
      BY <2>2, <2>3 DEF Gives, GivesNone, Unused
    <2>6. UNCHANGED class /\ pc' = [pc EXCEPT ![o] = "bind"] /\ IsNet(o)
      BY <1>3 DEF CdrawNet, Goto
    <2>7. QED
      BY <1>2, <2>2, <2>4, <2>5, <2>6 DEF TableMoves
  <1>4. CASE Bind(o)
    <2>1. faults' \in 0 .. MaxFaults
      <3>1. (Behind(o) # Nobody /\ IsNet(Behind(o))) \in BOOLEAN
        OBVIOUS
      <3>2. QED
        BY <1>2, <1>4, <3>1, SpendStep DEF Bind
    <2>2. /\ UNCHANGED <<class, files, fd>> /\ pc' = [pc EXCEPT ![o] = "built"] /\ IsNet(o)
      BY <1>2, <1>4 DEF Bind, Goto
    <2>3. QED
      BY <1>2, <2>1, <2>2, KeepsNumbers
  <1>5. CASE DestroyNet(o)
    <2>1. /\ UNCHANGED <<class, faults>> /\ pc' = [pc EXCEPT ![o] = "none"] /\ IsNet(o)
          /\ files' = Freed(o) /\ fd' = [fd EXCEPT ![o] = NoFile]
      BY <1>5 DEF DestroyNet, Goto
    <2>2. QED
      BY <1>2, <2>1 DEF TableMoves
  <1>6. QED
    BY <1>3, <1>4, <1>5 DEF NetStep

LEMMA JsonStepMoves ==
    ASSUME Table, NEW o \in Objects, JsonStep(o), UNCHANGED opened
    PROVE  TableMoves(o) /\ UNCHANGED <<class, files, fd, faults, blame>>
  <1>1. UNCHANGED <<class, files, fd, faults, blame>>
    BY DEF JsonStep, InitByJson, TestFile, SkipFile, CreateFile, PrintFile, ReadFile, COSD_OpenCL,
       DestroyOsd
  <1>2. /\ faults \in 0 .. MaxFaults /\ pc = [pc EXCEPT ![o] = pc[o]] /\ pc[o] \in PlacesOf(class[o])
        /\ {"none", "ready"} \subseteq PlacesOf(class[o])
        /\ class[o] \notin {"spi", "flash"} => FilePlaces \subseteq PlacesOf(class[o])
        /\ pc[o] \in FilePlaces => class[o] \notin {"spi", "flash"}
    BY DEF Table, PlacesOf, FilePlaces, UartPlaces, SpiPlaces
  <1>3. \E l \in PlacesOf(class[o]) : pc' = [pc EXCEPT ![o] = l]
    BY <1>2 DEF JsonStep, InitByJson, TestFile, SkipFile, CreateFile, PrintFile, ReadFile,
       COSD_OpenCL, DestroyOsd, Goto, FilePlaces
  <1>4. QED
    BY <1>1, <1>2, <1>3, KeepsNumbers

LEMMA TableInit == Init => Table
  BY ProcessAssumption DEF Init, ProcessInit, UartInit, Table, PlacesOf, AllPlaces

LEMMA TableStep == Table /\ [Next]_vars => Table'
  <1> SUFFICES ASSUME Table, [Next]_vars PROVE Table'
    OBVIOUS
  <1>1. CASE UNCHANGED vars
    BY <1>1 DEF Table, vars, process
  <1>2. CASE Crash
    BY <1>2 DEF Crash, Table, PlacesOf, AllPlaces
  <1>3. ASSUME NEW o \in Objects,
               \/ SpiStep(o) /\ UNCHANGED <<json, opened>>
               \/ UartStep(o) /\ UNCHANGED spi
               \/ (NetStep(o) \/ JsonStep(o)) /\ UNCHANGED <<spi, opened>>
        PROVE  Table'
    BY <1>3, SpiStepMoves, UartStepMoves, NetStepMoves, JsonStepMoves, MovesKeepTable
  <1>4. QED
    BY <1>1, <1>2, <1>3 DEF Next

LEMMA TableInvariant == Spec => []Table
  BY TableInit, TableStep, PTL DEF Spec

-----------------------------------------------------------------------------
\* The parameter files.
Values == Objects \cup {Absent, Empty, Garbage, Zeros, Nothing}
Saves  == [by : Objects \cup {Stranger}, of : Values]
FileClasses == {"uart", "net", "net1", "osd"}

Params == /\ file \in [FileClasses -> Saves]
          /\ json_ \in [Objects -> Values]
          /\ param \in [Objects -> SUBSET Saves]
          /\ turn \in [Objects -> 0 .. FONT_ARRAY_SIZE]
          /\ \A o \in Objects : pc[o] = "read" => turn[o] > 0
          /\ crashes \in 0 .. MaxCrashes

\* What an object of class c at place p has in its member: nothing that was
\* read, and no garbage where its class prints none.
Unread(p, c, j) ==
    p \in {"bind", "built", "create", "print"} =>
        /\ j # Nothing
        /\ c = "net1" => j # Garbage
        /\ c = "osd" /\ p \in {"create", "print"} => j # Garbage

\* What an object of class c at place p may use, the class's file being f.
FromFile(c, p, f, o, q) ==
    /\ p = "create" => f = NoFileYet
    /\ p = "print" => f = EmptyFile
    /\ p = "read" => Printed(f)
    /\ \A s \in q : s = Given(o) \/ (s = f /\ Printed(f))

\* What the class's file may be.
GoodFile(c, f) == Printed(f) => /\ f.of # Nothing
                                /\ f.of = Garbage => c \in {"uart", "net"}

\* The file of a class nobody disturbed: absent until one object creates it,
\* empty while that object prints it, and the same save ever after.
SavedIn(c) ==
    /\ GoodFile(c, file[c])
    /\ \A o \in Objects : class[o] = c => FromFile(c, pc[o], file[c], o, param[o])
    /\ \A o, u \in Objects : /\ class[o] = c /\ pc[o] \in {"create", "print"}
                             /\ class[u] = c /\ pc[u] \in {"create", "print"}
                             => o = u
    /\ \/ file[c] = NoFileYet
       \/ Printed(file[c])
       \/ \E o \in Objects : class[o] = c /\ pc[o] = "print"

Saved == /\ \A o \in Objects : /\ Unread(pc[o], class[o], json_[o])
                               /\ class[o] \notin FileClasses => param[o] = {}
         /\ \A c \in FileClasses : c \in disturbed \/ SavedIn(c)

LEMMA SaveIsTyped ==
    /\ \A o \in Objects \cup {Stranger}, v \in Values :
          Save(o, v) \in Saves /\ Save(o, v).by = o /\ Save(o, v).of = v
    /\ \A o \in Objects : o \in Values /\ o \notin {Absent, Empty, Garbage, Zeros, Nothing, Stranger}
    /\ {Absent, Empty, Garbage, Zeros, Nothing} \subseteq Values
    /\ NoFileYet \in Saves /\ EmptyFile \in Saves /\ ~Printed(NoFileYet) /\ ~Printed(EmptyFile)
    /\ \A o \in Objects : Given(o) \in Saves
    /\ \A f \in Saves : f.by \in Objects \cup {Stranger} /\ f.of \in Values
    /\ Garbage # Nothing /\ Zeros # Nothing /\ Zeros # Garbage
    /\ NoFileYet # EmptyFile
  <1>1. /\ \A o \in Objects \cup {Stranger}, v \in Values :
              Save(o, v) \in Saves /\ Save(o, v).by = o /\ Save(o, v).of = v
        /\ \A o \in Objects : o \in Values
        /\ {Absent, Empty, Garbage, Zeros, Nothing} \subseteq Values
        /\ \A f \in Saves : f.by \in Objects \cup {Stranger} /\ f.of \in Values
    BY DEF Save, Saves, Values
  <1>2. /\ \A o \in Objects : o \notin {Absent, Empty, Garbage, Zeros, Nothing, Stranger}
        /\ Garbage # Nothing /\ Zeros # Nothing /\ Zeros # Garbage /\ Absent # Empty
    BY JsonAssumption DEF Absent, Empty, Garbage, Zeros, Nothing
  <1>3. /\ NoFileYet \in Saves /\ EmptyFile \in Saves /\ \A o \in Objects : Given(o) \in Saves
        /\ NoFileYet.by = Stranger /\ EmptyFile.by = Stranger
        /\ NoFileYet.of = Absent /\ EmptyFile.of = Empty
    BY <1>1 DEF NoFileYet, EmptyFile, Given
  <1>4. ~Printed(NoFileYet) /\ ~Printed(EmptyFile) /\ NoFileYet # EmptyFile
    BY <1>2, <1>3 DEF Printed
  <1>5. QED
    BY <1>1, <1>2, <1>3, <1>4

LEMMA ParamsInit == Init => Params /\ Saved
  <1> SUFFICES ASSUME Init PROVE Params /\ Saved
    OBVIOUS
  <1>1. /\ file = [c \in FileClasses |-> NoFileYet] /\ json_ = [o \in Objects |-> Garbage]
        /\ param = [o \in Objects |-> {}] /\ turn = [o \in Objects |-> 0] /\ crashes = 0
        /\ pc = [o \in Objects |-> "none"]
    BY DEF Init, JsonInit, ProcessInit, FileClasses
  <1>2. Params
    BY <1>1, SaveIsTyped, JsonAssumption DEF Params
  <1>3. \A c \in FileClasses : SavedIn(c)
    BY <1>1, SaveIsTyped DEF SavedIn, GoodFile, FromFile
  <1>4. Saved
    BY <1>1, <1>3 DEF Saved, Unread
  <1>5. QED
    BY <1>2, <1>4

\* A step of o, which goes to l with j in its json_, p in its param and k slots
\* to load, and leaves f in the file of its class.
Own(o, l, j, p, k, f) ==
    /\ UNCHANGED <<class, crashes>> /\ disturbed \subseteq disturbed'
    /\ pc' = [pc EXCEPT ![o] = l]
    /\ j \in Values /\ json_' = [json_ EXCEPT ![o] = j]
    /\ p \in SUBSET Saves /\ param' = [param EXCEPT ![o] = p]
    /\ k \in 0 .. FONT_ARRAY_SIZE /\ turn' = [turn EXCEPT ![o] = k]
    /\ f \in Saves /\ class[o] \in FileClasses /\ file' = [file EXCEPT ![class[o]] = f]
    /\ l = "read" => k > 0
    /\ Unread(l, class[o], j)

\* Such a step concerns the file of its own class only, and there it is enough
\* to look at o.
LEMMA ParamsOwn ==
    ASSUME Table, Params, Saved, NEW o \in Objects, NEW l, NEW j, NEW p, NEW k, NEW f,
           Own(o, l, j, p, k, f),
           class[o] \notin disturbed' =>
               /\ GoodFile(class[o], f)
               /\ FromFile(class[o], l, f, o, p)
               /\ \A u \in Objects \ {o} : class[u] = class[o] =>
                     /\ FromFile(class[o], pc[u], f, u, param[u])
                     /\ ~(l \in {"create", "print"} /\ pc[u] \in {"create", "print"})
               /\ \/ f = NoFileYet
                  \/ Printed(f)
                  \/ l = "print"
                  \/ \E u \in Objects \ {o} : class[u] = class[o] /\ pc[u] = "print"
    PROVE  Params' /\ Saved'
  <1> DEFINE c0 == class[o]
  <1>1. /\ pc'[o] = l /\ \A u \in Objects : u # o => pc'[u] = pc[u]
        /\ param'[o] = p /\ json_'[o] = j /\ turn'[o] = k
        /\ \A u \in Objects : u # o => /\ param'[u] = param[u] /\ json_'[u] = json_[u]
                                       /\ turn'[u] = turn[u]
        /\ file'[c0] = f /\ \A c \in FileClasses : c # c0 => file'[c] = file[c]
        /\ c0 \in FileClasses
    BY DEF Table, Params, Own
  <1>2. Params'
    <2>1. /\ json_' \in [Objects -> Values] /\ param' \in [Objects -> SUBSET Saves]
          /\ file' \in [FileClasses -> Saves]
      BY DEF Params, Own
    <2>2. turn' \in [Objects -> 0 .. FONT_ARRAY_SIZE]
      BY DEF Params, Own
    <2>3. \A u \in Objects : pc'[u] = "read" => turn'[u] > 0
      BY <1>1 DEF Params, Own
    <2>4. QED
      BY <2>1, <2>2, <2>3 DEF Params, Own
  <1>3. \A u \in Objects : /\ Unread(pc'[u], class'[u], json_'[u])
                           /\ class'[u] \notin FileClasses => param'[u] = {}
    BY <1>1 DEF Own, Saved
  <1>4. ASSUME NEW c \in FileClasses, c \notin disturbed' PROVE SavedIn(c)'
    <2>1. class' = class /\ c \notin disturbed
      BY <1>4 DEF Own
    <2>2. CASE c # c0
      <3>1. SavedIn(c) /\ file'[c] = file[c]
        BY <1>1, <2>1, <2>2 DEF Saved
      <3>2. \A u \in Objects : class[u] = c => pc'[u] = pc[u] /\ param'[u] = param[u]
        BY <1>1, <2>2
      <3>3. QED
        BY <2>1, <3>1, <3>2 DEF SavedIn
    <2>3. CASE c = c0
      <3>1. /\ GoodFile(c, f) /\ FromFile(c, l, f, o, p)
            /\ \A u \in Objects \ {o} : class[u] = c =>
                  /\ FromFile(c, pc[u], f, u, param[u])
                  /\ ~(l \in {"create", "print"} /\ pc[u] \in {"create", "print"})
            /\ \/ f = NoFileYet
               \/ Printed(f)
               \/ l = "print"
               \/ \E u \in Objects \ {o} : class[u] = c /\ pc[u] = "print"
        BY <1>4, <2>3
      <3>2. SavedIn(c) /\ file'[c] = f
        BY <1>1, <2>1, <2>3 DEF Saved
      <3>3. \A u \in Objects : class[u] = c => FromFile(c, pc'[u], f, u, param'[u])
        BY <1>1, <3>1
      <3>4. \A u, v \in Objects : /\ class[u] = c /\ pc'[u] \in {"create", "print"}
                                  /\ class[v] = c /\ pc'[v] \in {"create", "print"}
                                  => u = v
        BY <1>1, <3>1, <3>2 DEF SavedIn
      <3>5. \/ f = NoFileYet
            \/ Printed(f)
            \/ \E u \in Objects : class[u] = c /\ pc'[u] = "print"
        BY <1>1, <2>3, <3>1
      <3>6. QED
        BY <2>1, <3>1, <3>2, <3>3, <3>4, <3>5 DEF SavedIn
    <2>4. QED
      BY <2>2, <2>3
  <1>5. QED
    BY <1>2, <1>3, <1>4 DEF Saved

\* The steps of o that leave the files alone and load nothing.
LEMMA ParamsQuiet ==
    ASSUME Table, Params, Saved, NEW o \in Objects, class[o] \in FileClasses,
           UNCHANGED <<class, file, turn, disturbed, crashes>>,
           NEW l, l \notin {"create", "print", "read"}, pc[o] \notin {"create", "print"},
           pc' = [pc EXCEPT ![o] = l],
           NEW j \in Values, json_' = [json_ EXCEPT ![o] = j], Unread(l, class[o], j),
           NEW p \in SUBSET Saves, param' = [param EXCEPT ![o] = p],
           p \in {{}, {Given(o)}, param[o]}
    PROVE  Params' /\ Saved'
  <1> DEFINE c == class[o]
             f == file[c]
  <1>1. Own(o, l, j, p, turn[o], f)
    <2>1. /\ f \in Saves /\ file = [file EXCEPT ![c] = f]
          /\ turn[o] \in 0 .. FONT_ARRAY_SIZE /\ turn = [turn EXCEPT ![o] = turn[o]]
      BY DEF Params
    <2>2. QED
      BY <2>1 DEF Own
  <1>2. ASSUME c \notin disturbed
        PROVE  /\ GoodFile(c, f)
               /\ FromFile(c, l, f, o, p)
               /\ \A u \in Objects \ {o} : class[u] = c =>
                     /\ FromFile(c, pc[u], f, u, param[u])
                     /\ ~(l \in {"create", "print"} /\ pc[u] \in {"create", "print"})
               /\ \/ f = NoFileYet
                  \/ Printed(f)
                  \/ l = "print"
                  \/ \E u \in Objects \ {o} : class[u] = c /\ pc[u] = "print"
    <2>1. SavedIn(c)
      BY <1>2 DEF Saved
    <2>2. FromFile(c, l, f, o, p)
      BY <2>1 DEF SavedIn, FromFile
    <2>3. QED
      BY <2>1, <2>2 DEF SavedIn
  <1> HIDE DEF c, f
  <1>3. QED
    BY <1>1, <1>2, ParamsOwn DEF c, f

LEMMA JsonParams ==
    ASSUME Table, Params, Saved, NEW o \in Objects, JsonStep(o), UNCHANGED class
    PROVE  Params' /\ Saved'
  <1> DEFINE c == class[o]
  <1>1. /\ json_ = [json_ EXCEPT ![o] = json_[o]] /\ json_[o] \in Values
        /\ param = [param EXCEPT ![o] = param[o]] /\ param[o] \in SUBSET Saves
        /\ turn = [turn EXCEPT ![o] = turn[o]] /\ turn[o] \in 0 .. FONT_ARRAY_SIZE
        /\ Unread(pc[o], c, json_[o])
    BY DEF Params, Saved
  <1>2. c \in FileClasses
    <2>1. pc[o] \in FilePlaces \/ c = "osd"
      BY DEF JsonStep, InitByJson, TestFile, SkipFile, CreateFile, PrintFile, ReadFile, COSD_OpenCL,
         DestroyOsd, FilePlaces
    <2>2. QED
      BY <2>1 DEF Table, PlacesOf, Classes, FileClasses, FilePlaces, SpiPlaces
  <1>3. MyFile(o) = file[c] /\ file[c] \in Saves /\ file = [file EXCEPT ![c] = file[c]]
    BY <1>2 DEF MyFile, Params
  <1>4. c \notin disturbed =>
          /\ SavedIn(c) /\ GoodFile(c, file[c])
          /\ FromFile(c, pc[o], file[c], o, param[o])
          /\ \A u \in Objects : class[u] = c => FromFile(c, pc[u], file[c], u, param[u])
    BY <1>2 DEF Saved, SavedIn
  <1>5. CASE TestFile(o)
    <2> DEFINE l == IF file[c] = NoFileYet THEN "create" ELSE "read"
               k == IF c = "osd" THEN FONT_ARRAY_SIZE ELSE 1
               j == IF c = "osd" /\ file[c] = NoFileYet THEN Zeros ELSE json_[o]
    <2>1. /\ pc' = [pc EXCEPT ![o] = l] /\ turn' = [turn EXCEPT ![o] = k]
          /\ pc[o] = "built" /\ UNCHANGED <<param, file, crashes>>
          /\ disturbed' = IF Creating(c) THEN disturbed \cup {c} ELSE disturbed
      BY <1>3, <1>5 DEF TestFile, Goto, Tests
    <2>2. json_' = [json_ EXCEPT ![o] = j]
      BY <1>1, <1>3, <1>5 DEF TestFile
    <2>3. j \in Values /\ Unread(l, c, j)
      BY <1>1, <2>1, SaveIsTyped DEF Unread
    <2>4. k \in 0 .. FONT_ARRAY_SIZE /\ k > 0
      BY JsonAssumption
    <2>5. ASSUME c \notin disturbed'
          PROVE  /\ GoodFile(c, file[c])
                 /\ FromFile(c, l, file[c], o, param[o])
                 /\ \A u \in Objects \ {o} : class[u] = c =>
                       /\ FromFile(c, pc[u], file[c], u, param[u])
                       /\ ~(l \in {"create", "print"} /\ pc[u] \in {"create", "print"})
                 /\ \/ file[c] = NoFileYet
                    \/ Printed(file[c])
                    \/ l = "print"
                    \/ \E u \in Objects \ {o} : class[u] = c /\ pc[u] = "print"
      <3>1. c \notin disturbed /\ ~Creating(c)
        BY <2>1, <2>5
      <3>2. file[c] = NoFileYet \/ Printed(file[c])
        BY <1>4, <3>1 DEF SavedIn, Creating
      <3>3. FromFile(c, l, file[c], o, param[o])
        BY <1>4, <3>1, <3>2 DEF FromFile
      <3>4. QED
        BY <1>4, <3>1, <3>2, <3>3 DEF Creating
    <2> HIDE DEF l, k, j
    <2>6. Own(o, l, j, param[o], k, file[c])
      BY <1>1, <1>2, <1>3, <2>1, <2>2, <2>3, <2>4 DEF Own
    <2> HIDE DEF c
    <2>7. QED
      BY <2>5, <2>6, ParamsOwn DEF c
  <1>6. CASE SkipFile(o) \/ DestroyOsd(o)
    <2>1. PICK l \in {"ready", "none"} : pc' = [pc EXCEPT ![o] = l]
      BY <1>6 DEF SkipFile, DestroyOsd, Goto
    <2>2. /\ UNCHANGED <<class, json>> /\ pc[o] \notin {"create", "print"}
          /\ Unread(l, c, json_[o])
      BY <1>6 DEF SkipFile, DestroyOsd, Unread
    <2>3. QED
      BY <1>1, <1>2, <2>1, <2>2, ParamsQuiet DEF json
  <1>7. CASE CreateFile(o)
    <2>1. /\ pc' = [pc EXCEPT ![o] = "print"] /\ UNCHANGED <<json_, param, turn, disturbed, crashes>>
          /\ file' = [file EXCEPT ![c] = EmptyFile] /\ pc[o] = "create"
      BY <1>7 DEF CreateFile, Goto
    <2>2. ASSUME c \notin disturbed'
          PROVE  /\ GoodFile(c, EmptyFile)
                 /\ FromFile(c, "print", EmptyFile, o, param[o])
                 /\ \A u \in Objects \ {o} : class[u] = c =>
                       /\ FromFile(c, pc[u], EmptyFile, u, param[u])
                       /\ ~("print" \in {"create", "print"} /\ pc[u] \in {"create", "print"})
      <3>1. c \notin disturbed /\ file[c] = NoFileYet
        BY <1>4, <2>1, <2>2 DEF FromFile
      <3>2. ~Printed(file[c])
        BY <3>1, SaveIsTyped
      <3>3. \A u \in Objects \ {o} : class[u] = c => pc[u] \notin {"create", "print", "read"}
        BY <1>4, <2>1, <3>1, <3>2 DEF SavedIn, FromFile
      <3>4. \A u \in Objects : class[u] = c => \A s \in param[u] : s = Given(u)
        BY <1>4, <3>1, <3>2 DEF FromFile
      <3>5. QED
        BY <3>3, <3>4, SaveIsTyped DEF GoodFile, FromFile
    <2>3. Own(o, "print", json_[o], param[o], turn[o], EmptyFile)
      <3>1. Unread("print", c, json_[o])
        BY <1>1, <2>1 DEF Unread
      <3>2. QED
        BY <1>1, <1>2, <2>1, <3>1, SaveIsTyped DEF Own
    <2> HIDE DEF c
    <2>4. QED
      BY <2>2, <2>3, ParamsOwn DEF c
  <1>8. CASE PrintFile(o)
    <2> DEFINE f == Save(o, json_[o])
    <2>1. /\ pc' = [pc EXCEPT ![o] = "ready"] /\ UNCHANGED <<json_, param, turn, disturbed, crashes>>
          /\ file' = [file EXCEPT ![c] = f] /\ pc[o] = "print"
      BY <1>8 DEF PrintFile, Goto
    <2>2. f \in Saves /\ f.by = o /\ f.of = json_[o] /\ Printed(f)
      BY <1>1, SaveIsTyped DEF Printed
    <2>3. GoodFile(c, f)
      BY <1>1, <1>2, <2>1, <2>2 DEF GoodFile, Unread, FileClasses
    <2>4. Own(o, "ready", json_[o], param[o], turn[o], f)
      <3>1. Unread("ready", c, json_[o])
        BY DEF Unread
      <3>2. QED
        BY <1>1, <1>2, <2>1, <2>2, <3>1 DEF Own
    <2> HIDE DEF f
    <2>5. ASSUME c \notin disturbed'
          PROVE  /\ FromFile(c, "ready", f, o, param[o])
                 /\ \A u \in Objects \ {o} : class[u] = c =>
                       /\ FromFile(c, pc[u], f, u, param[u])
                       /\ ~("ready" \in {"create", "print"} /\ pc[u] \in {"create", "print"})
      <3>1. c \notin disturbed /\ file[c] = EmptyFile
        BY <1>4, <2>1, <2>5 DEF FromFile
      <3>2. ~Printed(file[c])
        BY <3>1, SaveIsTyped
      <3>3. \A u \in Objects \ {o} : class[u] = c => pc[u] \notin {"create", "print", "read"}
        BY <1>4, <2>1, <3>1, <3>2 DEF SavedIn, FromFile
      <3>4. \A u \in Objects : class[u] = c => \A s \in param[u] : s = Given(u)
        BY <1>4, <3>1, <3>2 DEF FromFile
      <3>5. QED
        BY <3>3, <3>4 DEF FromFile
    <2> HIDE DEF c
    <2>6. QED
      BY <2>2, <2>3, <2>4, <2>5, ParamsOwn DEF c
  <1>9. CASE ReadFile(o)
    <2> DEFINE got == IF Printed(file[c]) THEN file[c] ELSE Save(Stranger, Nothing)
    <2>1. pc[o] = "read" /\ UNCHANGED <<file, disturbed, crashes>>
      BY <1>9 DEF ReadFile
    <2>2. got \in Saves /\ got.of \in Values
      BY <1>3, SaveIsTyped
    <2>3. c \notin disturbed => got = file[c] /\ Printed(file[c])
      BY <1>4, <2>1 DEF FromFile
    <2>4. PICK p \in SUBSET Saves : /\ param' = [param EXCEPT ![o] = p]
                                    /\ \A s \in p : s \in param[o] \/ s = got
      <3>1. param' = [param EXCEPT ![o] = param[o] \cup {got}] \/ param' = [param EXCEPT ![o] = {got}]
        BY <1>3, <1>9 DEF ReadFile
      <3>2. QED
        BY <1>1, <2>2, <3>1
    <2>5. PICK k \in 0 .. FONT_ARRAY_SIZE, l \in {"read", "ready"} :
             /\ turn' = [turn EXCEPT ![o] = k] /\ pc' = [pc EXCEPT ![o] = l]
             /\ l = "read" => k > 0
      <3>1. turn[o] \in 1 .. FONT_ARRAY_SIZE /\ turn[o] - 1 \in 0 .. FONT_ARRAY_SIZE
        BY <1>1, <2>1, JsonAssumption DEF Params
      <3>2. turn' = [turn EXCEPT ![o] = turn[o] - 1]
        BY <1>9 DEF ReadFile
      <3>3. CASE turn[o] = 1
        BY <1>9, <3>1, <3>2, <3>3 DEF ReadFile, LastSlot, Goto
      <3>4. CASE turn[o] # 1
        <4>1. pc' = [pc EXCEPT ![o] = "read"]
          BY <1>9, <2>1, <3>4 DEF ReadFile, LastSlot, Table
        <4>2. turn[o] - 1 > 0
          BY <3>1, <3>4
        <4>3. QED
          BY <3>1, <3>2, <4>1, <4>2
      <3>5. QED
        BY <3>3, <3>4
    <2>6. json_' = [json_ EXCEPT ![o] = got.of]
      BY <1>3, <1>9 DEF ReadFile
    <2> HIDE DEF got
    <2>7. Own(o, l, got.of, p, k, file[c])
      <3>1. Unread(l, c, got.of)
        BY DEF Unread
      <3>2. QED
        BY <1>2, <1>3, <2>1, <2>2, <2>4, <2>5, <2>6, <3>1 DEF Own
    <2>8. ASSUME c \notin disturbed'
          PROVE  /\ GoodFile(c, file[c])
                 /\ FromFile(c, l, file[c], o, p)
                 /\ \A u \in Objects \ {o} : class[u] = c =>
                       /\ FromFile(c, pc[u], file[c], u, param[u])
                       /\ ~(l \in {"create", "print"} /\ pc[u] \in {"create", "print"})
                 /\ Printed(file[c])
      <3>1. c \notin disturbed /\ Printed(file[c]) /\ got = file[c]
        BY <2>1, <2>3, <2>8
      <3>2. FromFile(c, l, file[c], o, p)
        BY <1>4, <2>4, <2>5, <3>1 DEF FromFile
      <3>3. QED
        BY <1>4, <3>1, <3>2
    <2> HIDE DEF c
    <2>9. QED
      BY <2>7, <2>8, ParamsOwn DEF c
  <1>10. CASE COSD_OpenCL(o)
    <2>1. /\ pc[o] = "none" /\ pc' = [pc EXCEPT ![o] = "built"] /\ c = "osd"
          /\ UNCHANGED <<class, file, turn, disturbed, crashes>>
          /\ param' = [param EXCEPT ![o] = {}] /\ json_' = [json_ EXCEPT ![o] = Garbage]
      BY <1>10 DEF COSD_OpenCL, Goto
    <2>2. Unread("built", c, Garbage) /\ Garbage \in Values
      BY <2>1, SaveIsTyped DEF Unread
    <2>3. {} \in SUBSET Saves
      OBVIOUS
    <2>4. QED
      BY <1>2, <2>1, <2>2, <2>3, ParamsQuiet
  <1>11. QED
    BY <1>5, <1>6, <1>7, <1>8, <1>9, <1>10 DEF JsonStep, InitByJson

\* Who makes a system call of spi.c has a handle.
LEMMA SpiStepClass ==
    ASSUME Table, NEW o \in Objects, SpiStep(o) PROVE class[o] \in {"spi", "flash"}
  <1>1. pc[o] \in SpiPlaces => class[o] \in {"spi", "flash"}
    BY DEF Table, PlacesOf, SpiPlaces, FilePlaces, UartPlaces
  <1>2. class[o] \in {"spi", "flash"} \/ pc[o] \in SpiPlaces
    BY DEF SpiStep, spi_new, spi_free, spi_call, spi_close, sfud_spi_port_init, spi_write_read,
       OpenDevice, ReadMode, WriteMode, WriteOrder, WriteSpeed, WriteBits, Query, Transfer, Ioctl,
       SpiPlaces
  <1>3. QED
    BY <1>1, <1>2

\* Handles have no file.
LEMMA SpiParams ==
    ASSUME Table, Params, Saved, NEW o \in Objects, SpiStep(o), UNCHANGED <<json, opened>>
    PROVE  Params' /\ Saved'
  <1>1. TableMoves(o) /\ class[o] \in {"spi", "flash"}
    BY SpiStepMoves, SpiStepClass
  <1>2. PICK l \in PlacesOf(class[o]) : pc' = [pc EXCEPT ![o] = l]
    BY <1>1 DEF TableMoves
  <1>3. l \notin {"read", "print", "create", "bind", "built"}
    BY <1>1, <1>2 DEF Table, PlacesOf, SpiPlaces
  <1>4. /\ pc'[o] = l /\ \A u \in Objects : u # o => pc'[u] = pc[u]
        /\ UNCHANGED <<class, file, json_, param, turn, disturbed, crashes>>
    BY <1>1, <1>2 DEF Table, TableMoves, json
  <1>5. Params'
    BY <1>3, <1>4 DEF Params
  <1>6. \A u \in Objects : /\ Unread(pc'[u], class'[u], json_'[u])
                           /\ class'[u] \notin FileClasses => param'[u] = {}
    BY <1>3, <1>4 DEF Saved, Unread
  <1>7. ASSUME NEW c \in FileClasses, c \notin disturbed' PROVE SavedIn(c)'
    <2>1. SavedIn(c) /\ \A u \in Objects : class[u] = c => pc'[u] = pc[u]
      BY <1>1, <1>4, <1>7 DEF Saved, FileClasses
    <2>2. QED
      BY <1>4, <2>1 DEF SavedIn
  <1>8. QED
    BY <1>5, <1>6, <1>7 DEF Saved

LEMMA UartParams ==
    ASSUME Table, Params, Saved, NEW o \in Objects, UartStep(o)
    PROVE  Params' /\ Saved'
  <1>1. /\ class[o] = "uart" /\ class[o] \in FileClasses
    <2>1. class[o] = "uart" \/ pc[o] \in {"attr", "closeAgain"}
      BY DEF UartStep, CdrawUart, openUart, GetAttr, CloseUart, CloseUartAgain
    <2>2. QED
      BY <2>1 DEF Table, PlacesOf, FileClasses, FilePlaces, SpiPlaces, UartPlaces
  <1>2. /\ json_ = [json_ EXCEPT ![o] = json_[o]] /\ json_[o] \in Values
        /\ param = [param EXCEPT ![o] = param[o]] /\ param[o] \in SUBSET Saves
    BY DEF Params
  <1>3. CASE CdrawUart(o)
    <2>1. {Given(o)} \in SUBSET Saves /\ Garbage \in Values /\ Unread("built", class[o], Garbage)
      BY <1>1, SaveIsTyped DEF Unread
    <2>2. /\ pc[o] = "none" /\ pc' = [pc EXCEPT ![o] = "built"]
          /\ json_' = [json_ EXCEPT ![o] = Garbage] /\ param' = [param EXCEPT ![o] = {Given(o)}]
          /\ UNCHANGED <<class, file, turn, disturbed, crashes>>
      BY <1>3 DEF CdrawUart, Goto
    <2>3. QED
      BY <1>1, <2>1, <2>2, ParamsQuiet
  <1>4. CASE openUart(o) \/ GetAttr(o) \/ CloseUart(o) \/ CloseUartAgain(o)
    <2>1. PICK l \in {"attr", "ready", "closeAgain", "none"} : pc' = [pc EXCEPT ![o] = l]
      BY <1>4 DEF openUart, GetAttr, CloseUart, CloseUartAgain, Goto
    <2>2. /\ UNCHANGED <<class, json>> /\ pc[o] \notin {"create", "print"}
          /\ Unread(l, class[o], json_[o])
      BY <1>4 DEF openUart, GetAttr, CloseUart, CloseUartAgain, Unread
    <2>3. QED
      BY <1>1, <1>2, <2>1, <2>2, ParamsQuiet DEF json
  <1>5. QED
    BY <1>3, <1>4 DEF UartStep

LEMMA NetParams ==
    ASSUME Table, Params, Saved, NEW o \in Objects, NetStep(o)
    PROVE  Params' /\ Saved'
  <1>1. class[o] \in {"net", "net1"} /\ class[o] \in FileClasses
    <2>1. class[o] \in {"net", "net1"} \/ pc[o] = "bind"
      BY DEF NetStep, CdrawNet, Bind, DestroyNet, IsNet
    <2>2. QED
      BY <2>1 DEF Table, PlacesOf, FileClasses, FilePlaces, SpiPlaces, UartPlaces
  <1>2. /\ json_ = [json_ EXCEPT ![o] = json_[o]] /\ json_[o] \in Values
        /\ param = [param EXCEPT ![o] = param[o]] /\ param[o] \in SUBSET Saves
        /\ Unread(pc[o], class[o], json_[o])
    BY DEF Params, Saved
  <1>3. CASE CdrawNet(o)
    <2> DEFINE j == IF class[o] = "net1" THEN o ELSE Garbage
    <2>1. {Given(o)} \in SUBSET Saves /\ j \in Values /\ Unread("bind", class[o], j)
      BY <1>1, SaveIsTyped DEF Unread
    <2>2. /\ pc[o] = "none" /\ pc' = [pc EXCEPT ![o] = "bind"]
          /\ json_' = [json_ EXCEPT ![o] = j] /\ param' = [param EXCEPT ![o] = {Given(o)}]
          /\ UNCHANGED <<class, file, turn, disturbed, crashes>>
      BY <1>3 DEF CdrawNet, Goto
    <2> HIDE DEF j
    <2>3. QED
      BY <1>1, <2>1, <2>2, ParamsQuiet
  <1>4. CASE Bind(o)
    <2>1. PICK j \in {o, json_[o]} : json_' = [json_ EXCEPT ![o] = j]
      BY <1>2, <1>4 DEF Bind
    <2>2. /\ pc[o] = "bind" /\ pc' = [pc EXCEPT ![o] = "built"]
          /\ UNCHANGED <<class, file, param, turn, disturbed, crashes>>
      BY <1>4 DEF Bind, Goto
    <2>3. j \in Values /\ Unread("built", class[o], j)
      BY <1>1, <1>2, <2>2, SaveIsTyped DEF Unread
    <2>4. QED
      BY <1>1, <1>2, <2>1, <2>2, <2>3, ParamsQuiet
  <1>5. CASE DestroyNet(o)
    <2>1. /\ pc[o] = "ready" /\ pc' = [pc EXCEPT ![o] = "none"] /\ UNCHANGED <<class, json>>
          /\ Unread("none", class[o], json_[o])
      BY <1>5 DEF DestroyNet, Goto, Unread
    <2>2. QED
      BY <1>1, <1>2, <2>1, ParamsQuiet DEF json
  <1>6. QED
    BY <1>3, <1>4, <1>5 DEF NetStep

\* After a crash the classes whose save was cut are disturbed; of the others
\* the file is there whole or not at all.
LEMMA CrashParams ==
    ASSUME Table, Params, Saved, Crash PROVE Params' /\ Saved'
  <1>1. /\ crashes < MaxCrashes /\ crashes' = crashes + 1 /\ UNCHANGED <<file, class>>
        /\ disturbed' = disturbed \cup {class[o] : o \in {u \in Objects : pc[u] = "print"}}
        /\ json_' = [o \in Objects |-> Garbage] /\ param' = [o \in Objects |-> {}]
        /\ turn' = [o \in Objects |-> 0] /\ pc' = [o \in Objects |-> "none"]
    BY DEF Crash, JsonCrash
  <1>2. Params'
    <2>1. crashes' \in 0 .. MaxCrashes
      BY <1>1, JsonAssumption DEF Params
    <2>2. /\ file' \in [FileClasses -> Saves] /\ json_' \in [Objects -> Values]
          /\ param' \in [Objects -> SUBSET Saves] /\ \A o \in Objects : pc'[o] # "read"
      BY <1>1, SaveIsTyped DEF Params
    <2>3. turn' \in [Objects -> 0 .. FONT_ARRAY_SIZE]
      BY <1>1, JsonAssumption
    <2>4. QED
      BY <2>1, <2>2, <2>3 DEF Params
  <1>3. \A o \in Objects : /\ Unread(pc'[o], class'[o], json_'[o])
                           /\ param'[o] = {}
    BY <1>1 DEF Unread
  <1>4. ASSUME NEW c \in FileClasses, c \notin disturbed' PROVE SavedIn(c)'
    <2>1. SavedIn(c) /\ \A o \in Objects : class[o] = c => pc[o] # "print"
      BY <1>1, <1>4 DEF Saved
    <2>2. file[c] = NoFileYet \/ Printed(file[c])
      BY <2>1 DEF SavedIn
    <2>3. QED
      BY <1>1, <2>1, <2>2 DEF SavedIn, FromFile
  <1>5. QED
    BY <1>2, <1>3, <1>4 DEF Saved

SaveInv == Table /\ Params /\ Saved

LEMMA SaveStep == SaveInv /\ [Next]_vars => SaveInv'
  <1> SUFFICES ASSUME Table, Params, Saved, [Next]_vars PROVE Params' /\ Saved'
    BY TableStep DEF SaveInv
  <1>1. CASE UNCHANGED vars
    BY <1>1 DEF vars, process, json, Params, Saved, SavedIn
  <1>2. CASE Crash
    BY <1>2, CrashParams
  <1>3. ASSUME NEW o \in Objects,
               \/ SpiStep(o) /\ UNCHANGED <<json, opened>>
               \/ UartStep(o) /\ UNCHANGED spi
               \/ (NetStep(o) \/ JsonStep(o)) /\ UNCHANGED <<spi, opened>>
        PROVE  Params' /\ Saved'
    BY <1>3, SpiParams, UartParams, NetParams, JsonParams, JsonStepMoves
  <1>4. QED
    BY <1>1, <1>2, <1>3 DEF Next

\* The objects of a class that use its file use one save, the one still there,
\* whole and slot by slot (init_by_json, save_to_json_file, get_by_json), in all
\* classes whose file was neither created nor looked for while another object
\* was creating it and of which no save was cut by a crash; crashes at other
\* moments, and what the other classes do, change nothing of it.
THEOREM ParametersAreSaved == Spec => []ReadsOneSave
  <1>1. Init => SaveInv
    BY TableInit, ParamsInit DEF SaveInv
  <1>2. SaveInv => ReadsOneSave
    <2> SUFFICES ASSUME SaveInv, NEW o \in Objects, class[o] \notin disturbed, NEW p \in param[o]
                 PROVE  \/ p = Given(o)
                        \/ /\ p = MyFile(o) /\ Printed(p) /\ p.of # Nothing
                           /\ p.of = Garbage => class[o] \in {"uart", "net"}
      BY DEF ReadsOneSave
    <2>1. CASE class[o] \in FileClasses
      BY <2>1 DEF SaveInv, Saved, SavedIn, FromFile, GoodFile, MyFile
    <2>2. CASE class[o] \notin FileClasses
      BY <2>2 DEF SaveInv, Saved
    <2>3. QED
      BY <2>1, <2>2
  <1>3. QED
    BY <1>1, <1>2, SaveStep, PTL DEF Spec

-----------------------------------------------------------------------------
\* Who owns a number.
\* An object's number is its own when the program has not spoilt it.
Trusted(o) == fd[o] \in Numbers /\ pc[o] # "closeAgain" /\ (class[o] = "uart" => o \in opened)

\* What a number means to o.  Between a destructor's two closes the number
\* names nothing, and a UART that was never opened has no file: its number may
\* be anybody's, but it is closed only to the blame of "unopened".
Clean(o) ==
    /\ Trusted(o) => Holds(o)
    /\ \A n \in Numbers : files[n] = o => fd[o] = n /\ Trusted(o)
    /\ pc[o] = "closeAgain" => Behind(o) = Nobody
    /\ class[o] = "uart" /\ pc[o] = "none" => o \notin opened

HoldInv == blame = {} => \A o \in Objects : Clean(o)

\* A step of o that leaves the numbers alone.
LEMMA HoldsWhileWorking ==
    ASSUME Table, \A u \in Objects : Clean(u), NEW o \in Objects, pc[o] # "closeAgain",
           UNCHANGED <<class, files, fd, opened>>, NEW l, l # "closeAgain",
           class[o] = "uart" => l # "none", pc' = [pc EXCEPT ![o] = l]
    PROVE  \A u \in Objects : Clean(u)'
  BY DEF Table, Clean, Trusted, Holds, Behind

\* A step of o that closes what is behind its number, if it is its own, and
\* forgets the number or is about to close it again.
LEMMA HoldsAfterClose ==
    ASSUME Table, \A u \in Objects : Clean(u), NEW o \in Objects,
           fd[o] \in Numbers => files[fd[o]] \in {o, Nobody},
           UNCHANGED class, files' = Freed(o), NEW l, pc' = [pc EXCEPT ![o] = l],
           opened' = opened \/ opened' = opened \ {o},
           class[o] = "uart" /\ l = "none" => opened' = opened \ {o},
           \/ fd' = [fd EXCEPT ![o] = NoFile] /\ l # "closeAgain"
           \/ UNCHANGED fd /\ l = "closeAgain"
    PROVE  \A u \in Objects : Clean(u)'
  <1>0. NoFile \notin Numbers /\ Nobody \notin Objects
    BY ProcessAssumption DEF NoFile, Numbers
  <1>1. \A n \in Numbers : /\ n = fd[o] => files'[n] = Nobody
                           /\ n # fd[o] => files'[n] = files[n]
    BY DEF Freed
  <1>2. \A n \in Numbers : files'[n] # o
    <2>1. \A n \in Numbers : files[n] = o => fd[o] = n
      BY DEF Clean
    <2>2. QED
      BY <1>0, <1>1, <2>1
  <1>3. pc'[o] = l /\ fd'[o] \in {NoFile, fd[o]}
    BY DEF Table
  <1>4. Clean(o)'
    BY <1>0, <1>1, <1>2, <1>3 DEF Table, Clean, Trusted, Holds, Behind
  <1>5. ASSUME NEW u \in Objects, u # o PROVE Clean(u)'
    <2>1. pc'[u] = pc[u] /\ fd'[u] = fd[u] /\ (u \in opened' <=> u \in opened)
      BY <1>5 DEF Table
    <2>2. fd[u] \in Numbers /\ files[fd[u]] = u => files'[fd[u]] = u
      BY <1>0, <1>1, <1>5
    <2>3. Trusted(u)' <=> Trusted(u)
      BY <2>1 DEF Trusted
    <2>4. \A n \in Numbers : files'[n] = u => files[n] = u
      BY <1>0, <1>1
    <2>5. fd[u] \in Numbers /\ files[fd[u]] = Nobody => files'[fd[u]] = Nobody
      BY <1>1
    <2>6. /\ Trusted(u)' => Holds(u)'
          /\ pc'[u] = "closeAgain" => Behind(u)' = Nobody
      BY <1>0, <2>1, <2>2, <2>3, <2>5 DEF Clean, Holds, Behind
    <2>7. QED
      BY <2>1, <2>3, <2>4, <2>6 DEF Clean
  <1>6. QED
    BY <1>4, <1>5

\* A step of o, which has no file, that gives it none, or a number it does not
\* trust.
LEMMA HoldsWithoutFile ==
    ASSUME Table, \A u \in Objects : Clean(u), NEW o \in Objects,
           \A n \in Numbers : files[n] # o,
           UNCHANGED <<class, files>>, NEW l, l # "closeAgain", pc' = [pc EXCEPT ![o] = l],
           NEW n, fd' = [fd EXCEPT ![o] = n], opened' \ {o} = opened \ {o},
           n \notin Numbers \/ (class[o] = "uart" /\ o \notin opened'),
           class[o] = "uart" /\ l = "none" => o \notin opened'
    PROVE  \A u \in Objects : Clean(u)'
  <1>1. pc'[o] = l /\ fd'[o] = n
    BY DEF Table
  <1>2. Clean(o)'
    BY <1>1 DEF Clean, Trusted
  <1>3. ASSUME NEW u \in Objects, u # o PROVE Clean(u)'
    <2>1. pc'[u] = pc[u] /\ fd'[u] = fd[u] /\ (u \in opened' <=> u \in opened)
      BY <1>3 DEF Table
    <2>2. QED
      BY <2>1 DEF Clean, Trusted, Holds, Behind
  <1>4. QED
    BY <1>2, <1>3

\* A step of o, which has no file, that opens one while no destructor is
\* between its closes.
LEMMA HoldsAfterOpen ==
    ASSUME Table, \A u \in Objects : Clean(u), NEW o \in Objects,
           \A m \in Numbers : files[m] # o, \A u \in Objects : pc[u] # "closeAgain",
           UNCHANGED class, NEW l, l \notin {"closeAgain", "none"}, pc' = [pc EXCEPT ![o] = l],
           NEW n \in Unused, Gives(o, n), opened' \ {o} = opened \ {o},
           class[o] = "uart" => o \in opened'
    PROVE  \A u \in Objects : Clean(u)'
  <1>1. /\ pc'[o] = l /\ fd'[o] = n /\ files[n] = Nobody /\ n \in Numbers /\ files'[n] = o
        /\ \A m \in Numbers : m # n => files'[m] = files[m]
    BY DEF Table, Gives, Unused
  <1>2. Clean(o)'
    BY <1>1 DEF Clean, Trusted, Holds, Behind
  <1>3. ASSUME NEW u \in Objects, u # o PROVE Clean(u)'
    <2>1. /\ pc'[u] = pc[u] /\ fd'[u] = fd[u] /\ (u \in opened' <=> u \in opened)
          /\ pc[u] # "closeAgain" /\ u # Nobody
      BY <1>3, ProcessAssumption DEF Table, Gives
    <2>2. QED
      BY <1>1, <1>3, <2>1 DEF Clean, Trusted, Holds, Behind
  <1>4. QED
    BY <1>2, <1>3

LEMMA BlameStep ==
    ASSUME NEW o \in Objects, NEW at, Blame(o, at), blame' = {}
    PROVE  /\ blame = {}
           /\ at \in {"open", "free"} => ~Holds(o)
           /\ at = "open" => \A u \in Objects : pc[u] # "closeAgain"
  BY DEF Blame

LEMMA NoFileOfMine ==
    ASSUME NEW o \in Objects, Clean(o), ~Holds(o)
    PROVE  \A n \in Numbers : files[n] # o
  BY DEF Clean, Holds, Behind

\* A handle of spi.c, or a socket, has its own file behind its number.
LEMMA OwnFile ==
    ASSUME Table, NEW o \in Objects, Clean(o), class[o] # "uart"
    PROVE  /\ pc[o] # "closeAgain" /\ NoFile \notin Numbers
           /\ fd[o] \in Numbers => files[fd[o]] \in {o, Nobody}
  <1>1. pc[o] # "closeAgain"
    BY DEF Table, PlacesOf, SpiPlaces, FilePlaces, UartPlaces
  <1>2. QED
    BY <1>1, ProcessAssumption DEF Clean, Trusted, Holds, Behind, Numbers, NoFile

LEMMA IoctlHolds ==
    ASSUME Table, \A u \in Objects : Clean(u), NEW o \in Objects, class[o] \in {"spi", "flash"},
           NEW at, NEW d, NEW w, NEW l, l \notin {"closeAgain", "none"}, Ioctl(o, at, d, w, l),
           UNCHANGED opened
    PROVE  \A u \in Objects : Clean(u)'
  <1>1. UNCHANGED class
    BY DEF Ioctl
  <1>2. \/ UNCHANGED <<files, fd>> /\ pc' = [pc EXCEPT ![o] = l]
        \/ UNCHANGED <<files, fd>> /\ pc' = [pc EXCEPT ![o] = "ready"]
        \/ files' = Freed(o) /\ fd' = [fd EXCEPT ![o] = NoFile] /\ pc' = [pc EXCEPT ![o] = "ready"]
    BY DEF Ioctl, Goto, Returns, Refused, Fails
  <1>3. CASE UNCHANGED <<files, fd>>
    <2>1. \E m \in {l, "ready"} : pc' = [pc EXCEPT ![o] = m]
      BY <1>2
    <2>2. QED
      BY <1>1, <1>3, <2>1, OwnFile, HoldsWhileWorking
  <1>4. CASE files' = Freed(o) /\ fd' = [fd EXCEPT ![o] = NoFile] /\ pc' = [pc EXCEPT ![o] = "ready"]
    BY <1>1, <1>4, OwnFile, HoldsAfterClose
  <1>5. QED
    BY <1>2, <1>3, <1>4

LEMMA SpiHolds ==
    ASSUME Table, \A u \in Objects : Clean(u), NEW o \in Objects, SpiStep(o), UNCHANGED opened,
           blame' = {}
    PROVE  \A u \in Objects : Clean(u)'
  <1>1. /\ class[o] \in {"spi", "flash"} /\ pc[o] # "closeAgain" /\ NoFile \notin Numbers
        /\ fd[o] \in Numbers => files[fd[o]] \in {o, Nobody}
        /\ pc = [pc EXCEPT ![o] = pc[o]]
    BY SpiStepClass, OwnFile DEF Table
  <1>2. CASE spi_new(o)
    BY <1>1, <1>2, HoldsWhileWorking DEF spi_new, Goto
  <1>3. CASE spi_call(o) \/ spi_write_read(o)
    <2>1. PICK c : Calls(o, c) /\ c.op \in Ops
      BY <1>3, SpiAssumption DEF spi_call, spi_write_read, Ops
    <2>2. First(c) \notin {"closeAgain", "none"}
      BY <2>1 DEF First, Ops
    <2>3. UNCHANGED <<class, files, fd>> /\ pc' = [pc EXCEPT ![o] = First(c)]
      BY <1>3, <2>1 DEF spi_call, spi_write_read, Calls, Goto
    <2>4. QED
      BY <1>1, <2>2, <2>3, HoldsWhileWorking
  <1>4. CASE spi_free(o) \/ sfud_spi_port_init(o)
    <2>1. PICK l \in {"none", "open"} : pc' = [pc EXCEPT ![o] = l]
      BY <1>4 DEF spi_free, sfud_spi_port_init, Calls, Goto, First
    <2>2. Blame(o, "free") /\ UNCHANGED <<class, files>> /\ fd' = [fd EXCEPT ![o] = NoFile]
      BY <1>4 DEF spi_free, sfud_spi_port_init
    <2>3. \A n \in Numbers : files[n] # o
      BY <2>2, BlameStep, NoFileOfMine
    <2>4. l # "closeAgain" /\ opened' \ {o} = opened \ {o}
      OBVIOUS
    <2>5. QED
      BY <1>1, <2>1, <2>2, <2>3, <2>4, HoldsWithoutFile
  <1>5. CASE spi_close(o)
    <2>1. fd' = [fd EXCEPT ![o] = NoFile] /\ files' = Freed(o) /\ UNCHANGED <<class, pc>> /\ pc[o] = "ready"
      BY <1>5 DEF spi_close
    <2>2. QED
      BY <1>1, <2>1, HoldsAfterClose
  <1>6. CASE OpenDevice(o)
    <2>1. PICK ok \in Outcomes(Unused # {}) :
             /\ Opens(o, Unused # {}, ok)
             /\ IF ok THEN Goto(o, "wrMode") ELSE Goto(o, "ready")
      BY <1>6 DEF OpenDevice, Fails, Returns
    <2>2. ok \in BOOLEAN /\ (ok => Unused # {})
      BY <2>1 DEF Outcomes
    <2>3. /\ ok => \E n \in Unused : Gives(o, n)
          /\ ~ok => GivesNone(o)
          /\ Blame(o, "open")
      BY <2>1, <2>2, OpensStep
    <2>4. (\A n \in Numbers : files[n] # o) /\ \A u \in Objects : pc[u] # "closeAgain"
      BY <2>3, BlameStep, NoFileOfMine
    <2>5. UNCHANGED class /\ opened' \ {o} = opened \ {o}
      BY <1>6 DEF OpenDevice
    <2>6. CASE ok
      <3>1. PICK n \in Unused : Gives(o, n)
        BY <2>3, <2>6
      <3>2. pc' = [pc EXCEPT ![o] = "wrMode"]
        BY <2>1, <2>6 DEF Goto
      <3>3. QED
        BY <1>1, <2>4, <2>5, <3>1, <3>2, HoldsAfterOpen
    <2>7. CASE ~ok
      BY <1>1, <2>1, <2>3, <2>4, <2>5, <2>7, HoldsWithoutFile DEF GivesNone, Goto
    <2>8. QED
      BY <2>2, <2>6, <2>7
  <1>7. CASE \/ ReadMode(o) \/ WriteMode(o) \/ WriteOrder(o) \/ WriteSpeed(o)
             \/ WriteBits(o) \/ Query(o) \/ Transfer(o)
    <2>1. \E at, d, w, l : l \notin {"closeAgain", "none"} /\ Ioctl(o, at, d, w, l)
      <3>1. /\ \A x : (IF x THEN "wrSpeed" ELSE "ready") \notin {"closeAgain", "none"}
            /\ \A x : (IF x THEN "wrBits" ELSE "ready") \notin {"closeAgain", "none"}
        OBVIOUS
      <3>2. CASE ReadMode(o) \/ WriteOrder(o) \/ WriteBits(o) \/ Query(o) \/ Transfer(o)
        BY <3>2 DEF ReadMode, WriteOrder, WriteBits, Query, Transfer
      <3>3. CASE WriteMode(o) \/ WriteSpeed(o)
        BY <3>1, <3>3 DEF WriteMode, WriteSpeed
      <3>4. QED
        BY <1>7, <3>2, <3>3
    <2>2. QED
      BY <1>1, <2>1, IoctlHolds
  <1>8. QED
    BY <1>2, <1>3, <1>4, <1>5, <1>6, <1>7 DEF SpiStep

LEMMA UartHolds ==
    ASSUME Table, \A u \in Objects : Clean(u), NEW o \in Objects, UartStep(o), blame' = {}
    PROVE  \A u \in Objects : Clean(u)'
  <1>1. /\ NoFile \notin Numbers /\ Nobody \notin Objects
        /\ pc[o] \in UartPlaces => class[o] = "uart"
    BY ProcessAssumption DEF Table, PlacesOf, FilePlaces, UartPlaces, SpiPlaces, NoFile, Numbers
  <1>2. CASE CdrawUart(o)
    <2>1. PICK n \in Numbers \cup {NoFile} : fd' = [fd EXCEPT ![o] = n]
      BY <1>2 DEF CdrawUart
    <2>2. /\ UNCHANGED <<class, files>> /\ class[o] = "uart" /\ pc[o] = "none"
          /\ pc' = [pc EXCEPT ![o] = "built"] /\ opened' = opened \ {o}
      BY <1>2 DEF CdrawUart, Goto
    <2>3. \A m \in Numbers : files[m] # o
      BY <2>2 DEF Clean, Trusted
    <2>4. opened' \ {o} = opened \ {o} /\ o \notin opened'
      BY <2>2
    <2>5. QED
      BY <2>1, <2>2, <2>3, <2>4, HoldsWithoutFile
  <1>3. CASE openUart(o)
    <2>1. PICK ok \in Outcomes(Unused # {} /\ ~Uses(o, Nothing))
                         \cup (IF Uses(o, Garbage) THEN {FALSE} ELSE {}) :
             /\ Opens(o, Unused # {} /\ ~Uses(o, Nothing) /\ ~Uses(o, Garbage), ok)
             /\ Goto(o, IF ok THEN "attr" ELSE "ready")
      BY <1>3 DEF openUart
    <2>2. ok \in BOOLEAN /\ (ok => Unused # {})
      BY <2>1 DEF Outcomes
    <2>3. /\ ok => \E n \in Unused : Gives(o, n)
          /\ ~ok => GivesNone(o)
          /\ Blame(o, "open")
      BY <2>1, <2>2, OpensStep
    <2>4. (\A n \in Numbers : files[n] # o) /\ \A u \in Objects : pc[u] # "closeAgain"
      BY <2>3, BlameStep, NoFileOfMine
    <2>5. UNCHANGED class /\ opened' \ {o} = opened \ {o} /\ o \in opened'
      BY <1>3 DEF openUart
    <2>6. CASE ok
      <3>1. PICK n \in Unused : Gives(o, n)
        BY <2>3, <2>6
      <3>2. pc' = [pc EXCEPT ![o] = "attr"]
        BY <2>1, <2>6 DEF Goto
      <3>3. QED
        BY <2>4, <2>5, <3>1, <3>2, HoldsAfterOpen
    <2>7. CASE ~ok
      <3>1. pc' = [pc EXCEPT ![o] = "ready"] /\ fd' = [fd EXCEPT ![o] = NoFile] /\ UNCHANGED files
        BY <2>1, <2>3, <2>7 DEF GivesNone, Goto
      <3>2. "ready" # "closeAgain" /\ "ready" # "none"
        OBVIOUS
      <3>3. QED
        BY <1>1, <2>4, <2>5, <3>1, <3>2, HoldsWithoutFile
    <2>8. QED
      BY <2>2, <2>6, <2>7
  <1>4. CASE GetAttr(o)
    BY <1>4, HoldsWhileWorking DEF GetAttr, Goto
  <1>5. CASE CloseUart(o)
    <2>1. /\ class[o] = "uart" /\ pc[o] = "ready" /\ files' = Freed(o) /\ UNCHANGED class
          /\ \/ /\ fd' = [fd EXCEPT ![o] = NoFile] /\ pc' = [pc EXCEPT ![o] = "none"]
                /\ opened' = opened \ {o}
             \/ UNCHANGED <<fd, opened>> /\ pc' = [pc EXCEPT ![o] = "closeAgain"]
      BY <1>5 DEF CloseUart, Goto
    <2>2. o \in opened \/ Behind(o) = Nobody
      BY <1>5 DEF CloseUart
    <2>3. fd[o] \in Numbers => files[fd[o]] \in {o, Nobody}
      BY <2>1, <2>2 DEF Clean, Trusted, Holds, Behind
    <2>4. CASE UNCHANGED <<fd, opened>> /\ pc' = [pc EXCEPT ![o] = "closeAgain"]
      BY <2>1, <2>3, <2>4, HoldsAfterClose
    <2>5. CASE /\ fd' = [fd EXCEPT ![o] = NoFile] /\ pc' = [pc EXCEPT ![o] = "none"]
               /\ opened' = opened \ {o}
      BY <2>1, <2>3, <2>5, HoldsAfterClose
    <2>6. QED
      BY <2>1, <2>4, <2>5
  <1>6. CASE CloseUartAgain(o)
    <2>1. /\ UNCHANGED class /\ pc' = [pc EXCEPT ![o] = "none"] /\ pc[o] = "closeAgain"
          /\ files' = Freed(o) /\ fd' = [fd EXCEPT ![o] = NoFile] /\ opened' = opened \ {o}
      BY <1>6 DEF CloseUartAgain, Goto
    <2>2. fd[o] \in Numbers => files[fd[o]] \in {o, Nobody}
      BY <2>1 DEF Clean, Behind
    <2>3. QED
      BY <2>1, <2>2, HoldsAfterClose
  <1>7. QED
    BY <1>2, <1>3, <1>4, <1>5, <1>6 DEF UartStep

LEMMA NetHolds ==
    ASSUME Table, \A u \in Objects : Clean(u), NEW o \in Objects, NetStep(o), UNCHANGED opened,
           blame' = {}
    PROVE  \A u \in Objects : Clean(u)'
  <1>1. /\ IsNet(o) /\ pc[o] # "closeAgain" /\ NoFile \notin Numbers
        /\ fd[o] \in Numbers => files[fd[o]] \in {o, Nobody}
    <2>1. IsNet(o)
      BY DEF NetStep, CdrawNet, Bind, DestroyNet, Table, PlacesOf, FilePlaces, UartPlaces,
         SpiPlaces, IsNet
    <2>2. QED
      BY <2>1, OwnFile DEF IsNet
  <1>2. CASE CdrawNet(o)
    <2>1. PICK ok \in Outcomes(Unused # {}) : Opens(o, Unused # {}, ok)
      BY <1>2 DEF CdrawNet
    <2>2. ok \in BOOLEAN /\ (ok => Unused # {})
      BY <2>1 DEF Outcomes
    <2>3. /\ ok => \E n \in Unused : Gives(o, n)
          /\ ~ok => GivesNone(o)
          /\ Blame(o, "open")
      BY <2>1, <2>2, OpensStep
    <2>4. (\A n \in Numbers : files[n] # o) /\ \A u \in Objects : pc[u] # "closeAgain"
      BY <2>3, BlameStep, NoFileOfMine
    <2>5. /\ UNCHANGED class /\ opened' \ {o} = opened \ {o} /\ class[o] # "uart"
          /\ pc' = [pc EXCEPT ![o] = "bind"]
      BY <1>1, <1>2 DEF CdrawNet, IsNet, Goto
    <2>6. CASE ok
      BY <2>3, <2>4, <2>5, <2>6, HoldsAfterOpen
    <2>7. CASE ~ok
      BY <1>1, <2>3, <2>4, <2>5, <2>7, HoldsWithoutFile DEF GivesNone
    <2>8. QED
      BY <2>2, <2>6, <2>7
  <1>3. CASE Bind(o)
    BY <1>1, <1>3, HoldsWhileWorking DEF Bind, Goto
  <1>4. CASE DestroyNet(o)
    BY <1>1, <1>4, HoldsAfterClose DEF DestroyNet, Goto, IsNet
  <1>5. QED
    BY <1>2, <1>3, <1>4 DEF NetStep

LEMMA JsonHolds ==
    ASSUME Table, \A u \in Objects : Clean(u), NEW o \in Objects, JsonStep(o), UNCHANGED opened
    PROVE  \A u \in Objects : Clean(u)'
  <1>1. pc[o] # "closeAgain" /\ UNCHANGED <<class, files, fd>>
    BY JsonStepMoves DEF JsonStep, InitByJson, TestFile, SkipFile, CreateFile, PrintFile, ReadFile,
       COSD_OpenCL, DestroyOsd
  <1>2. PICK l \in FilePlaces \cup {"ready", "none"} :
           pc' = [pc EXCEPT ![o] = l] /\ (l = "none" => class[o] = "osd")
    <2>1. pc = [pc EXCEPT ![o] = pc[o]]
      BY DEF Table
    <2>2. QED
      BY <2>1 DEF JsonStep, InitByJson, TestFile, SkipFile, CreateFile, PrintFile, ReadFile,
         COSD_OpenCL, DestroyOsd, Goto, FilePlaces
  <1>3. QED
    BY <1>1, <1>2, HoldsWhileWorking DEF FilePlaces

OwnInv == Table /\ HoldInv

LEMMA OwnStep == OwnInv /\ [Next]_vars => OwnInv'
  <1> SUFFICES ASSUME Table, HoldInv, [Next]_vars, blame' = {} PROVE \A u \in Objects : Clean(u)'
    BY TableStep DEF OwnInv, HoldInv
  <1>1. CASE UNCHANGED vars
    BY <1>1 DEF vars, process, HoldInv, Clean, Trusted, Holds, Behind
  <1>2. CASE Crash
    <2>1. /\ files' = [n \in Numbers |-> Nobody] /\ fd' = [o \in Objects |-> NoFile]
          /\ pc' = [o \in Objects |-> "none"] /\ opened' = {}
      BY <1>2 DEF Crash
    <2>2. QED
      BY <2>1, ProcessAssumption DEF Clean, Trusted, NoFile, Numbers
  <1>3. ASSUME NEW o \in Objects,
               \/ SpiStep(o) /\ UNCHANGED <<json, opened>>
               \/ UartStep(o) /\ UNCHANGED spi
               \/ (NetStep(o) \/ JsonStep(o)) /\ UNCHANGED <<spi, opened>>
        PROVE  \A u \in Objects : Clean(u)'
    <2>1. blame = {}
      <3>1. CASE SpiStep(o)
        BY <3>1 DEF SpiStep, spi_new, spi_free, spi_call, spi_close, sfud_spi_port_init,
           spi_write_read, OpenDevice, ReadMode, WriteMode, WriteOrder, WriteSpeed, WriteBits,
           Query, Transfer, Ioctl, Opens, Blame
      <3>2. CASE UartStep(o)
        BY <3>2 DEF UartStep, CdrawUart, openUart, GetAttr, CloseUart, CloseUartAgain, Opens, Blame
      <3>3. CASE NetStep(o)
        BY <3>3 DEF NetStep, CdrawNet, Bind, DestroyNet, Opens, Blame
      <3>4. CASE JsonStep(o)
        BY <3>4 DEF JsonStep, InitByJson, TestFile, SkipFile, CreateFile, PrintFile, ReadFile,
           COSD_OpenCL, DestroyOsd
      <3>5. QED
        BY <1>3, <3>1, <3>2, <3>3, <3>4
    <2>2. \A u \in Objects : Clean(u)
      BY <2>1 DEF HoldInv
    <2>3. QED
      BY <1>3, <2>2, SpiHolds, UartHolds, NetHolds, JsonHolds
  <1>4. QED
    BY <1>1, <1>2, <1>3 DEF Next

\* No object uses or closes another's file and no failure path leaks one, for
\* any number of spidev handles, flash ports, UARTs, sockets and threads that
\* open and close at once (spi_open, spi_close, spi_free, openUart, ~CdrawUart,
\* CdrawNet, ~CdrawNet), as long as none of the five things in blame happened.
THEOREM NumbersAreOwn == Spec => []Owned
  <1>1. Init => OwnInv
    <2>1. Init => HoldInv
      BY ProcessAssumption DEF Init, ProcessInit, UartInit, HoldInv, Clean, Trusted, NoFile, Numbers
    <2>2. QED
      BY <2>1, TableInit DEF OwnInv
  <1>2. OwnInv => Owned
    BY DEF OwnInv, HoldInv, Clean, Trusted, Owned
  <1>3. QED
    BY <1>1, <1>2, OwnStep, PTL DEF Spec

-----------------------------------------------------------------------------
\* What the settings d, the word w read or to be written and the call c still
\* make of the device at place p of spi.c: the goal g.
OnTheWay(p, c, w, d, g) ==
    \/ p \in {"ready", "query", "message"} /\ g = d
    \/ p \in {"open", "wrMode"} /\ c.op = "open" /\ w = c.bits /\ g = Asked(c, d)
    \/ p = "rdMode" /\ c.op \in {"setMode", "setFlags", "setFlags32"} /\ g = Asked(c, d)
    \/ p = "wrMode" /\ c.op # "open" /\ g = [d EXCEPT !.mode = w]
    \/ p = "wrOrder" /\ c.op # "open" /\ g = [d EXCEPT !.mode = (@ \ OrderBits) \cup c.bits]
    \/ p = "wrSpeed" /\ c.op = "open" /\ g = [d EXCEPT !.speed = c.rate, !.width = c.rate]
    \/ p = "wrSpeed" /\ c.op # "open" /\ g = [d EXCEPT !.speed = c.rate]
    \/ p = "wrBits" /\ g = [d EXCEPT !.width = c.rate]

IsSettings(d) == /\ d = [mode |-> d.mode, speed |-> d.speed, width |-> d.width]
                 /\ d.mode \subseteq Flags

GoalOf(o) ==
    /\ data[o] \subseteq Flags /\ call[o].bits \subseteq Flags
    /\ class[o] \notin {"spi", "flash"} \/ pc[o] = "none" => goal[o] = Unknown
    /\ goal[o] # Unknown => OnTheWay(pc[o], call[o], data[o], device, goal[o])

GoalInv == /\ IsSettings(device) /\ calls \in 0 .. MaxCalls
           /\ call = [o \in Objects |-> call[o]]
           /\ data = [o \in Objects |-> data[o]]
           /\ goal = [o \in Objects |-> goal[o]]
           /\ \A o \in Objects : GoalOf(o)

-----------------------------------------------------------------------------
\* What the ioctls of spi.c make of the settings.
LEMMA ReadOnTheWay ==
    ASSUME NEW c, c.bits \subseteq Flags, NEW g, g # Unknown, NEW w, IsSettings(device),
           OnTheWay("rdMode", c, w, device, g)
    PROVE  OnTheWay("wrMode", c, (Read(c) \cap Kept(c)) \cup c.bits, device, g)
  <1> DEFINE word == (Read(c) \cap Kept(c)) \cup c.bits
  <1>1. c.op \in {"setMode", "setFlags", "setFlags32"} /\ g = Asked(c, device)
    BY DEF OnTheWay
  <1>2. device.mode \subseteq Flags
    BY DEF IsSettings
  <1>3. CASE c.op = "setFlags32"
    <2>1. word = (device.mode \ (LowBits \cup HighBits)) \cup c.bits
      BY <1>2, <1>3, SpiAssumption DEF Read, Kept, Flags
    <2>2. g = [device EXCEPT !.mode = (@ \ (LowBits \cup HighBits)) \cup c.bits]
      BY <1>1, <1>3 DEF Asked
    <2>3. QED
      BY <1>3, <2>1, <2>2 DEF OnTheWay
  <1>4. CASE c.op = "setFlags"
    <2>1. g = [device EXCEPT !.mode = (@ \ (LowBits \cup HighBits)) \cup c.bits]
      BY <1>1, <1>4 DEF Asked
    <2>2. word = (device.mode \ (LowBits \cup HighBits)) \cup c.bits
      BY <1>2, <1>4, SpiAssumption DEF Read, Kept, Flags, Narrow
    <2>3. QED
      BY <1>4, <2>1, <2>2 DEF OnTheWay
  <1>5. CASE c.op = "setMode"
    <2>1. g = [device EXCEPT !.mode = (@ \ (ModeBits \cup HighBits)) \cup c.bits]
      BY <1>1, <1>5 DEF Asked
    <2>2. word = (device.mode \ (ModeBits \cup HighBits)) \cup c.bits
      BY <1>2, <1>5, SpiAssumption DEF Read, Kept, Flags, Narrow
    <2>3. QED
      BY <1>5, <2>1, <2>2 DEF OnTheWay
  <1>6. QED
    BY <1>1, <1>3, <1>4, <1>5

LEMMA WriteOnTheWay ==
    ASSUME NEW c, NEW g, NEW w, IsSettings(device)
    PROVE  /\ OnTheWay("wrMode", c, w, device, g)
                => OnTheWay(IF c.op = "open" THEN "wrSpeed" ELSE "ready", c, {},
                            [device EXCEPT !.mode = w], g)
           /\ OnTheWay("wrOrder", c, w, device, g)
                => OnTheWay("ready", c, {}, [device EXCEPT !.mode = (@ \ OrderBits) \cup c.bits], g)
           /\ OnTheWay("wrSpeed", c, w, device, g)
                => OnTheWay(IF c.op = "open" THEN "wrBits" ELSE "ready", c, {},
                            [device EXCEPT !.speed = c.rate], g)
           /\ OnTheWay("wrBits", c, w, device, g)
                => OnTheWay("ready", c, {}, [device EXCEPT !.width = c.rate], g)
           /\ \A p \in {"query", "message"} :
                OnTheWay(p, c, w, device, g) => OnTheWay("ready", c, {}, device, g)
  <1>1. device = [mode |-> device.mode, speed |-> device.speed, width |-> device.width]
    BY DEF IsSettings
  <1>2. ASSUME OnTheWay("wrMode", c, w, device, g)
        PROVE  OnTheWay(IF c.op = "open" THEN "wrSpeed" ELSE "ready", c, {},
                        [device EXCEPT !.mode = w], g)
    <2>1. CASE c.op = "open"
      <3>1. w = c.bits /\ g = [mode |-> c.bits, speed |-> c.rate, width |-> c.rate]
        BY <1>2, <2>1 DEF OnTheWay, Asked
      <3> DEFINE e == [device EXCEPT !.mode = w]
      <3>2. e = [mode |-> w, speed |-> device.speed, width |-> device.width]
        BY <1>1
      <3> HIDE DEF e
      <3> DEFINE e2 == [e EXCEPT !.speed = c.rate]
      <3>3. e2 = [mode |-> w, speed |-> c.rate, width |-> device.width]
        BY <3>2
      <3> HIDE DEF e2
      <3>4. [e EXCEPT !.speed = c.rate, !.width = c.rate] = g
        <4>1. [e EXCEPT !.speed = c.rate, !.width = c.rate] = [e2 EXCEPT !.width = c.rate]
          BY DEF e2
        <4>2. [e2 EXCEPT !.width = c.rate] = [mode |-> w, speed |-> c.rate, width |-> c.rate]
          BY <3>3
        <4>3. QED
          BY <3>1, <4>1, <4>2
      <3>5. OnTheWay("wrSpeed", c, {}, e, g)
        BY <2>1, <3>4 DEF OnTheWay
      <3>6. QED
        BY <2>1, <3>5 DEF e
    <2>2. CASE c.op # "open"
      BY <1>2, <2>2 DEF OnTheWay
    <2>3. QED
      BY <2>1, <2>2
  <1>3. ASSUME OnTheWay("wrSpeed", c, w, device, g)
        PROVE  OnTheWay(IF c.op = "open" THEN "wrBits" ELSE "ready", c, {},
                        [device EXCEPT !.speed = c.rate], g)
    <2>1. CASE c.op = "open"
      <3>1. g = [device EXCEPT !.speed = c.rate, !.width = c.rate]
        BY <1>3, <2>1 DEF OnTheWay
      <3>2. g = [[device EXCEPT !.speed = c.rate] EXCEPT !.width = c.rate]
        BY <1>1, <3>1
      <3>3. QED
        BY <2>1, <3>2 DEF OnTheWay
    <2>2. CASE c.op # "open"
      BY <1>3, <2>2 DEF OnTheWay
    <2>3. QED
      BY <2>1, <2>2
  <1>4. OnTheWay("wrOrder", c, w, device, g)
          => OnTheWay("ready", c, {}, [device EXCEPT !.mode = (@ \ OrderBits) \cup c.bits], g)
    BY DEF OnTheWay
  <1>5. OnTheWay("wrBits", c, w, device, g)
          => OnTheWay("ready", c, {}, [device EXCEPT !.width = c.rate], g)
    BY DEF OnTheWay
  <1>6. ASSUME NEW p \in {"query", "message"}, OnTheWay(p, c, w, device, g)
        PROVE  OnTheWay("ready", c, {}, device, g)
    BY <1>6 DEF OnTheWay
  <1>7. QED
    BY <1>2, <1>3, <1>4, <1>5, <1>6

\* A step of o that leaves the settings alone and goes to p.
Turns(o, p, c, w, g) ==
    /\ UNCHANGED <<class, device>> /\ calls' \in 0 .. MaxCalls
    /\ pc' = [pc EXCEPT ![o] = p]
    /\ call' = [call EXCEPT ![o] = c] /\ c.bits \subseteq Flags
    /\ data' = [data EXCEPT ![o] = w] /\ w \subseteq Flags
    /\ goal' = [goal EXCEPT ![o] = g]
    /\ class[o] \notin {"spi", "flash"} \/ p = "none" => g = Unknown
    /\ g # Unknown => OnTheWay(p, c, w, device, g)

LEMMA TurnKeepsGoals ==
    ASSUME Table, GoalInv, NEW o \in Objects, NEW p, NEW c, NEW w, NEW g, Turns(o, p, c, w, g)
    PROVE  GoalInv'
  <1>1. pc'[o] = p /\ call'[o] = c /\ data'[o] = w /\ goal'[o] = g
    BY DEF Turns, Table, GoalInv
  <1>2. \A u \in Objects : u # o => /\ pc'[u] = pc[u] /\ call'[u] = call[u]
                                    /\ data'[u] = data[u] /\ goal'[u] = goal[u]
    BY DEF Turns, Table, GoalInv
  <1>3. GoalOf(o)'
    BY <1>1 DEF Turns, GoalOf
  <1>4. ASSUME NEW u \in Objects, u # o PROVE GoalOf(u)'
    BY <1>2, <1>4 DEF Turns, GoalOf, GoalInv
  <1>5. /\ call' = [u \in Objects |-> call'[u]] /\ data' = [u \in Objects |-> data'[u]]
        /\ goal' = [u \in Objects |-> goal'[u]]
    BY DEF Turns, GoalInv
  <1>6. IsSettings(device)'
    BY DEF Turns, GoalInv, IsSettings
  <1>7. QED
    BY <1>3, <1>4, <1>5, <1>6 DEF GoalInv, Turns

\* An ioctl that makes settings d: what it disturbs is Unknown from then on.
LEMMA IoctlKeepsGoals ==
    ASSUME Table, GoalInv, NEW o \in Objects, class[o] \in {"spi", "flash"},
           NEW at, NEW d, NEW w, NEW l, l # "none", Ioctl(o, at, d, w, l), IsSettings(d),
           w \subseteq Flags, goal[o] # Unknown => OnTheWay(l, call[o], w, d, goal[o])
    PROVE  GoalInv'
  <1>1. PICK ok \in Outcomes(Reaches(o)) :
             IF ok
             THEN /\ device' = d
                  /\ goal' = [u \in Objects |-> IF u = o \/ d = device THEN goal[u] ELSE Unknown]
                  /\ IF l = "ready" THEN Returns(o)
                     ELSE /\ Goto(o, l)
                          /\ data' = [data EXCEPT ![o] = w]
                          /\ UNCHANGED call
             ELSE Refused(o) /\ UNCHANGED device
    BY DEF Ioctl
  <1>2. UNCHANGED <<class, calls>> /\ {} \subseteq Flags /\ NoCall.bits \subseteq Flags
    BY DEF Ioctl, NoCall
  <1>3. CASE ok
    <2>1. device' = d
          /\ goal' = [u \in Objects |-> IF u = o \/ d = device THEN goal[u] ELSE Unknown]
      BY <1>1, <1>3
    <2> DEFINE c == IF l = "ready" THEN NoCall ELSE call[o]
               v == IF l = "ready" THEN {} ELSE w
    <2>2. /\ pc' = [pc EXCEPT ![o] = l] /\ c.bits \subseteq Flags /\ v \subseteq Flags
          /\ call' = [call EXCEPT ![o] = c] /\ data' = [data EXCEPT ![o] = v]
          /\ l = "ready" \/ (c = call[o] /\ v = w)
      <3>1. CASE l = "ready"
        <4>1. /\ pc' = [pc EXCEPT ![o] = l] /\ call' = [call EXCEPT ![o] = NoCall]
              /\ data' = [data EXCEPT ![o] = {}]
          BY <1>1, <1>3, <3>1 DEF Returns, Goto
        <4>2. QED
          BY <1>2, <3>1, <4>1
      <3>2. CASE l # "ready"
        <4>1. /\ pc' = [pc EXCEPT ![o] = l] /\ call' = call
              /\ data' = [data EXCEPT ![o] = w]
          BY <1>1, <1>3, <3>2 DEF Goto
        <4>2. call = [call EXCEPT ![o] = call[o]] /\ call[o].bits \subseteq Flags
          BY DEF GoalInv, GoalOf
        <4>3. QED
          BY <3>2, <4>1, <4>2
      <3>3. QED
        BY <3>1, <3>2
    <2> HIDE DEF c, v
    <2>3. /\ pc'[o] = l /\ call'[o] = c /\ data'[o] = v /\ goal'[o] = goal[o]
          /\ \A u \in Objects : u # o => /\ pc'[u] = pc[u] /\ call'[u] = call[u]
                                         /\ data'[u] = data[u]
                                         /\ goal'[u] = Unknown \/ (goal'[u] = goal[u] /\ d = device)
      BY <2>1, <2>2 DEF Table, GoalInv
    <2>4. GoalOf(o)'
      <3>1. goal[o] # Unknown => OnTheWay(l, c, v, d, goal[o])
        <4>1. CASE l = "ready"
          BY <4>1 DEF OnTheWay
        <4>2. CASE l # "ready"
          BY <2>2, <4>2
        <4>3. QED
          BY <4>1, <4>2
      <3>2. QED
        BY <1>2, <2>1, <2>2, <2>3, <3>1 DEF GoalOf
    <2>5. ASSUME NEW u \in Objects, u # o PROVE GoalOf(u)'
      BY <1>2, <2>1, <2>3, <2>5 DEF GoalOf, GoalInv
    <2>6. /\ call' = [u \in Objects |-> call'[u]] /\ data' = [u \in Objects |-> data'[u]]
          /\ goal' = [u \in Objects |-> goal'[u]]
      BY <2>1, <2>2 DEF GoalInv
    <2>7. IsSettings(device)'
      BY <2>1 DEF IsSettings
    <2>8. QED
      BY <1>2, <2>4, <2>5, <2>6, <2>7 DEF GoalInv
  <1>4. CASE ~ok
    <2>1. Turns(o, "ready", NoCall, {}, Unknown)
      BY <1>1, <1>2, <1>4 DEF Refused, Fails, Returns, Goto, Turns, GoalInv
    <2>2. QED
      BY <2>1, TurnKeepsGoals
  <1>5. QED
    BY <1>3, <1>4

LEMMA IoctlGoals ==
    ASSUME Table, GoalInv, NEW o \in Objects,
           \/ ReadMode(o) \/ WriteMode(o) \/ WriteOrder(o) \/ WriteSpeed(o)
           \/ WriteBits(o) \/ Query(o) \/ Transfer(o)
    PROVE  GoalInv'
  <1> DEFINE c == call[o]
             g == goal[o]
  <1>1. SpiStep(o) /\ class[o] \in {"spi", "flash"}
    BY SpiStepClass DEF SpiStep
  <1>2. /\ IsSettings(device) /\ data[o] \subseteq Flags /\ c.bits \subseteq Flags
        /\ g # Unknown => OnTheWay(pc[o], c, data[o], device, g)
    BY DEF GoalInv, GoalOf
  <1>3. /\ \A m : m \subseteq Flags => IsSettings([device EXCEPT !.mode = m])
        /\ \A x : IsSettings([device EXCEPT !.speed = x]) /\ IsSettings([device EXCEPT !.width = x])
    BY <1>2 DEF IsSettings
  <1>4. /\ "ready" # "none" /\ "wrMode" # "none" /\ {} \subseteq Flags
        /\ (IF Opening(o) THEN "wrSpeed" ELSE "ready") # "none"
        /\ (IF Opening(o) THEN "wrBits" ELSE "ready") # "none"
    OBVIOUS
  <1>5. CASE ReadMode(o)
    <2>1. pc[o] = "rdMode"
      BY <1>5 DEF ReadMode, Ioctl
    <2>2. (Read(c) \cap Kept(c)) \cup c.bits \subseteq Flags
      BY <1>2 DEF IsSettings, Read
    <2>3. g # Unknown => OnTheWay("wrMode", c, (Read(c) \cap Kept(c)) \cup c.bits, device, g)
      BY <1>2, <2>1, ReadOnTheWay
    <2>4. QED
      BY <1>1, <1>2, <1>4, <1>5, <2>2, <2>3, IoctlKeepsGoals DEF ReadMode
  <1>6. CASE WriteMode(o)
    <2> DEFINE d == [device EXCEPT !.mode = data[o]]
    <2>1. pc[o] = "wrMode"
      BY <1>6 DEF WriteMode, Ioctl
    <2>2. g # Unknown => OnTheWay(IF Opening(o) THEN "wrSpeed" ELSE "ready", c, {}, d, g)
      BY <1>2, <2>1, WriteOnTheWay DEF Opening
    <2>3. IsSettings(d)
      BY <1>2, <1>3
    <2>4. QED
      BY <1>1, <1>4, <1>6, <2>2, <2>3, IoctlKeepsGoals DEF WriteMode
  <1>7. CASE WriteOrder(o)
    <2> DEFINE d == [device EXCEPT !.mode = (@ \ OrderBits) \cup c.bits]
    <2>1. pc[o] = "wrOrder"
      BY <1>7 DEF WriteOrder, Ioctl
    <2>2. g # Unknown => OnTheWay("ready", c, {}, d, g)
      BY <1>2, <2>1, WriteOnTheWay
    <2>3. IsSettings(d)
      BY <1>2, <1>3 DEF IsSettings
    <2>4. QED
      BY <1>1, <1>4, <1>7, <2>2, <2>3, IoctlKeepsGoals DEF WriteOrder
  <1>8. CASE WriteSpeed(o)
    <2> DEFINE d == [device EXCEPT !.speed = c.rate]
    <2>1. pc[o] = "wrSpeed"
      BY <1>8 DEF WriteSpeed, Ioctl
    <2>2. g # Unknown => OnTheWay(IF Opening(o) THEN "wrBits" ELSE "ready", c, {}, d, g)
      BY <1>2, <2>1, WriteOnTheWay DEF Opening
    <2>3. IsSettings(d)
      BY <1>3
    <2>4. QED
      BY <1>1, <1>4, <1>8, <2>2, <2>3, IoctlKeepsGoals DEF WriteSpeed
  <1>9. CASE WriteBits(o)
    <2> DEFINE d == [device EXCEPT !.width = c.rate]
    <2>1. pc[o] = "wrBits"
      BY <1>9 DEF WriteBits, Ioctl
    <2>2. g # Unknown => OnTheWay("ready", c, {}, d, g)
      BY <1>2, <2>1, WriteOnTheWay
    <2>3. IsSettings(d)
      BY <1>3
    <2>4. QED
      BY <1>1, <1>4, <1>9, <2>2, <2>3, IoctlKeepsGoals DEF WriteBits
  <1>10. CASE Query(o) \/ Transfer(o)
    <2>1. pc[o] \in {"query", "message"} /\ Ioctl(o, pc[o], device, {}, "ready")
      BY <1>10 DEF Query, Transfer, Ioctl
    <2>2. g # Unknown => OnTheWay("ready", c, {}, device, g)
      BY <1>2, <2>1, WriteOnTheWay
    <2>3. QED
      BY <1>1, <1>2, <1>4, <2>1, <2>2, IoctlKeepsGoals
  <1>11. QED
    BY <1>5, <1>6, <1>7, <1>8, <1>9, <1>10

LEMMA SpiGoals ==
    ASSUME Table, GoalInv, NEW o \in Objects, SpiStep(o) PROVE GoalInv'
  <1>1. /\ pc = [pc EXCEPT ![o] = pc[o]] /\ call = [call EXCEPT ![o] = call[o]]
        /\ data = [data EXCEPT ![o] = data[o]] /\ goal = [goal EXCEPT ![o] = goal[o]]
    BY DEF Table, GoalInv
  <1>2. /\ calls \in 0 .. MaxCalls /\ IsSettings(device)
        /\ data[o] \subseteq Flags /\ call[o].bits \subseteq Flags
        /\ class[o] \notin {"spi", "flash"} \/ pc[o] = "none" => goal[o] = Unknown
        /\ goal[o] # Unknown => OnTheWay(pc[o], call[o], data[o], device, goal[o])
    BY DEF GoalInv, GoalOf
  <1>3. class[o] \in {"spi", "flash"} /\ {} \subseteq Flags /\ NoCall.bits \subseteq Flags
    BY SpiStepClass DEF NoCall
  <1>4. CASE spi_new(o)
    <2>1. Turns(o, "ready", call[o], data[o], goal[o])
      BY <1>1, <1>2, <1>4 DEF spi_new, Goto, spi, Turns
    <2>2. QED
      BY <2>1, TurnKeepsGoals
  <1>5. CASE spi_free(o)
    <2>1. Turns(o, "none", call[o], data[o], Unknown)
      BY <1>1, <1>2, <1>5 DEF spi_free, Goto, Turns
    <2>2. QED
      BY <2>1, TurnKeepsGoals
  <1>6. CASE spi_close(o)
    <2>1. Turns(o, pc[o], call[o], data[o], Unknown)
      BY <1>1, <1>2, <1>6 DEF spi_close, Turns
    <2>2. QED
      BY <2>1, TurnKeepsGoals
  <1>7. CASE spi_call(o) \/ sfud_spi_port_init(o) \/ spi_write_read(o)
    <2>1. PICK c : Calls(o, c) /\ c.op \in Ops /\ c.bits \subseteq Flags
      BY <1>7, SpiAssumption DEF spi_call, sfud_spi_port_init, spi_write_read, Ops
    <2>2. UNCHANGED class /\ calls' \in 0 .. MaxCalls
      <3>1. calls' = calls \/ (calls < MaxCalls /\ calls' = calls + 1)
        BY <1>7 DEF spi_call, sfud_spi_port_init, spi_write_read
      <3>2. calls' \in 0 .. MaxCalls
        BY <1>2, <3>1, SpiAssumption
      <3>3. QED
        BY <1>7, <3>2 DEF spi_call, sfud_spi_port_init, spi_write_read
    <2> DEFINE w == IF c.op = "open" THEN c.bits ELSE {}
    <2>3. /\ pc' = [pc EXCEPT ![o] = First(c)] /\ call' = [call EXCEPT ![o] = c]
          /\ data' = [data EXCEPT ![o] = w] /\ goal' = [goal EXCEPT ![o] = Asked(c, device)]
          /\ UNCHANGED device
      BY <2>1 DEF Calls, Goto
    <2>4. First(c) # "none"
      BY <2>1 DEF First, Ops
    <2>5. Asked(c, device) # Unknown => OnTheWay(First(c), c, w, device, Asked(c, device))
      <3>1. CASE c.op = "open"
        BY <3>1 DEF First, OnTheWay
      <3>2. CASE c.op \in {"setMode", "setFlags", "setFlags32"}
        BY <3>2 DEF First, OnTheWay
      <3>3. CASE c.op = "setOrder"
        BY <3>3 DEF First, OnTheWay, Asked
      <3>4. CASE c.op = "setSpeed"
        BY <3>4 DEF First, OnTheWay, Asked
      <3>5. CASE c.op = "setBits"
        BY <3>5 DEF First, OnTheWay, Asked
      <3>6. CASE c.op \in {"get", "transfer"}
        BY <3>6 DEF First, OnTheWay, Asked
      <3>7. QED
        BY <2>1, <3>1, <3>2, <3>3, <3>4, <3>5, <3>6 DEF Ops
    <2>6. w \subseteq Flags
      BY <2>1
    <2> HIDE DEF w
    <2>7. Turns(o, First(c), c, w, Asked(c, device))
      BY <1>3, <2>1, <2>2, <2>3, <2>4, <2>5, <2>6 DEF Turns
    <2>8. QED
      BY <2>7, TurnKeepsGoals
  <1>8. CASE OpenDevice(o)
    <2>1. pc[o] = "open" /\ UNCHANGED <<class, device, calls>>
      BY <1>8 DEF OpenDevice
    <2>2. \/ pc' = [pc EXCEPT ![o] = "wrMode"] /\ UNCHANGED <<call, data, goal>>
          \/ /\ pc' = [pc EXCEPT ![o] = "ready"] /\ call' = [call EXCEPT ![o] = NoCall]
             /\ data' = [data EXCEPT ![o] = {}] /\ goal' = [goal EXCEPT ![o] = Unknown]
      BY <1>8 DEF OpenDevice, Fails, Returns, Goto
    <2>3. goal[o] # Unknown => OnTheWay("wrMode", call[o], data[o], device, goal[o])
      BY <1>2, <2>1 DEF OnTheWay
    <2>4. \/ Turns(o, "wrMode", call[o], data[o], goal[o])
          \/ Turns(o, "ready", NoCall, {}, Unknown)
      BY <1>1, <1>2, <1>3, <2>1, <2>2, <2>3 DEF Turns
    <2>5. QED
      BY <2>4, TurnKeepsGoals
  <1>9. CASE \/ ReadMode(o) \/ WriteMode(o) \/ WriteOrder(o) \/ WriteSpeed(o)
             \/ WriteBits(o) \/ Query(o) \/ Transfer(o)
    BY <1>9, IoctlGoals
  <1>10. QED
    BY <1>4, <1>5, <1>6, <1>7, <1>8, <1>9 DEF SpiStep

\* The steps of the other classes do not touch what spi.c keeps.
LEMMA OtherGoals ==
    ASSUME Table, GoalInv, NEW o \in Objects, UNCHANGED spi,
           UartStep(o) \/ ((NetStep(o) \/ JsonStep(o)) /\ UNCHANGED opened)
    PROVE  GoalInv'
  <1>1. TableMoves(o)
    BY UartStepMoves, NetStepMoves, JsonStepMoves
  <1>2. class[o] \notin {"spi", "flash"}
    <2>1. pc[o] \in FilePlaces \cup UartPlaces \cup {"bind"} => class[o] \notin {"spi", "flash"}
      BY DEF Table, PlacesOf, SpiPlaces, FilePlaces, UartPlaces
    <2>2. CASE UartStep(o)
      BY <2>1, <2>2 DEF UartStep, CdrawUart, openUart, GetAttr, CloseUart, CloseUartAgain, UartPlaces
    <2>3. CASE NetStep(o)
      BY <2>1, <2>3 DEF NetStep, CdrawNet, Bind, DestroyNet, IsNet
    <2>4. CASE JsonStep(o)
      BY <2>1, <2>4 DEF JsonStep, InitByJson, TestFile, SkipFile, CreateFile, PrintFile, ReadFile,
         COSD_OpenCL, DestroyOsd, FilePlaces
    <2>5. QED
      BY <2>2, <2>3, <2>4
  <1>3. PICK l : pc' = [pc EXCEPT ![o] = l]
    BY <1>1 DEF TableMoves
  <1>4. /\ call = [call EXCEPT ![o] = call[o]] /\ data = [data EXCEPT ![o] = data[o]]
        /\ goal = [goal EXCEPT ![o] = goal[o]] /\ calls \in 0 .. MaxCalls
        /\ data[o] \subseteq Flags /\ call[o].bits \subseteq Flags /\ goal[o] = Unknown
    BY <1>2 DEF GoalInv, GoalOf
  <1>5. Turns(o, l, call[o], data[o], goal[o])
    BY <1>1, <1>3, <1>4 DEF TableMoves, Turns, spi
  <1>6. QED
    BY <1>5, TurnKeepsGoals

SettingInv == Table /\ GoalInv

LEMMA SettingInit == Init => SettingInv
  <1> SUFFICES ASSUME Init PROVE GoalInv
    BY TableInit DEF SettingInv
  <1>1. /\ device = Fresh /\ call = [o \in Objects |-> NoCall] /\ data = [o \in Objects |-> {}]
        /\ goal = [o \in Objects |-> Unknown] /\ calls = 0
    BY DEF Init, SpiInit
  <1>2. IsSettings(device)
    BY <1>1 DEF IsSettings, Fresh
  <1>3. calls \in 0 .. MaxCalls
    BY <1>1, SpiAssumption
  <1>4. \A o \in Objects : GoalOf(o)
    BY <1>1 DEF GoalOf, NoCall
  <1>5. QED
    BY <1>1, <1>2, <1>3, <1>4 DEF GoalInv

LEMMA SettingStep == SettingInv /\ [Next]_vars => SettingInv'
  <1> SUFFICES ASSUME Table, GoalInv, [Next]_vars PROVE GoalInv'
    BY TableStep DEF SettingInv
  <1>1. CASE UNCHANGED vars
    BY <1>1 DEF vars, process, spi, GoalInv, GoalOf, IsSettings
  <1>2. CASE Crash
    <2>1. /\ call' = [o \in Objects |-> NoCall] /\ data' = [o \in Objects |-> {}]
          /\ goal' = [o \in Objects |-> Unknown] /\ UNCHANGED <<device, calls>>
      BY <1>2 DEF Crash
    <2>2. \A o \in Objects : GoalOf(o)'
      BY <2>1 DEF GoalOf, NoCall
    <2>3. QED
      BY <2>1, <2>2 DEF GoalInv, IsSettings
  <1>3. ASSUME NEW o \in Objects,
               \/ SpiStep(o) /\ UNCHANGED <<json, opened>>
               \/ UartStep(o) /\ UNCHANGED spi
               \/ (NetStep(o) \/ JsonStep(o)) /\ UNCHANGED <<spi, opened>>
        PROVE  GoalInv'
    BY <1>3, SpiGoals, OtherGoals
  <1>4. QED
    BY <1>1, <1>2, <1>3 DEF Next

\* A call of spi.c that succeeds and that nobody disturbed has made of the
\* device what Asked says: spi_open_advanced2 mode, speed and width as given,
\* spi_set_bit_order and spi_set_extra_flags32 their own flags and nothing else,
\* spi_set_mode and spi_set_extra_flags, whose read, mask and write back are of
\* the low byte, their own flags and no flag above that byte, the other setters
\* their own value, for all flags and all rates.
THEOREM CallsDoWhatIsAsked == Spec => []SettingsAsAsked
  <1>1. SettingInv => SettingsAsAsked
    BY DEF SettingInv, GoalInv, GoalOf, OnTheWay, SettingsAsAsked
  <1>2. QED
    BY <1>1, SettingInit, SettingStep, PTL DEF Spec

\* The types of the device objects' state, for all of them.
THEOREM DevicesTypes == Spec => []DevicesTypeOK
  <1>1. Init => SaveInv /\ SettingInv
    BY TableInit, ParamsInit, SettingInit DEF SaveInv
  <1>2. SaveInv /\ SettingInv => DevicesTypeOK
    BY DEF SaveInv, SettingInv, Table, Params, GoalInv, IsSettings, DevicesTypeOK
  <1>3. QED
    BY <1>1, <1>2, SaveStep, SettingStep, PTL DEF Spec
=============================================================================
