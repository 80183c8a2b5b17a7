--------------------------- MODULE SfudInitProofs ---------------------------
(***************************************************************************)
(* Proofs about the start-up of the serial flash driver: for every chip    *)
(* that keeps the assumptions of SfudInit, any number of calls, crashes    *)
(* and failed transfers, what a success says of the chip is true, and so   *)
(* is "not found".                                                         *)
(***************************************************************************)
EXTENDS SfudInit, TLAPS

Commands == {"RDID", "SFDP", "RDSR", "WREN", "EWSR", "WRSR", "EN4B", "RSTEN", "RST"}
Modes == {"byte", "page", "aai", "dual"}
Pcs == {"idle", "jedec", "header", "basic", "table", "lookup", "check", "rsten",
        "rstenWait", "rst", "rstWait", "ewsr", "wren", "wrenStatus", "wrsr",
        "addressing", "fourWren", "fourStatus", "four"}
Results == {"none", "SUCCESS", "ERR_NOT_FOUND", "ERR_READ", "ERR_WRITE", "ERR_TIMEOUT"}

Positive == Nat \ {0}

ChipStates == [cycle : {"none", "erase", "status"}, wel : BOOLEAN, ewsr : BOOLEAN,
               armed : BOOLEAN, four : BOOLEAN, protected : BOOLEAN,
               idle : BOOLEAN, reset : BOOLEAN]

FlashStates == [id : {NoId} \cup {d.id : d \in Devices}, capacity : 0 .. 2 ^ Width - 1,
                write_mode : SUBSET Modes, erase_gran : Nat, erase_gran_cmd : Nat,
                available : BOOLEAN, eraser : Seq(Positive \X Positive),
                addr_in_4_byte : BOOLEAN, init_ok : BOOLEAN]

Types ==
    /\ device \in Devices
    /\ chip \in ChipStates
    /\ flash \in FlashStates
    /\ flash.id \in {NoId, device.id}
    /\ pc \in Pcs
    /\ retry \in 0 .. RetryTimes
    /\ result \in Results
    /\ faults \in 0 .. MaxFaults
    /\ deceived \in BOOLEAN

\* From the smallest block to the largest.
Rising(s) == \A i, j \in 1 .. Len(s) : i < j => s[i][1] < s[j][1]

\* A configured flash is true to the chip, whichever call configured it.
Known ==
    Configured(flash) =>
       /\ flash.capacity = device.capacity
       /\ flash.write_mode \subseteq device.write_mode
       /\ <<flash.erase_gran, flash.erase_gran_cmd>> \in device.erasers
       /\ device.protected => "aai" \in flash.write_mode \/ device.id = MX25L3206E
       /\ flash.available =>
            /\ \A e \in device.erasers : flash.erase_gran <= e[1]
            /\ flash.eraser[1][1] = flash.erase_gran
            /\ Rising(flash.eraser)

\* The steps that need a configured flash, and those that it takes for reset,
\* protection and addresses.
Four == {"fourWren", "fourStatus", "four"}
Resetting == {"rsten", "rstenWait", "rst", "rstWait"}
Unprotecting == {"ewsr", "wren", "wrenStatus", "wrsr"}
Preparing == Resetting \cup Unprotecting \cup {"addressing"} \cup Four

\* What the control has tested on the way to where it is.
Tested ==
    /\ pc \in {"basic", "table"} => device.sfdp # <<>> /\ HeaderOk(Sfdp)
    /\ pc = "table" => BasicOk(Sfdp)
    /\ pc \in {"basic", "table", "lookup"} => ~flash.available
    /\ pc \in Preparing => Configured(flash)
    /\ pc \in {"wren", "wrenStatus"} => flash.id = MX25L3206E
    /\ pc \in Four => flash.capacity > FourByteLimit
    /\ Succeeded => Configured(flash) /\ flash.init_ok
    /\ pc = "idle" /\ flash.init_ok => result = "SUCCESS"

\* A call that found the chip idle and lost no transfer has learnt whether it
\* is supported.
Clean == faults = MaxFaults /\ chip.idle
HasGoodTables == device.sfdp # <<>> /\ device.valid
Learnt ==
    Clean => /\ pc \in {"jedec", "header", "basic", "table"} => chip.cycle = "none"
             /\ pc \in {"header", "basic", "table", "lookup"} => flash.id = device.id
             /\ pc = "lookup" => ~HasGoodTables
             /\ pc = "check" => Configured(flash) \/ ~Supported
             /\ pc = "idle" /\ result = "ERR_NOT_FOUND" => ~Supported

\* When no lost transfer was reported as done, the chip is at rest when it is to
\* take the commands that follow the reset, and so is in the mode noted.
Quiet ==
    /\ pc \in Unprotecting \cup Four => chip.cycle = "none"
    /\ pc = "addressing" => chip.cycle = "none" \/ device.id = MX25L3206E
    /\ pc = "wrsr" => chip.ewsr \/ (chip.wel /\ flash.id = MX25L3206E)
    /\ chip.four => device.capacity > FourByteLimit
    /\ Succeeded => flash.addr_in_4_byte = chip.four

\* A chip still protected, with no cycle to lift that, is one the driver knows
\* by its id, and the driver is not past lifting it.
Locked == chip.protected /\ chip.cycle # "status"
Lifted ==
    /\ chip.protected => device.protected
    /\ chip.cycle = "erase" => ~chip.protected
    /\ Locked => /\ pc \notin {"idle", "jedec"} \/ Configured(flash) => flash.id = device.id
                 /\ pc \notin Four \cup {"addressing"}
                 /\ ~Succeeded

\* A chip that was idle when the call began has stayed so and obeyed the reset.
Obeyed ==
    chip.idle =>
       /\ pc \in {"jedec", "header", "basic", "table", "lookup", "check"} \cup Resetting
             => chip.cycle = "none"
       /\ pc \in {"rstenWait", "rst"} => chip.armed
       /\ pc \in {"rstWait", "addressing"} \cup Unprotecting \cup Four \/ Succeeded => chip.reset

IInv == /\ Types /\ Known /\ Tested /\ Learnt
        /\ ~deceived => Quiet /\ Lifted
        /\ ~deceived /\ device.keepsArmed => Obeyed

-----------------------------------------------------------------------------
\* The erasers: the pairs that a sequence lists, and that it lists none twice.
Members(s) == {s[i] : i \in 1 .. Len(s)}
Once(s) == \A i, j \in 1 .. Len(s) : s[i] = s[j] => i = j

\* A slot that is kept adds its eraser to those before it.
LEMMA KeepOne ==
    ASSUME NEW E, NEW s \in Seq(E), Once(s), NEW e,
           e[1] # 0 => Eraser(e) \in E /\ Eraser(e) \notin Members(s)
    PROVE  /\ Keep(s, e) \in Seq(E) /\ Once(Keep(s, e))
           /\ Len(Keep(s, e)) \in {Len(s), Len(s) + 1}
           /\ Members(Keep(s, e)) = Members(s) \cup (IF e[1] = 0 THEN {} ELSE {Eraser(e)})
  <1>1. CASE e[1] = 0
    BY <1>1 DEF Keep
  <1>2. CASE e[1] # 0
    <2> DEFINE x == Eraser(e)
               r == Append(s, x)
    <2>1. x \in E /\ x \notin Members(s) /\ Keep(s, e) = r
      BY <1>2 DEF Keep
    <2> HIDE DEF x
    <2>2. /\ r \in Seq(E) /\ Len(r) = Len(s) + 1 /\ Len(s) \in Nat
          /\ r[Len(s) + 1] = x /\ \A i \in 1 .. Len(s) : r[i] = s[i]
      BY <2>1
    <2> HIDE DEF r
    <2>3. \A i \in 1 .. Len(r) : i \in 1 .. Len(s) \/ i = Len(s) + 1
      BY <2>2
    <2>4. \A i \in 1 .. Len(s) : i \in 1 .. Len(r) /\ r[i] \in Members(s)
      BY <2>2 DEF Members
    <2>5. Once(r)
      BY <2>1, <2>2, <2>3, <2>4 DEF Once
    <2>6. Members(r) \subseteq Members(s) \cup {x}
      BY <2>2, <2>3, <2>4 DEF Members
    <2>7. Len(s) + 1 \in 1 .. Len(r)
      BY <2>2
    <2>8. Members(s) \cup {x} \subseteq Members(r)
      BY <2>2, <2>4, <2>7 DEF Members
    <2>9. QED
      BY <1>2, <2>1, <2>2, <2>5, <2>6, <2>8 DEF x
  <1>3. QED
    BY <1>1, <1>2

\* r is q with the places i and j in order.
Ordered(q, r, i, j) ==
    /\ \A k \in 1 .. Len(q) : k # i /\ k # j => r[k] = q[k]
    /\ j <= Len(q) => \/ r[i] = q[i] /\ r[j] = q[j]
                      \/ r[i] = q[j] /\ r[j] = q[i]
    /\ j <= Len(q) => r[i][1] <= r[j][1]
    /\ j > Len(q) => r = q

\* A step of the sort orders two places and leaves the others and the pairs
\* listed alone.
LEMMA ExchangeTwo ==
    ASSUME NEW E \in SUBSET (Positive \X Positive), NEW s \in Seq(E), Once(s),
           NEW i \in 1 .. 4, NEW j \in 1 .. 4, i < j, NEW r, r = Exchange(s, i, j)
    PROVE  /\ r \in Seq(E) /\ Len(r) = Len(s) /\ Once(r) /\ Members(r) = Members(s)
           /\ Ordered(s, r, i, j)
  <1>0. Len(s) \in Nat /\ \A k \in 1 .. Len(s) : s[k] \in E /\ s[k][1] \in Nat
    BY DEF Positive
  <1>1. CASE ~(j <= Len(s) /\ s[i][1] > s[j][1])
    <2>1. r = s
      BY <1>1 DEF Exchange
    <2>2. j <= Len(s) => i \in 1 .. Len(s) /\ j \in 1 .. Len(s)
      BY <1>0
    <2>3. j <= Len(s) => s[i][1] <= s[j][1]
      BY <1>0, <1>1, <2>2
    <2>4. j > Len(s) => ~(j <= Len(s))
      BY <1>0
    <2>5. QED
      BY <2>1, <2>3, <2>4 DEF Ordered
  <1>2. CASE j <= Len(s) /\ s[i][1] > s[j][1]
    <2>1. r = [s EXCEPT ![i] = s[j], ![j] = s[i]]
      BY <1>2 DEF Exchange
    <2>2. i \in 1 .. Len(s) /\ j \in 1 .. Len(s) /\ i # j
      BY <1>0, <1>2
    <2>3. s = [k \in 1 .. Len(s) |-> s[k]]
      OBVIOUS
    <2>4. r = [k \in 1 .. Len(s) |-> IF k = i THEN s[j] ELSE IF k = j THEN s[i] ELSE s[k]]
      BY <2>1, <2>2, <2>3, Zenon
    <2>5. \A k \in 1 .. Len(s) : r[k] \in E
      BY <1>0, <2>2, <2>4
    <2>6. r \in Seq(E) /\ Len(r) = Len(s)
      BY <1>0, <2>4, <2>5
    <2>7. r[i] = s[j] /\ r[j] = s[i] /\ \A k \in 1 .. Len(s) : k # i /\ k # j => r[k] = s[k]
      BY <2>2, <2>4
    <2>8. Once(r)
      BY <2>2, <2>6, <2>7 DEF Once
    <2>9. Members(r) \subseteq Members(s)
      BY <2>2, <2>6, <2>7 DEF Members
    <2>10. Members(s) \subseteq Members(r)
      BY <2>2, <2>6, <2>7 DEF Members
    <2>11. r[i][1] <= r[j][1]
      BY <1>0, <1>2, <2>2, <2>7
    <2>12. ~(j > Len(s))
      BY <1>0, <1>2
    <2>13. QED
      BY <2>6, <2>7, <2>8, <2>9, <2>10, <2>11, <2>12 DEF Ordered
  <1>3. QED
    BY <1>1, <1>2
\* Six steps sort what four slots hold.
LEMMA Sorted ==
    ASSUME NEW E \in SUBSET (Positive \X Positive), NEW s \in Seq(E), Once(s), Len(s) <= 4,
           \A a, b \in E : a[1] = b[1] => a = b
    PROVE  LET r == Ascending(s)
           IN  r \in Seq(E) /\ Members(r) = Members(s) /\ Len(r) = Len(s) /\ Rising(r)
  <1> DEFINE n == Len(s)
             Good(r) == r \in Seq(E) /\ Len(r) = n /\ Once(r) /\ Members(r) = Members(s)
  <1>0. ASSUME NEW q, Good(q), NEW i \in 1 .. 4, NEW j \in 1 .. 4, i < j, NEW r,
               r = Exchange(q, i, j)
        PROVE  Good(r) /\ Ordered(q, r, i, j)
    <2>1. q \in Seq(E) /\ Len(q) = n /\ Once(q) /\ Members(q) = Members(s)
      BY <1>0
    <2>2. /\ r \in Seq(E) /\ Len(r) = Len(q) /\ Once(r) /\ Members(r) = Members(q)
          /\ Ordered(q, r, i, j)
      <3>1. i < j /\ r = Exchange(q, i, j)
        BY <1>0
      <3> HIDE DEF n, Good
      <3>2. \A x : x = Exchange(q, i, j) =>
               /\ x \in Seq(E) /\ Len(x) = Len(q) /\ Once(x) /\ Members(x) = Members(q)
               /\ Ordered(q, x, i, j)
        BY <2>1, <3>1, ExchangeTwo, Zenon
      <3>3. QED
        BY <3>1, <3>2, Zenon
    <2>3. QED
      BY <2>1, <2>2
  <1>1. PICK a : a = Exchange(s, 1, 2)
    OBVIOUS
  <1>2. PICK b : b = Exchange(a, 1, 3)
    OBVIOUS
  <1>3. PICK c : c = Exchange(b, 1, 4)
    OBVIOUS
  <1>4. PICK d : d = Exchange(c, 2, 3)
    OBVIOUS
  <1>5. PICK e : e = Exchange(d, 2, 4)
    OBVIOUS
  <1>6. PICK f : f = Exchange(e, 3, 4)
    OBVIOUS
  <1>7. Ascending(s) = f
    BY <1>1, <1>2, <1>3, <1>4, <1>5, <1>6, Zenon DEF Ascending
  <1>8. Good(s) /\ n \in Nat /\ n <= 4
    OBVIOUS
  <1> HIDE DEF Good
  <1>9. Good(a) /\ Ordered(s, a, 1, 2)
    BY <1>0, <1>1, <1>8
  <1>10. Good(b) /\ Ordered(a, b, 1, 3)
    BY <1>0, <1>2, <1>9
  <1>11. Good(c) /\ Ordered(b, c, 1, 4)
    BY <1>0, <1>3, <1>10
  <1>12. Good(d) /\ Ordered(c, d, 2, 3)
    BY <1>0, <1>4, <1>11
  <1>13. Good(e) /\ Ordered(d, e, 2, 4)
    BY <1>0, <1>5, <1>12
  <1>14. Good(f) /\ Ordered(e, f, 3, 4)
    BY <1>0, <1>6, <1>13
  <1> DEFINE Swap(q, r, i, j) ==
                /\ \A k \in 1 .. n : k # i /\ k # j => r[k] = q[k]
                /\ j <= n => \/ r[i] = q[i] /\ r[j] = q[j]
                             \/ r[i] = q[j] /\ r[j] = q[i]
                /\ j <= n => r[i][1] <= r[j][1]
                /\ j > n => r = q
  <1>15. \A r : Good(r) => /\ Len(r) = n /\ Once(r)
                          /\ \A k \in 1 .. n : r[k] \in E /\ r[k][1] \in Nat
    BY DEF Positive, Good
  <1>16. /\ Swap(s, a, 1, 2) /\ Swap(a, b, 1, 3) /\ Swap(b, c, 1, 4)
         /\ Swap(c, d, 2, 3) /\ Swap(d, e, 2, 4) /\ Swap(e, f, 3, 4)
    <2>1. \A q, r, i, j : Good(q) /\ Ordered(q, r, i, j) => Swap(q, r, i, j)
      BY <1>15 DEF Ordered
    <2>2. QED
      BY <1>8, <1>9, <1>10, <1>11, <1>12, <1>13, <1>14, <2>1
  <1>17. \A k \in 1 .. n : /\ s[k][1] \in Nat /\ a[k][1] \in Nat /\ b[k][1] \in Nat
                           /\ c[k][1] \in Nat /\ d[k][1] \in Nat /\ e[k][1] \in Nat
                           /\ f[k][1] \in Nat /\ f[k] \in E
    BY <1>8, <1>9, <1>10, <1>11, <1>12, <1>13, <1>14, <1>15
  <1>18. n \in Nat /\ n <= 4
    BY <1>8
  <1> HIDE DEF n
  <1>19. \A i, j \in 1 .. n : i < j => f[i][1] <= f[j][1]
    <2>1. n \in 0 .. 4
      BY <1>18
    <2>2. CASE n \in {0, 1}
      BY <2>2
    <2>3. CASE n = 2
      <3>1. f = a /\ a[1][1] <= a[2][1]
        BY <2>3, <1>16
      <3>2. QED
        BY <2>3, <3>1
    <2>4. CASE n = 3
      <3>1. f = d /\ c = b
        BY <2>4, <1>16
      <3>2. a[1][1] <= a[2][1] /\ b[2] = a[2] /\ b[1][1] <= b[3][1]
        BY <2>4, <1>16
      <3>3. b[1] = a[1] \/ b[3] = a[1]
        BY <2>4, <1>16
      <3>4. /\ a[1][1] \in Nat /\ a[2][1] \in Nat /\ b[1][1] \in Nat /\ b[3][1] \in Nat
        BY <2>4, <1>17
      <3>5. b[1][1] <= b[2][1]
        BY <3>2, <3>3, <3>4
      <3>6. /\ d[1] = b[1] /\ d[2][1] <= d[3][1]
            /\ d[2] \in {b[2], b[3]} /\ d[3] \in {b[2], b[3]}
        BY <2>4, <1>16, <3>1
      <3>7. b[1][1] <= d[2][1] /\ b[1][1] <= d[3][1]
        BY <3>2, <3>5, <3>6
      <3>8. QED
        BY <2>4, <3>1, <3>6, <3>7
    <2>5. CASE n = 4
      <3>1. /\ a[1][1] <= a[2][1]
            /\ b[2] = a[2] /\ b[1][1] <= b[3][1] /\ (b[1] = a[1] \/ b[3] = a[1])
        BY <2>5, <1>16
      <3>2. /\ c[2] = b[2] /\ c[3] = b[3] /\ c[1][1] <= c[4][1]
            /\ c[1] = b[1] \/ c[4] = b[1]
        BY <2>5, <1>16
      <3>3. /\ d[1] = c[1] /\ d[4] = c[4] /\ d[2][1] <= d[3][1]
            /\ d[2] \in {c[2], c[3]} /\ d[3] \in {c[2], c[3]}
        BY <2>5, <1>16
      <3>4. /\ e[1] = d[1] /\ e[3] = d[3] /\ e[2][1] <= e[4][1]
            /\ (e[2] = d[2] /\ e[4] = d[4]) \/ (e[2] = d[4] /\ e[4] = d[2])
        BY <2>5, <1>16
      <3>5. /\ f[1] = e[1] /\ f[2] = e[2] /\ f[3][1] <= f[4][1]
            /\ f[3] \in {e[3], e[4]} /\ f[4] \in {e[3], e[4]}
        BY <2>5, <1>16
      <3>6. /\ a[1][1] \in Nat /\ a[2][1] \in Nat /\ b[1][1] \in Nat /\ b[3][1] \in Nat
            /\ c[1][1] \in Nat /\ c[4][1] \in Nat /\ d[2][1] \in Nat /\ d[3][1] \in Nat
            /\ d[4][1] \in Nat /\ e[2][1] \in Nat /\ e[4][1] \in Nat
        BY <2>5, <1>17
      <3>7. b[1][1] <= b[2][1]
        <4>1. b[2][1] = a[2][1] /\ (b[1][1] = a[1][1] \/ b[3][1] = a[1][1])
          BY <3>1
        <4>2. QED
          BY <3>1, <3>6, <4>1
      <3>8. c[1][1] <= c[2][1] /\ c[1][1] <= c[3][1]
        <4>1. c[1][1] <= b[1][1]
          BY <3>2, <3>6
        <4>2. b[2][1] \in Nat /\ b[1][1] <= b[2][1] /\ b[1][1] <= b[3][1]
          BY <2>5, <1>17, <3>1, <3>7
        <4>3. QED
          BY <3>2, <3>6, <4>1, <4>2
      <3>9. c[1][1] <= d[2][1] /\ c[1][1] <= d[3][1]
        BY <3>3, <3>8
      <3>10. /\ e[2][1] <= e[3][1] /\ c[1][1] <= e[2][1]
             /\ c[1][1] <= e[3][1] /\ c[1][1] <= e[4][1]
        <4>1. c[1][1] <= d[4][1]
          BY <3>2, <3>3
        <4>2. e[2][1] <= d[2][1]
          BY <3>4, <3>6
        <4>3. QED
          <5>1. e[2][1] <= e[3][1]
            <6>1. e[3][1] = d[3][1]
              BY <3>4
            <6>2. QED
              BY <3>3, <3>6, <4>2, <6>1
          <5>2. (e[2] = d[2] \/ e[2] = d[4]) /\ (e[4] = d[2] \/ e[4] = d[4]) /\ e[3] = d[3]
            BY <3>4
          <5>3. QED
            BY <3>9, <4>1, <5>1, <5>2
      <3>11. /\ e[2][1] <= f[3][1] /\ e[2][1] <= f[4][1]
             /\ c[1][1] <= f[3][1] /\ c[1][1] <= f[4][1]
        BY <3>4, <3>5, <3>10
      <3>12. f[1] = c[1] /\ f[1][1] <= f[2][1]
        BY <3>3, <3>4, <3>5, <3>10
      <3>13. /\ f[1][1] <= f[2][1] /\ f[1][1] <= f[3][1] /\ f[1][1] <= f[4][1]
             /\ f[2][1] <= f[3][1] /\ f[2][1] <= f[4][1] /\ f[3][1] <= f[4][1]
        BY <3>5, <3>11, <3>12
      <3>14. QED
        BY <2>5, <3>13
    <2>6. QED
      BY <2>1, <2>2, <2>3, <2>4, <2>5
  <1>20. Rising(f)
    <2>1. \A i, j \in 1 .. n : f[i][1] = f[j][1] => i = j
      <3>1. Once(f) /\ Len(f) = n
        BY <1>14, <1>15
      <3>2. ASSUME NEW i \in 1 .. n, NEW j \in 1 .. n, f[i][1] = f[j][1]
            PROVE  i = j
        <4>1. f[i] = f[j]
          BY <1>17, <3>2
        <4>2. QED
          BY <3>1, <4>1 DEF Once
      <3>3. QED
        BY <3>2
    <2>2. \A i, j \in 1 .. n : i < j => f[i][1] < f[j][1]
      <3>1. ASSUME NEW i \in 1 .. n, NEW j \in 1 .. n, i < j
            PROVE  f[i][1] < f[j][1]
        <4>1. f[i][1] <= f[j][1] /\ f[i][1] \in Nat /\ f[j][1] \in Nat
          BY <1>17, <1>19, <3>1
        <4>2. f[i][1] # f[j][1]
          BY <1>18, <2>1, <3>1
        <4>3. QED
          BY <4>1, <4>2
      <3>2. QED
        BY <3>1
    <2>3. QED
      BY <1>14, <1>15, <2>2 DEF Rising
  <1>21. QED
    BY <1>7, <1>14, <1>20 DEF Good, n
\* The erasers of a table are those of its slots in use, the smallest first.
LEMMA ErasersRise ==
    ASSUME NEW t, NEW E \in SUBSET (Positive \X Positive),
           \A a, b \in E : a[1] = b[1] => a = b,
           \A i \in InUse(t) : Eraser(t.types[i]) \in E,
           \A i, j \in InUse(t) : i # j => Eraser(t.types[i]) # Eraser(t.types[j]),
           NEW e, e = Erasers(t.types)
    PROVE  /\ e \in Seq(E) /\ Rising(e)
           /\ Members(e) = {Eraser(t.types[i]) : i \in InUse(t)}
  <1> DEFINE Upto(n) == {Eraser(t.types[i]) : i \in {j \in InUse(t) : j <= n}}
             Good(s, n) == s \in Seq(E) /\ Once(s) /\ Len(s) \in 0 .. n /\ Members(s) = Upto(n)
  <1>1. ASSUME NEW n \in 1 .. 4, NEW s, Good(s, n - 1)
        PROVE  Good(Keep(s, t.types[n]), n)
    <2> DEFINE x == t.types[n]
    <2>1. InUse(t) \subseteq 1 .. 4 /\ (n \in InUse(t) <=> x[1] # 0)
      BY DEF InUse
    <2>2. s \in Seq(E) /\ Once(s) /\ Len(s) \in 0 .. n - 1 /\ Members(s) = Upto(n - 1)
      BY <1>1
    <2>3. x[1] # 0 => Eraser(x) \in E /\ Eraser(x) \notin Members(s)
      <3>1. \A j \in InUse(t) : j <= n - 1 => j # n
        BY <2>1
      <3>2. QED
        BY <2>1, <2>2, <3>1
    <2>4. /\ Keep(s, x) \in Seq(E) /\ Once(Keep(s, x))
          /\ Len(Keep(s, x)) \in {Len(s), Len(s) + 1}
          /\ Members(Keep(s, x)) = Members(s) \cup (IF x[1] = 0 THEN {} ELSE {Eraser(x)})
      <3> HIDE DEF x
      <3>1. QED
        BY <2>2, <2>3, KeepOne
    <2>5. Upto(n) = Upto(n - 1) \cup (IF x[1] = 0 THEN {} ELSE {Eraser(x)})
      <3>1. {j \in InUse(t) : j <= n} =
              {j \in InUse(t) : j <= n - 1} \cup (IF n \in InUse(t) THEN {n} ELSE {})
        BY <2>1
      <3>2. QED
        BY <2>1, <3>1
    <2>6. Len(Keep(s, x)) \in 0 .. n
      BY <2>2, <2>4
    <2>7. QED
      BY <2>2, <2>4, <2>5, <2>6
  <1>2. Good(<<>>, 0)
    <2>1. Upto(0) = {}
      BY DEF InUse
    <2>2. QED
      BY <2>1 DEF Once, Members
  <1>3. PICK a : a = Keep(<<>>, t.types[1])
    OBVIOUS
  <1>4. PICK b : b = Keep(a, t.types[2])
    OBVIOUS
  <1>5. PICK c : c = Keep(b, t.types[3])
    OBVIOUS
  <1>6. PICK d : d = Keep(c, t.types[4])
    OBVIOUS
  <1>7. Erasers(t.types) = Ascending(d)
    BY <1>3, <1>4, <1>5, <1>6, Zenon DEF Erasers
  <1> HIDE DEF Good
  <1>8. Good(a, 1)
    BY <1>1, <1>2, <1>3
  <1>9. Good(b, 2)
    BY <1>1, <1>4, <1>8
  <1>10. Good(c, 3)
    BY <1>1, <1>5, <1>9
  <1>11. Good(d, 4)
    BY <1>1, <1>6, <1>10
  <1>12. d \in Seq(E) /\ Once(d) /\ Len(d) <= 4 /\ Members(d) = Upto(4)
    <2>1. d \in Seq(E) /\ Once(d) /\ Len(d) \in 0 .. 4 /\ Members(d) = Upto(4)
      BY <1>11, Zenon DEF Good
    <2>2. Len(d) \in 0 .. 4
      BY <2>1, Zenon
    <2>3. Len(d) <= 4
      <3>1. \A n \in 0 .. 4 : n <= 4
        OBVIOUS
      <3>2. QED
        BY <2>2, <3>1, Zenon
    <2>4. QED
      BY <2>1, <2>3, Zenon
  <1>13. {j \in InUse(t) : j <= 4} = InUse(t)
    BY DEF InUse
  <1>14. e = Ascending(d)
    BY <1>7
  <1>15. e \in Seq(E) /\ Members(e) = Members(d) /\ Rising(e)
    BY <1>12, <1>14, Sorted
  <1>16. QED
    BY <1>12, <1>13, <1>15

\* The smallest of the erasers is the first.
LEMMA SmallestIsFirst ==
    ASSUME NEW E \in SUBSET (Positive \X Positive), NEW e \in Seq(E), Rising(e), e # <<>>
    PROVE  Smallest(e) = 1 /\ e[1] \in E /\ \A x \in Members(e) : e[1][1] <= x[1]
  <1>0. PICK k : k = Smallest(e)
    OBVIOUS
  <1>1. Len(e) \in Nat /\ Len(e) # 0 /\ DOMAIN e = 1 .. Len(e)
    OBVIOUS
  <1>2. \A i \in 1 .. Len(e) : e[i] \in E /\ e[i][1] \in Nat
    BY DEF Positive
  <1>3. 1 \in 1 .. Len(e)
    BY <1>1
  <1>4. \A j \in 1 .. Len(e) : e[1][1] <= e[j][1]
    <2>1. \A j \in 1 .. Len(e) : j # 1 => 1 < j
      BY <1>1
    <2>2. \A j \in 1 .. Len(e) : j # 1 => e[1][1] < e[j][1]
      BY <1>3, <2>1 DEF Rising
    <2>3. QED
      BY <1>2, <1>3, <2>2
  <1> DEFINE Least(i) == i > 0 /\ \A j \in 1 .. Len(e) : e[i][1] <= e[j][1]
  <1>5. k = CHOOSE i \in 0 .. Len(e) : Least(i)
    BY <1>0, <1>1, Zenon DEF Smallest
  <1>6. 1 \in 0 .. Len(e) /\ Least(1)
    BY <1>1, <1>4
  <1>7. k \in 0 .. Len(e) /\ Least(k)
    <2> HIDE DEF Least
    <2>1. QED
      BY <1>5, <1>6
  <1>8. k \in 1 .. Len(e) /\ e[k][1] <= e[1][1]
    BY <1>1, <1>3, <1>7
  <1>9. k = 1
    <2>1. k # 1 => 1 < k
      BY <1>1, <1>8
    <2>2. k # 1 => e[1][1] < e[k][1]
      BY <1>3, <1>8, <2>1 DEF Rising
    <2>3. QED
      BY <1>2, <1>3, <1>8, <2>2
  <1>10. QED
    BY <1>0, <1>2, <1>3, <1>4, <1>9 DEF Members

LEMMA SmallestOfNone == Smallest(<<>>) = 0
  <1>1. Smallest(<<>>) = CHOOSE i \in {0} : i = 0
    BY DEF Smallest
  <1>2. QED
    BY <1>1
-----------------------------------------------------------------------------
\* What the chip makes of a command.
LEMMA ObeyTyped ==
    ASSUME NEW c \in ChipStates, NEW cmd \in Commands
    PROVE  /\ Obey(c, cmd) \in ChipStates
           /\ Obey(c, cmd).idle = c.idle
           /\ cmd # "WRSR" => /\ Obey(c, cmd).cycle = c.cycle
                              /\ Obey(c, cmd).protected = c.protected
           /\ Obey(c, cmd).protected => c.protected
           /\ Obey(c, cmd).cycle \in {c.cycle, "status"}
           /\ cmd # "EN4B" /\ Obey(c, cmd).four => c.four
           /\ cmd \notin {"EN4B", "RST"} => Obey(c, cmd).four = c.four
           /\ c.reset => Obey(c, cmd).reset
  <1> DEFINE d == [c EXCEPT !.armed = FALSE]
             Kept(o) == /\ o \in ChipStates /\ o.idle = c.idle
                        /\ o.protected => c.protected
                        /\ o.cycle \in {c.cycle, "status"}
                        /\ c.reset => o.reset
             Mild(o) == /\ Kept(o) /\ o.cycle = c.cycle
                        /\ o.protected = c.protected /\ o.four = c.four
  <1>1. Mild(c)
    OBVIOUS
  <1>2. Mild(d) /\ d \in ChipStates
    BY DEF ChipStates
  <1>3. PICK x : x = d
    OBVIOUS
  <1>4. x \in ChipStates /\ Mild(x)
    BY <1>2, <1>3
  <1>5. Mild([x EXCEPT !.wel = TRUE]) /\ Mild([x EXCEPT !.ewsr = TRUE])
    BY <1>4 DEF ChipStates
  <1>6. Mild([x EXCEPT !.armed = TRUE])
    BY <1>4 DEF ChipStates
  <1>7. LET o == [x EXCEPT !.ewsr = FALSE, !.protected = FALSE]
        IN  Kept(o) /\ o.cycle = c.cycle /\ o.four = c.four
    BY <1>4 DEF ChipStates
  <1>8. LET o == [x EXCEPT !.cycle = "status"]
        IN  Kept(o) /\ o.protected = c.protected /\ o.four = c.four
    BY <1>4 DEF ChipStates
  <1>9. LET o == [x EXCEPT !.four = TRUE]
        IN  Kept(o) /\ o.cycle = c.cycle /\ o.protected = c.protected
    BY <1>4 DEF ChipStates
  <1>10. LET o == [x EXCEPT !.wel = FALSE, !.ewsr = FALSE, !.four = FALSE, !.reset = TRUE]
         IN  Kept(o) /\ o.cycle = c.cycle /\ o.protected = c.protected /\ ~o.four
    BY <1>4 DEF ChipStates
  <1> DEFINE Other == Obey(c, cmd) \in {c, x}
  <1>11. cmd \in {"RDID", "SFDP", "RDSR"} => Other
    BY <1>3, Zenon DEF Obey
  <1>12. cmd = "WREN" => Other \/ Obey(c, cmd) = [x EXCEPT !.wel = TRUE]
    BY <1>3, Zenon DEF Obey
  <1>13. cmd = "EWSR" => Other \/ Obey(c, cmd) = [x EXCEPT !.ewsr = TRUE]
    BY <1>3, Zenon DEF Obey
  <1>14. cmd = "WRSR" => \/ Other \/ Obey(c, cmd) = [x EXCEPT !.cycle = "status"]
                         \/ Obey(c, cmd) = [x EXCEPT !.ewsr = FALSE, !.protected = FALSE]
    BY <1>3, Zenon DEF Obey
  <1>15. cmd = "EN4B" => Other \/ Obey(c, cmd) = [x EXCEPT !.four = TRUE]
    BY <1>3, Zenon DEF Obey
  <1>16. cmd = "RSTEN" => Other \/ Obey(c, cmd) = [x EXCEPT !.armed = TRUE]
    BY <1>3, Zenon DEF Obey
  <1>17. cmd = "RST" => Other \/ Obey(c, cmd) = [x EXCEPT !.wel = FALSE, !.ewsr = FALSE,
                                                          !.four = FALSE, !.reset = TRUE]
    BY <1>3, Zenon DEF Obey
  <1> DEFINE P(o) == /\ Kept(o)
                     /\ cmd # "WRSR" => o.cycle = c.cycle /\ o.protected = c.protected
                     /\ cmd # "EN4B" /\ o.four => c.four
                     /\ cmd \notin {"EN4B", "RST"} => o.four = c.four
  <1>18. P(c) /\ P(x)
    BY <1>1, <1>4
  <1>19. PICK o : o = Obey(c, cmd)
    OBVIOUS
  <1>20. P(o)
    <2>1. CASE cmd \in {"RDID", "SFDP", "RDSR"}
      BY <2>1, <1>11, <1>18, <1>19
    <2>2. CASE cmd = "WREN"
      BY <2>2, <1>5, <1>12, <1>18, <1>19
    <2>3. CASE cmd = "EWSR"
      BY <2>3, <1>5, <1>13, <1>18, <1>19
    <2>4. CASE cmd = "WRSR"
      BY <2>4, <1>7, <1>8, <1>14, <1>18, <1>19
    <2>5. CASE cmd = "EN4B"
      BY <2>5, <1>9, <1>15, <1>18, <1>19
    <2>6. CASE cmd = "RSTEN"
      BY <2>6, <1>6, <1>16, <1>18, <1>19
    <2>7. CASE cmd = "RST"
      BY <2>7, <1>10, <1>17, <1>18, <1>19
    <2>8. QED
      BY <2>1, <2>2, <2>3, <2>4, <2>5, <2>6, <2>7 DEF Commands
  <1>21. QED
    BY <1>19, <1>20
\* What one transfer does, whether it fails or not.
Quietly(x) == ~x.lost /\ ~x.busy

LEMMA Transferred ==
    ASSUME Types, NEW cmd \in Commands, NEW x \in Transfers, Wire(cmd, x)
    PROVE  /\ x.lost \in BOOLEAN /\ x.ok \in BOOLEAN /\ x.busy \in BOOLEAN /\ x.wel \in BOOLEAN
           /\ x.lost => chip' = chip /\ ~x.busy /\ ~x.wel
           /\ ~x.lost => /\ chip' = Obey(chip, cmd)
                         /\ x.busy <=> chip.cycle # "none"
                         /\ x.wel <=> chip.wel
           /\ faults' \in 0 .. MaxFaults
           /\ faults' = MaxFaults => x.ok /\ ~x.lost /\ faults = MaxFaults
           /\ deceived' \in BOOLEAN /\ (deceived => deceived') /\ (x.ok /\ x.lost => deceived')
           /\ chip' \in ChipStates /\ chip'.idle = chip.idle
           /\ cmd # "WRSR" => chip'.cycle = chip.cycle /\ chip'.protected = chip.protected
           /\ chip'.protected => chip.protected
           /\ chip'.cycle \in {chip.cycle, "status"}
           /\ cmd # "EN4B" /\ chip'.four => chip.four
           /\ cmd \notin {"EN4B", "RST"} => chip'.four = chip.four
           /\ chip.reset => chip'.reset
  <1>1. /\ chip \in ChipStates /\ faults \in 0 .. MaxFaults /\ MaxFaults \in Nat
        /\ deceived \in BOOLEAN
    BY InitAssumption DEF Types
  <1>2. /\ x.lost \in BOOLEAN /\ x.ok \in BOOLEAN /\ x.busy \in BOOLEAN /\ x.wel \in BOOLEAN
        /\ faults = 0 => x.ok /\ ~x.lost
        /\ x.busy <=> ~x.lost /\ chip.cycle # "none"
        /\ x.wel <=> ~x.lost /\ chip.wel
    BY <1>1 DEF Transfers, ChipStates
  <1>3. /\ chip' = IF x.lost THEN chip ELSE Obey(chip, cmd)
        /\ faults' = IF x.ok /\ ~x.lost THEN faults ELSE faults - 1
        /\ deceived' <=> deceived \/ (x.ok /\ x.lost)
    BY DEF Wire
  <1>4. deceived' \in BOOLEAN
    BY DEF Wire
  <1>5. /\ faults' \in 0 .. MaxFaults
        /\ faults' = MaxFaults => x.ok /\ ~x.lost /\ faults = MaxFaults
    BY <1>1, <1>2, <1>3
  <1>6. CASE x.lost
    BY <1>1, <1>2, <1>3, <1>4, <1>5, <1>6
  <1>7. CASE ~x.lost
    <2>1. chip' = Obey(chip, cmd)
      BY <1>3, <1>7
    <2>2. QED
      BY <1>1, <1>2, <1>3, <1>4, <1>5, <1>7, <2>1, ObeyTyped
  <1>8. QED
    BY <1>2, <1>6, <1>7

\* What a command does to a chip that is not busy.
LEMMA Effects ==
    ASSUME NEW c \in ChipStates, c.cycle = "none"
    PROVE  /\ Obey(c, "EWSR").ewsr
           /\ Obey(c, "WREN").wel
           /\ Obey(c, "EN4B").four
           /\ Obey(c, "RSTEN").armed
           /\ c.armed => Obey(c, "RST").reset
           /\ c.ewsr => ~Obey(c, "WRSR").protected /\ Obey(c, "WRSR").cycle = "none"
           /\ ~c.ewsr /\ c.wel => Obey(c, "WRSR").cycle = "status"
  <1> DEFINE d == [c EXCEPT !.armed = FALSE]
  <1>1. PICK x : x = d
    OBVIOUS
  <1>2. x \in ChipStates /\ x.cycle = c.cycle
    BY <1>1 DEF ChipStates
  <1>3. Obey(c, "EWSR") = [x EXCEPT !.ewsr = TRUE]
    BY <1>1, Zenon DEF Obey
  <1>4. Obey(c, "WREN") = [x EXCEPT !.wel = TRUE]
    BY <1>1, Zenon DEF Obey
  <1>5. Obey(c, "EN4B") = [x EXCEPT !.four = TRUE]
    BY <1>1, Zenon DEF Obey
  <1>6. Obey(c, "RSTEN") = [x EXCEPT !.armed = TRUE]
    BY <1>1, Zenon DEF Obey
  <1>7. c.armed => Obey(c, "RST") = [x EXCEPT !.wel = FALSE, !.ewsr = FALSE, !.four = FALSE,
                                              !.reset = TRUE]
    BY <1>1, Zenon DEF Obey
  <1>8. c.ewsr => Obey(c, "WRSR") = [x EXCEPT !.ewsr = FALSE, !.protected = FALSE]
    BY <1>1, Zenon DEF Obey
  <1>9. ~c.ewsr /\ c.wel => Obey(c, "WRSR") = [x EXCEPT !.cycle = "status"]
    BY <1>1, Zenon DEF Obey
  <1>10. c.ewsr => ~Obey(c, "WRSR").protected /\ Obey(c, "WRSR").cycle = "none"
    BY <1>2, <1>8 DEF ChipStates
  <1>11. ~c.ewsr /\ c.wel => Obey(c, "WRSR").cycle = "status"
    BY <1>2, <1>9 DEF ChipStates
  <1>12. c.armed => Obey(c, "RST").reset
    BY <1>2, <1>7 DEF ChipStates
  <1>13. QED
    BY <1>2, <1>3, <1>4, <1>5, <1>6, <1>10, <1>11, <1>12 DEF ChipStates

\* Reading the status leaves all as it was, but that the chip may no longer
\* be ready for RESET.
LEMMA StatusRead ==
    ASSUME NEW c \in ChipStates
    PROVE  /\ Obey(c, "RDSR").wel = c.wel /\ Obey(c, "RDSR").ewsr = c.ewsr
           /\ device.keepsArmed => Obey(c, "RDSR") = c
  <1> DEFINE d == [c EXCEPT !.armed = FALSE]
  <1>1. Obey(c, "RDSR") = IF device.keepsArmed THEN c ELSE d
    BY Zenon DEF Obey
  <1>2. d.wel = c.wel /\ d.ewsr = c.ewsr
    BY DEF ChipStates
  <1>3. QED
    BY <1>1, <1>2

-----------------------------------------------------------------------------
\* A step that neither protects, unprotects nor changes the chip's mode, nor
\* ends or begins a cycle.
Mild ==
    /\ device' = device /\ retry' \in 0 .. RetryTimes
    /\ chip' \in ChipStates /\ chip'.idle = chip.idle /\ chip'.cycle = chip.cycle
    /\ chip'.protected = chip.protected /\ chip'.four = chip.four
    /\ chip.reset => chip'.reset
    /\ faults' \in 0 .. MaxFaults /\ (faults' = MaxFaults => faults = MaxFaults)
    /\ deceived' \in BOOLEAN /\ (deceived => deceived')

\* What is left of that for a command that may do so.
Steady ==
    /\ device' = device /\ retry' \in 0 .. RetryTimes
    /\ chip' \in ChipStates /\ faults' \in 0 .. MaxFaults
    /\ deceived' \in BOOLEAN /\ (deceived => deceived')

\* A transfer that leaves nothing behind that a later call does not mend.
Harmless ==
    /\ Steady
    /\ chip'.protected => chip.protected
    /\ chip'.cycle \in {chip.cycle, "status"}
    /\ chip'.four => chip.four \/ device.capacity > FourByteLimit

\* The facts that the flash has of the chip do not depend on its marks.
LEMMA KnownKept ==
    ASSUME Known, device' = device,
           flash'.capacity = flash.capacity, flash'.write_mode = flash.write_mode,
           flash'.erase_gran = flash.erase_gran, flash'.erase_gran_cmd = flash.erase_gran_cmd,
           flash'.eraser = flash.eraser, flash'.available => flash.available
    PROVE  Known' /\ (Configured(flash') <=> Configured(flash))
  BY DEF Known, Configured

LEMMA Marked ==
    ASSUME flash \in FlashStates, NEW v \in BOOLEAN, flash' = [flash EXCEPT !.init_ok = v]
    PROVE  /\ flash' \in FlashStates /\ flash'.init_ok = v
           /\ flash'.id = flash.id /\ flash'.available = flash.available
           /\ flash'.capacity = flash.capacity /\ flash'.write_mode = flash.write_mode
           /\ flash'.erase_gran = flash.erase_gran
           /\ flash'.erase_gran_cmd = flash.erase_gran_cmd
           /\ flash'.eraser = flash.eraser /\ flash'.addr_in_4_byte = flash.addr_in_4_byte
  BY DEF FlashStates

\* A call that ends with an error leaves nothing to be kept but what is known.
LEMMA CallEnds ==
    ASSUME IInv, Harmless, pc # "idle", NEW r \in {"ERR_READ", "ERR_WRITE", "ERR_TIMEOUT"},
           Return(r)
    PROVE  IInv'
  <1>1. flash \in FlashStates /\ pc' = "idle" /\ result' = r /\ r # "SUCCESS"
    BY DEF IInv, Types, Return
  <1>2. flash' = [flash EXCEPT !.init_ok = FALSE]
    BY <1>1 DEF Return
  <1>3. /\ flash' \in FlashStates /\ ~flash'.init_ok /\ flash'.id = flash.id
        /\ flash'.available = flash.available
        /\ flash'.capacity = flash.capacity /\ flash'.write_mode = flash.write_mode
        /\ flash'.erase_gran = flash.erase_gran
        /\ flash'.erase_gran_cmd = flash.erase_gran_cmd
        /\ flash'.eraser = flash.eraser
    BY <1>1, <1>2, Marked
  <1>4. Types'
    BY <1>1, <1>3 DEF IInv, Harmless, Steady, Types, Pcs, Results
  <1>5. Known' /\ (Configured(flash') <=> Configured(flash))
    BY <1>3, KnownKept DEF IInv, Harmless, Steady
  <1>6. ~Succeeded'
    BY <1>1 DEF Succeeded
  <1>7. Tested'
    BY <1>1, <1>3, <1>6 DEF Tested, Preparing, Resetting, Unprotecting, Four
  <1>8. Learnt'
    BY <1>1 DEF Learnt
  <1>9. Quiet => Quiet'
    BY <1>1, <1>6 DEF Quiet, Harmless, Steady, Unprotecting, Four
  <1>10. Lifted => Lifted'
    BY <1>1, <1>3, <1>5, <1>6 DEF Lifted, Locked, Harmless, Steady, Four
  <1>11. Obeyed'
    BY <1>1, <1>6 DEF Obeyed, Resetting, Unprotecting, Four
  <1>12. QED
    BY <1>4, <1>5, <1>7, <1>8, <1>9, <1>10, <1>11 DEF IInv, Harmless, Steady

LEMMA CallFails ==
    ASSUME IInv, Mild, pc # "idle", NEW r \in {"ERR_READ", "ERR_WRITE", "ERR_TIMEOUT"},
           Return(r)
    PROVE  IInv'
  <1>1. Harmless
    BY DEF Mild, Harmless, Steady
  <1>2. QED
    BY <1>1, CallEnds

\* A call that goes on, with the flash as it is.
LEMMA CallGoesOn ==
    ASSUME IInv, Steady, NEW n \in Pcs \ {"idle"}, pc' = n, flash' = flash, result' = result
    PROVE  /\ Types' /\ Known' /\ ~Succeeded'
           /\ Configured(flash') <=> Configured(flash)
  <1>1. Types'
    BY DEF IInv, Types, Steady
  <1>2. Known' /\ (Configured(flash') <=> Configured(flash))
    BY KnownKept DEF IInv, Steady
  <1>3. QED
    BY <1>1, <1>2 DEF Succeeded

\* The transfer of a step, if it is not WRSR, EN4B or RST.
LEMMA MildTransfer ==
    ASSUME Types, NEW cmd \in Commands \ {"WRSR", "EN4B", "RST"}, NEW x \in Transfers,
           Wire(cmd, x), device' = device, retry' \in 0 .. RetryTimes
    PROVE  Mild /\ Steady
  <1>1. chip \in ChipStates /\ faults \in 0 .. MaxFaults
    BY DEF Types
  <1>2. faults' = MaxFaults => faults = MaxFaults
    BY Transferred
  <1>3. QED
    BY <1>1, <1>2, Transferred DEF Mild, Steady

\* The driver takes what the standard says a table may be.
LEMMA GoodTablesTaken ==
    ASSUME device \in Devices, HasGoodTables
    PROVE  Takes(Sfdp) /\ InUse(Sfdp) # {}
  <1>1. Standard(Sfdp) /\ InUse(Sfdp) # {}
    BY TablesAssumption DEF HasGoodTables, Sfdp
  <1>2. QED
    BY <1>1 DEF Standard, Takes, HeaderOk, BasicOk, TableOk

-----------------------------------------------------------------------------
\* One lemma for each step of the driver.
LEMMA SfudInitKeeps == ASSUME IInv, sfud_init PROVE IInv'
  <1>1. /\ pc = "idle" /\ device' = device /\ flash' = flash /\ retry' = retry
        /\ faults' = faults /\ deceived' = deceived /\ result' = "none"
        /\ pc' = IF Configured(flash) THEN "check" ELSE "jedec"
        /\ chip' = [chip EXCEPT !.reset = FALSE, !.idle = (chip.cycle = "none")]
    BY DEF sfud_init, ghost, port
  <1>2. /\ chip' \in ChipStates /\ chip'.cycle = chip.cycle
        /\ chip'.protected = chip.protected /\ chip'.four = chip.four
        /\ chip'.idle <=> chip.cycle = "none"
    BY <1>1 DEF IInv, Types, ChipStates
  <1>3. Types'
    BY <1>1, <1>2 DEF IInv, Types, Pcs, Results
  <1>4. Known' /\ (Configured(flash') <=> Configured(flash))
    BY <1>1, KnownKept DEF IInv
  <1>5. ~Succeeded' /\ pc' \in {"check", "jedec"} /\ (pc' = "check" => Configured(flash))
    BY <1>1 DEF Succeeded
  <1>6. Tested'
    BY <1>1, <1>5 DEF Tested, Preparing, Resetting, Unprotecting, Four
  <1>7. Learnt'
    BY <1>1, <1>2, <1>4, <1>5 DEF Learnt, Clean
  <1>8. Quiet => Quiet'
    BY <1>1, <1>2, <1>5 DEF Quiet, Unprotecting, Four
  <1>9. Lifted => Lifted'
    BY <1>1, <1>2, <1>4, <1>5 DEF Lifted, Locked, Four
  <1>10. Obeyed'
    BY <1>1, <1>2, <1>5 DEF Obeyed, Resetting, Unprotecting, Four
  <1>11. QED
    BY <1>3, <1>4, <1>6, <1>7, <1>8, <1>9, <1>10, <1>1 DEF IInv

LEMMA JedecKeeps == ASSUME IInv, read_jedec_id PROVE IInv'
  <1>1. PICK x \in Transfers :
          /\ Wire("RDID", x)
          /\ IF x.ok
             THEN /\ flash' = [flash EXCEPT !.id = IF Answers(x) THEN device.id ELSE NoId]
                  /\ pc' = "header" /\ UNCHANGED result
             ELSE Return("ERR_READ")
    BY DEF read_jedec_id
  <1>2. pc = "jedec" /\ device' = device /\ retry' = retry
    BY DEF read_jedec_id, ghost
  <1>3. Types /\ retry \in 0 .. RetryTimes /\ "RDID" \in Commands \ {"WRSR", "EN4B", "RST"}
    BY DEF IInv, Types, Commands
  <1>4. Mild /\ Steady
    BY <1>1, <1>2, <1>3, MildTransfer
  <1>5. CASE ~x.ok
    BY <1>1, <1>2, <1>4, <1>5, CallFails
  <1>6. CASE x.ok
    <2>1. /\ flash' = [flash EXCEPT !.id = IF Answers(x) THEN device.id ELSE NoId]
          /\ pc' = "header" /\ result' = result
      BY <1>1, <1>6
    <2>2. flash \in FlashStates /\ device \in Devices
      BY <1>3 DEF Types
    <2>3. PICK id : id = IF Answers(x) THEN device.id ELSE NoId
      OBVIOUS
    <2>4. id \in {NoId} \cup {d.id : d \in Devices} /\ id \in {NoId, device.id}
      BY <2>2, <2>3
    <2>5. flash' = [flash EXCEPT !.id = id]
      BY <2>1, <2>3
    <2>6. /\ flash' \in FlashStates /\ flash'.id = id
          /\ flash'.available = flash.available /\ flash'.init_ok = flash.init_ok
          /\ flash'.capacity = flash.capacity /\ flash'.write_mode = flash.write_mode
          /\ flash'.erase_gran = flash.erase_gran
          /\ flash'.erase_gran_cmd = flash.erase_gran_cmd
          /\ flash'.eraser = flash.eraser
      BY <2>2, <2>4, <2>5 DEF FlashStates
    <2>7. Types'
      BY <1>2, <1>4, <2>1, <2>4, <2>6 DEF IInv, Types, Mild, Pcs
    <2>8. Known'
      BY <1>2, <2>6, KnownKept DEF IInv
    <2>9. ~Succeeded'
      BY <2>1 DEF Succeeded
    <2>10. Tested'
      BY <2>1, <2>9 DEF Tested, Preparing, Resetting, Unprotecting, Four
    <2>11. Learnt'
      <3>1. SUFFICES ASSUME Clean'
                     PROVE  chip'.cycle = "none" /\ flash'.id = device.id
        BY <1>2, <2>1 DEF Learnt
      <3>2. Clean /\ faults' = MaxFaults
        BY <1>4, <3>1 DEF Clean, Mild
      <3>3. chip.cycle = "none"
        BY <1>2, <3>2 DEF IInv, Learnt
      <3>4. ~x.lost /\ ~x.busy
        BY <1>1, <1>3, <3>2, <3>3, Transferred
      <3>5. QED
        BY <1>4, <2>3, <2>6, <3>3, <3>4 DEF Answers, Mild
    <2>12. Quiet => Quiet'
      BY <1>2, <1>4, <2>1, <2>9 DEF Quiet, Mild, Unprotecting, Four
    <2>13. ~deceived' /\ Lifted => Lifted'
      <3>1. SUFFICES ASSUME ~deceived', Lifted, Locked' PROVE flash'.id = device.id
        BY <1>2, <1>4, <2>1, <2>9 DEF Lifted, Mild, Four
      <3>2. Locked /\ chip.cycle \in {"none", "erase", "status"}
        BY <1>3, <1>4, <3>1 DEF Locked, Mild, Types, ChipStates
      <3>3. chip.cycle = "none"
        BY <3>1, <3>2 DEF Lifted, Locked
      <3>4. ~x.lost /\ ~x.busy
        BY <1>1, <1>3, <1>6, <3>1, <3>3, Transferred
      <3>5. QED
        BY <2>3, <2>6, <3>4 DEF Answers
    <2>14. Obeyed => Obeyed'
      BY <1>2, <1>4, <2>1, <2>9 DEF Obeyed, Mild, Resetting, Unprotecting, Four
    <2>15. QED
      BY <2>7, <2>8, <2>10, <2>11, <2>12, <2>13, <2>14, <1>4 DEF IInv, Steady
  <1>7. QED
    BY <1>5, <1>6
LEMMA HeaderKeeps == ASSUME IInv, read_sfdp_header PROVE IInv'
  <1>1. PICK x \in Transfers :
          /\ Wire("SFDP", x)
          /\ pc' = IF HasTables(x) /\ HeaderOk(Sfdp) THEN "basic" ELSE "lookup"
    BY DEF read_sfdp_header
  <1>2. /\ pc = "header" /\ device' = device /\ retry' = retry /\ result' = result
        /\ flash' = [flash EXCEPT !.available = FALSE]
    BY DEF read_sfdp_header, ghost
  <1>3. Types /\ retry \in 0 .. RetryTimes /\ "SFDP" \in Commands \ {"WRSR", "EN4B", "RST"}
    BY DEF IInv, Types, Commands
  <1>4. Mild /\ Steady
    BY <1>1, <1>2, <1>3, MildTransfer
  <1>5. /\ flash' \in FlashStates /\ flash'.id = flash.id /\ ~flash'.available
        /\ flash'.capacity = flash.capacity /\ flash'.write_mode = flash.write_mode
        /\ flash'.erase_gran = flash.erase_gran
        /\ flash'.erase_gran_cmd = flash.erase_gran_cmd
        /\ flash'.eraser = flash.eraser
    BY <1>2, <1>3 DEF Types, FlashStates
  <1>6. Types'
    BY <1>1, <1>2, <1>4, <1>5 DEF IInv, Types, Mild, Pcs
  <1>7. Known' /\ (Configured(flash') <=> Configured(flash))
    BY <1>2, <1>5, KnownKept DEF IInv
  <1>8. pc' \in {"basic", "lookup"} /\ (pc' = "basic" => HasTables(x) /\ HeaderOk(Sfdp))
    BY <1>1
  <1>9. ~Succeeded'
    BY <1>8 DEF Succeeded
  <1>10. Tested'
    BY <1>2, <1>5, <1>8, <1>9
       DEF Tested, HasTables, Preparing, Resetting, Unprotecting, Four, Sfdp
  <1>11. Learnt'
    <2>1. SUFFICES ASSUME Clean'
                   PROVE  /\ chip'.cycle = "none" /\ flash'.id = device.id
                          /\ pc' = "lookup" => ~HasGoodTables
      BY <1>2, <1>8 DEF Learnt, HasGoodTables
    <2>2. Clean /\ faults' = MaxFaults
      BY <1>4, <2>1 DEF Clean, Mild
    <2>3. chip.cycle = "none" /\ flash.id = device.id
      BY <1>2, <2>2 DEF IInv, Learnt
    <2>4. ~x.lost /\ ~x.busy /\ x.ok
      BY <1>1, <1>3, <2>2, <2>3, Transferred
    <2>5. HasGoodTables => HeaderOk(Sfdp) /\ device.sfdp # <<>>
      BY <1>3, GoodTablesTaken DEF HasGoodTables, Types, Takes
    <2>6. QED
      BY <1>1, <1>4, <1>5, <2>3, <2>4, <2>5 DEF HasTables, Answers, Mild
  <1>12. Quiet => Quiet'
    BY <1>2, <1>4, <1>8, <1>9 DEF Quiet, Mild, Unprotecting, Four
  <1>13. Lifted => Lifted'
    BY <1>2, <1>4, <1>5, <1>8, <1>9 DEF Lifted, Locked, Mild, Four
  <1>14. Obeyed => Obeyed'
    BY <1>2, <1>4, <1>8, <1>9 DEF Obeyed, Mild, Resetting, Unprotecting, Four
  <1>15. QED
    BY <1>6, <1>7, <1>10, <1>11, <1>12, <1>13, <1>14, <1>4 DEF IInv, Steady

LEMMA BasicKeeps == ASSUME IInv, read_basic_header PROVE IInv'
  <1>1. PICK x \in Transfers :
          /\ Wire("SFDP", x)
          /\ Step(IF HasTables(x) /\ BasicOk(Sfdp) THEN "table" ELSE "lookup")
    BY DEF read_basic_header
  <1>2. /\ pc = "basic" /\ device' = device /\ retry' = retry /\ result' = result
        /\ flash' = flash
    BY <1>1 DEF read_basic_header, ghost, Step
  <1>3. Types /\ retry \in 0 .. RetryTimes /\ "SFDP" \in Commands \ {"WRSR", "EN4B", "RST"}
    BY DEF IInv, Types, Commands
  <1>4. Mild /\ Steady
    BY <1>1, <1>2, <1>3, MildTransfer
  <1>5. pc' \in {"table", "lookup"} /\ (pc' = "table" <=> HasTables(x) /\ BasicOk(Sfdp))
    BY <1>1 DEF Step
  <1>6. Types' /\ Known' /\ ~Succeeded'
    BY <1>2, <1>4, <1>5, CallGoesOn DEF Pcs
  <1>7. device.sfdp # <<>> /\ HeaderOk(Sfdp) /\ ~flash.available
    BY <1>2 DEF IInv, Tested
  <1>8. Tested'
    BY <1>2, <1>5, <1>6, <1>7
       DEF Tested, Preparing, Resetting, Unprotecting, Four, Sfdp
  <1>9. Learnt'
    <2>1. SUFFICES ASSUME Clean'
                   PROVE  /\ chip'.cycle = "none" /\ flash'.id = device.id
                          /\ pc' = "lookup" => ~HasGoodTables
      BY <1>2, <1>5 DEF Learnt, HasGoodTables
    <2>2. Clean /\ faults' = MaxFaults
      BY <1>4, <2>1 DEF Clean, Mild
    <2>3. chip.cycle = "none" /\ flash.id = device.id
      BY <1>2, <2>2 DEF IInv, Learnt
    <2>4. ~x.lost /\ ~x.busy /\ x.ok
      BY <1>1, <1>3, <2>2, <2>3, Transferred
    <2>5. HasGoodTables => BasicOk(Sfdp)
      BY <1>3, GoodTablesTaken DEF HasGoodTables, Types, Takes
    <2>6. QED
      BY <1>2, <1>4, <1>5, <1>7, <2>3, <2>4, <2>5 DEF HasTables, Answers, Mild
  <1>10. Quiet => Quiet'
    BY <1>2, <1>4, <1>5, <1>6 DEF Quiet, Mild, Unprotecting, Four
  <1>11. Lifted => Lifted'
    BY <1>2, <1>4, <1>5, <1>6 DEF Lifted, Locked, Mild, Four
  <1>12. Obeyed => Obeyed'
    BY <1>2, <1>4, <1>5, <1>6 DEF Obeyed, Mild, Resetting, Unprotecting, Four
  <1>13. QED
    BY <1>6, <1>8, <1>9, <1>10, <1>11, <1>12, <1>4 DEF IInv, Steady

LEMMA LookUpKeeps == ASSUME IInv, LookUp PROVE IInv'
  <1>1. /\ pc = "lookup" /\ pc' = "check" /\ device' = device /\ chip' = chip
        /\ retry' = retry /\ result' = result /\ faults' = faults /\ deceived' = deceived
    BY DEF LookUp, ghost, port
  <1>2. Types /\ device \in Devices /\ flash \in FlashStates /\ flash.id \in {NoId, device.id}
    BY DEF IInv, Types
  <1>3. ~flash.available /\ ~Succeeded'
    BY <1>1 DEF IInv, Tested, Succeeded
  <1>4. CASE flash.id \in DOMAIN ChipTable
    <2>1. flash.id = device.id
      BY <1>2, <1>4, ChipTableAssumption
    <2>2. PICK c : c = ChipTable[device.id]
      OBVIOUS
    <2>3. /\ c.capacity = device.capacity
          /\ c.write_mode # {} /\ c.write_mode \subseteq device.write_mode
          /\ <<c.erase_gran, c.erase_gran_cmd>> \in device.erasers
          /\ device.protected => "aai" \in c.write_mode \/ device.id = MX25L3206E
      BY <1>2, <1>4, <2>1, <2>2, ChipTableAssumption
    <2>4. /\ device.capacity \in 1 .. 2 ^ Width - 1 /\ device.write_mode \subseteq Modes
          /\ device.erasers \subseteq Positive \X Positive
      BY <1>2, ChipsAssumption DEF Modes, Positive
    <2>5. c.erase_gran \in Positive /\ c.erase_gran_cmd \in Positive
      BY <2>3, <2>4
    <2>6. flash' = [flash EXCEPT !.capacity = c.capacity, !.write_mode = c.write_mode,
                                 !.erase_gran = c.erase_gran,
                                 !.erase_gran_cmd = c.erase_gran_cmd]
      BY <1>4, <2>1, <2>2 DEF LookUp
    <2>7. PICK n, w, g, k : n = c.capacity /\ w = c.write_mode /\ g = c.erase_gran
                            /\ k = c.erase_gran_cmd
      OBVIOUS
    <2>8. /\ n \in 0 .. 2 ^ Width - 1 /\ n # 0 /\ w \subseteq Modes /\ w # {}
          /\ g \in Nat /\ g # 0 /\ k \in Nat /\ k # 0
      BY <2>3, <2>4, <2>5, <2>7 DEF Positive
    <2>9. flash' = [flash EXCEPT !.capacity = n, !.write_mode = w, !.erase_gran = g,
                                 !.erase_gran_cmd = k]
      BY <2>6, <2>7
    <2>10. /\ flash' \in FlashStates /\ flash'.id = flash.id
           /\ flash'.available = flash.available
           /\ flash'.capacity = n /\ flash'.write_mode = w
           /\ flash'.erase_gran = g /\ flash'.erase_gran_cmd = k
      BY <1>2, <2>8, <2>9 DEF FlashStates
    <2>11. Configured(flash')
      BY <2>8, <2>10 DEF Configured
    <2>12. Types'
      BY <1>1, <2>10 DEF IInv, Types, Pcs
    <2>13. Known'
      BY <1>1, <1>3, <2>3, <2>7, <2>10 DEF Known
    <2>14. Tested'
      BY <1>1, <1>3 DEF Tested, Preparing, Resetting, Unprotecting, Four
    <2>15. Learnt'
      BY <1>1, <2>11 DEF Learnt
    <2>16. Quiet => Quiet'
      BY <1>1, <1>3 DEF Quiet, Unprotecting, Four
    <2>17. Lifted => Lifted'
      BY <1>1, <1>3, <2>10 DEF Lifted, Locked, Four
    <2>18. Obeyed => Obeyed'
      BY <1>1, <1>3 DEF Obeyed, Resetting, Unprotecting, Four
    <2>19. QED
      BY <2>12, <2>13, <2>14, <2>15, <2>16, <2>17, <2>18, <1>1 DEF IInv
  <1>5. CASE flash.id \notin DOMAIN ChipTable
    <2>1. flash' = flash
      BY <1>5 DEF LookUp
    <2>2. Mild /\ Steady
      BY <1>1 DEF IInv, Types, Mild, Steady
    <2>3. Types' /\ Known'
      BY <1>1, <2>1, <2>2, CallGoesOn DEF Pcs
    <2>4. Tested'
      BY <1>1, <1>3 DEF Tested, Preparing, Resetting, Unprotecting, Four
    <2>5. Learnt'
      <3>1. SUFFICES ASSUME Clean' PROVE ~Supported'
        BY <1>1 DEF Learnt
      <3>2. flash.id = device.id /\ ~HasGoodTables
        BY <1>1, <3>1 DEF IInv, Learnt, Clean
      <3>3. QED
        BY <1>1, <1>5, <3>2 DEF Supported, HasGoodTables
    <2>6. Quiet => Quiet'
      BY <1>1, <1>3 DEF Quiet, Unprotecting, Four
    <2>7. Lifted => Lifted'
      BY <1>1, <1>3, <2>1 DEF Lifted, Locked, Four
    <2>8. Obeyed => Obeyed'
      BY <1>1, <1>3 DEF Obeyed, Resetting, Unprotecting, Four
    <2>9. QED
      BY <2>3, <2>4, <2>5, <2>6, <2>7, <2>8, <2>2 DEF IInv, Steady
  <1>6. QED
    BY <1>4, <1>5
\* What the flash is made to say from a table that is taken.
LEMMA TableKnown ==
    ASSUME Types, device.sfdp # <<>>, Takes(Sfdp),
           NEW e, e = Erasers(Sfdp.types),
           NEW g, g = IF Smallest(e) = 0 THEN 0 ELSE e[Smallest(e)][1],
           NEW c, c = IF Smallest(e) = 0 THEN 0 ELSE e[Smallest(e)][2]
    PROVE  /\ e \in Seq(Positive \X Positive) /\ g \in Nat /\ c \in Nat
           /\ InUse(Sfdp) = {} => g = 0
           /\ InUse(Sfdp) # {} =>
                 /\ g # 0 /\ c # 0 /\ <<g, c>> \in device.erasers
                 /\ e[1][1] = g /\ Rising(e)
                 /\ \A a \in device.erasers : g <= a[1]
  <1>1. PICK u, E : u = Sfdp /\ E = device.erasers
    OBVIOUS
  <1>2. device \in Devices /\ u = device.sfdp[1]
    BY <1>1 DEF Types, Sfdp
  <1>3. E \subseteq Positive \X Positive /\ \A a, b \in E : a[1] = b[1] => a = b
    BY <1>1, <1>2, ChipsAssumption DEF Positive
  <1>4. Takes(u)
    BY <1>1
  <1>5. InUse(u) # {} => E = {Eraser(u.types[i]) : i \in InUse(u)}
    <2>1. \A d \in Devices : d.sfdp # <<>> /\ Takes(d.sfdp[1]) /\ InUse(d.sfdp[1]) # {}
             => d.erasers = {Eraser(d.sfdp[1].types[i]) : i \in InUse(d.sfdp[1])}
      BY TablesAssumption
    <2>2. QED
      BY <1>1, <1>2, <1>4, <2>1
  <1>6. \A i, j \in InUse(u) : i # j => Eraser(u.types[i]) # Eraser(u.types[j])
    BY <1>2, <1>4, TablesAssumption, Zenon
  <1>7. \A i \in InUse(u) : Eraser(u.types[i]) \in E
    BY <1>5
  <1>8. e = Erasers(u.types)
    BY <1>1
  <1>9. /\ e \in Seq(E) /\ Rising(e)
        /\ Members(e) = {Eraser(u.types[i]) : i \in InUse(u)}
    <2>1. \A x : x = Erasers(u.types) =>
              /\ x \in Seq(E) /\ Rising(x)
              /\ Members(x) = {Eraser(u.types[i]) : i \in InUse(u)}
      <3>1. E \in SUBSET (Positive \X Positive) /\ \A a, b \in E : a[1] = b[1] => a = b
        BY <1>3
      <3>2. QED
        BY <3>1, <1>6, <1>7, ErasersRise, Zenon
    <2>2. QED
      BY <1>8, <2>1
  <1>10. e \in Seq(Positive \X Positive) /\ Len(e) \in Nat
    BY <1>3, <1>9
  <1>11. CASE InUse(u) = {}
    <2>1. Members(e) = {}
      BY <1>9, <1>11
    <2>2. e = <<>>
      <3>1. \A i \in 1 .. Len(e) : e[i] \in Members(e)
        BY DEF Members
      <3>2. Len(e) = 0
        BY <1>10, <2>1, <3>1
      <3>3. QED
        BY <1>10, <3>2
    <2>3. g = 0 /\ c = 0
      BY <2>2, SmallestOfNone
    <2>4. QED
      BY <1>1, <1>10, <1>11, <2>3
  <1>12. CASE InUse(u) # {}
    <2>1. Members(e) = E /\ E # {}
      BY <1>5, <1>9, <1>12
    <2>2. e # <<>>
      BY <2>1 DEF Members
    <2>3. Smallest(e) = 1 /\ e[1] \in E /\ \A a \in Members(e) : e[1][1] <= a[1]
      BY <1>3, <1>9, <2>2, SmallestIsFirst
    <2>4. g = e[1][1] /\ c = e[1][2]
      BY <2>3
    <2>5. e[1] \in Positive \X Positive /\ e[1] = <<g, c>>
      BY <1>3, <2>3, <2>4
    <2>6. g \in Positive /\ c \in Positive
      BY <2>4, <2>5
    <2>7. /\ g # 0 /\ c # 0 /\ g \in Nat /\ c \in Nat /\ <<g, c>> \in device.erasers
          /\ \A a \in device.erasers : g <= a[1]
      BY <1>1, <2>1, <2>3, <2>4, <2>5, <2>6 DEF Positive
    <2>8. QED
      BY <1>1, <1>9, <1>10, <1>12, <2>4, <2>7
  <1>13. QED
    BY <1>11, <1>12

LEMMA TableKeeps == ASSUME IInv, read_basic_table PROVE IInv'
  <1> DEFINE e == Erasers(Sfdp.types)
             g == IF Smallest(e) = 0 THEN 0 ELSE e[Smallest(e)][1]
             c == IF Smallest(e) = 0 THEN 0 ELSE e[Smallest(e)][2]
  <1>3. PICK x \in Transfers :
          /\ Wire("SFDP", x)
          /\ IF HasTables(x) /\ TableOk(Sfdp)
             THEN /\ flash' = [flash EXCEPT
                         !.available = TRUE, !.eraser = e,
                         !.capacity = Capacity(Sfdp.density),
                         !.write_mode = WriteMode(Sfdp),
                         !.erase_gran = g, !.erase_gran_cmd = c]
                  /\ pc' = "check"
             ELSE pc' = "lookup" /\ UNCHANGED flash
    BY Zenon DEF read_basic_table
  <1>4. pc = "table" /\ device' = device /\ retry' = retry /\ result' = result
    BY DEF read_basic_table, ghost
  <1>5. Types /\ retry \in 0 .. RetryTimes /\ "SFDP" \in Commands \ {"WRSR", "EN4B", "RST"}
    BY DEF IInv, Types, Commands
  <1>6. Mild /\ Steady
    BY <1>3, <1>4, <1>5, MildTransfer
  <1>7. /\ device.sfdp # <<>> /\ HeaderOk(Sfdp) /\ BasicOk(Sfdp) /\ ~flash.available
        /\ device \in Devices /\ flash \in FlashStates
    BY <1>4, <1>5 DEF IInv, Tested, Types
  <1>8. ~Succeeded' /\ pc' \in {"check", "lookup"}
    BY <1>3 DEF Succeeded
  <1>9. Quiet => Quiet'
    BY <1>4, <1>6, <1>8 DEF Quiet, Mild, Unprotecting, Four
  <1>10. Obeyed => Obeyed'
    BY <1>4, <1>6, <1>8 DEF Obeyed, Mild, Resetting, Unprotecting, Four
  <1>11. Clean' => Clean /\ chip.cycle = "none" /\ flash.id = device.id /\ HasTables(x)
    <2>1. SUFFICES ASSUME Clean'
                   PROVE  Clean /\ chip.cycle = "none" /\ flash.id = device.id /\ HasTables(x)
      OBVIOUS
    <2>2. Clean /\ faults' = MaxFaults
      BY <1>6, <2>1 DEF Clean, Mild
    <2>3. chip.cycle = "none" /\ flash.id = device.id
      BY <1>4, <2>2 DEF IInv, Learnt
    <2>4. ~x.lost /\ ~x.busy /\ x.ok
      BY <1>3, <1>5, <2>2, <2>3, Transferred
    <2>5. QED
      BY <1>7, <2>2, <2>3, <2>4 DEF HasTables, Answers
  <1>12. CASE ~(HasTables(x) /\ TableOk(Sfdp))
    <2>1. pc' = "lookup" /\ flash' = flash
      BY <1>3, <1>12
    <2>2. Types' /\ Known'
      BY <1>4, <1>6, <2>1, CallGoesOn DEF Pcs
    <2>3. Tested'
      BY <1>7, <1>8, <2>1 DEF Tested, Preparing, Resetting, Unprotecting, Four
    <2>4. Learnt'
      <3>1. HasGoodTables => TableOk(Sfdp)
        BY <1>7, GoodTablesTaken DEF Takes
      <3>2. Clean' => ~HasGoodTables' /\ flash'.id = device'.id
        BY <1>4, <1>11, <1>12, <2>1, <3>1 DEF HasGoodTables
      <3>3. QED
        BY <2>1, <3>2 DEF Learnt
    <2>5. Lifted => Lifted'
      BY <1>4, <1>6, <1>8, <2>1 DEF Lifted, Locked, Mild, Four
    <2>6. QED
      BY <1>9, <1>10, <2>2, <2>3, <2>4, <2>5, <1>6 DEF IInv, Steady
  <1>13. CASE HasTables(x) /\ TableOk(Sfdp)
    <2>1. Takes(Sfdp)
      BY <1>7, <1>13 DEF Takes
    <2>0. PICK e1, g1, c1 : e1 = e /\ g1 = g /\ c1 = c
      OBVIOUS
    <2>2. /\ e1 \in Seq(Positive \X Positive) /\ g1 \in Nat /\ c1 \in Nat
          /\ InUse(Sfdp) = {} => g1 = 0
          /\ InUse(Sfdp) # {} =>
                /\ g1 # 0 /\ c1 # 0 /\ <<g1, c1>> \in device.erasers
                /\ e1[1][1] = g1 /\ Rising(e1)
                /\ \A a \in device.erasers : g1 <= a[1]
      BY <1>5, <1>7, <2>0, <2>1, TableKnown
    <2>3. PICK n, w : n = Capacity(Sfdp.density) /\ w = WriteMode(Sfdp)
      OBVIOUS
    <2>4. /\ n = device.capacity /\ w \subseteq device.write_mode
          /\ device.protected => device.id = MX25L3206E
      BY <1>7, <2>1, <2>3, TablesAssumption DEF Sfdp
    <2>5. n \in 0 .. 2 ^ Width - 1 /\ n # 0 /\ w \subseteq Modes /\ w # {}
      BY <1>7, <2>3, <2>4, ChipsAssumption DEF Modes, WriteMode
    <2>6. flash' = [flash EXCEPT !.available = TRUE, !.eraser = e1, !.capacity = n,
                                 !.write_mode = w, !.erase_gran = g1, !.erase_gran_cmd = c1]
          /\ pc' = "check"
      BY <1>3, <1>13, <2>0, <2>3
    <2>7. /\ flash' \in FlashStates /\ flash'.id = flash.id
          /\ flash'.available = TRUE /\ flash'.eraser = e1
          /\ flash'.capacity = n /\ flash'.write_mode = w
          /\ flash'.erase_gran = g1 /\ flash'.erase_gran_cmd = c1
      BY <1>7, <2>2, <2>5, <2>6 DEF FlashStates
    <2>8. Types'
      BY <1>4, <1>6, <2>6, <2>7 DEF IInv, Types, Mild, Pcs
    <2>9. Configured(flash') <=> InUse(Sfdp) # {}
      BY <2>2, <2>5, <2>7 DEF Configured
    <2>10. Known'
      BY <1>4, <2>2, <2>4, <2>7, <2>9 DEF Known
    <2>11. Tested'
      BY <1>8, <2>6 DEF Tested, Preparing, Resetting, Unprotecting, Four
    <2>12. Learnt'
      <3>1. InUse(Sfdp) = {} => ~Supported
        BY <1>7, <2>1, GoodTablesTaken, ChipTableAssumption DEF Supported, HasGoodTables, Sfdp
      <3>2. Supported' <=> Supported
        BY <1>4 DEF Supported
      <3>3. Configured(flash') \/ ~Supported'
        BY <2>9, <3>1, <3>2
      <3>4. QED
        BY <2>6, <3>3 DEF Learnt
    <2>13. Lifted => Lifted'
      BY <1>4, <1>6, <1>8, <2>7 DEF Lifted, Locked, Mild, Four
    <2>14. QED
      BY <1>9, <1>10, <2>8, <2>10, <2>11, <2>12, <2>13, <1>6 DEF IInv, Steady
  <1>14. QED
    BY <1>12, <1>13

LEMMA CheckKeeps == ASSUME IInv, Check PROVE IInv'
  <1>1. /\ pc = "check" /\ device' = device /\ chip' = chip /\ retry' = retry
        /\ faults' = faults /\ deceived' = deceived
    BY DEF Check, ghost, port
  <1>2. flash \in FlashStates /\ Mild /\ Steady
    BY <1>1 DEF IInv, Types, Mild, Steady
  <1>3. CASE Configured(flash)
    <2>1. pc' = "rsten" /\ flash' = flash /\ result' = result
      BY <1>3 DEF Check, Step
    <2>2. Types' /\ Known' /\ ~Succeeded' /\ Configured(flash')
      BY <1>1, <1>2, <1>3, <2>1, CallGoesOn DEF Pcs
    <2>3. Tested'
      BY <2>1, <2>2 DEF Tested, Four
    <2>4. Learnt'
      BY <2>1 DEF Learnt
    <2>5. Quiet => Quiet'
      BY <1>1, <2>1, <2>2 DEF Quiet, Unprotecting, Four
    <2>6. Lifted => Lifted'
      BY <1>1, <2>1, <2>2 DEF Lifted, Locked, Four
    <2>7. Obeyed => Obeyed'
      BY <1>1, <2>1, <2>2 DEF Obeyed, Resetting, Unprotecting, Four
    <2>8. QED
      BY <2>2, <2>3, <2>4, <2>5, <2>6, <2>7, <1>2 DEF IInv, Steady
  <1>4. CASE ~Configured(flash)
    <2>1. /\ pc' = "idle" /\ result' = "ERR_NOT_FOUND"
          /\ flash' = [flash EXCEPT !.init_ok = FALSE]
      BY <1>4 DEF Check, Return
    <2>2. /\ flash' \in FlashStates /\ ~flash'.init_ok /\ flash'.id = flash.id
          /\ flash'.available = flash.available
          /\ flash'.capacity = flash.capacity /\ flash'.write_mode = flash.write_mode
          /\ flash'.erase_gran = flash.erase_gran
          /\ flash'.erase_gran_cmd = flash.erase_gran_cmd
          /\ flash'.eraser = flash.eraser
      BY <1>2, <2>1, Marked
    <2>3. Types'
      BY <1>1, <1>2, <2>1, <2>2 DEF IInv, Mild, Types, Pcs, Results
    <2>4. Known' /\ ~Configured(flash')
      BY <1>1, <1>4, <2>2, KnownKept DEF IInv
    <2>5. ~Succeeded'
      BY <2>1 DEF Succeeded
    <2>6. Tested'
      BY <2>1, <2>2, <2>5 DEF Tested, Preparing, Resetting, Unprotecting, Four
    <2>7. Learnt'
      <3>1. Clean' => ~Supported'
        BY <1>1, <1>4 DEF IInv, Learnt, Clean, Supported
      <3>2. QED
        BY <2>1, <3>1 DEF Learnt
    <2>8. Quiet => Quiet'
      BY <1>1, <2>1, <2>5 DEF Quiet, Unprotecting, Four
    <2>9. Lifted => Lifted'
      BY <1>1, <2>1, <2>2, <2>4, <2>5 DEF Lifted, Locked, Four
    <2>10. Obeyed'
      BY <2>1, <2>5 DEF Obeyed, Resetting, Unprotecting, Four
    <2>11. QED
      BY <2>3, <2>4, <2>6, <2>7, <2>8, <2>9, <2>10, <1>2 DEF IInv, Steady
  <1>5. QED
    BY <1>3, <1>4

\* A step of the call that goes on from one of the steps on a configured flash
\* to another.
LEMMA Prepares ==
    ASSUME IInv, Steady, pc \in Preparing, NEW n \in Preparing, pc' = n,
           flash' = flash, result' = result,
           n \in {"wren", "wrenStatus"} => flash.id = MX25L3206E,
           n \in Four => flash.capacity > FourByteLimit
    PROVE  Types' /\ Known' /\ Tested' /\ Learnt' /\ ~Succeeded'
  <1>1. n \in Pcs \ {"idle"}
    BY DEF Preparing, Resetting, Unprotecting, Four, Pcs
  <1>2. Types' /\ Known' /\ ~Succeeded' /\ (Configured(flash') <=> Configured(flash))
    BY <1>1, CallGoesOn
  <1>3. Configured(flash)
    BY DEF IInv, Tested
  <1>4. n \notin {"basic", "table", "lookup", "jedec", "header", "check", "idle"}
    BY DEF Preparing, Resetting, Unprotecting, Four
  <1>5. Tested'
    BY <1>2, <1>3, <1>4 DEF Tested
  <1>6. Learnt'
    BY <1>4 DEF Learnt
  <1>7. QED
    BY <1>2, <1>5, <1>6

\* What a call whose next step is n needs of the chip, when a step is mild.
LEMMA StaysQuiet ==
    ASSUME Quiet, Mild, ~Succeeded', flash' = flash, NEW n, pc' = n,
           n \in Unprotecting \cup Four => chip.cycle = "none",
           n = "addressing" => chip.cycle = "none" \/ device.id = MX25L3206E,
           n = "wrsr" => chip'.ewsr \/ (chip'.wel /\ flash.id = MX25L3206E)
    PROVE  Quiet'
  BY DEF Quiet, Mild

LEMMA StaysLifted ==
    ASSUME Lifted, Mild, ~Succeeded', flash' = flash, pc \in Preparing,
           NEW n \in Preparing, pc' = n,
           n \in Four \cup {"addressing"} => ~Locked
    PROVE  Lifted'
  <1>1. pc \notin {"idle", "jedec"} /\ n \notin {"idle", "jedec"}
    BY DEF Preparing, Resetting, Unprotecting, Four
  <1>2. QED
    BY <1>1 DEF Lifted, Locked, Mild

\* A transfer that is part of the reset or of what follows it.
LEMMA StaysObeyed ==
    ASSUME Obeyed, Mild, ~Succeeded', NEW n \in Preparing, pc' = n,
           chip.idle /\ n \in Resetting => chip.cycle = "none",
           chip.idle /\ n \in {"rstenWait", "rst"} => chip'.armed,
           chip.idle /\ n \notin {"rsten", "rstenWait", "rst"} => chip'.reset
    PROVE  Obeyed'
  <1>1. n \notin {"jedec", "header", "basic", "table", "lookup", "check"}
    BY DEF Preparing, Resetting, Unprotecting, Four
  <1>2. n \in {"rstWait", "addressing"} \cup Unprotecting \cup Four
          => n \notin {"rsten", "rstenWait", "rst"}
    BY DEF Unprotecting, Four
  <1>3. QED
    BY <1>1, <1>2 DEF Obeyed, Mild

\* A transfer reported as done, where none is so that was lost, has reached the
\* chip.
LEMMA Arrived ==
    ASSUME Types, NEW cmd \in Commands, NEW x \in Transfers, Wire(cmd, x), x.ok, ~deceived'
    PROVE  ~x.lost /\ chip' = Obey(chip, cmd) /\ (x.busy <=> chip.cycle # "none")
           /\ (x.wel <=> chip.wel)
  BY Transferred

LEMMA EnableResetKeeps ==
    ASSUME IInv, Send("rsten", "RSTEN", "rstenWait"), retry' = RetryTimes
    PROVE  IInv'
  <1>1. PICK x \in Transfers :
          /\ Wire("RSTEN", x)
          /\ IF x.ok THEN Step("rstenWait") ELSE Return("ERR_WRITE")
    BY DEF Send
  <1>2. pc = "rsten" /\ device' = device
    BY DEF Send, ghost
  <1>3. /\ Types /\ retry' \in 0 .. RetryTimes /\ chip \in ChipStates
        /\ "RSTEN" \in Commands \ {"WRSR", "EN4B", "RST"}
    BY InitAssumption DEF IInv, Types, Commands
  <1>4. Mild /\ Steady
    BY <1>1, <1>2, <1>3, MildTransfer
  <1>5. CASE ~x.ok
    BY <1>1, <1>2, <1>4, <1>5, CallFails
  <1>6. CASE x.ok
    <2>1. pc' = "rstenWait" /\ flash' = flash /\ result' = result
      BY <1>1, <1>6 DEF Step
    <2>2. pc \in Preparing /\ "rstenWait" \in Preparing /\ "rstenWait" \in Resetting
      BY <1>2 DEF Preparing, Resetting
    <2>3. "rstenWait" \notin Unprotecting \cup Four
      BY DEF Unprotecting, Four
    <2>4. Types' /\ Known' /\ Tested' /\ Learnt' /\ ~Succeeded'
      BY <1>4, <2>1, <2>2, <2>3, Prepares
    <2>5. Quiet => Quiet'
      BY <1>4, <2>1, <2>3, <2>4, StaysQuiet
    <2>6. Lifted => Lifted'
      BY <1>4, <2>1, <2>2, <2>3, <2>4, StaysLifted
    <2>7. ~deceived' /\ Obeyed => Obeyed'
      <3>1. SUFFICES ASSUME ~deceived', Obeyed PROVE Obeyed'
        OBVIOUS
      <3>2. chip' = Obey(chip, "RSTEN")
        BY <1>1, <1>3, <1>6, <3>1, Arrived
      <3>3. chip.idle => chip.cycle = "none"
        BY <1>2, <3>1 DEF Obeyed, Resetting
      <3>4. chip.idle => chip'.armed
        BY <1>3, <3>2, <3>3, Effects
      <3>5. QED
        BY <1>4, <2>1, <2>2, <2>4, <3>1, <3>3, <3>4, StaysObeyed
    <2>8. QED
      BY <2>4, <2>5, <2>6, <2>7, <1>4 DEF IInv, Steady
  <1>7. QED
    BY <1>5, <1>6

\* What wait_busy does, wherever it is on the way to: it fails, tries again,
\* or has seen the chip at rest.
LEMMA Waited ==
    ASSUME IInv, NEW at \in {"rstenWait", "rstWait"}, NEW n, WaitBusy(at, n)
    PROVE  /\ pc = at /\ Mild /\ Steady
           /\ ~deceived' /\ device.keepsArmed => chip' = chip
           /\ \/ Return("ERR_TIMEOUT")
              \/ pc' = pc /\ flash' = flash /\ result' = result
              \/ /\ pc' = n /\ flash' = flash /\ result' = result
                 /\ ~deceived' => chip.cycle = "none"
  <1>1. PICK x \in Transfers :
          /\ Wire("RDSR", x)
          /\ CASE x.ok /\ ~x.busy -> Step(n) /\ UNCHANGED retry
               [] (~x.ok \/ x.busy) /\ retry > 0 ->
                    retry' = retry - 1 /\ UNCHANGED <<flash, pc, result>>
               [] OTHER -> Return("ERR_TIMEOUT") /\ UNCHANGED retry
    BY DEF WaitBusy
  <1>2. pc = at /\ device' = device
    BY DEF WaitBusy, ghost
  <1>3. /\ Types /\ retry \in 0 .. RetryTimes /\ RetryTimes \in Nat /\ chip \in ChipStates
        /\ "RDSR" \in Commands \ {"WRSR", "EN4B", "RST"}
    BY InitAssumption DEF IInv, Types, Commands
  <1>4. x.ok \in BOOLEAN /\ x.busy \in BOOLEAN
    BY <1>1, <1>3, Transferred
  <1>5. \/ x.ok /\ ~x.busy /\ Step(n) /\ retry' = retry
        \/ retry > 0 /\ retry' = retry - 1 /\ flash' = flash /\ pc' = pc /\ result' = result
        \/ Return("ERR_TIMEOUT") /\ retry' = retry
    BY <1>1, <1>4, Zenon
  <1>6. retry' \in 0 .. RetryTimes
    BY <1>3, <1>5
  <1>7. Mild /\ Steady
    BY <1>1, <1>2, <1>3, <1>6, MildTransfer
  <1>8. ~deceived' /\ device.keepsArmed => chip' = chip
    BY <1>1, <1>3, Transferred, StatusRead
  <1>9. x.ok /\ ~x.busy /\ ~deceived' => chip.cycle = "none"
    BY <1>1, <1>3, Arrived
  <1>10. QED
    BY <1>2, <1>5, <1>7, <1>8, <1>9 DEF Step

\* To try again is to stay where the call is.
LEMMA TriesAgain ==
    ASSUME IInv, Mild, Steady, pc \in {"rstenWait", "rstWait"},
           pc' = pc, flash' = flash, result' = result,
           ~deceived' /\ device.keepsArmed => chip' = chip
    PROVE  IInv'
  <1>1. PICK n : n = pc
    OBVIOUS
  <1>2. pc' = n /\ n \in Preparing /\ pc \in Preparing /\ n \notin Unprotecting \cup Four
        /\ n \notin {"addressing"}
    BY <1>1 DEF Preparing, Resetting, Unprotecting, Four
  <1>3. n \in {"wren", "wrenStatus", "wrsr"} => n \in Unprotecting
    BY DEF Unprotecting
  <1>4. Types' /\ Known' /\ Tested' /\ Learnt' /\ ~Succeeded'
    BY <1>2, <1>3, Prepares
  <1>5. Quiet => Quiet'
    BY <1>2, <1>3, <1>4, StaysQuiet
  <1>6. Lifted => Lifted'
    BY <1>2, <1>4, StaysLifted
  <1>7. ~deceived' /\ device.keepsArmed /\ Obeyed => Obeyed'
    BY <1>4 DEF Obeyed
  <1>8. QED
    BY <1>4, <1>5, <1>6, <1>7 DEF IInv, Steady

LEMMA EnableResetWaits == ASSUME IInv, WaitBusy("rstenWait", "rst") PROVE IInv'
  <1>1. /\ pc = "rstenWait" /\ Mild /\ Steady
        /\ ~deceived' /\ device.keepsArmed => chip' = chip
        /\ \/ Return("ERR_TIMEOUT")
           \/ pc' = pc /\ flash' = flash /\ result' = result
           \/ pc' = "rst" /\ flash' = flash /\ result' = result
    BY Waited
  <1>2. CASE Return("ERR_TIMEOUT")
    BY <1>1, <1>2, CallFails
  <1>3. CASE pc' = pc /\ flash' = flash /\ result' = result
    BY <1>1, <1>3, TriesAgain
  <1>4. CASE pc' = "rst" /\ flash' = flash /\ result' = result
    <2>1. pc \in Preparing /\ "rst" \in Preparing /\ "rst" \notin Unprotecting \cup Four
      BY <1>1 DEF Preparing, Resetting, Unprotecting, Four
    <2>2. Types' /\ Known' /\ Tested' /\ Learnt' /\ ~Succeeded'
      BY <1>1, <1>4, <2>1, Prepares
    <2>3. Quiet => Quiet'
      BY <1>1, <1>4, <2>1, <2>2, StaysQuiet
    <2>4. Lifted => Lifted'
      BY <1>1, <1>4, <2>1, <2>2, StaysLifted
    <2>5. ~deceived' /\ device.keepsArmed /\ Obeyed => Obeyed'
      <3>1. SUFFICES ASSUME ~deceived', device.keepsArmed, Obeyed PROVE Obeyed'
        OBVIOUS
      <3>2. chip.idle => chip.armed /\ chip.cycle = "none"
        BY <1>1, <3>1 DEF Obeyed, Resetting
      <3>3. QED
        BY <1>1, <1>4, <2>1, <2>2, <3>1, <3>2, StaysObeyed
    <2>6. QED
      BY <2>2, <2>3, <2>4, <2>5, <1>1 DEF IInv, Steady
  <1>5. QED
    BY <1>1, <1>2, <1>3, <1>4

LEMMA ResetKeeps ==
    ASSUME IInv, Send("rst", "RST", "rstWait"), retry' = RetryTimes
    PROVE  IInv'
  <1>1. PICK x \in Transfers :
          /\ Wire("RST", x)
          /\ IF x.ok THEN Step("rstWait") ELSE Return("ERR_WRITE")
    BY DEF Send
  <1>2. pc = "rst" /\ device' = device
    BY DEF Send, ghost
  <1>3. /\ Types /\ retry' \in 0 .. RetryTimes /\ chip \in ChipStates
        /\ faults \in 0 .. MaxFaults /\ "RST" \in Commands
    BY InitAssumption DEF IInv, Types, Commands
  <1>4. CASE ~x.ok
    <2>1. Harmless
      BY <1>1, <1>2, <1>3, Transferred DEF Harmless, Steady
    <2>2. QED
      BY <1>1, <1>2, <1>4, <2>1, CallEnds
  <1>5. CASE x.ok
    <2>1. pc' = "rstWait" /\ flash' = flash /\ result' = result
      BY <1>1, <1>5 DEF Step
    <2>2. /\ pc \in Preparing /\ "rstWait" \in Preparing /\ "rstWait" \in Resetting
          /\ "rstWait" \notin Unprotecting \cup Four
      BY <1>2 DEF Preparing, Resetting, Unprotecting, Four
    <2>3. /\ chip' \in ChipStates /\ chip'.idle = chip.idle /\ chip'.cycle = chip.cycle
          /\ chip'.protected = chip.protected /\ (chip'.four => chip.four)
      BY <1>1, <1>3, Transferred
    <2>4. Steady
      BY <1>1, <1>2, <1>3, Transferred DEF Steady
    <2>5. Types' /\ Known' /\ Tested' /\ Learnt' /\ ~Succeeded'
      BY <2>1, <2>2, <2>4, Prepares
    <2>6. Quiet => Quiet'
      BY <1>2, <2>1, <2>2, <2>3, <2>5 DEF Quiet
    <2>7. Lifted => Lifted'
      BY <1>2, <2>1, <2>2, <2>3, <2>5 DEF Lifted, Locked
    <2>8. ~deceived' /\ Obeyed => Obeyed'
      <3>1. SUFFICES ASSUME ~deceived', Obeyed, chip.idle
                     PROVE  chip.cycle = "none" /\ chip'.reset
        BY <2>1, <2>2, <2>3, <2>5 DEF Obeyed
      <3>2. chip' = Obey(chip, "RST")
        BY <1>1, <1>3, <1>5, <3>1, Arrived
      <3>3. chip.cycle = "none" /\ chip.armed
        BY <1>2, <3>1 DEF Obeyed, Resetting
      <3>4. QED
        BY <1>3, <3>2, <3>3, Effects
    <2>9. QED
      BY <2>5, <2>6, <2>7, <2>8, <2>4 DEF IInv, Steady
  <1>6. QED
    BY <1>4, <1>5

\* Past the reset the driver sets out to lift the protection, unless it takes
\* the chip for one that has none.
LEMMA ResetWaits == ASSUME IInv, WaitBusy("rstWait", Unprotect) PROVE IInv'
  <1>1. PICK n : n = Unprotect
    OBVIOUS
  <1>2. /\ pc = "rstWait" /\ Mild /\ Steady
        /\ ~deceived' /\ device.keepsArmed => chip' = chip
        /\ \/ Return("ERR_TIMEOUT")
           \/ pc' = pc /\ flash' = flash /\ result' = result
           \/ /\ pc' = n /\ flash' = flash /\ result' = result
              /\ ~deceived' => chip.cycle = "none"
    BY <1>1, Waited
  <1>3. CASE Return("ERR_TIMEOUT")
    BY <1>2, <1>3, CallFails
  <1>4. CASE pc' = pc /\ flash' = flash /\ result' = result
    BY <1>2, <1>4, TriesAgain
  <1>5. CASE /\ pc' = n /\ flash' = flash /\ result' = result
             /\ ~deceived' => chip.cycle = "none"
    <2>1. /\ n \in {"ewsr", "wren", "addressing"}
          /\ n = "wren" => flash.id = MX25L3206E
          /\ n = "addressing" => /\ "aai" \notin flash.write_mode
                                 /\ flash.id # MX25L3206E
      BY <1>1 DEF Unprotect
    <2>2. /\ pc \in Preparing /\ n \in Preparing /\ n \notin Four \cup Resetting
          /\ n \notin {"wrenStatus", "wrsr"}
      BY <1>2, <2>1 DEF Preparing, Resetting, Unprotecting, Four
    <2>3. Types' /\ Known' /\ Tested' /\ Learnt' /\ ~Succeeded'
      BY <1>2, <1>5, <2>1, <2>2, Prepares
    <2>4. ~deceived' /\ Quiet => Quiet'
      BY <1>2, <1>5, <2>2, <2>3, StaysQuiet
    <2>5. Lifted => Lifted'
      <3>1. SUFFICES ASSUME Lifted, n = "addressing", Locked PROVE FALSE
        BY <1>2, <1>5, <2>2, <2>3, StaysLifted
      <3>2. Configured(flash) /\ Known /\ device.protected
        BY <1>2, <2>2, <3>1 DEF IInv, Tested, Lifted, Locked
      <3>3. flash.id = device.id
        BY <1>2, <3>1, <3>2 DEF Lifted
      <3>4. QED
        BY <2>1, <3>1, <3>2, <3>3 DEF Known
    <2>6. ~deceived' /\ device.keepsArmed /\ Obeyed => Obeyed'
      <3>1. SUFFICES ASSUME ~deceived', device.keepsArmed, Obeyed PROVE Obeyed'
        OBVIOUS
      <3>2. chip.idle => chip.reset
        BY <1>2, <3>1 DEF Obeyed
      <3>3. QED
        BY <1>2, <1>5, <2>1, <2>2, <2>3, <3>1, <3>2, StaysObeyed
    <2>7. QED
      BY <2>3, <2>4, <2>5, <2>6, <1>2 DEF IInv, Steady
  <1>6. QED
    BY <1>2, <1>3, <1>4, <1>5

\* The commands that make the chip ready for WRSR.
LEMMA VolatileKeeps ==
    ASSUME IInv, Send("ewsr", "EWSR", "wrsr"), retry' = retry
    PROVE  IInv'
  <1>1. PICK x \in Transfers :
          /\ Wire("EWSR", x)
          /\ IF x.ok THEN Step("wrsr") ELSE Return("ERR_WRITE")
    BY DEF Send
  <1>2. pc = "ewsr" /\ device' = device
    BY DEF Send, ghost
  <1>3. /\ Types /\ retry' \in 0 .. RetryTimes /\ chip \in ChipStates
        /\ "EWSR" \in Commands \ {"WRSR", "EN4B", "RST"}
    BY DEF IInv, Types, Commands
  <1>4. Mild /\ Steady
    BY <1>1, <1>2, <1>3, MildTransfer
  <1>5. CASE ~x.ok
    BY <1>1, <1>2, <1>4, <1>5, CallFails
  <1>6. CASE x.ok
    <2>1. pc' = "wrsr" /\ flash' = flash /\ result' = result
      BY <1>1, <1>6 DEF Step
    <2>2. /\ pc \in Preparing /\ "wrsr" \in Preparing /\ pc \in Unprotecting
          /\ "wrsr" \notin Resetting \cup Four
      BY <1>2 DEF Preparing, Resetting, Unprotecting, Four
    <2>3. Types' /\ Known' /\ Tested' /\ Learnt' /\ ~Succeeded'
      BY <1>4, <2>1, <2>2, Prepares
    <2>4. ~deceived' /\ Quiet => Quiet'
      <3>1. SUFFICES ASSUME ~deceived', Quiet PROVE Quiet'
        OBVIOUS
      <3>2. chip' = Obey(chip, "EWSR") /\ chip.cycle = "none"
        BY <1>1, <1>3, <1>6, <2>2, <3>1, Arrived DEF Quiet
      <3>3. chip'.ewsr
        BY <1>3, <3>2, Effects
      <3>4. QED
        BY <1>4, <2>1, <2>3, <3>1, <3>2, <3>3, StaysQuiet
    <2>5. Lifted => Lifted'
      BY <1>4, <2>1, <2>2, <2>3, StaysLifted
    <2>6. Obeyed => Obeyed'
      <3>1. Obeyed /\ chip.idle => chip.reset
        BY <2>2 DEF Obeyed
      <3>2. QED
        BY <1>4, <2>1, <2>2, <2>3, <3>1, StaysObeyed DEF Mild
    <2>7. QED
      BY <2>3, <2>4, <2>5, <2>6, <1>4 DEF IInv, Steady
  <1>7. QED
    BY <1>5, <1>6

LEMMA WriteEnableKeeps ==
    ASSUME IInv, Send("wren", "WREN", "wrenStatus"), retry' = retry
    PROVE  IInv'
  <1>1. PICK x \in Transfers :
          /\ Wire("WREN", x)
          /\ IF x.ok THEN Step("wrenStatus") ELSE Return("ERR_WRITE")
    BY DEF Send
  <1>2. pc = "wren" /\ device' = device
    BY DEF Send, ghost
  <1>3. /\ Types /\ retry' \in 0 .. RetryTimes
        /\ "WREN" \in Commands \ {"WRSR", "EN4B", "RST"}
    BY DEF IInv, Types, Commands
  <1>4. Mild /\ Steady
    BY <1>1, <1>2, <1>3, MildTransfer
  <1>5. CASE ~x.ok
    BY <1>1, <1>2, <1>4, <1>5, CallFails
  <1>6. CASE x.ok
    <2>1. pc' = "wrenStatus" /\ flash' = flash /\ result' = result
      BY <1>1, <1>6 DEF Step
    <2>2. /\ pc \in Preparing /\ "wrenStatus" \in Preparing /\ pc \in Unprotecting
          /\ "wrenStatus" \notin Resetting \cup Four
      BY <1>2 DEF Preparing, Resetting, Unprotecting, Four
    <2>3. flash.id = MX25L3206E
      BY <1>2 DEF IInv, Tested
    <2>4. Types' /\ Known' /\ Tested' /\ Learnt' /\ ~Succeeded'
      BY <1>4, <2>1, <2>2, <2>3, Prepares
    <2>5. Quiet => Quiet'
      <3>1. Quiet => chip.cycle = "none"
        BY <2>2 DEF Quiet
      <3>2. QED
        BY <1>4, <2>1, <2>4, <3>1, StaysQuiet
    <2>6. Lifted => Lifted'
      BY <1>4, <2>1, <2>2, <2>4, StaysLifted
    <2>7. Obeyed => Obeyed'
      <3>1. Obeyed /\ chip.idle => chip.reset
        BY <2>2 DEF Obeyed
      <3>2. QED
        BY <1>4, <2>1, <2>2, <2>4, <3>1, StaysObeyed DEF Mild
    <2>8. QED
      BY <2>4, <2>5, <2>6, <2>7, <1>4 DEF IInv, Steady
  <1>7. QED
    BY <1>5, <1>6

\* What set_write_enabled reads: the call fails, or the chip is seen enabled.
LEMMA SeenEnabled ==
    ASSUME IInv, NEW at, NEW n, WriteEnabled(at, n)
    PROVE  /\ pc = at /\ Mild /\ Steady
           /\ \/ Return("ERR_READ") \/ Return("ERR_WRITE")
              \/ /\ pc' = n /\ flash' = flash /\ result' = result
                 /\ ~deceived' => chip'.wel
  <1>1. PICK x \in Transfers :
          /\ Wire("RDSR", x)
          /\ CASE ~x.ok -> Return("ERR_READ")
               [] x.ok /\ ~x.wel -> Return("ERR_WRITE")
               [] OTHER -> Step(n)
    BY DEF WriteEnabled
  <1>2. pc = at /\ device' = device /\ retry' = retry
    BY DEF WriteEnabled, ghost
  <1>3. /\ Types /\ retry' \in 0 .. RetryTimes /\ chip \in ChipStates
        /\ "RDSR" \in Commands \ {"WRSR", "EN4B", "RST"}
    BY <1>2 DEF IInv, Types, Commands
  <1>4. Mild /\ Steady
    BY <1>1, <1>2, <1>3, MildTransfer
  <1>5. x.ok \in BOOLEAN /\ x.wel \in BOOLEAN
    BY <1>1, <1>3, Transferred
  <1>6. \/ Return("ERR_READ") \/ Return("ERR_WRITE")
        \/ x.ok /\ x.wel /\ Step(n)
    BY <1>1, <1>5, Zenon
  <1>7. x.ok /\ x.wel /\ ~deceived' => chip'.wel
    BY <1>1, <1>3, Arrived, StatusRead
  <1>8. QED
    BY <1>2, <1>4, <1>6, <1>7 DEF Step

LEMMA StatusKeeps == ASSUME IInv, WriteEnabled("wrenStatus", "wrsr") PROVE IInv'
  <1>1. /\ pc = "wrenStatus" /\ Mild /\ Steady
        /\ \/ Return("ERR_READ") \/ Return("ERR_WRITE")
           \/ /\ pc' = "wrsr" /\ flash' = flash /\ result' = result
              /\ ~deceived' => chip'.wel
    BY SeenEnabled
  <1>2. CASE Return("ERR_READ") \/ Return("ERR_WRITE")
    BY <1>1, <1>2, CallFails
  <1>3. CASE /\ pc' = "wrsr" /\ flash' = flash /\ result' = result
             /\ ~deceived' => chip'.wel
    <2>1. /\ pc \in Preparing /\ "wrsr" \in Preparing /\ pc \in Unprotecting
          /\ "wrsr" \notin Resetting \cup Four
      BY <1>1 DEF Preparing, Resetting, Unprotecting, Four
    <2>2. Types' /\ Known' /\ Tested' /\ Learnt' /\ ~Succeeded'
      BY <1>1, <1>3, <2>1, Prepares
    <2>3. ~deceived' /\ Quiet => Quiet'
      <3>1. Quiet => chip.cycle = "none"
        BY <2>1 DEF Quiet
      <3>2. flash.id = MX25L3206E
        BY <1>1 DEF IInv, Tested
      <3>3. QED
        BY <1>1, <1>3, <2>2, <3>1, <3>2, StaysQuiet
    <2>4. Lifted => Lifted'
      BY <1>1, <1>3, <2>1, <2>2, StaysLifted
    <2>5. Obeyed => Obeyed'
      <3>1. Obeyed /\ chip.idle => chip.reset
        BY <2>1 DEF Obeyed
      <3>2. QED
        BY <1>1, <1>3, <2>1, <2>2, <3>1, StaysObeyed DEF Mild
    <2>6. QED
      BY <2>2, <2>3, <2>4, <2>5, <1>1 DEF IInv, Steady
  <1>4. QED
    BY <1>1, <1>2, <1>3

\* WRSR lifts the protection, at once or by a cycle nobody waits for.
LEMMA WriteStatusKeeps ==
    ASSUME IInv, Send("wrsr", "WRSR", "addressing"), retry' = retry
    PROVE  IInv'
  <1>1. PICK x \in Transfers :
          /\ Wire("WRSR", x)
          /\ IF x.ok THEN Step("addressing") ELSE Return("ERR_WRITE")
    BY DEF Send
  <1>2. pc = "wrsr" /\ device' = device
    BY DEF Send, ghost
  <1>3. /\ Types /\ retry' \in 0 .. RetryTimes /\ chip \in ChipStates
        /\ faults \in 0 .. MaxFaults /\ "WRSR" \in Commands
        /\ flash.id \in {NoId, device.id}
    BY DEF IInv, Types, Commands
  <1>4. CASE ~x.ok
    <2>1. Harmless
      BY <1>1, <1>2, <1>3, Transferred DEF Harmless, Steady
    <2>2. QED
      BY <1>1, <1>2, <1>4, <2>1, CallEnds
  <1>5. CASE x.ok
    <2>1. pc' = "addressing" /\ flash' = flash /\ result' = result
      BY <1>1, <1>5 DEF Step
    <2>2. /\ pc \in Preparing /\ "addressing" \in Preparing /\ pc \in Unprotecting
          /\ "addressing" \notin Resetting \cup Unprotecting \cup Four
      BY <1>2 DEF Preparing, Resetting, Unprotecting, Four
    <2>3. Steady
      BY <1>1, <1>2, <1>3, Transferred DEF Steady
    <2>4. Types' /\ Known' /\ Tested' /\ Learnt' /\ ~Succeeded'
      BY <2>1, <2>2, <2>3, Prepares
    <2>5. /\ chip' \in ChipStates /\ chip'.idle = chip.idle /\ chip'.four = chip.four
          /\ chip.reset => chip'.reset
          /\ chip'.protected => chip.protected
      BY <1>1, <1>3, Transferred
    <2>6. ~deceived' /\ Quiet => \/ device.id = MX25L3206E /\ chip'.cycle = "status"
                                 \/ chip'.cycle = "none" /\ ~chip'.protected
      <3>1. SUFFICES ASSUME ~deceived', Quiet
                     PROVE  \/ device.id = MX25L3206E /\ chip'.cycle = "status"
                            \/ chip'.cycle = "none" /\ ~chip'.protected
        OBVIOUS
      <3>2. chip' = Obey(chip, "WRSR")
        BY <1>1, <1>3, <1>5, <3>1, Arrived
      <3>3. /\ chip.cycle = "none"
            /\ chip.ewsr \/ (chip.wel /\ flash.id = MX25L3206E)
        BY <1>2, <2>2, <3>1 DEF Quiet
      <3>4. flash.id = MX25L3206E => device.id = MX25L3206E
        BY <1>3 DEF NoId, MX25L3206E
      <3>5. QED
        BY <1>3, <3>2, <3>3, <3>4, Effects
    <2>7. ~deceived' /\ Quiet => Quiet'
      BY <1>2, <2>1, <2>2, <2>4, <2>5, <2>6 DEF Quiet
    <2>8. ~deceived' /\ Quiet /\ Lifted => Lifted'
      BY <1>2, <2>1, <2>4, <2>5, <2>6 DEF Lifted, Locked
    <2>9. Obeyed => Obeyed'
      BY <1>2, <2>1, <2>2, <2>4, <2>5 DEF Obeyed
    <2>10. QED
      BY <2>4, <2>7, <2>8, <2>9, <2>3 DEF IInv, Steady
  <1>6. QED
    BY <1>4, <1>5

-----------------------------------------------------------------------------
\* The end of a call: all of the flash that the driver has learnt is kept.
LEMMA CallSucceeds ==
    ASSUME NEW v \in BOOLEAN, IInv, Steady, pc \in Preparing,
           pc' = "idle", result' = "SUCCESS",
           flash' = [flash EXCEPT !.addr_in_4_byte = v, !.init_ok = TRUE]
    PROVE  /\ Types' /\ Known' /\ Tested' /\ Learnt'
           /\ flash'.addr_in_4_byte = v /\ flash'.id = flash.id
  <1>1. flash \in FlashStates /\ Configured(flash)
    BY DEF IInv, Types, Tested
  <1>2. /\ flash' \in FlashStates /\ flash'.init_ok /\ flash'.id = flash.id
        /\ flash'.available = flash.available
        /\ flash'.capacity = flash.capacity /\ flash'.write_mode = flash.write_mode
        /\ flash'.erase_gran = flash.erase_gran
        /\ flash'.erase_gran_cmd = flash.erase_gran_cmd
        /\ flash'.eraser = flash.eraser /\ flash'.addr_in_4_byte = v
    BY <1>1 DEF FlashStates
  <1>3. Types'
    BY <1>2 DEF IInv, Types, Steady, Pcs, Results
  <1>4. Known' /\ Configured(flash')
    BY <1>1, <1>2, KnownKept DEF IInv, Steady
  <1>5. Tested'
    BY <1>2, <1>4 DEF Tested, Preparing, Resetting, Unprotecting, Four
  <1>6. Learnt'
    BY DEF Learnt
  <1>7. QED
    BY <1>2, <1>3, <1>4, <1>5, <1>6

LEMMA AddressingKeeps == ASSUME IInv, Addressing PROVE IInv'
  <1>1. /\ pc = "addressing" /\ device' = device /\ chip' = chip /\ retry' = retry
        /\ faults' = faults /\ deceived' = deceived
    BY DEF Addressing, ghost, port
  <1>2. /\ pc \in Preparing /\ pc \notin {"idle", "jedec"}
        /\ "fourWren" \in Preparing /\ "fourWren" \in Four
        /\ "fourWren" \notin Resetting
    BY <1>1 DEF Preparing, Resetting, Unprotecting, Four
  <1>3. Mild /\ Steady
    BY <1>1 DEF IInv, Types, Mild, Steady
  <1>4. /\ flash.capacity = device.capacity
        /\ device.capacity \in 1 .. 2 ^ Width - 1
        /\ device.id = MX25L3206E => device.capacity <= FourByteLimit
    BY <1>2, ChipsAssumption DEF IInv, Tested, Known, Types
  <1>5. device.capacity \in Int /\ FourByteLimit \in Int
    BY <1>4, InitAssumption
  <1>6. CASE flash.capacity > FourByteLimit
    <2>1. pc' = "fourWren" /\ flash' = flash /\ result' = result
      BY <1>6 DEF Addressing, Step
    <2>2. Types' /\ Known' /\ Tested' /\ Learnt' /\ ~Succeeded'
      BY <1>2, <1>3, <1>6, <2>1, Prepares
    <2>3. Quiet => Quiet'
      <3>1. device.id # MX25L3206E
        BY <1>4, <1>5, <1>6
      <3>2. Quiet => chip.cycle = "none"
        BY <1>1, <3>1 DEF Quiet
      <3>3. QED
        BY <1>3, <2>1, <2>2, <3>2, StaysQuiet
    <2>4. Lifted => Lifted'
      <3>1. Lifted => ~Locked
        BY <1>1 DEF Lifted
      <3>2. QED
        BY <1>2, <1>3, <2>1, <2>2, <3>1, StaysLifted
    <2>5. Obeyed => Obeyed'
      <3>1. Obeyed /\ chip.idle => chip.reset
        BY <1>1 DEF Obeyed
      <3>2. QED
        BY <1>2, <1>3, <2>1, <2>2, <3>1, StaysObeyed DEF Mild
    <2>6. QED
      BY <2>2, <2>3, <2>4, <2>5, <1>3 DEF IInv, Steady
  <1>7. CASE ~(flash.capacity > FourByteLimit)
    <2>1. /\ pc' = "idle" /\ result' = "SUCCESS"
          /\ flash' = [flash EXCEPT !.addr_in_4_byte = FALSE, !.init_ok = TRUE]
      BY <1>7 DEF Addressing
    <2>2. /\ Types' /\ Known' /\ Tested' /\ Learnt'
          /\ flash'.addr_in_4_byte = FALSE /\ flash'.id = flash.id
      <3>1. PICK v \in BOOLEAN : v = FALSE
        OBVIOUS
      <3>2. flash' = [flash EXCEPT !.addr_in_4_byte = v, !.init_ok = TRUE]
        BY <2>1, <3>1
      <3>3. QED
        BY <1>2, <1>3, <2>1, <3>1, <3>2, CallSucceeds, Zenon
    <2>3. Quiet => Quiet'
      <3>1. Quiet => ~chip.four
        BY <1>4, <1>7 DEF Quiet
      <3>2. QED
        BY <1>1, <2>1, <2>2, <3>1 DEF Quiet, Unprotecting, Four, IInv, Types, ChipStates
    <2>4. Lifted => Lifted'
      BY <1>1, <2>1, <2>2 DEF Lifted, Locked, Four
    <2>5. Obeyed => Obeyed'
      BY <1>1, <2>1 DEF Obeyed, Resetting, Unprotecting, Four
    <2>6. QED
      BY <2>2, <2>3, <2>4, <2>5, <1>3 DEF IInv, Steady
  <1>8. QED
    BY <1>6, <1>7

LEMMA FourWrenKeeps ==
    ASSUME IInv, Send("fourWren", "WREN", "fourStatus"), retry' = retry
    PROVE  IInv'
  <1>1. PICK x \in Transfers :
          /\ Wire("WREN", x)
          /\ IF x.ok THEN Step("fourStatus") ELSE Return("ERR_WRITE")
    BY DEF Send
  <1>2. pc = "fourWren" /\ device' = device
    BY DEF Send, ghost
  <1>3. /\ Types /\ retry' \in 0 .. RetryTimes
        /\ "WREN" \in Commands \ {"WRSR", "EN4B", "RST"}
    BY DEF IInv, Types, Commands
  <1>4. Mild /\ Steady
    BY <1>1, <1>2, <1>3, MildTransfer
  <1>5. CASE ~x.ok
    BY <1>1, <1>2, <1>4, <1>5, CallFails
  <1>6. CASE x.ok
    <2>1. pc' = "fourStatus" /\ flash' = flash /\ result' = result
      BY <1>1, <1>6 DEF Step
    <2>2. /\ pc \in Preparing /\ "fourStatus" \in Preparing /\ pc \in Four
          /\ "fourStatus" \notin Resetting \cup Unprotecting
          /\ flash.capacity > FourByteLimit
      BY <1>2 DEF Preparing, Resetting, Unprotecting, Four, IInv, Tested
    <2>3. Types' /\ Known' /\ Tested' /\ Learnt' /\ ~Succeeded'
      BY <1>4, <2>1, <2>2, Prepares
    <2>4. Quiet => Quiet'
      <3>1. Quiet => chip.cycle = "none"
        BY <2>2 DEF Quiet
      <3>2. QED
        BY <1>4, <2>1, <2>3, <3>1, StaysQuiet
    <2>5. Lifted => Lifted'
      <3>1. Lifted => ~Locked
        BY <2>2 DEF Lifted
      <3>2. QED
        BY <1>4, <2>1, <2>2, <2>3, <3>1, StaysLifted
    <2>6. Obeyed => Obeyed'
      <3>1. Obeyed /\ chip.idle => chip.reset
        BY <2>2 DEF Obeyed
      <3>2. QED
        BY <1>4, <2>1, <2>2, <2>3, <3>1, StaysObeyed DEF Mild
    <2>7. QED
      BY <2>3, <2>4, <2>5, <2>6, <1>4 DEF IInv, Steady
  <1>7. QED
    BY <1>5, <1>6

LEMMA FourStatusKeeps == ASSUME IInv, WriteEnabled("fourStatus", "four") PROVE IInv'
  <1>1. /\ pc = "fourStatus" /\ Mild /\ Steady
        /\ \/ Return("ERR_READ") \/ Return("ERR_WRITE")
           \/ pc' = "four" /\ flash' = flash /\ result' = result
    BY SeenEnabled
  <1>2. CASE Return("ERR_READ") \/ Return("ERR_WRITE")
    BY <1>1, <1>2, CallFails
  <1>3. CASE pc' = "four" /\ flash' = flash /\ result' = result
    <2>1. /\ pc \in Preparing /\ "four" \in Preparing /\ pc \in Four
          /\ "four" \notin Resetting \cup Unprotecting
          /\ flash.capacity > FourByteLimit
      BY <1>1 DEF Preparing, Resetting, Unprotecting, Four, IInv, Tested
    <2>2. Types' /\ Known' /\ Tested' /\ Learnt' /\ ~Succeeded'
      BY <1>1, <1>3, <2>1, Prepares
    <2>3. Quiet => Quiet'
      <3>1. Quiet => chip.cycle = "none"
        BY <2>1 DEF Quiet
      <3>2. QED
        BY <1>1, <1>3, <2>2, <3>1, StaysQuiet
    <2>4. Lifted => Lifted'
      <3>1. Lifted => ~Locked
        BY <2>1 DEF Lifted
      <3>2. QED
        BY <1>1, <1>3, <2>1, <2>2, <3>1, StaysLifted
    <2>5. Obeyed => Obeyed'
      <3>1. Obeyed /\ chip.idle => chip.reset
        BY <2>1 DEF Obeyed
      <3>2. QED
        BY <1>1, <1>3, <2>1, <2>2, <3>1, StaysObeyed DEF Mild
    <2>6. QED
      BY <2>2, <2>3, <2>4, <2>5, <1>1 DEF IInv, Steady
  <1>4. QED
    BY <1>1, <1>2, <1>3

LEMMA FourKeeps == ASSUME IInv, FourByteAddresses PROVE IInv'
  <1>1. PICK x \in Transfers :
          /\ Wire("EN4B", x)
          /\ IF x.ok
             THEN /\ pc' = "idle" /\ result' = "SUCCESS"
                  /\ flash' = [flash EXCEPT !.addr_in_4_byte = TRUE, !.init_ok = TRUE]
             ELSE Return("ERR_WRITE")
    BY DEF FourByteAddresses
  <1>2. pc = "four" /\ device' = device /\ retry' = retry
    BY DEF FourByteAddresses, ghost
  <1>3. /\ Types /\ retry \in 0 .. RetryTimes /\ chip \in ChipStates
        /\ faults \in 0 .. MaxFaults /\ "EN4B" \in Commands
    BY DEF IInv, Types, Commands
  <1>4. CASE ~x.ok
    <2>1. device.capacity > FourByteLimit
      BY <1>2 DEF IInv, Known, Tested, Preparing, Four
    <2>2. Harmless
      BY <1>1, <1>2, <1>3, <2>1, Transferred DEF Harmless, Steady
    <2>3. QED
      BY <1>1, <1>2, <1>4, <2>2, CallEnds
  <1>5. CASE x.ok
    <2>1. /\ pc' = "idle" /\ result' = "SUCCESS"
          /\ flash' = [flash EXCEPT !.addr_in_4_byte = TRUE, !.init_ok = TRUE]
      BY <1>1, <1>5
    <2>2. pc \in Preparing /\ pc \in Four /\ flash.capacity > FourByteLimit
      BY <1>2 DEF Preparing, Four, IInv, Tested
    <2>3. Steady
      BY <1>1, <1>2, <1>3, Transferred DEF Steady
    <2>4. /\ Types' /\ Known' /\ Tested' /\ Learnt'
          /\ flash'.addr_in_4_byte = TRUE /\ flash'.id = flash.id
      <3>1. PICK v \in BOOLEAN : v = TRUE
        OBVIOUS
      <3>2. flash' = [flash EXCEPT !.addr_in_4_byte = v, !.init_ok = TRUE]
        BY <2>1, <3>1
      <3>3. QED
        BY <2>1, <2>2, <2>3, <3>1, <3>2, CallSucceeds, Zenon
    <2>5. /\ chip'.idle = chip.idle /\ chip'.cycle = chip.cycle
          /\ chip'.protected = chip.protected
          /\ chip.reset => chip'.reset
          /\ chip' \in ChipStates
      BY <1>1, <1>3, Transferred
    <2>6. device.capacity > FourByteLimit
      BY <2>2 DEF IInv, Known, Tested
    <2>7. ~deceived' /\ Quiet => Quiet'
      <3>1. SUFFICES ASSUME ~deceived', Quiet PROVE chip'.four
        BY <1>2, <2>1, <2>4, <2>5, <2>6 DEF Quiet, Unprotecting, Four, ChipStates
      <3>2. chip' = Obey(chip, "EN4B") /\ chip.cycle = "none"
        BY <1>1, <1>3, <1>5, <2>2, <3>1, Arrived DEF Quiet
      <3>3. QED
        BY <1>3, <3>2, Effects
    <2>8. Lifted => Lifted'
      BY <1>2, <2>1, <2>2, <2>4, <2>5 DEF Lifted, Locked, Four
    <2>9. Obeyed => Obeyed'
      BY <1>2, <2>1, <2>2, <2>5 DEF Obeyed, Resetting, Unprotecting, Four
    <2>10. QED
      BY <2>4, <2>7, <2>8, <2>9, <2>3 DEF IInv, Steady
  <1>6. QED
    BY <1>4, <1>5

-----------------------------------------------------------------------------
\* The steps of the chip and the program.
LEMMA CycleEndsKeeps == ASSUME IInv, CycleEnds PROVE IInv'
  <1>1. /\ device' = device /\ flash' = flash /\ pc' = pc /\ retry' = retry
        /\ result' = result /\ faults' = faults /\ deceived' = deceived
        /\ chip.cycle # "none"
        /\ chip' = [chip EXCEPT !.cycle = "none", !.wel = FALSE,
                                !.protected = chip.protected /\ chip.cycle # "status"]
    BY DEF CycleEnds, port
  <1>2. chip \in ChipStates
    BY DEF IInv, Types
  <1>3. /\ chip' \in ChipStates /\ chip'.cycle = "none"
        /\ chip'.protected <=> chip.protected /\ chip.cycle # "status"
        /\ chip'.ewsr = chip.ewsr /\ chip'.armed = chip.armed /\ chip'.four = chip.four
        /\ chip'.idle = chip.idle /\ chip'.reset = chip.reset
    BY <1>1, <1>2 DEF ChipStates
  <1>4. Types'
    BY <1>1, <1>3 DEF IInv, Types
  <1>5. Known' /\ (Configured(flash') <=> Configured(flash))
    BY <1>1, KnownKept DEF IInv
  <1>6. Succeeded' <=> Succeeded
    BY <1>1 DEF Succeeded
  <1>7. Tested'
    BY <1>1, <1>5, <1>6 DEF IInv, Tested, Sfdp
  <1>8. Learnt'
    BY <1>1, <1>3, <1>5 DEF IInv, Learnt, Clean, HasGoodTables, Supported
  <1>9. Quiet => Quiet'
    <2>1. Quiet => pc # "wrsr"
      BY <1>1 DEF Quiet, Unprotecting
    <2>2. QED
      BY <1>1, <1>3, <1>6, <2>1 DEF Quiet
  <1>10. Lifted => Lifted'
    BY <1>1, <1>3, <1>5, <1>6 DEF Lifted, Locked
  <1>11. Obeyed => Obeyed'
    BY <1>1, <1>3, <1>6 DEF Obeyed
  <1>12. QED
    BY <1>4, <1>5, <1>7, <1>8, <1>9, <1>10, <1>11, <1>1 DEF IInv

LEMMA UseKeeps == ASSUME IInv, Use PROVE IInv'
  <1>1. /\ device' = device /\ flash' = flash /\ pc' = pc /\ retry' = retry
        /\ result' = result /\ faults' = faults /\ deceived' = deceived
        /\ pc = "idle" /\ flash.init_ok /\ chip.cycle = "none"
        /\ chip' = [chip EXCEPT !.cycle = "erase", !.wel = TRUE]
    BY DEF Use, port
  <1>2. chip \in ChipStates
    BY DEF IInv, Types
  <1>3. /\ chip' \in ChipStates /\ chip'.cycle = "erase"
        /\ chip'.protected = chip.protected /\ chip'.four = chip.four
        /\ chip'.idle = chip.idle /\ chip'.reset = chip.reset
    BY <1>1, <1>2 DEF ChipStates
  <1>4. Types'
    BY <1>1, <1>3 DEF IInv, Types
  <1>5. Known' /\ (Configured(flash') <=> Configured(flash))
    BY <1>1, KnownKept DEF IInv
  <1>6. Succeeded /\ Succeeded'
    BY <1>1 DEF IInv, Tested, Succeeded
  <1>7. Tested'
    BY <1>1, <1>5, <1>6 DEF IInv, Tested, Sfdp
  <1>8. Learnt'
    BY <1>1, <1>6 DEF Learnt, Succeeded
  <1>9. Quiet => Quiet'
    BY <1>1, <1>3, <1>6 DEF Quiet, Unprotecting, Four
  <1>10. Lifted => Lifted'
    <2>1. Lifted => ~chip.protected
      BY <1>1, <1>6 DEF Lifted, Locked
    <2>2. QED
      BY <1>1, <1>3, <2>1 DEF Lifted, Locked
  <1>11. Obeyed => Obeyed'
    BY <1>1, <1>3, <1>6 DEF Obeyed, Resetting, Unprotecting, Four
  <1>12. QED
    BY <1>4, <1>5, <1>7, <1>8, <1>9, <1>10, <1>11, <1>1 DEF IInv

\* A program that has just begun has learnt nothing.
LEMMA Unlearnt ==
    ASSUME NEW d \in Devices
    PROVE  /\ NoFlash \in FlashStates /\ NoFlash.id = NoId
           /\ ~Configured(NoFlash) /\ ~NoFlash.init_ok
  <1>1. d.capacity \in 1 .. 2 ^ Width - 1
    BY ChipsAssumption
  <1>2. 0 \in 0 .. 2 ^ Width - 1
    BY <1>1, InitAssumption
  <1>3. <<>> \in Seq(Positive \X Positive)
    OBVIOUS
  <1>4. NoFlash \in FlashStates
    BY <1>2, <1>3 DEF FlashStates, NoFlash
  <1>5. QED
    BY <1>4 DEF NoFlash, Configured

LEMMA CrashKeeps == ASSUME IInv, Crash PROVE IInv'
  <1>1. /\ flash' = NoFlash /\ pc' = "idle" /\ retry' = 0 /\ result' = "none"
        /\ device' = device /\ chip' = chip /\ faults' = faults /\ deceived' = deceived
    BY DEF Crash, port
  <1>2. /\ flash' \in FlashStates /\ flash'.id \in {NoId, device'.id}
        /\ ~Configured(flash') /\ ~flash'.init_ok
    <2>1. device \in Devices
      BY DEF IInv, Types
    <2>2. QED
      BY <1>1, <2>1, Unlearnt
  <1>3. Types'
    BY <1>1, <1>2, InitAssumption DEF IInv, Types, Pcs, Results
  <1>4. Known'
    BY <1>2 DEF Known
  <1>5. ~Succeeded'
    BY <1>1 DEF Succeeded
  <1>6. Tested'
    BY <1>1, <1>2, <1>5 DEF Tested, Preparing, Resetting, Unprotecting, Four
  <1>7. Learnt'
    BY <1>1 DEF Learnt
  <1>8. Quiet => Quiet'
    BY <1>1, <1>5 DEF Quiet, Unprotecting, Four
  <1>9. Lifted => Lifted'
    BY <1>1, <1>2, <1>5 DEF Lifted, Locked, Four
  <1>10. Obeyed'
    BY <1>1, <1>5 DEF Obeyed, Resetting, Unprotecting, Four
  <1>11. QED
    BY <1>3, <1>4, <1>6, <1>7, <1>8, <1>9, <1>10, <1>1 DEF IInv

LEMMA StutterKeeps == ASSUME IInv, UNCHANGED vars PROVE IInv'
  <1>1. /\ device' = device /\ chip' = chip /\ flash' = flash /\ pc' = pc
        /\ retry' = retry /\ result' = result /\ faults' = faults /\ deceived' = deceived
    BY DEF vars, port
  <1>2. Types' /\ Known' /\ Tested' /\ Learnt'
    BY <1>1 DEF IInv, Types, Known, Configured, Tested, Succeeded, Sfdp, Learnt, Clean,
                HasGoodTables, Supported
  <1>3. Quiet => Quiet'
    BY <1>1 DEF Quiet, Succeeded
  <1>4. Lifted => Lifted'
    BY <1>1 DEF Lifted, Locked, Configured, Succeeded
  <1>5. Obeyed => Obeyed'
    BY <1>1 DEF Obeyed, Succeeded
  <1>6. QED
    BY <1>2, <1>3, <1>4, <1>5, <1>1 DEF IInv

LEMMA InitHolds == Init => IInv
  <1>1. SUFFICES ASSUME Init PROVE IInv
    OBVIOUS
  <1>2. /\ device \in Devices /\ flash = NoFlash /\ pc = "idle" /\ retry = 0
        /\ result = "none" /\ faults = MaxFaults /\ deceived = FALSE
        /\ chip = PowerOn(device)
    BY <1>1 DEF Init
  <1>3. device.protected \in BOOLEAN
    BY <1>2, ChipsAssumption
  <1>4. /\ chip \in ChipStates /\ chip.cycle = "none" /\ ~chip.four
        /\ chip.protected = device.protected
    BY <1>2, <1>3 DEF PowerOn, ChipStates
  <1>5. /\ flash \in FlashStates /\ flash.id \in {NoId, device.id}
        /\ ~Configured(flash) /\ ~flash.init_ok
    BY <1>2, Unlearnt
  <1>6. Types
    <2>1. MaxFaults \in 0 .. MaxFaults /\ 0 \in 0 .. RetryTimes
      BY InitAssumption
    <2>2. deceived \in BOOLEAN
      BY <1>2
    <2>3. QED
      BY <1>2, <1>4, <1>5, <2>1, <2>2 DEF Types, Pcs, Results
  <1>7. ~Succeeded
    BY <1>2 DEF Succeeded
  <1>8. Known /\ Tested /\ Learnt
    BY <1>2, <1>5, <1>7
       DEF Known, Tested, Learnt, Preparing, Resetting, Unprotecting, Four
  <1>9. Quiet /\ Lifted /\ Obeyed
    BY <1>2, <1>4, <1>5, <1>7
       DEF Quiet, Lifted, Locked, Obeyed, Resetting, Unprotecting, Four
  <1>10. QED
    BY <1>6, <1>8, <1>9 DEF IInv

-----------------------------------------------------------------------------
LEMMA ResettingKeeps == ASSUME IInv, reset PROVE IInv'
  <1>1. CASE Send("rsten", "RSTEN", "rstenWait") /\ retry' = RetryTimes
    BY <1>1, EnableResetKeeps
  <1>2. CASE WaitBusy("rstenWait", "rst")
    BY <1>2, EnableResetWaits
  <1>3. CASE Send("rst", "RST", "rstWait") /\ retry' = RetryTimes
    BY <1>3, ResetKeeps
  <1>4. CASE WaitBusy("rstWait", Unprotect)
    BY <1>4, ResetWaits
  <1>5. QED
    BY <1>1, <1>2, <1>3, <1>4 DEF reset

LEMMA WritingStatusKeeps == ASSUME IInv, sfud_write_status PROVE IInv'
  <1>1. CASE Send("ewsr", "EWSR", "wrsr") /\ retry' = retry
    BY <1>1, VolatileKeeps
  <1>2. CASE Send("wren", "WREN", "wrenStatus") /\ retry' = retry
    BY <1>2, WriteEnableKeeps
  <1>3. CASE WriteEnabled("wrenStatus", "wrsr")
    BY <1>3, StatusKeeps
  <1>4. CASE Send("wrsr", "WRSR", "addressing") /\ retry' = retry
    BY <1>4, WriteStatusKeeps
  <1>5. QED
    BY <1>1, <1>2, <1>3, <1>4 DEF sfud_write_status

LEMMA FourModeKeeps == ASSUME IInv, set_4_byte_address_mode PROVE IInv'
  <1>1. CASE Send("fourWren", "WREN", "fourStatus") /\ retry' = retry
    BY <1>1, FourWrenKeeps
  <1>2. CASE WriteEnabled("fourStatus", "four")
    BY <1>2, FourStatusKeeps
  <1>3. CASE FourByteAddresses
    BY <1>3, FourKeeps
  <1>4. QED
    BY <1>1, <1>2, <1>3 DEF set_4_byte_address_mode

LEMMA StepKeeps == IInv /\ [Next]_vars => IInv'
  <1>1. SUFFICES ASSUME IInv, [Next]_vars PROVE IInv'
    OBVIOUS
  <1>2. CASE sfud_init
    BY <1>1, <1>2, SfudInitKeeps
  <1>3. CASE Driver
    <2>1. CASE read_jedec_id
      BY <1>1, <2>1, JedecKeeps
    <2>2. CASE read_sfdp_header
      BY <1>1, <2>2, HeaderKeeps
    <2>3. CASE read_basic_header
      BY <1>1, <2>3, BasicKeeps
    <2>4. CASE read_basic_table
      BY <1>1, <2>4, TableKeeps
    <2>5. CASE LookUp
      BY <1>1, <2>5, LookUpKeeps
    <2>6. CASE Check
      BY <1>1, <2>6, CheckKeeps
    <2>7. CASE reset
      BY <1>1, <2>7, ResettingKeeps
    <2>8. CASE sfud_write_status
      BY <1>1, <2>8, WritingStatusKeeps
    <2>9. CASE Addressing
      BY <1>1, <2>9, AddressingKeeps
    <2>10. CASE set_4_byte_address_mode
      BY <1>1, <2>10, FourModeKeeps
    <2>11. QED
      BY <1>3, <2>1, <2>2, <2>3, <2>4, <2>5, <2>6, <2>7, <2>8, <2>9, <2>10 DEF Driver
  <1>4. CASE CycleEnds
    BY <1>1, <1>4, CycleEndsKeeps
  <1>5. CASE Use
    BY <1>1, <1>5, UseKeeps
  <1>6. CASE Crash
    BY <1>1, <1>6, CrashKeeps
  <1>7. CASE Rest \/ UNCHANGED vars
    <2>1. UNCHANGED vars
      BY <1>7 DEF Rest
    <2>2. QED
      BY <1>1, <2>1, StutterKeeps
  <1>8. QED
    BY <1>1, <1>2, <1>3, <1>4, <1>5, <1>6, <1>7 DEF Next

LEMMA AlwaysIInv == Spec => []IInv
  BY InitHolds, StepKeeps, PTL DEF Spec

\* Whatever the chip, whatever is lost and wherever the program dies, a step of
\* the start-up (sfud_init, sfud.c) leaves the chip and the driver's sfud_flash in
\* states of their types, and wait_busy's retries between zero and their limit.
THEOREM InitTypes == Spec => []InitTypeOK
  <1>1. IInv => InitTypeOK
    <2>1. SUFFICES ASSUME IInv PROVE InitTypeOK
      OBVIOUS
    <2>2. Types
      BY <2>1 DEF IInv
    <2>3. /\ chip.cycle \in {"none", "erase", "status"}
          /\ {chip.wel, chip.ewsr, chip.armed, chip.four, chip.protected} \subseteq BOOLEAN
      BY <2>2 DEF Types, ChipStates
    <2>4. /\ flash.capacity \in 0 .. 2 ^ Width - 1
          /\ flash.write_mode \subseteq {"byte", "page", "aai", "dual"}
      BY <2>2 DEF Types, FlashStates, Modes
    <2>5. QED
      BY <2>2, <2>3, <2>4 DEF InitTypeOK, Types, Pcs, Results
  <1>2. QED
    BY <1>1, AlwaysIInv, PTL

\* SFUD_ERR_NOT_FOUND (hardware_init, sfud.c) is never the answer to a chip
\* that the driver supports, found idle by a call that lost no transfer: its
\* tables or the static one were found, and say enough.
THEOREM NotFoundTrue == Spec => []NotFoundIsTrue
  <1>1. IInv => NotFoundIsTrue
    BY DEF IInv, Learnt, Clean, NotFoundIsTrue
  <1>2. QED
    BY <1>1, AlwaysIInv, PTL

\* What a successful sfud_init leaves in sfud_flash is true to the chip: size,
\* write mode and erasers from the smallest up (hardware_init, sfud.c;
\* read_basic_table, sfud_sfdp.c), after any calls, crashes and failures, and so
\* is the width of addresses it is set to, if no lost transfer was reported as
\* done.
THEOREM ChipKnown == Spec => []KnowsTheChip
  <1>1. IInv => KnowsTheChip
    <2>1. SUFFICES ASSUME IInv, Succeeded PROVE KnowsTheChip
      BY DEF KnowsTheChip
    <2>2. /\ Configured(flash) /\ flash.init_ok
          /\ ~deceived => flash.addr_in_4_byte = chip.four
      BY <2>1 DEF IInv, Tested, Quiet
    <2>3. flash \in FlashStates
      BY <2>1 DEF IInv, Types
    <2>4. flash.eraser \in Seq(Positive \X Positive)
      BY <2>3 DEF FlashStates
    <2>5. DOMAIN flash.eraser = 1 .. Len(flash.eraser)
      BY <2>4
    <2>6. QED
      BY <2>1, <2>2, <2>5 DEF KnowsTheChip, IInv, Known, Rising
  <1>2. QED
    BY <1>1, AlwaysIInv, PTL

\* A successful sfud_init leaves a chip that takes writes, if no lost transfer
\* was reported as done: its protection is lifted, or is by the cycle under way;
\* and one found idle that stays ready for RESET over the status reads between
\* the two commands of reset (sfud.c) has obeyed the reset.
THEOREM WritesReady == Spec => []ReadyForWrites
  <1>1. IInv => ReadyForWrites
    BY DEF IInv, Lifted, Locked, Obeyed, ReadyForWrites
  <1>2. QED
    BY <1>1, AlwaysIInv, PTL
=============================================================================
